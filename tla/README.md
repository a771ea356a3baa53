# Verification of shimtest

shimtest is a conformance test suite for containerd shims: a Go test binary
that starts a shim, talks to it over TTRPC, and judges it. A bug in it is a
wrong verdict (a bad shim passes, a good one fails), a run that never ends, or
a process left behind. Those are the properties stated here. The TLA+ modules
model the test code; the shim and the programs in the container are external
and are modelled from what the tests expect of them.

All line numbers are those of the repository's root directory.

## Inventory

| Part | State it keeps | Operations | Hard behaviour |
|---|---|---|---|
| Stress loop (`runStress`, `stressCtx`) | outer context, iteration counter | call `fn`, look at the context, skip a stall | `fn` has a detached context; the outer one is looked at only before a call and after a failed one |
| Transfer stress (`testTransfer`) | shim, one goroutine per subtest, `runCtx`, `results` channel, `firstErr` | loop, cancel, send, collect, report, deferred shutdown | failures, cancel and deadline in any order; verdict from a channel |
| Exec stress (`testExec`) | shim, exec goroutines, `WaitGroup`, `firstErr` pointer, sampler goroutine | iterate, exec, compare-and-swap, join, report | the test waits for a goroutine that only the context ends |
| Lifecycle stress (`testLifecycle`, `doFullLifecycle`) | sub-test, shim per iteration, `iterErr` | start, create, start, poll, wait, delete, shutdown | a helper's `Fatal` ends the sub-test without an error; a sub-test fails its parent before the loop has judged its error; RPCs without a timeout; a shim may answer Shutdown and stay |
| Stress suite (`StressSuite.Run`) | time left of the test binary | run the subtests one after the other, leak check | they share one deadline; nothing bounds setups, iterations and teardowns |
| Sandbox stress (`testSandbox`) | sandbox, members, RSS and mounts | three members per iteration, released in turn | partial failure of an iteration |
| Run, exec and transfer suites | one shim, container, exec, FIFOs, drain and writer goroutines | the task API; polls, pauses, waits for EOF | output in flight while the process exits or the shim is shut down |
| Shim environment (`shimenv.go`, `helpers.go`) | shim process, sockets, log reader, cleanups | `newShimEnv`, `startShim`, `shutdownShim`, `deleteShim`, leak check | a failure between start and the deferred shutdown |
| FIFO helpers (`io_unix.go`) | FIFOs, buffers, `done` channels | create, drain, drain with EOF | EOF only when every writer is gone |
| Sandbox suite and helpers | sandbox state, tracked members | create, start, stop, wait, shutdown, member life cycle | cleanups under a context the testing package has cancelled |
| Transfer streams (`internal/transfer`, `transfer_io.go`) | TTRPC stream, copy goroutine, its error, context | marshal, send, receive, wait | the stream is created by marshalling, before the call that names it; the copy goes on after the call has returned |
| Event recorder (`events.go`) | recorded events | forward, `waitForTopic`, order of the topics | an event may come before its waiter, twice, late or never |
| Bootstrap and task API versions (`helpers.go`, `taskclient.go`) | none | parse the bootstrap result, convert v2 and v3 | three formats of one answer |
| Runner (`main_test.go`, `runner_test.go`, `fuzz_test.go`, `config.go`) | configurations, the active one, environment | discover, partition by user, run, fuzz, re-execute | exit status across processes; the active configuration is a global; the fuzz target has its own choice of configuration |
| Layers, network, UDS, OOM suites | as the run suite; a peer on the host and its goroutine | scripts with a connection beside the task calls | who hangs up first, deadlines that begin early, a network attached between Create and Start |
| Windows I/O (`io_windows.go`) | named-pipe listeners | accept, drain | accept goroutine per pipe |
| Container programs, benchmarks, `/proc` readers | none that matters here | — | — |

Interaction: the suites call the environment and FIFO helpers, those start the
shim and its connection, and everything that must be undone goes on the cleanup
stack of the `testing` package or in a `defer`. The stress suite runs all of it
under `runStress`. `registerShimLeakCheck` runs last, and turns a shim that is
still there into a failure of the suite.

`PROJECT.json` lists these parts with their status, and the hazards of the
code, each at its line with the properties that watch it.

## Modules

| Module | Models | Role |
|---|---|---|
| `Soak` | the promise of a stress subtest | abstract specification |
| `StressLoop` | `runStress`: the decision after a call | operators shared by the stress modules |
| `StressTransfer` | `testTransfer`, `transferStressSubtests`, with `newShimEnv`, `skipIfNoTransfer`, `stressCtx`, `shutdownShim` | component |
| `StressExec` | `testExec` of the stress suite, its exec goroutines and sampler | component |
| `StressLifecycle` | `testLifecycle`, `doFullLifecycle`, and the leak check of `StressSuite.Run` | component |
| `StressSuite` | `StressSuite.Run` and `stressCtx` on a clock | component |
| `StressSandbox` | `testSandbox` of the stress suite, with `createSandboxContainerFast`, `releaseSandboxContainer`, `shutdownSandboxShim` | component |
| `TransferStream` | one transfer: `MarshalAny`, the copy goroutine, the call, `Wait`, the reading of the tar | component |
| `Runner`, `MCRunner` | `TestMain`, `discoverConfigs`, `TestShim`, `FuzzTransferMissing`, `reexecAsUser` | component, and its instance for TLC |
| `TaskScripts` | the tests of the run, exec, transfer, network, UDS, OOM and layers suites, and the execs of the stress suite, as sequences of steps; the container's programs | data of `TaskSession` |
| `TaskRules` | what those scripts have in common: the order in which a test uses the task API, its FIFOs and its peer | assumption on the scripts, evaluated by TLC |
| `EventRecorder` | `eventRecorder`, and the order that `testEvents` demands | part of `TaskSession` |
| `NetPeer` | the connection between the container and the test's peer on the host | part of `TaskSession` |
| `TaskSession` | one such test, its goroutines, the FIFOs, the shim, the leak check | composition of test, helpers and shim |
| `Steps` | the steps that scripts are made of | operators shared by the scripts |
| `SandboxScripts` | the thirty tests of the sandbox suite | data of `SandboxSession` |
| `SandboxRules` | what those scripts have in common: the order in which a test uses the sandbox and the task API, and where it would notice a sandbox that misbehaves | assumption on the scripts, evaluated by TLC |
| `SandboxSession` | one such test, its goroutines and cleanups, the sandbox and its members, the leak check | composition of test, helpers and shim |
| `StressTransferProofs`, `StressExecProofs`, `StressSandboxProofs`, `StressSuiteProofs`, `TransferStreamProofs`, `RunnerProofs`, `TaskSessionProofs`, `SandboxSessionProofs` | — | theorems about the module of that name; those of `StressSuiteProofs` are about `StressSuite` and `StressLifecycle` |

`main` (or `phase` and `ip`) is the place of the test goroutine, and `pc`,
`exec`, `sampler` those of the others; an action is the code between two points
at which another goroutine, the timer or the shim can interfere. An error is
one of `nil`, `timeout` (`context.DeadlineExceeded`) and `error`. `t.Fatal` and
`t.Skip` are `Leave` (`Leaves` in `TaskSession`): they abandon the rest of the
function, and what was deferred still runs. `timer` is the deadline of
`stressCtx`: absent without `-test.timeout`, otherwise set and then fired, at
any moment of the soak. Variables called history in the modules (`early`,
`lost`, `fault`, `slow`, `misread`, `longest`,
`chores`, `runs`, `fuzzRuns`, and `failed` of `StressLifecycle`) exist for the properties only.
Definitions whose comment begins with "Mutant of" are not used by any specification: each
is a plausible bug which the properties are shown to notice.

### The promise of a soak

`Soak` says: the soak iterates until it is stopped; a failure counts if it came
before the stop, and then the verdict is "fail"; a pass needs a stop and no
failure that counts. `StressTransfer`, `StressExec` and `StressSandbox` are each
shown to implement it, with `stopped` mapped to the context being done (or the
loop having been left) and `failed` to an error that `runStress` returned.
`StressLifecycle` does not implement it: a failure after the stop fails that test,
as `EveryFailureFails` says.

### The lifecycle soak and the time of the suite

An iteration of `StressLifecycle` is a sub-test. When it fails, `t.Run` marks the
test failed (`tFailed`) and then `runStress` judges what `fn` returned
(`runErr`); `failed` records that an iteration failed, whenever and however. The
shim of the iteration is `up`, has answered Shutdown and still runs (`asked`), or is
`down`: the code sees the answer only. `FnReturned` leaves a shim that still
runs among the `strays`, kept by their state and not one by one; any of them may
exit later (`StrayExits`), and `LeakCheck` looks for them at the end.

`StressSuite` has a clock. A subtest is before `stressCtx` (`begin`), between it
and the loop (`prepare`: `testTransfer` fills its read pool there) or in the loop
(`soak`). Every part takes any time of `Durations`; nothing is assumed of how
these compare with the deadline or the buffer. `longest` is the longest
iteration so far and `chores` the sum of the setups and teardowns.

### The task session

A script step is a call or a local step, the process it concerns, and what the
test does with an error. `rpc` interprets a call by the task protocol as the
tests use it (`Legal`, `Blocked`, `Effect`, external). Output is counted in
chunks: `src` (yet to be written by the process), `held` (in the shim's hands),
`fifo`, `got` (in the test's buffer); the checks of byte counts and CRCs are
comparisons of `got` with what was written. A test runs in one of two worlds: a
conforming one, or a hostile one, in which the shim may also answer a legal
call with an error or drop output, and the test's own timers may fire early.

`TaskRules` states what the thirty-two scripts have in common (a call comes
behind `setup` and before `shutdown`; a process is created once and started
once; a Delete that must succeed comes behind Wait; what is sent is sent before
the output is looked at; a step that may skip the test comes before the process
under test was started). TLC evaluates `ScriptsAssumption` for every script in
every run of `TaskSession`; the proofs know nothing else of the scripts.

Two parts of a session have modules of their own. `EventRecorder` has the events
that the shim has yet to forward (`outbox`) and those recorded (`envelopes`); a
forward may be repeated in either world, at most `MaxRepeats` times, and in the
hostile one an event may be lost or overtaken. `testEvents` scans the recorded
topics once (`scan`, a fold); the model uses `Subsequence`, which says what the
scan finds, and TLC compares the two on all sequences of up to five topics
(`ScanAssumption`; a session records five at most with `MaxRepeats = 1`). `NetPeer` has the connection:
who listens, whether the link is open, what is under way in either direction
and whether the peer has hung up. `nc` ends when both of its copies have ended,
so a test that forgets either the hang-up or `CloseIO` waits for ever. A
program of the container is a record: what it writes, what ends it, and how it
connects (`cmdNC` and the others of `testbin`).

### The transfer stream

`stream` is the TTRPC stream (`sent` until the shim acknowledges the id), `call`
the Transfer call, `copier` the goroutine that `MarshalAny` starts. Data is
counted: `left`, `wire` (at most `Window`), `got`. The shim serves the stream
and the call independently, so a call that names a stream before its
acknowledgement may find nothing. `bounded` tells the callers with a timeout
(the stress suite) from those without (the transfer suite). `ctx` tells an
expired context, which excuses an error, from one that the caller cancelled
when it returned, which excuses nothing.

### The runner

Two processes, `first` and `second`, run the same `TestMain`; the second is
started by `reexecAsUser` for one configuration at a time (`current`) and
knows it by the name of a temporary file (`temp`). In either, `m.Run` executes
`TestShim` and then the seed corpus of `FuzzTransferMissing`, unless a test panics
or `-test.run` does not match it. `testCfg` is the global that `activateConfig` sets
and `featureSkipped` reads. How a test comes out is chosen when it runs. `runs`
records what `TestShim` ran, as which user and with which suites, `fuzzRuns` the
same of the fuzz target. The variables that a configuration sets are not
modelled.

### The sandbox session

`SandboxSession` walks a script in the same way, over the state of the sandbox
(`none`, `created`, `ready`, `stopped`), of its members `a`, `b`, `c` and of the
last exec `x`. `tracked` is `env.containers`; `cleanups` is the stack of the
`testing` package. The cleanups call the shim under `env.ctx`, which derives
from `tb.Context()` and is cancelled before the first of them runs: TTRPC sends
such a request and does not wait for the answer, so it goes into `pending`,
which the shim serves in any order (`Serves`). A misbehaving shim either gives
one wrong answer (`fault`) or answers rightly and breaks the contract behind it
(`breach`): the end of a member stops a peer, a stop is only acknowledged, a
namespace is shared that should not be. Timers fire only in the hostile world;
the pauses of 50 ms may be too short in both (`slow`). Output is followed as
"not printed", "in flight", "captured".

`SandboxRules` states what the thirty scripts have in common. By the helpers
they are written with (`WellFormed`): `createContainerInSandbox` has nothing
between a Start that was answered and the registration of its cleanup. By the
APIs (`SandboxProtocol`, `TaskProtocol`): the sandbox is started behind its
creation, a member is created between the start and the stop of the sandbox, what must
succeed on a running member comes before its Kill, and so on. By their purpose: in
the tests of isolation the end of a member is followed by a look at every other
(`Isolates`), in those of the stop the stop is followed by a look at the sandbox
(`Halts`), and in the test of the UTS namespace the member whose name is read is
waited for behind that read (`Separates`). TLC evaluates `ScriptsAssumption` for every script in the
run of `SandboxSession`; the proofs know nothing else of the scripts.

## Runs

| Run | Result | Shows |
|---|---|---|
| `transfer` | pass | `FailureReported`: no failure is lost in the channel. `BlamedInTime`: no subtest is blamed for an error that came after the stop. `QuiescentShutdown`: the shim is shut down with no transfer in flight. `ImplementsSoak`. `StopEnds`: a failure or the deadline ends the test. |
| `exec` | pass | `NoExecOutlives`: no exec outlives its iteration, and none, that of the sampler included, is in flight when the shim is shut down. `FailFast`: no iteration begins after a failed exec. `ImplementsSoak`, `StopEnds` (by the deadline). |
| `lifecycle` | pass | `NoSilentPileUp`: a shim that was left without an answer to Shutdown has failed the test, and with one that answered and stays the suite does not pass. `EveryFailureFails`: an iteration that failed fails the test, though the loop may not hear of it and goes on, or forgives it as late or as a stall. `StopEnds` if the shim answers. |
| `stress_sandbox` | pass | `NoMemberPileUp`: no iteration begins, and the soak does not end by its deadline, with a member of an earlier iteration in the sandbox. `MembersAskedToGo`: wherever an iteration was left, a Delete was sent for every member whose Start was answered. `FailFast`: no iteration begins after a failed Wait. `ImplementsSoak`, `StopEnds`. |
| `suite` | pass | `BufferHolds`: whatever the subtests do, past the beginning of the buffer the suite spends at most the time of its longest iteration and of its setups and teardowns; so `go test` kills the binary, which skips every cleanup, only if these exceed the buffer. |
| `suite_enabled` | violation | see the findings. |
| `session` | pass | Thirty-two tests. `NoFalseAlarm`: a conforming shim, on a machine fast enough for the test's pauses and timers, is not rejected. `TruncationCaught`: a shim that drops output is not passed. `BreachCaught`: nor is one that loses or reorders events, loses data of a connection or shows files that a layer removed. `Terminates`: with a conforming shim no test waits for ever. |
| `session_skip` | violation | see the findings. |
| `transfer_stream` | pass | `NoFalseAlarm`: a conforming shim knows the stream when the call names it, and is not blamed. `CopyIsWhole`: what is reported as read is whole; what is reported as written is, unless the shim said so too early. `Returns`: the caller and its goroutine end, with a timeout whatever the shim does. |
| `runner` | pass | `ZeroIsSuccess`: exit code 0 means that everything that could run ran and passed, in both processes. `RunsAsConfigured`: `TestShim` runs a configuration at most once, as its user and by its own skip list, whichever was active before; the fuzz target keeps to that list. |
| `runner_named` | violation | see the findings. |
| `sandbox` | pass | Thirty tests. `NoFalseAlarm`: a conforming shim is not rejected, and is gone at the leak check although nobody waits for the cleanups. `BreachCaught`: a shim that gives right answers but breaks isolation or stopping fails the tests that are there for it. `MembersTornDown`: after the cleanups Delete was called for every member that was started. `Terminates`. |

Every run also checks one type invariant. Each property of a passing run has a
mutant of the modelled code that breaks it (`PROJECT.json`, `mutants`).

### Bounds

* `transfer`: three subtests, as in the code. The history of a subtest has no
  counter, so iterations are unbounded.
* `exec`: three exec slots (the code has four; one to fail first, one to fail
  second, one to succeed) and three kinds, as in the code. `VMHost` is FALSE
  there and TRUE in `transfer` and `lifecycle`, whose properties hold on both
  kinds of host; `FailFast` of `exec` does not, see the findings.
* `lifecycle` has no parameter but `VMHost`, which is TRUE: a stall
  is then retried, and with other failures and the deadline around it.
* `stress_sandbox`: three members, as in the code.
* `transfer_stream`: four chunks through a window of two, so the sender blocks
  and the receiver starves; all three kinds of transfer.
* `runner`: three configurations, enough for one in this process and two under
  sudo, each for a user that exists, one that does not, or none; every outcome
  of each and of the fuzz target; three kinds of invoker; three skip lists, so
  that a stale one is a wrong one.
* `suite`: four subtests (the maximum), setups, teardowns and iterations of one or
  three units, a buffer of five and a deadline of twelve. One iteration with its
  teardown may thus outlast the buffer, and the setups alone may use up the
  time before it, so every subtest can be the one that soaks.
* `session`: bursts of four chunks through a FIFO and a shim pipe that hold one
  each. A burst is thus larger than everything between the process and the
  buffer, as 8 MiB is in the code, and every place of the path is both full
  and empty at some point. `testExitCodes` runs one of its six codes; the
  others repeat the same calls. One event may be forwarded twice.

* `sandbox`: every test, with its own number of members (at most three). A
  hostile shim gives one wrong answer per test, at any call; breaches and short
  timers are not limited. They do not begin after the body of the test, when
  nothing looks any more.

The deadlock check is on in the stress runs, which end in an explicit
stuttering step. It is off in the others: what has ended does nothing more,
and `Terminates` and `Returns` say that it does end (`runner` is about
safety only).

### Fairness

Weak fairness of the test goroutine, of every goroutine it starts and of the
timer: the Go scheduler runs what can run. A call that the code bounds by a
timeout returns (`FnReturns`, `ExecReturns`, `SamplerRead`, the output poll,
`Shutdown`). The sampler's `select` chooses at random among its ready cases, so
it is strongly fair to a context that stays done (`SamplerStop`). Nothing is
assumed of the RPCs that `doFullLifecycle` makes without a deadline; only
`AnsweringSpec`, for a conforming shim, adds that they return. `TaskSession`
assumes of the shim and its processes that they go on copying, exiting and
answering, and `SandboxSession` that requests are served; `Terminates` is stated
for the conforming world only. `StressSandbox` assumes that Create, Start and
Delete, which have no timeout, are answered. `TransferStream` is fair to the
shim in the conforming world only: in the other the timeout alone ends a
transfer.

## Findings

* **Only the first stress subtest soaks** (`suite_enabled`): it uses all the
  time up to the buffer, and `stressCtx` then skips the others
  (`stress_suite.go:1105`, `README.md:131`).
* **A skipped transfer test fails the suite** (`session_skip`): the skip comes
  after the shim was started and before anything shuts it down
  (`shimenv.go:135`). A network test that skips behind Create, because
  `slirp4netns` is not installed, does the same (`helpers_netns_linux.go:80`,
  comment at 71-74: "not a conformance failure"). The run has a test of each kind;
  TLC reports the transfer test, whose trace is shorter, and the network test
  when it is the only one in `Tests`.
* **A named configuration for another user is not run** (`runner_named`): with
  `-test.run='TestShim/myconfig'` the second process, which knows the
  configuration as `shimtest-config-*`, matches nothing and exits with 0
  (`main_test.go:338`, `README.md:60-76`).

Observations that have no run of their own:

* The lifecycle soak disagrees with `runStress` about which failures count.
  `subT.Fatal` (`stress_suite.go:132`) fails the sub-test, and with it the test,
  before `runStress` judges the error. So an error after the deadline fails the
  test, which the comment at 1065-1067 calls "cleanup noise"; so does a stalled
  Shutdown on Windows or macOS, which the comment at 1083-1085 wants skipped
  "rather than failing the test". `EveryFailureFails` states what the code does.
* A sub-test that fails in a helper leaves `iterErr` nil (`stress_suite.go:136`),
  and the lifecycle soak goes on until the deadline, while `README.md:131` says
  "or any one fails". `EveryFailureFails` says that the verdict has the failure
  nevertheless.
* A wedged shim outlives the deadline of the lifecycle soak: Create, Start, Wait
  and Delete have neither the outer context (`stress_suite.go:1071`) nor a timeout.
  The comment at 875-876 says that the outer deadline terminates the run
  "regardless". `StopEnds` is therefore checked under `AnsweringSpec`; under
  `FairSpec` TLC finds it violated.
* `pickFuzzConfig` takes the first name without `checkRunnable`
  (`fuzz_test.go:48-62`), so a configuration for another user is fuzzed as this
  one, and by root once more in the second process, while `README.md:67-68` says
  that such a configuration is skipped or re-executed. The comment at
  `fuzz_test.go:33-34` asks for one run of the binary per configuration.

* A failed exec does not end the exec stress: `stress_suite.go:459` waits for the
  sampler before the result is looked at; the sampler ends when `ctx` is done,
  and `cancel` is deferred. With a deadline the failure is reported when the
  soak would have ended anyway, without one never (`README.md:131`: "or any one
  fails"). `StopEnds` of `exec` is therefore stated for the deadline only.
* A failed send is not noticed: `SendStream` returns nothing and the `err` of a
  `ReadStream` is never set, although the comments at `transfer_suite.go:157-158`
  and `stress_suite.go:1163-1164` say that `Wait` surfaces a transport error. The
  answer of the call is all there is, hence the exception in `CopyIsWhole`.
* `gid` of a configuration is read, passed on, and never used
  (`main_test.go:56-58`, `README.md:41`). A skipped `exec` feature does not skip the
  exec soak (`stress_suite.go:103`). The variables of one configuration stay set
  for the next ones of the process (`main_test.go:250`).
* A shim that answers Shutdown and stays is noticed by the leak check at the end
  of the suite, not by the iteration that left it (`stress_suite.go:206-216`,
  comment at `helpers.go:572-576`). Until then such shims add up.

On Windows and macOS a stall that wins the
compare-and-swap of `stress_suite.go:448` hides another exec's real error of
the same iteration, and the soak goes on (`FailFast` of `StressExec` with
`VMHost = TRUE`). A test that fails before its last lines leaves its shim to
the leak check, although the comment at `helpers.go:451-453` says that the
cleanup "ensures the shim process exits". `README.md` says of `FastExitInit`
and `FastExitOutput` that Delete follows Wait; the code calls Shutdown instead
(`run_suite.go:432`), and so does the model. The comment at
`helpers_sandbox.go:112-115` says that `shutdownSandboxShim` tears the members
down and "then" stops the sandbox; under the cancelled context the calls are not
awaited and that order is not kept (no property depends on it: ShutdownSandbox
ends all). A member whose Start fails is neither tracked nor given a cleanup
(`helpers_sandbox.go:219`). `UTSNotShared` passes on an empty string if the
output is later than 50 ms (`sandbox_suite_shared_utsns_linux.go:102`), which
its sister test for `/dev/shm` takes care to avoid; `BreachCaught` therefore
demands nothing of it when `slow`.

## Proofs

`tlapm` checks the following for every value of the constants.

`StressTransferProofs`, for any finite non-empty set of subtests, either kind
of host, with or without a deadline: `TypeCorrect`, `FailuresAreReported`,
`BlameIsInTime`, `ShutdownIsQuiescent`, and `TransferImplementsSoak`, the
refinement. All rest on one inductive invariant `IInv`:

* `Errors`: where a goroutine is tells whether it holds an error;
* `InSoak`: an error that may still count, or does, came before the stop
  (its goroutine is in `early`);
* `Stopped`: once a goroutine has a result to send the context is done, by the
  deadline or by a cancel;
* `Channel`: a goroutine is done exactly if its result is in the channel, once,
  or was received, and not both;
* `First`: `firstErr` is a received failure, and there is one if any was
  received;
* `Phase`: no goroutine runs before the collection begins; all have been
  received when the body has been left after it.

The verdict is taken from `firstErr`, so `FailureReported` alone is not
inductive: one needs that every result is accounted for (`Channel`), that all
have been received when the loop ends (`Phase`, by cardinality), and that none
of the received failures was forgotten (`First`). `Stopped` is what the
refinement needs for `End`: a verdict is given only after a stop.

`StressSuiteProofs` about `StressSuite`, for any number of subtests and any
deadline, buffer and durations: `SuiteTypeCorrect` and `SuiteKeepsBuffer`.
`BufferHolds` is nearly inductive: setups and teardowns add the same to both of
its sides, and an iteration begins before the end of the soak, so that the
longest one bounds what it adds. `InSubtest` adds that a subtest is under way only
if there is one. No assumption relates the times to each other: the code bounds
neither the RPCs of an iteration, which are detached from the outer context, nor
the setup of the read pool. What the theorem gives is what the one minute of
`stressSoakBuffer` has to be compared with.

`StressSandboxProofs`, for any number of members: `TypeCorrect`,
`MembersDoNotPileUp`, `AllMembersAskedToGo`, `FailsFast` and
`SandboxImplementsSoak`. The invariant follows the three loops of `fn`:
`Starting` (the members before `next` are tracked, no goroutine runs),
`Waiting` (all are tracked; a `Wait` is in flight nowhere else), `Releasing`
(no error; those before `next` are deleted, the others tracked), `Looping` (the
sandbox is clean). `Accounted` says that a started member is tracked until a
Delete is sent for it; `MembersAskedToGo` is only its last instance and not
inductive alone. `Outcome` ties the error and the verdict to the deadline for
the refinement. It uses `LinuxOnly`: the file is built on Linux alone, where
`runStress` forgives no timeout. That the returned error is one of a member
needs that a non-empty set of indices has a least one (`WFMin`).

`StressExecProofs`, for any set of exec slots and any number of kinds:
`TypeCorrect`, `ExecsDoNotOutlive`, `FailsFast`, `ExecImplementsSoak`. `Running`
says that an exec goroutine runs only while `fn` waits for it, with the kind of
its iteration; `Held` and `First` tie the goroutines' errors to the pointer they
compete for: as long as it is unset, no goroutine that is done has failed, so
the one error that `fn` returns stands for all. `Sampling` has the sampler
joined before the verdict. `FailsFast` assumes `~VMHost`, and only it: on a VM
host a stall that wins the compare-and-swap hides a real error and the property
is false there (see the findings).

`StressSuiteProofs` about `StressLifecycle`, on either kind of host:
`TypeCorrect`, `ShimsDoNotPileUp`, `EveryFailureCounts`. The invariant follows the
stages of `doFullLifecycle`: past the last one the shim has answered or is gone,
and a sub-test that ended before it has marked the test failed, so that only
shims that answered can stay unnoticed by the verdict; those the leak check
finds. That a failure is on record (`failed`) means that a sub-test has failed,
and nothing resets that.

`TransferStreamProofs`, for a tar of any size and a stream of any window:
`TypeCorrect`, `NoErrorWithoutReason`, `CopiesAreWhole`. `Accounted`: on a stream
that is not broken, what is to send, under way and arrived adds up to the tar.
`Order`: the goroutine begins after the acknowledgement and before the call;
this is why the shim finds the stream. `Blame`: each error has a reason, and the
caller cancels the context only when it returns. `Ending`: a receiver without an
error has seen EOF and all that came before it, and EOF before the end of the
tar is a fault of the shim. A whole file is read because these meet: no error,
so EOF, so nothing under way, and the tar's end is looked for in what arrived.

`RunnerProofs`, for any number of configurations with any skip lists, any users
and any invoker: `TypeCorrect`, `ZeroMeansSuccess`, `RunAsConfigured`. Neither
property is inductive alone. `Loaded` and `Child`: what each process has
loaded, and that the second one exists while the first waits, for a foreign
configuration that is off the list, and as its user. `Pending` and `Fresh`: what
is left to do (`todo`, `reexecConfigs`, the second process's one name) is for
the right process and has not run; hence no configuration runs twice. `Codes`
and `Recorded`: a failure is at any moment in the code of the first process, in
`t.Failed` of a process whose tests are not over, or in the code of the second
process. `Covered`: without `-test.run`, what could run has run, is left to do,
or the code is not 0. The proof of `Covered` goes through because the name of
the second process is selected when no name is given; with one it is not, which
is the finding of `runner_named`. The fuzz target is in `RunAsConfigured` with its
skip list and in `ZeroMeansSuccess` with its failures; nothing holds of its user.

`TaskSessionProofs`, for every subset of the tests, output and FIFOs of any size
and any number of repeated events: `TypeCorrect`, `TruncationIsCaught`,
`BreachIsCaught` and `NoFalseAlarms`, that is, every safety property of the
`session` run. The proofs use of the scripts only `ScriptsAssumption`. The place
of the goroutine is `ip`; what it has done is read off the steps behind it
(`Past`, `Did`), what it will do off those ahead (`Coming`). The invariant has
two parts.

`Sound` holds in either world.

* `Place`: a failed test is behind every step that could skip it, so a failure
  cannot turn into a skip; a test that has left is at its end.
* `Accounted`: what a burst has yet to write, what is held, in the FIFO, in the
  buffer and what was dropped add up to what was to be written (`Chunks`, what
  was sent on stdin, or one token); `Silent`: before the process was started
  there is none.
* `Checked`: a test that has not failed has seen, behind its `verify` or `poll`,
  at least what it wanted. A drop makes that impossible, whenever it happens,
  because of `Accounted`: this is `TruncationIsCaught`.
* `Closing`: EOF is behind the process and its output.
* `Listing`: a removed file that the listing holds has arrived when the pause is
  over, unless the pause was too short, and the check behind it fails.
* `Recorded`: events are published in the order of their ranks, and the recorder
  and the outbox hold nothing that was not published. `Unrepeated`: without
  repetitions each is in one place, and a skew leaves a trace (`Mislaid`: a topic
  is in neither place, two are recorded in the wrong order, or one yet to come
  is too late) that no later step removes. `testEvents` awaits all topics before
  it shuts the shim down, so at the end the trace is in the record.
* `Answering`: the host's goroutine is there for the container's connection only.

`Smooth` says what holds as long as nothing went wrong (`Clean`: no fault, no
timer too early, no skip). `NoFalseAlarm` is its last instance and far from
inductive: one needs that no call is refused, hence where every process is.

* `Calm`: no failure so far; the shim is up from `setup` to the final Shutdown.
* `ProcAt`: where a process is, by the calls that were made for it. A process that
  does not end by itself, or whose stdin is open, runs until it is killed.
* `Finished`: one that ended by itself had written everything.
* `Arrived`: behind EOF, or the poll, or a pause that was long enough, the buffer
  holds what the test wants.
* `Echoed`: the token of a connection has gone round when the peer hangs up.
* `InStep`: those events that were forwarded are the first ones, in order, with
  repetitions between them (`Forwarded`, by positions in the record).

`CallsFit` is the core of it: by the rules of the scripts and `ProcAt`, each
call is legal, or waits, or is one whose error the script is prepared for.

`SandboxSessionProofs`, for every subset of the tests: `TypeCorrect`,
`MembersAreTornDown`, `NoFalseAlarms` and `BreachIsCaught`, that is, every safety
property of the `sandbox` run. The proofs use of the scripts only
`ScriptsAssumption` (and `TestsAssumption`), never a script itself, so they cover
a test that is added and keeps to the rules. The invariant has two parts.

`IInv` holds whatever the shim does. `Started`: a member that ran is tracked, or was
deleted, or the next step of the test tracks it. `Kept`: a tracked member was
deleted or its own cleanup is still on the stack. `Emptied` and `Counted` bound
the stack, the latter by the number of registering steps before `ip`
(cardinality). That nothing but Start makes a process run (`EffectKeeps`) covers
whatever a hostile shim does, and the requests that nobody waits for.

`Told` says what the test and the shim know of each other; most of it only as
long as nothing has failed and no call was answered wrongly (`Quiet`).

* `Known`: while the test is in its body, the shim (`ShimAt`), the sandbox
  (`SandboxAt`) and every process (`ProcAt`) are where the calls behind the step
  have brought them, up to what they may do by themselves: a process ends, and a stop may not
  have been done.
* `Ending`: once the body has been left, the cleanup of the sandbox is on the
  stack or ShutdownSandbox is under way. A skip needs its own rule: it comes before
  the shim or behind the registration of the cleanup.
* `Fed`: `nc` has nothing to print before its stdin was written.
* `Fine`: as long as nothing went wrong, no test fails and a member that has
  reason to run does. `CallFine` is the core of it: by the rules and `Known`, each
  call is legal and answered as the test expects, or waits, or is one whose error
  the test ignores. `NoFalseAlarm` is the last instance of `Fine`; that of the
  leak check needs `Ending`.
* `PeerMissed`: a member that was stopped with another stays stopped, and a step
  that fails on it is still to come. `StopMissed`: a sandbox that only acknowledged its
  stop is looked at by the very next step. `ShareSeen`: the comparison of the
  name is still to come. At the end of the script there is no step to come, so a breach
  leaves only a test that has failed: `BreachCaught`.

TLC checked `Told` on all thirty tests before it was proved.

Only model-checked:

* all liveness (`StopEnds`, `Terminates`, `Returns`), which needs fairness;
* that the scan of `testEvents` is `Subsequence`, for up to five topics: it is a
  fold, and what a fold computes needs induction over data;
* that the scripts satisfy `ScriptsAssumption`, in both sessions: TLC evaluates
  it;
* the violations, which are facts about single behaviours.

## Not modelled

Payload contents, log text, metrics and memory figures (their checks are
nondeterministic verdicts); the time within `shutdownShim`; the OCI
specification; the building of images (`rootfs.go`: files written one after the
other, with nothing that runs beside them); the benchmarks, which make the
calls of the suites and time them; active fuzzing; the environment variables of
configurations, of which the repository promises nothing that could be violated; the readers of `/proc`; named pipes on
Windows; the parsing of the bootstrap answer, a pure function of one JSON text.
The programs that the sandbox members run are external.

## Plan

Done: the stress loop and its four soaks, their time, the tests of all suites,
the events, the network peer, the transfer streams, the runner; all safety
properties of these are theorems. Left:

1. `Bootstrap`: the three formats of the answer, and the choice of the client,
   against a reference definition.
2. Windows named pipes: an accept goroutine per pipe, and its end.
