---------------------------- MODULE StressSuite -----------------------------
(***************************************************************************)
(* StressSuite.Run and stressCtx (stress_suite.go): how the subtests share *)
(* the time that go test grants.  Run starts them one after the other with *)
(* t.Run; each sets up its shim, asks stressCtx for a context that ends    *)
(* stressSoakBuffer before the deadline of the whole test binary, skips if *)
(* less than that is left, prepares what it soaks with, and soaks until    *)
(* the context is done.                                                    *)
(*                                                                         *)
(* How long a setup, an iteration or a teardown takes is up to the shim:   *)
(* most of their calls have no timeout, so nothing here bounds them.  The  *)
(* goroutines of a subtest end together, and an iteration of the model is  *)
(* the time that the last of them is in fn.                                *)
(***************************************************************************)
EXTENDS Integers

CONSTANTS Count,         \* enabled subtests: Lifecycle, Exec, [Transfer, [Sandbox]]
          Deadline,      \* t.Deadline(), in units of time from the start
          SoakBuffer,    \* stressSoakBuffer
          Durations      \* how long a setup, an iteration or a teardown may take

ASSUME CountAssumption == Count \in Nat \ {0}
ASSUME TimeAssumption == Deadline \in Nat /\ SoakBuffer \in Nat
ASSUME DurationsAssumption == Durations \subseteq Nat

VARIABLES now,       \* time since the start
          at,        \* the subtest that t.Run is at
          step,      \* of the subtest: "begin", "prepare" or "soak"
          outcome,   \* of each subtest
          longest,   \* history: the longest iteration so far
          chores     \* history: the time of all setups and teardowns so far

suiteVars == <<now, at, step, outcome, longest, chores>>

\* Mutant of SoakEnd: the context ends at the deadline itself.
SoakEndUnbuffered == Deadline

\* d.Add(-stressSoakBuffer), which may have passed before the start.
SoakEnd == Deadline - SoakBuffer

SuiteInit ==
    /\ now = 0 /\ at = 1 /\ step = "begin"
    /\ outcome = [i \in 1..Count |-> "none"]
    /\ longest = 0 /\ chores = 0

\* A setup or a teardown takes its time.
Chore(d) == now' = now + d /\ chores' = chores + d

\* The subtest is over, and has torn its shim down.
Finish(o) ==
    /\ outcome' = [outcome EXCEPT ![at] = o]
    /\ at' = at + 1
    /\ step' = "begin"

\* time.Until(d) < stressSoakBuffer
TooLate(t) == Deadline < t + SoakBuffer

\* Mutant of MoreSubtests: one more.
MoreSubtestsThanEnabled == at <= Count + 1

\* Run has a subtest left.
MoreSubtests == at <= Count

\* How long a setup or a teardown of subtest i takes: Lifecycle has neither, its
\* iterations start and end their own shims.
Own(i) == IF i = 1 THEN {0} ELSE Durations

\* Up to stressCtx: the subtest has room for its soak, or skips.  Before that the
\* setup may fail, or find that the shim lacks what the subtest needs, which is
\* taken for a failure here.
Begin ==
    /\ step = "begin" /\ MoreSubtests
    /\ \E setup \in Own(at) :
         \/ /\ ~TooLate(now + setup)
            /\ Chore(setup) /\ step' = "prepare"
            /\ UNCHANGED <<at, outcome>>
         \/ \E teardown \in Own(at), o \in {"skipped", "failed"} :
              /\ IF o = "skipped" THEN TooLate(now + setup) ELSE at # 1
              /\ Chore(setup + teardown)
              /\ Finish(o)
    /\ UNCHANGED longest

\* Between stressCtx and the loop: Transfer fills its read pool and looks for the
\* files, under timeouts of its own and not the context of the soak.
Prepare ==
    /\ step = "prepare"
    /\ \E setup \in {0} \cup Own(at) :
         \/ Chore(setup) /\ step' = "soak" /\ UNCHANGED <<at, outcome>>
         \/ /\ at # 1
            /\ \E teardown \in Own(at) : Chore(setup + teardown)
            /\ Finish("failed")
    /\ UNCHANGED longest

\* ctx.Err() == nil at the top of the loop; an error counts only if the
\* context is still live when fn returns.
Iterate ==
    /\ step = "soak" /\ now < SoakEnd
    /\ \E d \in Durations :
         /\ longest' = IF d > longest THEN d ELSE longest
         /\ \/ now' = now + d /\ UNCHANGED <<at, step, outcome, chores>>
            \/ /\ now + d < SoakEnd
               /\ \E teardown \in Own(at) : now' = now + d + teardown /\ chores' = chores + teardown
               /\ Finish("failed")

\* The context is done.  What follows the soak, the checks of Exec and Sandbox
\* and the teardown, takes its time.
SoakOver ==
    /\ step = "soak" /\ now >= SoakEnd
    /\ \E teardown \in Own(at) : Chore(teardown)
    /\ Finish("soaked")
    /\ UNCHANGED longest

SuiteEnded == at > Count /\ UNCHANGED suiteVars

SuiteNext == Begin \/ Prepare \/ Iterate \/ SoakOver \/ SuiteEnded

SuiteSpec == SuiteInit /\ [][SuiteNext]_suiteVars
-----------------------------------------------------------------------------
SuiteTypeOK ==
    /\ now \in Nat /\ at \in 1..Count + 1 /\ step \in {"begin", "prepare", "soak"}
    /\ outcome \in [1..Count -> {"none", "soaked", "failed", "skipped"}]
    /\ longest \in Nat /\ chores \in Nat

\* What the buffer is worth.  However many subtests there are and however many
\* iterations each makes, past its beginning the suite spends at most the time of
\* one iteration, and that of setups and teardowns.  So go test kills the binary,
\* which skips every cleanup, only if these alone exceed the buffer.
BufferHolds ==
    now <= (IF SoakBuffer < Deadline THEN Deadline - SoakBuffer ELSE 0) + longest + chores

\* With no failure every subtest that was enabled has soaked in the end.
EnabledSubtestsRun ==
    at > Count => \/ \E i \in 1..Count : outcome[i] = "failed"
                  \/ \A i \in 1..Count : outcome[i] = "soaked"
=============================================================================
