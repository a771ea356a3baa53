------------------------- MODULE TaskSessionProofs --------------------------
(***************************************************************************)
(* Proofs about TaskSession, for any subset of the tests, for output of    *)
(* any size, FIFOs of any size and any number of repeated events.  The     *)
(* scripts are known by the rules of TaskRules only.                       *)
(***************************************************************************)
EXTENDS TaskSession, SequenceTheorems, TLAPS

(* The place in the script. *)

Past(calls) == Behind(script, ip, calls)
Coming(calls) == Ahead(script, ip, calls)
Did(call, p) == Done(script, ip, call, p)

\* Where a jump can have led: a failed test has no step left that could skip it.
Place ==
    /\ guarded => Past({"guard"})
    /\ outcome = "fail" => ~Coming(Skips)
    /\ outcome = "skip" => ip = Len(script) + 1 /\ test # "Events"
    /\ phase # "body" => ip = Len(script) + 1
-----------------------------------------------------------------------------
(* The output: nothing is made up, and what is missing was dropped. *)

OutFlow == held + fifo + got + lost

Accounted ==
    /\ program.out # "own" => src = 0
    /\ program.out # "stdin" => toSend = 0
    /\ program.out # "conn" => up = 0 /\ down = 0
    /\ program.out = "own" /\ outcome = "none" =>
          src + OutFlow = IF ~Past({"renew"}) THEN Chunks ELSE IF leftover THEN 1 ELSE 0
    /\ program.out = "stdin" => stdin + OutFlow = sent
    /\ program.out = "conn" => /\ stdin + up + down + OutFlow <= 1
                               /\ Coming({"write", "send"}) => stdin + up + down + OutFlow = 0
    /\ program.out = "nothing" => OutFlow = 0
    /\ leftover => Past({"renew"}) /\ (outcome = "none" => lost = 0)

\* Before the process under test was started there is no output; a test is skipped
\* only then.
Silent ==
    outcome = "skip" \/ ~Begun(test, ip) =>
        proc[subject] # "running" /\ OutFlow = 0 /\ up = 0 /\ down = 0 /\ ~leftover

\* What a test that has not failed knows when it has looked.
Checked ==
    /\ ~Past({"writer"}) => toSend = 0
    /\ outcome = "none" /\ Past({"writeDone"}) => toSend = 0
    /\ outcome = "none" /\ Past({"poll", "verify"}) =>
          /\ program.out = "own" /\ ~Past({"renew"}) => got >= Chunks
          /\ program.out = "stdin" => got >= sent
          /\ program.out = "conn" => got >= 1

\* A FIFO is closed behind the process and its output, EOF is behind both.
Closing ==
    /\ closed => proc[subject] \in {"stopped", "deleted"} /\ held = 0
    /\ drained => closed /\ fifo = 0
-----------------------------------------------------------------------------
(* A removed file that the second listing shows. *)

Layers == Ahead(script, 1, {"renew"})

Listing ==
    Layers /\ outcome = "none" =>
       /\ Did("wait", "exec") => proc["exec"] \in {"stopped", "deleted"}
       /\ proc["exec"] \in {"stopped", "deleted"} => src = 0
       /\ leftover /\ ~slow /\ Did("pause", "none") => got = 1
       /\ leftover /\ ~slow =>
             \A v \in 1..ip - 1 : script[v].call = "verify" => ~(/\ Behind(script, v, {"renew"})
                                                                /\ Done(script, v, "pause", "none"))
-----------------------------------------------------------------------------
(* The events. *)

Topics == {"create", "start", "exit", "delete"}
Rank(topic) == CASE topic = "create" -> 1 [] topic = "start" -> 2
                 [] topic = "exit" -> 3 [] topic = "delete" -> 4

\* How many the init process has published.
Published == CASE proc["init"] = "none" -> 0 [] proc["init"] = "created" -> 1
               [] proc["init"] = "running" -> 2 [] proc["init"] = "stopped" -> 3
               [] proc["init"] = "deleted" -> 4

In(s, a) == \E i \in 1..Len(s) : s[i] = a

\* An outbox o and a record e hold nothing but the first n events.
EventsOrdered(o, e, n) ==
    /\ o \in Seq(Topics) /\ e \in Seq(Topics)
    /\ \A i \in 1..Len(o) : Rank(o[i]) <= n
    /\ \A i \in 1..Len(e) : Rank(e[i]) <= n
    /\ \A i, j \in 1..Len(o) : i < j => Rank(o[i]) < Rank(o[j])

\* An event was lost, one overtook it, or it is about to come too late.
Mislaid(o, e, n) ==
    \/ \E a \in Topics : Rank(a) <= n /\ ~In(e, a) /\ ~In(o, a)
    \/ \E i, j \in 1..Len(e) : i < j /\ Rank(e[j]) < Rank(e[i])
    \/ \E i \in 1..Len(e), j \in 1..Len(o) : Rank(o[j]) < Rank(e[i])

\* Every event is in one place.
Apart(o, e) ==
    /\ \A i, j \in 1..Len(e) : e[i] = e[j] => i = j
    /\ \A i \in 1..Len(e) : ~In(o, e[i])

Orderly ==
    /\ Did("start", "init") => proc["init"] \in {"running", "stopped", "deleted"}
    /\ EventsOrdered(outbox, envelopes, Published)
    /\ Did("topic", "delete") => HasTopic("delete")
    /\ shim \in {"stopping", "down"} => Did("topic", "delete")
    /\ Past({"order"}) => InOrder

Recorded ==
    /\ outbox \in Seq(Topics) /\ envelopes \in Seq(Topics)
    /\ test # "Events" => outbox = <<>> /\ envelopes = <<>> /\ repeats = 0 /\ ~skewed
    /\ test = "Events" /\ outcome = "none" => Orderly

\* Without repetitions every event is in one place, and a skew cannot be undone.
Single ==
    /\ Apart(outbox, envelopes)
    /\ skewed => Mislaid(outbox, envelopes, Published)

Unrepeated == test = "Events" /\ outcome = "none" /\ repeats = 0 => Single
-----------------------------------------------------------------------------
(* A session in which nothing went wrong. *)

Clean == ~fault /\ ~slow /\ outcome # "skip"

Calm ==
    /\ outcome = "none" /\ ~misread /\ ~leaked /\ ~skewed /\ ~leftover
    /\ lost = 0 /\ code = 0 /\ peer # "fail"
    /\ shim \in IF ~Past({"setup"}) THEN {"absent"}
                ELSE IF ~Did("shutdown", "init") THEN {"up"} ELSE {"stopping", "down"}
    /\ stdinOpen <=> (test # "UDSRoundTrip" /\ ~Past({"closeIO"}))

\* A process that runs until it is killed, or as long as its stdin is open.
Lives(p) == \/ Stays(test, p)
            \/ p = subject /\ stdinOpen /\ program.ends \in {"eof", "stream", "heard"}

\* Where a process is, by the calls that were made for it.
ProcAt(p) ==
    /\ proc[p] = "none" <=> ~Made(script, ip, p)
    /\ Did("start", p) => proc[p] # "none"
    /\ Made(script, ip, p) /\ ~Did("start", p) /\ ~Did("delete", p) => proc[p] = "created"
    /\ proc[p] = "created" => ~Did("delete", p)
                              /\ (Did("start", p) => p = "exec" /\ program.ends = "missing")
    /\ proc[p] = "running" => Did("start", p) /\ ~Did("kill", p)
    /\ proc[p] = "deleted" => Did("delete", p)
    /\ Did("wait", p) => proc[p] \notin {"created", "running"}
    /\ Did("start", p) /\ ~Did("kill", p) /\ ~Did("shutdown", "init") =>
          (Lives(p) => proc[p] = "running")

\* The process under test ended by itself, so it had written everything.
Finished ==
    proc[subject] \in {"stopped", "deleted"} /\ ~Did("kill", subject) =>
       /\ program.ends = "written" => src = 0
       /\ program.ends = "eof" => stdin = 0 /\ toSend = 0 /\ ~stdinOpen
       /\ program.out = "conn" /\ Outbound(script) =>
             stdin = 0 /\ up = 0 /\ down = 0 /\ held + fifo + got = 1

\* Everything has arrived, once a step has waited for it.
Arrived ==
    /\ program.out = "own" /\ Past(Sees) /\ ~Past({"renew"}) => got >= Chunks
    /\ program.out = "stdin" /\ Past(Sees) => got >= sent /\ toSend = 0
    /\ program.out = "conn" /\ Outbound(script) /\ Past({"stdoutDone"}) => got >= 1

\* The token of a connection.
Echoed ==
    /\ peer \in {"closed", "done"} => stdin = 0 /\ up = 0 /\ down + held + fifo + got = 1
    /\ Outbound(script) /\ hungUp => peer \in {"closed", "done"}
    /\ Outbound(script) /\ Past({"listen"}) => peer # "off"
    /\ link = "heard" => stdin = 0 /\ up = 0 /\ down = 0 /\ held + fifo + got = 1
    /\ program.opens = "datagram" /\ stdinOpen => up = 0 /\ down = 0 /\ link # "heard"

\* Of the first n events those forwarded so far are the first ones, in order.
Forwarded(o, e, n) ==
    /\ o \in Seq(Topics) /\ e \in Seq(Topics) /\ Len(o) <= n
    /\ \A i \in 1..Len(o) : Rank(o[i]) = n - Len(o) + i
    /\ \A i \in 1..Len(e) : Rank(e[i]) <= n - Len(o)
    /\ \E pos \in [1..n - Len(o) -> 1..Len(e)] :
          /\ \A i \in 1..n - Len(o) : Rank(e[pos[i]]) = i
          /\ \A i, j \in 1..n - Len(o) : i < j => pos[i] < pos[j]

InStep == test = "Events" => Forwarded(outbox, envelopes, Published)

Fine == Calm /\ (\A p \in {"init", "exec"} : ProcAt(p)) /\ Finished /\ Arrived /\ Echoed /\ InStep
Smooth == Clean => Fine

\* The goroutine of the host is there for the container's connection only.
Answering == (peer # "off" => Outbound(script)) /\ (link = "heard" => program.opens = "datagram")
             /\ (program.out # "conn" => link = "none" /\ peer = "off")

Sound == /\ TypeOK /\ Place /\ Accounted /\ Silent /\ Checked /\ Closing
         /\ Listing /\ Recorded /\ Unrepeated /\ Answering
IInv == Sound /\ Smooth
-----------------------------------------------------------------------------
(***************************************************************************)
(* The scripts.                                                            *)
(***************************************************************************)
LEMMA RulesOf ==
    ASSUME test \in Tests
    PROVE  /\ Whole(test) /\ Len(script) \in Nat
           /\ \A i \in 1..Len(script) : /\ Shape(test, i) /\ Traffic(test, i) /\ Protocol(test, i)
                                        /\ Eventful(test, i) /\ Layered(test, i)
<1>1. test \in DOMAIN Scripts
  BY TestsAssumption
<1>2. Whole(test)
  BY <1>1, ScriptsAssumption
<1>3. Len(script) \in Nat
  BY <1>2 DEF Whole, script
<1>4. QED
  BY <1>1, <1>2, <1>3, ScriptsAssumption DEF script

\* What is behind one step more.
LEMMA BehindStep ==
    ASSUME NEW s, NEW i \in Nat \ {0}, NEW C
    PROVE  Behind(s, i + 1, C) <=> Behind(s, i, C) \/ s[i].call \in C
BY DEF Behind

LEMMA DoneStep ==
    ASSUME NEW s, NEW i \in Nat \ {0}, NEW c, c # "renew", NEW p
    PROVE  Done(s, i + 1, c, p) <=> \/ s[i].call = c /\ s[i].who = p
                                    \/ Done(s, i, c, p) /\ (p = "init" \/ s[i].call # "renew")
<1>1. ASSUME Done(s, i + 1, c, p)
      PROVE  \/ s[i].call = c /\ s[i].who = p
             \/ Done(s, i, c, p) /\ (p = "init" \/ s[i].call # "renew")
  <2>1. PICK j \in 1..i : /\ s[j].call = c /\ s[j].who = p
                          /\ p = "init" \/ \A k \in j..i : s[k].call # "renew"
    BY <1>1 DEF Done
  <2>2. CASE j = i
    BY <2>1, <2>2
  <2>3. CASE j # i
    <3>1. j \in 1..i - 1 /\ i \in j..i /\ \A k \in j..i - 1 : k \in j..i
      BY <2>3
    <3>2. QED
      BY <2>1, <3>1 DEF Done
  <2>4. QED
    BY <2>2, <2>3
<1>2. ASSUME s[i].call = c, s[i].who = p PROVE Done(s, i + 1, c, p)
  <2>1. i \in 1..(i + 1) - 1 /\ \A k \in i..(i + 1) - 1 : k = i
    OBVIOUS
  <2>2. QED
    BY <1>2, <2>1 DEF Done
<1>3. ASSUME Done(s, i, c, p), p = "init" \/ s[i].call # "renew" PROVE Done(s, i + 1, c, p)
  <2>1. PICK j \in 1..i - 1 : /\ s[j].call = c /\ s[j].who = p
                              /\ p = "init" \/ \A k \in j..i - 1 : s[k].call # "renew"
    BY <1>3 DEF Done
  <2>2. j \in 1..(i + 1) - 1 /\ \A k \in j..(i + 1) - 1 : k = i \/ k \in j..i - 1
    OBVIOUS
  <2>3. QED
    BY <1>3, <2>1, <2>2 DEF Done
<1>4. QED
  BY <1>1, <1>2, <1>3

LEMMA BegunStep ==
    ASSUME NEW t, NEW i \in Nat \ {0}
    PROVE  Begun(t, i + 1) <=> \/ Begun(t, i)
                               \/ Scripts[t][i].call = "start" /\ Scripts[t][i].who = Subject(t)
BY DEF Begun

LEMMA AheadStep ==
    ASSUME NEW s, Len(s) \in Nat, NEW i \in 1..Len(s), NEW C
    PROVE  Ahead(s, i, C) <=> Ahead(s, i + 1, C) \/ s[i].call \in C
<1>1. i..Len(s) = {i} \cup (i + 1..Len(s))
  OBVIOUS
<1>2. QED
  BY <1>1 DEF Ahead

\* A step of the script is behind or ahead.
LEMMA BehindOrAhead ==
    ASSUME NEW s, Len(s) \in Nat, NEW i \in 1..Len(s) + 1, NEW C
    PROVE  Ahead(s, 1, C) <=> Behind(s, i, C) \/ Ahead(s, i, C)
<1>1. 1..Len(s) = (1..i - 1) \cup (i..Len(s))
  OBVIOUS
<1>2. QED
  BY <1>1 DEF Ahead, Behind
-----------------------------------------------------------------------------
(***************************************************************************)
(* How the test goroutine moves through its script: not at all, by one     *)
(* step, or forward to the final shutdownShim or the end.                  *)
(***************************************************************************)
Steady == UNCHANGED <<ip, outcome>>
Onward ==
    /\ phase = "body" /\ ip <= Len(script) /\ ip' = ip + 1
    /\ outcome' = outcome \/ (outcome' = "fail" /\ ~Coming(Skips)')
Jump ==
    /\ phase = "body" /\ ip <= Len(script) /\ ip' \in ip + 1..Len(script) + 1
    /\ \/ outcome' = "fail" /\ ~Coming(Skips)'
       \/ outcome' = "skip" /\ script[ip].call \in Skips /\ ip' = Len(script) + 1
       \/ outcome' = outcome /\ script[ip].on = "return"
Moves == world' = world /\ test' = test /\ (Steady \/ Onward \/ Jump)

\* The types of the test's own variables.
TestOK ==
    /\ world \in {"conforming", "hostile"} /\ test \in Tests
    /\ Len(script) \in Nat /\ ip \in 1..Len(script) + 1 /\ guarded \in BOOLEAN
    /\ phase \in {"body", "leak", "ended"} /\ outcome \in {"none", "fail", "skip"}
    /\ leaked \in BOOLEAN

LEMMA HereOK ==
    ASSUME TestOK, NEW call, At(call)
    PROVE  /\ phase = "body" /\ ip \in 1..Len(script) /\ ip \in Nat \ {0} /\ ip <= Len(script)
           /\ script[ip].call = call /\ Len(script) \in Nat
           /\ Shape(test, ip) /\ Traffic(test, ip) /\ Protocol(test, ip)
           /\ Eventful(test, ip) /\ Layered(test, ip) /\ Whole(test)
<1>1. ip \in 1..Len(script) /\ phase = "body" /\ script[ip].call = call /\ Len(script) \in Nat
  BY DEF At, TestOK
<1>2. QED
  BY <1>1, RulesOf DEF TestOK

LEMMA GoesMoves ==
    ASSUME TestOK, NEW call, At(call), Goes, world' = world, test' = test
    PROVE  Moves /\ ip' = ip + 1 /\ outcome' = outcome
BY HereOK DEF Goes, Moves, Onward

\* Where a failed test goes on there is no step that may skip it, and it is behind
\* the steps that were taken: those of the final shutdownShim do not fail.
LEMMA LeavesMoves ==
    ASSUME TestOK, Place, NEW call, At(call), test' = test, NEW how, Leaves(how),
           call \notin Calls \/ script[ip].on # "ignore"
    PROVE  ip' \in ip + 1..Len(script) + 1 /\ ~Coming(Skips)' /\ outcome' = how
<1>1. /\ ip \in 1..Len(script) /\ Len(script) \in Nat /\ script[ip].call = call
      /\ script' = script /\ outcome' = how
  BY HereOK DEF script, Leaves
<1>2. CASE guarded
  <2>1. PICK g \in 1..ip - 1 : script[g].call = "guard"
    BY <1>2 DEF Place, Past, Behind
  <2>2. Shape(test, g) /\ g \in Nat /\ g < ip
    BY <1>1, <2>1, RulesOf DEF TestOK
  <2>3. /\ g + 4 <= Len(script)
        /\ \A k \in Len(script) - 3..Len(script) : script[k].call \in Calls /\ script[k].on = "ignore"
    BY <2>1, <2>2 DEF Shape, script
  <2>4. ip' = Len(script) - 3
    <3>1. Len(shutdownShim) = 4
      BY DEF shutdownShim
    <3>2. QED
      BY <1>1, <1>2, <3>1 DEF Leaves
  <2>5. ip \notin Len(script) - 3..Len(script)
    BY <1>1, <2>3
  <2>6. ~Ahead(script', ip', Skips)
    BY <1>1, <2>3, <2>4 DEF Ahead, Calls, Skips
  <2>7. QED
    BY <1>1, <2>2, <2>4, <2>5, <2>6 DEF Coming
<1>3. CASE ~guarded
  <2>1. ip' = Len(script) + 1
    BY <1>3 DEF Leaves
  <2>2. ~Ahead(script', ip', Skips)
    BY <1>1, <2>1 DEF Ahead
  <2>3. QED
    BY <1>1, <2>1, <2>2 DEF Coming
<1>4. QED
  BY <1>2, <1>3 DEF TestOK

LEMMA FailMoves ==
    ASSUME TestOK, Place, NEW call, At(call), call \notin Calls, Leaves("fail"),
           world' = world, test' = test
    PROVE  Moves /\ outcome' = "fail"
BY LeavesMoves, HereOK DEF Moves, Jump

LEMMA SkipMoves ==
    ASSUME TestOK, Place, NEW call, At(call), call \in Skips, Leaves("skip"),
           world' = world, test' = test
    PROVE  Moves /\ outcome' = "skip"
<1>1. phase = "body" /\ ip \in 1..Len(script) /\ script[ip].call = call /\ Shape(test, ip)
  BY HereOK
<1>2. ~guarded
  BY <1>1 DEF Shape, Place, Past, script
<1>3. ip' = Len(script) + 1 /\ outcome' = "skip"
  BY <1>2 DEF Leaves
<1>4. QED
  BY <1>1, <1>3 DEF Moves, Jump, TestOK

LEMMA FailsMoves ==
    ASSUME TestOK, Place, NEW call, At(call), call \notin Calls, Fails, world' = world, test' = test
    PROVE  Moves /\ outcome' = "fail"
<1>1. /\ phase = "body" /\ ip \in 1..Len(script) /\ script[ip].call = call /\ Shape(test, ip)
      /\ Len(script) \in Nat /\ script' = script
  BY HereOK DEF script
<1>2. CASE script[ip].on = "soft"
  <2>1. ip' = ip + 1 /\ outcome' = "fail"
    BY <1>2 DEF Fails
  <2>2. ~Ahead(script', ip', Skips)
    <3>1. SUFFICES ASSUME NEW i \in ip + 1..Len(script), script[i].call \in Skips PROVE FALSE
      BY <1>1, <2>1 DEF Ahead
    <3>2. i \in 1..Len(script) /\ ip \in 1..i - 1
      BY <1>1
    <3>3. Shape(test, i)
      BY <3>2, RulesOf DEF TestOK
    <3>4. QED
      BY <1>2, <3>1, <3>2, <3>3 DEF Shape, script
  <2>3. QED
    BY <1>1, <2>1, <2>2 DEF Moves, Onward, Coming, TestOK
<1>3. CASE script[ip].on # "soft"
  BY <1>3, FailMoves DEF Fails
<1>4. QED
  BY <1>2, <1>3

LEMMA OnErrorMoves ==
    ASSUME TestOK, Place, NEW call \in Calls, At(call), NEW err \in {"nil", "gone", "error"},
           OnError(err), world' = world, test' = test
    PROVE  /\ Moves
           /\ \/ ip' = ip + 1 /\ outcome' = outcome
              \/ outcome' = "fail"
              \/ outcome' = outcome /\ script[ip].on = "return"
<1>1. phase = "body" /\ ip \in 1..Len(script) /\ script[ip].call = call /\ Shape(test, ip)
  BY HereOK
<1>2. script[ip].on \in {"fatal", "soft", "tolerate", "ignore", "expect", "return"}
  BY <1>1 DEF Shape, script
<1>3. CASE Goes
  BY <1>3, GoesMoves DEF Goes
<1>4. CASE script[ip].on # "ignore" /\ Leaves(IF script[ip].on = "return" THEN outcome ELSE "fail")
  BY <1>1, <1>4, LeavesMoves DEF Moves, Jump, TestOK
<1>5. QED
  BY <1>2, <1>3, <1>4 DEF OnError
-----------------------------------------------------------------------------
(***************************************************************************)
(* The steps that only look: they change nothing but the test goroutine's  *)
(* own place, and what they know when the test has not failed by them.     *)
(***************************************************************************)
Acts == {"setup", "listen", "dial", "send", "hangup", "renew", "drain", "write", "writer"}
Looks == Waits \/ attachContainerNetwork \/ AddInboundForward \/ format \/ probe \/ transfer
         \/ guard \/ BodyEnds \/ registerShimLeakCheck

Knows(call) ==
    /\ call = "poll" => got >= Want
    /\ call = "verify" => got = Want
    /\ call = "writeDone" => toSend = 0
    /\ call = "topic" => HasTopic(script[ip].who)
    /\ call = "order" => InOrder
    /\ call \in {"drainDone", "stdoutDone"} => drained
    /\ call = "pause" => slow' \/ (got >= Want /\ held + fifo = 0)
    /\ call = "capped" => slow' \/ drained

Grows == (fault => fault') /\ (slow => slow')

Quiet ==
    /\ Moves /\ KeepShim /\ UNCHANGED <<envVars, leftover>> /\ Grows
    /\ ip' # ip => script[ip].call \notin Calls \cup Acts
    /\ ip' # ip /\ outcome' = "none" => ip' = ip + 1 /\ outcome = "none" /\ Knows(script[ip].call)

LEMMA LooksAreQuiet == ASSUME TypeOK, TestOK, Place, Looks PROVE Quiet
<1>1. ASSUME NEW call, At(call), call \notin Calls \cup Acts, KeepTest, KeepShim,
             UNCHANGED <<envVars, leftover>>, Grows,
             (Goes /\ (outcome = "none" => Knows(call))) \/ Leaves("fail") \/ Fails
                \/ (call \in Skips /\ Leaves("skip"))
      PROVE  Quiet
  <2>1. script[ip].call = call /\ world' = world /\ test' = test
    BY <1>1, HereOK DEF KeepTest
  <2>2. \/ Moves /\ outcome' \in {"fail", "skip"}
        \/ Moves /\ ip' = ip + 1 /\ outcome' = outcome /\ (outcome = "none" => Knows(call))
    BY <1>1, <2>1, GoesMoves, FailMoves, FailsMoves, SkipMoves
  <2>3. QED
    BY <1>1, <2>1, <2>2 DEF Quiet
<1> USE DEF Calls, Acts, Skips, Timed, Local, Knows, Grows
<1>2. CASE poll
  BY <1>1, <1>2 DEF poll
<1>3. CASE drainDone
  BY <1>1, <1>3 DEF drainDone
<1>4. CASE writeDone
  BY <1>1, <1>4 DEF writeDone
<1>5. CASE waitForTopic
  BY <1>1, <1>5 DEF waitForTopic
<1>6. CASE waitForListeningPort
  BY <1>1, <1>6 DEF waitForListeningPort
<1>7. CASE accept
  BY <1>1, <1>7 DEF accept
<1>8. CASE elapsed
  BY <1>1, <1>8 DEF elapsed
<1>9. CASE pause
  <2>1. ~slow' => got >= Want /\ held + fifo = 0
    <3>1. ASSUME ~slow' PROVE ~(got < Want) /\ ~(held + fifo > 0)
      BY <1>9, <3>1, Zenon DEF pause
    <3>2. got \in Nat /\ held \in Nat /\ fifo \in Nat /\ Want \in Nat
      <4>1. sent \in Nat /\ Chunks \in Nat
        BY SizesAssumption DEF TypeOK
      <4>2. QED
        BY <4>1, SizesAssumption DEF TypeOK, Want
    <3>3. QED
      BY <3>1, <3>2
  <2>2. slow => slow'
    BY <1>9 DEF pause
  <2>3. QED
    BY <1>1, <1>9, <2>1, <2>2 DEF pause
<1>10. CASE verify
  BY <1>1, <1>10 DEF verify, history
<1>11. CASE some
  BY <1>1, <1>11 DEF some, history
<1>12. CASE capped
  BY <1>1, <1>12 DEF capped
<1>13. CASE readGuestMem
  BY <1>1, <1>13 DEF readGuestMem
<1>14. CASE order
  BY <1>1, <1>14 DEF order, history
<1>15. CASE envelope
  BY <1>1, <1>15 DEF envelope
<1>16. CASE stdoutDone
  BY <1>1, <1>16 DEF stdoutDone, history
<1>17. CASE status
  BY <1>1, <1>17 DEF status, history
<1>18. CASE peerDone
  BY <1>1, <1>18 DEF peerDone, history
<1>19. CASE attachContainerNetwork
  BY <1>1, <1>19 DEF attachContainerNetwork
<1>20. CASE AddInboundForward
  BY <1>1, <1>20 DEF AddInboundForward
<1>21. CASE format
  BY <1>1, <1>21 DEF format, history
<1>22. CASE probe
  BY <1>1, <1>22 DEF probe, history
<1>23. CASE transfer
  BY <1>1, <1>23 DEF transfer
<1>24. CASE guard
  <2>1. script[ip].call = "guard" /\ world' = world /\ test' = test
    BY <1>24, HereOK DEF guard
  <2>2. Moves /\ ip' = ip + 1 /\ outcome' = outcome
    BY <1>24, <2>1, GoesMoves DEF guard
  <2>3. QED
    BY <1>24, <2>1, <2>2 DEF guard, Quiet, history
<1>25. CASE BodyEnds \/ registerShimLeakCheck
  <2>1. /\ world' = world /\ test' = test /\ ip' = ip /\ outcome' = outcome
        /\ KeepShim /\ UNCHANGED <<envVars, leftover>>
    BY <1>25 DEF BodyEnds, registerShimLeakCheck, history
  <2>2. Grows
    <3>1. CASE BodyEnds
      BY <3>1 DEF BodyEnds, history
    <3>2. CASE registerShimLeakCheck
      <4>1. fault' = fault /\ slow' = (slow \/ shim = "stopping")
        BY <3>2 DEF registerShimLeakCheck
      <4>2. QED
        BY <4>1, Zenon
    <3>3. QED
      BY <1>25, <3>1, <3>2
  <2>3. QED
    BY <2>1, <2>2 DEF Quiet, Moves, Steady
<1>26. QED
  BY <1>2, <1>3, <1>4, <1>5, <1>6, <1>7, <1>8, <1>9, <1>10, <1>11, <1>12, <1>13, <1>14, <1>15,
     <1>16, <1>17, <1>18, <1>19, <1>20, <1>21, <1>22, <1>23, <1>24, <1>25 DEF Looks, Waits
-----------------------------------------------------------------------------
(***************************************************************************)
(* What a move means for the place in the script.                          *)
(***************************************************************************)
LEMMA SameTest ==
    ASSUME test' = test
    PROVE  script' = script /\ program' = program /\ subject' = subject /\ (Layers' <=> Layers)
<1>1. script' = script /\ program' = program /\ subject' = subject
  BY DEF script, program, subject
<1>2. QED
  BY <1>1 DEF Layers

LEMMA Stands ==
    ASSUME test' = test, ip' = ip
    PROVE  /\ \A C : (Past(C)' <=> Past(C)) /\ (Coming(C)' <=> Coming(C))
           /\ \A c, p : Did(c, p)' <=> Did(c, p)
           /\ Begun(test, ip)' <=> Begun(test, ip)
<1>1. script' = script
  BY SameTest
<1>2. ASSUME NEW C PROVE (Past(C)' <=> Past(C)) /\ (Coming(C)' <=> Coming(C))
  BY <1>1 DEF Past, Coming
<1>3. ASSUME NEW c, NEW p PROVE Did(c, p)' <=> Did(c, p)
  BY <1>1 DEF Did
<1>4. QED
  BY <1>2, <1>3

LEMMA StepsOn ==
    ASSUME TestOK, test' = test, ip' = ip + 1, ip <= Len(script)
    PROVE  /\ \A C : Past(C)' <=> Past(C) \/ script[ip].call \in C
           /\ \A C : Coming(C) <=> Coming(C)' \/ script[ip].call \in C
           /\ \A c, p : c # "renew" =>
                 (Did(c, p)' <=> \/ script[ip].call = c /\ script[ip].who = p
                                 \/ Did(c, p) /\ (p = "init" \/ script[ip].call # "renew"))
           /\ Begun(test, ip)' <=> \/ Begun(test, ip)
                                   \/ script[ip].call = "start" /\ script[ip].who = subject
<1>1. script' = script /\ ip \in Nat \ {0} /\ ip \in 1..Len(script) /\ Len(script) \in Nat
  BY SameTest DEF TestOK
<1>2. ASSUME NEW C PROVE Past(C)' <=> Past(C) \/ script[ip].call \in C
  BY <1>1, BehindStep DEF Past
<1>3. ASSUME NEW C PROVE Coming(C) <=> Coming(C)' \/ script[ip].call \in C
  BY <1>1, AheadStep DEF Coming
<1>4. ASSUME NEW c, NEW p, c # "renew"
      PROVE  Did(c, p)' <=> \/ script[ip].call = c /\ script[ip].who = p
                            \/ Did(c, p) /\ (p = "init" \/ script[ip].call # "renew")
  <2>1. Done(script, ip + 1, c, p)
           <=> \/ script[ip].call = c /\ script[ip].who = p
               \/ Done(script, ip, c, p) /\ (p = "init" \/ script[ip].call # "renew")
    BY <1>1, <1>4, DoneStep
  <2>2. QED
    BY <1>1, <2>1 DEF Did
<1>5. Begun(test, ip)' <=> \/ Begun(test, ip)
                           \/ script[ip].call = "start" /\ script[ip].who = subject
  BY <1>1, BegunStep DEF script, subject
<1>6. QED
  BY <1>2, <1>3, <1>4, <1>5

LEMMA Forth ==
    ASSUME TestOK, Moves
    PROVE  /\ ip' \in 1..Len(script) + 1 /\ outcome' \in {"none", "fail", "skip"}
           /\ \A C : (Past(C) => Past(C)') /\ (Coming(C)' => Coming(C))
           /\ Begun(test, ip) => Begun(test, ip)'
<1>1. /\ script' = script /\ test' = test /\ ip \in Nat /\ Len(script) \in Nat
      /\ ip' \in 1..Len(script) + 1 /\ ip <= ip' /\ ip >= 1
  BY SameTest DEF TestOK, Moves, Steady, Onward, Jump
<1>2. (\A j \in 1..ip - 1 : j \in 1..ip' - 1) /\ (\A j \in ip'..Len(script) : j \in ip..Len(script))
  <2>1. ASSUME NEW i \in Nat, NEW k \in Nat, NEW n \in Nat, i <= k
        PROVE  (\A j \in 1..i - 1 : j \in 1..k - 1) /\ (\A j \in k..n : j \in i..n)
    BY <2>1
  <2>2. ip' \in Nat
    BY <1>1
  <2>3. QED
    BY <1>1, <2>1, <2>2
<1>3. ASSUME NEW C PROVE (Past(C) => Past(C)') /\ (Coming(C)' => Coming(C))
  <2>1. Behind(script, ip, C) => Behind(script, ip', C)
    BY <1>2 DEF Behind
  <2>2. Ahead(script, ip', C) => Ahead(script, ip, C)
    BY <1>2 DEF Ahead
  <2>3. QED
    BY <1>1, <2>1, <2>2 DEF Past, Coming
<1>4. Begun(test, ip) => Begun(test, ip)'
  BY <1>1, <1>2 DEF Begun
<1>5. outcome' \in {"none", "fail", "skip"}
  BY DEF TestOK, Moves, Steady, Onward, Jump
<1>6. QED
  BY <1>1, <1>3, <1>4, <1>5

\* A test that has not failed took its steps one by one, or has a step that returns,
\* and then none that looks at the output.
LEMMA Unfailed ==
    ASSUME TestOK, Moves, outcome' = "none"
    PROVE  /\ outcome = "none"
           /\ \/ ip' = ip
              \/ ip' = ip + 1 /\ ip <= Len(script)
              \/ /\ script[ip].on = "return" /\ test # "Events" /\ ~Layers
                 /\ \A C : C \subseteq {"poll", "verify", "writer", "order", "renew"} => ~Past(C)'
<1>1. CASE ip' = ip \/ (ip' = ip + 1 /\ ip <= Len(script))
  BY <1>1 DEF Moves, Steady, Onward, Jump
<1>2. CASE ip <= Len(script) /\ script[ip].on = "return" /\ outcome' = outcome
  <2>1. /\ ip \in 1..Len(script) /\ Len(script) \in Nat /\ ip' \in 1..Len(script) + 1
        /\ script' = script
    BY <1>2, Forth, SameTest DEF TestOK, Moves
  <2>2. Shape(test, ip) /\ Eventful(test, ip)
    BY <2>1, RulesOf DEF TestOK
  <2>3. ~Ahead(script, 1, {"poll", "verify", "writer", "order", "renew"}) /\ test # "Events"
    BY <1>2, <2>2 DEF Shape, Eventful, script
  <2>4. \A C : C \subseteq {"poll", "verify", "writer", "order", "renew"} => ~Ahead(script, 1, C)
    BY <2>3 DEF Ahead
  <2>5. ASSUME NEW C, C \subseteq {"poll", "verify", "writer", "order", "renew"} PROVE ~Past(C)'
    <3>1. ~Behind(script, ip', C)
      BY <2>1, <2>4, <2>5, BehindOrAhead
    <3>2. QED
      BY <2>1, <3>1 DEF Past
  <2>6. ~Layers
    BY <2>4 DEF Layers
  <2>7. QED
    BY <1>2, <2>3, <2>5, <2>6
<1>3. QED
  BY <1>1, <1>2 DEF Moves, Steady, Onward, Jump, TestOK

\* So is Place.
LEMMA PlaceMoves ==
    ASSUME TestOK, Place, Moves,
           guarded' = guarded \/ (ip' = ip + 1 /\ script[ip].call = "guard"),
           phase' = phase \/ (ip' = ip /\ (phase = "body" => ip > Len(script)))
    PROVE  Place'
<1>1. script' = script /\ test' = test /\ ip' \in 1..Len(script) + 1
  BY Forth, SameTest DEF Moves
<1>2. guarded' => Past({"guard"})'
  <2>1. CASE guarded' = guarded
    BY <2>1, Forth DEF Place
  <2>2. CASE ip' = ip + 1 /\ script[ip].call = "guard"
    <3>1. ip <= Len(script)
      BY <1>1, <2>2 DEF TestOK
    <3>2. QED
      BY <1>1, <2>2, <3>1, StepsOn
  <2>3. QED
    BY <2>1, <2>2
<1>3. outcome' = "fail" => ~Coming(Skips)'
  BY Forth DEF Place, Moves, Steady, Onward, Jump
<1>4. outcome' = "skip" => ip' = Len(script') + 1 /\ test' # "Events"
  <2>1. CASE outcome = "skip"
    BY <1>1, <2>1 DEF Place, Moves, Steady, Onward, Jump, TestOK
  <2>2. CASE outcome # "skip"
    <3>1. ASSUME outcome' = "skip"
          PROVE  ip \in 1..Len(script) /\ script[ip].call \in Skips /\ ip' = Len(script) + 1
      BY <2>2, <3>1 DEF TestOK, Moves, Steady, Onward, Jump
    <3>2. ASSUME outcome' = "skip" PROVE Eventful(test, ip)
      BY <3>1, <3>2, RulesOf DEF TestOK
    <3>3. QED
      BY <1>1, <3>1, <3>2 DEF Eventful, script
  <2>3. QED
    BY <2>1, <2>2
<1>5. phase' # "body" => ip' = Len(script') + 1
  BY <1>1 DEF Place, Moves, Steady, Onward, Jump, TestOK
<1>6. QED
  BY <1>2, <1>3, <1>4, <1>5 DEF Place

LEMMA ActsMove ==
    ASSUME TestOK, Place, setup \/ rpc \/ listen \/ dial \/ send \/ hangUp \/ renew \/ drain
                          \/ write \/ writer
    PROVE  Moves /\ KeepTest /\ Grows /\ ip' # ip
<1> USE DEF KeepTest, Calls, Grows
<1>1. ASSUME NEW call, At(call), call \notin Calls, KeepTest, Goes \/ Leaves("fail")
      PROVE  Moves /\ ip' # ip
  <2>1. CASE Goes
    BY <1>1, <2>1, GoesMoves DEF TestOK
  <2>2. CASE Leaves("fail")
    <3>1. ip' \in ip + 1..Len(script) + 1
      BY <1>1, <2>2, LeavesMoves
    <3>2. QED
      BY <1>1, <2>2, <3>1, FailMoves DEF TestOK
  <2>3. QED
    BY <1>1, <2>1, <2>2
<1>2. CASE setup
  BY <1>1, <1>2 DEF setup
<1>3. CASE rpc
  <2>1. PICK call \in Calls :
           /\ At(call) /\ KeepTest
           /\ \E err \in {"nil", "gone", "error"} : OnError(err)
           /\ fault' = fault \/ fault' = TRUE
           /\ slow' = slow
    BY <1>3 DEF rpc
  <2>2. Moves
    BY <2>1, OnErrorMoves
  <2>3. ip' # ip
    <3>1. Shape(test, ip) /\ ip \in 1..Len(script) /\ script[ip].call = call
      BY <2>1, HereOK
    <3>2. script[ip].on \in {"fatal", "soft", "tolerate", "ignore", "expect", "return"}
      BY <3>1 DEF Shape, script
    <3>3. Goes \/ \E how : Leaves(how) /\ script[ip].on # "ignore"
      BY <2>1, <3>2 DEF OnError
    <3>4. CASE Goes
      BY <3>4 DEF Goes, TestOK
    <3>5. CASE \E how : Leaves(how) /\ script[ip].on # "ignore"
      <4>1. ip' \in ip + 1..Len(script) + 1
        BY <2>1, <3>5, LeavesMoves
      <4>2. QED
        BY <4>1 DEF TestOK
    <3>6. QED
      BY <3>3, <3>4, <3>5
  <2>4. QED
    BY <2>1, <2>2, <2>3
<1>4. CASE listen
  BY <1>1, <1>4 DEF listen, history
<1>5. CASE dial
  BY <1>1, <1>5 DEF dial
<1>6. CASE send
  BY <1>1, <1>6 DEF send, history
<1>7. CASE hangUp
  BY <1>1, <1>7 DEF hangUp, history
<1>8. CASE renew
  BY <1>1, <1>8 DEF renew
<1>9. CASE drain
  BY <1>1, <1>9 DEF drain, history
<1>10. CASE write
  BY <1>1, <1>10 DEF write, history
<1>11. CASE writer
  BY <1>1, <1>11 DEF writer, history
<1>12. QED
  BY <1>2, <1>3, <1>4, <1>5, <1>6, <1>7, <1>8, <1>9, <1>10, <1>11

LEMMA WorldStays == ASSUME World PROVE UNCHANGED testVars /\ Grows /\ Moves
<1>1. UNCHANGED testVars
  BY DEF World, StdinWriter, DrainRead, DrainEOF, ProcWrites, ProcExits, NcConnects, NcCopiesIn,
         NcCopiesOut, NcGivesUp, Peer, PeerTimesOut, NetworkLoses, ShimCopies, ShimCloses,
         ShimExits, ShimDrops, ShimForwards, ShimForwardsAgain, ShimSkews
<1>2. (fault' = fault \/ fault' = TRUE) /\ (slow' = slow \/ slow' = TRUE)
  BY DEF World, StdinWriter, DrainRead, DrainEOF, ProcWrites, ProcExits, NcConnects, NcCopiesIn,
         NcCopiesOut, NcGivesUp, Peer, PeerTimesOut, NetworkLoses, ShimCopies, ShimCloses,
         ShimExits, ShimDrops, ShimForwards, ShimForwardsAgain, ShimSkews, history
<1>3. QED
  BY <1>1, <1>2 DEF testVars, Grows, Moves, Steady
-----------------------------------------------------------------------------
(***************************************************************************)
(* Types.  The bound on the tokens of a connection follows from Accounted, *)
(* what the events are from Recorded.                                      *)
(***************************************************************************)
States == {"none", "created", "running", "stopped", "deleted"}
Procs == {"init", "exec"}

FlowOK ==
    /\ src \in Nat /\ toSend \in Nat /\ sent \in Nat
    /\ stdin \in 0..PipeSize /\ held \in 0..PipeSize /\ fifo \in 0..PipeSize
    /\ got \in Nat /\ lost \in Nat
    /\ up \in Nat /\ down \in Nat
FlagsOK ==
    /\ stdinOpen \in BOOLEAN /\ draining \in BOOLEAN /\ closed \in BOOLEAN /\ drained \in BOOLEAN
    /\ hungUp \in BOOLEAN /\ skewed \in BOOLEAN
HistOK == fault \in BOOLEAN /\ slow \in BOOLEAN /\ misread \in BOOLEAN /\ leftover \in BOOLEAN
ShimOK ==
    /\ shim \in {"absent", "up", "stopping", "down"} /\ proc \in [Procs -> States]
    /\ link \in {"none", "listen", "open", "heard"}
    /\ peer \in {"off", "accept", "closed", "done", "fail"} /\ code \in 0..1
    /\ repeats \in 0..MaxRepeats
Basics == TestOK /\ FlowOK /\ FlagsOK /\ HistOK /\ ShimOK

LEMMA TypeIsBasic == ASSUME TypeOK PROVE Basics
<1>1. TestOK
  BY RulesOf DEF TypeOK, TestOK
<1>2. FlowOK
  BY DEF TypeOK, NetTypeOK, FlowOK
<1>3. FlagsOK /\ HistOK
  <2>1. {stdinOpen, draining, closed, drained} \subseteq BOOLEAN
    BY DEF TypeOK
  <2>2. {fault, slow, misread, leftover} \subseteq BOOLEAN
    BY DEF TypeOK
  <2>3. hungUp \in BOOLEAN /\ skewed \in BOOLEAN
    BY DEF TypeOK, NetTypeOK, EventsTypeOK
  <2>4. stdinOpen \in BOOLEAN /\ draining \in BOOLEAN /\ closed \in BOOLEAN /\ drained \in BOOLEAN
    BY <2>1, Zenon
  <2>5. fault \in BOOLEAN /\ slow \in BOOLEAN /\ misread \in BOOLEAN /\ leftover \in BOOLEAN
    BY <2>2, Zenon
  <2>6. QED
    BY <2>3, <2>4, <2>5 DEF FlagsOK, HistOK
<1>4. ShimOK
  BY DEF TypeOK, NetTypeOK, EventsTypeOK, ShimOK, Procs, States
<1>5. QED
  BY <1>1, <1>2, <1>3, <1>4 DEF Basics

LEMMA BasicIsType == ASSUME Basics, Accounted, Recorded PROVE TypeOK
<1>1. up \in 0..1 /\ down \in 0..1
  BY DEF Accounted, Basics, FlowOK, OutFlow
<1>2. {stdinOpen, draining, closed, drained} \subseteq BOOLEAN
  BY Zenon DEF Basics, FlagsOK
<1>3. {fault, slow, misread, leftover} \subseteq BOOLEAN
  BY Zenon DEF Basics, HistOK
<1>4. \A i \in 1..4 : want[i] \in Topics
  BY DEF want, Topics
<1>5. Topics \subseteq {want[i] : i \in DOMAIN want}
  BY DEF want, Topics
<1>6. ASSUME NEW s \in Seq(Topics) PROVE {s[i] : i \in DOMAIN s} \subseteq {want[i] : i \in DOMAIN want}
  <2>1. \A i \in DOMAIN s : s[i] \in Topics
    OBVIOUS
  <2>2. QED
    BY <1>5, <2>1
<1>7. EventsTypeOK
  <2>1. outbox \in Seq(Topics) /\ envelopes \in Seq(Topics)
    BY DEF Recorded
  <2>2. QED
    BY <1>6, <2>1 DEF EventsTypeOK, Basics, ShimOK, FlagsOK
<1>8. NetTypeOK
  BY <1>1 DEF NetTypeOK, Basics, ShimOK, FlagsOK
<1>9. QED
  BY <1>2, <1>3, <1>7, <1>8 DEF TypeOK, Basics, TestOK, FlowOK, ShimOK, Procs, States

LEMMA InitTypes == ASSUME Init PROVE Basics
<1>1. Len(script) \in Nat /\ Whole(test)
  BY RulesOf DEF Init
<1>2. TestOK
  <2>1. 1 \in 1..Len(script) + 1
    BY <1>1
  <2>2. ip = 1 /\ world \in {"conforming", "hostile"} /\ test \in Tests /\ phase = "body" /\ outcome = "none"
    BY DEF Init
  <2>3. guarded = FALSE /\ leaked = FALSE
    BY DEF Init
  <2>4. QED
    BY <1>1, <2>1, <2>2, <2>3 DEF TestOK
<1>3. FlowOK
  BY SizesAssumption DEF Init, NetInit, FlowOK
<1>4. FlagsOK /\ HistOK
  BY DEF Init, NetInit, EventsInit, FlagsOK, HistOK
<1>5. ShimOK
  BY MaxRepeatsAssumption DEF Init, NetInit, EventsInit, ShimOK, Procs, States
<1>6. QED
  BY <1>2, <1>3, <1>4, <1>5 DEF Basics

\* What a step that looks does to the test's own variables.
LEMMA LooksTypes ==
    ASSUME Basics, Place, Looks
    PROVE  /\ guarded' = guarded \/ (ip' = ip + 1 /\ script[ip].call = "guard")
           /\ phase' = phase \/ (ip' = ip /\ (phase = "body" => ip > Len(script)))
           /\ guarded' \in BOOLEAN /\ phase' \in {"body", "leak", "ended"} /\ leaked' \in BOOLEAN
           /\ HistOK'
<1> DEFINE Out == /\ guarded' = guarded \/ (ip' = ip + 1 /\ script[ip].call = "guard")
                  /\ phase' = phase \/ (ip' = ip /\ (phase = "body" => ip > Len(script)))
                  /\ guarded' \in BOOLEAN /\ phase' \in {"body", "leak", "ended"} /\ leaked' \in BOOLEAN
<1>1. ASSUME KeepTest PROVE Out
  BY <1>1 DEF KeepTest, Basics, TestOK
<1>2. CASE Waits
  <2>1. KeepTest
    BY <1>2 DEF Waits, poll, drainDone, writeDone, waitForTopic, waitForListeningPort, accept,
                elapsed, pause, verify, some, capped, readGuestMem, order, envelope, stdoutDone,
                status, peerDone, Timed, Local
  <2>2. leftover' = leftover
    BY <1>2 DEF Waits, poll, drainDone, writeDone, waitForTopic, waitForListeningPort, accept,
                elapsed, pause, verify, some, capped, readGuestMem, order, envelope, stdoutDone,
                status, peerDone, Timed, history
  <2>3. fault' \in {fault, TRUE}
    BY <1>2 DEF Waits, poll, drainDone, writeDone, waitForTopic, waitForListeningPort, accept,
                elapsed, pause, verify, some, capped, readGuestMem, order, envelope, stdoutDone,
                status, peerDone, Timed, history
  <2>4. slow' \in BOOLEAN
    <3>1. CASE pause \/ capped
      BY <3>1 DEF pause, capped
    <3>2. CASE ~(pause \/ capped)
      BY <1>2, <3>2 DEF Waits, poll, drainDone, writeDone, waitForTopic, waitForListeningPort,
                accept, elapsed, verify, some, readGuestMem, order, envelope, stdoutDone,
                status, peerDone, Timed, history, Basics, HistOK
    <3>3. QED
      BY <3>1, <3>2
  <2>5. misread' \in BOOLEAN
    <3>1. CASE readGuestMem
      BY <3>1 DEF readGuestMem
    <3>2. CASE ~readGuestMem
      BY <1>2, <3>2 DEF Waits, poll, drainDone, writeDone, waitForTopic, waitForListeningPort,
                accept, elapsed, pause, capped, verify, some, order, envelope, stdoutDone,
                status, peerDone, Timed, history, Basics, HistOK
    <3>3. QED
      BY <3>1, <3>2
  <2>6. QED
    BY <1>1, <2>1, <2>2, <2>3, <2>4, <2>5 DEF Basics, HistOK
<1>3. CASE attachContainerNetwork \/ AddInboundForward \/ format \/ probe \/ transfer
  <2>1. KeepTest
    BY <1>3 DEF attachContainerNetwork, AddInboundForward, format, probe, transfer, Local
  <2>2. fault' \in {fault, TRUE} /\ slow' = slow /\ misread' = misread /\ leftover' = leftover
    BY <1>3 DEF attachContainerNetwork, AddInboundForward, format, probe, transfer, history
  <2>3. QED
    BY <1>1, <2>1, <2>2 DEF Basics, HistOK
<1>4. CASE guard
  BY <1>4 DEF guard, At, Goes, history, Basics, TestOK, HistOK
<1>5. CASE BodyEnds
  BY <1>5 DEF BodyEnds, history, Basics, TestOK, HistOK
<1>6. CASE registerShimLeakCheck
  <2>1. /\ guarded' = guarded /\ phase' = "ended" /\ phase = "leak" /\ ip' = ip
        /\ fault' = fault /\ misread' = misread /\ leftover' = leftover
    BY <1>6 DEF registerShimLeakCheck
  <2>2. leaked' \in BOOLEAN
    BY <1>6 DEF registerShimLeakCheck
  <2>3. slow' \in BOOLEAN
    BY <1>6 DEF registerShimLeakCheck
  <2>4. QED
    BY <2>1, <2>2, <2>3 DEF Basics, TestOK, HistOK
<1>7. QED
  BY <1>2, <1>3, <1>4, <1>5, <1>6 DEF Looks
LEMMA LooksKeepBasics == ASSUME TypeOK, Place, Looks PROVE Basics' /\ Place' /\ Quiet
<1>1. Basics /\ TestOK
  BY TypeIsBasic DEF Basics
<1>2. Quiet
  BY <1>1, LooksAreQuiet
<1>3. Moves /\ test' = test /\ world' = world /\ script' = script
  BY <1>2, SameTest DEF Quiet, Moves
<1>4. TestOK'
  BY <1>1, <1>3, Forth, LooksTypes DEF TestOK
<1>5. UNCHANGED <<src, toSend, sent, stdin, held, fifo, got, lost, up, down>>
  BY <1>2 DEF Quiet, KeepShim, inVars, outVars, envVars, netVars
<1>6. UNCHANGED <<stdinOpen, draining, closed, drained, hungUp, skewed>>
  BY <1>2 DEF Quiet, KeepShim, inVars, outVars, envVars, netVars, eventVars
<1>7. UNCHANGED <<shim, proc, link, peer, code, repeats>>
  BY <1>2 DEF Quiet, KeepShim, envVars, netVars, eventVars
<1>8. FlowOK' /\ FlagsOK' /\ ShimOK'
  BY <1>1, <1>5, <1>6, <1>7 DEF Basics, FlowOK, FlagsOK, ShimOK
<1>9. HistOK'
  BY <1>1, LooksTypes
<1>10. Place'
  BY <1>1, <1>3, LooksTypes, PlaceMoves
<1>11. QED
  BY <1>2, <1>4, <1>8, <1>9, <1>10 DEF Basics

\* The parts of a call, with the process that it is about.
RpcStep(call, p) ==
    /\ call \in Calls /\ At(call) /\ p \in Procs /\ p = script[ip].who /\ script[ip].call = call
    /\ \/ Legal(call, p) /\ Effect(call, p) /\ OnError("nil") /\ UNCHANGED fault
       \/ /\ ~Legal(call, p) /\ ~Blocked(call, p)
          /\ OnError(IF proc[p] = "stopped" THEN "gone" ELSE "error")
          /\ UNCHANGED <<proc, shim, stdinOpen, eventVars, fault>>
       \/ /\ hostile /\ fault' = TRUE
          /\ OnError(IF script[ip].on = "expect" THEN "nil" ELSE "error")
          /\ UNCHANGED <<proc, shim, stdinOpen, eventVars>>
    /\ KeepTest
    /\ UNCHANGED <<src, toSend, sent, stdin, outVars, netVars, slow, misread, leftover>>

LEMMA RpcSteps == ASSUME TestOK, rpc PROVE \E call, p : RpcStep(call, p)
<1>1. PICK call \in Calls : At(call) /\ rpc!(call)!2
  BY DEF rpc
<1>2. script[ip].who \in Procs /\ script[ip].call = call
  BY <1>1, HereOK DEF Shape, Procs, script
<1>3. RpcStep(call, script[ip].who)
  BY <1>1, <1>2 DEF RpcStep
<1>4. QED
  BY <1>3

\* How a call changes the process and the shim.
LEMMA EffectOf ==
    ASSUME ShimOK, NEW call, NEW p \in Procs, Effect(call, p)
    PROVE  /\ shim' \in {"absent", "up", "stopping", "down"} /\ proc' \in [Procs -> States]
           /\ stdinOpen' = stdinOpen \/ stdinOpen' = FALSE
           /\ repeats' = repeats /\ skewed' = skewed
           /\ \A q \in Procs : q # p => proc'[q] = proc[q]
           /\ call \in {"create", "exec"} => proc'[p] = "created"
           /\ call = "start" => proc'[p] = "running"
           /\ call = "kill" => proc'[p] = "stopped"
           /\ call = "delete" => proc'[p] = "deleted"
           /\ call \notin {"create", "exec", "start", "kill", "delete"} => proc' = proc
           /\ shim' = IF call = "shutdown" THEN "stopping" ELSE shim
           /\ call # "closeIO" => stdinOpen' = stdinOpen
           /\ call = "closeIO" => stdinOpen' = FALSE
<1>1. repeats' = repeats /\ skewed' = skewed
  BY DEF Effect, Emits, Publish, eventVars
<1>2. shim' = (IF call = "shutdown" THEN "stopping" ELSE shim) /\ shim' \in {"absent", "up", "stopping", "down"}
  BY DEF Effect, ShimOK
<1>3. (call # "closeIO" => stdinOpen' = stdinOpen) /\ (call = "closeIO" => stdinOpen' = FALSE)
  BY DEF Effect
<1>4. proc' = CASE call \in {"create", "exec"} -> [proc EXCEPT ![p] = "created"]
                [] call = "start"  -> [proc EXCEPT ![p] = "running"]
                [] call = "kill"   -> [proc EXCEPT ![p] = "stopped"]
                [] call = "delete" -> [proc EXCEPT ![p] = "deleted"]
                [] OTHER -> proc
  BY DEF Effect
<1>5. proc \in [Procs -> States]
  BY DEF ShimOK
<1>6. CASE call \in {"create", "exec"}
  BY <1>1, <1>2, <1>3, <1>4, <1>5, <1>6 DEF States
<1>7. CASE call = "start"
  BY <1>1, <1>2, <1>3, <1>4, <1>5, <1>7 DEF States
<1>8. CASE call = "kill"
  BY <1>1, <1>2, <1>3, <1>4, <1>5, <1>8 DEF States
<1>9. CASE call = "delete"
  BY <1>1, <1>2, <1>3, <1>4, <1>5, <1>9 DEF States
<1>10. CASE call \notin {"create", "exec", "start", "kill", "delete"}
  BY <1>1, <1>2, <1>3, <1>4, <1>5, <1>10 DEF States
<1>11. QED
  BY <1>6, <1>7, <1>8, <1>9, <1>10

TestActs == setup \/ rpc \/ listen \/ dial \/ send \/ hangUp \/ renew \/ drain \/ write \/ writer

LEMMA ActsKeepBasics == ASSUME TypeOK, Place, TestActs PROVE Basics' /\ Place' /\ Moves
<1>1. Basics /\ TestOK /\ FlowOK /\ FlagsOK /\ HistOK /\ ShimOK
  BY TypeIsBasic DEF Basics
<1>2. Moves /\ KeepTest /\ test' = test /\ world' = world /\ script' = script
  BY <1>1, ActsMove, SameTest DEF Moves, TestActs
<1>3. TestOK'
  BY <1>1, <1>2, Forth DEF TestOK, KeepTest
<1>4. Place'
  BY <1>1, <1>2, PlaceMoves DEF KeepTest
<1> DEFINE Rest == FlowOK' /\ FlagsOK' /\ HistOK' /\ ShimOK'
<1>5. CASE setup
  <2>1. UNCHANGED <<src, toSend, sent, stdin, held, fifo, got, lost, up, down>>
    BY <1>5 DEF setup, inVars, outVars, envVars, netVars
  <2>2. UNCHANGED <<stdinOpen, draining, closed, drained, hungUp, skewed, slow, misread, leftover>>
    BY <1>5 DEF setup, inVars, outVars, envVars, netVars, eventVars
  <2>3. UNCHANGED <<proc, link, peer, code, repeats>> /\ shim' \in {"absent", "up"} /\ fault' \in {fault, TRUE}
    BY <1>5 DEF setup, envVars, netVars, eventVars
  <2>4. Rest
    <3>1. FlowOK'
      BY <1>1, <2>1, <2>2, <2>3 DEF FlowOK
    <3>2. FlagsOK'
      BY <1>1, <2>1, <2>2, <2>3, Zenon DEF FlagsOK
    <3>3. HistOK'
      BY <1>1, <2>1, <2>2, <2>3, Zenon DEF HistOK
    <3>4. ShimOK'
      BY <1>1, <2>1, <2>2, <2>3 DEF ShimOK
    <3>5. QED
      BY <3>1, <3>2, <3>3, <3>4
  <2>5. QED
    BY <1>3, <1>4, <1>2, <2>4 DEF Basics
<1>6. CASE rpc
  <2>1. PICK call, p : RpcStep(call, p)
    BY <1>1, <1>6, RpcSteps
  <2>2. UNCHANGED <<src, toSend, sent, stdin, held, fifo, got, lost, up, down>>
    BY <2>1 DEF RpcStep, outVars, netVars
  <2>3. /\ UNCHANGED <<draining, closed, drained, hungUp, slow, misread, leftover>>
        /\ fault' \in {fault, TRUE} /\ UNCHANGED <<link, peer, code>>
    BY <2>1 DEF RpcStep, outVars, netVars
  <2>4. /\ shim' \in {"absent", "up", "stopping", "down"} /\ proc' \in [Procs -> States]
        /\ stdinOpen' \in {stdinOpen, FALSE} /\ repeats' = repeats /\ skewed' = skewed
    <3>1. p \in Procs
      BY <2>1 DEF RpcStep
    <3>2. CASE Effect(call, p)
      BY <1>1, <3>1, <3>2, EffectOf
    <3>3. CASE UNCHANGED <<proc, shim, stdinOpen, eventVars>>
      BY <1>1, <3>3 DEF ShimOK, eventVars
    <3>4. QED
      BY <2>1, <3>2, <3>3 DEF RpcStep
  <2>5. Rest
    <3>1. FlowOK'
      BY <1>1, <2>2, <2>3, <2>4 DEF FlowOK
    <3>2. FlagsOK'
      BY <1>1, <2>2, <2>3, <2>4, Zenon DEF FlagsOK
    <3>3. HistOK'
      BY <1>1, <2>2, <2>3, <2>4, Zenon DEF HistOK
    <3>4. ShimOK'
      BY <1>1, <2>2, <2>3, <2>4 DEF ShimOK
    <3>5. QED
      BY <3>1, <3>2, <3>3, <3>4
  <2>6. QED
    BY <1>3, <1>4, <1>2, <2>5 DEF Basics
<1>7. CASE listen \/ dial \/ send \/ hangUp
  <2>1. UNCHANGED <<src, toSend, sent, stdin, held, fifo, got, lost, up>>
    BY <1>7 DEF listen, dial, send, hangUp, Listen, Dial, HostWrites, HangUp, KeepShim, inVars, outVars, netVars
  <2>2. down' = down \/ down' = down + 1
    BY <1>7 DEF listen, dial, send, hangUp, Listen, Dial, HostWrites, HangUp, netVars
  <2>3. UNCHANGED <<stdinOpen, draining, closed, drained, skewed, slow, misread, leftover, repeats, shim, proc>>
    BY <1>7 DEF listen, dial, send, hangUp, KeepShim, inVars, outVars, eventVars, history
  <2>4. fault' \in {fault, TRUE}
    BY <1>7 DEF listen, dial, send, hangUp, history
  <2>5. /\ hungUp' \in {hungUp, TRUE} /\ link' \in {link, "listen", "open"}
        /\ peer' \in {peer, "accept", "off"} /\ code' = code
    BY <1>7 DEF listen, dial, send, hangUp, Listen, Dial, HostWrites, HangUp, netVars
  <2>6. Rest
    <3>1. FlowOK'
      BY <1>1, <2>1, <2>2, <2>3, <2>4, <2>5 DEF FlowOK
    <3>2. FlagsOK'
      BY <1>1, <2>1, <2>2, <2>3, <2>4, <2>5, Zenon DEF FlagsOK
    <3>3. HistOK'
      BY <1>1, <2>1, <2>2, <2>3, <2>4, <2>5, Zenon DEF HistOK
    <3>4. ShimOK'
      BY <1>1, <2>1, <2>2, <2>3, <2>4, <2>5 DEF ShimOK
    <3>5. QED
      BY <3>1, <3>2, <3>3, <3>4
  <2>7. QED
    BY <1>3, <1>4, <1>2, <2>6 DEF Basics
<1>8. CASE renew
  <2>1. UNCHANGED <<toSend, sent, stdin, lost, up, down>> /\ src' \in {0, 1} /\ held' = 0 /\ fifo' = 0 /\ got' = 0
    BY <1>8 DEF renew, envVars, netVars
  <2>2. /\ UNCHANGED <<stdinOpen, draining, hungUp, skewed, slow, misread>>
        /\ closed' = FALSE /\ drained' = FALSE
        /\ fault' \in {fault, TRUE} /\ leftover' \in {leftover, TRUE}
    BY <1>8 DEF renew, envVars, netVars, eventVars
  <2>3. UNCHANGED <<shim, link, peer, code, repeats>> /\ proc' = [proc EXCEPT !["exec"] = "none"]
    BY <1>8 DEF renew, envVars, netVars, eventVars
  <2>4. FlowOK'
    BY <1>1, <2>1, SizesAssumption DEF FlowOK
  <2>5. FlagsOK' /\ HistOK'
    BY <1>1, <2>2, Zenon DEF FlagsOK, HistOK
  <2>6. ShimOK'
    BY <1>1, <2>3 DEF ShimOK, Procs, States
  <2>7. QED
    BY <1>3, <1>4, <1>2, <2>4, <2>5, <2>6 DEF Basics
<1>9. CASE drain \/ write \/ writer
  <2>1. UNCHANGED <<src, held, fifo, got, lost, up, down>>
    BY <1>9 DEF drain, write, writer, inVars, outVars, envVars, netVars
  <2>2. /\ toSend' \in {toSend, Chunks} /\ sent' \in {sent, sent + 1}
        /\ stdin' = stdin \/ (stdin < PipeSize /\ stdin' = stdin + 1)
    BY <1>9 DEF drain, write, writer, inVars
  <2>3. UNCHANGED <<stdinOpen, closed, drained, hungUp, skewed>> /\ draining' \in {draining, TRUE}
    BY <1>9 DEF drain, write, writer, inVars, outVars, envVars, netVars, eventVars
  <2>4. UNCHANGED <<fault, slow, misread, leftover, shim, proc, link, peer, code, repeats>>
    BY <1>9 DEF drain, write, writer, envVars, netVars, eventVars, history
  <2>5. FlowOK'
    BY <1>1, <2>1, <2>2, SizesAssumption DEF FlowOK
  <2>6. FlagsOK'
    BY <1>1, <2>3, Zenon DEF FlagsOK
  <2>7. HistOK' /\ ShimOK'
    BY <1>1, <2>4 DEF HistOK, ShimOK
  <2>8. QED
    BY <1>3, <1>4, <1>2, <2>5, <2>6, <2>7 DEF Basics
<1>10. QED
  BY <1>5, <1>6, <1>7, <1>8, <1>9 DEF TestActs
LEMMA WorldKeepsBasics == ASSUME TypeOK, Place, World PROVE Basics' /\ Place' /\ UNCHANGED testVars
<1>1. Basics /\ TestOK /\ FlowOK /\ FlagsOK /\ HistOK /\ ShimOK
  BY TypeIsBasic DEF Basics
<1>2. UNCHANGED testVars /\ Moves /\ script' = script
  BY WorldStays, SameTest DEF testVars
<1>3. TestOK'
  BY <1>1, <1>2 DEF testVars, TestOK
<1>4. Place'
  BY <1>1, <1>2, PlaceMoves DEF testVars
<1>5. FlowOK'
  <2>1. PipeSize \in Nat /\ proc \in [Procs -> States]
    BY <1>1, SizesAssumption DEF ShimOK
  <2>2. CASE StdinWriter
    BY <1>1, <2>1, <2>2 DEF StdinWriter, outVars, envVars, netVars, FlowOK
  <2>3. CASE DrainRead
    BY <1>1, <2>1, <2>3 DEF DrainRead, inVars, envVars, netVars, FlowOK
  <2>4. CASE ProcWrites
    BY <1>1, <2>1, <2>4 DEF ProcWrites, envVars, netVars, FlowOK
  <2>5. CASE NcCopiesIn
    BY <1>1, <2>1, <2>5 DEF NcCopiesIn, NcSends, outVars, FlowOK
  <2>6. CASE NcCopiesOut
    BY <1>1, <2>1, <2>6 DEF NcCopiesOut, NcReceives, inVars, FlowOK
  <2>7. CASE Peer
    BY <1>1, <2>1, <2>7 DEF Peer, PeerEchoes, PeerReports, KeepShim, inVars, outVars, FlowOK
  <2>8. CASE NetworkLoses
    BY <1>1, <2>1, <2>8 DEF NetworkLoses, Swallows, inVars, FlowOK
  <2>9. CASE ShimCopies
    BY <1>1, <2>1, <2>9 DEF ShimCopies, inVars, envVars, netVars, FlowOK
  <2>10. CASE ShimDrops
    BY <1>1, <2>1, <2>10 DEF ShimDrops, inVars, envVars, netVars, FlowOK
  <2>11. CASE DrainEOF \/ ProcExits \/ ShimCloses \/ ShimExits
    BY <1>1, <2>11 DEF DrainEOF, ProcExits, ShimCloses, ShimExits, inVars, outVars, envVars, netVars, FlowOK
  <2>12. CASE NcConnects \/ NcGivesUp \/ PeerTimesOut
    BY <1>1, <2>12 DEF NcConnects, Dial, Bind, NcGivesUp, NcFails, PeerTimesOut, PeerGivesUp,
                       KeepShim, inVars, outVars, FlowOK
  <2>13. CASE ShimForwards \/ ShimForwardsAgain \/ ShimSkews
    BY <1>1, <2>13 DEF ShimForwards, ShimForwardsAgain, ShimSkews, KeepShim, inVars, outVars, netVars, FlowOK
  <2>14. QED
    BY <2>2, <2>3, <2>4, <2>5, <2>6, <2>7, <2>8, <2>9, <2>10, <2>11, <2>12, <2>13 DEF World
<1>6. /\ stdinOpen' = stdinOpen /\ draining' = draining
      /\ closed' \in {closed, TRUE} /\ drained' \in {drained, TRUE}
      /\ hungUp' \in {hungUp, TRUE} /\ skewed' \in {skewed, TRUE}
  <2>1. CASE StdinWriter \/ DrainRead \/ DrainEOF \/ ProcWrites \/ ShimCopies \/ ShimCloses \/ ShimExits
             \/ ShimDrops
    BY <2>1 DEF StdinWriter, DrainRead, DrainEOF, ProcWrites, ShimCopies, ShimCloses, ShimExits, ShimDrops,
                inVars, outVars, envVars, netVars, eventVars
  <2>2. CASE ProcExits
    BY <2>2 DEF ProcExits, Emits, Publish, inVars, outVars, netVars, eventVars
  <2>3. CASE NcConnects \/ NcCopiesIn \/ NcCopiesOut \/ NcGivesUp
    BY <2>3 DEF NcConnects, Dial, Bind, NcCopiesIn, NcSends, NcCopiesOut, NcReceives, NcGivesUp, NcFails,
                KeepShim, inVars, outVars, eventVars
  <2>4. CASE Peer \/ PeerTimesOut \/ NetworkLoses
    BY <2>4 DEF Peer, PeerEchoes, PeerReports, PeerTimesOut, PeerGivesUp, NetworkLoses, Swallows,
                KeepShim, inVars, outVars, eventVars
  <2>5. CASE ShimForwards \/ ShimForwardsAgain \/ ShimSkews
    BY <2>5 DEF ShimForwards, ShimForwardsAgain, ShimSkews, Forward, ForwardAgain, Skew,
                KeepShim, inVars, outVars, netVars
  <2>6. QED
    BY <2>1, <2>2, <2>3, <2>4, <2>5 DEF World
<1>7. FlagsOK'
  BY <1>1, <1>6, Zenon DEF FlagsOK
<1>8. fault' \in {fault, TRUE} /\ slow' \in {slow, TRUE} /\ misread' = misread /\ leftover' = leftover
  BY DEF World, StdinWriter, DrainRead, DrainEOF, ProcWrites, ProcExits, NcConnects, NcCopiesIn,
         NcCopiesOut, NcGivesUp, Peer, PeerTimesOut, NetworkLoses, ShimCopies, ShimCloses,
         ShimExits, ShimDrops, ShimForwards, ShimForwardsAgain, ShimSkews, history
<1>9. HistOK'
  BY <1>1, <1>8, Zenon DEF HistOK
<1>10. shim' \in {"absent", "up", "stopping", "down"} /\ proc' \in [Procs -> States]
  <2>1. /\ proc \in [Procs -> States] /\ subject \in Procs
        /\ shim \in {"absent", "up", "stopping", "down"}
    BY <1>1, RulesOf DEF ShimOK, TestOK, Whole, subject, Procs
  <2>2. CASE ProcExits \/ NcGivesUp
    BY <2>1, <2>2 DEF ProcExits, NcGivesUp, States
  <2>3. CASE ShimExits
    BY <2>1, <2>3 DEF ShimExits, States
  <2>4. CASE ~(ProcExits \/ NcGivesUp \/ ShimExits)
    <3>1. UNCHANGED <<shim, proc>>
      BY <2>4 DEF World, StdinWriter, DrainRead, DrainEOF, ProcWrites, NcConnects, NcCopiesIn,
                  NcCopiesOut, Peer, PeerTimesOut, NetworkLoses, ShimCopies, ShimCloses,
                  ShimDrops, ShimForwards, ShimForwardsAgain, ShimSkews, KeepShim
    <3>2. QED
      BY <2>1, <3>1
  <2>5. QED
    BY <2>2, <2>3, <2>4
<1>11. /\ link' \in {link, "listen", "open", "heard"} /\ peer' \in {peer, "closed", "done", "fail"}
       /\ code' \in {code, 1} /\ (repeats' = repeats \/ (repeats < MaxRepeats /\ repeats' = repeats + 1))
  <2>1. CASE StdinWriter \/ DrainRead \/ DrainEOF \/ ProcWrites \/ ShimCopies \/ ShimCloses \/ ShimExits
             \/ ShimDrops
    BY <2>1 DEF StdinWriter, DrainRead, DrainEOF, ProcWrites, ShimCopies, ShimCloses, ShimExits, ShimDrops,
                envVars, netVars, eventVars
  <2>2. CASE ProcExits
    BY <2>2 DEF ProcExits, Emits, Publish, netVars, eventVars
  <2>3. CASE NcConnects \/ NcCopiesIn \/ NcCopiesOut \/ NcGivesUp
    BY <2>3 DEF NcConnects, Dial, Bind, NcCopiesIn, NcSends, NcCopiesOut, NcReceives, NcGivesUp, NcFails,
                eventVars
  <2>4. CASE Peer \/ PeerTimesOut \/ NetworkLoses
    BY <2>4 DEF Peer, PeerEchoes, PeerReports, PeerTimesOut, PeerGivesUp, NetworkLoses, Swallows,
                eventVars
  <2>5. CASE ShimForwards \/ ShimForwardsAgain \/ ShimSkews
    BY <2>5 DEF ShimForwards, ShimForwardsAgain, ShimSkews, Forward, ForwardAgain, Skew, netVars
  <2>6. QED
    BY <2>1, <2>2, <2>3, <2>4, <2>5 DEF World
<1>12. ShimOK'
  BY <1>1, <1>10, <1>11, MaxRepeatsAssumption DEF ShimOK
<1>13. QED
  BY <1>2, <1>3, <1>4, <1>5, <1>7, <1>9, <1>12 DEF Basics
-----------------------------------------------------------------------------
(***************************************************************************)
(* Accounted.                                                              *)
(***************************************************************************)
flow == <<src, toSend, sent, stdin, held, fifo, got, lost, up, down>>

LEMMA SameFlow == ASSUME UNCHANGED flow PROVE OutFlow' = OutFlow
BY DEF flow, OutFlow

LEMMA AccountedKept ==
    ASSUME Basics, Accounted, Moves, UNCHANGED <<flow, leftover>>,
           ip' # ip => script[ip].call # "renew"
    PROVE  Accounted'
<1>1. TestOK /\ test' = test /\ program' = program
  BY SameTest DEF Basics, Moves
<1>2. (leftover' => Past({"renew"})') /\ (Coming({"write", "send"})' => Coming({"write", "send"}))
  BY <1>1, Forth DEF Accounted
<1>3. outcome' = "none" => outcome = "none" /\ (Past({"renew"})' <=> Past({"renew"}))
  <2>1. SUFFICES ASSUME outcome' = "none" PROVE outcome = "none" /\ (Past({"renew"})' <=> Past({"renew"}))
    OBVIOUS
  <2>2. CASE ip' = ip
    BY <1>1, <2>1, <2>2, Unfailed, Stands
  <2>3. CASE ip' = ip + 1 /\ ip <= Len(script)
    BY <1>1, <2>1, <2>3, Unfailed, StepsOn DEF Basics, TestOK
  <2>4. CASE ~Past({"renew"})'
    BY <1>1, <2>1, <2>4, Unfailed, Forth
  <2>5. QED
    BY <1>1, <2>1, <2>2, <2>3, <2>4, Unfailed
<1>4. QED
  BY <1>1, <1>2, <1>3, SameFlow DEF Accounted, flow

LEMMA LooksAccounted == ASSUME Basics, Accounted, Quiet PROVE Accounted'
<1>1. Moves /\ UNCHANGED <<flow, leftover>> /\ (ip' # ip => script[ip].call # "renew")
  BY DEF Quiet, KeepShim, inVars, outVars, envVars, netVars, flow, Acts
<1>2. QED
  BY <1>1, AccountedKept

LEMMA ActsAccounted ==
    ASSUME Basics, Accounted, Checked, Place, TestActs
    PROVE  Accounted'
<1>1. TestOK /\ Moves /\ test' = test /\ program' = program /\ FlowOK /\ subject' = subject
  BY ActsMove, SameTest DEF Basics, Moves, TestActs
<1>2. CASE setup
  <2>1. UNCHANGED <<flow, leftover>> /\ At("setup")
    BY <1>2 DEF setup, inVars, outVars, envVars, netVars, flow
  <2>2. QED
    BY <1>1, <2>1, HereOK, AccountedKept
<1>3. CASE rpc
  <2>1. PICK call, p : RpcStep(call, p)
    BY <1>1, <1>3, RpcSteps
  <2>2. UNCHANGED <<flow, leftover>> /\ script[ip].call \in Calls
    BY <2>1 DEF RpcStep, outVars, netVars, flow
  <2>3. QED
    BY <1>1, <2>2, AccountedKept DEF Calls
<1>4. CASE listen \/ dial \/ hangUp
  <2>1. UNCHANGED <<flow, leftover>> /\ (At("listen") \/ At("dial") \/ At("hangup"))
    BY <1>4 DEF listen, dial, hangUp, Listen, Dial, HangUp, KeepShim, inVars, outVars, netVars, history, flow
  <2>2. QED
    BY <1>1, <2>1, HereOK, AccountedKept
<1>5. CASE drain
  <2>1. UNCHANGED <<flow, leftover>> /\ At("drain")
    BY <1>5 DEF drain, inVars, envVars, netVars, history, flow
  <2>2. QED
    BY <1>1, <2>1, HereOK, AccountedKept
<1>6. CASE send
  <2>1. /\ UNCHANGED <<src, toSend, sent, stdin, held, fifo, got, lost, up, leftover>>
        /\ down' = down + 1 /\ At("send") /\ ip' = ip + 1
    BY <1>6 DEF send, HostWrites, Goes, KeepShim, inVars, outVars, history
  <2>2. /\ script[ip].call = "send" /\ program.out = "conn" /\ ip <= Len(script)
        /\ ~Ahead(script, ip + 1, {"write", "send"})
    BY <1>1, <2>1, HereOK DEF Traffic, script, program
  <2>3. Coming({"write", "send"}) /\ ~Coming({"write", "send"})' /\ (leftover => Past({"renew"})')
    <3>1. ~Coming({"write", "send"})'
      BY <1>1, <2>1, <2>2, SameTest DEF Coming
    <3>2. QED
      BY <1>1, <2>1, <2>2, <3>1, StepsOn, Forth DEF Accounted
  <2>4. QED
    BY <1>1, <2>1, <2>2, <2>3 DEF Accounted, OutFlow, FlowOK, Goes
<1>7. CASE write
  <2>1. /\ UNCHANGED <<src, toSend, held, fifo, got, lost, up, down, leftover>>
        /\ stdin' = stdin + 1 /\ sent' = sent + 1 /\ At("write") /\ ip' = ip + 1 /\ outcome' = outcome
    BY <1>7 DEF write, Goes, outVars, envVars, netVars, history
  <2>2. /\ script[ip].call = "write" /\ program.out \in {"stdin", "conn"} /\ ip <= Len(script)
        /\ program.out = "conn" => ~Ahead(script, ip + 1, {"write", "send"})
    BY <1>1, <2>1, HereOK DEF Traffic, script, program
  <2>3. /\ Coming({"write", "send"}) /\ (program.out = "conn" => ~Coming({"write", "send"})')
        /\ (leftover => Past({"renew"})')
    <3>1. program.out = "conn" => ~Coming({"write", "send"})'
      BY <1>1, <2>1, <2>2, SameTest DEF Coming
    <3>2. QED
      BY <1>1, <2>1, <2>2, <3>1, StepsOn, Forth DEF Accounted
  <2>4. CASE program.out = "stdin"
    BY <1>1, <2>1, <2>3, <2>4 DEF Accounted, OutFlow, FlowOK
  <2>5. CASE program.out = "conn"
    BY <1>1, <2>1, <2>3, <2>5 DEF Accounted, OutFlow, FlowOK
  <2>6. QED
    BY <2>2, <2>4, <2>5
<1>8. CASE writer
  <2>1. /\ UNCHANGED <<src, sent, stdin, held, fifo, got, lost, up, down, leftover>>
        /\ At("writer") /\ ip' = ip + 1 /\ outcome' = outcome
    BY <1>8 DEF writer, Goes, outVars, envVars, netVars, history
  <2>2. script[ip].call = "writer" /\ program.out = "stdin" /\ ip <= Len(script)
    BY <1>1, <2>1, HereOK DEF Traffic, script, program
  <2>3. leftover => Past({"renew"})'
    BY <1>1, Forth DEF Accounted
  <2>4. QED
    BY <1>1, <2>1, <2>2, <2>3 DEF Accounted, OutFlow, FlowOK
<1>9. CASE renew
  <2>1. /\ UNCHANGED <<toSend, sent, stdin, up, down, lost>> /\ held' = 0 /\ fifo' = 0 /\ got' = 0
        /\ (src' = 0 /\ leftover' = leftover) \/ (src' = 1 /\ leftover' = TRUE)
        /\ At("renew") /\ ip' = ip + 1 /\ outcome' = outcome
    BY <1>9 DEF renew, Goes, envVars, netVars
  <2>2. /\ script[ip].call = "renew" /\ ip \in 1..Len(script) /\ ip > 1
        /\ script[ip - 1].call = "verify" /\ ~Behind(script, ip, {"renew"}) /\ program.out = "own"
    <3>1. Layered(test, ip) /\ script[ip].call = "renew" /\ ip \in 1..Len(script) /\ Len(script) \in Nat
      BY <1>1, <2>1, HereOK
    <3>2. Ahead(script, 1, {"renew"})
      BY <3>1 DEF Ahead
    <3>3. QED
      BY <3>1, <3>2 DEF Layered, script, program
  <2>3. Past({"poll", "verify"}) /\ ~Past({"renew"}) /\ Past({"renew"})' /\ ~leftover
    <3>1. ip - 1 \in 1..ip - 1
      BY <2>2
    <3>2. Past({"poll", "verify"}) /\ ~Past({"renew"})
      BY <2>2, <3>1 DEF Past, Behind
    <3>3. QED
      BY <1>1, <2>1, <2>2, <3>2, StepsOn DEF Accounted
  <2>4. outcome = "none" => lost = 0
    BY <1>1, <2>2, <2>3, SizesAssumption DEF Checked, Accounted, OutFlow, FlowOK
  <2>5. leftover' \in BOOLEAN
    BY <2>1 DEF Basics, HistOK
  <2>6. QED
    BY <1>1, <2>1, <2>2, <2>3, <2>4 DEF Accounted, OutFlow, FlowOK
<1>10. QED
  BY <1>2, <1>3, <1>4, <1>5, <1>6, <1>7, <1>8, <1>9 DEF TestActs

LEMMA WorldAccounted ==
    ASSUME Basics, Accounted, World
    PROVE  Accounted'
<1>1. /\ program' = program /\ outcome' = outcome /\ FlowOK
      /\ \A C : (Past(C)' <=> Past(C)) /\ (Coming(C)' <=> Coming(C))
  BY WorldStays, SameTest, Stands DEF testVars, Basics
<1> USE DEF Accounted, OutFlow, FlowOK
<1>2. CASE StdinWriter
  BY <1>1, <1>2 DEF StdinWriter, outVars, envVars, netVars, history
<1>3. CASE DrainRead
  BY <1>1, <1>3 DEF DrainRead, inVars, envVars, netVars, history
<1>4. CASE ProcWrites
  BY <1>1, <1>4 DEF ProcWrites, envVars, netVars, history
<1>5. CASE NcCopiesIn
  BY <1>1, <1>5 DEF NcCopiesIn, NcRuns, NcSends, outVars, history
<1>6. CASE NcCopiesOut
  BY <1>1, <1>6 DEF NcCopiesOut, NcRuns, NcReceives, inVars, history
<1>7. CASE Peer
  BY <1>1, <1>7 DEF Peer, PeerEchoes, PeerReports, KeepShim, inVars, outVars, history
<1>8. CASE NetworkLoses
  <2>1. /\ UNCHANGED <<src, toSend, sent, stdin, held, fifo, got, leftover>> /\ lost' = lost + 1
        /\ (up > 0 /\ up' = 0 /\ down' = down) \/ (down > 0 /\ down' = 0 /\ up' = up)
    BY <1>8 DEF NetworkLoses, Swallows, inVars
  <2>2. program.out = "conn" /\ program.out # "own"
    BY <1>1, <2>1
  <2>3. leftover => Past({"renew"})' /\ (outcome' = "none" => lost' = 0)
    <3>1. SUFFICES ASSUME leftover PROVE FALSE
      OBVIOUS
    <3>2. Layers
      BY <3>1, BehindOrAhead DEF Layers, Past, Basics, TestOK
    <3>3. PICK i \in 1..Len(script) : Layered(test, i)
      BY <3>2, RulesOf DEF Layers, Ahead, Basics, TestOK
    <3>4. QED
      BY <2>2, <3>2, <3>3 DEF Layered, Layers, script, program
  <2>4. QED
    BY <1>1, <2>1, <2>2, <2>3
<1>9. CASE ShimCopies
  BY <1>1, <1>9 DEF ShimCopies, inVars, envVars, netVars, history
<1>10. CASE ShimDrops
  BY <1>1, <1>10 DEF ShimDrops, inVars, envVars, netVars
<1>11. CASE DrainEOF \/ ProcExits \/ ShimCloses \/ ShimExits
  <2>1. UNCHANGED <<flow, leftover>>
    BY <1>11 DEF DrainEOF, ProcExits, ShimCloses, ShimExits, inVars, outVars, envVars, netVars, history, flow
  <2>2. QED
    BY <1>1, <2>1 DEF flow
<1>12. CASE NcConnects \/ NcGivesUp \/ PeerTimesOut
  <2>1. UNCHANGED <<flow, leftover>>
    BY <1>12 DEF NcConnects, Dial, Bind, NcGivesUp, NcFails, PeerTimesOut, PeerGivesUp,
                 KeepShim, inVars, outVars, history, flow
  <2>2. QED
    BY <1>1, <2>1 DEF flow
<1>13. CASE ShimForwards \/ ShimForwardsAgain \/ ShimSkews
  <2>1. UNCHANGED <<flow, leftover>>
    BY <1>13 DEF ShimForwards, ShimForwardsAgain, ShimSkews, KeepShim, inVars, outVars, netVars, history, flow
  <2>2. QED
    BY <1>1, <2>1 DEF flow
<1>14. QED
  BY <1>2, <1>3, <1>4, <1>5, <1>6, <1>7, <1>8, <1>9, <1>10, <1>11, <1>12, <1>13 DEF World
-----------------------------------------------------------------------------
(***************************************************************************)
(* Silent.                                                                 *)
(***************************************************************************)
LEMMA SilentBefore ==
    ASSUME TestOK, Moves, outcome' = "skip" \/ ~Begun(test, ip)'
    PROVE  outcome = "skip" \/ ~Begun(test, ip)
<1>1. CASE ~Begun(test, ip)'
  BY <1>1, Forth
<1>2. CASE outcome' = "skip" /\ outcome # "skip"
  <2>1. ip \in 1..Len(script) /\ script[ip].call \in Skips
    BY <1>2 DEF Moves, Steady, Onward, Jump, TestOK
  <2>2. Shape(test, ip)
    BY <2>1, RulesOf DEF TestOK
  <2>3. QED
    BY <2>1, <2>2 DEF Shape, script
<1>3. QED
  BY <1>1, <1>2

LEMMA SilentKept ==
    ASSUME TestOK, Silent, Moves, UNCHANGED <<held, fifo, got, lost, up, down, leftover>>,
           proc[subject] # "running" => proc'[subject] # "running"
    PROVE  Silent'
<1>1. subject' = subject /\ OutFlow' = OutFlow
  BY SameTest DEF Moves, OutFlow
<1>2. QED
  BY <1>1, SilentBefore DEF Silent

LEMMA LooksSilent == ASSUME TestOK, Silent, Quiet PROVE Silent'
<1>1. UNCHANGED <<held, fifo, got, lost, up, down, leftover, proc>> /\ Moves
  BY DEF Quiet, KeepShim, outVars, envVars, netVars
<1>2. QED
  BY <1>1, SilentKept

LEMMA ActsSilent == ASSUME Basics, Place, Silent, TestActs PROVE Silent'
<1>1. TestOK /\ Moves /\ test' = test /\ subject' = subject /\ subject \in Procs
  BY ActsMove, SameTest, RulesOf DEF Basics, TestOK, Moves, TestActs, Whole, Procs, subject
<1>2. CASE setup \/ listen \/ dial \/ hangUp \/ drain \/ write \/ writer
  <2>1. UNCHANGED <<held, fifo, got, lost, up, down, leftover, proc>>
    BY <1>2 DEF setup, listen, Listen, dial, Dial, hangUp, HangUp, drain, write, writer, KeepShim,
                outVars, envVars, netVars, history
  <2>2. QED
    BY <1>1, <2>1, SilentKept
<1>3. CASE rpc
  <2>1. PICK call, p : RpcStep(call, p)
    BY <1>1, <1>3, RpcSteps
  <2>2. UNCHANGED <<held, fifo, got, lost, up, down, leftover>>
    BY <2>1 DEF RpcStep, outVars, netVars
  <2>3. CASE call = "start" /\ p = subject /\ Legal(call, p) /\ Effect(call, p) /\ OnError("nil")
    <3>1. /\ Protocol(test, ip) /\ ip \in 1..Len(script) /\ script[ip].call = "start" /\ script[ip].who = p
          /\ Len(script) \in Nat
      BY <1>1, <2>1, <2>3, HereOK DEF RpcStep
    <3>2. ~(program.ends = "missing" /\ p = "exec")
      BY <2>3 DEF Legal
    <3>3. script[ip].on \in {"fatal", "return"}
      BY <3>1, <3>2 DEF Protocol, script, program
    <3>4. ip' = ip + 1 /\ outcome' = outcome
      BY <2>3, <3>3 DEF OnError, Goes
    <3>5. Begun(test, ip)' /\ outcome # "skip"
      BY <1>1, <2>3, <3>1, <3>4, StepsOn DEF Place
    <3>6. QED
      BY <3>4, <3>5 DEF Silent
  <2>4. CASE ~(call = "start" /\ p = subject /\ Legal(call, p) /\ Effect(call, p) /\ OnError("nil"))
    <3>1. proc[subject] # "running" => proc'[subject] # "running"
      <4>1. CASE UNCHANGED proc
        BY <4>1
      <4>2. CASE Effect(call, p) /\ ~(call = "start" /\ p = subject)
        BY <1>1, <2>1, <4>2, EffectOf DEF RpcStep, Basics
      <4>3. QED
        BY <2>1, <2>4, <4>1, <4>2 DEF RpcStep
    <3>2. QED
      BY <1>1, <2>2, <3>1, SilentKept
  <2>5. QED
    BY <2>3, <2>4
<1>4. CASE send
  <2>1. At("send") /\ outcome' = outcome
    BY <1>4 DEF send, Goes
  <2>2. Begun(test, ip) /\ ip <= Len(script) /\ ip \in Nat /\ Len(script) \in Nat
    BY <1>1, <2>1, HereOK DEF Traffic, script
  <2>3. Begun(test, ip)' /\ outcome # "skip"
    BY <1>1, <2>2, Forth DEF Place
  <2>4. QED
    BY <2>1, <2>3 DEF Silent
<1>5. CASE renew
  <2>1. At("renew") /\ outcome' = outcome
    BY <1>5 DEF renew, Goes
  <2>2. script[ip].call = "renew" /\ ip \in 1..Len(script) /\ Layered(test, ip) /\ Len(script) \in Nat
    BY <1>1, <2>1, HereOK
  <2>3. Begun(test, ip)
    <3>1. Ahead(script, 1, {"renew"})
      BY <2>2 DEF Ahead
    <3>2. QED
      BY <2>2, <3>1 DEF Layered, script
  <2>4. Begun(test, ip)' /\ outcome # "skip"
    BY <1>1, <2>2, <2>3, Forth DEF Place
  <2>5. QED
    BY <2>1, <2>4 DEF Silent
<1>6. QED
  BY <1>2, <1>3, <1>4, <1>5 DEF TestActs

LEMMA WorldSilent == ASSUME Basics, Silent, World PROVE Silent'
<1>1. /\ TestOK /\ FlowOK /\ Moves /\ subject' = subject /\ outcome' = outcome
      /\ Begun(test, ip)' <=> Begun(test, ip)
  BY WorldStays, SameTest, Stands DEF testVars, Basics
<1>2. CASE ProcWrites \/ NcCopiesOut
  BY <1>1, <1>2 DEF ProcWrites, NcCopiesOut, NcRuns, Silent
<1>3. CASE NcCopiesIn
  BY <1>1, <1>3 DEF NcCopiesIn, NcRuns, Silent
<1>4. CASE DrainRead
  BY <1>1, <1>4 DEF DrainRead, Silent, OutFlow, FlowOK
<1>5. CASE Peer
  <2>1. CASE PeerEchoes
    BY <1>1, <2>1 DEF PeerEchoes, Silent
  <2>2. CASE PeerReports
    BY <1>1, <1>5, <2>2, SilentKept DEF Peer, PeerReports, KeepShim, outVars, history
  <2>3. QED
    BY <1>5, <2>1, <2>2 DEF Peer
<1>6. CASE NetworkLoses
  BY <1>1, <1>6 DEF NetworkLoses, Swallows, Silent
<1>7. CASE ShimCopies \/ ShimDrops
  BY <1>1, <1>7 DEF ShimCopies, ShimDrops, Silent, OutFlow, FlowOK
<1>8. CASE StdinWriter \/ DrainEOF \/ ShimCloses \/ NcConnects \/ PeerTimesOut \/ ShimForwards
           \/ ShimForwardsAgain \/ ShimSkews
  <2>1. UNCHANGED <<held, fifo, got, lost, up, down, leftover, proc>>
    BY <1>8 DEF StdinWriter, DrainEOF, ShimCloses, NcConnects, Dial, Bind, PeerTimesOut, PeerGivesUp,
                ShimForwards, ShimForwardsAgain, ShimSkews, KeepShim, outVars, envVars, netVars, history
  <2>2. QED
    BY <1>1, <2>1, SilentKept
<1>9. CASE ProcExits \/ NcGivesUp \/ ShimExits
  <2>1. UNCHANGED <<held, fifo, got, lost, up, down, leftover>>
    BY <1>9 DEF ProcExits, NcGivesUp, NcFails, ShimExits, outVars, envVars, netVars, history
  <2>2. proc \in [Procs -> States] /\ subject \in Procs
    BY <1>1, RulesOf DEF Basics, ShimOK, TestOK, Whole, subject, Procs
  <2>3. proc[subject] # "running" => proc'[subject] # "running"
    BY <1>9, <2>2 DEF ProcExits, NcGivesUp, ShimExits
  <2>4. QED
    BY <1>1, <2>1, <2>3, SilentKept
<1>10. QED
  BY <1>2, <1>3, <1>4, <1>5, <1>6, <1>7, <1>8, <1>9 DEF World
-----------------------------------------------------------------------------
(***************************************************************************)
(* Checked.                                                                *)
(***************************************************************************)
\* Once the echo of stdin was looked at, everything had been sent.
LEMMA LookedLate ==
    ASSUME TestOK, program.out = "stdin", Past({"poll", "verify"})
    PROVE  ~Coming({"write", "writer"}) /\ (Past({"writer"}) => Past({"writeDone"}))
<1>1. ip \in 1..Len(script) + 1 /\ Len(script) \in Nat
  BY DEF TestOK
<1>2. PICK j \in 1..ip - 1 : script[j].call \in {"poll", "verify"}
  BY DEF Past, Behind
<1>3. j \in 1..Len(script) /\ j < ip
  BY <1>1, <1>2
<1>4. Traffic(test, j)
  BY <1>3, RulesOf DEF TestOK
<1>5. /\ ~Ahead(script, j, {"write", "writer"})
      /\ Behind(script, j, {"writer"}) => Behind(script, j, {"writeDone"})
  BY <1>2, <1>4 DEF Traffic, script, program
<1>6. ~Coming({"write", "writer"})
  <2>1. \A k \in ip..Len(script) : k \in j..Len(script)
    BY <1>1, <1>3
  <2>2. QED
    BY <1>5, <2>1 DEF Ahead, Coming
<1>7. Past({"writer"}) => Past({"writeDone"})
  <2>1. \A k \in 1..ip - 1 : k \in 1..j - 1 \/ k \in j..Len(script)
    BY <1>1, <1>3
  <2>2. \A k \in 1..j - 1 : k \in 1..ip - 1
    BY <1>1, <1>3
  <2>3. QED
    BY <1>5, <2>1, <2>2 DEF Past, Behind, Ahead
<1>8. QED
  BY <1>6, <1>7

\* What a test has to wait for is Chunks, unless it began anew.
LEMMA WantOf ==
    ASSUME Basics
    PROVE  /\ Want \in Nat
           /\ program.out = "stdin" => Want = sent
           /\ program.out = "conn" => Want = 1
           /\ program.out \notin {"stdin", "conn"} /\ ~Past({"renew"}) => Want = Chunks
           /\ program.out = "own" /\ Past({"renew"}) /\ test = "HundredLayers" => Want = 0
<1>1. renewed <=> test = "HundredLayers" /\ Past({"renew"})
  BY DEF renewed, Past, Behind
<1>2. sent \in Nat /\ Chunks \in Nat
  BY SizesAssumption DEF Basics, FlowOK
<1>3. CASE program.out \in {"stdin", "conn"}
  <2>1. program.out = "stdin" => Want = sent
    BY DEF Want
  <2>2. program.out = "conn" => Want = 1
    BY DEF Want
  <2>3. QED
    BY <1>2, <1>3, <2>1, <2>2
<1>4. CASE program.out \notin {"stdin", "conn"}
  <2>1. Want = IF program.out = "own" /\ renewed THEN 0 ELSE Chunks
    BY <1>4 DEF Want
  <2>2. QED
    BY <1>1, <1>2, <1>4, <2>1
<1>5. QED
  BY <1>3, <1>4

LEMMA LooksChecked == ASSUME Basics, Checked, Quiet PROVE Checked'
<1>1. /\ TestOK /\ Moves /\ program' = program /\ test' = test
      /\ UNCHANGED <<toSend, sent, got>>
  BY SameTest DEF Basics, Moves, Quiet, KeepShim, inVars, outVars
<1>2. ~Past({"writer"})' => toSend' = 0
  BY <1>1, Forth DEF Checked
<1>3. CASE ip' = ip
  BY <1>1, <1>2, <1>3, Stands, Unfailed DEF Checked
<1>4. CASE ip' # ip
  <2>1. SUFFICES ASSUME outcome' = "none"
                 PROVE  /\ Past({"writeDone"})' => toSend' = 0
                        /\ Past({"poll", "verify"})' =>
                              /\ program.out = "own" /\ ~Past({"renew"})' => got' >= Chunks
                              /\ program.out = "stdin" => got' >= sent'
                              /\ program.out = "conn" => got' >= 1
    BY <1>1, <1>2 DEF Checked
  <2>2. ip' = ip + 1 /\ outcome = "none" /\ Knows(script[ip].call) /\ ip <= Len(script)
    BY <1>4, <2>1 DEF Quiet, Moves, Steady, Onward, Jump
  <2>3. \A C : Past(C)' <=> Past(C) \/ script[ip].call \in C
    BY <1>1, <2>2, StepsOn
  <2>4. script[ip].call = "writeDone" => toSend = 0
    BY <2>2 DEF Knows
  <2>5. script[ip].call \in {"poll", "verify"} => got >= Want
    BY <2>2, WantOf DEF Knows, Basics, FlowOK
  <2>6. QED
    BY <1>1, <2>2, <2>3, <2>4, <2>5, WantOf DEF Checked
<1>5. QED
  BY <1>3, <1>4

\* A call that acts, taken for what the test has not failed by.
LEMMA ActsUnfailed ==
    ASSUME Basics, Place, TestActs, outcome' = "none"
    PROVE  /\ outcome = "none"
           /\ \/ /\ ip' = ip + 1 /\ ip <= Len(script) /\ script[ip].call \in Calls \cup Acts
                 /\ \A C : Past(C)' <=> Past(C) \/ script[ip].call \in C
              \/ rpc /\ ~Past({"poll", "verify"})' /\ ~Past({"writer"})' /\ ~Past({"renew"})'
                     /\ ~Past({"order"})' /\ ~Layers /\ test # "Events"
<1>1. TestOK /\ Moves /\ ip' # ip /\ test' = test
  BY ActsMove DEF Basics, TestActs, Moves
<1>2. CASE ip' = ip + 1 /\ ip <= Len(script)
  <2>1. script[ip].call \in Calls \cup Acts
    <3>1. \E call \in Calls \cup Acts : At(call)
      BY DEF TestActs, setup, rpc, listen, dial, send, hangUp, renew, drain, write, writer, Acts
    <3>2. QED
      BY <1>1, <3>1, HereOK
  <2>2. QED
    BY <1>1, <1>2, <2>1, StepsOn, Unfailed
<1>3. CASE ip' # ip + 1
  <2>1. rpc
    <3>1. ASSUME NEW call, At(call), Goes \/ (call \notin Calls /\ Leaves("fail")) PROVE FALSE
      BY <1>1, <1>3, <3>1, FailMoves DEF Goes, Leaves
    <3>2. CASE setup \/ dial
      BY <3>1, <3>2 DEF setup, dial, Calls
    <3>3. CASE listen \/ send \/ hangUp \/ renew \/ drain \/ write \/ writer
      BY <3>1, <3>3 DEF listen, send, hangUp, renew, drain, write, writer
    <3>4. QED
      BY <3>2, <3>3 DEF TestActs
  <2>2. QED
    BY <1>1, <1>3, <2>1, Unfailed
<1>4. ip <= Len(script)
  BY <1>1 DEF Moves, Steady, Onward, Jump
<1>5. QED
  BY <1>2, <1>3, <1>4

LEMMA ActsChecked == ASSUME Basics, Place, Checked, TestActs PROVE Checked'
<1>1. TestOK /\ FlowOK /\ Moves /\ program' = program /\ test' = test
  BY ActsMove, SameTest DEF Basics, Moves, TestActs
<1>2. CASE setup \/ rpc \/ listen \/ dial \/ send \/ hangUp \/ drain
  <2>1. UNCHANGED <<toSend, sent, got>> /\ ~At("renew")
    <3>1. CASE setup \/ listen \/ dial \/ send \/ hangUp \/ drain
      BY <3>1 DEF setup, listen, dial, send, hangUp, drain, KeepShim, inVars, outVars, At
    <3>2. CASE rpc
      BY <3>2 DEF rpc, outVars, At, Calls
    <3>3. QED
      BY <1>2, <3>1, <3>2
  <2>2. ~Past({"writer"})' => toSend' = 0
    BY <1>1, <2>1, Forth DEF Checked
  <2>3. outcome' = "none" =>
           /\ Past({"writeDone"})' => toSend' = 0
           /\ Past({"poll", "verify"})' =>
                 /\ program.out = "own" /\ ~Past({"renew"})' => got' >= Chunks
                 /\ program.out = "stdin" => got' >= sent'
                 /\ program.out = "conn" => got' >= 1
    BY <1>1, <2>1, <2>2, ActsUnfailed DEF Checked, Calls, Acts
  <2>4. QED
    BY <1>1, <2>2, <2>3 DEF Checked
<1>3. CASE renew
  <2>1. UNCHANGED <<toSend, sent>> /\ At("renew") /\ ip' = ip + 1 /\ outcome' = outcome
    BY <1>3 DEF renew, Goes
  <2>2. script[ip].call = "renew" /\ ip \in 1..Len(script) /\ Layered(test, ip) /\ Len(script) \in Nat
    BY <1>1, <2>1, HereOK
  <2>3. program.out = "own"
    <3>1. Ahead(script, 1, {"renew"})
      BY <2>2 DEF Ahead
    <3>2. QED
      BY <2>2, <3>1 DEF Layered, script, program
  <2>4. \A C : Past(C)' <=> Past(C) \/ script[ip].call \in C
    BY <1>1, <2>1, <2>2, StepsOn
  <2>5. QED
    BY <1>1, <2>1, <2>2, <2>3, <2>4 DEF Checked
<1>4. CASE write
  <2>1. UNCHANGED <<toSend, got>> /\ At("write") /\ ip' = ip + 1 /\ outcome' = outcome
    BY <1>4 DEF write, Goes, outVars
  <2>2. script[ip].call = "write" /\ ip \in 1..Len(script) /\ Len(script) \in Nat
    BY <1>1, <2>1, HereOK
  <2>3. \A C : Past(C)' <=> Past(C) \/ script[ip].call \in C
    BY <1>1, <2>1, <2>2, StepsOn
  <2>4. ~(program.out = "stdin" /\ Past({"poll", "verify"}))
    BY <1>1, <2>1, <2>2, StepsOn, LookedLate
  <2>5. QED
    BY <1>1, <2>1, <2>2, <2>3, <2>4 DEF Checked
<1>5. CASE writer
  <2>1. UNCHANGED <<sent, got>> /\ At("writer") /\ ip' = ip + 1 /\ outcome' = outcome
    BY <1>5 DEF writer, Goes, outVars
  <2>2. script[ip].call = "writer" /\ ip \in 1..Len(script) /\ Len(script) \in Nat /\ Traffic(test, ip)
    BY <1>1, <2>1, HereOK
  <2>3. \A C : Past(C)' <=> Past(C) \/ script[ip].call \in C
    BY <1>1, <2>1, <2>2, StepsOn
  <2>4. ~Past({"writer", "writeDone"})
    BY <2>2 DEF Traffic, script, Past
  <2>5. ~Past({"writeDone"})
    BY <2>4 DEF Past, Behind
  <2>6. QED
    BY <1>1, <2>1, <2>2, <2>3, <2>5 DEF Checked
<1>6. QED
  BY <1>2, <1>3, <1>4, <1>5 DEF TestActs

LEMMA WorldChecked == ASSUME Basics, Checked, World PROVE Checked'
<1>1. /\ TestOK /\ FlowOK /\ program' = program /\ outcome' = outcome
      /\ \A C : (Past(C)' <=> Past(C)) /\ (Coming(C)' <=> Coming(C))
  BY WorldStays, SameTest, Stands DEF testVars, Basics
<1>2. CASE StdinWriter
  <2>1. toSend > 0 /\ got' = got
    BY <1>2 DEF StdinWriter, outVars
  <2>2. Past({"writer"}) /\ ~(outcome = "none" /\ Past({"writeDone"}))
    BY <1>1, <2>1 DEF Checked, FlowOK
  <2>3. ~(program.out = "stdin" /\ outcome = "none" /\ Past({"poll", "verify"}))
    BY <1>1, <2>2, LookedLate
  <2>4. QED
    BY <1>1, <2>1, <2>2, <2>3 DEF Checked
<1>3. CASE DrainRead
  BY <1>1, <1>3, SizesAssumption DEF DrainRead, inVars, Checked, FlowOK
<1>4. CASE ~(StdinWriter \/ DrainRead)
  <2>1. UNCHANGED <<toSend, sent, got>>
    BY <1>4 DEF World, DrainEOF, ProcWrites, ProcExits, NcConnects, NcCopiesIn,
                NcCopiesOut, NcGivesUp, Peer, PeerTimesOut, NetworkLoses, ShimCopies, ShimCloses,
                ShimExits, ShimDrops, ShimForwards, ShimForwardsAgain, ShimSkews, KeepShim, inVars, outVars
  <2>2. QED
    BY <1>1, <2>1 DEF Checked
<1>5. QED
  BY <1>2, <1>3, <1>4
-----------------------------------------------------------------------------
(***************************************************************************)
(* Closing and Answering.                                                  *)
(***************************************************************************)
LEMMA ClosingKept ==
    ASSUME Closing, test' = test, UNCHANGED <<closed, held, drained, fifo>>, proc'[subject] = proc[subject]
    PROVE  Closing'
BY SameTest DEF Closing

LEMMA LooksClosing == ASSUME Closing, Quiet PROVE Closing'
<1>1. test' = test /\ UNCHANGED <<closed, held, drained, fifo, proc>>
  BY DEF Quiet, Moves, KeepShim, outVars
<1>2. QED
  BY <1>1, ClosingKept

LEMMA SubjectOf == ASSUME TestOK PROVE subject \in Procs
BY RulesOf DEF TestOK, Whole, subject, Procs

LEMMA ActsClosing == ASSUME Basics, Place, Closing, TestActs PROVE Closing'
<1>1. TestOK /\ Moves /\ test' = test /\ subject' = subject /\ subject \in Procs /\ proc \in [Procs -> States]
  BY ActsMove, SameTest, SubjectOf DEF Basics, ShimOK, TestActs, Moves
<1>2. CASE setup \/ listen \/ dial \/ send \/ hangUp \/ drain \/ write \/ writer
  <2>1. UNCHANGED <<closed, held, drained, fifo, proc>>
    BY <1>2 DEF setup, listen, dial, send, hangUp, drain, write, writer, KeepShim, outVars
  <2>2. QED
    BY <1>1, <2>1, ClosingKept
<1>3. CASE rpc
  <2>1. PICK call, p : RpcStep(call, p)
    BY <1>1, <1>3, RpcSteps
  <2>2. UNCHANGED <<closed, held, drained, fifo>> /\ p \in Procs /\ call \in Calls
    BY <2>1 DEF RpcStep, outVars
  <2>3. CASE Legal(call, p) /\ Effect(call, p)
    <3>1. proc[subject] \in {"stopped", "deleted"} => proc'[subject] \in {"stopped", "deleted"}
      <4>1. CASE p # subject
        BY <1>1, <2>2, <2>3, <4>1, EffectOf DEF Basics
      <4>2. CASE p = subject /\ call \notin {"create", "exec", "start", "kill", "delete"}
        BY <1>1, <2>2, <2>3, <4>2, EffectOf DEF Basics
      <4>3. CASE p = subject /\ call \in {"create", "exec"}
        <5>1. p = (IF call = "create" THEN "init" ELSE "exec")
          BY <1>1, <2>1, <4>3, HereOK DEF RpcStep, Protocol, script
        <5>2. proc[subject] = "none"
          BY <2>3, <4>3, <5>1 DEF Legal
        <5>3. QED
          BY <5>2
      <4>4. CASE p = subject /\ call = "start"
        BY <2>3, <4>4 DEF Legal
      <4>5. CASE p = subject /\ call \in {"kill", "delete"}
        BY <1>1, <2>2, <2>3, <4>5, EffectOf DEF Basics
      <4>6. QED
        BY <4>1, <4>2, <4>3, <4>4, <4>5
    <3>2. QED
      BY <1>1, <2>2, <3>1 DEF Closing
  <2>4. CASE UNCHANGED proc
    BY <1>1, <2>2, <2>4, ClosingKept
  <2>5. QED
    BY <2>1, <2>3, <2>4 DEF RpcStep
<1>4. CASE renew
  BY <1>4 DEF renew, Closing
<1>5. QED
  BY <1>2, <1>3, <1>4 DEF TestActs

LEMMA WorldClosing == ASSUME Basics, Closing, World PROVE Closing'
<1>1. TestOK /\ test' = test /\ subject' = subject /\ subject \in Procs /\ proc \in [Procs -> States] /\ FlowOK
  BY WorldStays, SameTest, SubjectOf DEF Basics, ShimOK, testVars
<1>2. CASE DrainRead
  BY <1>1, <1>2 DEF DrainRead, Closing, FlowOK
<1>3. CASE DrainEOF
  BY <1>1, <1>3 DEF DrainEOF, Closing
<1>4. CASE ProcWrites \/ NcCopiesOut
  BY <1>1, <1>4 DEF ProcWrites, NcCopiesOut, NcRuns, Closing
<1>5. CASE ProcExits \/ NcGivesUp \/ ShimExits
  <2>1. UNCHANGED <<closed, held, drained, fifo>>
    BY <1>5 DEF ProcExits, NcGivesUp, ShimExits, outVars
  <2>2. proc[subject] \in {"stopped", "deleted"} => proc'[subject] \in {"stopped", "deleted"}
    BY <1>1, <1>5 DEF ProcExits, NcGivesUp, ShimExits
  <2>3. QED
    BY <1>1, <2>1, <2>2 DEF Closing
<1>6. CASE ShimCopies
  BY <1>1, <1>6 DEF ShimCopies, Closing, FlowOK
<1>7. CASE ShimCloses
  BY <1>1, <1>7 DEF ShimCloses, Closing
<1>8. CASE ShimDrops
  BY <1>1, <1>8 DEF ShimDrops, Closing
<1>9. CASE StdinWriter \/ NcConnects \/ NcCopiesIn \/ Peer \/ PeerTimesOut \/ NetworkLoses
           \/ ShimForwards \/ ShimForwardsAgain \/ ShimSkews
  <2>1. UNCHANGED <<closed, held, drained, fifo, proc>>
    BY <1>9 DEF StdinWriter, NcConnects, NcCopiesIn, Peer, PeerTimesOut, NetworkLoses,
                ShimForwards, ShimForwardsAgain, ShimSkews, KeepShim, outVars
  <2>2. QED
    BY <1>1, <2>1, ClosingKept
<1>10. QED
  BY <1>2, <1>3, <1>4, <1>5, <1>6, <1>7, <1>8, <1>9 DEF World

LEMMA AnsweringKept == ASSUME Answering, test' = test, UNCHANGED <<peer, link>> PROVE Answering'
BY SameTest DEF Answering

LEMMA LooksAnswering == ASSUME Answering, Quiet PROVE Answering'
BY AnsweringKept DEF Quiet, Moves, envVars, netVars

LEMMA ActsAnswering == ASSUME Basics, Place, Answering, TestActs PROVE Answering'
<1>1. TestOK /\ test' = test /\ program' = program /\ script' = script
  BY ActsMove, SameTest DEF Basics, TestActs, Moves
<1>2. CASE setup \/ rpc \/ send \/ hangUp \/ renew \/ drain \/ write \/ writer
  <2>1. UNCHANGED <<peer, link>>
    BY <1>2 DEF setup, rpc, send, HostWrites, hangUp, HangUp, renew, drain, write, writer, envVars, netVars
  <2>2. QED
    BY <1>1, <2>1, AnsweringKept
<1>3. CASE listen
  <2>1. /\ At("listen") /\ link' = "listen"
        /\ peer' = IF script[ip].who = "goroutine" THEN "accept" ELSE "off"
    BY <1>3 DEF listen, Listen
  <2>2. /\ script[ip].call = "listen" /\ ip \in 1..Len(script) /\ program.out = "conn"
    BY <1>1, <2>1, HereOK DEF Traffic, script, program
  <2>3. script[ip].who = "goroutine" => Outbound(script)
    BY <2>2 DEF Outbound
  <2>4. QED
    BY <1>1, <2>1, <2>2, <2>3 DEF Answering
<1>4. CASE dial
  BY <1>1, <1>4 DEF dial, Dial, netVars, Answering
<1>5. QED
  BY <1>2, <1>3, <1>4 DEF TestActs

LEMMA WorldAnswering == ASSUME Basics, Answering, World PROVE Answering'
<1>1. test' = test /\ program' = program /\ script' = script
  BY WorldStays, SameTest DEF testVars
<1>2. CASE NcConnects
  BY <1>1, <1>2 DEF NcConnects, NcRuns, Dial, Bind, Answering
<1>3. CASE NcCopiesOut
  BY <1>1, <1>3 DEF NcCopiesOut, NcRuns, NcReceives, Answering
<1>4. CASE Peer \/ PeerTimesOut
  BY <1>1, <1>4 DEF Peer, PeerEchoes, PeerReports, PeerTimesOut, PeerGivesUp, Answering
<1>5. CASE ~(NcConnects \/ NcCopiesOut \/ Peer \/ PeerTimesOut)
  <2>1. UNCHANGED <<peer, link>>
    BY <1>5 DEF World, StdinWriter, DrainRead, DrainEOF, ProcWrites, ProcExits, NcCopiesIn, NcSends,
                NcGivesUp, NcFails, NetworkLoses, Swallows, ShimCopies, ShimCloses,
                ShimExits, ShimDrops, ShimForwards, ShimForwardsAgain, ShimSkews, envVars, netVars
  <2>2. QED
    BY <1>1, <2>1, AnsweringKept
<1>6. QED
  BY <1>2, <1>3, <1>4, <1>5
-----------------------------------------------------------------------------
(***************************************************************************)
(* Listing.                                                                *)
(***************************************************************************)
LEMMA LayersOf ==
    ASSUME TestOK, Layers
    PROVE  /\ test = "HundredLayers" /\ subject = "exec" /\ program.out = "own" /\ program.ends = "written"
           /\ \A i \in 1..Len(script) : script[i].on \notin {"soft", "return"}
<1>1. \A i \in 1..Len(script) : Layered(test, i) /\ Shape(test, i)
  BY RulesOf DEF TestOK
<1>2. PICK r \in 1..Len(script) : script[r].call = "renew"
  BY DEF Layers, Ahead
<1>3. /\ test = "HundredLayers" /\ subject = "exec" /\ program.out = "own" /\ program.ends = "written"
  BY <1>1 DEF Layered, Layers, script, subject, program
<1>4. \A i \in 1..Len(script) : script[i].on # "soft"
  BY <1>1 DEF Layered, Layers, script
<1>5. ASSUME NEW i \in 1..Len(script), script[i].on = "return" PROVE FALSE
  <2>1. ~Ahead(script, 1, {"poll", "verify", "writer", "order", "renew"})
    BY <1>1, <1>5 DEF Shape, script
  <2>2. QED
    BY <1>2, <2>1 DEF Ahead
<1>6. QED
  BY <1>3, <1>4, <1>5

\* The second listing is looked at after the pause.
SecondLook(v) == /\ script[v].call = "verify" /\ Behind(script, v, {"renew"})
                 /\ Done(script, v, "pause", "none")

LEMMA ListingIs ==
    Listing <=>
      (Layers /\ outcome = "none" =>
         /\ Did("wait", "exec") => proc["exec"] \in {"stopped", "deleted"}
         /\ proc["exec"] \in {"stopped", "deleted"} => src = 0
         /\ leftover /\ ~slow /\ Did("pause", "none") => got = 1
         /\ leftover /\ ~slow => \A v \in 1..ip - 1 : ~SecondLook(v))
BY DEF Listing, SecondLook

\* A step that changes none of the variables of Listing, and is none of its calls.
LEMMA ListingKept ==
    ASSUME Basics, Listing, Moves, Grows,
           Layers /\ outcome' = "none" =>
              /\ proc'["exec"] = proc["exec"] /\ UNCHANGED <<src, got, leftover>>
              /\ ip' # ip => /\ script[ip].call \notin {"verify", "renew"}
                             /\ ~(script[ip].call = "wait" /\ script[ip].who = "exec")
                             /\ ~(script[ip].call = "pause" /\ script[ip].who = "none")
    PROVE  Listing'
<1>1. TestOK /\ test' = test /\ script' = script
  BY SameTest DEF Basics, Moves
<1>2. SUFFICES ASSUME Layers, outcome' = "none"
               PROVE  /\ Did("wait", "exec")' => proc'["exec"] \in {"stopped", "deleted"}
                      /\ proc'["exec"] \in {"stopped", "deleted"} => src' = 0
                      /\ leftover' /\ ~slow' /\ Did("pause", "none")' => got' = 1
                      /\ leftover' /\ ~slow' => \A v \in 1..ip' - 1 : ~SecondLook(v)
  BY <1>1, SameTest DEF Listing, SecondLook
<1>3. outcome = "none" /\ (ip' = ip \/ (ip' = ip + 1 /\ ip <= Len(script)))
  BY <1>1, <1>2, Unfailed
<1>4. /\ Did("wait", "exec") => proc["exec"] \in {"stopped", "deleted"}
      /\ proc["exec"] \in {"stopped", "deleted"} => src = 0
      /\ leftover /\ ~slow /\ Did("pause", "none") => got = 1
      /\ leftover /\ ~slow => \A v \in 1..ip - 1 : ~SecondLook(v)
  BY <1>2, <1>3, ListingIs
<1>5. slow => slow'
  BY DEF Grows
<1>6. CASE ip' = ip
  BY <1>1, <1>2, <1>4, <1>5, <1>6, Stands
<1>7. CASE ip' = ip + 1 /\ ip <= Len(script)
  <2>1. (Did("wait", "exec")' => Did("wait", "exec")) /\ (Did("pause", "none")' => Did("pause", "none"))
    BY <1>1, <1>2, <1>7, StepsOn DEF TestOK
  <2>2. ASSUME NEW v \in 1..ip' - 1 PROVE v \in 1..ip - 1 \/ ~SecondLook(v)
    <3>1. v \in 1..ip - 1 \/ v = ip
      BY <1>1, <1>7 DEF TestOK
    <3>2. QED
      BY <1>1, <1>2, <1>7, <3>1 DEF SecondLook, TestOK
  <2>3. QED
    BY <1>2, <1>4, <1>5, <2>1, <2>2
<1>8. QED
  BY <1>3, <1>6, <1>7

LEMMA LooksListing == ASSUME Basics, Accounted, Listing, Quiet PROVE Listing'
<1>1. /\ TestOK /\ FlowOK /\ Moves /\ Grows /\ test' = test /\ script' = script
      /\ UNCHANGED <<proc, src, got, leftover, held, fifo, lost>>
  BY SameTest DEF Basics, Quiet, Moves, KeepShim, inVars, outVars
<1>2. CASE ip' = ip \/ ~Layers \/ outcome' # "none" \/ script[ip].call \notin {"verify", "pause"}
  <2>1. ip' # ip => script[ip].call \notin Calls \cup Acts
    BY DEF Quiet
  <2>2. QED
    BY <1>1, <1>2, <2>1, ListingKept DEF Calls, Acts
<1>3. CASE ip' # ip /\ Layers /\ outcome' = "none" /\ script[ip].call \in {"verify", "pause"}
  <2>1. /\ ip' = ip + 1 /\ outcome = "none" /\ Knows(script[ip].call) /\ ip \in 1..Len(script)
        /\ ip <= Len(script) /\ Len(script) \in Nat
    BY <1>1, <1>3 DEF Quiet, Moves, Steady, Onward, Jump, TestOK
  <2>2. /\ Did("wait", "exec") => proc["exec"] \in {"stopped", "deleted"}
        /\ proc["exec"] \in {"stopped", "deleted"} => src = 0
        /\ leftover /\ ~slow /\ Did("pause", "none") => got = 1
        /\ leftover /\ ~slow => \A v \in 1..ip - 1 : ~SecondLook(v)
    BY <1>3, <2>1, ListingIs
  <2>3. Did("wait", "exec")' => Did("wait", "exec")
    BY <1>1, <1>3, <2>1, StepsOn
  <2>4. leftover /\ ~slow' /\ Did("pause", "none")' => got = 1
    <3>1. CASE script[ip].call = "verify"
      BY <1>1, <2>1, <2>2, <3>1, StepsOn DEF Grows
    <3>2. CASE script[ip].call = "pause"
      <4>1. Layered(test, ip)
        BY <1>1, <2>1, RulesOf DEF TestOK
      <4>2. Did("wait", "exec")
        BY <1>3, <3>2, <4>1 DEF Layered, Layers, Did, script
      <4>3. src = 0
        BY <2>2, <4>2
      <4>4. slow' \/ held + fifo = 0
        BY <2>1, <3>2 DEF Knows
      <4>5. leftover => src + OutFlow = 1 /\ lost = 0
        BY <1>1, <1>3, <2>1, LayersOf DEF Accounted
      <4>6. QED
        BY <1>1, <4>3, <4>4, <4>5 DEF OutFlow, FlowOK
    <3>3. QED
      BY <1>3, <3>1, <3>2
  <2>5. leftover /\ ~slow' => ~SecondLook(ip)
    <3>1. SUFFICES ASSUME leftover, ~slow', SecondLook(ip) PROVE FALSE
      OBVIOUS
    <3>2. Past({"renew"}) /\ Did("pause", "none") /\ script[ip].call = "verify"
      BY <3>1 DEF SecondLook, Past, Did
    <3>3. got = 1 /\ got = Want
      BY <1>1, <2>1, <2>2, <3>1, <3>2 DEF Knows, Grows
    <3>4. Want = 0
      BY <1>1, <1>3, <3>2, LayersOf, WantOf
    <3>5. QED
      BY <3>3, <3>4
  <2>6. leftover /\ ~slow' => \A v \in 1..ip' - 1 : ~SecondLook(v)
    <3>1. \A v \in 1..ip' - 1 : v \in 1..ip - 1 \/ v = ip
      BY <2>1
    <3>2. QED
      BY <1>1, <2>2, <2>5, <3>1 DEF Grows
  <2>7. QED
    BY <1>1, <2>2, <2>3, <2>4, <2>6, SameTest DEF Listing, SecondLook
<1>4. QED
  BY <1>2, <1>3

LEMMA ActsListing == ASSUME Basics, Place, Listing, TestActs PROVE Listing'
<1>1. TestOK /\ Moves /\ Grows /\ test' = test /\ script' = script /\ proc \in [Procs -> States]
  BY ActsMove, SameTest DEF Basics, ShimOK, TestActs, Moves
<1>2. CASE setup \/ listen \/ dial \/ send \/ hangUp \/ drain \/ write \/ writer
  <2>1. UNCHANGED <<proc, src, got, leftover>>
    BY <1>2 DEF setup, listen, dial, send, hangUp, drain, write, writer, KeepShim, inVars, outVars, history
  <2>2. \E call \in {"setup", "listen", "dial", "send", "hangup", "drain", "write", "writer"} : At(call)
    BY <1>2 DEF setup, listen, dial, send, hangUp, drain, write, writer
  <2>3. script[ip].call \in {"setup", "listen", "dial", "send", "hangup", "drain", "write", "writer"}
    BY <1>1, <2>2, HereOK
  <2>4. QED
    BY <1>1, <2>1, <2>3, ListingKept
<1>3. CASE rpc
  <2>1. PICK call, p : RpcStep(call, p)
    BY <1>1, <1>3, RpcSteps
  <2>2. /\ UNCHANGED <<src, got, leftover, slow>> /\ p \in Procs /\ call \in Calls
        /\ script[ip].call = call /\ script[ip].who = p /\ At(call)
    BY <2>1 DEF RpcStep, outVars
  <2>3. SUFFICES ASSUME Layers, outcome' = "none"
                 PROVE  /\ Did("wait", "exec")' => proc'["exec"] \in {"stopped", "deleted"}
                        /\ proc'["exec"] \in {"stopped", "deleted"} => src' = 0
                        /\ leftover' /\ ~slow' /\ Did("pause", "none")' => got' = 1
                        /\ leftover' /\ ~slow' => \A v \in 1..ip' - 1 : ~SecondLook(v)
    BY <1>1, SameTest DEF Listing, SecondLook
  <2>4. /\ outcome = "none" /\ ip' = ip + 1 /\ ip \in 1..Len(script) /\ ip <= Len(script)
        /\ Layered(test, ip) /\ Protocol(test, ip)
    BY <1>1, <2>2, <2>3, HereOK, ActsUnfailed
  <2>5. /\ Did("wait", "exec") => proc["exec"] \in {"stopped", "deleted"}
        /\ proc["exec"] \in {"stopped", "deleted"} => src = 0
        /\ leftover /\ ~slow /\ Did("pause", "none") => got = 1
        /\ leftover /\ ~slow => \A v \in 1..ip - 1 : ~SecondLook(v)
    BY <2>3, <2>4, ListingIs
  <2>6. /\ Did("wait", "exec")' <=> Did("wait", "exec") \/ (call = "wait" /\ p = "exec")
        /\ Did("pause", "none")' <=> Did("pause", "none")
    BY <1>1, <2>2, <2>4, StepsOn DEF Calls
  <2>7. leftover' /\ ~slow' => \A v \in 1..ip' - 1 : ~SecondLook(v)
    <3>1. \A v \in 1..ip' - 1 : v \in 1..ip - 1 \/ v = ip
      BY <2>4
    <3>2. ~SecondLook(ip)
      BY <2>2 DEF SecondLook, Calls
    <3>3. QED
      BY <2>2, <2>5, <3>1, <3>2
  <2>8. call = "wait" /\ p = "exec" => proc["exec"] = "stopped" /\ proc' = proc
    <3>1. SUFFICES ASSUME call = "wait", p = "exec" PROVE proc["exec"] = "stopped" /\ proc' = proc
      OBVIOUS
    <3>2. script[ip].on = "fatal"
      BY <2>2, <2>3, <2>4, <3>1 DEF Layered, Layers, script
    <3>3. ASSUME NEW err \in {"gone", "error"}, OnError(err) PROVE FALSE
      BY <2>3, <3>2, <3>3 DEF OnError, Leaves
    <3>4. Legal(call, p) /\ Effect(call, p)
      BY <2>1, <3>2, <3>3 DEF RpcStep
    <3>5. proc' = proc
      BY <2>2, <3>1, <3>4, EffectOf DEF Basics
    <3>6. QED
      BY <3>1, <3>4, <3>5 DEF Legal
  <2>9. /\ proc["exec"] \in {"stopped", "deleted"} => proc'["exec"] \in {"stopped", "deleted"}
        /\ proc'["exec"] \in {"stopped", "deleted"} => proc["exec"] \in {"stopped", "deleted"}
    <3>1. CASE UNCHANGED proc
      BY <3>1
    <3>2. CASE Legal(call, p) /\ Effect(call, p)
      <4>1. CASE p # "exec"
        BY <1>1, <2>2, <3>2, <4>1, EffectOf DEF Basics, Procs
      <4>2. CASE p = "exec" /\ call \notin {"create", "exec", "start", "kill", "delete"}
        BY <1>1, <2>2, <3>2, <4>2, EffectOf DEF Basics
      <4>3. CASE p = "exec" /\ call \in {"create", "exec"}
        <5>1. call = "exec"
          BY <2>2, <2>4, <4>3 DEF Protocol, script
        <5>2. proc'[p] = "created"
          BY <2>2, <3>2, <4>3, EffectOf DEF Basics
        <5>3. proc["exec"] = "none"
          BY <3>2, <5>1 DEF Legal
        <5>4. QED
          BY <4>3, <5>2, <5>3
      <4>4. CASE p = "exec" /\ call = "start"
        <5>1. proc["exec"] = "created" /\ proc'["exec"] = "running"
          BY <2>2, <3>2, <4>4, EffectOf DEF Legal, Basics
        <5>2. QED
          BY <5>1
      <4>5. CASE p = "exec" /\ call = "kill"
        BY <2>2, <2>3, <2>4, <4>5 DEF Layered, Layers, script
      <4>6. CASE p = "exec" /\ call = "delete"
        <5>1. Did("wait", "exec")
          BY <2>2, <2>3, <2>4, <4>6 DEF Layered, Layers, script, Did
        <5>2. proc'[p] = "deleted"
          BY <2>2, <3>2, <4>6, EffectOf DEF Basics
        <5>3. QED
          BY <2>5, <4>6, <5>1, <5>2
      <4>7. QED
        BY <4>1, <4>2, <4>3, <4>4, <4>5, <4>6
    <3>3. QED
      BY <2>1, <3>1, <3>2 DEF RpcStep
  <2>10. QED
    BY <2>2, <2>5, <2>6, <2>7, <2>8, <2>9
<1>4. CASE renew
  <2>1. /\ At("renew") /\ ip' = ip + 1 /\ outcome' = outcome /\ proc' = [proc EXCEPT !["exec"] = "none"]
    BY <1>4 DEF renew, Goes
  <2>2. /\ script[ip].call = "renew" /\ ip \in 1..Len(script) /\ Layered(test, ip) /\ Len(script) \in Nat
        /\ ip <= Len(script)
    BY <1>1, <2>1, HereOK
  <2>3. ~Behind(script, ip, {"renew"})
    <3>1. Ahead(script, 1, {"renew"})
      BY <2>2 DEF Ahead
    <3>2. QED
      BY <2>2, <3>1 DEF Layered, script
  <2>4. ~Did("wait", "exec")' /\ ~Did("pause", "none")'
    BY <1>1, <2>1, <2>2, StepsOn
  <2>5. ASSUME NEW v \in 1..ip' - 1 PROVE ~Behind(script, v, {"renew"})
    <3>1. \A j \in 1..v - 1 : j \in 1..ip - 1
      BY <2>1, <2>2
    <3>2. QED
      BY <2>3, <3>1 DEF Behind
  <2>6. proc'["exec"] = "none"
    BY <1>1, <2>1 DEF Procs
  <2>7. QED
    BY <1>1, <2>4, <2>5, <2>6 DEF Listing
<1>5. QED
  BY <1>2, <1>3, <1>4 DEF TestActs

LEMMA WorldListing == ASSUME Basics, Accounted, Listing, World PROVE Listing'
<1>1. /\ TestOK /\ FlowOK /\ Moves /\ Grows /\ test' = test /\ ip' = ip /\ outcome' = outcome
      /\ script' = script /\ proc \in [Procs -> States] /\ (Layers' <=> Layers)
      /\ \A c, p : Did(c, p)' <=> Did(c, p)
  BY WorldStays, SameTest, Stands DEF testVars, Basics, ShimOK
<1>2. leftover' = leftover
  BY DEF World, StdinWriter, DrainRead, DrainEOF, ProcWrites, ProcExits, NcConnects, NcCopiesIn,
         NcCopiesOut, NcGivesUp, Peer, PeerTimesOut, NetworkLoses, ShimCopies, ShimCloses,
         ShimExits, ShimDrops, ShimForwards, ShimForwardsAgain, ShimSkews, history
<1>3. CASE ~Layers \/ outcome # "none"
  BY <1>1, <1>3 DEF Listing
<1>4. CASE Layers /\ outcome = "none"
  <2>1. /\ subject = "exec" /\ program.out = "own" /\ program.ends = "written"
    BY <1>1, <1>4, LayersOf
  <2>2. CASE DrainRead
    <3>1. fifo > 0 /\ proc' = proc /\ src' = src
      BY <2>2 DEF DrainRead, inVars
    <3>2. ~(leftover /\ ~slow /\ Did("pause", "none"))
      <4>1. leftover => src + OutFlow = 1
        BY <1>4, <2>1 DEF Accounted
      <4>2. leftover /\ ~slow /\ Did("pause", "none") => got = 1
        BY <1>4 DEF Listing
      <4>3. QED
        BY <1>1, <3>1, <4>1, <4>2 DEF OutFlow, FlowOK
    <3>3. QED
      BY <1>1, <1>2, <3>1, <3>2 DEF Listing, Grows
  <2>3. CASE ProcWrites
    <3>1. src > 0 /\ src' = src - 1 /\ proc["exec"] = "running" /\ proc' = proc /\ got' = got
      BY <2>1, <2>3 DEF ProcWrites
    <3>2. QED
      BY <1>1, <1>2, <1>4, <3>1 DEF Listing, Grows
  <2>4. CASE ProcExits
    <3>1. src = 0 /\ src' = src /\ proc' = [proc EXCEPT !["exec"] = "stopped"] /\ got' = got
      BY <2>1, <2>4 DEF ProcExits, inVars, outVars
    <3>2. proc'["exec"] = "stopped"
      BY <1>1, <3>1 DEF Procs
    <3>3. QED
      BY <1>1, <1>2, <1>4, <3>1, <3>2 DEF Listing, Grows
  <2>5. CASE ShimExits
    <3>1. proc'["exec"] = proc["exec"] /\ UNCHANGED <<src, got>>
      BY <1>1, <2>1, <2>5 DEF ShimExits, inVars, outVars, Procs
    <3>2. QED
      BY <1>1, <1>2, <3>1, ListingKept
  <2>6. CASE ~(DrainRead \/ ProcWrites \/ ProcExits \/ ShimExits)
    <3>1. UNCHANGED <<proc, src, got>>
      BY <2>1, <2>6 DEF World, StdinWriter, DrainEOF, NcConnects, NcCopiesIn,
                NcCopiesOut, NcGivesUp, NcRuns, Peer, PeerTimesOut, NetworkLoses, ShimCopies, ShimCloses,
                ShimDrops, ShimForwards, ShimForwardsAgain, ShimSkews, KeepShim, inVars, outVars
    <3>2. QED
      BY <1>1, <1>2, <3>1, ListingKept
  <2>7. QED
    BY <2>2, <2>3, <2>4, <2>5, <2>6
<1>5. QED
  BY <1>3, <1>4 DEF TestOK
-----------------------------------------------------------------------------
(***************************************************************************)
(* Recorded and Unrepeated.                                                *)
(***************************************************************************)
LEMMA RankOf ==
    /\ \A a \in Topics : Rank(a) \in 1..4
    /\ \A a, b \in Topics : Rank(a) = Rank(b) => a = b
    /\ Rank("create") = 1 /\ Rank("start") = 2 /\ Rank("exit") = 3 /\ Rank("delete") = 4
<1>1. Rank("create") = 1 /\ Rank("start") = 2 /\ Rank("exit") = 3 /\ Rank("delete") = 4
  BY DEF Rank
<1>2. QED
  BY <1>1 DEF Topics

LEMMA PublishedOf ==
    ASSUME ShimOK
    PROVE  /\ Published \in 0..4
           /\ proc["init"] = "none" => Published = 0
           /\ proc["init"] = "created" => Published = 1
           /\ proc["init"] = "running" => Published = 2
           /\ proc["init"] = "stopped" => Published = 3
           /\ proc["init"] = "deleted" => Published = 4
<1>1. proc["init"] \in States
  BY DEF ShimOK, Procs
<1>2. QED
  BY <1>1 DEF Published, States

LEMMA Appended ==
    ASSUME NEW s \in Seq(Topics), NEW x \in Topics
    PROVE  /\ Append(s, x) \in Seq(Topics) /\ Len(Append(s, x)) = Len(s) + 1
           /\ \A i \in 1..Len(s) : Append(s, x)[i] = s[i] /\ s[i] \in Topics
           /\ Append(s, x)[Len(s) + 1] = x
OBVIOUS

LEMMA Removed ==
    ASSUME NEW s \in Seq(Topics), s # <<>>
    PROVE  /\ Tail(s) \in Seq(Topics) /\ Len(Tail(s)) = Len(s) - 1 /\ Len(s) \in Nat /\ Len(s) > 0
           /\ \A i \in 1..Len(s) - 1 : Tail(s)[i] = s[i + 1]
           /\ Head(s) = s[1] /\ s[1] \in Topics /\ 1 \in 1..Len(s)
           /\ \A i \in 1..Len(s) : s[i] \in Topics
<1>1. Len(s) \in Nat /\ Len(s) > 0
  OBVIOUS
<1>2. QED
  BY <1>1

LEMMA Overtaken ==
    ASSUME NEW s \in Seq(Topics), Len(s) > 1, NEW t, t = <<s[1]>> \o SubSeq(s, 3, Len(s))
    PROVE  /\ t \in Seq(Topics) /\ Len(t) = Len(s) - 1 /\ t[1] = s[1]
           /\ \A i \in 2..Len(s) - 1 : t[i] = s[i + 1]
           /\ s[2] \in Topics /\ s[1] \in Topics
<1>1. s[1] \in Topics /\ s[2] \in Topics /\ Len(s) \in Nat
  OBVIOUS
<1>2. SubSeq(s, 3, Len(s)) \in Seq(Topics) /\ Len(SubSeq(s, 3, Len(s))) = Len(s) - 2
  <2>1. \A i \in 3..Len(s) : s[i] \in Topics
    BY <1>1
  <2>2. /\ SubSeq(s, 3, Len(s)) \in Seq(Topics)
        /\ Len(SubSeq(s, 3, Len(s))) = IF 3 <= Len(s) THEN Len(s) - 3 + 1 ELSE 0
    BY <1>1, <2>1, SubSeqProperties
  <2>3. \A n \in Nat : n > 1 => (IF 3 <= n THEN n - 3 + 1 ELSE 0) = n - 2
    OBVIOUS
  <2>4. QED
    BY <1>1, <2>2, <2>3, Zenon
<1>3. \A i \in 1..Len(s) - 2 : SubSeq(s, 3, Len(s))[i] = s[i + 2]
  BY <1>1, SubSeqProperties
<1>4. QED
  BY <1>1, <1>2, <1>3, ConcatProperties
\* What was recorded stays recorded, in its order.
LEMMA RecordGrows ==
    ASSUME NEW e \in Seq(Topics), NEW x \in Topics, NEW e2, e2 = Append(e, x)
    PROVE  /\ \A a : In(e2, a) <=> In(e, a) \/ a = x
           /\ Subsequence(e) => Subsequence(e2)
<1>1. /\ e2 \in Seq(Topics) /\ Len(e2) = Len(e) + 1 /\ Len(e) \in Nat
      /\ \A i \in 1..Len(e) : e2[i] = e[i]
      /\ e2[Len(e) + 1] = x
  BY Appended
<1>2. 1..Len(e2) = (1..Len(e)) \cup {Len(e) + 1}
  BY <1>1
<1>3. ASSUME NEW a PROVE In(e2, a) <=> In(e, a) \/ a = x
  BY <1>1, <1>2 DEF In
<1>4. ASSUME Subsequence(e) PROVE Subsequence(e2)
  <2>1. PICK pos \in [1..Len(want) -> 1..Len(e)] :
           /\ \A i \in 1..Len(want) : e[pos[i]] = want[i]
           /\ \A i, j \in 1..Len(want) : i < j => pos[i] < pos[j]
    BY <1>4 DEF Subsequence
  <2>2. pos \in [1..Len(want) -> 1..Len(e2)]
    BY <1>2, <2>1
  <2>3. \A i \in 1..Len(want) : e2[pos[i]] = want[i]
    BY <1>1, <2>1
  <2>4. QED
    BY <2>1, <2>2, <2>3 DEF Subsequence
<1>5. QED
  BY <1>3, <1>4

LEMMA PublishKeeps ==
    ASSUME NEW o, NEW e, NEW n \in Nat, EventsOrdered(o, e, n), NEW topic \in Topics, n < Rank(topic),
           NEW o2, o2 = Append(o, topic)
    PROVE  /\ EventsOrdered(o2, e, Rank(topic))
           /\ Apart(o, e) => Apart(o2, e)
           /\ Mislaid(o, e, n) => Mislaid(o2, e, Rank(topic))
<1>1. o \in Seq(Topics) /\ e \in Seq(Topics)
  BY DEF EventsOrdered
<1>2. /\ o2 \in Seq(Topics) /\ Len(o2) = Len(o) + 1 /\ Len(o) \in Nat /\ Len(e) \in Nat
      /\ \A i \in 1..Len(o) : o2[i] = o[i] /\ o[i] \in Topics
      /\ o2[Len(o) + 1] = topic
      /\ \A i \in 1..Len(e) : e[i] \in Topics
  BY <1>1, Appended
<1>3. 1..Len(o2) = (1..Len(o)) \cup {Len(o) + 1}
  BY <1>2
<1>4. \A a \in Topics : Rank(a) \in Nat
  BY RankOf
<1>5. ASSUME NEW i \in 1..Len(o2) PROVE Rank(o2[i]) <= Rank(topic)
  <2>1. CASE i \in 1..Len(o)
    <3>1. o2[i] = o[i] /\ o[i] \in Topics /\ Rank(o[i]) <= n
      BY <1>2, <2>1 DEF EventsOrdered
    <3>2. Rank(o[i]) \in Nat /\ Rank(topic) \in Nat
      BY <1>4, <3>1
    <3>3. Rank(o[i]) <= Rank(topic)
      BY <3>1, <3>2
    <3>4. QED
      BY <3>1, <3>3
  <2>2. CASE i = Len(o) + 1
    BY <1>2, <1>4, <2>2
  <2>3. QED
    BY <1>3, <2>1, <2>2
<1>6. ASSUME NEW i \in 1..Len(e) PROVE Rank(e[i]) <= Rank(topic)
  BY <1>1, <1>2, <1>4 DEF EventsOrdered
<1>7. \A i, j \in 1..Len(o2) : i < j => Rank(o2[i]) < Rank(o2[j])
  <2>1. SUFFICES ASSUME NEW i \in 1..Len(o2), NEW j \in 1..Len(o2), i < j
                 PROVE  Rank(o2[i]) < Rank(o2[j])
    OBVIOUS
  <2>2. i \in 1..Len(o)
    BY <1>2, <1>3, <2>1
  <2>3. CASE j \in 1..Len(o)
    BY <1>2, <2>1, <2>2, <2>3 DEF EventsOrdered
  <2>4. CASE j = Len(o) + 1
    BY <1>2, <1>4, <2>1, <2>2, <2>4 DEF EventsOrdered
  <2>5. QED
    BY <1>3, <2>3, <2>4
<1>9. \A a : In(o2, a) <=> In(o, a) \/ a = topic
  BY <1>2, <1>3 DEF In
<1>10. \A i \in 1..Len(e) : e[i] # topic
  BY <1>2, <1>4 DEF EventsOrdered
<1>11. Apart(o, e) => Apart(o2, e)
  BY <1>9, <1>10 DEF Apart
<1>12. ASSUME Mislaid(o, e, n) PROVE Mislaid(o2, e, Rank(topic))
  <2>1. CASE \E a \in Topics : Rank(a) <= n /\ ~In(e, a) /\ ~In(o, a)
    <3>1. PICK a \in Topics : Rank(a) <= n /\ ~In(e, a) /\ ~In(o, a)
      BY <2>1
    <3>2. a # topic /\ Rank(a) <= Rank(topic)
      BY <1>4, <3>1
    <3>3. QED
      BY <1>9, <3>1, <3>2 DEF Mislaid
  <2>2. CASE \E i, j \in 1..Len(e) : i < j /\ Rank(e[j]) < Rank(e[i])
    BY <2>2 DEF Mislaid
  <2>3. CASE \E i \in 1..Len(e), j \in 1..Len(o) : Rank(o[j]) < Rank(e[i])
    <3>1. PICK i \in 1..Len(e), j \in 1..Len(o) : Rank(o[j]) < Rank(e[i])
      BY <2>3
    <3>2. j \in 1..Len(o2) /\ o2[j] = o[j]
      BY <1>2, <1>3
    <3>3. QED
      BY <3>1, <3>2 DEF Mislaid
  <2>4. QED
    BY <1>12, <2>1, <2>2, <2>3 DEF Mislaid
<1>13. QED
  BY <1>1, <1>2, <1>5, <1>6, <1>7, <1>11, <1>12 DEF EventsOrdered

\* The first event of the outbox leaves it.
LEMMA Departed ==
    ASSUME NEW o \in Seq(Topics), o # <<>>, NEW n, \A i \in 1..Len(o) : Rank(o[i]) <= n,
           \A i, j \in 1..Len(o) : i < j => Rank(o[i]) < Rank(o[j]), NEW o2, o2 = Tail(o)
    PROVE  /\ o2 \in Seq(Topics) /\ o[1] \in Topics /\ Rank(o[1]) <= n
           /\ \A i \in 1..Len(o2) : Rank(o2[i]) <= n /\ Rank(o[1]) < Rank(o2[i])
           /\ \A i, j \in 1..Len(o2) : i < j => Rank(o2[i]) < Rank(o2[j])
           /\ \A a : In(o, a) <=> In(o2, a) \/ a = o[1]
           /\ ~In(o2, o[1])
<1>2. /\ o2 \in Seq(Topics) /\ Len(o2) = Len(o) - 1 /\ Len(o) \in Nat /\ Len(o) > 0
      /\ \A i \in 1..Len(o) - 1 : o2[i] = o[i + 1]
      /\ o[1] \in Topics /\ 1 \in 1..Len(o) /\ \A i \in 1..Len(o) : o[i] \in Topics
  BY Removed
<1>4. /\ \A i \in 1..Len(o2) : i \in 1..Len(o) - 1 /\ i + 1 \in 1..Len(o) /\ 1 < i + 1
      /\ \A i \in 1..Len(o) : i # 1 => i - 1 \in 1..Len(o2)
  BY <1>2
<1>5. \A a \in Topics : Rank(a) \in Nat
  BY RankOf
<1>6. ASSUME NEW i \in 1..Len(o2) PROVE Rank(o2[i]) <= n /\ Rank(o[1]) < Rank(o2[i]) /\ o2[i] # o[1]
  <2>1. i + 1 \in 1..Len(o) /\ o2[i] = o[i + 1] /\ 1 < i + 1
    BY <1>2, <1>4
  <2>2. Rank(o[1]) < Rank(o[i + 1]) /\ Rank(o[i + 1]) <= n
    BY <1>2, <2>1
  <2>3. QED
    BY <1>2, <1>5, <2>1, <2>2
<1>7. ASSUME NEW i \in 1..Len(o2), NEW j \in 1..Len(o2), i < j PROVE Rank(o2[i]) < Rank(o2[j])
  BY <1>2, <1>4, <1>7
<1>8. ASSUME NEW a PROVE In(o, a) <=> In(o2, a) \/ a = o[1]
  <2>1. ASSUME In(o, a) PROVE In(o2, a) \/ a = o[1]
    <3>1. PICK i \in 1..Len(o) : o[i] = a
      BY <2>1 DEF In
    <3>2. CASE i # 1
      <4>1. i - 1 \in 1..Len(o2) /\ o2[i - 1] = o[(i - 1) + 1] /\ (i - 1) + 1 = i
        BY <1>2, <1>4, <3>2
      <4>2. QED
        BY <3>1, <4>1 DEF In
    <3>3. QED
      BY <3>1, <3>2
  <2>2. ASSUME In(o2, a) PROVE In(o, a)
    <3>1. PICK i \in 1..Len(o2) : o2[i] = a
      BY <2>2 DEF In
    <3>2. i + 1 \in 1..Len(o) /\ o[i + 1] = a
      BY <1>2, <1>4, <3>1
    <3>3. QED
      BY <3>2 DEF In
  <2>3. QED
    BY <1>2, <2>1, <2>2 DEF In
<1>9. QED
  BY <1>2, <1>6, <1>7, <1>8 DEF In

LEMMA ForwardKeeps ==
    ASSUME NEW o, NEW e, NEW n \in Nat, EventsOrdered(o, e, n), o # <<>>,
           NEW h, h = o[1], NEW o2, NEW e2, e2 = Append(e, h), o2 = Tail(o)
    PROVE  /\ EventsOrdered(o2, e2, n)
           /\ Apart(o, e) => Apart(o2, e2)
           /\ Mislaid(o, e, n) => Mislaid(o2, e2, n)
<1>1. o \in Seq(Topics) /\ e \in Seq(Topics)
  BY DEF EventsOrdered
<1>2. /\ o2 \in Seq(Topics) /\ o[1] \in Topics /\ Rank(o[1]) <= n
      /\ \A i \in 1..Len(o2) : Rank(o2[i]) <= n
      /\ \A i, j \in 1..Len(o2) : i < j => Rank(o2[i]) < Rank(o2[j])
      /\ \A a : In(o, a) <=> In(o2, a) \/ a = o[1]
      /\ ~In(o2, o[1])
  BY <1>1, Departed DEF EventsOrdered
<1>3. /\ e2 \in Seq(Topics) /\ Len(e2) = Len(e) + 1 /\ Len(e) \in Nat
      /\ \A i \in 1..Len(e) : e2[i] = e[i] /\ e[i] \in Topics
      /\ e2[Len(e) + 1] = o[1]
  BY <1>1, <1>2, Appended
<1>4. 1..Len(e2) = (1..Len(e)) \cup {Len(e) + 1}
  BY <1>3
<1>5. EventsOrdered(o2, e2, n)
  <2>1. \A i \in 1..Len(e2) : Rank(e2[i]) <= n
    BY <1>2, <1>3, <1>4 DEF EventsOrdered
  <2>2. QED
    BY <1>2, <1>3, <2>1 DEF EventsOrdered
<1>6. \A a : In(e2, a) <=> In(e, a) \/ a = o[1]
  BY <1>3, <1>4 DEF In
<1>7. ASSUME Apart(o, e) PROVE Apart(o2, e2)
  <2>1. \A i \in 1..Len(e) : e[i] # o[1] /\ ~In(o, e[i])
    BY <1>2, <1>7 DEF Apart
  <2>2. \A i, j \in 1..Len(e2) : e2[i] = e2[j] => i = j
    BY <1>3, <1>4, <1>7, <2>1 DEF Apart
  <2>3. \A i \in 1..Len(e2) : ~In(o2, e2[i])
    BY <1>2, <1>3, <1>4, <2>1
  <2>4. QED
    BY <2>2, <2>3 DEF Apart
<1>8. ASSUME Mislaid(o, e, n) PROVE Mislaid(o2, e2, n)
  <2>1. CASE \E a \in Topics : Rank(a) <= n /\ ~In(e, a) /\ ~In(o, a)
    BY <1>2, <1>6, <2>1 DEF Mislaid
  <2>2. CASE \E i, j \in 1..Len(e) : i < j /\ Rank(e[j]) < Rank(e[i])
    <3>1. PICK i, j \in 1..Len(e) : i < j /\ Rank(e[j]) < Rank(e[i])
      BY <2>2
    <3>2. i \in 1..Len(e2) /\ j \in 1..Len(e2) /\ e2[i] = e[i] /\ e2[j] = e[j]
      BY <1>3, <1>4
    <3>3. QED
      BY <3>1, <3>2 DEF Mislaid
  <2>3. CASE \E i \in 1..Len(e), j \in 1..Len(o) : Rank(o[j]) < Rank(e[i])
    <3>1. PICK i \in 1..Len(e), j \in 1..Len(o) : Rank(o[j]) < Rank(e[i])
      BY <2>3
    <3>2. i \in 1..Len(e2) /\ Len(e) + 1 \in 1..Len(e2) /\ i < Len(e) + 1 /\ e2[i] = e[i]
      BY <1>3, <1>4
    <3>3. CASE o[j] = o[1]
      <4>1. Rank(e2[Len(e) + 1]) < Rank(e2[i])
        BY <1>3, <3>1, <3>2, <3>3
      <4>2. QED
        BY <3>2, <4>1 DEF Mislaid
    <3>4. CASE o[j] # o[1]
      <4>1. PICK k \in 1..Len(o2) : o2[k] = o[j]
        <5>1. In(o, o[j])
          BY DEF In
        <5>2. In(o2, o[j])
          BY <1>2, <3>4, <5>1
        <5>3. QED
          BY <5>2 DEF In
      <4>2. QED
        BY <3>1, <3>2, <4>1 DEF Mislaid
    <3>5. QED
      BY <3>3, <3>4
  <2>4. QED
    BY <1>8, <2>1, <2>2, <2>3 DEF Mislaid
<1>9. QED
  BY <1>5, <1>7, <1>8

LEMMA AgainKeeps ==
    ASSUME NEW o, NEW e, NEW n \in Nat, EventsOrdered(o, e, n), NEW x \in 1..Len(e),
           NEW e2, e2 = Append(e, e[x])
    PROVE  e[x] \in Topics /\ EventsOrdered(o, e2, n)
<1>1. o \in Seq(Topics) /\ e \in Seq(Topics) /\ e[x] \in Topics /\ Rank(e[x]) <= n
  BY DEF EventsOrdered
<1>2. /\ e2 \in Seq(Topics) /\ Len(e2) = Len(e) + 1 /\ Len(e) \in Nat
      /\ \A i \in 1..Len(e) : e2[i] = e[i]
      /\ e2[Len(e) + 1] = e[x]
  BY <1>1, Appended
<1>3. 1..Len(e2) = (1..Len(e)) \cup {Len(e) + 1}
  BY <1>2
<1>4. \A i \in 1..Len(e2) : Rank(e2[i]) <= n
  BY <1>1, <1>2, <1>3 DEF EventsOrdered
<1>5. QED
  BY <1>1, <1>2, <1>4 DEF EventsOrdered

\* A lost event is mislaid.
LEMMA LossKeeps ==
    ASSUME NEW o, NEW e, NEW n \in Nat, EventsOrdered(o, e, n), o # <<>>, NEW o2, o2 = Tail(o)
    PROVE  /\ EventsOrdered(o2, e, n)
           /\ Apart(o, e) => Apart(o2, e) /\ Mislaid(o2, e, n)
<1>1. o \in Seq(Topics) /\ e \in Seq(Topics)
  BY DEF EventsOrdered
<1>2. /\ o2 \in Seq(Topics) /\ o[1] \in Topics /\ Rank(o[1]) <= n
      /\ \A i \in 1..Len(o2) : Rank(o2[i]) <= n
      /\ \A i, j \in 1..Len(o2) : i < j => Rank(o2[i]) < Rank(o2[j])
      /\ \A a : In(o, a) <=> In(o2, a) \/ a = o[1]
      /\ ~In(o2, o[1])
  BY <1>1, Departed DEF EventsOrdered
<1>3. EventsOrdered(o2, e, n)
  BY <1>1, <1>2 DEF EventsOrdered
<1>4. ASSUME Apart(o, e) PROVE Apart(o2, e) /\ Mislaid(o2, e, n)
  <2>1. Apart(o2, e)
    BY <1>2, <1>4 DEF Apart
  <2>2. ~In(e, o[1])
    BY <1>2, <1>4 DEF Apart, In
  <2>3. QED
    BY <1>2, <2>1, <2>2 DEF Mislaid
<1>5. QED
  BY <1>3, <1>4

\* So is one that the next has overtaken.
Overtakes(o, e, o2, e2) ==
    /\ o2 \in Seq(Topics) /\ Len(o) > 1 /\ Len(o2) = Len(o) - 1 /\ o2[1] = o[1]
    /\ \A i \in 2..Len(o) - 1 : o2[i] = o[i + 1]
    /\ e2 = Append(e, o[2])

LEMMA OvertakingKeeps ==
    ASSUME NEW o, NEW e, NEW n \in Nat, EventsOrdered(o, e, n), NEW o2, NEW e2, Overtakes(o, e, o2, e2)
    PROVE  /\ EventsOrdered(o2, e2, n)
           /\ Mislaid(o2, e2, n)
           /\ Apart(o, e) => Apart(o2, e2)
<1>1. o \in Seq(Topics) /\ e \in Seq(Topics) /\ Len(o) \in Nat /\ Len(o) > 1
  BY DEF EventsOrdered, Overtakes
<1>2. /\ o2 \in Seq(Topics) /\ Len(o2) = Len(o) - 1 /\ o2[1] = o[1]
      /\ \A i \in 2..Len(o) - 1 : o2[i] = o[i + 1]
      /\ o[2] \in Topics /\ o[1] \in Topics
  BY <1>1 DEF Overtakes
<1>3. /\ 1 \in 1..Len(o) /\ 2 \in 1..Len(o) /\ 1 \in 1..Len(o2)
      /\ Rank(o[1]) < Rank(o[2]) /\ Rank(o[1]) <= n /\ Rank(o[2]) <= n
  <2>1. 1 \in 1..Len(o) /\ 2 \in 1..Len(o) /\ 1 \in 1..Len(o2)
    BY <1>1, <1>2
  <2>2. QED
    BY <2>1 DEF EventsOrdered
<1>4. /\ e2 \in Seq(Topics) /\ Len(e2) = Len(e) + 1 /\ Len(e) \in Nat
      /\ \A i \in 1..Len(e) : e2[i] = e[i] /\ e[i] \in Topics
      /\ e2[Len(e) + 1] = o[2]
  BY <1>1, <1>2, Appended DEF Overtakes
<1>5. 1..Len(e2) = (1..Len(e)) \cup {Len(e) + 1}
  BY <1>4
<1>6. \A a \in Topics : Rank(a) \in Nat
  BY RankOf
<1>7. ASSUME NEW i \in 1..Len(o2)
      PROVE  \E k \in 1..Len(o) : o2[i] = o[k] /\ k # 2 /\ (i = 1 => k = 1) /\ (i # 1 => k = i + 1)
  <2>1. CASE i = 1
    BY <1>2, <1>3, <2>1
  <2>2. CASE i # 1
    <3>1. i \in 2..Len(o) - 1 /\ i + 1 \in 1..Len(o) /\ i + 1 # 2
      BY <1>1, <1>2, <2>2
    <3>2. o2[i] = o[i + 1]
      BY <1>2, <3>1
    <3>3. QED
      BY <2>2, <3>1, <3>2
  <2>3. QED
    BY <2>1, <2>2
<1>8. EventsOrdered(o2, e2, n)
  <2>1. \A i \in 1..Len(o2) : Rank(o2[i]) <= n
    BY <1>7 DEF EventsOrdered
  <2>2. \A i \in 1..Len(e2) : Rank(e2[i]) <= n
    BY <1>3, <1>4, <1>5 DEF EventsOrdered
  <2>3. ASSUME NEW i \in 1..Len(o2), NEW j \in 1..Len(o2), i < j PROVE Rank(o2[i]) < Rank(o2[j])
    <3>1. PICK a \in 1..Len(o) : o2[i] = o[a] /\ (i = 1 => a = 1) /\ (i # 1 => a = i + 1)
      BY <1>7
    <3>2. PICK b \in 1..Len(o) : o2[j] = o[b] /\ (j # 1 => b = j + 1)
      BY <1>7
    <3>3. a < b
      BY <2>3, <3>1, <3>2
    <3>4. QED
      BY <3>1, <3>2, <3>3 DEF EventsOrdered
  <2>4. QED
    BY <1>2, <1>4, <2>1, <2>2, <2>3 DEF EventsOrdered
<1>9. Mislaid(o2, e2, n)
  <2>1. Len(e) + 1 \in 1..Len(e2) /\ Rank(o2[1]) < Rank(e2[Len(e) + 1])
    BY <1>2, <1>3, <1>4, <1>5
  <2>2. QED
    BY <1>3, <2>1 DEF Mislaid
<1>10. ASSUME Apart(o, e) PROVE Apart(o2, e2)
  <2>1. In(o, o[2]) /\ \A a : In(o2, a) => In(o, a)
    BY <1>3, <1>7 DEF In
  <2>2. ~In(o2, o[2])
    <3>1. \A k \in 1..Len(o) : k # 2 => o[k] # o[2]
      <4>1. ASSUME NEW k \in 1..Len(o), k # 2 PROVE o[k] # o[2]
        <5>1. k < 2 \/ 2 < k
          BY <4>1
        <5>2. Rank(o[k]) < Rank(o[2]) \/ Rank(o[2]) < Rank(o[k])
          BY <1>3, <5>1 DEF EventsOrdered
        <5>3. Rank(o[2]) \in Nat
          BY <1>2, <1>6
        <5>4. QED
          BY <5>2, <5>3
      <4>2. QED
        BY <4>1
    <3>2. QED
      BY <1>7, <3>1 DEF In
  <2>3. \A i \in 1..Len(e) : e[i] # o[2] /\ ~In(o, e[i])
    BY <1>10, <2>1 DEF Apart
  <2>4. \A i, j \in 1..Len(e2) : e2[i] = e2[j] => i = j
    BY <1>4, <1>5, <1>10, <2>3 DEF Apart
  <2>5. \A i \in 1..Len(e2) : ~In(o2, e2[i])
    BY <1>4, <1>5, <2>1, <2>2, <2>3
  <2>6. QED
    BY <2>4, <2>5 DEF Apart
<1>11. QED
  BY <1>2, <1>8, <1>9, <1>10
\* What an event has to do with the place in the script.
LEMMA OrderlyBy ==
    ASSUME TestOK, Moves, test = "Events", outcome' = "none", Orderly,
           EventsOrdered(outbox, envelopes, Published)',
           ip' # ip => /\ script[ip].call = "start" => proc'["init"] \in {"running", "stopped", "deleted"}
                       /\ script[ip].call = "topic" => HasTopic(script[ip].who)
                       /\ script[ip].call = "order" => InOrder,
           Did("start", "init") => proc'["init"] \in {"running", "stopped", "deleted"},
           HasTopic("delete") => HasTopic("delete")', InOrder => InOrder',
           shim' \in {"stopping", "down"} => shim \in {"stopping", "down"} \/ Did("topic", "delete")
    PROVE  Orderly'
<1>1. /\ \/ ip' = ip
         \/ ip' = ip + 1 /\ ip <= Len(script)
      /\ test' = test
  BY Unfailed DEF Moves
<1>2. CASE ip' = ip
  <2>1. /\ Did("start", "init")' <=> Did("start", "init")
        /\ Did("topic", "delete")' <=> Did("topic", "delete")
        /\ Past({"order"})' <=> Past({"order"})
    BY <1>1, <1>2, Stands
  <2>2. QED
    BY <2>1 DEF Orderly
<1>3. CASE ip' = ip + 1 /\ ip <= Len(script)
  <2>1. ip \in 1..Len(script) /\ ip \in Nat /\ Len(script) \in Nat /\ ip' # ip
    BY <1>3 DEF TestOK
  <2>2. script[ip].call # "renew"
    <3>1. Layered(test, ip)
      BY <2>1, RulesOf DEF TestOK
    <3>2. script[ip].call = "renew" => Ahead(script, 1, {"renew"})
      BY <2>1 DEF Ahead
    <3>3. QED
      BY <3>1, <3>2 DEF Layered, script
  <2>3. /\ Did("start", "init")' <=> Did("start", "init") \/ (script[ip].call = "start" /\ script[ip].who = "init")
        /\ Did("topic", "delete")' <=> Did("topic", "delete") \/ (script[ip].call = "topic" /\ script[ip].who = "delete")
        /\ Past({"order"})' <=> Past({"order"}) \/ script[ip].call = "order"
    BY <1>1, <1>3, <2>2, StepsOn
  <2>4. QED
    BY <2>1, <2>3 DEF Orderly
<1>4. QED
  BY <1>1, <1>2, <1>3

\* No event is published or recorded.
LEMMA RecordKept ==
    ASSUME TestOK, Recorded, Unrepeated, Moves, UNCHANGED eventVars,
           test = "Events" => proc'["init"] = proc["init"],
           ip' # ip /\ test = "Events" /\ outcome' = "none" =>
              /\ script[ip].call = "start" => proc'["init"] \in {"running", "stopped", "deleted"}
              /\ script[ip].call = "topic" => HasTopic(script[ip].who)
              /\ script[ip].call = "order" => InOrder,
           shim' \in {"stopping", "down"} /\ test = "Events" =>
              shim \in {"stopping", "down"} \/ Did("topic", "delete")
    PROVE  Recorded' /\ Unrepeated'
<1>1. UNCHANGED <<outbox, envelopes, repeats, skewed>> /\ test' = test
  BY DEF eventVars, Moves
<1>2. test = "Events" => Published' = Published
  BY DEF Published
<1>3. (\A a : HasTopic(a)' <=> HasTopic(a)) /\ (InOrder' <=> InOrder)
  BY <1>1 DEF HasTopic, InOrder, Subsequence, topics
<1>4. ASSUME test = "Events", outcome' = "none" PROVE Orderly' /\ outcome = "none"
  <2>1. outcome = "none" /\ Orderly
    BY <1>4, Unfailed DEF Recorded
  <2>2. EventsOrdered(outbox, envelopes, Published)'
    BY <1>1, <1>2, <1>4, <2>1 DEF Orderly, EventsOrdered
  <2>3. Did("start", "init") => proc'["init"] \in {"running", "stopped", "deleted"}
    BY <1>4, <2>1 DEF Orderly
  <2>4. QED
    BY <1>3, <1>4, <2>1, <2>2, <2>3, OrderlyBy
<1>5. Recorded'
  BY <1>1, <1>4 DEF Recorded
<1>6. Unrepeated'
  <2>1. ASSUME test = "Events", outcome' = "none", repeats' = 0 PROVE Single'
    <3>1. Single
      BY <1>1, <1>4, <2>1 DEF Unrepeated
    <3>2. QED
      BY <1>1, <1>2, <2>1, <3>1 DEF Single, Apart, Mislaid, In
  <2>2. QED
    BY <1>1, <2>1 DEF Unrepeated
<1>7. QED
  BY <1>5, <1>6

\* The init process goes on, and its event is published.
LEMMA RecordPublished ==
    ASSUME TestOK, ShimOK, ShimOK', Recorded, Unrepeated, Moves, test = "Events",
           NEW topic \in Topics, Publish(topic), Published < Rank(topic), Published' = Rank(topic),
           ip' # ip /\ outcome' = "none" =>
              /\ script[ip].call = "start" => proc'["init"] \in {"running", "stopped", "deleted"}
              /\ script[ip].call \notin {"topic", "order"},
           shim' \in {"stopping", "down"} => shim \in {"stopping", "down"}
    PROVE  Recorded' /\ Unrepeated'
<1>1. outbox' = Append(outbox, topic) /\ UNCHANGED <<envelopes, repeats, skewed>> /\ test' = test
  BY DEF Publish, Moves
<1>2. outbox \in Seq(Topics) /\ envelopes \in Seq(Topics) /\ outbox' \in Seq(Topics)
  BY <1>1, Appended DEF Recorded
<1>3. (\A a : HasTopic(a)' <=> HasTopic(a)) /\ (InOrder' <=> InOrder)
  BY <1>1 DEF HasTopic, InOrder, Subsequence, topics
<1>4. Published \in Nat /\ Rank(topic) \in Nat
  BY PublishedOf, RankOf
<1>5. ASSUME outcome' = "none" PROVE Orderly' /\ outcome = "none" /\ EventsOrdered(outbox, envelopes, Published)
  <2>1. outcome = "none" /\ Orderly
    BY <1>5, Unfailed DEF Recorded
  <2>2. EventsOrdered(outbox', envelopes, Rank(topic))
    BY <1>1, <1>4, <2>1, PublishKeeps DEF Orderly
  <2>3. EventsOrdered(outbox, envelopes, Published)'
    BY <1>1, <2>2 DEF EventsOrdered
  <2>4. Did("start", "init") => proc'["init"] \in {"running", "stopped", "deleted"}
    <3>1. Did("start", "init") => Published >= 2
      BY <2>1, PublishedOf DEF Orderly
    <3>2. proc'["init"] \in States
      BY DEF ShimOK, Procs
    <3>3. Published' >= 2 => proc'["init"] \in {"running", "stopped", "deleted"}
      BY <3>2 DEF Published, States
    <3>4. Published >= 2 => Published' >= 2
      BY <1>4
    <3>5. QED
      BY <3>1, <3>3, <3>4
  <2>5. QED
    BY <1>3, <1>5, <2>1, <2>3, <2>4, OrderlyBy DEF Orderly
<1>6. Recorded'
  BY <1>1, <1>2, <1>5 DEF Recorded
<1>7. Unrepeated'
  <2>1. ASSUME outcome' = "none", repeats' = 0 PROVE Single'
    <3>1. Single /\ EventsOrdered(outbox, envelopes, Published)
      BY <1>1, <1>5, <2>1 DEF Unrepeated
    <3>2. /\ Apart(outbox', envelopes)
          /\ skewed => Mislaid(outbox', envelopes, Rank(topic))
      BY <1>1, <1>4, <3>1, PublishKeeps DEF Single
    <3>3. QED
      BY <1>1, <3>2 DEF Single, Apart, Mislaid, In
  <2>2. QED
    BY <1>1, <2>1 DEF Unrepeated
<1>8. QED
  BY <1>6, <1>7

LEMMA LooksRecorded == ASSUME Basics, Recorded, Unrepeated, Quiet PROVE Recorded' /\ Unrepeated'
<1>1. TestOK /\ Moves /\ UNCHANGED eventVars /\ proc' = proc /\ shim' = shim
  BY DEF Basics, Quiet, envVars, KeepShim
<1>2. ip' # ip /\ outcome' = "none" =>
         /\ script[ip].call # "start"
         /\ script[ip].call = "topic" => HasTopic(script[ip].who)
         /\ script[ip].call = "order" => InOrder
  BY DEF Quiet, Knows, Calls
<1>3. QED
  BY <1>1, <1>2, RecordKept

LEMMA ActsRecorded ==
    ASSUME Basics, Basics', Place, Recorded, Unrepeated, TestActs
    PROVE  Recorded' /\ Unrepeated'
<1>1. TestOK /\ ShimOK /\ ShimOK' /\ Moves /\ test' = test /\ script' = script
  BY ActsMove, SameTest DEF Basics, TestActs, Moves
<1>2. CASE setup \/ listen \/ dial \/ send \/ hangUp \/ drain \/ write \/ writer
  <2>1. UNCHANGED <<proc, eventVars>> /\ (shim' = shim \/ shim' \in {"absent", "up"})
    BY <1>2 DEF setup, listen, dial, send, hangUp, drain, write, writer, KeepShim, envVars
  <2>2. \E call \in {"setup", "listen", "dial", "send", "hangup", "drain", "write", "writer"} : At(call)
    BY <1>2 DEF setup, listen, dial, send, hangUp, drain, write, writer
  <2>3. script[ip].call \in {"setup", "listen", "dial", "send", "hangup", "drain", "write", "writer"}
    BY <1>1, <2>2, HereOK
  <2>4. QED
    BY <1>1, <2>1, <2>3, RecordKept
<1>3. CASE renew
  <2>1. UNCHANGED eventVars /\ shim' = shim /\ At("renew") /\ proc' = [proc EXCEPT !["exec"] = "none"]
    BY <1>3 DEF renew, envVars
  <2>2. script[ip].call = "renew" /\ proc'["init"] = proc["init"]
    BY <1>1, <2>1, HereOK DEF ShimOK, Procs
  <2>3. QED
    BY <1>1, <2>1, <2>2, RecordKept
<1>4. CASE rpc
  <2>1. PICK call, p : RpcStep(call, p)
    BY <1>1, <1>4, RpcSteps
  <2>2. /\ p \in Procs /\ call \in Calls /\ script[ip].call = call /\ script[ip].who = p /\ At(call)
    BY <2>1 DEF RpcStep
  <2>3. Protocol(test, ip) /\ Eventful(test, ip)
    BY <1>1, <2>2, HereOK
  <2>4. /\ test = "Events" => p = "init"
        /\ test = "Events" /\ call = "start" => script[ip].on = "fatal"
        /\ test = "Events" => call # "kill" /\ call # "exec"
        /\ test = "Events" /\ call = "shutdown" => Did("topic", "delete")
    BY <2>2, <2>3 DEF Eventful, Protocol, script, Did, Calls
  <2>5. CASE test # "Events"
    <3>1. UNCHANGED eventVars
      BY <2>1, <2>5 DEF RpcStep, Effect, Emits
    <3>2. QED
      BY <1>1, <2>5, <3>1, RecordKept
  <2>6. CASE test = "Events" /\ UNCHANGED <<proc, shim, eventVars>> /\ \E err \in {"gone", "error"} : OnError(err)
    <3>1. script[ip].call = "start" => outcome' = "fail"
      BY <2>2, <2>4, <2>6 DEF OnError, Leaves
    <3>2. QED
      BY <1>1, <2>2, <2>6, <3>1, RecordKept DEF Calls
  <2>7. CASE test = "Events" /\ UNCHANGED <<proc, shim, eventVars>> /\ script[ip].on = "expect"
    <3>1. script[ip].call # "start"
      BY <2>2, <2>4, <2>7
    <3>2. QED
      BY <1>1, <2>2, <2>7, <3>1, RecordKept DEF Calls
  <2>8. CASE test = "Events" /\ Legal(call, p) /\ Effect(call, p)
    <3>1. /\ proc' \in [Procs -> States]
          /\ call = "create" => proc'[p] = "created"
          /\ call = "start" => proc'[p] = "running"
          /\ call = "delete" => proc'[p] = "deleted"
          /\ call \notin {"create", "exec", "start", "kill", "delete"} => proc' = proc
          /\ shim' = IF call = "shutdown" THEN "stopping" ELSE shim
      BY <1>1, <2>2, <2>8, EffectOf
    <3>2. /\ call = "create" => proc["init"] = "none"
          /\ call = "start" => proc["init"] = "created"
          /\ call = "delete" => proc["init"] \in {"created", "stopped"}
      BY <2>4, <2>8 DEF Legal
    <3>3. CASE call \in {"create", "start", "delete"}
      <4>1. Publish(call) /\ call \in Topics
        BY <2>8, <3>3 DEF Effect, Emits, Topics
      <4>2. Published < Rank(call)
        BY <1>1, <3>2, <3>3, PublishedOf, RankOf
      <4>3. Published' = Rank(call)
        BY <2>4, <2>8, <3>1, <3>3, RankOf DEF Published
      <4>4. QED
        BY <1>1, <2>2, <2>4, <2>8, <3>1, <3>3, <4>1, <4>2, <4>3, RecordPublished
    <3>4. CASE call \notin {"create", "start", "delete"}
      <4>1. UNCHANGED eventVars /\ proc' = proc
        BY <2>2, <2>4, <2>8, <3>1, <3>4 DEF Effect, Emits, Calls
      <4>2. QED
        BY <1>1, <2>2, <2>4, <3>1, <3>4, <4>1, RecordKept DEF Calls
    <3>5. QED
      BY <3>3, <3>4
  <2>9. QED
    BY <2>1, <2>5, <2>6, <2>7, <2>8 DEF RpcStep
<1>5. QED
  BY <1>2, <1>3, <1>4 DEF TestActs

LEMMA WorldRecorded ==
    ASSUME Basics, Basics', Recorded, Unrepeated, World
    PROVE  Recorded' /\ Unrepeated'
<1>1. /\ TestOK /\ ShimOK /\ ShimOK' /\ Moves /\ test' = test /\ ip' = ip /\ outcome' = outcome
      /\ proc \in [Procs -> States] /\ Whole(test)
  BY WorldStays, RulesOf DEF testVars, Basics, TestOK, ShimOK
<1>2. test = "Events" => subject = "init" /\ program.ends = "written" /\ program.out # "conn"
  BY <1>1 DEF Whole, subject, program
<1>3. CASE ProcExits
  <2>1. CASE test # "Events"
    <3>1. UNCHANGED eventVars
      BY <1>3, <2>1 DEF ProcExits, Emits
    <3>2. QED
      BY <1>1, <2>1, <3>1, RecordKept
  <2>2. CASE test = "Events"
    <3>1. Publish("exit") /\ "exit" \in Topics /\ shim' = shim
      BY <1>3, <2>2 DEF ProcExits, Emits, Topics
    <3>2. proc["init"] = "running" /\ proc'["init"] = "stopped"
      BY <1>1, <1>2, <1>3, <2>2 DEF ProcExits, Procs
    <3>3. Published < Rank("exit")
      BY <1>1, <3>2, PublishedOf, RankOf
    <3>4. Published' = Rank("exit")
      BY <3>2, RankOf DEF Published
    <3>5. QED
      BY <1>1, <2>2, <3>1, <3>3, <3>4, RecordPublished
  <2>3. QED
    BY <2>1, <2>2
<1>4. CASE ShimExits
  <2>1. UNCHANGED eventVars /\ shim = "stopping"
    BY <1>4 DEF ShimExits, envVars
  <2>2. test = "Events" => proc'["init"] = proc["init"]
    BY <1>1, <1>2, <1>4 DEF ShimExits, Procs
  <2>3. QED
    BY <1>1, <2>1, <2>2, RecordKept
<1>5. CASE ShimForwards \/ ShimForwardsAgain \/ ShimSkews
  <2>1. UNCHANGED <<proc, shim>> /\ (Forward \/ ForwardAgain \/ Skew)
    BY <1>5 DEF ShimForwards, ShimForwardsAgain, ShimSkews, KeepShim
  <2>2. outbox \in Seq(Topics) /\ envelopes \in Seq(Topics) /\ repeats \in Nat
    BY <1>1, MaxRepeatsAssumption DEF Recorded, ShimOK
  <2>3. outbox # <<>> \/ envelopes # <<>>
    BY <2>1 DEF Forward, ForwardAgain, Skew
  <2>4. test = "Events"
    BY <2>3 DEF Recorded
  <2>5. Published' = Published /\ Published \in Nat
    <3>1. Published \in Nat
      BY <1>1, PublishedOf
    <3>2. Published' = Published
      BY <2>1 DEF Published
    <3>3. QED
      BY <3>1, <3>2
  <2>6. /\ \E x \in Topics : envelopes' = envelopes \/ envelopes' = Append(envelopes, x)
        /\ outbox' \in Seq(Topics)
    <3>1. CASE Forward
      <4>1. outbox' \in Seq(Topics) /\ outbox[1] \in Topics /\ envelopes' = Append(envelopes, outbox[1])
        BY <2>2, <3>1, Removed DEF Forward
      <4>2. QED
        BY <4>1
    <3>2. CASE ForwardAgain
      <4>1. PICK i \in 1..Len(envelopes) : envelopes' = Append(envelopes, envelopes[i])
        BY <3>2 DEF ForwardAgain
      <4>2. envelopes[i] \in Topics /\ outbox' = outbox
        BY <2>2, <3>2 DEF ForwardAgain
      <4>3. QED
        BY <2>2, <4>1, <4>2
    <3>3. CASE Skew
      <4>1. CASE outbox # <<>> /\ outbox' = Tail(outbox) /\ UNCHANGED envelopes
        BY <2>2, <4>1, Removed DEF Topics
      <4>2. CASE /\ Len(outbox) > 1 /\ envelopes' = Append(envelopes, outbox[2])
                 /\ outbox' = <<outbox[1]>> \o SubSeq(outbox, 3, Len(outbox))
        <5>1. outbox' \in Seq(Topics) /\ outbox[2] \in Topics
          BY <2>2, <4>2, Overtaken
        <5>2. QED
          BY <4>2, <5>1
      <4>3. QED
        BY <3>3, <4>1, <4>2 DEF Skew
    <3>4. QED
      BY <2>1, <3>1, <3>2, <3>3
  <2>7. envelopes' \in Seq(Topics) /\ (\A a : HasTopic(a) => HasTopic(a)') /\ (InOrder => InOrder')
    <3>1. CASE envelopes' = envelopes
      BY <2>2, <3>1 DEF HasTopic, InOrder, Subsequence, topics
    <3>2. ASSUME NEW x \in Topics, envelopes' = Append(envelopes, x)
          PROVE  envelopes' \in Seq(Topics) /\ (\A a : HasTopic(a) => HasTopic(a)') /\ (InOrder => InOrder')
      <4>1. /\ \A a : In(envelopes', a) <=> In(envelopes, a) \/ a = x
            /\ Subsequence(envelopes) => Subsequence(envelopes')
        BY <2>2, <3>2, RecordGrows
      <4>2. QED
        BY <2>2, <3>2, <4>1, Appended DEF HasTopic, In, InOrder, Subsequence, topics
    <3>3. QED
      BY <2>6, <3>1, <3>2
  <2>8. ASSUME outcome = "none"
        PROVE  /\ EventsOrdered(outbox', envelopes', Published)
               /\ repeats' = 0 => /\ repeats = 0
                                  /\ Single => Apart(outbox', envelopes')
                                               /\ (skewed' => Mislaid(outbox', envelopes', Published))
    <3>1. EventsOrdered(outbox, envelopes, Published)
      BY <2>4, <2>8 DEF Recorded, Orderly
    <3>2. CASE Forward
      <4>1. /\ outbox # <<>> /\ envelopes' = Append(envelopes, outbox[1]) /\ outbox' = Tail(outbox)
            /\ UNCHANGED <<repeats, skewed>>
        BY <2>2, <3>2, Removed DEF Forward
      <4>2. /\ EventsOrdered(outbox', envelopes', Published)
            /\ Apart(outbox, envelopes) => Apart(outbox', envelopes')
            /\ Mislaid(outbox, envelopes, Published) => Mislaid(outbox', envelopes', Published)
        <5>1. ASSUME NEW n, n = Published, NEW h, h = outbox[1]
              PROVE  /\ EventsOrdered(outbox', envelopes', n)
                     /\ Apart(outbox, envelopes) => Apart(outbox', envelopes')
                     /\ Mislaid(outbox, envelopes, n) => Mislaid(outbox', envelopes', n)
          <6>1. n \in Nat /\ EventsOrdered(outbox, envelopes, n) /\ envelopes' = Append(envelopes, h)
            BY <2>5, <3>1, <4>1, <5>1
          <6>2. QED
            BY <4>1, <5>1, <6>1, ForwardKeeps
        <5>2. QED
          BY <5>1
      <4>3. QED
        BY <4>1, <4>2 DEF Single
    <3>3. CASE ForwardAgain
      <4>1. PICK i \in 1..Len(envelopes) : envelopes' = Append(envelopes, envelopes[i])
        BY <3>3 DEF ForwardAgain
      <4>2. outbox' = outbox /\ repeats' = repeats + 1
        BY <3>3 DEF ForwardAgain
      <4>3. EventsOrdered(outbox, envelopes', Published)
        BY <2>5, <3>1, <4>1, AgainKeeps
      <4>4. repeats' # 0
        BY <2>2, <4>2
      <4>5. QED
        BY <4>2, <4>3, <4>4
    <3>4. CASE Skew
      <4>1. repeats' = repeats
        BY <3>4 DEF Skew
      <4>2. CASE outbox # <<>> /\ outbox' = Tail(outbox) /\ UNCHANGED envelopes
        <5>1. /\ EventsOrdered(outbox', envelopes, Published)
              /\ Apart(outbox, envelopes) => Apart(outbox', envelopes) /\ Mislaid(outbox', envelopes, Published)
          BY <2>5, <3>1, <4>2, LossKeeps
        <5>2. QED
          BY <4>1, <4>2, <5>1 DEF Single
      <4>3. CASE /\ Len(outbox) > 1 /\ envelopes' = Append(envelopes, outbox[2])
                 /\ outbox' = <<outbox[1]>> \o SubSeq(outbox, 3, Len(outbox))
        <5>1. /\ EventsOrdered(outbox', envelopes', Published)
              /\ Mislaid(outbox', envelopes', Published)
              /\ Apart(outbox, envelopes) => Apart(outbox', envelopes')
          <6>1. Overtakes(outbox, envelopes, outbox', envelopes')
            BY <2>2, <4>3, Overtaken DEF Overtakes
          <6>2. QED
            BY <2>5, <3>1, <6>1, OvertakingKeeps
        <5>2. QED
          BY <4>1, <5>1 DEF Single
      <4>4. QED
        BY <3>4, <4>2, <4>3 DEF Skew
    <3>5. QED
      BY <2>1, <3>2, <3>3, <3>4
  <2>9. ASSUME outcome = "none" PROVE Orderly'
    <3>1. Orderly
      BY <2>4, <2>9 DEF Recorded
    <3>2. EventsOrdered(outbox, envelopes, Published)'
      BY <2>5, <2>8, <2>9 DEF EventsOrdered
    <3>3. QED
      BY <1>1, <2>1, <2>4, <2>7, <2>9, <3>1, <3>2, OrderlyBy DEF Orderly
  <2>10. Recorded'
    BY <1>1, <2>4, <2>6, <2>7, <2>9 DEF Recorded
  <2>11. ASSUME outcome = "none", repeats' = 0 PROVE Single'
    <3>1. Single
      BY <2>4, <2>8, <2>11 DEF Unrepeated
    <3>2. Apart(outbox', envelopes') /\ (skewed' => Mislaid(outbox', envelopes', Published))
      BY <2>8, <2>11, <3>1
    <3>3. QED
      BY <2>5, <3>2 DEF Single, Apart, Mislaid, In
  <2>12. QED
    BY <1>1, <2>10, <2>11 DEF Unrepeated
<1>6. CASE ~(ProcExits \/ ShimExits \/ ShimForwards \/ ShimForwardsAgain \/ ShimSkews)
  <2>1. UNCHANGED <<shim, eventVars>>
    BY <1>6 DEF World, StdinWriter, DrainRead, DrainEOF, ProcWrites, NcConnects, NcCopiesIn,
           NcCopiesOut, NcGivesUp, Peer, PeerTimesOut, NetworkLoses, ShimCopies, ShimCloses,
           ShimDrops, KeepShim, envVars
  <2>2. test = "Events" => proc' = proc
    BY <1>2, <1>6 DEF World, StdinWriter, DrainRead, DrainEOF, ProcWrites, NcConnects, NcCopiesIn,
           NcCopiesOut, NcGivesUp, NcRuns, Peer, PeerTimesOut, NetworkLoses, ShimCopies, ShimCloses,
           ShimDrops, KeepShim
  <2>3. QED
    BY <1>1, <2>1, <2>2, RecordKept
<1>7. QED
  BY <1>3, <1>4, <1>5, <1>6
-----------------------------------------------------------------------------
(***************************************************************************)
(* The invariant as a whole, without Smooth.                               *)
(***************************************************************************)
LEMMA InitSound == ASSUME Init PROVE Sound
<1>1. Basics /\ TestOK /\ Whole(test)
  BY InitTypes, RulesOf DEF Basics, TestOK
<1>2. /\ ip = 1 /\ outcome = "none" /\ phase = "body" /\ guarded = FALSE /\ shim = "absent"
      /\ proc = [p \in Procs |-> "none"] /\ src = (IF program.out = "own" THEN Chunks ELSE 0)
      /\ toSend = 0 /\ sent = 0 /\ stdin = 0 /\ held = 0 /\ fifo = 0 /\ got = 0 /\ lost = 0
      /\ closed = FALSE /\ drained = FALSE /\ leftover = FALSE
      /\ link = "none" /\ up = 0 /\ down = 0 /\ peer = "off"
      /\ outbox = <<>> /\ envelopes = <<>> /\ repeats = 0 /\ skewed = FALSE
  BY DEF Init, NetInit, EventsInit, Procs
<1>3. 1..ip - 1 = {}
  BY <1>2
<1>4. (\A C : ~Past(C)) /\ (\A c, p : ~Did(c, p)) /\ ~Begun(test, ip)
  BY <1>3 DEF Past, Behind, Did, Done, Begun
<1>5. Place
  BY <1>2 DEF Place
<1>6. program.out \in {"own", "stdin", "conn", "nothing"} /\ subject \in Procs /\ Chunks \in Nat
  BY <1>1, SizesAssumption DEF Whole, program, subject, Procs
<1>7. OutFlow = 0
  BY <1>2 DEF OutFlow
<1>8. Accounted
  BY <1>2, <1>4, <1>6, <1>7 DEF Accounted
<1>9. proc[subject] = "none" /\ proc["init"] = "none" /\ proc["exec"] = "none"
  BY <1>2, <1>6 DEF Procs
<1>10. Silent /\ Closing
  BY <1>2, <1>7, <1>9 DEF Silent, Closing
<1>11. Checked
  BY <1>2, <1>4 DEF Checked
<1>12. Listing
  BY <1>2, <1>4, <1>9 DEF Listing
<1>13. Recorded /\ Unrepeated
  <2>1. Published = 0
    BY <1>9 DEF Published
  <2>2. Orderly
    BY <1>2, <1>4, <2>1 DEF Orderly, EventsOrdered
  <2>3. Single
    BY <1>2 DEF Single, Apart
  <2>4. QED
    BY <1>2, <2>2, <2>3 DEF Recorded, Unrepeated
<1>14. Answering
  BY <1>2 DEF Answering
<1>15. TypeOK
  BY <1>1, <1>8, <1>13, BasicIsType
<1>16. QED
  BY <1>5, <1>8, <1>10, <1>11, <1>12, <1>13, <1>14, <1>15 DEF Sound

\* The basic types, with what else is known, are the types: here and in the next state.
LEMMA TypesHere == Basics /\ Accounted /\ Recorded => TypeOK
BY BasicIsType

LEMMA NextTypes == Basics' /\ Accounted' /\ Recorded' => TypeOK'
BY TypesHere, PTL

LEMMA StepSound == Sound /\ [Next]_vars => Sound'
<1>1. SUFFICES ASSUME Sound, [Next]_vars PROVE Sound'
  OBVIOUS
<1>2. /\ TypeOK /\ Place /\ Accounted /\ Silent /\ Checked /\ Closing
      /\ Listing /\ Recorded /\ Unrepeated /\ Answering /\ Basics /\ TestOK
  BY <1>1, TypeIsBasic DEF Sound, Basics
<1>3. CASE Looks
  <2>1. Basics' /\ Place' /\ Quiet
    BY <1>2, <1>3, LooksKeepBasics
  <2>2. /\ Accounted' /\ Silent' /\ Checked' /\ Closing' /\ Listing' /\ Recorded' /\ Unrepeated' /\ Answering'
    BY <1>2, <2>1, LooksAccounted, LooksSilent, LooksChecked, LooksClosing, LooksListing,
       LooksRecorded, LooksAnswering
  <2>3. QED
    BY <2>1, <2>2, NextTypes DEF Sound
<1>4. CASE TestActs
  <2>1. Basics' /\ Place'
    BY <1>2, <1>4, ActsKeepBasics
  <2>2. /\ Accounted' /\ Silent' /\ Checked' /\ Closing' /\ Listing' /\ Recorded' /\ Unrepeated' /\ Answering'
    BY <1>2, <1>4, <2>1, ActsAccounted, ActsSilent, ActsChecked, ActsClosing, ActsListing,
       ActsRecorded, ActsAnswering
  <2>3. QED
    BY <2>1, <2>2, NextTypes DEF Sound
<1>5. CASE World
  <2>1. Basics' /\ Place'
    BY <1>2, <1>5, WorldKeepsBasics
  <2>2. /\ Accounted' /\ Silent' /\ Checked' /\ Closing' /\ Listing' /\ Recorded' /\ Unrepeated' /\ Answering'
    BY <1>2, <1>5, <2>1, WorldAccounted, WorldSilent, WorldChecked, WorldClosing, WorldListing,
       WorldRecorded, WorldAnswering
  <2>3. QED
    BY <2>1, <2>2, NextTypes DEF Sound
<1>6. CASE UNCHANGED vars
  <2>1. /\ UNCHANGED <<world, test, ip, guarded, phase, outcome, leaked, shim, proc, src, toSend, sent,
                       stdin, stdinOpen, held, fifo, got, draining, closed, drained, lost, fault, slow,
                       misread, leftover>>
        /\ UNCHANGED <<link, up, down, hungUp, peer, code, outbox, envelopes, repeats, skewed>>
    BY <1>6 DEF vars, testVars, inVars, outVars, envVars, netVars, eventVars, history
  <2>2. Quiet
    BY <2>1 DEF Quiet, Moves, Steady, KeepShim, inVars, outVars, envVars, netVars, eventVars, Grows
  <2>3. Basics'
    BY <1>2, <2>1 DEF Basics, TestOK, FlowOK, FlagsOK, HistOK, ShimOK, script
  <2>4. Place'
    BY <1>2, <2>1, <2>2, PlaceMoves DEF Quiet, TestOK
  <2>5. /\ Accounted' /\ Silent' /\ Checked' /\ Closing' /\ Listing' /\ Recorded' /\ Unrepeated' /\ Answering'
    BY <1>2, <2>2, LooksAccounted, LooksSilent, LooksChecked, LooksClosing, LooksListing,
       LooksRecorded, LooksAnswering
  <2>6. QED
    BY <2>3, <2>4, <2>5, NextTypes DEF Sound
<1>7. QED
  BY <1>1, <1>3, <1>4, <1>5, <1>6 DEF Next, Test, Looks, TestActs

LEMMA SoundAlways == Spec => []Sound
<1>1. Init => Sound
  BY InitSound
<1>2. QED
  BY <1>1, StepSound, PTL DEF Spec
-----------------------------------------------------------------------------
\* The variables of a session keep their types: the test goroutine never leaves its
\* script by more than its end, however a call fails or whichever step jumps to the
\* deferred shutdownShim, no FIFO holds more than its size, and a connection carries
\* one token at most in each direction.
THEOREM TypeCorrect == Spec => []TypeOK
<1>1. Sound => TypeOK
  BY DEF Sound
<1>2. QED
  BY <1>1, SoundAlways, PTL

\* At the end of a test that has not failed, every step is behind.
LEMMA AllBehind ==
    ASSUME TestOK, Place, phase = "ended", NEW C, Ahead(script, 1, C)
    PROVE  Past(C) /\ ip = Len(script) + 1
<1>1. ip = Len(script) + 1 /\ Len(script) \in Nat /\ ip \in 1..Len(script) + 1
  BY DEF Place, TestOK
<1>2. ~Ahead(script, ip, C)
  BY <1>1 DEF Ahead
<1>3. QED
  BY <1>1, <1>2, BehindOrAhead DEF Past

\* TruncationCaught: output that is lost, at any time, leaves less in the buffer than
\* verify or poll wants, and every script that has output looks (Accounted, Checked);
\* before the process was started there is none to lose (Silent).
THEOREM TruncationIsCaught == Spec => []TruncationCaught
<1>1. ASSUME Sound PROVE TruncationCaught
  <2>1. SUFFICES ASSUME phase = "ended", lost > 0, test \notin {"StressGuestMem", "DNSResolve"},
                        outcome # "fail"
                 PROVE  FALSE
    BY DEF TruncationCaught, SuiteFails
  <2>2. Basics /\ TestOK /\ FlowOK /\ Place /\ Accounted /\ Silent /\ Checked /\ Whole(test)
    BY <1>1, TypeIsBasic, RulesOf DEF Sound, Basics, TestOK
  <2>3. OutFlow > 0 /\ outcome = "none"
    <3>1. OutFlow > 0
      BY <2>1, <2>2 DEF OutFlow, FlowOK
    <3>2. QED
      BY <2>1, <2>2, <3>1 DEF Silent, TestOK
  <2>4. program.out \in {"own", "stdin", "conn"}
    BY <2>2, <2>3 DEF Accounted, Whole, program
  <2>5. Past({"poll", "verify"})
    <3>1. Ahead(script, 1, {"poll", "verify"})
      BY <2>1, <2>2, <2>4 DEF Whole, script, program
    <3>2. QED
      BY <2>1, <2>2, <3>1, AllBehind
  <2>6. CASE program.out = "stdin"
    BY <2>1, <2>2, <2>3, <2>5, <2>6 DEF Accounted, Checked, OutFlow, FlowOK
  <2>7. CASE program.out = "conn"
    BY <2>1, <2>2, <2>3, <2>5, <2>7 DEF Accounted, Checked, OutFlow, FlowOK
  <2>8. CASE program.out = "own" /\ ~Past({"renew"})
    BY <2>1, <2>2, <2>3, <2>5, <2>8, SizesAssumption DEF Accounted, Checked, OutFlow, FlowOK
  <2>9. CASE program.out = "own" /\ Past({"renew"})
    BY <2>1, <2>2, <2>3, <2>9 DEF Accounted, OutFlow, FlowOK
  <2>10. QED
    BY <2>4, <2>6, <2>7, <2>8, <2>9
<1>2. Sound => TruncationCaught
  BY <1>1
<1>3. QED
  BY <1>2, SoundAlways, PTL

\* Events that are all recorded, in order and once: none was mislaid.
LEMMA NoneMislaid ==
    ASSUME NEW o \in Seq(Topics), NEW e \in Seq(Topics), Subsequence(e), Apart(o, e), NEW n
    PROVE  ~Mislaid(o, e, n)
<1>1. PICK pos \in [1..Len(want) -> 1..Len(e)] :
         /\ \A i \in 1..Len(want) : e[pos[i]] = want[i]
         /\ \A i, j \in 1..Len(want) : i < j => pos[i] < pos[j]
  BY DEF Subsequence
<1>2. /\ Len(want) = 4 /\ want[1] = "create" /\ want[2] = "start" /\ want[3] = "exit" /\ want[4] = "delete"
  BY DEF want
<1>3. \A a \in Topics : Rank(a) \in 1..4 /\ want[Rank(a)] = a
  BY <1>2, RankOf DEF Topics
<1>4. \A a \in Topics : pos[Rank(a)] \in 1..Len(e) /\ e[pos[Rank(a)]] = a
  BY <1>1, <1>2, <1>3
<1>5. \A i \in 1..Len(e) : e[i] \in Topics
  OBVIOUS
<1>6. \A i \in 1..Len(e) : pos[Rank(e[i])] = i
  BY <1>4, <1>5 DEF Apart
<1>7. ASSUME NEW i \in 1..Len(e), NEW j \in 1..Len(e), i < j, Rank(e[j]) < Rank(e[i]) PROVE FALSE
  <2>1. pos[Rank(e[j])] < pos[Rank(e[i])]
    BY <1>1, <1>2, <1>3, <1>5, <1>7
  <2>2. QED
    BY <1>6, <1>7, <2>1
<1>8. ASSUME NEW i \in 1..Len(o) PROVE FALSE
  <2>1. o[i] \in Topics
    OBVIOUS
  <2>2. In(o, o[i])
    BY DEF In
  <2>3. QED
    BY <1>4, <2>1, <2>2 DEF Apart
<1>9. \A a \in Topics : In(e, a)
  BY <1>4 DEF In
<1>10. QED
  BY <1>7, <1>8, <1>9 DEF Mislaid

\* BreachCaught: an event that is lost or overtaken, and not sent again, stays mislaid
\* (Unrepeated), so that the scan for the order does not find all four, and testEvents
\* comes to that scan; a removed file that the second listing shows is in the buffer when
\* the second verify looks (Listing).
THEOREM BreachIsCaught == Spec => []BreachCaught
<1>1. ASSUME Sound PROVE BreachCaught
  <2>1. SUFFICES ASSUME phase = "ended", (skewed /\ repeats = 0) \/ (leftover /\ ~slow), outcome # "fail"
                 PROVE  FALSE
    BY DEF BreachCaught, SuiteFails
  <2>2. /\ TestOK /\ Place /\ Accounted /\ Silent /\ Listing /\ Recorded /\ Unrepeated /\ Whole(test)
        /\ \A i \in 1..Len(script) : Layered(test, i)
    BY <1>1, TypeIsBasic, RulesOf DEF Sound, Basics, TestOK
  <2>3. outcome = "none"
    BY <2>1, <2>2 DEF TestOK, Silent, Place, Recorded
  <2>4. CASE leftover /\ ~slow
    <3>1. PICK r \in 1..ip - 1 : script[r].call = "renew"
      BY <2>2, <2>4 DEF Accounted, Past, Behind
    <3>2. ip = Len(script) + 1 /\ r \in 1..Len(script) /\ Len(script) \in Nat
      BY <2>1, <2>2, <3>1 DEF Place, TestOK
    <3>3. Layers
      BY <3>1, <3>2 DEF Layers, Ahead
    <3>4. PICK v \in r..Len(script) : script[v].call = "verify" /\ Done(script, v, "pause", "none")
      BY <2>2, <3>1, <3>2, <3>3 DEF Layered, Layers, script
    <3>5. v # r /\ v \in 1..ip - 1 /\ r \in 1..v - 1
      BY <3>1, <3>2, <3>4
    <3>6. SecondLook(v)
      BY <3>1, <3>4, <3>5 DEF SecondLook, Behind
    <3>7. QED
      BY <2>2, <2>3, <2>4, <3>3, <3>5, <3>6, ListingIs
  <2>5. CASE skewed /\ repeats = 0
    <3>1. test = "Events"
      BY <2>2, <2>5 DEF Recorded
    <3>2. Orderly /\ Single
      BY <2>2, <2>3, <2>5, <3>1 DEF Recorded, Unrepeated
    <3>3. Past({"order"})
      <4>1. Ahead(script, 1, {"order"})
        BY <2>2, <3>1 DEF Whole, script
      <4>2. QED
        BY <2>1, <2>2, <4>1, AllBehind
    <3>4. Subsequence(envelopes)
      BY <3>2, <3>3 DEF Orderly, InOrder, topics
    <3>5. outbox \in Seq(Topics) /\ envelopes \in Seq(Topics)
      BY <2>2 DEF Recorded
    <3>6. ~Mislaid(outbox, envelopes, Published)
      BY <3>2, <3>4, <3>5, NoneMislaid DEF Single
    <3>7. QED
      BY <2>5, <3>2, <3>6 DEF Single
  <2>6. QED
    BY <2>1, <2>4, <2>5
<1>2. Sound => BreachCaught
  BY <1>1
<1>3. QED
  BY <1>2, SoundAlways, PTL
-----------------------------------------------------------------------------
(***************************************************************************)
(* Smooth: a session in which nothing went wrong.                          *)
(***************************************************************************)
LEMMA PublishForwarded ==
    ASSUME NEW o, NEW e, NEW n \in Nat, Forwarded(o, e, n), NEW topic \in Topics,
           NEW m, m = n + 1, Rank(topic) = m, NEW o2, o2 = Append(o, topic)
    PROVE  Forwarded(o2, e, m)
<1>1. o \in Seq(Topics) /\ e \in Seq(Topics) /\ Len(o) <= n
  BY DEF Forwarded
<1>2. /\ o2 \in Seq(Topics) /\ Len(o2) = Len(o) + 1 /\ Len(o) \in Nat
      /\ \A i \in 1..Len(o) : o2[i] = o[i]
      /\ o2[Len(o) + 1] = topic
  BY <1>1, Appended
<1>3. m - Len(o2) = n - Len(o) /\ Len(o2) <= m /\ m \in Nat
  BY <1>1, <1>2
<1>4. ASSUME NEW i \in 1..Len(o2) PROVE Rank(o2[i]) = m - Len(o2) + i
  <2>1. CASE i \in 1..Len(o)
    BY <1>2, <1>3, <2>1 DEF Forwarded
  <2>2. CASE i = Len(o) + 1
    BY <1>2, <1>3, <2>2
  <2>3. QED
    BY <1>2, <2>1, <2>2
<1>5. QED
  BY <1>1, <1>2, <1>3, <1>4 DEF Forwarded

LEMMA ForwardForwarded ==
    ASSUME NEW o, NEW e, NEW n \in Nat, Forwarded(o, e, n), o # <<>>, NEW h, h = o[1],
           NEW o2, NEW e2, e2 = Append(e, h), o2 = Tail(o)
    PROVE  Forwarded(o2, e2, n)
<1>1. o \in Seq(Topics) /\ e \in Seq(Topics) /\ Len(o) <= n
  BY DEF Forwarded
<1>2. /\ o2 \in Seq(Topics) /\ Len(o2) = Len(o) - 1 /\ Len(o) \in Nat /\ Len(o) > 0
      /\ \A i \in 1..Len(o) - 1 : o2[i] = o[i + 1]
      /\ h \in Topics /\ 1 \in 1..Len(o)
  BY <1>1, Removed
<1>3. /\ e2 \in Seq(Topics) /\ Len(e2) = Len(e) + 1 /\ Len(e) \in Nat
      /\ \A i \in 1..Len(e) : e2[i] = e[i] /\ e[i] \in Topics
      /\ e2[Len(e) + 1] = h
  BY <1>1, <1>2, Appended
<1>4. PICK k \in Nat : k = n - Len(o)
  <2>1. n - Len(o) \in Nat
    BY <1>1, <1>2
  <2>2. QED
    BY <2>1, Zenon
<1>5. n - Len(o2) = k + 1 /\ Len(o2) <= n
  BY <1>1, <1>2, <1>4
<1>6. Rank(h) = k + 1
  BY <1>2, <1>4 DEF Forwarded
<1>7. ASSUME NEW i \in 1..Len(o2) PROVE Rank(o2[i]) = (k + 1) + i
  <2>1. i \in 1..Len(o) - 1 /\ i + 1 \in 1..Len(o)
    BY <1>2
  <2>2. o2[i] = o[i + 1] /\ Rank(o[i + 1]) = k + (i + 1)
    BY <1>2, <1>4, <2>1 DEF Forwarded
  <2>3. QED
    BY <2>2
<1>8. 1..Len(e2) = (1..Len(e)) \cup {Len(e) + 1}
  BY <1>3
<1>9. ASSUME NEW i \in 1..Len(e2) PROVE Rank(e2[i]) <= k + 1
  <2>1. CASE i \in 1..Len(e)
    <3>1. Rank(e[i]) <= k /\ Rank(e[i]) \in Nat /\ e2[i] = e[i]
      BY <1>3, <1>4, <2>1, RankOf DEF Forwarded
    <3>2. QED
      BY <3>1
  <2>2. CASE i = Len(e) + 1
    BY <1>3, <1>6, <2>2
  <2>3. QED
    BY <1>8, <2>1, <2>2
<1>10. PICK pos \in [1..k -> 1..Len(e)] :
          /\ \A i \in 1..k : Rank(e[pos[i]]) = i
          /\ \A i, j \in 1..k : i < j => pos[i] < pos[j]
  BY <1>4 DEF Forwarded
<1>11. \E q \in [1..k + 1 -> 1..Len(e2)] :
          /\ \A i \in 1..k + 1 : Rank(e2[q[i]]) = i
          /\ \A i, j \in 1..k + 1 : i < j => q[i] < q[j]
  <2> DEFINE q == [i \in 1..k + 1 |-> IF i = k + 1 THEN Len(e) + 1 ELSE pos[i]]
  <2>1. 1..k + 1 = (1..k) \cup {k + 1} /\ ~(k + 1 \in 1..k)
    OBVIOUS
  <2>2. (\A i \in 1..k : q[i] = pos[i] /\ pos[i] \in 1..Len(e)) /\ q[k + 1] = Len(e) + 1
    BY <1>10, <2>1
  <2>3. q \in [1..k + 1 -> 1..Len(e2)]
    BY <1>8, <2>1, <2>2
  <2>4. \A i \in 1..k + 1 : Rank(e2[q[i]]) = i
    <3>1. \A i \in 1..k : Rank(e2[q[i]]) = i
      BY <1>3, <1>10, <2>2
    <3>2. Rank(e2[q[k + 1]]) = k + 1
      BY <1>3, <1>6, <2>2
    <3>3. QED
      BY <2>1, <3>1, <3>2
  <2>5. ASSUME NEW i \in 1..k + 1, NEW j \in 1..k + 1, i < j PROVE q[i] < q[j]
    <3>1. i \in 1..k
      BY <2>5
    <3>2. CASE j \in 1..k
      BY <1>10, <2>2, <2>5, <3>1, <3>2
    <3>3. CASE j = k + 1
      BY <1>3, <2>2, <3>1, <3>3
    <3>4. QED
      BY <2>1, <3>2, <3>3
  <2>6. QED
    BY <2>3, <2>4, <2>5
<1>12. QED
  BY <1>2, <1>3, <1>5, <1>7, <1>9, <1>11 DEF Forwarded

LEMMA AgainForwarded ==
    ASSUME NEW o, NEW e, NEW n \in Nat, Forwarded(o, e, n), NEW x \in 1..Len(e),
           NEW h, h = e[x], NEW e2, e2 = Append(e, h)
    PROVE  Forwarded(o, e2, n)
<1>1. o \in Seq(Topics) /\ e \in Seq(Topics) /\ Len(o) <= n /\ h \in Topics /\ Rank(h) <= n - Len(o)
  BY DEF Forwarded
<1>2. /\ e2 \in Seq(Topics) /\ Len(e2) = Len(e) + 1 /\ Len(e) \in Nat
      /\ \A i \in 1..Len(e) : e2[i] = e[i]
      /\ e2[Len(e) + 1] = h
  BY <1>1, Appended
<1>3. 1..Len(e2) = (1..Len(e)) \cup {Len(e) + 1}
  BY <1>2
<1>4. \A i \in 1..Len(e2) : Rank(e2[i]) <= n - Len(o)
  BY <1>1, <1>2, <1>3 DEF Forwarded
<1>5. PICK k \in Nat : k = n - Len(o)
  <2>1. Len(o) \in Nat
    BY <1>1
  <2>2. n - Len(o) \in Nat
    BY <1>1, <2>1
  <2>3. QED
    BY <2>2, Zenon
<1>6. PICK pos \in [1..k -> 1..Len(e)] :
         /\ \A i \in 1..k : Rank(e[pos[i]]) = i
         /\ \A i, j \in 1..k : i < j => pos[i] < pos[j]
  BY <1>5 DEF Forwarded
<1>7. pos \in [1..k -> 1..Len(e2)]
  BY <1>3
<1>8. \A i \in 1..k : Rank(e2[pos[i]]) = i
  BY <1>2, <1>6
<1>9. QED
  BY <1>1, <1>2, <1>4, <1>5, <1>6, <1>7, <1>8 DEF Forwarded

\* When the last event is recorded, all are, in order.
LEMMA AllForwarded ==
    ASSUME NEW o, NEW e, NEW n \in 0..4, Forwarded(o, e, n), NEW x \in 1..Len(e), e[x] = "delete"
    PROVE  Subsequence(e)
<1>1. o \in Seq(Topics) /\ e \in Seq(Topics) /\ Rank(e[x]) <= n - Len(o) /\ Len(o) \in Nat
  BY DEF Forwarded
<1>2. n - Len(o) = 4
  BY <1>1, RankOf
<1>3. PICK pos \in [1..4 -> 1..Len(e)] :
         /\ \A i \in 1..4 : Rank(e[pos[i]]) = i
         /\ \A i, j \in 1..4 : i < j => pos[i] < pos[j]
  BY <1>2 DEF Forwarded
<1>4. /\ Len(want) = 4 /\ want[1] = "create" /\ want[2] = "start" /\ want[3] = "exit" /\ want[4] = "delete"
  BY DEF want
<1>5. ASSUME NEW i \in 1..4 PROVE e[pos[i]] = want[i]
  <2>1. e[pos[i]] \in Topics /\ want[i] \in Topics /\ Rank(want[i]) = i
    <3>1. e[pos[i]] \in Topics
      BY <1>1, <1>3
    <3>2. i = 1 \/ i = 2 \/ i = 3 \/ i = 4
      OBVIOUS
    <3>3. QED
      BY <1>4, <3>1, <3>2, RankOf DEF Topics
  <2>2. QED
    BY <1>3, <2>1, RankOf
<1>6. QED
  BY <1>3, <1>4, <1>5 DEF Subsequence
\* What went wrong stays wrong.
LEMMA CleanBefore == ASSUME TestOK, Place, Moves, Grows, Clean' PROVE Clean /\ outcome' # "skip"
<1>1. outcome = "skip" => outcome' = "skip"
  BY DEF Place, Moves, Steady, Onward, Jump, TestOK
<1>2. QED
  BY <1>1 DEF Clean, Grows

\* A step that is no call.
LEMMA NoCall ==
    ASSUME TestOK, test' = test,
           ip' = ip \/ (ip' = ip + 1 /\ ip <= Len(script) /\ script[ip].call \notin Calls \cup {"renew"})
    PROVE  /\ \A c \in Calls : \A p : Did(c, p)' <=> Did(c, p)
           /\ \A p \in Procs : Made(script, ip, p)' <=> Made(script, ip, p)
           /\ Past({"closeIO"})' <=> Past({"closeIO"})
           /\ Past({"renew"})' <=> Past({"renew"})
<1>1. ASSUME NEW c \in Calls, NEW p PROVE Did(c, p)' <=> Did(c, p)
  <2>1. CASE ip' = ip
    BY <2>1, Stands
  <2>2. CASE ip' = ip + 1 /\ ip <= Len(script) /\ script[ip].call \notin Calls \cup {"renew"}
    <3>1. c # "renew" /\ script[ip].call # c /\ script[ip].call # "renew"
      BY <2>2 DEF Calls
    <3>2. QED
      BY <2>2, <3>1, StepsOn
  <2>3. QED
    BY <2>1, <2>2
<1>2. ASSUME NEW p \in Procs PROVE Made(script, ip, p)' <=> Made(script, ip, p)
  <2>1. Made(script, ip, p) <=> Did(IF p = "init" THEN "create" ELSE "exec", p)
    BY DEF Made, Did
  <2>2. Made(script, ip, p)' <=> Did(IF p = "init" THEN "create" ELSE "exec", p)'
    BY DEF Made, Did
  <2>3. (IF p = "init" THEN "create" ELSE "exec") \in Calls
    BY DEF Calls
  <2>4. QED
    BY <1>1, <2>1, <2>2, <2>3
<1>3. (Past({"closeIO"})' <=> Past({"closeIO"})) /\ (Past({"renew"})' <=> Past({"renew"}))
  <2>1. CASE ip' = ip
    BY <2>1, Stands
  <2>2. CASE ip' = ip + 1 /\ ip <= Len(script) /\ script[ip].call \notin Calls \cup {"renew"}
    <3>1. script[ip].call \notin {"closeIO"} /\ script[ip].call \notin {"renew"}
      BY <2>2 DEF Calls
    <3>2. QED
      BY <2>2, <3>1, StepsOn
  <2>3. QED
    BY <2>1, <2>2
<1>4. QED
  BY <1>1, <1>2, <1>3

LEMMA ProcKept ==
    ASSUME NEW p \in Procs, ProcAt(p), test' = test, proc'[p] = proc[p], stdinOpen' => stdinOpen,
           \A c \in Calls : \A q : Did(c, q)' <=> Did(c, q),
           Made(script, ip, p)' <=> Made(script, ip, p)
    PROVE  ProcAt(p)'
<1>1. program' = program /\ subject' = subject
  BY SameTest
<1>2. Lives(p)' => Lives(p)
  BY <1>1 DEF Lives
<1>3. /\ Did("start", p)' <=> Did("start", p)
      /\ Did("delete", p)' <=> Did("delete", p)
      /\ Did("kill", p)' <=> Did("kill", p)
      /\ Did("wait", p)' <=> Did("wait", p)
      /\ Did("shutdown", "init")' <=> Did("shutdown", "init")
  BY DEF Calls
<1>4. QED
  BY <1>1, <1>2, <1>3 DEF ProcAt

LEMMA ProcsKept ==
    ASSUME Basics, test' = test, \A p \in {"init", "exec"} : ProcAt(p), proc' = proc, stdinOpen' => stdinOpen,
           ip' = ip \/ (ip' = ip + 1 /\ ip <= Len(script) /\ script[ip].call \notin Calls \cup {"renew"})
    PROVE  (\A p \in {"init", "exec"} : ProcAt(p))'
<1>1. ASSUME NEW p \in Procs PROVE ProcAt(p)'
  BY <1>1, NoCall, ProcKept DEF Basics, Procs
<1>2. QED
  BY <1>1 DEF Procs

LEMMA CalmKept ==
    ASSUME TestOK, Calm, test' = test, outcome' = "none", UNCHANGED <<skewed, leftover, lost, code, shim, stdinOpen>>,
           peer' # "fail", ~misread', ~leaked',
           ip' = ip \/ (ip' = ip + 1 /\ ip <= Len(script) /\ script[ip].call \notin Calls \cup {"renew", "setup"})
    PROVE  Calm'
<1>1. Past({"setup"})' <=> Past({"setup"})
  <2>1. CASE ip' = ip
    BY <2>1, Stands
  <2>2. CASE ip' = ip + 1 /\ ip <= Len(script) /\ script[ip].call \notin Calls \cup {"renew", "setup"}
    <3>1. script[ip].call \notin {"setup"}
      BY <2>2
    <3>2. QED
      BY <2>2, <3>1, StepsOn
  <2>3. QED
    BY <2>1, <2>2
<1>2. (Did("shutdown", "init")' <=> Did("shutdown", "init")) /\ (Past({"closeIO"})' <=> Past({"closeIO"}))
  <2>1. "shutdown" \in Calls
    BY DEF Calls
  <2>2. QED
    BY <2>1, NoCall
<1>3. QED
  BY <1>1, <1>2 DEF Calm
\* What a step that looks at the output finds.
LEMMA LooksFind ==
    ASSUME Basics, Accounted, Calm, Arrived, NEW call, At(call)
    PROVE  /\ call = "verify" => got = Want
           /\ call = "some" => got > 0
           /\ call = "reading" => ~(0 < got /\ got < Want)
<1>1. /\ TestOK /\ FlowOK /\ ip \in 1..Len(script) /\ script[ip].call = call
      /\ Traffic(test, ip) /\ Whole(test) /\ outcome = "none" /\ ~leftover /\ lost = 0
  BY HereOK DEF Basics, Calm
<1>2. /\ Want \in Nat
      /\ program.out = "stdin" => Want = sent
      /\ program.out = "conn" => Want = 1
      /\ program.out \notin {"stdin", "conn"} /\ ~Past({"renew"}) => Want = Chunks
      /\ program.out = "own" /\ Past({"renew"}) /\ test = "HundredLayers" => Want = 0
  BY WantOf
<1>3. ASSUME call = "verify" PROVE got = Want
  <2>1. /\ program.out # "nothing" /\ Past(Sees)
        /\ program.out = "conn" => Outbound(script) /\ Past({"stdoutDone"})
    BY <1>1, <1>3 DEF Traffic, program, script, Past
  <2>2. CASE program.out = "stdin"
    BY <1>1, <1>2, <2>1, <2>2 DEF Arrived, Accounted, OutFlow, FlowOK
  <2>3. CASE program.out = "conn"
    BY <1>1, <1>2, <2>1, <2>3 DEF Arrived, Accounted, OutFlow, FlowOK
  <2>4. CASE program.out = "own" /\ ~Past({"renew"})
    <3>1. got >= Chunks /\ src + OutFlow = Chunks /\ Chunks \in Nat
      BY <1>1, <2>1, <2>4, SizesAssumption DEF Arrived, Accounted
    <3>2. QED
      BY <1>1, <1>2, <2>4, <3>1 DEF OutFlow, FlowOK
  <2>5. CASE program.out = "own" /\ Past({"renew"})
    <3>1. Layers
      <4>1. PICK r \in 1..ip - 1 : script[r].call = "renew"
        BY <2>5 DEF Past, Behind
      <4>2. r \in 1..Len(script)
        BY <1>1, <4>1 DEF TestOK
      <4>3. QED
        BY <4>1, <4>2 DEF Layers, Ahead
    <3>2. test = "HundredLayers"
      BY <1>1, <3>1, LayersOf
    <3>3. src + OutFlow = 0
      BY <1>1, <2>5 DEF Accounted
    <3>4. QED
      BY <1>1, <1>2, <2>5, <3>2, <3>3 DEF OutFlow, FlowOK
  <2>6. QED
    BY <1>1, <2>1, <2>2, <2>3, <2>4, <2>5 DEF Whole, program
<1>4. ASSUME call \in {"some", "reading"} PROVE got >= Chunks /\ Want = Chunks /\ Chunks \in Nat \ {0}
  <2>1. program.out = "own" /\ Past(Sees) /\ ~Ahead(script, 1, {"renew"})
    BY <1>1, <1>4 DEF Traffic, program, script, Past
  <2>2. ~Past({"renew"})
    BY <1>1, <2>1, BehindOrAhead DEF TestOK, Past
  <2>3. QED
    BY <1>2, <2>1, <2>2, SizesAssumption DEF Arrived
<1>5. QED
  BY <1>1, <1>3, <1>4 DEF FlowOK

\* When the shim is looked for, the test has shut it down.
LEMMA ShutDown ==
    ASSUME TestOK, Place, phase # "body"
    PROVE  Did("shutdown", "init") /\ Past({"setup"})
<1>1. ip = Len(script) + 1 /\ Len(script) \in Nat /\ Whole(test)
  BY RulesOf DEF Place, TestOK
<1>2. PICK j \in 1..Len(script) : script[j].call = "shutdown"
  BY <1>1 DEF Whole, Ahead, script
<1>3. Protocol(test, j)
  BY <1>1, <1>2, RulesOf DEF TestOK
<1>4. script[j].who = "init" /\ Behind(script, j, {"setup"})
  BY <1>2, <1>3 DEF Protocol, script, Calls
<1>5. j \in 1..ip - 1
  BY <1>1
<1>6. Did("shutdown", "init")
  BY <1>2, <1>4, <1>5 DEF Did, Done
<1>7. PICK k \in 1..j - 1 : script[k].call = "setup"
  BY <1>4 DEF Behind
<1>8. k \in 1..ip - 1
  BY <1>1, <1>2, <1>7
<1>9. QED
  BY <1>6, <1>7, <1>8 DEF Past, Behind

\* No look makes the test fail.
LEMMA LooksPass ==
    ASSUME Sound, Fine, Clean, Looks, Clean'
    PROVE  /\ outcome' = "none" /\ ~misread' /\ ~leaked'
           /\ ip' = ip \/ (ip' = ip + 1 /\ ip <= Len(script))
<1>1. /\ Basics /\ TestOK /\ Place /\ Accounted /\ Recorded /\ Calm /\ Arrived /\ InStep
      /\ outcome = "none" /\ misread = FALSE /\ leaked = FALSE
      /\ fault' = FALSE /\ slow' = FALSE /\ outcome' # "skip"
  <2>1. Basics /\ TestOK /\ Place /\ Accounted /\ Recorded /\ Calm /\ Arrived /\ InStep
    BY TypeIsBasic DEF Sound, Fine, Basics
  <2>2. misread \in BOOLEAN /\ leaked \in BOOLEAN /\ ~misread /\ ~leaked
    BY <2>1 DEF Basics, HistOK, TestOK, Calm
  <2>3. Basics'
    BY LooksKeepBasics DEF Sound
  <2>4. fault' \in BOOLEAN /\ slow' \in BOOLEAN /\ ~fault' /\ ~slow'
    BY <2>3 DEF Basics, HistOK, Clean
  <2>5. QED
    BY <2>1, <2>2, <2>4 DEF Calm, Clean
<1>2. ASSUME NEW call, At(call), Goes, UNCHANGED <<misread, leaked>>
      PROVE  /\ outcome' = "none" /\ ~misread' /\ ~leaked'
             /\ ip' = ip \/ (ip' = ip + 1 /\ ip <= Len(script))
  BY <1>1, <1>2, HereOK DEF Goes
<1>3. ASSUME NEW call, At(call), NEW cond, Timed(cond)
      PROVE  /\ outcome' = "none" /\ ~misread' /\ ~leaked'
             /\ ip' = ip \/ (ip' = ip + 1 /\ ip <= Len(script))
  BY <1>1, <1>2, <1>3 DEF Timed, KeepTest
<1> USE DEF Local, KeepTest, history
<1>4. CASE poll
  BY <1>3, <1>4 DEF poll
<1>5. CASE drainDone
  BY <1>3, <1>5 DEF drainDone
<1>6. CASE writeDone
  BY <1>3, <1>6 DEF writeDone
<1>7. CASE waitForTopic
  BY <1>3, <1>7 DEF waitForTopic
<1>8. CASE waitForListeningPort
  BY <1>3, <1>8 DEF waitForListeningPort
<1>9. CASE accept
  BY <1>3, <1>9 DEF accept
<1>10. CASE elapsed
  BY <1>3, <1>10 DEF elapsed
<1>11. CASE pause
  BY <1>2, <1>11 DEF pause
<1>12. CASE verify
  BY <1>1, <1>2, <1>12, LooksFind DEF verify
<1>13. CASE some
  BY <1>1, <1>2, <1>13, LooksFind DEF some
<1>14. CASE capped
  BY <1>2, <1>14 DEF capped
<1>15. CASE readGuestMem
  <2>1. /\ At("reading") /\ Goes /\ misread' = (0 < got /\ got < Want) /\ leaked' = leaked
    BY <1>15 DEF readGuestMem
  <2>2. ~(0 < got /\ got < Want)
    BY <1>1, <2>1, LooksFind
  <2>3. misread' = FALSE
    BY <2>1, <2>2, Zenon
  <2>4. QED
    BY <1>1, <1>2, <2>1, <2>3
<1>16. CASE order
  <2>1. At("order") /\ Eventful(test, ip) /\ script[ip].call = "order"
    BY <1>1, <1>16, HereOK DEF order
  <2>2. test = "Events" /\ Did("topic", "delete")
    BY <2>1 DEF Eventful, Did, script
  <2>3. PICK x \in 1..Len(envelopes) : envelopes[x] = "delete"
    BY <1>1, <2>2 DEF Recorded, Orderly, HasTopic
  <2>4. Published \in 0..4 /\ Forwarded(outbox, envelopes, Published)
    BY <1>1, <2>2, PublishedOf DEF InStep, Basics
  <2>5. InOrder
    BY <2>3, <2>4, AllForwarded DEF InOrder, topics
  <2>6. QED
    BY <1>2, <1>16, <2>5 DEF order
<1>17. CASE envelope
  BY <1>1, <1>2, <1>17 DEF envelope
<1>18. CASE stdoutDone
  BY <1>2, <1>18 DEF stdoutDone
<1>19. CASE status
  BY <1>1, <1>2, <1>19 DEF status, Calm
<1>20. CASE peerDone
  BY <1>1, <1>3, <1>20 DEF peerDone, Calm
<1>21. CASE attachContainerNetwork
  BY <1>1, <1>2, <1>21 DEF attachContainerNetwork, Leaves
<1>22. CASE AddInboundForward
  BY <1>1, <1>2, <1>22 DEF AddInboundForward
<1>23. CASE format
  BY <1>1, <1>2, <1>23 DEF format, Leaves
<1>24. CASE probe
  BY <1>1, <1>2, <1>24 DEF probe, Leaves
<1>25. CASE transfer
  BY <1>1, <1>2, <1>25 DEF transfer
<1>26. CASE guard
  BY <1>2, <1>26 DEF guard
<1>27. CASE BodyEnds
  BY <1>1, <1>27 DEF BodyEnds
<1>28. CASE registerShimLeakCheck
  <2>1. /\ phase = "leak" /\ leaked' = (shim \in {"up", "stopping"})
        /\ slow' = (slow \/ shim = "stopping") /\ UNCHANGED <<ip, outcome, misread>>
    BY <1>28 DEF registerShimLeakCheck
  <2>2. shim \in {"stopping", "down"}
    BY <1>1, <2>1, ShutDown DEF Calm
  <2>3. shim # "stopping"
    BY <1>1, <2>1
  <2>4. ~(shim \in {"up", "stopping"})
    BY <2>2, <2>3
  <2>5. ~leaked'
    BY <2>1, <2>4, Zenon
  <2>6. QED
    BY <1>1, <2>1, <2>5
<1>29. QED
  BY <1>4, <1>5, <1>6, <1>7, <1>8, <1>9, <1>10, <1>11, <1>12, <1>13, <1>14, <1>15, <1>16, <1>17, <1>18,
     <1>19, <1>20, <1>21, <1>22, <1>23, <1>24, <1>25, <1>26, <1>27, <1>28 DEF Looks, Waits
\* The steps behind which all output has arrived.
LEMMA LookedAll ==
    ASSUME Basics, Accounted, Checked, Closing, Calm, Finished, ip \in 1..Len(script),
           script[ip].call \in Sees, Knows(script[ip].call), ~slow'
    PROVE  /\ program.out = "own" /\ ~Past({"renew"}) => got >= Chunks
           /\ program.out = "stdin" => got >= sent /\ toSend = 0
           /\ program.out = "conn" /\ Outbound(script) /\ script[ip].call = "stdoutDone" => got >= 1
<1>1. /\ TestOK /\ FlowOK /\ Traffic(test, ip) /\ Whole(test) /\ outcome = "none" /\ lost = 0 /\ ~leftover
  BY RulesOf DEF Basics, TestOK, Calm
<1>2. CASE script[ip].call \in {"poll", "pause"}
  <2>1. got >= Want
    BY <1>2 DEF Knows
  <2>2. ~Past({"writer"})
    BY <1>2, <1>1 DEF Traffic, script, Past
  <2>3. toSend = 0
    BY <2>2 DEF Checked
  <2>4. QED
    BY <1>2, <2>1, <2>3, WantOf
<1>3. CASE script[ip].call \in {"drainDone", "stdoutDone", "capped"}
  <2>1. drained
    BY <1>3 DEF Knows
  <2>2. proc[subject] \in {"stopped", "deleted"} /\ held = 0 /\ fifo = 0
    BY <2>1 DEF Closing
  <2>3. program.ends \in {"written", "eof", "stream", "heard"} /\ ~Did("kill", subject)
    BY <1>1, <1>3 DEF Traffic, script, program, subject, Did
  <2>4. CASE program.out = "own"
    <3>1. src = 0
      BY <1>1, <2>2, <2>3, <2>4 DEF Finished, Whole, program
    <3>2. ~Past({"renew"}) => src + OutFlow = Chunks
      BY <1>1, <2>4 DEF Accounted
    <3>3. QED
      BY <1>1, <2>2, <2>4, <3>1, <3>2, SizesAssumption DEF OutFlow, FlowOK
  <2>5. CASE program.out = "stdin"
    <3>1. stdin = 0 /\ toSend = 0
      BY <1>1, <2>2, <2>3, <2>5 DEF Finished, Whole, program
    <3>2. stdin + OutFlow = sent
      BY <2>5 DEF Accounted
    <3>3. QED
      BY <1>1, <2>2, <2>5, <3>1, <3>2 DEF OutFlow, FlowOK
  <2>6. CASE program.out = "conn"
    <3>1. Outbound(script) => held + fifo + got = 1
      BY <2>2, <2>3, <2>6 DEF Finished
    <3>2. QED
      BY <1>1, <2>2, <2>6, <3>1 DEF FlowOK
  <2>7. QED
    BY <2>4, <2>5, <2>6
<1>4. QED
  BY <1>2, <1>3 DEF Sees

LEMMA QuietFine ==
    ASSUME Sound, Fine, Clean, Clean', Quiet, outcome' = "none", ~misread', ~leaked',
           ip' = ip \/ (ip' = ip + 1 /\ ip <= Len(script))
    PROVE  Fine'
<1>1. /\ Basics /\ TestOK /\ Accounted /\ Checked /\ Closing /\ Answering
      /\ Calm /\ (\A p \in {"init", "exec"} : ProcAt(p)) /\ Finished /\ Arrived /\ Echoed /\ InStep
  BY TypeIsBasic DEF Sound, Fine, Basics
<1>2. /\ test' = test /\ script' = script /\ program' = program /\ subject' = subject /\ subject \in Procs
      /\ UNCHANGED <<shim, proc, src, toSend, sent, stdin, stdinOpen, held, fifo, got, draining, closed,
                     drained, lost, link, up, down, hungUp, peer, code, outbox, envelopes, repeats,
                     skewed, leftover>>
  BY <1>1, SameTest, SubjectOf DEF Quiet, Moves, KeepShim, inVars, outVars, envVars, netVars, eventVars
<1>3. /\ ip' # ip => /\ script[ip].call \notin Calls \cup Acts /\ Knows(script[ip].call)
                     /\ ip \in 1..Len(script)
      /\ ip' = ip \/ (ip' = ip + 1 /\ ip <= Len(script) /\ script[ip].call \notin Calls \cup Acts)
  BY <1>1 DEF Quiet, TestOK
<1>4. Acts \cap {"renew", "setup", "listen"} = {"renew", "setup", "listen"}
  BY DEF Acts
<1>5. Calm'
  BY <1>1, <1>2, <1>3, <1>4, CalmKept DEF Calm
<1>6. (\A p \in {"init", "exec"} : ProcAt(p))'
  BY <1>1, <1>2, <1>3, <1>4, ProcsKept
<1>7. Did("kill", subject)' <=> Did("kill", subject)
  BY <1>1, <1>2, <1>3, <1>4, NoCall DEF Calls
<1>8. Finished'
  BY <1>1, <1>2, <1>7 DEF Finished
<1>9. Past({"renew"})' <=> Past({"renew"})
  BY <1>1, <1>2, <1>3, <1>4, NoCall
<1>10. CASE ip' = ip
  <2>1. \A C : Past(C)' <=> Past(C)
    BY <1>2, <1>10, Stands
  <2>2. Arrived' /\ Echoed'
    BY <1>1, <1>2, <2>1 DEF Arrived, Echoed
  <2>3. InStep'
    BY <1>1, <1>2 DEF InStep, Published
  <2>4. QED
    BY <1>5, <1>6, <1>8, <2>2, <2>3 DEF Fine
<1>11. CASE ip' # ip
  <2>1. \A C : Past(C)' <=> Past(C) \/ script[ip].call \in C
    BY <1>1, <1>2, <1>3, <1>11, StepsOn
  <2>2. Past({"listen"})' <=> Past({"listen"})
    BY <1>3, <1>4, <1>11, <2>1
  <2>3. Echoed'
    BY <1>1, <1>2, <2>2 DEF Echoed
  <2>4. ~slow'
    BY DEF Clean
  <2>5. Arrived'
    <3>1. CASE script[ip].call \in Sees
      <4>1. /\ program.out = "own" /\ ~Past({"renew"}) => got >= Chunks
            /\ program.out = "stdin" => got >= sent /\ toSend = 0
            /\ program.out = "conn" /\ Outbound(script) /\ script[ip].call = "stdoutDone" => got >= 1
        BY <1>1, <1>3, <1>11, <2>4, <3>1, LookedAll
      <4>2. QED
        BY <1>1, <1>2, <1>9, <2>1, <4>1 DEF Arrived
    <3>2. CASE script[ip].call \notin Sees
      <4>1. (Past(Sees)' <=> Past(Sees)) /\ (Past({"stdoutDone"})' <=> Past({"stdoutDone"}))
        BY <2>1, <3>2 DEF Sees
      <4>2. QED
        BY <1>1, <1>2, <1>9, <4>1 DEF Arrived
    <3>3. QED
      BY <3>1, <3>2
  <2>6. InStep'
    BY <1>1, <1>2 DEF InStep, Published
  <2>7. QED
    BY <1>5, <1>6, <1>8, <2>3, <2>5, <2>6 DEF Fine
<1>12. QED
  BY <1>10, <1>11

LEMMA LooksSmooth == ASSUME Sound, Smooth, Looks PROVE Smooth'
<1>1. SUFFICES ASSUME Clean' PROVE Fine'
  BY DEF Smooth
<1>2. TypeOK /\ TestOK /\ Place /\ Quiet
  BY TypeIsBasic, LooksKeepBasics DEF Sound, Basics
<1>3. Clean /\ Fine
  BY <1>1, <1>2, CleanBefore DEF Quiet, Smooth
<1>4. QED
  BY <1>1, <1>2, <1>3, LooksPass, QuietFine

\* Nor does it matter when nothing happens.
LEMMA StutterSmooth ==
    ASSUME Sound, Smooth, Quiet, UNCHANGED <<ip, outcome, misread, leaked>>
    PROVE  Smooth'
<1>1. SUFFICES ASSUME Clean' PROVE Fine'
  BY DEF Smooth
<1>2. TypeOK /\ TestOK /\ Place
  BY TypeIsBasic DEF Sound, Basics
<1>3. Clean /\ Fine
  BY <1>1, <1>2, CleanBefore DEF Quiet, Smooth
<1>4. outcome' = "none" /\ ~misread' /\ ~leaked'
  BY <1>3 DEF Fine, Calm
<1>5. QED
  BY <1>1, <1>3, <1>4, QuietFine
\* The steps of the world in which nothing goes wrong.
Fair == StdinWriter \/ DrainRead \/ DrainEOF \/ ProcWrites \/ ProcExits \/ NcConnects \/ NcCopiesIn
        \/ NcCopiesOut \/ Peer \/ ShimCopies \/ ShimCloses \/ ShimExits \/ ShimForwards
        \/ ShimForwardsAgain

LEMMA WorldIsFair == ASSUME World, Clean' PROVE Fair
<1>1. ~fault' /\ ~slow'
  BY DEF Clean
<1>2. ~(NcGivesUp \/ PeerTimesOut \/ NetworkLoses \/ ShimDrops \/ ShimSkews)
  BY <1>1 DEF NcGivesUp, PeerTimesOut, NetworkLoses, ShimDrops, ShimSkews
<1>3. QED
  BY <1>2 DEF World, Fair

\* A connection carries one token.
LEMMA OneToken ==
    ASSUME Basics, Accounted, Calm, program.out = "conn"
    PROVE  /\ stdin + up + down + held + fifo + got <= 1
           /\ Coming({"write", "send"}) => stdin + up + down + held + fifo + got = 0
BY DEF Basics, FlowOK, Accounted, Calm, OutFlow

LEMMA FairFinished ==
    ASSUME Basics, Whole(test), Accounted, Answering, Calm, Finished, Echoed, UNCHANGED testVars, Fair
    PROVE  Finished'
<1>1. /\ subject' = subject /\ program' = program /\ script' = script /\ subject \in Procs /\ FlowOK
      /\ (Did("kill", subject)' <=> Did("kill", subject)) /\ proc \in [Procs -> States]
  BY SameTest, Stands, SubjectOf DEF testVars, Basics, ShimOK
<1>2. /\ program.out = "own" => program.ends \in {"written", "never"}
      /\ program.out = "stdin" => program.ends = "eof"
      /\ program.out = "conn" => program.ends \in {"stream", "heard"}
      /\ program.out = "nothing" => program.ends \in {"written", "never", "missing"}
      /\ program.out \in {"own", "stdin", "conn", "nothing"}
      /\ program.opens = "datagram" <=> program.ends = "heard"
  BY DEF Whole, program
<1>3. SUFFICES ASSUME proc'[subject] \in {"stopped", "deleted"}, ~Did("kill", subject)
               PROVE  /\ program.ends = "written" => src' = 0
                      /\ program.ends = "eof" => stdin' = 0 /\ toSend' = 0 /\ ~stdinOpen'
                      /\ program.out = "conn" /\ Outbound(script) =>
                            stdin' = 0 /\ up' = 0 /\ down' = 0 /\ held' + fifo' + got' = 1
  BY <1>1 DEF Finished
<1>4. CASE proc[subject] \in {"stopped", "deleted"}
  <2>1. /\ program.ends = "written" => src = 0
        /\ program.ends = "eof" => stdin = 0 /\ toSend = 0 /\ ~stdinOpen
        /\ program.out = "conn" /\ Outbound(script) =>
              stdin = 0 /\ up = 0 /\ down = 0 /\ held + fifo + got = 1
    BY <1>3, <1>4 DEF Finished
  <2>2. CASE StdinWriter
    <3>1. program.out = "stdin" /\ program.ends = "eof" /\ toSend > 0
      BY <1>1, <1>2, <2>2 DEF StdinWriter, Accounted, FlowOK
    <3>2. QED
      BY <2>1, <3>1
  <2>3. CASE DrainRead \/ DrainEOF \/ ShimCopies \/ ShimCloses \/ ShimExits \/ ShimForwards \/ ShimForwardsAgain
    <3>1. /\ UNCHANGED <<src, stdin, toSend, stdinOpen, up, down>>
          /\ \/ UNCHANGED <<held, fifo, got>>
             \/ held' = held /\ fifo' = fifo - 1 /\ got' = got + 1
             \/ held' = held - 1 /\ fifo' = fifo + 1 /\ got' = got
      BY <2>3 DEF DrainRead, DrainEOF, ShimCopies, ShimCloses, ShimExits, ShimForwards, ShimForwardsAgain,
             KeepShim, inVars, outVars, envVars, netVars
    <3>2. QED
      BY <1>1, <2>1, <3>1 DEF FlowOK
  <2>4. CASE ProcWrites \/ ProcExits \/ NcConnects \/ NcCopiesIn \/ NcCopiesOut
    BY <1>4, <2>4 DEF ProcWrites, ProcExits, NcConnects, NcCopiesIn, NcCopiesOut, NcRuns
  <2>5. CASE Peer
    <3>1. UNCHANGED <<src, stdin, toSend, stdinOpen, held, fifo, got>> /\ peer # "off"
      BY <2>5 DEF Peer, PeerEchoes, PeerReports, KeepShim, inVars, outVars
    <3>2. Outbound(script) /\ program.out = "conn"
      BY <3>1 DEF Answering
    <3>3. up' = up /\ down' = down
      BY <1>1, <2>1, <2>5, <3>2 DEF Peer, PeerEchoes, PeerReports, FlowOK
    <3>4. QED
      BY <2>1, <3>1, <3>3
  <2>6. QED
    BY <2>2, <2>3, <2>4, <2>5 DEF Fair
<1>5. CASE proc[subject] \notin {"stopped", "deleted"}
  <2>1. ProcExits \/ ShimExits
    BY <1>3, <1>5 DEF Fair, StdinWriter, DrainRead, DrainEOF, ProcWrites, NcConnects, NcCopiesIn,
           NcCopiesOut, Peer, ShimCopies, ShimCloses, ShimForwards, ShimForwardsAgain, KeepShim
  <2>2. CASE ProcExits
    <3>1. UNCHANGED <<src, stdin, toSend, stdinOpen, up, down, held, fifo, got>>
      BY <2>2 DEF ProcExits, inVars, outVars, netVars
    <3>2. CASE program.ends = "written" /\ src = 0
      BY <1>2, <3>1, <3>2
    <3>3. CASE program.ends = "eof" /\ StdinEOF
      BY <1>2, <3>1, <3>3 DEF StdinEOF
    <3>4. CASE program.ends = "stream" /\ ncStream
      <4>1. Outbound(script) => /\ stdin = 0 /\ up = 0 /\ down + held + fifo + got = 1
                                /\ down = 0
        BY <3>4 DEF Echoed, ncStream
      <4>2. QED
        BY <1>1, <1>2, <3>1, <3>4, <4>1 DEF FlowOK
    <3>5. CASE program.ends = "heard" /\ link = "heard"
      BY <1>2, <3>1, <3>5 DEF Echoed
    <3>6. QED
      BY <2>2, <3>2, <3>3, <3>4, <3>5 DEF ProcExits
  <2>3. CASE ShimExits
    <3>1. proc[subject] = "running"
      BY <1>1, <1>3, <1>5, <2>3 DEF ShimExits, Procs
    <3>2. program.ends = "never"
      BY <2>3, <3>1 DEF ShimExits
    <3>3. QED
      BY <1>2, <3>2
  <2>4. QED
    BY <2>1, <2>2, <2>3
<1>6. QED
  BY <1>4, <1>5

LEMMA FairArrived ==
    ASSUME Basics, Accounted, Arrived, UNCHANGED testVars, Fair
    PROVE  Arrived'
<1>1. /\ program' = program /\ script' = script /\ FlowOK /\ \A C : Past(C)' <=> Past(C)
  BY SameTest, Stands DEF testVars, Basics
<1>2. CASE StdinWriter
  <2>1. program.out = "stdin" /\ toSend > 0
    BY <1>1, <1>2 DEF StdinWriter, Accounted, FlowOK
  <2>2. ~Past(Sees)
    BY <2>1 DEF Arrived
  <2>3. QED
    BY <1>1, <2>1, <2>2 DEF Arrived
<1>3. CASE ~StdinWriter
  <2>1. UNCHANGED <<sent, toSend>> /\ (got' = got \/ got' = got + 1)
    BY <1>3 DEF Fair, DrainRead, DrainEOF, ProcWrites, ProcExits, NcConnects, NcCopiesIn,
           NcCopiesOut, Peer, ShimCopies, ShimCloses, ShimExits, ShimForwards, ShimForwardsAgain,
           KeepShim, inVars, outVars
  <2>2. Chunks \in Nat /\ got \in Nat /\ sent \in Nat
    BY <1>1, SizesAssumption DEF FlowOK
  <2>3. QED
    BY <1>1, <2>1, <2>2 DEF Arrived
<1>4. QED
  BY <1>2, <1>3
LEMMA FairEchoed ==
    ASSUME Basics, Whole(test), Accounted, Answering, Calm, Echoed, UNCHANGED testVars, Fair
    PROVE  Echoed'
<1>1. /\ program' = program /\ script' = script /\ FlowOK /\ \A C : Past(C)' <=> Past(C)
  BY SameTest, Stands DEF testVars, Basics
<1>2. /\ peer \in {"closed", "done"} => stdin = 0 /\ up = 0 /\ down + held + fifo + got = 1
      /\ Outbound(script) /\ hungUp => peer \in {"closed", "done"}
      /\ Outbound(script) /\ Past({"listen"}) => peer # "off"
      /\ link = "heard" => stdin = 0 /\ up = 0 /\ down = 0 /\ held + fifo + got = 1
      /\ program.opens = "datagram" /\ stdinOpen => up = 0 /\ down = 0 /\ link # "heard"
  BY DEF Echoed
<1>3. /\ program.out # "conn" => link = "none" /\ peer = "off"
      /\ peer # "off" => Outbound(script)
      /\ link = "heard" => program.opens = "datagram"
  BY DEF Answering
<1>4. program.out = "conn" => stdin + up + down + held + fifo + got <= 1
  BY OneToken
<1>5. SUFFICES /\ peer' \in {"closed", "done"} => stdin' = 0 /\ up' = 0 /\ down' + held' + fifo' + got' = 1
               /\ Outbound(script) /\ hungUp' => peer' \in {"closed", "done"}
               /\ Outbound(script) /\ Past({"listen"}) => peer' # "off"
               /\ link' = "heard" => stdin' = 0 /\ up' = 0 /\ down' = 0 /\ held' + fifo' + got' = 1
               /\ program.opens = "datagram" /\ stdinOpen' => up' = 0 /\ down' = 0 /\ link' # "heard"
  BY <1>1 DEF Echoed
<1>6. CASE StdinWriter
  <2>1. program.out = "stdin"
    BY <1>1, <1>6 DEF StdinWriter, Accounted, FlowOK
  <2>2. link = "none" /\ peer = "off" /\ UNCHANGED <<link, peer, up, down, hungUp, stdinOpen>>
    BY <1>3, <1>6, <2>1 DEF StdinWriter, envVars, netVars
  <2>3. QED
    BY <1>2, <2>2
<1>7. CASE DrainRead \/ DrainEOF \/ ProcExits \/ ShimCopies \/ ShimCloses \/ ShimExits
           \/ ShimForwards \/ ShimForwardsAgain
  <2>1. /\ UNCHANGED <<stdin, stdinOpen, link, peer, hungUp, up, down>>
        /\ \/ UNCHANGED <<held, fifo, got>>
           \/ held' = held /\ fifo' = fifo - 1 /\ got' = got + 1
           \/ held' = held - 1 /\ fifo' = fifo + 1 /\ got' = got
    BY <1>7 DEF DrainRead, DrainEOF, ProcExits, ShimCopies, ShimCloses, ShimExits, ShimForwards,
           ShimForwardsAgain, KeepShim, inVars, outVars, envVars, netVars
  <2>2. held' + fifo' + got' = held + fifo + got
    BY <1>1, <2>1 DEF FlowOK
  <2>3. down' + held' + fifo' + got' = down + held + fifo + got
    BY <1>1, <2>1 DEF FlowOK
  <2>4. QED
    BY <1>2, <2>1, <2>2, <2>3
<1>8. CASE ProcWrites
  <2>1. program.out # "conn"
    BY <1>1, <1>8 DEF ProcWrites, Accounted, FlowOK
  <2>2. link = "none" /\ peer = "off" /\ UNCHANGED <<link, peer, up, down, hungUp, stdinOpen>>
    BY <1>3, <1>8, <2>1 DEF ProcWrites, envVars, netVars
  <2>3. QED
    BY <1>2, <2>2
<1>9. CASE NcConnects
  <2>1. /\ UNCHANGED <<up, down, hungUp, peer, stdin, stdinOpen, held, fifo, got>>
        /\ link' \in {"open", "listen"}
    BY <1>9 DEF NcConnects, Dial, Bind, KeepShim, inVars, outVars
  <2>2. QED
    BY <1>2, <2>1
<1>10. CASE NcCopiesIn
  <2>1. stdin > 0 /\ UNCHANGED <<link, peer, hungUp, stdinOpen>> /\ (program.opens = "datagram" => ~stdinOpen)
    BY <1>10 DEF NcCopiesIn, NcSends
  <2>2. QED
    BY <1>2, <2>1
<1>11. CASE NcCopiesOut
  <2>1. /\ program.out = "conn" /\ down > 0 /\ down' = down - 1 /\ held' = held + 1
        /\ UNCHANGED <<up, hungUp, peer, stdin, stdinOpen, fifo, got>>
        /\ link' = IF program.opens = "datagram" THEN "heard" ELSE link
    BY <1>11 DEF NcCopiesOut, NcRuns, NcReceives, inVars
  <2>2. /\ stdin = 0 /\ up = 0 /\ down = 1 /\ held = 0 /\ fifo = 0 /\ got = 0
    BY <1>1, <1>4, <2>1 DEF FlowOK
  <2>3. link' = "heard" => program.opens = "datagram"
    BY <1>3, <2>1
  <2>4. program.opens = "datagram" => ~stdinOpen
    BY <1>2, <2>2
  <2>5. stdin' = 0 /\ up' = 0 /\ down' = 0 /\ held' = 1 /\ fifo' = 0 /\ got' = 0
    BY <2>1, <2>2
  <2>6. down' + held' + fifo' + got' = 1 /\ held' + fifo' + got' = 1
    BY <2>5
  <2>7. peer' = peer /\ hungUp' = hungUp /\ stdinOpen' = stdinOpen
    BY <2>1
  <2>8. ~(program.opens = "datagram" /\ stdinOpen')
    BY <2>4, <2>7
  <2>9. QED
    BY <1>2, <2>5, <2>6, <2>7, <2>8, Zenon
<1>12. CASE Peer
  <2>1. UNCHANGED <<stdin, stdinOpen, held, fifo, got, link>> /\ peer # "off"
    BY <1>12 DEF Peer, PeerEchoes, PeerReports, KeepShim, inVars, outVars
  <2>2. CASE PeerEchoes
    <3>1. up > 0 /\ up' = up - 1 /\ down' = down + 1 /\ hungUp' = TRUE /\ peer' = "closed"
      BY <2>2 DEF PeerEchoes
    <3>2. stdin = 0 /\ up = 1 /\ down = 0 /\ held = 0 /\ fifo = 0 /\ got = 0
      BY <1>1, <1>3, <1>4, <2>1, <3>1 DEF FlowOK
    <3>3. stdin' = 0 /\ up' = 0 /\ down' = 1 /\ held' = 0 /\ fifo' = 0 /\ got' = 0
      BY <2>1, <3>1, <3>2
    <3>4. link' # "heard" /\ ~(program.opens = "datagram" /\ stdinOpen')
      BY <1>2, <2>1, <3>2
    <3>5. down' + held' + fifo' + got' = 1 /\ peer' \in {"closed", "done"} /\ peer' # "off"
      BY <3>1, <3>3
    <3>6. QED
      BY <3>3, <3>4, <3>5, Zenon
  <2>3. CASE PeerReports
    BY <1>2, <2>1, <2>3 DEF PeerReports
  <2>4. QED
    BY <1>12, <2>2, <2>3 DEF Peer
<1>13. QED
  BY <1>6, <1>7, <1>8, <1>9, <1>10, <1>11, <1>12 DEF Fair

LEMMA FairProcs ==
    ASSUME Basics, Whole(test), Calm, Echoed, \A p \in {"init", "exec"} : ProcAt(p), UNCHANGED testVars, Fair
    PROVE  (\A p \in {"init", "exec"} : ProcAt(p))'
<1>1. /\ TestOK /\ test' = test /\ ip' = ip /\ program' = program /\ subject' = subject /\ script' = script
      /\ subject \in Procs /\ proc \in [Procs -> States]
      /\ \A c, p : Did(c, p)' <=> Did(c, p)
  BY SameTest, Stands, SubjectOf DEF testVars, Basics, ShimOK
<1>2. \A p : Made(script, ip, p)' <=> Made(script, ip, p)
  BY <1>1
<1>3. /\ program.ends \in {"written", "eof", "stream", "heard"} => program.ends # "never"
      /\ program.opens = "datagram" <=> program.ends = "heard"
  BY DEF Whole, program
<1>4. CASE ~(ProcExits \/ ShimExits)
  <2>1. proc' = proc /\ stdinOpen' = stdinOpen
    BY <1>4 DEF Fair, StdinWriter, DrainRead, DrainEOF, ProcWrites, NcConnects, NcCopiesIn,
           NcCopiesOut, Peer, ShimCopies, ShimCloses, ShimForwards, ShimForwardsAgain, KeepShim, inVars
  <2>2. QED
    BY <1>1, <2>1, ProcsKept
<1>5. CASE ProcExits
  <2>1. /\ proc[subject] = "running" /\ proc' = [proc EXCEPT ![subject] = "stopped"]
        /\ stdinOpen' = stdinOpen
    BY <1>5 DEF ProcExits, inVars
  <2>2. proc'[subject] = "stopped" /\ \A q \in Procs : q # subject => proc'[q] = proc[q]
    BY <1>1, <2>1
  <2>3. ~Lives(subject)
    <3>1. program.ends \in {"written", "eof", "stream", "heard"}
      BY <1>5 DEF ProcExits
    <3>2. ~Stays(test, subject)
      BY <1>3, <3>1 DEF Stays, subject, program
    <3>3. program.ends \in {"eof", "stream"} => ~stdinOpen
      BY <1>5 DEF ProcExits, ncStream, StdinEOF
    <3>4. program.ends = "heard" => ~stdinOpen
      BY <1>3, <1>5 DEF ProcExits, Echoed
    <3>5. QED
      BY <3>2, <3>3, <3>4 DEF Lives
  <2>4. ProcAt(subject)
    BY <1>1 DEF Procs
  <2>5. ProcAt(subject)'
    <3>1. Lives(subject)' <=> Lives(subject)
      BY <1>1, <2>1 DEF Lives
    <3>2. QED
      BY <1>1, <1>2, <2>1, <2>2, <2>3, <2>4, <3>1 DEF ProcAt
  <2>6. ASSUME NEW q \in Procs, q # subject PROVE ProcAt(q)'
    <3>1. ProcAt(q) /\ proc'[q] = proc[q]
      BY <2>2, <2>6 DEF Procs
    <3>2. QED
      BY <1>1, <1>2, <2>1, <2>6, <3>1, ProcKept
  <2>7. ASSUME NEW q \in Procs PROVE ProcAt(q)'
    <3>1. CASE q = subject
      BY <1>1, <2>5, <3>1
    <3>2. QED
      BY <2>6, <2>7, <3>1
  <2>8. QED
    BY <2>7 DEF Procs
<1>6. CASE ShimExits
  <2>1. /\ shim = "stopping" /\ stdinOpen' = stdinOpen
        /\ proc' = [p \in DOMAIN proc |-> IF proc[p] = "running" THEN "stopped" ELSE proc[p]]
    BY <1>6 DEF ShimExits, inVars
  <2>2. Did("shutdown", "init")
    BY <2>1 DEF Calm
  <2>3. ASSUME NEW q \in Procs PROVE ProcAt(q)'
    <3>1. ProcAt(q) /\ proc'[q] = IF proc[q] = "running" THEN "stopped" ELSE proc[q]
      BY <1>1, <2>1 DEF Procs
    <3>2. QED
      BY <1>1, <1>2, <2>2, <3>1 DEF ProcAt
  <2>4. QED
    BY <2>3 DEF Procs
<1>7. QED
  BY <1>4, <1>5, <1>6
LEMMA FairCalm ==
    ASSUME Basics, Calm, UNCHANGED testVars, Fair
    PROVE  Calm'
<1>1. /\ TestOK /\ test' = test /\ ip' = ip /\ outcome' = "none" /\ ~leaked'
      /\ (\A C : Past(C)' <=> Past(C)) /\ (\A c, p : Did(c, p)' <=> Did(c, p))
  BY Stands DEF testVars, Basics, Calm
<1>2. /\ UNCHANGED <<misread, leftover, lost, code, stdinOpen, skewed>> /\ peer' # "fail"
      /\ shim' = shim \/ (shim = "stopping" /\ shim' = "down")
  BY DEF Calm, Fair, StdinWriter, DrainRead, DrainEOF, ProcWrites, ProcExits, NcConnects, Dial, Bind, NcCopiesIn,
         NcSends, NcCopiesOut, NcReceives, Peer, PeerEchoes, PeerReports, ShimCopies, ShimCloses, ShimExits,
         ShimForwards, ShimForwardsAgain, Forward, ForwardAgain, Emits, Publish, KeepShim, inVars, outVars,
         envVars, netVars, eventVars, history
<1>3. CASE shim' = shim
  BY <1>1, <1>2, <1>3, CalmKept DEF Calm
<1>4. CASE shim = "stopping" /\ shim' = "down"
  BY <1>1, <1>2, <1>4 DEF Calm
<1>5. QED
  BY <1>2, <1>3, <1>4

LEMMA FairInStep ==
    ASSUME Basics, Whole(test), InStep, UNCHANGED testVars, Fair
    PROVE  InStep'
<1>1. SUFFICES ASSUME test = "Events" PROVE Forwarded(outbox, envelopes, Published)'
  BY DEF InStep, testVars
<1>2. /\ subject = "init" /\ program.ends = "written" /\ program.out # "conn"
      /\ proc \in [Procs -> States] /\ ShimOK
      /\ Published \in 0..4 /\ Forwarded(outbox, envelopes, Published)
  BY <1>1, PublishedOf DEF Whole, subject, program, Basics, ShimOK, InStep
<1>3. ASSUME NEW n, n = Published', Forwarded(outbox', envelopes', n) PROVE Forwarded(outbox, envelopes, Published)'
  BY <1>3 DEF Forwarded
<1>4. CASE ProcExits
  <2>1. outbox' = Append(outbox, "exit") /\ envelopes' = envelopes
    BY <1>1, <1>4 DEF ProcExits, Emits, Publish
  <2>2. proc["init"] = "running" /\ proc'["init"] = "stopped"
    BY <1>2, <1>4 DEF ProcExits, Procs
  <2>3. Published = 2
    BY <1>2, <2>2, PublishedOf
  <2>4. Published' = 3
    BY <2>2 DEF Published
  <2>5. Forwarded(outbox', envelopes, 3)
    <3>1. Forwarded(outbox, envelopes, 2) /\ "exit" \in Topics /\ Rank("exit") = 3
      BY <1>2, <2>3, RankOf DEF Topics
    <3>2. ASSUME NEW n, n = 2, NEW m, m = 3 PROVE Forwarded(outbox', envelopes, m)
      <4>1. n \in Nat /\ m = n + 1 /\ Rank("exit") = m /\ Forwarded(outbox, envelopes, n)
        BY <3>1, <3>2
      <4>2. QED
        BY <2>1, <3>1, <4>1, PublishForwarded
    <3>3. QED
      BY <3>2
  <2>6. QED
    BY <1>3, <2>1, <2>4, <2>5
<1>5. CASE ~ProcExits
  <2>1. Published' = Published
    <3>1. proc'["init"] = proc["init"]
      <4>1. CASE ShimExits
        BY <1>2, <4>1 DEF ShimExits, Procs
      <4>2. CASE ~ShimExits
        BY <1>5, <4>2 DEF Fair, StdinWriter, DrainRead, DrainEOF, ProcWrites, NcConnects, NcCopiesIn,
               NcCopiesOut, Peer, ShimCopies, ShimCloses, ShimForwards, ShimForwardsAgain, KeepShim
      <4>3. QED
        BY <4>1, <4>2
    <3>2. QED
      BY <3>1 DEF Published
  <2>2. CASE UNCHANGED <<outbox, envelopes>>
    BY <1>2, <1>3, <2>1, <2>2
  <2>3. CASE ShimForwards
    <3>1. PICK h \in Topics : h = outbox[1] /\ outbox # <<>> /\ envelopes' = Append(envelopes, h) /\ outbox' = Tail(outbox)
      <4>1. outbox \in Seq(Topics) /\ Forward
        BY <1>2, <2>3 DEF Forwarded, ShimForwards
      <4>2. outbox # <<>> /\ envelopes' = Append(envelopes, Head(outbox)) /\ outbox' = Tail(outbox)
        BY <4>1 DEF Forward
      <4>3. Head(outbox) = outbox[1] /\ outbox[1] \in Topics
        BY <4>1, <4>2, Removed
      <4>4. QED
        BY <4>2, <4>3
    <3>2. ASSUME NEW n, n = Published PROVE Forwarded(outbox', envelopes', n)
      <4>1. n \in Nat /\ Forwarded(outbox, envelopes, n)
        BY <1>2, <3>2
      <4>2. QED
        BY <3>1, <4>1, ForwardForwarded
    <3>3. QED
      BY <1>3, <2>1, <3>2
  <2>4. CASE ShimForwardsAgain
    <3>1. PICK x \in 1..Len(envelopes) : envelopes' = Append(envelopes, envelopes[x])
      BY <2>4 DEF ShimForwardsAgain, ForwardAgain
    <3>2. outbox' = outbox
      BY <2>4 DEF ShimForwardsAgain, ForwardAgain
    <3>3. ASSUME NEW n, n = Published PROVE Forwarded(outbox', envelopes', n)
      <4>1. n \in Nat /\ Forwarded(outbox, envelopes, n)
        BY <1>2, <3>3
      <4>2. QED
        BY <3>1, <3>2, <4>1, AgainForwarded
    <3>4. QED
      BY <1>3, <2>1, <3>3
  <2>5. QED
    BY <1>5, <2>2, <2>3, <2>4 DEF Fair, StdinWriter, DrainRead, DrainEOF, ProcWrites, NcConnects, NcCopiesIn,
           NcCopiesOut, Peer, ShimCopies, ShimCloses, ShimExits, envVars, eventVars
<1>6. QED
  BY <1>4, <1>5

LEMMA WorldSmooth == ASSUME Sound, Smooth, World PROVE Smooth'
<1>1. SUFFICES ASSUME Clean' PROVE Fine'
  BY DEF Smooth
<1>2. Basics /\ Whole(test) /\ Place /\ Accounted /\ Answering
  BY TypeIsBasic, RulesOf DEF Sound, Basics, TestOK
<1>3. UNCHANGED testVars /\ Moves /\ Grows /\ Fair
  BY <1>1, WorldStays, WorldIsFair
<1>4. Fine
  BY <1>1, <1>2, <1>3, CleanBefore DEF Smooth, Basics
<1>5. Calm' /\ Finished' /\ Arrived' /\ Echoed' /\ InStep' /\ (\A p \in {"init", "exec"} : ProcAt(p))'
  BY <1>2, <1>3, <1>4, FairCalm, FairFinished, FairArrived, FairEchoed, FairInStep, FairProcs DEF Fine
<1>6. QED
  BY <1>5 DEF Fine
\* What a step leaves alone.
LEMMA FinishedKept ==
    ASSUME Finished, test' = test, proc'[subject] = proc[subject], stdinOpen' => stdinOpen,
           Did("kill", subject) => Did("kill", subject)',
           UNCHANGED <<src, stdin, toSend, up, down, held, fifo, got>>
    PROVE  Finished'
<1>1. program' = program /\ subject' = subject /\ script' = script
  BY SameTest
<1>2. QED
  BY <1>1 DEF Finished

LEMMA ArrivedKept ==
    ASSUME Arrived, test' = test, UNCHANGED <<got, sent, toSend>>,
           Past(Sees)' => Past(Sees), Past({"stdoutDone"})' => Past({"stdoutDone"}),
           Past({"renew"}) => Past({"renew"})'
    PROVE  Arrived'
<1>1. program' = program /\ script' = script
  BY SameTest
<1>2. QED
  BY <1>1 DEF Arrived

LEMMA EchoedKept ==
    ASSUME Echoed, test' = test, UNCHANGED <<peer, stdin, up, down, held, fifo, got, hungUp, link>>,
           Past({"listen"})' => Past({"listen"}), stdinOpen' => stdinOpen
    PROVE  Echoed'
<1>1. program' = program /\ script' = script
  BY SameTest
<1>2. QED
  BY <1>1 DEF Echoed

LEMMA InStepKept ==
    ASSUME InStep, test' = test, UNCHANGED <<outbox, envelopes>>, proc'["init"] = proc["init"]
    PROVE  InStep'
BY DEF InStep, Published

Does == setup \/ listen \/ dial \/ send \/ hangUp \/ renew \/ drain \/ write \/ writer

LEMMA DoesGo ==
    ASSUME TestOK, Place, Does, Clean', Calm, Basics'
    PROVE  /\ Goes /\ ip' = ip + 1 /\ ip <= Len(script) /\ ip \in 1..Len(script) /\ test' = test
           /\ outcome' = "none" /\ ~misread' /\ ~leaked' /\ ~leftover'
<1>1. fault' = FALSE /\ ~slow'
  BY DEF Clean, Basics, HistOK
<1>2. \E call : At(call)
  BY DEF Does, setup, listen, dial, send, hangUp, renew, drain, write, writer
<1>3. ip <= Len(script) /\ ip \in 1..Len(script)
  BY <1>2, HereOK
<1>4. Goes /\ KeepTest /\ misread' = misread /\ leftover' = leftover
  BY <1>1 DEF Does, setup, listen, dial, send, hangUp, renew, drain, write, writer, history
<1>5. QED
  BY <1>3, <1>4 DEF Goes, KeepTest, Calm, Does


\* A shim is shut down only after it was started.
LEMMA SetupFirst ==
    ASSUME TestOK, Did("shutdown", "init")
    PROVE  Past({"setup"})
<1>1. PICK j \in 1..ip - 1 : script[j].call = "shutdown"
  BY DEF Did, Done
<1>2. ip \in 1..Len(script) + 1 /\ Len(script) \in Nat /\ j \in 1..Len(script)
  BY DEF TestOK
<1>3. Protocol(test, j)
  BY <1>2, RulesOf DEF TestOK
<1>4. PICK k \in 1..j - 1 : script[k].call = "setup"
  BY <1>1, <1>3 DEF Protocol, script, Calls, Behind
<1>5. k \in 1..ip - 1
  BY <1>2, <1>4
<1>6. QED
  BY <1>4, <1>5 DEF Past, Behind

LEMMA DoesFine ==
    ASSUME Basics, Basics', Place, Accounted, Answering, Fine, Clean', Does
    PROVE  Fine'
<1>1. /\ TestOK /\ FlowOK /\ Whole(test) /\ proc \in [Procs -> States] /\ subject \in Procs
      /\ Calm /\ (\A p \in {"init", "exec"} : ProcAt(p)) /\ Finished /\ Arrived /\ Echoed /\ InStep
  BY RulesOf, SubjectOf DEF Basics, TestOK, ShimOK, Fine
<1>2. /\ Goes /\ ip' = ip + 1 /\ ip <= Len(script) /\ ip \in 1..Len(script) /\ test' = test
      /\ outcome' = "none" /\ ~misread' /\ ~leaked' /\ ~leftover'
  BY <1>1, DoesGo
<1>3. /\ program' = program /\ subject' = subject /\ script' = script
      /\ \A C : Past(C)' <=> Past(C) \/ script[ip].call \in C
      /\ \A c, p : c # "renew" =>
            (Did(c, p)' <=> \/ script[ip].call = c /\ script[ip].who = p
                            \/ Did(c, p) /\ (p = "init" \/ script[ip].call # "renew"))
  BY <1>1, <1>2, SameTest, StepsOn
<1>4. Protocol(test, ip) /\ Traffic(test, ip) /\ Layered(test, ip)
  BY <1>1, <1>2, RulesOf DEF TestOK
\* A step that is neither a call nor begins anything anew.
<1>5. ASSUME script[ip].call \in {"setup", "listen", "dial", "send", "hangup", "drain", "write", "writer"}
      PROVE  /\ \A c \in Calls : \A p : Did(c, p)' <=> Did(c, p)
             /\ Did("kill", subject)' <=> Did("kill", subject)
             /\ (Past(Sees)' <=> Past(Sees)) /\ (Past({"stdoutDone"})' <=> Past({"stdoutDone"}))
             /\ (Past({"renew"})' <=> Past({"renew"}))
             /\ proc' = proc /\ (stdinOpen' => stdinOpen) =>
                   (\A p \in {"init", "exec"} : ProcAt(p))'
             /\ script[ip].call # "listen" => (Past({"listen"})' <=> Past({"listen"}))
  <2>1. script[ip].call \notin Calls \cup {"renew"} \cup Sees
    BY <1>5 DEF Calls, Sees
  <2>2. \A c \in Calls : \A p : Did(c, p)' <=> Did(c, p)
    BY <1>1, <1>2, <2>1, NoCall
  <2>3. "kill" \in Calls
    BY DEF Calls
  <2>4. "stdoutDone" \in Sees
    BY DEF Sees
  <2>5. ASSUME proc' = proc, stdinOpen' => stdinOpen PROVE (\A p \in {"init", "exec"} : ProcAt(p))'
    BY <1>1, <1>2, <2>1, <2>5, ProcsKept
  <2>6. (Past(Sees)' <=> Past(Sees)) /\ (Past({"stdoutDone"})' <=> Past({"stdoutDone"}))
             /\ (Past({"renew"})' <=> Past({"renew"}))
    BY <1>3, <2>1, <2>4
  <2>7. script[ip].call # "listen" => (Past({"listen"})' <=> Past({"listen"}))
    BY <1>3
  <2>8. Did("kill", subject)' <=> Did("kill", subject)
    BY <1>3, <2>2, <2>3
  <2>9. proc' = proc /\ (stdinOpen' => stdinOpen) => (\A p \in {"init", "exec"} : ProcAt(p))'
    BY <2>5
  <2>10. QED
    BY <2>2, <2>6, <2>7, <2>8, <2>9
<1>6. CASE setup
  <2>1. script[ip].call = "setup" /\ ~fault'
    BY <1>1, <1>6, HereOK DEF setup, Clean
  <2>2. /\ shim' = "up"
        /\ UNCHANGED <<proc, src, toSend, sent, stdin, stdinOpen, held, fifo, got, draining, closed,
                       drained, lost, link, up, down, hungUp, peer, code, outbox, envelopes, repeats, skewed>>
    BY <1>6, <2>1 DEF setup, inVars, outVars, envVars, netVars, eventVars
  <2>3. ~Past({"setup"})
    BY <1>4, <2>1 DEF Protocol, Past, script
  <2>4. ~Did("shutdown", "init")
    BY <1>1, <2>3, SetupFirst
  <2>5. Past({"setup"})' /\ ~Did("shutdown", "init")' /\ (Past({"closeIO"})' <=> Past({"closeIO"}))
    BY <1>3, <2>1, <2>4
  <2>6. Calm'
    BY <1>1, <1>2, <2>2, <2>5 DEF Calm
  <2>7. QED
    BY <1>1, <1>2, <1>5, <2>1, <2>2, <2>6, FinishedKept, ArrivedKept, EchoedKept, InStepKept DEF Fine
<1>7. CASE listen
  <2>1. script[ip].call = "listen" /\ At("listen")
    BY <1>1, <1>7, HereOK DEF listen
  <2>2. /\ link' = "listen" /\ peer' = (IF script[ip].who = "goroutine" THEN "accept" ELSE "off")
        /\ UNCHANGED <<shim, proc, src, toSend, sent, stdin, stdinOpen, held, fifo, got, draining, closed,
                       drained, lost, up, down, hungUp, code, outbox, envelopes, repeats, skewed, leftover>>
    BY <1>7 DEF listen, Listen, KeepShim, inVars, outVars, eventVars, history
  <2>3. /\ program.out = "conn" /\ Coming({"write", "send"})
        /\ Outbound(script) => script[ip].who = "goroutine"
    BY <1>4, <2>1 DEF Traffic, Coming, script, program
  <2>4. stdin + up + down + held + fifo + got = 0
    BY <1>1, <2>3, OneToken
  <2>5. ~(Outbound(script) /\ hungUp)
    <3>1. Outbound(script) /\ hungUp => down + held + fifo + got = 1 /\ stdin = 0 /\ up = 0
      BY <1>1 DEF Echoed
    <3>2. QED
      BY <1>1, <2>4, <3>1 DEF FlowOK
  <2>6. program.opens = "datagram" /\ stdinOpen => up = 0 /\ down = 0
    BY <1>1 DEF Echoed
  <2>7. Echoed'
    <3>1. peer' \in {"accept", "off"} /\ link' # "heard"
      BY <2>2
    <3>2. Outbound(script) => peer' # "off"
      BY <2>2, <2>3
    <3>3. QED
      BY <1>3, <2>2, <2>5, <2>6, <3>1, <3>2 DEF Echoed
  <2>8. Calm'
    BY <1>1, <1>2, <2>1, <2>2, CalmKept DEF Calls
  <2>9. QED
    BY <1>1, <1>2, <1>5, <2>1, <2>2, <2>7, <2>8, FinishedKept, ArrivedKept, InStepKept DEF Fine
<1>8. CASE dial
  <2>1. script[ip].call = "dial" /\ ~fault'
    BY <1>1, <1>8, HereOK DEF dial, Clean
  <2>2. /\ link' = "open"
        /\ UNCHANGED <<shim, proc, src, toSend, sent, stdin, stdinOpen, held, fifo, got, draining, closed,
                       drained, lost, up, down, hungUp, peer, code, outbox, envelopes, repeats, skewed, leftover>>
    BY <1>8, <2>1 DEF dial, Dial, KeepShim, inVars, outVars, eventVars
  <2>3. Past({"listen"})' <=> Past({"listen"})
    BY <1>5, <2>1
  <2>4. Echoed'
    BY <1>1, <1>3, <2>2, <2>3 DEF Echoed
  <2>5. Calm'
    BY <1>1, <1>2, <2>1, <2>2, CalmKept DEF Calls, Calm
  <2>6. QED
    BY <1>1, <1>2, <1>5, <2>1, <2>2, <2>4, <2>5, FinishedKept, ArrivedKept, InStepKept DEF Fine
<1>9. CASE send
  <2>1. script[ip].call = "send"
    BY <1>1, <1>9, HereOK DEF send
  <2>2. /\ down' = down + 1
        /\ UNCHANGED <<shim, proc, src, toSend, sent, stdin, stdinOpen, held, fifo, got, draining, closed,
                       drained, lost, up, link, hungUp, peer, code, outbox, envelopes, repeats, skewed, leftover>>
    BY <1>9 DEF send, HostWrites, KeepShim, inVars, outVars, eventVars, history
  <2>3. program.out = "conn" /\ program.ends = "stream" /\ ~Outbound(script)
    BY <1>4, <2>1 DEF Traffic, program, script
  <2>4. program.opens # "datagram"
    BY <1>1, <2>3 DEF Whole, program
  <2>5. peer = "off" /\ link # "heard"
    BY <2>3, <2>4 DEF Answering
  <2>6. Past({"listen"})' <=> Past({"listen"})
    BY <1>5, <2>1
  <2>7. Echoed'
    BY <1>3, <2>2, <2>3, <2>4, <2>5 DEF Echoed
  <2>8. Finished'
    BY <1>1, <1>3, <2>2, <2>3 DEF Finished
  <2>9. Calm'
    BY <1>1, <1>2, <2>1, <2>2, CalmKept DEF Calls, Calm
  <2>10. QED
    BY <1>1, <1>2, <1>5, <2>1, <2>2, <2>7, <2>8, <2>9, ArrivedKept, InStepKept DEF Fine
<1>10. CASE hangUp
  <2>1. script[ip].call = "hangup"
    BY <1>1, <1>10, HereOK DEF hangUp
  <2>2. UNCHANGED <<shim, proc, src, toSend, sent, stdin, stdinOpen, held, fifo, got, draining, closed,
                    drained, lost, up, down, link, peer, code, outbox, envelopes, repeats, skewed, leftover>>
    BY <1>10 DEF hangUp, HangUp, KeepShim, inVars, outVars, eventVars, history
  <2>3. ~Outbound(script)
    BY <1>4, <2>1 DEF Traffic, script
  <2>4. Past({"listen"})' <=> Past({"listen"})
    BY <1>5, <2>1
  <2>5. Echoed'
    BY <1>1, <1>3, <2>2, <2>3, <2>4 DEF Echoed
  <2>6. Calm'
    BY <1>1, <1>2, <2>1, <2>2, CalmKept DEF Calls, Calm
  <2>7. QED
    BY <1>1, <1>2, <1>5, <2>1, <2>2, <2>5, <2>6, FinishedKept, ArrivedKept, InStepKept DEF Fine
<1>11. CASE renew
  <2>1. script[ip].call = "renew"
    BY <1>1, <1>11, HereOK DEF renew
  <2>2. /\ proc' = [proc EXCEPT !["exec"] = "none"]
        /\ UNCHANGED <<shim, toSend, sent, stdin, stdinOpen, lost, link, up, down, hungUp, peer, code,
                       outbox, envelopes, repeats, skewed>>
    BY <1>11 DEF renew, envVars, netVars, eventVars
  <2>3. Layers
    BY <1>2, <2>1 DEF Layers, Ahead
  <2>4. subject = "exec" /\ program.out = "own" /\ program.ends = "written"
    BY <1>1, <2>3, LayersOf
  <2>5. /\ \A c : c # "renew" => ~Did(c, "exec")' /\ (Did(c, "init")' <=> Did(c, "init"))
        /\ Past({"renew"})' /\ (Past({"listen"})' <=> Past({"listen"}))
        /\ (Past({"setup"})' <=> Past({"setup"})) /\ (Past({"closeIO"})' <=> Past({"closeIO"}))
    <3>1. \A c : c # "renew" => ~Did(c, "exec")' /\ (Did(c, "init")' <=> Did(c, "init"))
      BY <1>3, <2>1
    <3>2. QED
      BY <1>3, <2>1, <3>1
  <2>6. proc'["exec"] = "none" /\ proc'["init"] = proc["init"]
    BY <1>1, <2>2 DEF Procs
  <2>7. ProcAt("exec")'
    <3>1. ~Made(script, ip, "exec")'
      BY <2>5 DEF Made, Did
    <3>2. QED
      BY <2>5, <2>6, <3>1 DEF ProcAt
  <2>8. ProcAt("init")'
    <3>1. Made(script, ip, "init")' <=> Made(script, ip, "init")
      BY <2>5 DEF Made, Did
    <3>2. \A c \in Calls : c # "renew"
      BY DEF Calls
    <3>3. Lives("init")' <=> Lives("init")
      BY <1>2, <1>3, <2>2 DEF Lives
    <3>4. QED
      BY <1>1, <1>3, <2>5, <2>6, <3>1, <3>3 DEF ProcAt
  <2>9. Calm'
    BY <1>1, <1>2, <2>2, <2>5 DEF Calm
  <2>10. Finished'
    BY <1>3, <2>4, <2>6 DEF Finished
  <2>11. Arrived'
    BY <1>3, <2>4, <2>5 DEF Arrived
  <2>12. Echoed'
    BY <1>1, <1>3, <2>2, <2>4, <2>5 DEF Echoed, Answering
  <2>13. InStep'
    BY <1>1, <1>2, <2>2, <2>6, InStepKept
  <2>14. QED
    BY <2>7, <2>8, <2>9, <2>10, <2>11, <2>12, <2>13 DEF Fine
<1>12. CASE drain
  <2>1. script[ip].call = "drain"
    BY <1>1, <1>12, HereOK DEF drain
  <2>2. UNCHANGED <<shim, proc, src, toSend, sent, stdin, stdinOpen, held, fifo, got, lost, link, up, down,
                    hungUp, peer, code, outbox, envelopes, repeats, skewed, leftover>>
    BY <1>12 DEF drain, inVars, envVars, netVars, eventVars, history
  <2>3. Calm'
    BY <1>1, <1>2, <2>1, <2>2, CalmKept DEF Calls, Calm
  <2>4. QED
    BY <1>1, <1>2, <1>5, <2>1, <2>2, <2>3, FinishedKept, ArrivedKept, EchoedKept, InStepKept DEF Fine
<1>13. CASE write \/ writer
  <2>1. script[ip].call \in {"write", "writer"} /\ script[ip].call = (IF write THEN "write" ELSE "writer")
    BY <1>1, <1>13, HereOK DEF write, writer
  <2>2. UNCHANGED <<shim, proc, src, stdinOpen, held, fifo, got, lost, link, up, down,
                    hungUp, peer, code, outbox, envelopes, repeats, skewed, leftover>>
    BY <1>13 DEF write, writer, outVars, envVars, netVars, eventVars, history
  <2>3. /\ program.out \in {"stdin", "conn"} /\ test # "UDSRoundTrip" /\ ~Past({"closeIO"}) /\ ~Past(Sees)
        /\ script[ip].call = "writer" => program.out = "stdin"
    <3>1. /\ program.out \in {"stdin", "conn"} /\ test # "UDSRoundTrip"
          /\ ~Behind(script, ip, {"closeIO"} \cup Sees)
          /\ script[ip].call = "writer" => program.out = "stdin"
      BY <1>4, <2>1 DEF Traffic, program, script
    <3>2. QED
      BY <3>1 DEF Past, Behind
  <2>4. stdinOpen
    BY <1>1, <2>3 DEF Calm
  <2>5. ~Past({"stdoutDone"})
    BY <2>3 DEF Past, Behind, Sees
  <2>6. CASE program.out = "stdin"
    <3>1. program.ends = "eof" /\ peer = "off" /\ link = "none"
      BY <1>1, <2>6 DEF Whole, program, Answering
    <3>2. ~(proc[subject] \in {"stopped", "deleted"} /\ ~Did("kill", subject))
      BY <1>1, <2>4, <3>1 DEF Finished
    <3>3. Finished'
      BY <1>3, <1>5, <2>1, <2>2, <3>2 DEF Finished
    <3>4. ~Past(Sees)' /\ ~Past({"stdoutDone"})'
      BY <1>5, <2>1, <2>3, <2>5
    <3>5. Arrived'
      BY <1>3, <2>6, <3>4 DEF Arrived
    <3>6. Past({"listen"})' <=> Past({"listen"})
      BY <1>5, <2>1
    <3>7. Echoed'
      BY <1>1, <1>3, <2>2, <3>1, <3>6 DEF Echoed
    <3>8. Calm'
      BY <1>1, <1>2, <2>1, <2>2, CalmKept DEF Calls, Calm
    <3>9. QED
      BY <1>1, <1>2, <1>5, <2>1, <2>2, <3>3, <3>5, <3>7, <3>8, InStepKept DEF Fine
  <2>7. CASE program.out = "conn"
    <3>1. write /\ program.ends \in {"stream", "heard"} /\ stdin' = stdin + 1
      BY <1>1, <1>13, <2>1, <2>3, <2>7 DEF Whole, program, write
    <3>2. Coming({"write", "send"})
      BY <1>2, <2>1, <3>1 DEF Coming, Ahead
    <3>3. stdin + up + down + held + fifo + got = 0
      BY <1>1, <2>7, <3>2, OneToken
    <3>4. ~(held + fifo + got = 1) /\ ~(down + held + fifo + got = 1)
      BY <1>1, <3>3 DEF FlowOK
    <3>5. ~(Outbound(script) /\ proc[subject] \in {"stopped", "deleted"} /\ ~Did("kill", subject))
      BY <1>1, <2>7, <3>4 DEF Finished
    <3>6. Finished'
      BY <1>3, <1>5, <2>1, <2>2, <3>1, <3>5 DEF Finished
    <3>7. ~Past(Sees)' /\ ~Past({"stdoutDone"})'
      BY <1>5, <2>1, <2>3, <2>5
    <3>8. Arrived'
      BY <1>3, <2>7, <3>7 DEF Arrived
    <3>9. Past({"listen"})' <=> Past({"listen"})
      BY <1>5, <2>1
    <3>10. peer \notin {"closed", "done"} /\ link # "heard"
      BY <1>1, <3>4 DEF Echoed
    <3>11. Echoed'
      BY <1>1, <1>3, <2>2, <3>9, <3>10 DEF Echoed
    <3>12. Calm'
      BY <1>1, <1>2, <2>1, <2>2, CalmKept DEF Calls, Calm
    <3>13. QED
      BY <1>1, <1>2, <1>5, <2>1, <2>2, <3>6, <3>8, <3>11, <3>12, InStepKept DEF Fine
  <2>8. QED
    BY <2>3, <2>6, <2>7
<1>14. QED
  BY <1>6, <1>7, <1>8, <1>9, <1>10, <1>11, <1>12, <1>13 DEF Does
\* A call that the script makes, its shim being up: it is legal, or the shim answers
\* it with the error that the script is prepared for, and nothing changes.
Refused(call, p) ==
    /\ call \in {"start", "kill", "wait", "delete"}
    /\ call = "start" => proc[p] = "created" /\ p = "exec" /\ subject = "exec" /\ program.ends = "missing"
    /\ call = "kill" => proc[p] # "running"
    /\ call = "wait" => proc[p] \notin {"created", "running"}
    /\ call = "delete" => proc[p] \notin {"created", "stopped"}

\* Only a test of an exec makes one.
LEMMA ExecOfSubject ==
    ASSUME TestOK, Made(script, ip, "exec")
    PROVE  subject = "exec"
<1>1. PICK j \in 1..ip - 1 : script[j].call = "exec"
  BY DEF Made, Done
<1>2. j \in 1..Len(script)
  BY DEF TestOK
<1>3. Protocol(test, j)
  BY <1>2, RulesOf DEF TestOK
<1>4. QED
  BY <1>1, <1>3 DEF Protocol, script, subject

LEMMA UpToShutdown ==
    ASSUME Calm, Past({"setup"}), ~Did("shutdown", "init")
    PROVE  shim = "up"
BY DEF Calm

\* By the rules of the scripts, the calls that must succeed are legal.
LEMMA CallsFit ==
    ASSUME Basics, Fine, ip \in 1..Len(script), NEW call \in Calls, NEW p \in Procs,
           script[ip].call = call, script[ip].who = p
    PROVE  /\ shim = "up"
           /\ Legal(call, p) \/ Blocked(call, p)
              \/ /\ Refused(call, p)
                 /\ \/ script[ip].on = "ignore"
                    \/ script[ip].on = "tolerate" /\ proc[p] = "stopped"
                    \/ script[ip].on = "expect"
<1>1. /\ TestOK /\ Protocol(test, ip) /\ proc \in [Procs -> States] /\ Calm
      /\ ProcAt(p) /\ ProcAt("init") /\ proc[p] \in States
  BY RulesOf DEF Basics, ShimOK, TestOK, Fine, Procs
<1>2. Past({"setup"}) /\ ~Did("shutdown", "init")
  BY <1>1 DEF Protocol, Past, Did, script
<1>3. shim = "up"
  BY <1>1, <1>2, UpToShutdown
<1>4. CASE call = "create"
  <2>1. p = "init" /\ ~Made(script, ip, p)
    BY <1>1, <1>4 DEF Protocol, script
  <2>2. proc["init"] = "none"
    BY <1>1, <2>1 DEF ProcAt
  <2>3. QED
    BY <1>3, <1>4, <2>2 DEF Legal
<1>5. CASE call = "exec"
  <2>1. /\ p = "exec" /\ ~Made(script, ip, p) /\ subject = "exec"
        /\ Did("start", "init") /\ ~Did("kill", "init")
    BY <1>1, <1>5 DEF Protocol, script, subject, Did
  <2>2. Lives("init")
    BY <2>1 DEF Lives, Stays, subject
  <2>3. proc["init"] = "running" /\ proc["exec"] = "none"
    BY <1>1, <1>2, <2>1, <2>2 DEF ProcAt
  <2>4. QED
    BY <1>3, <1>5, <2>3 DEF Legal
<1>6. CASE call = "start"
  <2>1. /\ Made(script, ip, p) /\ ~Did("start", p) /\ ~Did("delete", p)
        /\ p = "exec" /\ program.ends = "missing" => script[ip].on = "expect"
    BY <1>1, <1>6 DEF Protocol, script, Did, program
  <2>2. proc[p] = "created"
    BY <1>1, <2>1 DEF ProcAt
  <2>3. CASE p = "exec" /\ program.ends = "missing"
    BY <1>1, <1>3, <1>6, <2>1, <2>2, <2>3, ExecOfSubject DEF Refused
  <2>4. CASE ~(p = "exec" /\ program.ends = "missing")
    BY <1>3, <1>6, <2>2, <2>4 DEF Legal
  <2>5. QED
    BY <2>3, <2>4
<1>7. CASE call = "state"
  <2>1. p = "init" /\ Did("start", "init") /\ ~Did("kill", "init") /\ Stays(test, "init")
    BY <1>1, <1>7 DEF Protocol, script, Did
  <2>2. proc["init"] = "running"
    BY <1>1, <1>2, <2>1 DEF ProcAt, Lives
  <2>3. QED
    BY <1>3, <1>7, <2>2 DEF Legal
<1>8. CASE call = "kill"
  <2>1. \/ script[ip].on = "ignore"
        \/ /\ script[ip].on = "tolerate" /\ Did("start", p) /\ ~Did("delete", p)
           /\ ~(p = "exec" /\ program.ends = "missing")
    BY <1>1, <1>8 DEF Protocol, script, Did, program
  <2>2. CASE proc[p] = "running"
    BY <1>3, <1>8, <2>2 DEF Legal
  <2>3. CASE proc[p] # "running"
    <3>1. script[ip].on # "ignore" => proc[p] \notin {"none", "created", "deleted"}
      BY <1>1, <2>1 DEF ProcAt
    <3>2. script[ip].on # "ignore" => script[ip].on = "tolerate" /\ proc[p] = "stopped"
      BY <1>1, <2>1, <2>3, <3>1 DEF States
    <3>3. QED
      BY <1>3, <1>8, <2>3, <3>2 DEF Refused
  <2>4. QED
    BY <2>2, <2>3
<1>9. CASE call = "wait"
  <2>1. script[ip].on = "ignore" \/ (Made(script, ip, p) /\ ~Did("delete", p))
    BY <1>1, <1>9 DEF Protocol, script, Did
  <2>2. CASE proc[p] \in {"created", "running"}
    BY <1>3, <1>9, <2>2 DEF Blocked
  <2>3. CASE proc[p] = "stopped"
    BY <1>3, <1>9, <2>3 DEF Legal
  <2>4. CASE proc[p] \in {"none", "deleted"}
    <3>1. script[ip].on = "ignore"
      BY <1>1, <2>1, <2>4 DEF ProcAt
    <3>2. QED
      BY <1>3, <1>9, <2>4, <3>1 DEF Refused
  <2>5. QED
    BY <1>1, <2>2, <2>3, <2>4 DEF States
<1>10. CASE call = "delete"
  <2>1. script[ip].on = "ignore" \/ (Made(script, ip, p) /\ Did("wait", p) /\ ~Did("delete", p))
    BY <1>1, <1>10 DEF Protocol, script, Did
  <2>2. CASE proc[p] \in {"created", "stopped"}
    BY <1>3, <1>10, <2>2 DEF Legal
  <2>3. CASE proc[p] \notin {"created", "stopped"}
    <3>1. script[ip].on = "ignore"
      BY <1>1, <2>1, <2>3 DEF ProcAt, States
    <3>2. QED
      BY <1>3, <1>10, <2>3, <3>1 DEF Refused
  <2>4. QED
    BY <2>2, <2>3
<1>11. CASE call = "closeIO"
  <2>1. /\ p = subject /\ Did("start", p) /\ ~Did("kill", p) /\ ~Past({"closeIO"}) /\ test # "UDSRoundTrip"
        /\ program.ends \in {"eof", "stream", "heard"}
    BY <1>1, <1>11 DEF Protocol, script, Did, program, subject, Past
  <2>2. Lives(p)
    BY <1>1, <2>1 DEF Lives, Calm
  <2>3. proc[p] = "running"
    BY <1>1, <1>2, <2>1, <2>2 DEF ProcAt
  <2>4. QED
    BY <1>3, <1>11, <2>3 DEF Legal
<1>12. CASE call = "shutdown"
  BY <1>3, <1>12 DEF Legal
<1>13. QED
  BY <1>3, <1>4, <1>5, <1>6, <1>7, <1>8, <1>9, <1>10, <1>11, <1>12 DEF Calls

LEMMA RpcGoes ==
    ASSUME Basics, Fine, Clean', NEW call, NEW p, RpcStep(call, p)
    PROVE  /\ call \in Calls /\ p \in Procs /\ script[ip].call = call /\ script[ip].who = p
           /\ ip \in 1..Len(script) /\ ip <= Len(script) /\ ip' = ip + 1 /\ outcome' = "none" /\ test' = test
           /\ shim = "up"
           /\ \/ Legal(call, p) /\ Effect(call, p)
              \/ Refused(call, p) /\ UNCHANGED <<proc, shim, stdinOpen, eventVars>>
           /\ UNCHANGED <<src, toSend, sent, stdin, held, fifo, got, draining, closed, drained, lost,
                          link, up, down, hungUp, peer, code, misread, leftover, leaked>>
<1>1. /\ call \in Calls /\ p \in Procs /\ script[ip].call = call /\ script[ip].who = p /\ At(call)
      /\ ~fault' /\ outcome = "none" /\ TestOK
  BY DEF RpcStep, Clean, Fine, Calm, Basics
<1>2. ip \in 1..Len(script) /\ ip <= Len(script) /\ Protocol(test, ip) /\ Shape(test, ip)
  BY <1>1, HereOK
<1>3. /\ shim = "up"
      /\ Legal(call, p) \/ Blocked(call, p)
              \/ /\ Refused(call, p)
                 /\ \/ script[ip].on = "ignore"
                    \/ script[ip].on = "tolerate" /\ proc[p] = "stopped"
                    \/ script[ip].on = "expect"
  BY <1>1, <1>2, CallsFit
<1>4. /\ test' = test
      /\ UNCHANGED <<src, toSend, sent, stdin, held, fifo, got, draining, closed, drained, lost,
                     link, up, down, hungUp, peer, code, misread, leftover, leaked>>
  BY DEF RpcStep, KeepTest, outVars, netVars
<1>5. CASE Legal(call, p) /\ Effect(call, p) /\ OnError("nil")
  <2>1. script[ip].on # "expect"
    <3>1. script[ip].on = "expect" => call = "start" /\ p = "exec" /\ program.ends = "missing"
      BY <1>1, <1>2 DEF Protocol, script, program, Calls
    <3>2. ~(call = "start" /\ p = "exec" /\ program.ends = "missing")
      BY <1>5 DEF Legal
    <3>3. QED
      BY <3>1, <3>2
  <2>2. Goes
    BY <1>1, <1>5, <2>1 DEF OnError
  <2>3. QED
    BY <1>1, <1>2, <1>3, <1>4, <1>5, <2>2 DEF Goes
<1>6. CASE /\ ~Legal(call, p) /\ ~Blocked(call, p)
           /\ OnError(IF proc[p] = "stopped" THEN "gone" ELSE "error")
           /\ UNCHANGED <<proc, shim, stdinOpen, eventVars, fault>>
  <2>1. Goes
    BY <1>3, <1>6 DEF OnError
  <2>2. QED
    BY <1>1, <1>2, <1>3, <1>4, <1>6, <2>1 DEF Goes
<1>7. QED
  BY <1>1, <1>5, <1>6 DEF RpcStep
\* The process that a call was not made for.
LEMMA OtherProc ==
    ASSUME NEW q \in Procs, ProcAt(q), test' = test, proc'[q] = proc[q], stdinOpen' => stdinOpen,
           \A c \in {"create", "exec", "start", "kill", "wait", "delete"} : Did(c, q)' <=> Did(c, q),
           Did("shutdown", "init") => Did("shutdown", "init")'
    PROVE  ProcAt(q)'
<1>1. program' = program /\ subject' = subject
  BY SameTest
<1>2. Lives(q)' => Lives(q)
  BY <1>1 DEF Lives
<1>3. Made(script, ip, q)' <=> Made(script, ip, q)
  <2>1. Made(script, ip, q) <=> Did(IF q = "init" THEN "create" ELSE "exec", q)
    BY DEF Made, Did
  <2>2. Made(script, ip, q)' <=> Did(IF q = "init" THEN "create" ELSE "exec", q)'
    BY DEF Made, Did
  <2>3. QED
    BY <2>1, <2>2
<1>4. /\ Did("start", q)' <=> Did("start", q)
      /\ Did("delete", q)' <=> Did("delete", q)
      /\ Did("kill", q)' <=> Did("kill", q)
      /\ Did("wait", q)' <=> Did("wait", q)
  OBVIOUS
<1>5. QED
  BY <1>1, <1>2, <1>3, <1>4 DEF ProcAt

\* The steps behind a call that was made.
LEMMA CallBehind ==
    ASSUME TestOK, test' = test, ip' = ip + 1, ip <= Len(script), NEW call \in Calls, NEW p \in Procs,
           script[ip].call = call, script[ip].who = p
    PROVE  /\ \A c \in Calls : \A q : Did(c, q)' <=> (c = call /\ q = p) \/ Did(c, q)
           /\ \A q \in Procs : Made(script, ip, q)' <=>
                 \/ Made(script, ip, q)
                 \/ q = p /\ call = (IF p = "init" THEN "create" ELSE "exec")
           /\ \A C : call \notin C => (Past(C)' <=> Past(C))
           /\ \A C : Past(C)' <=> Past(C) \/ call \in C
<1>1. /\ \A C : Past(C)' <=> Past(C) \/ script[ip].call \in C
      /\ \A c, q : c # "renew" =>
            (Did(c, q)' <=> \/ script[ip].call = c /\ script[ip].who = q
                            \/ Did(c, q) /\ (q = "init" \/ script[ip].call # "renew"))
  BY StepsOn
<1>2. "renew" \notin Calls
  BY DEF Calls
<1>3. ASSUME NEW c \in Calls, NEW q PROVE Did(c, q)' <=> (c = call /\ q = p) \/ Did(c, q)
  BY <1>1, <1>2
<1>4. ASSUME NEW q \in Procs
      PROVE  Made(script, ip, q)' <=>
                 \/ Made(script, ip, q)
                 \/ q = p /\ call = (IF p = "init" THEN "create" ELSE "exec")
  <2>1. Made(script, ip, q) <=> Did(IF q = "init" THEN "create" ELSE "exec", q)
    BY DEF Made, Did
  <2>2. Made(script, ip, q)' <=> Did(IF q = "init" THEN "create" ELSE "exec", q)'
    BY DEF Made, Did
  <2>3. (IF q = "init" THEN "create" ELSE "exec") \in Calls
    BY DEF Calls
  <2>4. QED
    BY <1>3, <2>1, <2>2, <2>3
<1>5. QED
  BY <1>1, <1>3, <1>4

\* The process that a call was made for.
LEMMA CalledProc ==
    ASSUME Basics, Fine, Clean', NEW call, NEW p, RpcStep(call, p)
    PROVE  ProcAt(p)'
<1>1. /\ call \in Calls /\ p \in Procs /\ script[ip].call = call /\ script[ip].who = p
      /\ ip \in 1..Len(script) /\ ip <= Len(script) /\ ip' = ip + 1 /\ test' = test
      /\ \/ Legal(call, p) /\ Effect(call, p)
         \/ Refused(call, p) /\ UNCHANGED <<proc, shim, stdinOpen, eventVars>>
  BY RpcGoes
<1>2. /\ TestOK /\ Protocol(test, ip) /\ proc \in [Procs -> States] /\ Calm /\ ShimOK
      /\ ProcAt(p) /\ proc[p] \in States /\ program' = program /\ subject' = subject
  BY <1>1, RulesOf, SameTest DEF Basics, ShimOK, TestOK, Fine, Procs
<1>3. /\ \A c \in Calls : \A q : Did(c, q)' <=> (c = call /\ q = p) \/ Did(c, q)
      /\ Made(script, ip, p)' <=> \/ Made(script, ip, p)
                                  \/ call = (IF p = "init" THEN "create" ELSE "exec")
  BY <1>1, <1>2, CallBehind
<1>4. /\ Did("start", p)' <=> call = "start" \/ Did("start", p)
      /\ Did("kill", p)' <=> call = "kill" \/ Did("kill", p)
      /\ Did("wait", p)' <=> call = "wait" \/ Did("wait", p)
      /\ Did("delete", p)' <=> call = "delete" \/ Did("delete", p)
      /\ Did("shutdown", "init") => Did("shutdown", "init")'
  BY <1>3 DEF Calls
<1>5. /\ call \in {"create", "exec"} =>
            /\ ~Made(script, ip, p) /\ ~Did("wait", p) /\ ~Did("delete", p)
            /\ call = (IF p = "init" THEN "create" ELSE "exec")
      /\ call = "start" =>
            Made(script, ip, p) /\ ~Did("kill", p) /\ ~Did("wait", p) /\ ~Did("delete", p)
  BY <1>1, <1>2 DEF Protocol, script, Did
<1>6. CASE Legal(call, p) /\ Effect(call, p)
  <2>1. /\ call \in {"create", "exec"} => proc'[p] = "created"
        /\ call = "start" => proc'[p] = "running"
        /\ call = "kill" => proc'[p] = "stopped"
        /\ call = "delete" => proc'[p] = "deleted"
        /\ call \notin {"create", "exec", "start", "kill", "delete"} => proc' = proc
        /\ call # "closeIO" => stdinOpen' = stdinOpen
        /\ call = "closeIO" => stdinOpen' = FALSE
    BY <1>1, <1>2, <1>6, EffectOf
  <2>2. Lives(p)' => Lives(p)
    BY <1>1, <1>2, <2>1 DEF Lives
  <2>3. CASE call \in {"create", "exec"}
    <3>1. proc[p] = "none" /\ ~Did("start", p)
      BY <1>2, <1>5, <2>3 DEF ProcAt
    <3>2. Made(script, ip, p)'
      BY <1>3, <1>5, <2>3
    <3>3. ~Did("start", p)' /\ ~Did("wait", p)' /\ ~Did("delete", p)'
      BY <1>4, <1>5, <2>3, <3>1
    <3>4. QED
      BY <2>1, <2>3, <3>2, <3>3 DEF ProcAt
  <2>4. CASE call = "start"
    <3>1. Made(script, ip, p)' /\ Did("start", p)' /\ ~Did("kill", p)' /\ ~Did("wait", p)' /\ ~Did("delete", p)'
      BY <1>3, <1>4, <1>5, <2>4
    <3>2. QED
      BY <2>1, <2>4, <3>1 DEF ProcAt
  <2>5. CASE call = "kill"
    <3>1. proc[p] = "running"
      BY <1>6, <2>5 DEF Legal
    <3>2. Made(script, ip, p) /\ Did("start", p)
      BY <1>2, <3>1 DEF ProcAt
    <3>3. Made(script, ip, p)' /\ Did("start", p)' /\ Did("kill", p)'
      BY <1>3, <1>4, <2>5, <3>2
    <3>4. QED
      BY <2>1, <2>5, <3>3 DEF ProcAt
  <2>6. CASE call = "delete"
    <3>1. proc[p] \in {"created", "stopped"}
      BY <1>6, <2>6 DEF Legal
    <3>2. Made(script, ip, p) /\ (Did("start", p) /\ ~Did("kill", p) /\ ~Did("shutdown", "init") => ~Lives(p))
      BY <1>2, <3>1 DEF ProcAt
    <3>3. Made(script, ip, p)' /\ Did("delete", p)'
          /\ (Did("start", p)' /\ ~Did("kill", p)' /\ ~Did("shutdown", "init")' => ~Lives(p)')
      BY <1>3, <1>4, <2>2, <2>6, <3>2
    <3>4. QED
      BY <2>1, <2>6, <3>3 DEF ProcAt
  <2>7. CASE call = "wait"
    <3>1. proc[p] = "stopped" /\ proc'[p] = "stopped"
      BY <1>6, <2>1, <2>7 DEF Legal
    <3>2. Made(script, ip, p)' <=> Made(script, ip, p)
      BY <1>3, <2>7
    <3>3. QED
      BY <1>2, <1>4, <2>2, <2>7, <3>1, <3>2 DEF ProcAt
  <2>8. CASE call \in {"state", "closeIO", "shutdown"}
    <3>1. Made(script, ip, p)' <=> Made(script, ip, p)
      BY <1>3, <2>8
    <3>2. proc' = proc
      BY <2>1, <2>8
    <3>3. QED
      BY <1>2, <1>4, <2>2, <2>8, <3>1, <3>2 DEF ProcAt
  <2>9. QED
    BY <1>1, <2>3, <2>4, <2>5, <2>6, <2>7, <2>8 DEF Calls
<1>7. CASE Refused(call, p) /\ UNCHANGED <<proc, shim, stdinOpen, eventVars>>
  <2>1. Lives(p)' <=> Lives(p)
    BY <1>1, <1>2, <1>7 DEF Lives
  <2>2. call \in {"start", "kill", "wait", "delete"} /\ proc' = proc
    BY <1>7 DEF Refused
  <2>3. Made(script, ip, p)' <=> Made(script, ip, p)
    BY <1>3, <2>2
  <2>4. CASE call = "start"
    <3>1. /\ proc[p] = "created" /\ p = "exec" /\ subject = "exec" /\ program.ends = "missing"
          /\ ~Stays(test, p)
      BY <1>7, <2>4 DEF Refused, Stays, subject, program
    <3>2. ~Lives(p)
      BY <3>1 DEF Lives
    <3>3. Did("start", p)' /\ ~Did("kill", p)' /\ ~Did("wait", p)' /\ ~Did("delete", p)'
      BY <1>4, <1>5, <2>4
    <3>4. QED
      BY <1>2, <1>5, <2>1, <2>2, <2>3, <2>4, <3>1, <3>2, <3>3 DEF ProcAt
  <2>5. CASE call = "kill"
    <3>1. proc[p] # "running"
      BY <1>7, <2>5 DEF Refused
    <3>2. QED
      BY <1>2, <1>4, <2>1, <2>2, <2>3, <2>5, <3>1 DEF ProcAt
  <2>6. CASE call = "wait"
    <3>1. proc[p] \notin {"created", "running"}
      BY <1>7, <2>6 DEF Refused
    <3>2. QED
      BY <1>2, <1>4, <2>1, <2>2, <2>3, <2>6, <3>1 DEF ProcAt
  <2>7. CASE call = "delete"
    <3>1. proc[p] \notin {"created", "stopped"}
      BY <1>7, <2>7 DEF Refused
    <3>2. QED
      BY <1>2, <1>4, <2>1, <2>2, <2>3, <2>7, <3>1 DEF ProcAt
  <2>8. QED
    BY <2>2, <2>4, <2>5, <2>6, <2>7
<1>8. QED
  BY <1>1, <1>6, <1>7
\* The shim and the stdin that it holds, by the calls that were made.
LEMMA RpcCalm ==
    ASSUME Basics, Fine, Clean', NEW call, NEW p, RpcStep(call, p)
    PROVE  Calm' /\ (stdinOpen' => stdinOpen)
<1>1. /\ call \in Calls /\ p \in Procs /\ script[ip].call = call /\ script[ip].who = p
      /\ ip \in 1..Len(script) /\ ip <= Len(script) /\ ip' = ip + 1 /\ test' = test /\ outcome' = "none"
      /\ shim = "up"
      /\ \/ Legal(call, p) /\ Effect(call, p)
         \/ Refused(call, p) /\ UNCHANGED <<proc, shim, stdinOpen, eventVars>>
      /\ UNCHANGED <<lost, peer, code, misread, leftover, leaked>>
  BY RpcGoes
<1>2. /\ TestOK /\ ShimOK /\ Protocol(test, ip) /\ Calm
  BY <1>1, RulesOf DEF Basics, TestOK, Fine
<1>3. /\ Past({"setup"}) /\ ~Did("shutdown", "init")
      /\ call = "shutdown" => p = "init"
  BY <1>1, <1>2 DEF Protocol, Past, Did, script
<1>4. /\ Did("shutdown", "init")' <=> (call = "shutdown" /\ p = "init") \/ Did("shutdown", "init")
      /\ Past({"setup"})'
      /\ Past({"closeIO"})' <=> Past({"closeIO"}) \/ call = "closeIO"
  <2>1. /\ \A c \in Calls : \A q : Did(c, q)' <=> (c = call /\ q = p) \/ Did(c, q)
        /\ \A C : Past(C)' <=> Past(C) \/ call \in C
    BY <1>1, <1>2, CallBehind
  <2>2. "shutdown" \in Calls
    BY DEF Calls
  <2>3. Did("shutdown", "init")' <=> (call = "shutdown" /\ p = "init") \/ Did("shutdown", "init")
    BY <2>1, <2>2
  <2>4. QED
    BY <1>3, <2>1, <2>3
<1>5. /\ skewed' = skewed /\ (shim' = IF call = "shutdown" THEN "stopping" ELSE "up")
      /\ call # "closeIO" => stdinOpen' = stdinOpen
      /\ call = "closeIO" => stdinOpen' = FALSE
  <2>1. CASE Legal(call, p) /\ Effect(call, p)
    BY <1>1, <1>2, <2>1, EffectOf
  <2>2. CASE Refused(call, p) /\ UNCHANGED <<proc, shim, stdinOpen, eventVars>>
    BY <1>1, <2>2 DEF Refused, eventVars
  <2>3. QED
    BY <1>1, <2>1, <2>2
<1>6. stdinOpen' <=> (test' # "UDSRoundTrip" /\ ~Past({"closeIO"})')
  <2>1. CASE call = "closeIO"
    BY <1>4, <1>5, <2>1
  <2>2. CASE call # "closeIO"
    <3>1. (Past({"closeIO"})' <=> Past({"closeIO"})) /\ stdinOpen' = stdinOpen
      BY <1>4, <1>5, <2>2
    <3>2. QED
      BY <1>1, <1>2, <3>1 DEF Calm
  <2>3. QED
    BY <2>1, <2>2
<1>7. QED
  BY <1>1, <1>2, <1>3, <1>4, <1>5, <1>6 DEF Calm

LEMMA RpcFinished ==
    ASSUME Basics, Fine, Clean', NEW call, NEW p, RpcStep(call, p)
    PROVE  Finished'
<1>1. /\ call \in Calls /\ p \in Procs /\ script[ip].call = call /\ script[ip].who = p
      /\ ip \in 1..Len(script) /\ ip <= Len(script) /\ ip' = ip + 1 /\ test' = test
      /\ \/ Legal(call, p) /\ Effect(call, p)
         \/ Refused(call, p) /\ UNCHANGED <<proc, shim, stdinOpen, eventVars>>
      /\ UNCHANGED <<src, toSend, stdin, held, fifo, got, up, down>>
  BY RpcGoes
<1>2. /\ TestOK /\ ShimOK /\ Protocol(test, ip) /\ subject \in Procs /\ Whole(test) /\ Finished
      /\ ProcAt(p) /\ (stdinOpen' => stdinOpen)
      /\ program' = program /\ subject' = subject /\ script' = script
  BY <1>1, RulesOf, SubjectOf, SameTest, RpcCalm DEF Basics, TestOK, Fine, Procs
<1>3. \A q : Did("kill", q)' <=> (call = "kill" /\ q = p) \/ Did("kill", q)
  BY <1>1, <1>2, CallBehind DEF Calls
<1>4. Did("kill", subject)' <=> (call = "kill" /\ subject = p) \/ Did("kill", subject)
  BY <1>2, <1>3
<1>5. CASE proc'[subject] = proc[subject]
  BY <1>1, <1>2, <1>4, <1>5, RpcCalm, FinishedKept
<1>6. CASE proc'[subject] # proc[subject]
  <2>1. Legal(call, p) /\ Effect(call, p)
    BY <1>1, <1>6
  <2>2. /\ call \in {"create", "exec"} => proc'[p] = "created"
        /\ call = "start" => proc'[p] = "running"
        /\ call = "kill" => proc'[p] = "stopped"
        /\ call = "delete" => proc'[p] = "deleted"
        /\ call \notin {"create", "exec", "start", "kill", "delete"} => proc' = proc
    BY <1>1, <1>2, <2>1, EffectOf
  <2>3. p = subject
    <3>1. ShimOK /\ p \in Procs /\ Effect(call, p)
      BY <1>1, <1>2, <2>1
    <3>2. \A q \in Procs : q # p => proc'[q] = proc[q]
      BY <3>1, EffectOf
    <3>3. QED
      BY <1>2, <1>6, <3>2
  <2>4. CASE call \in {"create", "exec", "start"}
    <3>1. proc'[subject] \notin {"stopped", "deleted"}
      BY <2>2, <2>3, <2>4
    <3>2. QED
      BY <1>2, <3>1 DEF Finished
  <2>5. CASE call = "kill"
    <3>1. Did("kill", subject)'
      BY <1>4, <2>3, <2>5
    <3>2. QED
      BY <3>1 DEF Finished
  <2>6. CASE call = "delete" /\ proc[p] = "stopped"
    BY <1>1, <1>2, <1>4, <2>3, <2>6, RpcCalm DEF Finished
  <2>7. CASE call = "delete" /\ proc[p] = "created"
    <3>1. (p = "exec" /\ program.ends = "missing") \/ Did("start", p)
      BY <1>1, <1>2, <2>3, <2>7 DEF Protocol, script, subject, program, Did
    <3>2. Did("start", p) => program.ends = "missing"
      <4>1. ProcAt(p) /\ proc[p] = "created"
        BY <1>2, <2>7
      <4>2. QED
        BY <4>1 DEF ProcAt
    <3>3. program.ends = "missing"
      BY <3>1, <3>2
    <3>4. program.out = "nothing"
      BY <1>2, <3>3 DEF Whole, program
    <3>5. QED
      BY <1>2, <3>3, <3>4 DEF Finished
  <2>8. call = "delete" => proc[p] \in {"created", "stopped"}
    BY <2>1 DEF Legal
  <2>9. QED
    BY <1>1, <1>6, <2>2, <2>3, <2>4, <2>5, <2>6, <2>7, <2>8
<1>7. QED
  BY <1>5, <1>6

\* The events of a call follow those that were published before.
LEMMA RpcInStep ==
    ASSUME Basics, Fine, Clean', NEW call, NEW p, RpcStep(call, p)
    PROVE  InStep'
<1>1. /\ call \in Calls /\ p \in Procs /\ script[ip].call = call /\ script[ip].who = p
      /\ ip \in 1..Len(script) /\ test' = test
      /\ \/ Legal(call, p) /\ Effect(call, p)
         \/ Refused(call, p) /\ UNCHANGED <<proc, shim, stdinOpen, eventVars>>
  BY RpcGoes
<1>2. SUFFICES ASSUME test = "Events" PROVE Forwarded(outbox, envelopes, Published)'
  BY <1>1 DEF InStep
<1>3. /\ TestOK /\ ShimOK /\ Protocol(test, ip) /\ Eventful(test, ip) /\ proc \in [Procs -> States]
      /\ ProcAt(p) /\ Published \in 0..4 /\ Forwarded(outbox, envelopes, Published)
  BY <1>1, <1>2, RulesOf, PublishedOf DEF Basics, TestOK, ShimOK, Fine, Procs, InStep
<1>4. /\ p = "init" /\ call \notin {"kill", "exec"}
      /\ call = "delete" => script[ip].on = "fatal" /\ Did("wait", p)
  BY <1>1, <1>2, <1>3 DEF Eventful, Protocol, script, Did
<1>5. ASSUME NEW n, n = Published', Forwarded(outbox', envelopes', n) PROVE Forwarded(outbox, envelopes, Published)'
  BY <1>5 DEF Forwarded
<1>6. CASE UNCHANGED <<outbox, envelopes, proc>>
  <2>1. Published' = Published
    BY <1>6 DEF Published
  <2>2. QED
    BY <1>3, <1>5, <1>6, <2>1
<1>7. CASE call \in {"create", "start", "delete"} /\ Legal(call, p) /\ Effect(call, p)
  <2>1. /\ call = "create" => proc["init"] = "none" /\ proc'["init"] = "created"
        /\ call = "start" => proc["init"] = "created" /\ proc'["init"] = "running"
        /\ call = "delete" => proc["init"] \in {"created", "stopped"} /\ proc'["init"] = "deleted"
    <3>1. /\ call = "create" => proc'[p] = "created"
          /\ call = "start" => proc'[p] = "running"
          /\ call = "delete" => proc'[p] = "deleted"
      <4>1. ShimOK /\ p \in Procs /\ Effect(call, p)
        BY <1>1, <1>3, <1>7
      <4>2. QED
        BY <4>1, EffectOf
    <3>2. /\ call = "create" => proc["init"] = "none"
          /\ call = "start" => proc[p] = "created"
          /\ call = "delete" => proc[p] \in {"created", "stopped"}
      BY <1>7 DEF Legal
    <3>3. QED
      BY <1>4, <3>1, <3>2
  <2>2. call = "delete" => proc["init"] = "stopped"
    BY <1>3, <1>4, <2>1 DEF ProcAt
  <2>3. outbox' = Append(outbox, call) /\ envelopes' = envelopes /\ call \in Topics
    BY <1>2, <1>7 DEF Effect, Emits, Publish, Topics
  <2>4. Rank(call) = Published + 1
    BY <1>3, <1>7, <2>1, <2>2, PublishedOf, RankOf
  <2>5. Published' = Rank(call)
    BY <1>7, <2>1, RankOf DEF Published
  <2>6. ASSUME NEW n, n = Published, NEW m, m = Published' PROVE Forwarded(outbox', envelopes', m)
    <3>1. n \in Nat /\ m = n + 1 /\ Rank(call) = m /\ Forwarded(outbox, envelopes, n)
      BY <1>3, <2>4, <2>5, <2>6
    <3>2. QED
      BY <2>3, <3>1, PublishForwarded
  <2>7. QED
    BY <1>5, <2>6
<1>8. CASE call \notin {"create", "start", "delete"} /\ Legal(call, p) /\ Effect(call, p)
  <2>1. proc' = proc
    BY <1>1, <1>3, <1>4, <1>8, EffectOf
  <2>2. UNCHANGED eventVars
    BY <1>1, <1>4, <1>8 DEF Effect, Emits, Calls
  <2>3. QED
    BY <1>6, <2>1, <2>2 DEF eventVars
<1>9. CASE Refused(call, p) /\ UNCHANGED <<proc, shim, stdinOpen, eventVars>>
  BY <1>6, <1>9 DEF eventVars
<1>10. QED
  BY <1>1, <1>7, <1>8, <1>9

LEMMA RpcFine ==
    ASSUME Basics, Fine, Clean', NEW call, NEW p, RpcStep(call, p)
    PROVE  Fine'
<1>1. /\ call \in Calls /\ p \in Procs /\ script[ip].call = call /\ script[ip].who = p
      /\ ip \in 1..Len(script) /\ ip <= Len(script) /\ ip' = ip + 1 /\ test' = test
      /\ \/ Legal(call, p) /\ Effect(call, p)
         \/ Refused(call, p) /\ UNCHANGED <<proc, shim, stdinOpen, eventVars>>
      /\ UNCHANGED <<sent, toSend, stdin, held, fifo, got, up, down, peer, hungUp, link>>
  BY RpcGoes
<1>2. /\ Calm' /\ (stdinOpen' => stdinOpen) /\ Finished' /\ InStep' /\ ProcAt(p)'
      /\ TestOK /\ ShimOK /\ Arrived /\ Echoed
  BY RpcCalm, RpcFinished, RpcInStep, CalledProc DEF Fine, Basics
<1>3. /\ \A c \in Calls : \A q : Did(c, q)' <=> (c = call /\ q = p) \/ Did(c, q)
      /\ \A C : call \notin C => (Past(C)' <=> Past(C))
  BY <1>1, <1>2, CallBehind
<1>4. call \notin Sees /\ call \notin {"stdoutDone"} /\ call \notin {"renew"} /\ call \notin {"listen"}
  BY <1>1 DEF Calls, Sees
<1>5. Arrived' /\ Echoed'
  <2>1. /\ Past(Sees)' <=> Past(Sees)
        /\ Past({"stdoutDone"})' <=> Past({"stdoutDone"})
        /\ Past({"renew"})' <=> Past({"renew"})
        /\ Past({"listen"})' <=> Past({"listen"})
    BY <1>3, <1>4
  <2>2. QED
    BY <1>1, <1>2, <2>1, ArrivedKept, EchoedKept
<1>6. ASSUME NEW q \in Procs, q # p PROVE ProcAt(q)'
  <2>1. ProcAt(q)
    BY <1>6 DEF Fine, Procs
  <2>2. proc'[q] = proc[q]
    <3>1. CASE Legal(call, p) /\ Effect(call, p)
      <4>1. ShimOK /\ p \in Procs /\ Effect(call, p)
        BY <1>1, <1>2, <3>1
      <4>2. QED
        BY <1>6, <4>1, EffectOf
    <3>2. CASE Refused(call, p) /\ UNCHANGED <<proc, shim, stdinOpen, eventVars>>
      BY <3>2
    <3>3. QED
      BY <1>1, <3>1, <3>2
  <2>3. \A c \in {"create", "exec", "start", "kill", "wait", "delete"} : Did(c, q)' <=> Did(c, q)
    BY <1>3, <1>6 DEF Calls
  <2>4. Did("shutdown", "init") => Did("shutdown", "init")'
    BY <1>3 DEF Calls
  <2>5. QED
    BY <1>1, <1>2, <2>1, <2>2, <2>3, <2>4, OtherProc
<1>7. (\A q \in {"init", "exec"} : ProcAt(q))'
  <2>1. ASSUME NEW q \in Procs PROVE ProcAt(q)'
    <3>1. CASE q = p
      BY <1>2, <3>1
    <3>2. QED
      BY <1>6, <2>1, <3>1
  <2>2. QED
    BY <2>1 DEF Procs
<1>8. QED
  BY <1>2, <1>5, <1>7 DEF Fine
LEMMA ActsSmooth == ASSUME Sound, Smooth, TestActs PROVE Smooth'
<1>1. SUFFICES ASSUME Clean' PROVE Fine'
  BY DEF Smooth
<1>2. TypeOK /\ Basics /\ TestOK /\ Place /\ Accounted /\ Answering
  BY TypeIsBasic DEF Sound, Basics
<1>3. Basics' /\ Moves /\ Grows
  BY <1>2, ActsKeepBasics, ActsMove DEF TestActs
<1>4. Clean /\ Fine
  BY <1>1, <1>2, <1>3, CleanBefore DEF Smooth
<1>5. CASE Does
  BY <1>1, <1>2, <1>3, <1>4, <1>5, DoesFine
<1>6. CASE rpc
  <2>1. PICK call, p : RpcStep(call, p)
    BY <1>2, <1>6, RpcSteps
  <2>2. QED
    BY <1>1, <1>2, <1>4, <2>1, RpcFine
<1>7. QED
  BY <1>5, <1>6 DEF TestActs, Does

LEMMA InitSmooth == ASSUME Init PROVE Smooth
<1>1. Basics /\ ip = 1 /\ script \in Seq([call : STRING, who : STRING, on : STRING])
  BY InitTypes, RulesOf DEF Init, Basics, TestOK, Whole, script
<1>2. /\ \A C : ~Past(C)
      /\ \A c, p : ~Did(c, p)
      /\ \A p : ~Made(script, ip, p)
  BY <1>1 DEF Past, Behind, Did, Done, Made
<1>3. /\ proc = [p \in {"init", "exec"} |-> "none"] /\ proc["init"] = "none" /\ proc["exec"] = "none"
      /\ subject \in {"init", "exec"} /\ proc[subject] = "none"
  BY <1>1, SubjectOf DEF Init, Procs, Basics
<1>4. Calm
  BY <1>2 DEF Init, NetInit, EventsInit, Calm
<1>5. \A p \in {"init", "exec"} : ProcAt(p)
  BY <1>2, <1>3 DEF ProcAt
<1>6. Finished /\ Arrived
  BY <1>2, <1>3 DEF Finished, Arrived
<1>7. Echoed
  BY <1>2 DEF Init, NetInit, Echoed
<1>8. InStep
  <2>1. outbox = <<>> /\ envelopes = <<>> /\ Published = 0
    BY <1>1, <1>3, PublishedOf DEF Init, EventsInit, Basics
  <2>2. Forwarded(<<>>, <<>>, 0)
    <3>1. ASSUME NEW s, s = <<>> PROVE Forwarded(s, s, 0)
      <4>1. s \in Seq(Topics) /\ Len(s) = 0
        BY <3>1
      <4>2. 1..0 - Len(s) = {} /\ 1..Len(s) = {}
        BY <4>1
      <4>3. [x \in {} |-> x] \in [{} -> {}]
        OBVIOUS
      <4>4. PICK p \in [1..0 - Len(s) -> 1..Len(s)] : TRUE
        BY <4>2, <4>3
      <4>5. /\ \A i \in 1..0 - Len(s) : Rank(s[p[i]]) = i
            /\ \A i, j \in 1..0 - Len(s) : i < j => p[i] < p[j]
        BY <4>2
      <4>6. /\ \A i \in 1..Len(s) : Rank(s[i]) = 0 - Len(s) + i
            /\ \A i \in 1..Len(s) : Rank(s[i]) <= 0 - Len(s)
        BY <4>2
      <4>7. \E pos \in [1..0 - Len(s) -> 1..Len(s)] :
              /\ \A i \in 1..0 - Len(s) : Rank(s[pos[i]]) = i
              /\ \A i, j \in 1..0 - Len(s) : i < j => pos[i] < pos[j]
        BY <4>4, <4>5
      <4>8. Len(s) <= 0
        BY <4>1
      <4>9. QED
        BY <4>1, <4>6, <4>7, <4>8, Zenon DEF Forwarded
    <3>2. QED
      BY <3>1
  <2>3. QED
    BY <2>1, <2>2 DEF InStep
<1>9. QED
  BY <1>4, <1>5, <1>6, <1>7, <1>8 DEF Smooth, Fine

LEMMA StepIInv == IInv /\ [Next]_vars => IInv'
<1>1. SUFFICES ASSUME Sound, Smooth, [Next]_vars PROVE Sound' /\ Smooth'
  BY DEF IInv
<1>2. Sound'
  BY <1>1, StepSound
<1>3. CASE Looks
  BY <1>1, <1>2, <1>3, LooksSmooth
<1>4. CASE TestActs
  BY <1>1, <1>2, <1>4, ActsSmooth
<1>5. CASE World
  BY <1>1, <1>2, <1>5, WorldSmooth
<1>6. CASE UNCHANGED vars
  <2>1. /\ UNCHANGED <<world, test, ip, guarded, phase, outcome, leaked, shim, proc, src, toSend, sent,
                       stdin, stdinOpen, held, fifo, got, draining, closed, drained, lost, fault, slow,
                       misread, leftover>>
        /\ UNCHANGED <<link, up, down, hungUp, peer, code, outbox, envelopes, repeats, skewed>>
    BY <1>6 DEF vars, testVars, inVars, outVars, envVars, netVars, eventVars, history
  <2>2. Quiet
    BY <2>1 DEF Quiet, Moves, Steady, KeepShim, inVars, outVars, envVars, netVars, eventVars, Grows
  <2>3. QED
    BY <1>1, <1>2, <2>1, <2>2, StutterSmooth
<1>7. QED
  BY <1>1, <1>2, <1>3, <1>4, <1>5, <1>6 DEF Next, Test, Looks, TestActs

\* A shim that conforms, on a machine that is not too slow for the timers of the test,
\* is never rejected, whichever of the tests it is and in whatever order its goroutines,
\* the processes, the copying, the connection and the events proceed: every call that
\* the test makes is one that the task protocol allows at that point, or one whose error
\* the test is prepared for; all output has arrived when it is looked at, and none of it
\* is taken for the whole before; the events that the recorder holds, late or repeated,
\* have the wanted ones among them in order; and the shim is gone when the leak check
\* looks for it.
THEOREM NoFalseAlarms == Spec => []NoFalseAlarm
<1>1. Init => IInv
  BY InitSound, InitSmooth DEF IInv
<1>2. IInv => NoFalseAlarm
  BY DEF IInv, Smooth, Clean, Fine, Calm, NoFalseAlarm, SuiteFails
<1>3. QED
  BY <1>1, <1>2, StepIInv, PTL DEF Spec
=============================================================================
