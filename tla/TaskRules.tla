----------------------------- MODULE TaskRules ------------------------------
(***************************************************************************)
(* What the scripts of TaskScripts have in common, as far as the proofs    *)
(* about TaskSession rely on it: the order in which a test uses the task   *)
(* API, its FIFOs and its peer.  TLC evaluates the rules for every script  *)
(* (ScriptsAssumption); the proofs know the scripts by them alone.         *)
(***************************************************************************)
EXTENDS TaskScripts, Naturals

\* The task API as the tests use it, the steps that may skip the test, and those
\* after which the output has been seen.
Calls == {"create", "start", "exec", "state", "kill", "wait", "delete", "closeIO", "shutdown"}
Skips == {"probe", "attach", "format"}
Sees == {"drainDone", "stdoutDone", "capped", "poll", "pause"}

\* Before step i, and from it on: a step with one of these calls.
Behind(s, i, calls) == \E j \in 1..i - 1 : s[j].call \in calls
Ahead(s, i, calls) == \E j \in i..Len(s) : s[j].call \in calls

\* Before step i the call was made for p, since the last renew, which begins
\* everything anew except the container's init process.
Done(s, i, call, p) ==
    \E j \in 1..i - 1 : /\ s[j].call = call /\ s[j].who = p
                        /\ p = "init" \/ \A k \in j..i - 1 : s[k].call # "renew"
Made(s, i, p) == Done(s, i, IF p = "init" THEN "create" ELSE "exec", p)
Begun(t, i) == \E j \in 1..i - 1 : Scripts[t][j].call = "start" /\ Scripts[t][j].who = Subject(t)

\* The host has a goroutine that answers the container.
Outbound(s) == \E i \in 1..Len(s) : s[i].call = "listen" /\ s[i].who = "goroutine"

\* A process that does not end by itself.
Stays(t, p) == p # Subject(t) \/ Program(t).ends = "never"
-----------------------------------------------------------------------------
\* How the goroutine can leave its script: to a shutdownShim at the end, and by a
\* skip only before the process under test was started.
Shape(t, i) ==
    LET s == Scripts[t] IN
    /\ s[i].on \in {"fatal", "soft", "tolerate", "ignore", "expect", "return"}
    /\ s[i].call \in Calls => s[i].who \in {"init", "exec"} /\ s[i].on # "soft"
    /\ s[i].call = "guard" =>
          /\ i + 4 <= Len(s)
          /\ \A k \in Len(s) - 3..Len(s) : s[k].call \in Calls /\ s[k].on = "ignore"
    /\ s[i].call \in Skips => /\ ~Behind(s, i, {"guard"}) /\ ~Begun(t, i)
                              /\ \A j \in 1..i - 1 : s[j].on # "soft"
    /\ s[i].on = "return" => ~Ahead(s, 1, {"poll", "verify", "writer", "order", "renew"})

\* What is sent to the process under test, and when the answer is looked at.
Traffic(t, i) ==
    LET s == Scripts[t]
        program == Program(t)
    IN
    /\ s[i].call \in {"write", "writer"} =>
          /\ program.out \in {"stdin", "conn"} /\ t # "UDSRoundTrip"
          /\ ~Behind(s, i, {"closeIO"} \cup Sees)
    /\ s[i].call = "writer" => program.out = "stdin" /\ ~Behind(s, i, {"writer", "writeDone"})
    /\ s[i].call = "send" => program.out = "conn" /\ program.ends = "stream" /\ Begun(t, i)
    /\ s[i].call \in {"write", "send"} /\ program.out = "conn" =>
          ~Ahead(s, i + 1, {"write", "send"})
    /\ s[i].call \in {"poll", "verify"} /\ program.out = "stdin" =>
          /\ ~Ahead(s, i, {"write", "writer"})
          /\ Behind(s, i, {"writer"}) => Behind(s, i, {"writeDone"})
    /\ s[i].call \in {"poll", "pause", "capped"} => ~Behind(s, i, {"writer"})
    /\ s[i].call = "pause" => program.out \in {"own", "stdin"}
    /\ s[i].call \in {"drainDone", "stdoutDone", "capped"} =>
          program.ends \in {"written", "eof", "stream", "heard"} /\ ~Done(s, i, "kill", Subject(t))
    /\ s[i].call = "verify" =>
          /\ program.out # "nothing" /\ Behind(s, i, Sees)
          /\ program.out = "conn" => Outbound(s) /\ Behind(s, i, {"listen"}) /\ Behind(s, i, {"stdoutDone"})
    /\ s[i].call \in {"some", "reading"} =>
          program.out = "own" /\ Behind(s, i, Sees) /\ ~Ahead(s, 1, {"renew"})
    /\ s[i].call = "listen" =>
          /\ Ahead(s, i, {"write", "send"}) /\ program.out = "conn" /\ ~Behind(s, i, {"listen"})
          /\ Outbound(s) => s[i].who = "goroutine"
    /\ s[i].call \in {"hangup", "send"} => ~Outbound(s)

\* The calls a test makes in which order, and which of them must succeed.
Protocol(t, i) ==
    LET s == Scripts[t]
        p == s[i].who
        D(call, q) == Done(s, i, call, q)
        must == s[i].on \in {"fatal", "return"}
        missing == p = "exec" /\ Program(t).ends = "missing"
    IN
    /\ s[i].call = "setup" => ~Behind(s, i, {"setup"})
    /\ s[i].call \in Calls => Behind(s, i, {"setup"}) /\ ~D("shutdown", "init")
    /\ s[i].call \in {"create", "exec"} =>
          /\ must /\ p = (IF s[i].call = "create" THEN "init" ELSE "exec")
          /\ ~Made(s, i, p) /\ ~D("wait", p) /\ ~D("delete", p)
    /\ s[i].call = "exec" => Subject(t) = "exec" /\ D("start", "init") /\ ~D("kill", "init")
    /\ s[i].call = "start" =>
          /\ Made(s, i, p) /\ ~D("start", p) /\ ~D("kill", p) /\ ~D("wait", p) /\ ~D("delete", p)
          /\ IF missing THEN s[i].on = "expect" ELSE must
    /\ s[i].call = "state" =>
          must /\ p = "init" /\ D("start", "init") /\ ~D("kill", "init") /\ Stays(t, "init")
    /\ s[i].call = "kill" =>
          \/ s[i].on = "ignore"
          \/ s[i].on = "tolerate" /\ ~missing /\ D("start", p) /\ ~D("delete", p)
    /\ s[i].call = "wait" =>
          s[i].on = "ignore" \/ (must /\ Made(s, i, p) /\ ~D("delete", p))
    /\ s[i].call = "delete" =>
          /\ s[i].on = "ignore" \/ (must /\ Made(s, i, p) /\ D("wait", p) /\ ~D("delete", p))
          /\ p = Subject(t) => missing \/ D("start", p)
    /\ s[i].call = "closeIO" =>
          /\ must /\ p = Subject(t) /\ D("start", p) /\ ~D("kill", p)
          /\ Program(t).ends \in {"eof", "stream", "heard"}
          /\ ~Behind(s, i, {"closeIO"}) /\ t # "UDSRoundTrip"
    /\ s[i].call = "shutdown" => s[i].on = "ignore" /\ p = "init"

\* testEvents: the topics are awaited before the shim is shut down and their
\* order is looked at.
Eventful(t, i) ==
    LET s == Scripts[t] IN
    /\ s[i].call = "order" => t = "Events"
    /\ t = "Events" =>
          /\ s[i].call \notin Skips \cup {"kill"} /\ s[i].on # "return"
          /\ s[i].call \in Calls => s[i].who = "init"
          /\ s[i].call = "delete" => Done(s, i, "start", "init") /\ s[i].on = "fatal"
          /\ s[i].call \in {"shutdown", "order"} => Done(s, i, "topic", "delete")

\* testHundredLayers: the second listing is looked at after its exec has ended and
\* a pause.
Layered(t, i) ==
    LET s == Scripts[t] IN
    Ahead(s, 1, {"renew"}) =>
       /\ t = "HundredLayers" /\ s[i].on # "soft"
       /\ Subject(t) = "exec" /\ Program(t).out = "own" /\ Program(t).ends = "written"
       /\ s[i].call = "kill" => s[i].who = "init"
       /\ s[i].call = "wait" /\ s[i].who = "exec" => s[i].on = "fatal"
       /\ s[i].call = "pause" => Done(s, i, "wait", "exec")
       /\ s[i].call = "delete" /\ s[i].who = "exec" => Done(s, i, "wait", "exec")
       /\ s[i].call = "renew" =>
             /\ i > 1 /\ s[i - 1].call = "verify" /\ ~Behind(s, i, {"renew"}) /\ Begun(t, i)
             /\ \E v \in i..Len(s) : s[v].call = "verify" /\ Done(s, v, "pause", "none")

\* A script as a whole: it shuts its shim down, and looks at the output, if there is
\* one, and is not one of the two that need not be complete.
Whole(t) ==
    LET s == Scripts[t]
        program == Program(t)
    IN
    /\ s \in Seq([call : STRING, who : STRING, on : STRING])
    /\ Ahead(s, 1, {"shutdown"})
    /\ program.out # "nothing" /\ t \notin {"StressGuestMem", "DNSResolve"} =>
          Ahead(s, 1, {"poll", "verify"})
    /\ \/ program.out = "own" /\ program.ends \in {"written", "never"}
       \/ program.out = "stdin" /\ program.ends = "eof"
       \/ program.out = "conn" /\ program.ends \in {"stream", "heard"}
       \/ program.out = "nothing" /\ program.ends \in {"written", "never", "missing"}
    /\ program.opens = "datagram" <=> program.ends = "heard"
    /\ Subject(t) \in {"init", "exec"}
    /\ t = "Events" => /\ Subject(t) = "init" /\ program.ends = "written"
                       /\ Ahead(s, 1, {"order"})

ASSUME ScriptsAssumption ==
    \A t \in DOMAIN Scripts :
       /\ Whole(t)
       /\ \A i \in 1..Len(Scripts[t]) : /\ Shape(t, i) /\ Traffic(t, i) /\ Protocol(t, i)
                                        /\ Eventful(t, i) /\ Layered(t, i)
=============================================================================
