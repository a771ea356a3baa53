--------------------------- MODULE TransferStream ---------------------------
(***************************************************************************)
(* One transfer between the test and the shim (transfer_io.go,             *)
(* internal/transfer/transfer.go, and the callers in transfer_suite.go and *)
(* stress_suite.go).  Marshalling a stream opens it: the id is sent to the *)
(* shim's streaming service and acknowledged, and a goroutine begins to    *)
(* copy.  Then the Transfer call names the stream.  The call returns when  *)
(* the server is done; Wait joins the goroutine; then a tar is read.       *)
(*                                                                         *)
(* The shim's two services and the library's SendStream and ReceiveStream  *)
(* are external.  The shim handles the stream and the call in goroutines   *)
(* of their own, in either order.  In a hostile world it may fail the call *)
(* or close the stream early, and the connection may break.                *)
(***************************************************************************)
EXTENDS Naturals

CONSTANTS Kinds,      \* subset of {"to", "from", "stat"}
          Chunks,     \* what the tar consists of
          Window      \* what the stream holds before its sender must wait

ASSUME KindsAssumption == Kinds \subseteq {"to", "from", "stat"}
ASSUME SizesAssumption == Chunks \in Nat \ {0} /\ Window \in Nat \ {0}

VARIABLES world,      \* "conforming" or "hostile"
          kind,       \* copy to the container, from it, or a stat of a path
          bounded,    \* ctx has a timeout: the stress subtests
          ctx,        \* "live", "expired" by its timeout, or "cancelled"
          client,     \* where the caller is
          copier,     \* the goroutine of MarshalAny: "off", "run", "done"
          copyErr,    \* s.err of the stream
          stream,     \* "none", "sent", "open", then "closed" or "broken"
          left, wire, got,   \* to send; under way; at the other end
          call,       \* the Transfer call: "none", "sent", "moving", "ok", "error"
          result,     \* what the caller returns
          fault       \* history: the shim misbehaved

dataVars == <<left, wire, got>>
vars == <<world, kind, bounded, ctx, client, copier, copyErr, stream, dataVars, call, result,
          fault>>

hostile == world = "hostile"
sends == kind = "to"
ctxDone == ctx # "live"
Amount == IF kind = "stat" THEN 1 ELSE Chunks

Init ==
    /\ world \in {"conforming", "hostile"} /\ kind \in Kinds /\ bounded \in BOOLEAN
    /\ ctx = "live" /\ client = "marshal" /\ copier = "off" /\ copyErr = "nil"
    /\ stream = "none" /\ left = Amount /\ wire = 0 /\ got = 0
    /\ call = "none" /\ result = "none" /\ fault = FALSE
-----------------------------------------------------------------------------
(* The caller. *)

\* The caller returns: the stress helpers cancel their context, and a Fatal
\* ends the test and with it t.Context().
Return(r) ==
    /\ result' = r /\ client' = "done"
    /\ ctx' = IF ctx = "live" /\ (bounded \/ r # "nil") THEN "cancelled" ELSE ctx

\* ttrpcStreamCreator.Create: open the stream and send its id ...
Create ==
    /\ client = "marshal" /\ client' = "ack" /\ stream' = "sent"
    /\ UNCHANGED <<world, kind, bounded, ctx, copier, copyErr, dataVars, call, result, fault>>

\* Mutant of Acked: the answer of the streaming service is not awaited.
AckedAtOnce == TRUE

\* ... and wait for the answer.
Acked == stream = "open"

\* ReadStream.MarshalAny, WriteStream.MarshalAny: the goroutine begins.
MarshalAny ==
    /\ client = "ack"
    /\ \/ Acked /\ client' = "call" /\ copier' = "run" /\ UNCHANGED <<ctx, result>>
       \/ stream = "broken" /\ Return("error") /\ UNCHANGED copier
       \/ ctxDone /\ Return("timeout") /\ UNCHANGED copier
    /\ UNCHANGED <<world, kind, bounded, copyErr, stream, dataVars, call, fault>>

\* tfClient.Transfer
Transfer ==
    /\ client = "call" /\ client' = "reply" /\ call' = "sent"
    /\ UNCHANGED <<world, kind, bounded, ctx, copier, copyErr, stream, dataVars, result, fault>>

Reply ==
    /\ client = "reply"
    /\ \/ call = "ok" /\ client' = "wait" /\ UNCHANGED <<ctx, result>>
       \/ call = "error" /\ Return("error")
       \/ ctxDone /\ Return("timeout")
    /\ UNCHANGED <<world, kind, bounded, copier, copyErr, stream, dataVars, call, fault>>

\* case <-s.done
Joined == copier = "done"

\* Wait: the error of the goroutine, or of the context.
Wait ==
    /\ client = "wait"
    /\ \/ Joined /\ copyErr = "nil" /\ client' = "read" /\ UNCHANGED <<ctx, result>>
       \/ Joined /\ copyErr # "nil" /\ Return("error")
       \/ ctxDone /\ Return("timeout")
    /\ UNCHANGED <<world, kind, bounded, copier, copyErr, stream, dataVars, call, fault>>

\* Mutant of TarIsWhole: whatever was received is the file.
TarAnyway == TRUE

\* The entry is found, and read to its end.
TarIsWhole == got = Chunks

\* copyFromContainer and stressTransferReadFile read the buffer; the others are
\* through.
Read ==
    /\ client = "read"
    /\ Return(IF kind = "from" /\ ~TarIsWhole THEN "error" ELSE "nil")
    /\ UNCHANGED <<world, kind, bounded, copier, copyErr, stream, dataVars, call, fault>>

Caller == Create \/ MarshalAny \/ Transfer \/ Reply \/ Wait \/ Read

\* context.WithTimeout
Expire ==
    /\ bounded /\ ctx = "live" /\ ctx' = "expired"
    /\ UNCHANGED <<world, kind, bounded, client, copier, copyErr, stream, dataVars, call, result,
                   fault>>
-----------------------------------------------------------------------------
(* The goroutine of MarshalAny: SendStream or ReceiveStream (external). *)

\* Mutant of CopierMoves: what was sent is not taken from the reader.
CopierMovesAgain ==
    /\ copier = "run" /\ ctx = "live" /\ stream \in {"open", "closed"}
    /\ IF sends
       THEN stream = "open" /\ left > 0 /\ wire < Window /\ left' = left /\ wire' = wire + 1
            /\ UNCHANGED got
       ELSE wire > 0 /\ wire' = wire - 1 /\ got' = got + 1 /\ UNCHANGED left
    /\ UNCHANGED <<world, kind, bounded, ctx, client, copier, copyErr, stream, call, result, fault>>

\* One message: sent when the stream has room, received when there is one.
CopierMoves ==
    /\ copier = "run" /\ ctx = "live" /\ stream \in {"open", "closed"}
    /\ IF sends
       THEN stream = "open" /\ left > 0 /\ wire < Window /\ left' = left - 1 /\ wire' = wire + 1
            /\ UNCHANGED got
       ELSE wire > 0 /\ wire' = wire - 1 /\ got' = got + 1 /\ UNCHANGED left
    /\ UNCHANGED <<world, kind, bounded, ctx, client, copier, copyErr, stream, call, result, fault>>

\* Mutant of CopierEnds: it does not look at its context.
CopierEndsDeaf ==
    /\ copier = "run"
    /\ \/ stream = "broken" /\ copyErr' = (IF sends THEN "nil" ELSE "error")
          /\ UNCHANGED stream
       \/ sends /\ stream = "open" /\ left = 0 /\ stream' = "closed" /\ UNCHANGED copyErr
       \/ sends /\ stream = "closed" /\ left > 0 /\ UNCHANGED <<copyErr, stream>>
       \/ ~sends /\ stream = "closed" /\ wire = 0 /\ UNCHANGED <<copyErr, stream>>
    /\ copier' = "done"
    /\ UNCHANGED <<world, kind, bounded, ctx, client, dataVars, call, result, fault>>

\* It ends with everything sent, which closes the stream, or with EOF; with a
\* broken stream, or one that the other side has closed; or with its context.
\* Only the receiver keeps an error: SendStream logs its own.
CopierEnds ==
    /\ copier = "run"
    /\ \/ stream = "broken" /\ copyErr' = (IF sends THEN "nil" ELSE "error")
          /\ UNCHANGED stream
       \/ sends /\ stream = "open" /\ left = 0 /\ stream' = "closed" /\ UNCHANGED copyErr
       \/ sends /\ stream = "closed" /\ left > 0 /\ UNCHANGED <<copyErr, stream>>
       \/ ~sends /\ stream = "closed" /\ wire = 0 /\ UNCHANGED <<copyErr, stream>>
       \/ ctxDone /\ copyErr' = (IF sends THEN "nil" ELSE "error") /\ UNCHANGED stream
    /\ copier' = "done"
    /\ UNCHANGED <<world, kind, bounded, ctx, client, dataVars, call, result, fault>>

Copier == CopierMoves \/ CopierEnds
-----------------------------------------------------------------------------
(* The shim (external). *)

ServerAcks ==
    /\ stream = "sent" /\ stream' = "open"
    /\ UNCHANGED <<world, kind, bounded, ctx, client, copier, copyErr, dataVars, call, result,
                   fault>>

\* A stream that is not registered yet is not found.
ServerBegins ==
    /\ call = "sent" /\ call' = IF stream = "sent" THEN "error" ELSE "moving"
    /\ UNCHANGED <<world, kind, bounded, ctx, client, copier, copyErr, stream, dataVars, result,
                   fault>>

ServerMoves ==
    /\ call = "moving" /\ stream \in {"open", "closed"}
    /\ IF sends
       THEN wire > 0 /\ wire' = wire - 1 /\ got' = got + 1 /\ UNCHANGED left
       ELSE stream = "open" /\ left > 0 /\ wire < Window /\ left' = left - 1 /\ wire' = wire + 1
            /\ UNCHANGED got
    /\ UNCHANGED <<world, kind, bounded, ctx, client, copier, copyErr, stream, call, result, fault>>

ServerAnswers ==
    /\ call = "moving"
    /\ \/ sends /\ got = Amount /\ UNCHANGED stream
       \/ ~sends /\ stream = "open" /\ left = 0 /\ stream' = "closed"
    /\ call' = "ok"
    /\ UNCHANGED <<world, kind, bounded, ctx, client, copier, copyErr, dataVars, result, fault>>

\* The call fails, or succeeds with the stream closed early; the connection
\* breaks; the client's stream ended before the server had everything.
ServerFails ==
    /\ call = "moving" /\ call' = "error" /\ UNCHANGED stream
    /\ \/ hostile /\ fault' = TRUE
       \/ (stream = "broken" \/ ctxDone) /\ UNCHANGED fault
    /\ UNCHANGED <<world, kind, bounded, ctx, client, copier, copyErr, dataVars, result>>
ServerTruncates ==
    /\ hostile /\ call = "moving" /\ stream = "open" /\ left > 0
    /\ call' = "ok" /\ stream' = "closed" /\ fault' = TRUE
    /\ UNCHANGED <<world, kind, bounded, ctx, client, copier, copyErr, dataVars, result>>
Breaks ==
    /\ hostile /\ stream \in {"sent", "open"} /\ stream' = "broken" /\ wire' = 0 /\ fault' = TRUE
    /\ UNCHANGED <<world, kind, bounded, ctx, client, copier, copyErr, left, got, call, result>>

Server == ServerAcks \/ ServerBegins \/ ServerMoves \/ ServerAnswers

Next == Caller \/ Expire \/ Copier \/ Server \/ ServerFails \/ ServerTruncates \/ Breaks

Spec == Init /\ [][Next]_vars

\* The goroutines run; a timeout passes.  Only a conforming server is fair.
FairSpec == Spec /\ WF_vars(Caller) /\ WF_vars(Copier) /\ WF_vars(Expire)
                 /\ WF_vars(world = "conforming" /\ (Server \/ ServerFails))
-----------------------------------------------------------------------------
TypeOK ==
    /\ world \in {"conforming", "hostile"} /\ kind \in Kinds /\ bounded \in BOOLEAN
    /\ ctx \in {"live", "expired", "cancelled"}
    /\ client \in {"marshal", "ack", "call", "reply", "wait", "read", "done"}
    /\ copier \in {"off", "run", "done"} /\ copyErr \in {"nil", "error"}
    /\ stream \in {"none", "sent", "open", "closed", "broken"}
    /\ left \in 0..Chunks /\ wire \in 0..Window /\ got \in 0..Chunks
    /\ left + wire + got <= Amount
    /\ call \in {"none", "sent", "moving", "ok", "error"}
    /\ result \in {"none", "nil", "error", "timeout"}
    /\ fault \in BOOLEAN

\* The stream is registered with the shim before the call names it, and what
\* was received is read only when it is all there: with a shim that conforms, a
\* transfer returns an error only if its time was up.
NoFalseAlarm == result = "error" => fault \/ ctx = "expired"

\* A file that is reported as read is whole, whatever breaks or ends early; one
\* that is reported as written is, unless the shim itself said so too early:
\* the sender's own error is not kept.
CopyIsWhole ==
    result = "nil" => /\ kind = "from" => got = Chunks /\ copyErr = "nil"
                      /\ kind = "to" => got = Chunks \/ fault

\* A transfer with a timeout returns, whatever the shim does, and the goroutine
\* does not outlive it; without one it does with a conforming shim.
Returns == (bounded \/ world = "conforming") ~> (client = "done" /\ copier # "run")
=============================================================================
