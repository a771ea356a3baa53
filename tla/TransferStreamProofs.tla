----------------------- MODULE TransferStreamProofs -------------------------
(***************************************************************************)
(* Proofs about TransferStream, for a tar of any size and any window of    *)
(* the stream.                                                             *)
(***************************************************************************)
EXTENDS TransferStream, TLAPS

(***************************************************************************)
(* The inductive invariant.                                                *)
(***************************************************************************)

\* Nothing is lost or made up on a stream that is whole.
Accounted == stream # "broken" => left + wire + got = Amount

\* The goroutine begins with the acknowledged stream, before the call.
Order ==
    /\ client \in {"marshal", "ack"} => copier = "off"
    /\ client \in {"call", "reply", "wait", "read"} => copier # "off"
    /\ client \in {"wait", "read"} => call = "ok"
    /\ client = "marshal" => stream = "none"
    /\ client = "ack" => stream \in {"sent", "open", "broken"}
    /\ copier = "off" => call = "none"
    /\ copier # "off" => stream \in {"open", "closed", "broken"}

\* An error has a reason: the shim's, or the end of the context.  The caller
\* cancels that only when it returns.
Blame ==
    /\ stream = "broken" => fault
    /\ call = "error" => fault \/ ctxDone
    /\ copyErr # "nil" => fault \/ ctxDone
    /\ client # "done" => ctx # "cancelled"

\* How a copy comes to its end.  A receiver without an error has seen EOF, and
\* all that was sent before it.
Ending ==
    /\ ~sends /\ stream = "closed" => left = 0 \/ fault
    /\ ~sends /\ copier = "done" /\ copyErr = "nil" => stream = "closed" /\ wire = 0
    /\ sends /\ call = "ok" => got = Amount \/ fault

\* What the caller has seen when it goes on, and when it returns.
Returned ==
    /\ client = "read" => copier = "done" /\ copyErr = "nil"
    /\ result # "none" <=> client = "done"
    /\ result = "nil" => copier = "done" /\ copyErr = "nil" /\ call = "ok"
    /\ result = "nil" /\ kind = "from" => got = Chunks
    /\ result = "error" => fault \/ ctx = "expired"

IInv == TypeOK /\ Accounted /\ Order /\ Blame /\ Ending /\ Returned
-----------------------------------------------------------------------------
LEMMA AmountInRange == Amount \in 1..Chunks
BY SizesAssumption DEF Amount

LEMMA InitIInv == Init => IInv
<1> SUFFICES ASSUME Init PROVE IInv
  OBVIOUS
<1>1. left = Amount /\ wire = 0 /\ got = 0 /\ Amount \in 1..Chunks
  BY AmountInRange DEF Init
<1>2. /\ left \in 0..Chunks /\ wire \in 0..Window /\ got \in 0..Chunks
      /\ left + wire + got = Amount /\ left + wire + got <= Amount
  BY <1>1, SizesAssumption
<1>3. TypeOK
  BY <1>2 DEF Init, TypeOK
<1>4. Accounted
  BY <1>2 DEF Accounted
<1>5. Order /\ Blame /\ Ending /\ Returned
  BY DEF Init, Order, Blame, Ending, Returned, ctxDone
<1>6. QED
  BY <1>3, <1>4, <1>5 DEF IInv

\* The steps of the caller move no data.
LEMMA CallerTypes == ASSUME IInv, Caller \/ Expire PROVE TypeOK' /\ Accounted'
<1>1. UNCHANGED <<world, kind, bounded, left, wire, got, fault>> /\ Amount' = Amount
  BY DEF Caller, Create, MarshalAny, Transfer, Reply, Wait, Read, Return, Expire, dataVars, Amount
<1>2. /\ ctx' \in {"live", "expired", "cancelled"}
      /\ client' \in {"marshal", "ack", "call", "reply", "wait", "read", "done"}
      /\ result' \in {"none", "nil", "error", "timeout"}
  BY DEF IInv, TypeOK, Caller, Create, MarshalAny, Transfer, Reply, Wait, Read, Return, Expire
<1>3. /\ copier' \in {"off", "run", "done"} /\ copyErr' \in {"nil", "error"}
      /\ stream' \in {"none", "sent", "open", "closed", "broken"}
      /\ call' \in {"none", "sent", "moving", "ok", "error"}
  BY DEF IInv, TypeOK, Caller, Create, MarshalAny, Transfer, Reply, Wait, Read, Return, Expire
<1>4. stream' = stream \/ (stream = "none" /\ stream' = "sent")
  BY DEF IInv, Order, Caller, Create, MarshalAny, Transfer, Reply, Wait, Read, Expire
<1>5. QED
  BY <1>1, <1>2, <1>3, <1>4 DEF IInv, TypeOK, Accounted

LEMMA CreateIInv == ASSUME IInv, Create PROVE IInv'
<1> USE DEF Create, dataVars, IInv
<1>1. TypeOK' /\ Accounted'
  BY CallerTypes DEF Caller
<1>2. Order'
  BY DEF Order
<1>3. Blame' /\ Ending' /\ Returned'
  BY DEF Order, Blame, Ending, Returned, ctxDone, sends, Amount
<1>4. QED
  BY <1>1, <1>2, <1>3

LEMMA MarshalIInv == ASSUME IInv, MarshalAny PROVE IInv'
<1> USE DEF MarshalAny, Return, Acked, dataVars, IInv
<1>1. TypeOK' /\ Accounted'
  BY CallerTypes DEF Caller
<1>2. Order'
  BY DEF Order
<1>3. Blame' /\ Ending'
  BY DEF Order, Blame, Ending, ctxDone, sends, Amount
<1>4. Returned'
  BY DEF Order, Blame, Returned, ctxDone
<1>5. QED
  BY <1>1, <1>2, <1>3, <1>4

LEMMA TransferIInv == ASSUME IInv, Transfer PROVE IInv'
<1> USE DEF Transfer, dataVars, IInv
<1>1. TypeOK' /\ Accounted'
  BY CallerTypes DEF Caller
<1>2. Order'
  BY DEF Order
<1>3. Blame' /\ Ending' /\ Returned'
  BY DEF Order, Blame, Ending, Returned, ctxDone, sends, Amount
<1>4. QED
  BY <1>1, <1>2, <1>3

LEMMA ReplyIInv == ASSUME IInv, Reply PROVE IInv'
<1> USE DEF Reply, Return, dataVars, IInv
<1>1. TypeOK' /\ Accounted'
  BY CallerTypes DEF Caller
<1>2. Order'
  BY DEF Order
<1>3. Blame' /\ Ending'
  BY DEF Order, Blame, Ending, ctxDone, sends, Amount
<1>4. Returned'
  BY DEF Order, Blame, Returned, ctxDone, TypeOK
<1>5. QED
  BY <1>1, <1>2, <1>3, <1>4

LEMMA WaitIInv == ASSUME IInv, Wait PROVE IInv'
<1> USE DEF Wait, Joined, Return, dataVars, IInv
<1>1. TypeOK' /\ Accounted'
  BY CallerTypes DEF Caller
<1>2. Order'
  BY DEF Order
<1>3. Blame' /\ Ending'
  BY DEF Order, Blame, Ending, ctxDone, sends, Amount
<1>4. Returned'
  BY DEF Order, Blame, Returned, ctxDone, TypeOK
<1>5. QED
  BY <1>1, <1>2, <1>3, <1>4

\* A tar that is not whole has been cut by the shim.
LEMMA ReadIInv == ASSUME IInv, Read PROVE IInv'
<1> USE DEF Read, Return, dataVars, IInv
<1>1. TypeOK' /\ Accounted'
  BY CallerTypes DEF Caller
<1>2. Order'
  BY DEF Order
<1>3. Blame' /\ Ending'
  BY DEF Order, Blame, Ending, ctxDone, sends, Amount
<1>4. kind = "from" /\ ~fault => got = Chunks
  <2> SUFFICES ASSUME kind = "from", ~fault PROVE got = Chunks
    OBVIOUS
  <2>1. stream = "closed" /\ wire = 0 /\ left = 0
    BY DEF Returned, Ending, sends
  <2>2. left + wire + got = Chunks
    BY <2>1 DEF Accounted, Amount
  <2>3. QED
    BY <2>1, <2>2, SizesAssumption DEF TypeOK
<1>5. Returned'
  BY <1>4 DEF Order, Returned, TarIsWhole
<1>6. QED
  BY <1>1, <1>2, <1>3, <1>5

LEMMA ExpireIInv == ASSUME IInv, Expire PROVE IInv'
<1> USE DEF Expire, dataVars, IInv
<1>1. TypeOK' /\ Accounted'
  BY CallerTypes
<1>2. Order' /\ Ending'
  BY DEF Order, Ending, sends, Amount
<1>3. Blame' /\ Returned'
  BY DEF Blame, Returned, ctxDone
<1>4. QED
  BY <1>1, <1>2, <1>3
-----------------------------------------------------------------------------
(* A message is put on the stream, or taken from it. *)

LEMMA PutKeeps ==
    ASSUME TypeOK, left > 0, wire < Window, left' = left - 1, wire' = wire + 1, got' = got,
           kind' = kind
    PROVE  /\ left' \in 0..Chunks /\ wire' \in 0..Window /\ got' \in 0..Chunks
           /\ left' + wire' + got' = left + wire + got
           /\ left + wire + got <= Amount /\ Amount' = Amount
BY SizesAssumption DEF TypeOK, Amount

LEMMA TakeKeeps ==
    ASSUME TypeOK, wire > 0, wire' = wire - 1, got' = got + 1, left' = left, kind' = kind
    PROVE  /\ left' \in 0..Chunks /\ wire' \in 0..Window /\ got' \in 0..Chunks
           /\ left' + wire' + got' = left + wire + got
           /\ left + wire + got <= Amount /\ Amount' = Amount /\ got < Amount
<1>1. /\ left \in Nat /\ wire \in Nat /\ got \in Nat /\ left + wire + got <= Amount
      /\ left <= Chunks /\ wire <= Window
  BY SizesAssumption DEF TypeOK
<1>2. Amount \in Nat /\ Amount <= Chunks /\ Chunks \in Nat /\ Window \in Nat
  BY AmountInRange, SizesAssumption
<1>3. Amount' = Amount
  BY DEF Amount
<1>4. QED
  BY <1>1, <1>2, <1>3

LEMMA CopierMovesIInv == ASSUME IInv, CopierMoves PROVE IInv'
<1>1. /\ UNCHANGED <<world, kind, bounded, ctx, client, copier, copyErr, stream, call, result, fault>>
      /\ copier = "run" /\ stream \in {"open", "closed"}
      /\ \/ sends /\ left > 0 /\ wire < Window /\ left' = left - 1 /\ wire' = wire + 1 /\ got' = got
         \/ ~sends /\ wire > 0 /\ wire' = wire - 1 /\ got' = got + 1 /\ left' = left
  BY DEF CopierMoves
<1>2. /\ left' \in 0..Chunks /\ wire' \in 0..Window /\ got' \in 0..Chunks
      /\ left' + wire' + got' = left + wire + got
      /\ left + wire + got <= Amount /\ Amount' = Amount
  BY <1>1, PutKeeps, TakeKeeps DEF IInv
<1>3. TypeOK' /\ Accounted'
  BY <1>1, <1>2 DEF IInv, TypeOK, Accounted
<1>4. Order' /\ Blame' /\ Returned'
  BY <1>1 DEF IInv, Order, Blame, Returned, ctxDone
<1>5. Ending'
  BY <1>1, <1>2 DEF IInv, Ending, sends
<1>6. QED
  BY <1>3, <1>4, <1>5 DEF IInv

LEMMA CopierEndsIInv == ASSUME IInv, CopierEnds PROVE IInv'
<1>1. /\ UNCHANGED <<world, kind, bounded, ctx, client, left, wire, got, call, result, fault>>
      /\ copier = "run" /\ copier' = "done" /\ Amount' = Amount /\ sends' = sends
      /\ stream' = stream \/ (sends /\ stream = "open" /\ stream' = "closed")
      /\ copyErr' \in {copyErr, "nil", "error"}
  BY DEF CopierEnds, dataVars, Amount, sends
<1>2. TypeOK' /\ Accounted'
  BY <1>1 DEF IInv, TypeOK, Accounted
<1>3. Order'
  BY <1>1 DEF IInv, Order
<1>4. Blame' /\ Returned'
  BY <1>1 DEF CopierEnds, IInv, Blame, Returned, ctxDone, TypeOK
<1>5. Ending'
  BY <1>1 DEF CopierEnds, IInv, Ending
<1>6. QED
  BY <1>2, <1>3, <1>4, <1>5 DEF IInv
-----------------------------------------------------------------------------
(* The shim. *)

LEMMA ServerAcksIInv == ASSUME IInv, ServerAcks PROVE IInv'
<1>1. /\ UNCHANGED <<world, kind, bounded, ctx, client, copier, copyErr, left, wire, got, call, result, fault>>
      /\ stream = "sent" /\ stream' = "open" /\ Amount' = Amount /\ sends' = sends
  BY DEF ServerAcks, dataVars, Amount, sends
<1>2. TypeOK' /\ Accounted'
  BY <1>1 DEF IInv, TypeOK, Accounted
<1>3. Order' /\ Blame' /\ Ending' /\ Returned'
  BY <1>1 DEF IInv, Order, Blame, Ending, Returned, ctxDone
<1>4. QED
  BY <1>2, <1>3 DEF IInv

\* The stream is known when the call names it.
LEMMA ServerBeginsIInv == ASSUME IInv, ServerBegins PROVE IInv'
<1>1. /\ UNCHANGED <<world, kind, bounded, ctx, client, copier, copyErr, stream, left, wire, got, result, fault>>
      /\ call = "sent" /\ Amount' = Amount /\ sends' = sends
  BY DEF ServerBegins, dataVars, Amount, sends
<1>2. call' = "moving"
  BY <1>1 DEF ServerBegins, IInv, Order, TypeOK
<1>3. TypeOK' /\ Accounted'
  BY <1>1, <1>2 DEF IInv, TypeOK, Accounted
<1>4. Order' /\ Blame' /\ Ending' /\ Returned'
  BY <1>1, <1>2 DEF IInv, Order, Blame, Ending, Returned, ctxDone
<1>5. QED
  BY <1>3, <1>4 DEF IInv

LEMMA ServerMovesIInv == ASSUME IInv, ServerMoves PROVE IInv'
<1>1. /\ UNCHANGED <<world, kind, bounded, ctx, client, copier, copyErr, stream, call, result, fault>>
      /\ call = "moving" /\ stream \in {"open", "closed"}
      /\ \/ sends /\ wire > 0 /\ wire' = wire - 1 /\ got' = got + 1 /\ left' = left
         \/ /\ ~sends /\ stream = "open" /\ left > 0 /\ wire < Window
            /\ left' = left - 1 /\ wire' = wire + 1 /\ got' = got
  BY DEF ServerMoves
<1>2. /\ left' \in 0..Chunks /\ wire' \in 0..Window /\ got' \in 0..Chunks
      /\ left' + wire' + got' = left + wire + got
      /\ left + wire + got <= Amount /\ Amount' = Amount
  BY <1>1, PutKeeps, TakeKeeps DEF IInv
<1>3. TypeOK' /\ Accounted'
  BY <1>1, <1>2 DEF IInv, TypeOK, Accounted
<1>4. Order' /\ Blame' /\ Ending'
  BY <1>1 DEF IInv, Order, Blame, Ending, ctxDone, sends
<1>5. Returned'
  BY <1>1 DEF IInv, Returned, sends
<1>6. QED
  BY <1>3, <1>4, <1>5 DEF IInv

\* It says that it is done when it has everything, or has sent everything.
LEMMA ServerAnswersIInv == ASSUME IInv, ServerAnswers PROVE IInv'
<1>1. /\ UNCHANGED <<world, kind, bounded, ctx, client, copier, copyErr, left, wire, got, result, fault>>
      /\ call = "moving" /\ call' = "ok" /\ Amount' = Amount /\ sends' = sends
      /\ \/ sends /\ got = Amount /\ stream' = stream
         \/ ~sends /\ stream = "open" /\ left = 0 /\ stream' = "closed"
  BY DEF ServerAnswers, dataVars, Amount, sends
<1>2. TypeOK' /\ Accounted'
  BY <1>1 DEF IInv, TypeOK, Accounted
<1>3. Order' /\ Blame' /\ Returned'
  BY <1>1 DEF IInv, Order, Blame, Returned, ctxDone
<1>4. Ending'
  BY <1>1 DEF IInv, Ending
<1>5. QED
  BY <1>2, <1>3, <1>4 DEF IInv

LEMMA ServerFailsIInv == ASSUME IInv, ServerFails PROVE IInv'
<1>1. /\ UNCHANGED <<world, kind, bounded, ctx, client, copier, copyErr, stream, left, wire, got, result>>
      /\ call = "moving" /\ call' = "error" /\ Amount' = Amount /\ sends' = sends
      /\ fault' = TRUE \/ (fault' = fault /\ (stream = "broken" \/ ctxDone))
  BY DEF ServerFails, dataVars, Amount, sends
<1>2. fault' \in BOOLEAN
  <2>1. CASE fault' = TRUE
    BY <2>1
  <2>2. CASE fault' = fault
    BY <2>2 DEF IInv, TypeOK
  <2>3. QED
    BY <1>1, <2>1, <2>2
<1>3. TypeOK' /\ Accounted'
  BY <1>1, <1>2 DEF IInv, TypeOK, Accounted
<1>4. Order' /\ Blame' /\ Ending' /\ Returned'
  BY <1>1 DEF IInv, Order, Blame, Ending, Returned, ctxDone
<1>5. QED
  BY <1>3, <1>4 DEF IInv

LEMMA ServerTruncatesIInv == ASSUME IInv, ServerTruncates PROVE IInv'
<1>1. /\ UNCHANGED <<world, kind, bounded, ctx, client, copier, copyErr, left, wire, got, result>>
      /\ call = "moving" /\ call' = "ok" /\ Amount' = Amount /\ sends' = sends
      /\ stream = "open" /\ stream' = "closed" /\ fault' = TRUE
  BY DEF ServerTruncates, dataVars, Amount, sends
<1>2. TypeOK' /\ Accounted'
  BY <1>1 DEF IInv, TypeOK, Accounted
<1>3. Order' /\ Blame' /\ Ending' /\ Returned'
  BY <1>1 DEF IInv, Order, Blame, Ending, Returned, ctxDone
<1>4. QED
  BY <1>2, <1>3 DEF IInv

\* What was under way is lost.
LEMMA BreaksIInv == ASSUME IInv, Breaks PROVE IInv'
<1>1. /\ UNCHANGED <<world, kind, bounded, ctx, client, copier, copyErr, left, got, call, result>>
      /\ stream \in {"sent", "open"} /\ stream' = "broken" /\ wire' = 0 /\ fault' = TRUE
      /\ Amount' = Amount /\ sends' = sends
  BY DEF Breaks, Amount, sends
<1>2. wire' \in 0..Window /\ left' + wire' + got' <= Amount
  <2>1. /\ left \in Nat /\ wire \in Nat /\ got \in Nat /\ left + wire + got <= Amount
        /\ Amount \in Nat /\ Window \in Nat
    BY AmountInRange, SizesAssumption DEF IInv, TypeOK
  <2>2. QED
    BY <1>1, <2>1
<1>3. TypeOK' /\ Accounted'
  BY <1>1, <1>2 DEF IInv, TypeOK, Accounted
<1>4. Order' /\ Blame' /\ Ending' /\ Returned'
  BY <1>1 DEF IInv, Order, Blame, Ending, Returned, ctxDone
<1>5. QED
  BY <1>3, <1>4 DEF IInv

LEMMA NextIInv == IInv /\ [Next]_vars => IInv'
<1> SUFFICES ASSUME IInv, [Next]_vars PROVE IInv'
  OBVIOUS
<1>1. CASE Caller
  BY <1>1, CreateIInv, MarshalIInv, TransferIInv, ReplyIInv, WaitIInv, ReadIInv DEF Caller
<1>2. CASE Expire
  BY <1>2, ExpireIInv
<1>3. CASE Copier
  BY <1>3, CopierMovesIInv, CopierEndsIInv DEF Copier
<1>4. CASE Server \/ ServerFails \/ ServerTruncates \/ Breaks
  BY <1>4, ServerAcksIInv, ServerBeginsIInv, ServerMovesIInv, ServerAnswersIInv,
     ServerFailsIInv, ServerTruncatesIInv, BreaksIInv DEF Server
<1>5. CASE UNCHANGED vars
  <2>1. /\ UNCHANGED <<world, kind, bounded, ctx, client, copier, copyErr, stream, left, wire,
                       got, call, result, fault>>
        /\ Amount' = Amount /\ sends' = sends
    BY <1>5 DEF vars, dataVars, Amount, sends
  <2>2. TypeOK' /\ Accounted'
    BY <2>1 DEF IInv, TypeOK, Accounted
  <2>3. Order' /\ Blame' /\ Ending' /\ Returned'
    BY <2>1 DEF IInv, Order, Blame, Ending, Returned, ctxDone
  <2>4. QED
    BY <2>2, <2>3 DEF IInv
<1>6. QED
  BY <1>1, <1>2, <1>3, <1>4, <1>5 DEF Next

LEMMA Invariance == Spec => []IInv
BY InitIInv, NextIInv, PTL DEF Spec
-----------------------------------------------------------------------------
(***************************************************************************)
(* The theorems.                                                           *)
(***************************************************************************)

\* The state of a transfer keeps its types: the stream never holds more than its
\* window, and no more arrives than was there to send.
THEOREM TypeCorrect == Spec => []TypeOK
<1>1. IInv => TypeOK
  BY DEF IInv
<1>2. QED
  BY Invariance, <1>1, PTL

\* For a tar of any size: a shim that conforms is not blamed, unless the time of
\* the transfer was up.
THEOREM NoErrorWithoutReason == Spec => []NoFalseAlarm
<1>1. IInv => NoFalseAlarm
  BY DEF IInv, Returned, NoFalseAlarm
<1>2. QED
  BY Invariance, <1>1, PTL

\* For a tar of any size and whatever breaks: what is reported as read is whole,
\* and so is what is reported as written, unless the shim said so too early.
THEOREM CopiesAreWhole == Spec => []CopyIsWhole
<1>1. IInv => CopyIsWhole
  BY DEF IInv, Returned, Ending, CopyIsWhole, sends, Amount
<1>2. QED
  BY Invariance, <1>1, PTL
=============================================================================
