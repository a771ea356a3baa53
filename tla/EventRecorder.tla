--------------------------- MODULE EventRecorder ----------------------------
(***************************************************************************)
(* The event recorder (events.go): a TTRPC service that the shim pushes    *)
(* its task events to.  The shim publishes an event at once and forwards   *)
(* it later, from a goroutine of its own, so the test and the recorder     *)
(* meet a topic at different times.  Forwarding is at least once: an       *)
(* answer that is lost makes the shim forward the same event again.        *)
(***************************************************************************)
EXTENDS Naturals, Sequences
LOCAL INSTANCE SequencesExt

CONSTANT MaxRepeats   \* bound on the events that are forwarded once more

ASSUME MaxRepeatsAssumption == MaxRepeats \in Nat

VARIABLES outbox,     \* published, not yet forwarded
          envelopes,  \* eventRecorder.envelopes, by topic
          repeats,    \* how many were forwarded again
          skewed      \* history: an event was dropped or overtaken

eventVars == <<outbox, envelopes, repeats, skewed>>

\* The topics that testEvents wants, in this order.
want == <<"create", "start", "exit", "delete">>

EventsInit == outbox = <<>> /\ envelopes = <<>> /\ repeats = 0 /\ skewed = FALSE

Publish(topic) == outbox' = Append(outbox, topic) /\ UNCHANGED <<envelopes, repeats, skewed>>

\* eventRecorder.Forward, called by the shim for the event it published first.
Forward ==
    /\ outbox # <<>>
    /\ envelopes' = Append(envelopes, Head(outbox)) /\ outbox' = Tail(outbox)
    /\ UNCHANGED <<repeats, skewed>>

ForwardAgain ==
    /\ repeats < MaxRepeats /\ envelopes # <<>>
    /\ \E i \in 1..Len(envelopes) : envelopes' = Append(envelopes, envelopes[i])
    /\ repeats' = repeats + 1
    /\ UNCHANGED <<outbox, skewed>>

\* A buggy shim loses an event, or lets a later one overtake it.
Skew ==
    /\ outbox # <<>>
    /\ \/ outbox' = Tail(outbox) /\ UNCHANGED envelopes
       \/ /\ Len(outbox) > 1
          /\ envelopes' = Append(envelopes, outbox[2])
          /\ outbox' = <<outbox[1]>> \o SubSeq(outbox, 3, Len(outbox))
    /\ skewed' = TRUE
    /\ UNCHANGED repeats

\* eventRecorder.topics, and what waitForTopic looks for.
topics == envelopes
HasTopic(topic) == \E i \in 1..Len(envelopes) : envelopes[i] = topic

\* The scan of testEvents: it goes through the recorded topics once and looks for
\* the next one that it wants.  All are found if they stand there in order,
\* whatever stands between them; the scan is compared with that below.
scan(s) ==
    LET next(idx, topic) == IF idx < Len(want) /\ topic = want[idx + 1] THEN idx + 1 ELSE idx
    IN  FoldLeft(next, 0, s) = Len(want)
Subsequence(s) ==
    \E pos \in [1..Len(want) -> 1..Len(s)] :
       /\ \A i \in 1..Len(want) : s[pos[i]] = want[i]
       /\ \A i, j \in 1..Len(want) : i < j => pos[i] < pos[j]

ASSUME ScanAssumption ==
    \A n \in 0..5 : \A s \in [1..n -> {want[i] : i \in 1..Len(want)}] : scan(s) <=> Subsequence(s)

\* Mutant of InOrder: each must be there, in any order.
InOrderAny == \A i \in 1..Len(want) : HasTopic(want[i])

InOrder == Subsequence(topics)

EventsTypeOK ==
    /\ {outbox[i] : i \in DOMAIN outbox} \subseteq {want[i] : i \in DOMAIN want}
    /\ {envelopes[i] : i \in DOMAIN envelopes} \subseteq {want[i] : i \in DOMAIN want}
    /\ repeats \in 0..MaxRepeats /\ skewed \in BOOLEAN
=============================================================================
