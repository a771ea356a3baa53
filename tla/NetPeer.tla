------------------------------ MODULE NetPeer -------------------------------
(***************************************************************************)
(* The host's side of the network and socket tests (network_suite.go,      *)
(* uds_suite.go), the program nc in the container (testbin.go), and the    *)
(* connection between them.  A token travels in each direction; nc copies  *)
(* both at the same time and ends when both have ended: the peer closed    *)
(* the connection, and its stdin was closed.                               *)
(***************************************************************************)
EXTENDS Naturals

VARIABLES link,       \* "none", then "listen", then "open"; "heard" for a datagram's answer
          up, down,   \* tokens under way to the host, to the container
          hungUp,     \* the host has closed its end
          peer,       \* the goroutine of the host: "off", "accept", "closed", "done", "fail"
          code        \* nc's exit status

netVars == <<link, up, down, hungUp, peer, code>>

NetInit ==
    /\ link = "none" /\ up = 0 /\ down = 0 /\ hungUp = FALSE
    /\ peer = "off" /\ code = 0

\* net.Listen or net.ListenPacket on the host; the goroutine, if there is one.
Listen(goroutine) ==
    /\ link' = "listen" /\ peer' = IF goroutine THEN "accept" ELSE "off"
    /\ UNCHANGED <<up, down, hungUp, code>>

Dial == link = "listen" /\ link' = "open" /\ UNCHANGED <<up, down, hungUp, peer, code>>
Bind == link = "none" /\ link' = "listen" /\ UNCHANGED <<up, down, hungUp, peer, code>>

HostWrites == down' = down + 1 /\ UNCHANGED <<link, up, hungUp, peer, code>>
HangUp == hungUp' = TRUE /\ UNCHANGED <<link, up, down, peer, code>>

\* The goroutine of testOutboundTCP and testOutboundUDP: it reads the token,
\* echoes it, closes a stream, and reports.
PeerEchoes ==
    /\ peer = "accept" /\ up > 0
    /\ up' = up - 1 /\ down' = down + 1 /\ hungUp' = TRUE /\ peer' = "closed"
    /\ UNCHANGED <<link, code>>
PeerReports ==
    /\ peer = "closed" /\ peer' = "done"
    /\ UNCHANGED <<link, up, down, hungUp, code>>

\* Its deadline of 10 s: a stream's begins when the connection is accepted, a
\* datagram's before the shim is started.
PeerGivesUp ==
    /\ peer = "accept" /\ peer' = "fail" /\ hungUp' = TRUE
    /\ UNCHANGED <<link, up, down, code>>

\* ncStream: stdin to the connection, the connection to stdout.
NcSends == up = 0 /\ up' = 1 /\ UNCHANGED <<link, down, hungUp, peer, code>>
NcReceives(answer) ==
    /\ down > 0 /\ down' = down - 1
    /\ link' = IF answer THEN "heard" ELSE link
    /\ UNCHANGED <<up, hungUp, peer, code>>

NcFails == code' = 1 /\ UNCHANGED <<link, up, down, hungUp, peer>>

\* A network that swallows a token.
Swallows ==
    /\ \/ up > 0 /\ up' = 0 /\ UNCHANGED down
       \/ down > 0 /\ down' = 0 /\ UNCHANGED up
    /\ UNCHANGED <<link, hungUp, peer, code>>

NetTypeOK ==
    /\ link \in {"none", "listen", "open", "heard"} /\ up \in 0..1 /\ down \in 0..1
    /\ hungUp \in BOOLEAN /\ peer \in {"off", "accept", "closed", "done", "fail"}
    /\ code \in 0..1
=============================================================================
