-------------------------------- MODULE Relay --------------------------------
(***************************************************************************)
(* Relay (relay.go:51-102): two pump goroutines copy packets between       *)
(* openconnect's socketpair and openvpn's, and the first of them to end    *)
(* ends both.  run() may close the two near ends at any time               *)
(* (main.go:267-268).                                                      *)
(*                                                                         *)
(* Each side s has a datagram socketpair with a near end, the bridge's,    *)
(* and a far end, its peer's.  inq[s] is what the near end has to read,    *)
(* outq[s] what the far end has.  Closing the far end does not wake a      *)
(* reader of the near one (relay_test.go:114-132); a write to it fails.    *)
(* Pump s reads from side s and writes to the other.  A packet is its      *)
(* size; an empty datagram, size 0, means "the peer is gone".              *)
(***************************************************************************)
EXTENDS Naturals, Sequences, SequencesExt

CONSTANTS Sizes,      \* sizes of the datagrams that peers send
          QueueMax,   \* datagrams a socket holds before its writer waits
          MaxPackets  \* bound: datagrams sent by each peer

ASSUME ConstantsAssumption ==
    Sizes \subseteq Nat /\ QueueMax \in Nat \ {0} /\ MaxPackets \in Nat

Sides == {"vpn", "tun"}
Closers == {"relay", "run"}
Other(s) == IF s = "vpn" THEN "tun" ELSE "vpn"

VARIABLES
    near, far,   \* near[s], far[s]: "open" or "closed"
    inq, outq,   \* datagrams queued towards the near and towards the far end
    sent,        \* history: what the peer of side s has sent
    received,    \* history: what the peer of side s has received
    pump,        \* pump[s]: "read", "write", "tally", "finish" or "ended"
    buf,         \* buf[s]: the packet pump s has read, 0 if none
    result,      \* result[s]: how pump s ended: "none", "nil" or "err"
    tally,       \* tally[s]: the Counters field of pump s
    first,       \* Relay's result, "none" until finish has run
    closer       \* closer[c]: the side c closes next, "wait" or "closed"

chanVars == <<inq, outq, sent, received>>
pumpVars == <<pump, buf, result, tally, first>>
vars == <<near, far, chanVars, pumpVars, closer>>

Init ==
    /\ near = [s \in Sides |-> "open"] /\ far = [s \in Sides |-> "open"]
    /\ inq = [s \in Sides |-> <<>>] /\ outq = [s \in Sides |-> <<>>]
    /\ sent = [s \in Sides |-> <<>>] /\ received = [s \in Sides |-> <<>>]
    /\ pump = [s \in Sides |-> "read"]
    /\ buf = [s \in Sides |-> 0]
    /\ result = [s \in Sides |-> "none"]
    /\ tally = [s \in Sides |-> 0]
    /\ first = "none" /\ closer = [c \in Closers |-> "wait"]

Goto(s, l) == pump' = [pump EXCEPT ![s] = l]

\* Pump s calls finish with r.
Finishing(s, r) == Goto(s, "finish") /\ result' = [result EXCEPT ![s] = r]
-----------------------------------------------------------------------------
(* A pump *)

\* src.Read returns a packet, or an empty one.
Read(s) ==
    /\ pump[s] = "read" /\ near[s] = "open" /\ inq[s] # <<>>
    /\ inq' = [inq EXCEPT ![s] = Tail(@)]
    /\ buf' = [buf EXCEPT ![s] = Head(inq[s])]
    /\ IF Head(inq[s]) = 0 THEN Finishing(s, "nil")
                           ELSE Goto(s, "write") /\ UNCHANGED result
    /\ UNCHANGED <<near, far, outq, sent, received, tally, first, closer>>

\* The near end it reads from has been closed under it.
ReadFails(s) ==
    /\ pump[s] = "read" /\ near[s] = "closed"
    /\ Finishing(s, "err")
    /\ UNCHANGED <<near, far, chanVars, buf, tally, first, closer>>

\* A bug: a packet for a full queue is dropped.
Write_DropsIfFull(s) ==
    LET d == Other(s) IN
    /\ pump[s] = "write" /\ near[d] = "open" /\ far[d] = "open"
    /\ outq' = IF Len(outq[d]) < QueueMax
               THEN [outq EXCEPT ![d] = Append(@, buf[s])] ELSE outq
    /\ Goto(s, "tally")
    /\ UNCHANGED <<near, far, inq, sent, received, buf, result, tally, first,
                   closer>>

\* A bug: a four-byte length goes with the packet.
Write_Prefixed(s) ==
    LET d == Other(s) IN
    /\ pump[s] = "write" /\ near[d] = "open" /\ far[d] = "open"
    /\ Len(outq[d]) < QueueMax
    /\ outq' = [outq EXCEPT ![d] = Append(@, buf[s] + 4)]
    /\ Goto(s, "tally")
    /\ UNCHANGED <<near, far, inq, sent, received, buf, result, tally, first,
                   closer>>

\* dst.Write; it waits while the queue is full.
Write(s) ==
    LET d == Other(s) IN
    /\ pump[s] = "write" /\ near[d] = "open" /\ far[d] = "open"
    /\ Len(outq[d]) < QueueMax
    /\ outq' = [outq EXCEPT ![d] = Append(@, buf[s])]
    /\ Goto(s, "tally")
    /\ UNCHANGED <<near, far, inq, sent, received, buf, result, tally, first,
                   closer>>

\* A bug: a packet that cannot be delivered is dropped and the pump goes on.
WriteFails_Ignored(s) ==
    /\ pump[s] = "write"
    /\ near[Other(s)] = "closed" \/ far[Other(s)] = "closed"
    /\ buf' = [buf EXCEPT ![s] = 0]
    /\ Goto(s, "read")
    /\ UNCHANGED <<near, far, chanVars, result, tally, first, closer>>

\* ECONNREFUSED, or the near end has been closed; the packet is lost.
WriteFails(s) ==
    /\ pump[s] = "write"
    /\ near[Other(s)] = "closed" \/ far[Other(s)] = "closed"
    /\ Finishing(s, "err")
    /\ UNCHANGED <<near, far, chanVars, buf, tally, first, closer>>

\* A bug: the other direction's counter, as a swapped argument would have it.
Tally_Swapped(s) ==
    /\ pump[s] = "tally"
    /\ tally' = [tally EXCEPT ![Other(s)] = @ + buf[s]]
    /\ buf' = [buf EXCEPT ![s] = 0]
    /\ Goto(s, "read")
    /\ UNCHANGED <<near, far, chanVars, result, first, closer>>

Tally(s) ==
    /\ pump[s] = "tally"
    /\ tally' = [tally EXCEPT ![s] = @ + buf[s]]
    /\ buf' = [buf EXCEPT ![s] = 0]
    /\ Goto(s, "read")
    /\ UNCHANGED <<near, far, chanVars, result, first, closer>>

\* A bug: the last result wins.
Finish_Last(s) ==
    /\ pump[s] = "finish"
    /\ first' = result[s]
    /\ Goto(s, "ended")
    /\ UNCHANGED <<near, far, chanVars, buf, result, tally, closer>>

\* finish: the first result is kept, and done is closed with it.
Finish(s) ==
    /\ pump[s] = "finish"
    /\ first' = IF first = "none" THEN result[s] ELSE first
    /\ Goto(s, "ended")
    /\ UNCHANGED <<near, far, chanVars, buf, result, tally, closer>>

Pump(s) ==
    Read(s) \/ ReadFails(s) \/ Write(s) \/ WriteFails(s) \/ Tally(s)
    \/ Finish(s)
-----------------------------------------------------------------------------
(* The goroutines that close the near ends: Relay's, and run()'s *)

\* Relay once finish has run, run() whatever made it leave its loop.
Begin(c) ==
    /\ closer[c] = "wait"
    /\ c = "relay" => first # "none"
    /\ closer' = [closer EXCEPT ![c] = "vpn"]
    /\ UNCHANGED <<near, far, chanVars, pumpVars>>

\* A bug: only one of the two ends is closed.
Close_OnlyVpn(c) ==
    /\ closer[c] \in Sides
    /\ near' = [near EXCEPT !["vpn"] = "closed"]
    /\ closer' = [closer EXCEPT ![c] = "closed"]
    /\ UNCHANGED <<far, chanVars, pumpVars>>

\* openconnect's side first; closing an end twice does no harm.
Close(c) ==
    /\ closer[c] \in Sides
    /\ near' = [near EXCEPT ![closer[c]] = "closed"]
    /\ closer' = [closer EXCEPT ![c] = IF @ = "vpn" THEN "tun" ELSE "closed"]
    /\ UNCHANGED <<far, chanVars, pumpVars>>
-----------------------------------------------------------------------------
(* openconnect and openvpn at the far ends *)

PeerSends(s) ==
    /\ far[s] = "open" /\ near[s] = "open"
    /\ Len(sent[s]) < MaxPackets
    /\ Len(inq[s]) < QueueMax
    /\ \E p \in Sizes : /\ inq' = [inq EXCEPT ![s] = Append(@, p)]
                        /\ sent' = [sent EXCEPT ![s] = Append(@, p)]
    /\ UNCHANGED <<near, far, outq, received, pumpVars, closer>>

PeerReads(s) ==
    /\ far[s] = "open" /\ outq[s] # <<>>
    /\ outq' = [outq EXCEPT ![s] = Tail(@)]
    /\ received' = [received EXCEPT ![s] = Append(@, Head(outq[s]))]
    /\ UNCHANGED <<near, far, inq, sent, pumpVars, closer>>

\* It exits or dies; what it has not read is gone with it.
PeerCloses(s) ==
    /\ far[s] = "open"
    /\ far' = [far EXCEPT ![s] = "closed"]
    /\ UNCHANGED <<near, chanVars, pumpVars, closer>>

Next ==
    \/ \E s \in Sides : Pump(s) \/ PeerSends(s) \/ PeerReads(s) \/ PeerCloses(s)
    \/ \E c \in Closers : Begin(c) \/ Close(c)

Spec == Init /\ [][Next]_vars

\* The scheduler runs every goroutine that can go on.  Peers owe nothing,
\* neither traffic nor an end; run() closes both ends once it has begun to.
Fairness ==
    /\ \A s \in Sides : WF_vars(Pump(s))
    /\ WF_vars(Begin("relay"))
    /\ \A c \in Closers : WF_vars(Close(c))

FairSpec == Spec /\ Fairness
-----------------------------------------------------------------------------
\* What pump s has put into the other side's socket.
Forwarded(s) == received[Other(s)] \o outq[Other(s)]

Returned == closer["relay"] = "closed"

Held(s) == IF pump[s] = "write" THEN <<buf[s]>> ELSE <<>>

\* The bytes of the packets of q.
Total(q) ==
    LET sum[n \in 0..Len(q)] == IF n = 0 THEN 0 ELSE sum[n - 1] + q[n]
    IN  sum[Len(q)]

\* The types of the variables.
TypeOK ==
    /\ near \in [Sides -> {"open", "closed"}]
    /\ far \in [Sides -> {"open", "closed"}]
    /\ inq \in [Sides -> Seq(Sizes)] /\ outq \in [Sides -> Seq(Sizes)]
    /\ sent \in [Sides -> Seq(Sizes)] /\ received \in [Sides -> Seq(Sizes)]
    /\ \A s \in Sides : Len(inq[s]) <= QueueMax /\ Len(outq[s]) <= QueueMax
    /\ pump \in [Sides -> {"read", "write", "tally", "finish", "ended"}]
    /\ buf \in [Sides -> Sizes \cup {0}]
    /\ result \in [Sides -> {"none", "nil", "err"}]
    /\ tally \in [Sides -> Nat]
    /\ first \in {"none", "nil", "err"}
    /\ closer \in [Closers -> {"wait", "vpn", "tun", "closed"}]

\* One datagram in, one datagram out, in order, in both directions: nothing is
\* dropped, repeated, reordered or sent back while both pumps run, and nothing
\* but a tail of the traffic once they have ended (relay.go:43-50).
NothingIsLost ==
    \A s \in Sides :
        IF pump[s] \in {"read", "write", "tally"}
        THEN sent[s] = Forwarded(s) \o Held(s) \o inq[s]
        ELSE IsPrefix(Forwarded(s), sent[s])

\* The counters the UI shows never run ahead of what was forwarded and lag by
\* at most the packet just written (relay.go:12-16, 89).
CountersAreExact ==
    \A s \in Sides :
        tally[s] + (IF pump[s] = "tally" THEN buf[s] ELSE 0)
            = Total(Forwarded(s))

\* What Relay returns is what ended the first pump: closing the ends, which
\* ends the other one in an error, does not change it (relay.go:56-61, 97-101).
FirstResultIsKept == [][first # "none" => first' = first]_vars

\* Once Relay has returned, neither pump can outlive it, be it blocked in a
\* read or in a write to a full socket (relay.go:97-100).
PumpsEnd == Returned ~> \A s \in Sides : pump[s] = "ended"

\* A packet for a peer that is gone ends the relay: the only way it notices.
RefusedPacketEndsRelay ==
    \A s \in Sides :
        far[Other(s)] = "closed" /\ inq[s] # <<>> ~> Returned

-----------------------------------------------------------------------------
(* What the documents say and the code does not do (README.md) *)

\* "On a DATAGRAM socket ... Read returns (0, nil) forever once the far end
\* closes" (relay.go:75-78): so that the relay ends when a peer does.
PeerCloseEndsRelay == \A s \in Sides : far[s] = "closed" ~> Returned
=============================================================================
