----------------------------- MODULE EnetChannel -----------------------------
(***************************************************************************)
(* How ENet keeps the promise of ReliableChannel: one channel of one       *)
(* connection, one way, over datagrams that get lost, doubled, delayed and *)
(* overtaken.  A command is known on the wire by 16 bits of its number,    *)
(* which wrap; sender and receiver divide them into windows, and what the  *)
(* receiver takes, acknowledges or drops depends on the window alone.      *)
(*                                                                         *)
(* The sender counts its commands without bound, as the model's means to   *)
(* tell them apart; the receiver has nothing but what is in the datagram.  *)
(* A datagram carries one command here: ENet puts several into one, and    *)
(* then they are lost together, which is one of the ways to lose them.     *)
(***************************************************************************)
EXTENDS Naturals, FiniteSets, Sequences

CONSTANTS
    Packets,       \* number of packets the program sends
    Long,          \* those that are sent in fragments
    FragmentCount, \* fragments of a long packet; 8192 of them hold 11 MB
    FreeWindows,   \* ENET_PEER_FREE_RELIABLE_WINDOWS, 8
    WindowSize,    \* ENET_PEER_RELIABLE_WINDOW_SIZE, 4096
    MaxInTransit,  \* commands that fit into the peer's window of data in transit
    Lifetime,      \* no datagram outlives the sending of that many more commands
    Base,          \* packets that came through before the model begins
    MaxOnWire,     \* bound on the datagrams under way, both ways together
    MaxQueued      \* bound on the commands that wait to be sent when one is added

Windows == 2 * FreeWindows         \* ENET_PEER_RELIABLE_WINDOWS, 16
SeqNumbers  == Windows * WindowSize    \* 2^16

ASSUME ChannelAssumption ==
    /\ Packets \in Nat /\ Long \subseteq 1..Packets /\ Base \in 0..Packets
    /\ FreeWindows \in Nat \ {0, 1, 2}
    /\ WindowSize \in Nat \ {0} /\ MaxInTransit \in Nat \ {0}
    /\ FragmentCount \in 2..2 * WindowSize
    /\ Lifetime \in 1..(FreeWindows + 1) * WindowSize + 1 - FragmentCount
    /\ MaxOnWire \in Nat \ {0} /\ MaxQueued \in Nat

VARIABLES
    accepted,        \* packets taken by enet_peer_send
    sentUpTo,        \* commands up to this number have been sent at least once
    sent,            \* sentReliableCommands
    requeued,        \* those at the front of outgoingCommands, timed out
    reliableWindows, usedReliableWindows,
    closed,          \* the sender has given up and reset its peer
    wire,            \* commands on their way to the receiver
    acks,            \* acknowledgements on their way to the sender
    incomingReliableSequenceNumber,
    incomingReliableCommands,
    dispatchedCommands,  \* packets of the commands ready to be handed over
    delivered            \* the last packet handed over

senderVars   == <<accepted, sentUpTo, sent, requeued, reliableWindows,
                  usedReliableWindows, closed>>
receiverVars == <<incomingReliableSequenceNumber, incomingReliableCommands,
                  dispatchedCommands, delivered>>
vars == <<senderVars, receiverVars, wire, acks>>

-----------------------------------------------------------------------------
(* Packets and commands.                                                    *)
Length(p) == IF p \in Long THEN FragmentCount ELSE 1

\* the number of a packet's first command, counted from 1
First == [p \in 1..Packets + 1 |->
              p + (FragmentCount - 1) * Cardinality({q \in Long : q < p})]

Commands    == 1..First[Packets + 1] - 1
PacketOf    == [n \in Commands |->
                   CHOOSE p \in 1..Packets : First[p] <= n /\ n < First[p + 1]]
Outgoing    == First[accepted + 1] - 1    \* outgoingReliableSequenceNumber

Seq16(n)    == n % SeqNumbers
Window(seq) == seq \div WindowSize

\* All that was sent has come through and nothing is under way.
Init == /\ accepted = Base /\ sentUpTo = Outgoing
        /\ sent = {} /\ requeued = {}
        /\ reliableWindows = [w \in 0..Windows - 1 |-> 0]
        /\ usedReliableWindows = {}
        /\ closed = FALSE
        /\ wire = {} /\ acks = {}
        /\ incomingReliableSequenceNumber = Seq16(Outgoing)
        /\ incomingReliableCommands = {}
        /\ dispatchedCommands = << >>
        /\ delivered = Base

-----------------------------------------------------------------------------
(* The receiver's view of a sequence number.                                *)

\* the window of seq, counted on from the window of the last command received
WindowFrom(in, seq) == Window(seq) + IF seq < in THEN Windows ELSE 0

\* in a window the receiver takes commands of
Taken(in, seq) == /\ WindowFrom(in, seq) >= Window(in)
                  /\ WindowFrom(in, seq) < Window(in) + FreeWindows - 1

\* A command ahead of those windows is not acknowledged.  Any other is, for
\* one that is behind them has been received.
AcknowledgedAlways(in, seq) == TRUE    \* a faulty variant
Acknowledged(in, seq) ==
    ~ /\ WindowFrom(in, seq) >= Window(in) + FreeWindows - 1
      /\ WindowFrom(in, seq) <= Window(in) + FreeWindows

-----------------------------------------------------------------------------
(* Faulty variants of the definitions below, for the properties to catch.   *)
WindowWrapLooksOneBack(n) ==
    LET w == Window(Seq16(n)) IN
    /\ Seq16(n) % WindowSize = 0
    /\ \E i \in 0..FreeWindows + 1 : (w + i) % Windows \in usedReliableWindows

FreedKeepsUsed(n) ==
    LET w == Window(Seq16(n))
    IN  /\ reliableWindows' = [reliableWindows EXCEPT ![w] = @ - 1]
        /\ UNCHANGED usedReliableWindows

TimeoutForgets(n) ==
    /\ n \in sent
    /\ sent' = sent \ {n}
    /\ UNCHANGED <<accepted, sentUpTo, requeued, reliableWindows,
                   usedReliableWindows, closed, receiverVars, wire, acks>>

SendAgainStaysQueued(n) ==
    /\ n \in requeued
    /\ sent' = sent \cup {n}
    /\ wire' = wire \cup {n}
    /\ UNCHANGED <<accepted, sentUpTo, requeued, reliableWindows,
                   usedReliableWindows, closed, receiverVars, acks>>

-----------------------------------------------------------------------------
(* The sender.                                                              *)

\* enet_peer_send: the packet is cut into commands at the end of outgoingCommands
PeerSend == /\ ~closed
            /\ accepted < Packets
            /\ Outgoing - sentUpTo <= MaxQueued
            /\ accepted' = accepted + 1
            /\ UNCHANGED <<sentUpTo, sent, requeued, reliableWindows,
                           usedReliableWindows, closed, receiverVars, wire, acks>>

\* A command that has not been sent and is the first of its window waits while
\* the window before is full, or a window is in use other than the last few.
WindowWrap(n) ==
    LET w == Window(Seq16(n)) IN
    /\ Seq16(n) % WindowSize = 0
    /\ \/ reliableWindows[(w + Windows - 1) % Windows] >= WindowSize
       \/ \E i \in 0..FreeWindows + 1 : (w + i) % Windows \in usedReliableWindows

\* reliableDataInTransit is below the limit.  The throttle may lower the limit,
\* but with nothing in transit there is room for one command at any time.
Room == /\ sent = {} \/ Cardinality(sent) < MaxInTransit
        /\ Cardinality(wire) + Cardinality(acks) < MaxOnWire

\* check_outgoing_commands goes through outgoingCommands from the front, so
\* nothing is sent for the first time before what has timed out.
SendNew == LET n == sentUpTo + 1 IN
           /\ requeued = {}
           /\ n <= Outgoing
           /\ ~closed
           /\ ~WindowWrap(n)
           /\ Room
           /\ sentUpTo' = n
           /\ sent' = sent \cup {n}
           /\ usedReliableWindows' = usedReliableWindows \cup {Window(Seq16(n))}
           /\ reliableWindows' = [reliableWindows EXCEPT ![Window(Seq16(n))] = @ + 1]
           /\ wire' = {m \in wire : m + Lifetime > n} \cup {n}
           /\ acks' = {m \in acks : m + Lifetime > n}
           /\ UNCHANGED <<accepted, requeued, closed, receiverVars>>

SendAgain(n) == /\ n \in requeued
                /\ Room
                /\ requeued' = requeued \ {n}
                /\ sent' = sent \cup {n}
                /\ wire' = wire \cup {n}
                /\ UNCHANGED <<accepted, sentUpTo, reliableWindows,
                               usedReliableWindows, closed, receiverVars, acks>>

\* check_timeouts: back to the front of outgoingCommands
Timeout(n) == /\ n \in sent
              /\ sent' = sent \ {n}
              /\ requeued' = requeued \cup {n}
              /\ UNCHANGED <<accepted, sentUpTo, reliableWindows,
                             usedReliableWindows, closed, receiverVars, wire, acks>>

\* check_timeouts: no answer for too long; enet_peer_reset empties the queues
GiveUp == /\ sent # {}
          /\ closed' = TRUE
          /\ sent' = {} /\ requeued' = {}
          /\ reliableWindows' = [w \in 0..Windows - 1 |-> 0]
          /\ usedReliableWindows' = {}
          /\ acks' = {}
          /\ UNCHANGED <<accepted, sentUpTo, receiverVars, wire>>

Freed(n) ==
    LET w == Window(Seq16(n)) IN
    /\ reliableWindows' = [reliableWindows EXCEPT ![w] = IF @ > 0 THEN @ - 1 ELSE 0]
    /\ usedReliableWindows' = IF reliableWindows[w] = 1
                              THEN usedReliableWindows \ {w} ELSE usedReliableWindows

\* remove_sent_reliable_command looks for the sequence number among those sent,
\* then among those that have timed out.
Matches(seq) == LET Of(S) == {m \in S : Seq16(m) = seq}
                IN  IF Of(sent) # {} THEN Of(sent) ELSE Of(requeued)

HandleAcknowledge(seq) ==
    \/ /\ Matches(seq) = {}
       /\ UNCHANGED senderVars
    \/ \E m \in Matches(seq) :
          /\ sent' = sent \ {m}
          /\ requeued' = requeued \ {m}
          /\ Freed(m)
          /\ UNCHANGED <<accepted, sentUpTo, closed>>

-----------------------------------------------------------------------------
(* The receiver.                                                            *)
Complete(c) == Cardinality(c.got) = c.count
Spans(c)    == {(c.start + i) % SeqNumbers : i \in 0..c.count - 1}

\* how far ahead of the last command received
Ahead(seq) == (seq + SeqNumbers - incomingReliableSequenceNumber) % SeqNumbers

\* commands whose packets can be handed over: complete, and so is all before
Ready(commands) ==
    LET whole == {c \in commands : Complete(c)} IN
    {c \in whole :
        \A d \in 1..Ahead(c.start) - 1 :
            \E b \in whole : (incomingReliableSequenceNumber + d) % SeqNumbers \in Spans(b)}

\* the sequence of them in the order of their numbers
InOrder(ready) ==
    CHOOSE s \in [1..Cardinality(ready) -> ready] :
        \A i, j \in DOMAIN s : i < j => Ahead(s[i].start) < Ahead(s[j].start)

Dispatch(commands) ==
    LET ready == Ready(commands)
        inOrder == InOrder(ready)
    IN  /\ incomingReliableCommands' = commands \ ready
        /\ incomingReliableSequenceNumber' =
               (incomingReliableSequenceNumber
                    + Cardinality(UNION {Spans(c) : c \in ready})) % SeqNumbers
        /\ dispatchedCommands' =
               dispatchedCommands \o [i \in DOMAIN inOrder |-> inOrder[i].packet]

\* the queue of incoming commands with command n in it, which is one packet or
\* one fragment of a packet
WithCommand(n) ==
    LET p == PacketOf[n]
        start == Seq16(First[p])
        known == {c \in incomingReliableCommands : c.start = start}
        got == (UNION {c.got : c \in known}) \cup {Seq16(n)}
    IN  (incomingReliableCommands \ known)
            \cup {[start |-> start, packet |-> p, count |-> Length(p), got |-> got]}

HandleCommand(n) ==
    LET start == Seq16(First[PacketOf[n]]) IN
    IF /\ Taken(incomingReliableSequenceNumber, start)
       /\ start # incomingReliableSequenceNumber
    THEN Dispatch(WithCommand(n))
    ELSE UNCHANGED <<incomingReliableSequenceNumber, incomingReliableCommands,
                     dispatchedCommands>>

\* (With as many datagrams under way as the bound allows, it is lost; and a peer
\* that has been reset takes no notice of it.)
Acknowledge(n) == acks' = IF /\ Acknowledged(incomingReliableSequenceNumber', Seq16(n))
                             /\ Cardinality(wire') + Cardinality(acks) < MaxOnWire
                             /\ ~closed
                          THEN acks \cup {n} ELSE acks

\* enet_host_service hands over one packet
Deliver == /\ dispatchedCommands # << >>
           /\ delivered' = Head(dispatchedCommands)
           /\ dispatchedCommands' = Tail(dispatchedCommands)
           /\ UNCHANGED <<senderVars, incomingReliableSequenceNumber,
                          incomingReliableCommands, wire, acks>>

-----------------------------------------------------------------------------
(* The wire.  What arrives may leave a copy behind.                         *)
ReceiveCommand(n) == /\ n \in wire
                     /\ HandleCommand(n)
                     /\ wire' \in {wire, wire \ {n}}
                     /\ Acknowledge(n)
                     /\ UNCHANGED <<senderVars, delivered>>

ReceiveAck(n) == /\ n \in acks
                 /\ HandleAcknowledge(Seq16(n))
                 /\ acks' \in {acks, acks \ {n}}
                 /\ UNCHANGED <<receiverVars, wire>>

LoseCommand(n) == n \in wire /\ wire' = wire \ {n} /\ UNCHANGED <<senderVars, receiverVars, acks>>
LoseAck(n)     == n \in acks /\ acks' = acks \ {n} /\ UNCHANGED <<senderVars, receiverVars, wire>>

Send    == SendNew \/ \E n \in requeued : SendAgain(n)
Arrives == \/ \E n \in wire : ReceiveCommand(n)
           \/ \E n \in acks : ReceiveAck(n)
Loses   == \/ \E n \in wire : LoseCommand(n)
           \/ \E n \in acks : LoseAck(n)
Next    == \/ PeerSend \/ Send \/ GiveUp \/ Deliver \/ Arrives \/ Loses
           \/ \E n \in sent : Timeout(n)

\* the first command without an acknowledgement
Oldest(n) == n \in sent \cup requeued /\ \A m \in sent \cup requeued : n <= m

(* Both hosts are serviced for ever: what is ready is handed over, and a    *)
(* command without an answer times out at last and leaves the front of      *)
(* outgoingCommands again.  SF, because the model lets a command wait while *)
(* the wire is full.  The wire keeps nothing for ever, and it is fair in    *)
(* one point: if the oldest command is sent again and again it arrives, and *)
(* if it is acknowledged again and again, an acknowledgement arrives.       *)
Fairness ==
    /\ WF_vars(Deliver) /\ WF_vars(Loses) /\ SF_vars(SendNew)
    /\ WF_vars(\E n \in sent : Oldest(n) /\ Timeout(n))
    /\ SF_vars(\E n \in requeued : Oldest(n) /\ SendAgain(n))
    /\ SF_vars(\E n \in wire : Oldest(n) /\ ReceiveCommand(n) /\ n \notin wire')
    /\ SF_vars(\E n \in acks : Oldest(n) /\ ReceiveAck(n))

Spec     == Init /\ [][Next]_vars
FairSpec == Spec /\ Fairness

-----------------------------------------------------------------------------
\* a command in the receiver's queue, by its sequence numbers
Incoming == [start : 0..SeqNumbers - 1, packet : 1..Packets, count : {1, FragmentCount},
             got : SUBSET (0..SeqNumbers - 1)]

TypeOK == /\ accepted \in 0..Packets
          /\ sentUpTo \in 0..Outgoing
          /\ sent \subseteq 1..sentUpTo /\ requeued \subseteq (1..sentUpTo) \ sent
          /\ reliableWindows \in [0..Windows - 1 -> 0..WindowSize]
          /\ usedReliableWindows \subseteq 0..Windows - 1
          /\ closed \in BOOLEAN
          /\ wire \subseteq 1..sentUpTo /\ acks \subseteq 1..sentUpTo
          /\ incomingReliableSequenceNumber \in 0..SeqNumbers - 1
          /\ incomingReliableCommands \subseteq Incoming
          /\ dispatchedCommands \in Seq(1..Packets)
          /\ delivered \in 0..Packets

\* the number of the last command received in order, without the wrap
Received == First[delivered + Len(dispatchedCommands) + 1] - 1

\* the receiver has command n: handed over, ready, or in its queue
Has(n) == \/ n <= Received
          \/ \E c \in incomingReliableCommands :
                c.packet = PacketOf[n] /\ Seq16(n) \in c.got

(* No packet is lost, doubled or out of order, however the numbers wrap,    *)
(* and each comes out at last unless the sender gives up: the commands that *)
(* check_timeouts queues again are what makes up for the losses.            *)
Channel == INSTANCE ReliableChannel
               WITH accepted <- accepted - Base, delivered <- delivered - Base,
                    closed <- closed
KeepsPromise == Channel!Spec

(* A command is acknowledged only when the receiver has it, so the sender   *)
(* drops no command that it would have had to send again.                   *)
AckMeansReceived ==
    /\ \A n \in acks : Has(n)
    /\ ~closed => \A n \in 1..sentUpTo : n \in sent \cup requeued \/ Has(n)

(* The sender stays within the windows ahead of the receiver's in which a   *)
(* command is not mistaken for one of the past: the two tests of            *)
(* check_outgoing_commands are enough for that, though the sender knows no  *)
(* more of the receiver than which commands were acknowledged.              *)
StaysInWindow ==
    sentUpTo \div WindowSize <= Received \div WindowSize + FreeWindows - 1

(* The sender's count of each window is what it has in it without an        *)
(* acknowledgement, and the bit of a window tells whether the count is 0:   *)
(* a count that is off would block the channel or let it run too far.       *)
WindowsCounted ==
    \A w \in 0..Windows - 1 :
        /\ reliableWindows[w] =
               Cardinality({n \in sent \cup requeued : Window(Seq16(n)) = w})
        /\ w \in usedReliableWindows <=> reliableWindows[w] > 0
==============================================================================
