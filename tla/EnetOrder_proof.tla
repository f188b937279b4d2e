---------------------------- MODULE EnetOrder_proof ----------------------------
(***************************************************************************)
(* Every step of EnetChannel keeps Order, and so the channel keeps its     *)
(* types, acknowledges only what it has, stays within its windows, and     *)
(* hands over the packets in order: the safety of ReliableChannel.         *)
(*                                                                         *)
(* The argument goes round once.  The receiver acknowledges a command only *)
(* when it is less than FreeWindows - 1 windows ahead, and WindowWrap lets *)
(* the first command of a window go only when one of the window before has *)
(* been acknowledged: so the sender stays in the windows ahead of the      *)
(* receiver's.  The other test of WindowWrap keeps what waits for an       *)
(* acknowledgement close behind the sender, so that what is sent again is  *)
(* no older than Reach.  Hence no command on the wire is mistaken for      *)
(* another by the receiver, and no acknowledgement by the sender.          *)
(***************************************************************************)
EXTENDS EnetReceiver_proof

-----------------------------------------------------------------------------
(* The start of a window.                                                   *)

LEMMA AddedRemainder ==
    ASSUME NEW k \in Nat \ {0}, NEW a \in Nat, NEW i \in Nat
    PROVE  ((a % k) + i) % k = (a + i) % k
<1> DEFINE q == a \div k  r == a % k  p == (r + i) \div k  s == (r + i) % k
<1>1. q \in Nat /\ r \in 0..k - 1 /\ a = k * q + r
    BY DivMod
<1> HIDE DEF q, r
<1>2. p \in Nat /\ s \in 0..k - 1 /\ r + i = k * p + s
    <2>1. r + i \in Nat
        BY <1>1
    <2> QED  BY <2>1, DivMod
<1> HIDE DEF p, s
<1> DEFINE x == k * q  y == k * p
<1>3. k * (q + p) = x + y /\ x \in Nat /\ y \in Nat /\ q + p \in Nat
    BY <1>1, <1>2, Products
<1>4. a = x + r /\ r + i = y + s
    BY <1>1, <1>2
<1> HIDE DEF x, y
<1>5. a + i = k * (q + p) + s
    BY <1>1, <1>2, <1>3, <1>4
<1>6. (k * (q + p) + s) % k = s
    BY <1>2, <1>3, DivModUnique
<1> QED  BY <1>5, <1>6 DEF r, s

LEMMA FirstOfWindow ==
    ASSUME NEW u \in Nat
    PROVE  /\ Seq16(u + 1) % WindowSize # 0 => Win(u + 1) = Win(u)
           /\ Seq16(u + 1) % WindowSize = 0 =>
                  /\ Win(u + 1) = Win(u) + 1
                  /\ u + 1 = WindowSize * Win(u) + WindowSize
<1> DEFINE n == u + 1  N == Win(n)  r == n % WindowSize  b == N % Windows
           M == Win(u)  s == u % WindowSize
<1>1. /\ N \in Nat /\ r \in 0..WindowSize - 1 /\ n = WindowSize * N + r
      /\ M \in Nat /\ s \in 0..WindowSize - 1 /\ u = WindowSize * M + s
      /\ WindowSize \in Nat \ {0}
    <2>1. n \in Nat /\ u \in Nat
        OBVIOUS
    <2> HIDE DEF n
    <2> QED  BY <2>1, WinType, Sizes
<1>2. Seq16(n) % WindowSize = r
    <2>1. Seq16(n) = WindowSize * b + r /\ b \in Nat
        BY <1>1, SeqParts, Sizes, DivMod
    <2> HIDE DEF b, r
    <2>2. (WindowSize * b + r) % WindowSize = r
        BY <1>1, <2>1, DivModUnique
    <2> QED  BY <2>1, <2>2
<1> HIDE DEF N, r, M, s
<1>3. /\ WindowSize * N \in Nat /\ WindowSize * M \in Nat
      /\ M < N => WindowSize * M + WindowSize <= WindowSize * N
      /\ N < M => WindowSize * N + WindowSize <= WindowSize * M
      /\ M + 1 < N => WindowSize * (M + 1) + WindowSize <= WindowSize * N
      /\ WindowSize * (M + 1) = WindowSize * M + WindowSize
    BY <1>1, Products
<1>4. r # 0 => N = M
    BY <1>1, <1>3
<1>5. r = 0 => N = M + 1 /\ u + 1 = WindowSize * M + WindowSize
    BY <1>1, <1>3
<1> QED  BY <1>2, <1>4, <1>5 DEF N, M

(* What the two tests of WindowWrap are for.  The first command of a window *)
(* is sent only when one of the window before has been acknowledged, and    *)
(* when those not yet acknowledged are less than FreeWindows - 1 behind.    *)
LEMMA WindowOpens ==
    ASSUME IInv, Order, ~closed, ~WindowWrap(sentUpTo + 1)
    PROVE  LET n == sentUpTo + 1 IN
           /\ Win(n) <= Win(Received) + FreeWindows - 1
           /\ \A m \in sent \cup requeued : Win(n) <= Win(m) + FreeWindows - 2
<1> DEFINE n == sentUpTo + 1  N == Win(n)
<1>1. /\ sentUpTo \in Nat /\ n \in Nat /\ N \in Nat /\ Received \in Nat
      /\ Win(sentUpTo) \in Nat /\ Win(Received) \in Nat
      /\ Win(sentUpTo) <= Win(Received) + FreeWindows - 1
    BY Places, WinType DEF Order
<1>2. \A m \in sent \cup requeued :
          m \in 1..sentUpTo /\ Win(m) \in Nat /\ Win(m) <= Win(sentUpTo)
          /\ Win(sentUpTo) <= Win(m) + FreeWindows - 2
    <2>1. \A m \in sent \cup requeued : m \in 1..sentUpTo
        BY DEF Order, Sender
    <2> QED  BY <1>1, <2>1, WinType, WinMonotone DEF Order, UnackedNear
<1>3. CASE Seq16(n) % WindowSize # 0
    <2>1. N = Win(sentUpTo)
        BY <1>1, <1>3, FirstOfWindow
    <2> QED  BY <1>1, <1>2, <2>1
<1>4. CASE Seq16(n) % WindowSize = 0
    <2> DEFINE w == Window(Seq16(n))
    <2>1. /\ N = Win(sentUpTo) + 1 /\ n = WindowSize * Win(sentUpTo) + WindowSize
          /\ w = N % Windows
        BY <1>1, <1>4, FirstOfWindow, SeqParts
    <2>2. /\ ~(reliableWindows[(w + Windows - 1) % Windows] >= WindowSize)
          /\ \A i \in 0..FreeWindows + 1 : (w + i) % Windows \notin usedReliableWindows
        BY <1>4 DEF WindowWrap
    <2>3. \A i \in Nat : (w + i) % Windows = (N + i) % Windows
        <3> SUFFICES ASSUME NEW i \in Nat PROVE (w + i) % Windows = (N + i) % Windows
            OBVIOUS
        <3> HIDE DEF w, N
        <3>1. N \in Nat /\ Windows \in Nat \ {0}
            BY <1>1, Sizes
        <3>2. ((N % Windows) + i) % Windows = (N + i) % Windows
            BY <3>1, AddedRemainder
        <3> QED  BY <2>1, <3>2
    <2> HIDE DEF w
    <2>4. \A a \in Nat : (a + Windows) % Windows = a % Windows
        <3> SUFFICES ASSUME NEW a \in Nat PROVE (a + Windows) % Windows = a % Windows
            OBVIOUS
        <3>1. PICK q \in Nat, r \in 0..Windows - 1 : a = Windows * q + r /\ r = a % Windows
            BY Sizes, DivMod
        <3>2. a + Windows = Windows * (q + 1) + r /\ q + 1 \in Nat
            BY <3>1, Sizes, Products
        <3>3. (Windows * (q + 1) + r) % Windows = r
            BY <3>2, Sizes, DivModUnique
        <3> QED  BY <3>1, <3>2, <3>3
    <2>5. ASSUME NEW m \in sent \cup requeued PROVE N <= Win(m) + FreeWindows - 2
        <3> SUFFICES ASSUME ~(N <= Win(m) + FreeWindows - 2) PROVE FALSE
            OBVIOUS
        <3>1. N + (FreeWindows + 1) = Win(m) + Windows
            BY <1>1, <1>2, <2>1, Sizes
        <3>2. (w + (FreeWindows + 1)) % Windows = Win(m) % Windows
            BY <1>2, <2>3, <2>4, <3>1, Sizes
        <3>3. Win(m) % Windows \notin usedReliableWindows
            BY <2>2, <3>2, Sizes
        <3>4. m \in Nat
            BY <1>2
        <3>5. Window(Seq16(m)) = Win(m) % Windows /\ Win(m) % Windows \in 0..Windows - 1
            BY <3>4, SeqParts
        <3>6. m \in UnackedIn(Win(m) % Windows)
            BY <3>5 DEF UnackedIn, Unacked
        <3>7. Cardinality(UnackedIn(Win(m) % Windows)) # 0
              /\ Cardinality(UnackedIn(Win(m) % Windows)) \in Nat
            BY <3>6, UnackedFinite, FS_EmptySet DEF IInv
        <3>8. reliableWindows[Win(m) % Windows] > 0
            BY <3>5, <3>7, CountedUnacked DEF IInv
        <3> QED  BY <3>3, <3>5, <3>8, CountedUnacked DEF IInv
    <2>6. N <= Win(Received) + FreeWindows - 1
        <3>1. CASE Win(sentUpTo) = 0
            BY <1>1, <2>1, <3>1, Sizes
        <3>2. CASE Win(sentUpTo) # 0
            <4> DEFINE v == Win(sentUpTo) % Windows
                       I == WindowSize * Win(sentUpTo)..sentUpTo
            <4>1. (w + Windows - 1) % Windows = v
                <5>1. w + Windows - 1 = w + (Windows - 1) /\ Windows - 1 \in Nat
                    BY <2>1, Sizes, SeqParts, <1>1 DEF w
                <5>2. N + (Windows - 1) = Win(sentUpTo) + Windows
                    BY <1>1, <2>1, Sizes
                <5> QED  BY <1>1, <2>3, <2>4, <5>1, <5>2
            <4>2. v \in 0..Windows - 1
                BY <1>1, Sizes, DivMod
            <4>3. reliableWindows[v] = Cardinality(UnackedIn(v))
                BY <4>2, CountedUnacked DEF IInv
            <4>4. Cardinality(UnackedIn(v)) < WindowSize
                BY <2>2, <4>1, <4>3, UnackedFinite, Sizes DEF IInv
            <4>5. Cardinality(I) = WindowSize
                <5>1. WindowSize * Win(sentUpTo) \in Nat /\ sentUpTo \in Nat
                    BY <1>1, Sizes, Products
                <5>2. ~(WindowSize * Win(sentUpTo) > sentUpTo)
                      /\ sentUpTo - WindowSize * Win(sentUpTo) + 1 = WindowSize
                    BY <2>1, <5>1, Sizes
                <5> QED  BY <5>1, <5>2, FS_Interval
            <4>6. PICK m \in I : m \notin UnackedIn(v)
                <5>1. ~(I \subseteq UnackedIn(v))
                    <6> HIDE DEF I, v
                    <6> QED  BY <4>4, <4>5, UnackedFinite, FS_Subset, Sizes DEF IInv
                <5> QED  BY <5>1
            <4>7. m \in 1..sentUpTo /\ m \in Nat /\ Win(m) = Win(sentUpTo)
                <5>1. WindowSize * Win(sentUpTo) \in Nat /\ WindowSize * Win(sentUpTo) > 0
                    <6>1. WindowSize * 0 + WindowSize <= WindowSize * Win(sentUpTo)
                        BY <1>1, <3>2, Sizes, Products
                    <6>2. WindowSize * Win(sentUpTo) \in Nat /\ WindowSize * 0 = 0
                        BY <1>1, Sizes, Products
                    <6> QED  BY <6>1, <6>2, Sizes
                <5>2. m \in Nat /\ m <= sentUpTo /\ m >= WindowSize * Win(sentUpTo) /\ m >= 1
                    BY <1>1, <5>1
                <5> DEFINE x == m - WindowSize * Win(sentUpTo)
                <5>3. x \in 0..WindowSize - 1
                    BY <1>1, <2>1, <5>1, <5>2, Sizes
                <5>4. m = WindowSize * Win(sentUpTo) + x
                    BY <5>1, <5>2
                <5> HIDE DEF x
                <5>5. m \div WindowSize = Win(sentUpTo)
                    BY <1>1, <5>3, <5>4, DivModUnique, Sizes
                <5> QED  BY <1>1, <5>2, <5>5 DEF Win
            <4>8. m \notin sent \cup requeued
                <5>1. Window(Seq16(m)) = v
                    BY <4>7, SeqParts
                <5> QED  BY <4>6, <5>1 DEF UnackedIn, Unacked
            <4>9. Win(m) <= Win(Received) + FreeWindows - 2
                BY <4>7, <4>8 DEF Order, AckedNear
            <4> QED  BY <1>1, <2>1, <4>7, <4>9, Sizes
        <3> QED  BY <3>1, <3>2
    <2> QED  BY <2>5, <2>6
<1> QED  BY <1>3, <1>4

-----------------------------------------------------------------------------
(* The initial state, and the steps.                                        *)
LEMMA InitOrder == Init => Order
<1> SUFFICES ASSUME Init PROVE Order
    OBVIOUS
<1>1. /\ Packets \in Nat /\ Base \in 0..Packets /\ accepted = Base /\ delivered = Base
      /\ dispatchedCommands = << >> /\ sentUpTo = Outgoing
    BY ChannelAssumption DEF Init
<1>2. Len(dispatchedCommands) = 0 /\ dispatchedCommands \in Seq(Nat)
    BY <1>1
<1>3. Last = Base /\ Received = sentUpTo
    BY <1>1, <1>2 DEF Last, Received, Outgoing
<1>4. Base + 1 \in 1..Packets + 1
    BY <1>1
<1>5. sentUpTo \in Nat
    BY <1>1, <1>4, FirstType DEF Outgoing
<1>6. Win(sentUpTo) \in Nat
    BY <1>5, WinType
<1>7. Sender
    <2>1. accepted \in Base..Packets /\ sentUpTo \in 0..Outgoing
        BY <1>1, <1>5
    <2> QED  BY <2>1 DEF Init, Sender
<1>8. OnTheWire /\ UnackedNear /\ Queued
    BY DEF Init, OnTheWire, UnackedNear, Queued, Queue
<1>9. AckedNear
    <2>1. \A m \in 1..sentUpTo : Win(m) <= Win(Received) + FreeWindows - 2
        <3> SUFFICES ASSUME NEW m \in 1..sentUpTo
                     PROVE  Win(m) <= Win(Received) + FreeWindows - 2
            OBVIOUS
        <3>1. m \in Nat /\ Win(m) <= Win(sentUpTo) /\ Win(m) \in Nat
            BY <1>5, WinMonotone, WinType
        <3> QED  BY <1>3, <1>6, <3>1, Sizes
    <2> QED  BY <2>1 DEF Init, AckedNear
<1>10. StaysInWindow
    <2>1. Win(sentUpTo) <= Win(sentUpTo) + FreeWindows - 1
        BY <1>6, Sizes
    <2> QED  BY <1>3, <2>1 DEF StaysInWindow, Win
<1>11. Receiver
    BY <1>1, <1>2, <1>3, <1>5 DEF Init, Receiver
<1>12. AckMeansReceived
    BY <1>3, <1>5 DEF Init, AckMeansReceived, Has
<1> QED  BY <1>7, <1>8, <1>9, <1>10, <1>11, <1>12 DEF Order

(* A step that leaves the receiver alone.                                   *)
LEMMA SameReceiver ==
    ASSUME UNCHANGED <<incomingReliableCommands, dispatchedCommands, delivered>>
    PROVE  Last' = Last /\ Received' = Received /\ \A m : Has(m)' <=> Has(m)
<1>1. Last' = Last /\ Received' = Received
    BY DEF Last, Received
<1> QED  BY <1>1 DEF Has

LEMMA PeerSendOrder == Order /\ PeerSend => Order'
<1> SUFFICES ASSUME Order, PeerSend PROVE Order'
    OBVIOUS
<1> USE DEF Order
<1>1. /\ accepted' = accepted + 1 /\ accepted < Packets
      /\ UNCHANGED <<sentUpTo, sent, requeued, closed, wire, acks, receiverVars>>
    BY DEF PeerSend
<1>2. Last' = Last /\ Received' = Received /\ \A m : Has(m)' <=> Has(m)
    BY <1>1, SameReceiver DEF receiverVars
<1>3. accepted \in Base..Packets /\ Packets \in Nat /\ Base \in Nat
    BY ChannelAssumption DEF Sender
<1>4. Outgoing <= Outgoing' /\ Outgoing \in Nat /\ Outgoing' \in Nat
    <2>1. accepted + 1 \in 1..Packets + 1 /\ accepted + 1 + 1 \in 1..Packets + 1
        BY <1>1, <1>3
    <2>2. First[accepted + 1] < First[accepted + 1 + 1]
        BY <2>1, FirstMonotone
    <2> QED  BY <1>1, <2>1, <2>2, FirstType DEF Outgoing
<1>5. Sender'
    BY <1>1, <1>3, <1>4 DEF Sender
<1>6. OnTheWire' /\ UnackedNear'
    BY <1>1 DEF OnTheWire, UnackedNear
<1>7. AckedNear' /\ StaysInWindow'
    BY <1>1, <1>2 DEF AckedNear, StaysInWindow
<1>8. Receiver'
    BY <1>1, <1>2, <1>3 DEF Receiver, receiverVars
<1>9. Queued'
    BY <1>1, <1>2 DEF Queued, Queue, Numbers, receiverVars
<1>10. AckMeansReceived'
    BY <1>1, <1>2 DEF AckMeansReceived
<1> QED  BY <1>5, <1>6, <1>7, <1>8, <1>9, <1>10

LEMMA SendNewOrder == IInv /\ Order /\ SendNew => Order'
<1> SUFFICES ASSUME IInv, Order, SendNew PROVE Order'
    OBVIOUS
<1> USE DEF Order
<1> DEFINE n == sentUpTo + 1
<1>1. /\ sentUpTo' = n /\ n <= Outgoing /\ ~closed /\ requeued = {} /\ requeued' = {}
      /\ ~WindowWrap(n) /\ sent' = sent \cup {n}
      /\ wire' = {m \in wire : m + Lifetime > n} \cup {n}
      /\ acks' = {m \in acks : m + Lifetime > n}
      /\ UNCHANGED <<accepted, closed, receiverVars>>
    BY DEF SendNew
<1>2. Last' = Last /\ Received' = Received /\ \A m : Has(m)' <=> Has(m)
    BY <1>1, SameReceiver DEF receiverVars
<1>3. /\ sentUpTo \in Nat /\ n \in Nat /\ Received \in Nat /\ Received <= sentUpTo
      /\ Win(n) \in Nat
    BY Places, WinType
<1>4. /\ Win(n) <= Win(Received) + FreeWindows - 1
      /\ \A m \in sent \cup requeued : Win(n) <= Win(m) + FreeWindows - 2
    BY <1>1, WindowOpens
<1>5. Sender'
    <2>1. n \in 0..Outgoing'
        BY <1>1, <1>3 DEF Outgoing, Sender
    <2>2. sent' \subseteq 1..n
        BY <1>1, <1>3 DEF Sender
    <2> QED  BY <1>1, <2>1, <2>2 DEF Sender
<1>6. OnTheWire'
    <2> SUFFICES ASSUME NEW m \in wire' \cup acks'
                 PROVE  m \in 1..n /\ n < m + Reach
        BY <1>1 DEF OnTheWire
    <2>1. m = n \/ (m \in wire \cup acks /\ m + Lifetime > n)
        BY <1>1
    <2>2. m \in wire \cup acks => m \in 1..sentUpTo
        BY DEF OnTheWire
    <2> QED  BY <1>3, <2>1, <2>2, Reaches
<1>7. UnackedNear'
    <2>1. Win(n) <= Win(n) + FreeWindows - 2
        BY <1>3, Sizes
    <2> QED  BY <1>1, <1>4, <2>1 DEF UnackedNear
<1>8. AckedNear'
    <2>1. \A m \in 1..n : m \in 1..sentUpTo \/ m = n
        BY <1>3
    <2> QED  BY <1>1, <1>2, <2>1 DEF AckedNear
<1>9. StaysInWindow'
    BY <1>1, <1>2, <1>4 DEF StaysInWindow, Win
<1>10. Receiver'
    BY <1>1, <1>2, <1>3 DEF Receiver, receiverVars
<1>11. Queued'
    <2>1. \A c \in incomingReliableCommands : First[c.packet] \in Nat
        <3>1. \A c \in incomingReliableCommands : c.packet \in 1..Packets + 1
            BY ChannelAssumption DEF Queued, Queue, Incoming
        <3> QED  BY <3>1, FirstType
    <2>2. \A c \in incomingReliableCommands : First[c.packet] <= n
        BY <1>3, <2>1 DEF Queued, Queue
    <2>3. \A c \in incomingReliableCommands :
              Numbers(c.packet, sentUpTo) \subseteq Numbers(c.packet, n)
        <3> SUFFICES ASSUME NEW c \in incomingReliableCommands
                     PROVE  Numbers(c.packet, sentUpTo) \subseteq Numbers(c.packet, n)
            OBVIOUS
        <3>1. \A j \in First[c.packet]..First[c.packet + 1] - 1 : j <= sentUpTo => j <= n
            BY <1>3
        <3> QED  BY <3>1 DEF Numbers
    <2>4. Queue(incomingReliableCommands, Last, n)
        <3> HIDE DEF n
        <3> QED  BY <2>2, <2>3 DEF Queued, Queue
    <2> QED  BY <1>1, <1>2, <2>4 DEF Queued, Queue, Numbers, receiverVars
<1>12. AckMeansReceived'
    <2>1. \A m \in 1..n : m \in 1..sentUpTo \/ m = n
        BY <1>3
    <2> QED  BY <1>1, <1>2, <2>1 DEF AckMeansReceived
<1> QED  BY <1>5, <1>6, <1>7, <1>8, <1>9, <1>10, <1>11, <1>12

(* A step that takes nothing out of the receiver, and sends nothing new.    *)
LEMMA SameEnds ==
    ASSUME Order,
           UNCHANGED <<accepted, sentUpTo, incomingReliableSequenceNumber,
                       incomingReliableCommands, dispatchedCommands, delivered>>
    PROVE  /\ Outgoing' = Outgoing /\ Received' = Received /\ \A m : Has(m)' <=> Has(m)
           /\ StaysInWindow' /\ Receiver' /\ Queued'
<1>1. Last' = Last /\ Received' = Received /\ \A m : Has(m)' <=> Has(m)
    BY SameReceiver
<1>2. Receiver'
    BY <1>1 DEF Order, Receiver
<1>3. Queued'
    BY <1>1 DEF Order, Queued
<1>4. StaysInWindow'
    BY <1>1 DEF Order, StaysInWindow
<1> QED  BY <1>1, <1>2, <1>3, <1>4 DEF Outgoing

(* What waits for its acknowledgement stays the same, and so do the two     *)
(* ends, while the wire gets no more than a command that waits again.       *)
LEMMA SameUnacked ==
    ASSUME Order, Sender', sent' \cup requeued' = sent \cup requeued,
           UNCHANGED <<accepted, sentUpTo, closed, receiverVars>>,
           acks' \subseteq acks, OnTheWire'
    PROVE  Order'
<1>1. /\ Received' = Received /\ \A m : Has(m)' <=> Has(m)
      /\ StaysInWindow' /\ Receiver' /\ Queued'
    BY SameEnds DEF receiverVars
<1>2. UnackedNear'
    BY DEF Order, UnackedNear
<1>3. AckedNear'
    BY <1>1 DEF Order, AckedNear
<1>4. AckMeansReceived'
    BY <1>1 DEF Order, AckMeansReceived
<1> QED  BY <1>1, <1>2, <1>3, <1>4 DEF Order

LEMMA SendAgainOrder == ASSUME Order, NEW n \in requeued, SendAgain(n) PROVE Order'
<1>1. /\ requeued' = requeued \ {n} /\ sent' = sent \cup {n} /\ wire' = wire \cup {n}
      /\ UNCHANGED <<accepted, sentUpTo, closed, receiverVars, acks>>
    BY DEF SendAgain
<1>2. /\ n \in 1..sentUpTo /\ sentUpTo \in Nat /\ n \in Nat
      /\ Win(sentUpTo) \in Nat /\ Win(n) \in Nat
    BY Places, WinType DEF Order, Sender
<1>3. Sender'
    BY <1>1, <1>2 DEF Order, Sender, Outgoing
<1>4. sentUpTo < n + Reach
    <2>1. Win(sentUpTo) < Win(n) + (FreeWindows - 1)
        BY <1>2, Sizes DEF Order, UnackedNear
    <2>2. FreeWindows - 1 \in Nat
        BY Sizes
    <2>3. sentUpTo < n + WindowSize * (FreeWindows - 1)
        BY <1>2, <2>1, <2>2, WinDistance
    <2>4. WindowSize * (FreeWindows - 1) \in Nat
        BY <2>2, Sizes, Products
    <2> QED  BY <1>2, <2>3, <2>4, Reaches
<1>5. OnTheWire'
    BY <1>1, <1>2, <1>4 DEF Order, OnTheWire
<1> QED  BY <1>1, <1>3, <1>5, SameUnacked

LEMMA TimeoutOrder == ASSUME Order, NEW n \in sent, Timeout(n) PROVE Order'
<1>1. /\ requeued' = requeued \cup {n} /\ sent' = sent \ {n}
      /\ UNCHANGED <<accepted, sentUpTo, closed, receiverVars, acks, wire>>
    BY DEF Timeout
<1>2. Sender'
    BY <1>1 DEF Order, Sender, Outgoing
<1>3. OnTheWire'
    BY <1>1 DEF Order, OnTheWire
<1> QED  BY <1>1, <1>2, <1>3, SameUnacked

LEMMA LoseCommandOrder == ASSUME Order, NEW n \in wire, LoseCommand(n) PROVE Order'
<1>1. wire' \subseteq wire /\ UNCHANGED <<senderVars, receiverVars, acks>>
    BY DEF LoseCommand
<1>2. Sender'
    BY <1>1 DEF Order, Sender, Outgoing, senderVars
<1>3. OnTheWire'
    BY <1>1 DEF Order, OnTheWire, senderVars
<1> QED  BY <1>1, <1>2, <1>3, SameUnacked DEF senderVars

LEMMA LoseAckOrder == ASSUME Order, NEW n \in acks, LoseAck(n) PROVE Order'
<1>1. acks' \subseteq acks /\ UNCHANGED <<senderVars, receiverVars, wire>>
    BY DEF LoseAck
<1>2. Sender'
    BY <1>1 DEF Order, Sender, Outgoing, senderVars
<1>3. OnTheWire'
    BY <1>1 DEF Order, OnTheWire, senderVars
<1> QED  BY <1>1, <1>2, <1>3, SameUnacked DEF senderVars

LEMMA GiveUpOrder == Order /\ GiveUp => Order'
<1> SUFFICES ASSUME Order, GiveUp PROVE Order'
    OBVIOUS
<1>1. /\ closed' = TRUE /\ sent' = {} /\ requeued' = {} /\ acks' = {}
      /\ UNCHANGED <<accepted, sentUpTo, receiverVars, wire>>
    BY DEF GiveUp
<1>2. /\ Received' = Received /\ StaysInWindow' /\ Receiver' /\ Queued'
    BY <1>1, SameEnds DEF receiverVars
<1>3. Sender'
    BY <1>1 DEF Order, Sender, Outgoing
<1>4. OnTheWire' /\ UnackedNear'
    BY <1>1 DEF Order, OnTheWire, UnackedNear
<1>5. AckedNear' /\ AckMeansReceived'
    BY <1>1 DEF AckedNear, AckMeansReceived
<1> QED  BY <1>2, <1>3, <1>4, <1>5 DEF Order

(* What is handed over is the next packet.                                  *)
LEMMA DeliverNext ==
    ASSUME Receiver, Deliver
    PROVE  /\ delivered' = delivered + 1 /\ delivered < Last /\ Last' = Last
           /\ dispatchedCommands' \in Seq(Nat)
           /\ \A i \in 1..Len(dispatchedCommands') : dispatchedCommands'[i] = delivered' + i
<1>1. /\ dispatchedCommands \in Seq(Nat) /\ dispatchedCommands # << >> /\ delivered \in Nat
      /\ \A i \in 1..Len(dispatchedCommands) : dispatchedCommands[i] = delivered + i
      /\ delivered' = Head(dispatchedCommands)
      /\ dispatchedCommands' = Tail(dispatchedCommands)
    BY DEF Receiver, Deliver
<1>2. /\ Len(dispatchedCommands) \in Nat \ {0} /\ delivered' = dispatchedCommands[1]
      /\ dispatchedCommands' \in Seq(Nat)
      /\ Len(dispatchedCommands') = Len(dispatchedCommands) - 1
      /\ \A i \in 1..Len(dispatchedCommands') :
             dispatchedCommands'[i] = dispatchedCommands[i + 1]
    BY <1>1
<1>3. delivered' = delivered + 1
    BY <1>1, <1>2
<1>4. \A i \in 1..Len(dispatchedCommands') :
          i + 1 \in 1..Len(dispatchedCommands) /\ delivered + (i + 1) = delivered' + i
    BY <1>1, <1>2, <1>3
<1>5. \A i \in 1..Len(dispatchedCommands') : dispatchedCommands'[i] = delivered' + i
    BY <1>1, <1>2, <1>4
<1>6. delivered < Last /\ Last' = Last
    BY <1>1, <1>2, <1>3 DEF Last
<1> QED  BY <1>2, <1>3, <1>5, <1>6

LEMMA DeliverOrder == Order /\ Deliver => Order'
<1> SUFFICES ASSUME Order, Deliver PROVE Order'
    OBVIOUS
<1>1. UNCHANGED <<senderVars, incomingReliableSequenceNumber,
                  incomingReliableCommands, wire, acks>>
    BY DEF Deliver
<1>2. /\ delivered' = delivered + 1 /\ Last' = Last /\ dispatchedCommands' \in Seq(Nat)
      /\ \A i \in 1..Len(dispatchedCommands') : dispatchedCommands'[i] = delivered' + i
    BY DeliverNext DEF Order
<1>3. Received' = Received
    BY <1>2 DEF Received, Last
<1>4. \A m : Has(m)' <=> Has(m)
    BY <1>1, <1>3 DEF Has
<1>5. Sender' /\ OnTheWire' /\ UnackedNear'
    BY <1>1 DEF Order, Sender, Outgoing, OnTheWire, UnackedNear, senderVars
<1>6. AckedNear' /\ StaysInWindow' /\ AckMeansReceived'
    BY <1>1, <1>3, <1>4 DEF Order, AckedNear, StaysInWindow, AckMeansReceived, senderVars
<1>7. Receiver'
    <2>1. delivered' \in Nat
        BY <1>2 DEF Order, Receiver
    <2> QED  BY <1>1, <1>2, <1>3, <2>1 DEF Order, Receiver, senderVars
<1>8. Queued'
    BY <1>1, <1>2 DEF Order, Queued, senderVars
<1> QED  BY <1>5, <1>6, <1>7, <1>8 DEF Order

LEMMA ReceiveCommandOrder == ASSUME Order, NEW n \in wire, ReceiveCommand(n) PROVE Order'
<1> USE DEF Order
<1>1. /\ HandleCommand(n) /\ wire' \subseteq wire
      /\ UNCHANGED <<senderVars, delivered>>
    BY DEF ReceiveCommand
<1>2. /\ UNCHANGED <<accepted, sentUpTo, sent, requeued, closed>>
      /\ Outgoing' = Outgoing
    BY <1>1 DEF senderVars, Outgoing
<1>3. \/ acks' = acks
      \/ /\ acks' = acks \cup {n} /\ ~closed
         /\ Acknowledged(incomingReliableSequenceNumber', Seq16(n))
    BY DEF ReceiveCommand, Acknowledge
<1>4. /\ Receiver' /\ Queued' /\ StaysInWindow'
      /\ Received <= Received' /\ Received' \in Nat
      /\ \A m \in 1..sentUpTo : Has(m) => Has(m)'
      /\ Acknowledged(incomingReliableSequenceNumber', Seq16(n)) =>
             Has(n)' /\ Win(n) <= Win(Received') + FreeWindows - 2
    BY <1>1, HandledOrder
<1>5. n \in 1..sentUpTo /\ sentUpTo < n + Reach /\ acks \subseteq 1..sentUpTo
    BY DEF OnTheWire
<1>6. Sender'
    BY <1>2, <1>3 DEF Sender
<1>7. OnTheWire'
    BY <1>1, <1>2, <1>3 DEF OnTheWire
<1>8. UnackedNear'
    BY <1>2 DEF UnackedNear
<1>9. AckedNear'
    <2>1. /\ Win(Received) \in Nat /\ Win(Received') \in Nat
          /\ Win(Received) <= Win(Received')
        BY <1>4, Places, WinType, WinMonotone
    <2>2. \A m \in 1..sentUpTo : Win(m) <= Win(Received) + FreeWindows - 2
                                    => Win(m) <= Win(Received') + FreeWindows - 2
        <3> SUFFICES ASSUME NEW m \in 1..sentUpTo,
                            Win(m) <= Win(Received) + FreeWindows - 2
                     PROVE  Win(m) <= Win(Received') + FreeWindows - 2
            OBVIOUS
        <3>1. m \in Nat
            BY Places
        <3>2. Win(m) \in Nat
            BY <3>1, WinType
        <3> QED  BY <2>1, <3>2, Sizes
    <2>3. \A m \in acks' : Win(m) <= Win(Received') + FreeWindows - 2
        BY <1>3, <1>4, <1>5, <2>2 DEF AckedNear
    <2>4. ~closed => \A m \in 1..sentUpTo : \/ m \in sent \cup requeued
                                            \/ Win(m) <= Win(Received') + FreeWindows - 2
        BY <2>2 DEF AckedNear
    <2> QED  BY <1>2, <2>3, <2>4 DEF AckedNear, Win
<1>10. AckMeansReceived'
    BY <1>2, <1>3, <1>4, <1>5 DEF AckMeansReceived
<1> QED  BY <1>4, <1>6, <1>7, <1>8, <1>9, <1>10

(* The acknowledgement is of one command only, however the numbers wrap:    *)
(* no other one with its sequence number waits for one.                     *)
LEMMA AckMatches ==
    ASSUME Order, NEW n \in acks, NEW m \in Matches(Seq16(n))
    PROVE  m = n /\ n \in sent \cup requeued
<1> USE DEF Order
<1>1. m \in sent \cup requeued /\ Seq16(m) = Seq16(n)
    BY DEF Matches
<1>2. /\ sentUpTo \in Nat /\ n \in 1..sentUpTo /\ m \in 1..sentUpTo
      /\ n \in Nat /\ m \in Nat /\ sentUpTo < n + Reach
      /\ Win(sentUpTo) \in Nat /\ Win(m) \in Nat
    BY <1>1, Places, WinType DEF Sender, OnTheWire
<1>3. sentUpTo < m + WindowSize * (FreeWindows - 1)
    <2>1. Win(sentUpTo) < Win(m) + (FreeWindows - 1)
        BY <1>1, <1>2, Sizes DEF UnackedNear
    <2>2. FreeWindows - 1 \in Nat
        BY Sizes
    <2> QED  BY <1>2, <2>1, <2>2, WinDistance
<1>4. /\ Reach \in Nat /\ Reach <= SeqNumbers
      /\ WindowSize * (FreeWindows - 1) \in Nat
      /\ WindowSize * (FreeWindows - 1) <= SeqNumbers
    <2>1. /\ WindowSize * (FreeWindows - 1) <= WindowSize * Windows
          /\ WindowSize * (FreeWindows + 1) <= WindowSize * Windows
          /\ WindowSize * (FreeWindows - 1) \in Nat
          /\ WindowSize * (FreeWindows + 1) \in Nat /\ WindowSize * Windows \in Nat
        <3>1. /\ FreeWindows - 1 \in Nat /\ FreeWindows + 1 \in Nat /\ Windows \in Nat
              /\ FreeWindows - 1 <= Windows /\ FreeWindows + 1 <= Windows
            BY Sizes
        <3> QED  BY <3>1, Sizes, Products
    <2> QED  BY <2>1, Sizes, Reaches, FragmentType
<1>5. n < m + SeqNumbers /\ m < n + SeqNumbers /\ SeqNumbers \in Nat
    BY <1>2, <1>3, <1>4, Sizes
<1>6. m = n
    BY <1>1, <1>2, <1>5, SameNumber
<1> QED  BY <1>1, <1>6

LEMMA ReceiveAckOrder == ASSUME Order, NEW n \in acks, ReceiveAck(n) PROVE Order'
<1>1. /\ HandleAcknowledge(Seq16(n)) /\ acks' \subseteq acks
      /\ UNCHANGED <<receiverVars, wire>>
    BY DEF ReceiveAck
<1>2. OnTheWire' <=> \A m \in wire \cup acks' : m \in 1..sentUpTo' /\ sentUpTo' < m + Reach
    BY <1>1 DEF OnTheWire
<1>3. CASE Matches(Seq16(n)) = {} /\ UNCHANGED senderVars
    <2>1. Sender' /\ OnTheWire'
        BY <1>1, <1>3 DEF Order, Sender, Outgoing, OnTheWire, senderVars
    <2> QED  BY <1>1, <1>3, <2>1, SameUnacked DEF senderVars
<1>4. CASE \E m \in Matches(Seq16(n)) :
               /\ sent' = sent \ {m} /\ requeued' = requeued \ {m}
               /\ UNCHANGED <<accepted, sentUpTo, closed>>
    <2>1. /\ sent' = sent \ {n} /\ requeued' = requeued \ {n} /\ n \in sent \cup requeued
          /\ UNCHANGED <<accepted, sentUpTo, closed>>
        BY <1>4, AckMatches
    <2>2. /\ Received' = Received /\ \A m : Has(m)' <=> Has(m)
          /\ StaysInWindow' /\ Receiver' /\ Queued'
        BY <1>1, <2>1, SameEnds DEF receiverVars
    <2>3. Sender' /\ OnTheWire' /\ UnackedNear'
        BY <1>1, <2>1 DEF Order, Sender, Outgoing, OnTheWire, UnackedNear
    <2>4. AckedNear'
        BY <1>1, <2>1, <2>2 DEF Order, AckedNear
    <2>5. AckMeansReceived'
        BY <1>1, <2>1, <2>2 DEF Order, AckMeansReceived
    <2> QED  BY <2>2, <2>3, <2>4, <2>5 DEF Order
<1> QED  BY <1>1, <1>3, <1>4 DEF HandleAcknowledge

LEMMA StepOrder == IInv /\ Order /\ [Next]_vars => Order'
<1> SUFFICES ASSUME IInv, Order, [Next]_vars PROVE Order'
    OBVIOUS
<1>1. CASE Send
    BY <1>1, SendNewOrder, SendAgainOrder DEF Send
<1>2. CASE Arrives
    BY <1>2, ReceiveCommandOrder, ReceiveAckOrder DEF Arrives
<1>3. CASE Loses
    BY <1>3, LoseCommandOrder, LoseAckOrder DEF Loses
<1>4. CASE UNCHANGED vars
    <2>1. UNCHANGED <<senderVars, receiverVars, wire, acks>>
        BY <1>4 DEF vars
    <2>2. Sender' /\ OnTheWire'
        BY <2>1 DEF Order, Sender, Outgoing, OnTheWire, senderVars
    <2> QED  BY <2>1, <2>2, SameUnacked DEF senderVars
<1>5. CASE \E n \in sent : Timeout(n)
    BY <1>5, TimeoutOrder
<1> QED
    BY <1>1, <1>2, <1>3, <1>4, <1>5, PeerSendOrder, GiveUpOrder, DeliverOrder DEF Next

-----------------------------------------------------------------------------
(* The types.                                                               *)
Used == usedReliableWindows \subseteq 0..Windows - 1

LEMMA InitUsed == Init => Used
BY DEF Init, Used

LEMMA StepUsed == Order /\ Used /\ [Next]_vars => Used'
<1> SUFFICES ASSUME Order, Used, [Next]_vars PROVE Used'
    OBVIOUS
<1>1. CASE SendNew
    <2>1. sentUpTo + 1 \in Nat
        BY Places DEF Order
    <2>2. Window(Seq16(sentUpTo + 1)) \in 0..Windows - 1
        BY <2>1, SeqParts
    <2> QED  BY <1>1, <2>2 DEF SendNew, Used
<1>2. CASE \E n \in acks : ReceiveAck(n)
    BY <1>2 DEF ReceiveAck, HandleAcknowledge, Freed, senderVars, Used
<1>3. CASE UNCHANGED usedReliableWindows
    BY <1>3 DEF Used
<1>4. CASE GiveUp
    BY <1>4 DEF GiveUp, Used
<1>5. CASE PeerSend \/ Deliver \/ Loses
    <2>1. UNCHANGED usedReliableWindows
        BY <1>5 DEF PeerSend, Deliver, Loses, LoseCommand, LoseAck, senderVars
    <2> QED  BY <1>3, <2>1
<1>6. CASE \/ \E n \in requeued : SendAgain(n)
           \/ \E n \in wire : ReceiveCommand(n)
           \/ \E n \in sent : Timeout(n)
    <2>1. UNCHANGED usedReliableWindows
        BY <1>6 DEF SendAgain, ReceiveCommand, Timeout, senderVars
    <2> QED  BY <1>3, <2>1
<1>7. CASE UNCHANGED vars
    BY <1>3, <1>7 DEF vars, senderVars
<1> QED  BY <1>1, <1>2, <1>4, <1>5, <1>6, <1>7 DEF Next, Send, Arrives

(* A window's count is of commands of one window only, so no more than a    *)
(* window has.                                                              *)
LEMMA CountFits ==
    ASSUME IInv, Order, NEW w \in 0..Windows - 1
    PROVE  reliableWindows[w] \in 0..WindowSize
<1> USE DEF Order
<1>1. /\ reliableWindows[w] = Cardinality(UnackedIn(w))
      /\ IsFiniteSet(UnackedIn(w)) /\ Cardinality(UnackedIn(w)) \in Nat
    BY CountedUnacked, UnackedFinite DEF IInv
<1>2. CASE UnackedIn(w) = {}
    BY <1>1, <1>2, FS_EmptySet, Sizes
<1>3. ASSUME NEW m \in UnackedIn(w) PROVE Cardinality(UnackedIn(w)) <= WindowSize
    <2> DEFINE I == WindowSize * Win(m)..WindowSize * Win(m) + WindowSize - 1
    <2>1. \A k \in UnackedIn(w) :
              /\ k \in Nat /\ k <= sentUpTo /\ Window(Seq16(k)) = w
              /\ Win(sentUpTo) <= Win(k) + FreeWindows - 2
        <3>1. \A k \in UnackedIn(w) : k \in sent \cup requeued /\ Window(Seq16(k)) = w
            BY DEF UnackedIn, Unacked
        <3>2. sent \cup requeued \subseteq 1..sentUpTo /\ sentUpTo \in Nat
            BY Places DEF Sender
        <3>3. \A k \in 1..sentUpTo : k \in Nat /\ k <= sentUpTo
            BY <3>2
        <3> QED  BY <3>1, <3>2, <3>3 DEF UnackedNear
    <2>2. sentUpTo \in Nat /\ Win(sentUpTo) \in Nat /\ m \in Nat /\ Win(m) \in Nat
        BY <2>1, Places, WinType
    <2>3. ASSUME NEW k \in UnackedIn(w) PROVE k \in I
        <3>1. /\ k \in Nat /\ Win(k) \in Nat /\ k % WindowSize \in 0..WindowSize - 1
              /\ k = WindowSize * Win(k) + (k % WindowSize)
            BY <2>1, WinType
        <3>2. Win(k) <= Win(sentUpTo) /\ Win(m) <= Win(sentUpTo)
            BY <2>1, <2>2, <3>1, WinMonotone
        <3>3. Win(k) < Win(m) + Windows /\ Win(m) < Win(k) + Windows
            BY <2>1, <2>2, <3>1, <3>2, Sizes
        <3>4. Win(k) % Windows = Win(m) % Windows
            BY <2>1, <2>2, <3>1, SeqParts
        <3>5. Win(k) = Win(m)
            <4> DEFINE x == Win(k)  y == Win(m)
            <4>1. x \in Nat /\ y \in Nat /\ x < y + Windows /\ y < x + Windows
                  /\ x % Windows = y % Windows /\ Windows \in Nat \ {0}
                BY <2>2, <3>1, <3>3, <3>4, Sizes
            <4> HIDE DEF x, y
            <4>2. x = y
                BY <4>1, SameRemainder
            <4> QED  BY <4>2 DEF x, y
        <3>6. WindowSize * Win(m) \in Nat /\ WindowSize \in Nat \ {0}
            BY <2>2, Sizes, Products
        <3> DEFINE y == WindowSize * Win(m)
        <3>7. k = y + (k % WindowSize) /\ y \in Nat
            BY <3>1, <3>5, <3>6
        <3> HIDE DEF y
        <3>8. k \in y..y + WindowSize - 1
            BY <3>1, <3>6, <3>7
        <3> QED  BY <3>8 DEF y
    <2>4. IsFiniteSet(I) /\ Cardinality(I) = WindowSize
        <3> DEFINE y == WindowSize * Win(m)
        <3>1. y \in Nat /\ WindowSize \in Nat \ {0}
            BY <2>2, Sizes, Products
        <3> HIDE DEF y
        <3>2. /\ y \in Int /\ y + WindowSize - 1 \in Int /\ ~(y > y + WindowSize - 1)
              /\ (y + WindowSize - 1) - y + 1 = WindowSize
            BY <3>1
        <3>3. IsFiniteSet(y..y + WindowSize - 1)
              /\ Cardinality(y..y + WindowSize - 1) = WindowSize
            BY <3>2, FS_Interval
        <3> QED  BY <3>3 DEF y
    <2> HIDE DEF I
    <2>5. UnackedIn(w) \subseteq I
        BY <2>3
    <2> QED  BY <2>4, <2>5, FS_Subset
<1> QED  BY <1>1, <1>2, <1>3, Sizes

LEMMA OrderTypes == IInv /\ Order /\ Used => TypeOK
<1> SUFFICES ASSUME IInv, Order, Used PROVE TypeOK
    OBVIOUS
<1> USE DEF Order
<1>1. /\ accepted \in 0..Packets /\ sentUpTo \in 0..Outgoing
      /\ sent \subseteq 1..sentUpTo /\ requeued \subseteq (1..sentUpTo) \ sent
      /\ closed \in BOOLEAN
    BY ChannelAssumption DEF Sender
<1>2. reliableWindows \in [0..Windows - 1 -> 0..WindowSize]
    <2>1. \A w \in 0..Windows - 1 : reliableWindows[w] \in 0..WindowSize
        BY CountFits
    <2> QED  BY <2>1 DEF IInv, SenderType
<1>3. wire \subseteq 1..sentUpTo /\ acks \subseteq 1..sentUpTo
    BY DEF OnTheWire
<1>4. incomingReliableSequenceNumber \in 0..SeqNumbers - 1
    BY Places, SeqParts DEF Receiver
<1>5. incomingReliableCommands \subseteq Incoming
    BY DEF Queued, Queue
<1>6. dispatchedCommands \in Seq(1..Packets) /\ delivered \in 0..Packets
    <2>1. /\ dispatchedCommands \in Seq(Nat) /\ delivered \in Nat /\ Packets \in Nat
          /\ delivered + Len(dispatchedCommands) <= Packets
          /\ \A i \in 1..Len(dispatchedCommands) : dispatchedCommands[i] = delivered + i
        BY Places, ChannelAssumption DEF Receiver, Last
    <2>2. Len(dispatchedCommands) \in Nat
        BY <2>1
    <2>3. \A i \in 1..Len(dispatchedCommands) : dispatchedCommands[i] \in 1..Packets
        BY <2>1, <2>2
    <2>4. dispatchedCommands \in Seq(1..Packets)
        <3>1. \A d \in Seq(Nat) : d \in [1..Len(d) -> Nat]
            OBVIOUS
        <3>2. dispatchedCommands \in [1..Len(dispatchedCommands) -> 1..Packets]
            BY <2>1, <2>3, <3>1
        <3>3. \A S, k \in Nat : \A f \in [1..k -> 1..S] : f \in Seq(1..S)
            OBVIOUS
        <3> QED  BY <2>1, <2>2, <3>2, <3>3
    <2> QED  BY <2>1, <2>2, <2>4
<1> QED  BY <1>1, <1>2, <1>3, <1>4, <1>5, <1>6 DEF Used, TypeOK

-----------------------------------------------------------------------------
LEMMA SpecOrder == Spec => [](IInv /\ Order /\ Used)
<1>1. Init => IInv /\ Order /\ Used
    BY InitIInv, InitOrder, InitUsed
<1>2. IInv /\ Order /\ Used /\ [Next]_vars => (IInv /\ Order /\ Used)'
    BY StepIInv, StepOrder, StepUsed
<1> QED  BY <1>1, <1>2, PTL DEF Spec

(* enet_peer_queue_outgoing_command, check_outgoing_commands and the        *)
(* handlers of enet/protocol.c keep their variables in range: a window's    *)
(* count, a uint16 in ENet, never exceeds the commands of a window.         *)
THEOREM Types == Spec => []TypeOK
<1>1. IInv /\ Order /\ Used => TypeOK
    BY OrderTypes
<1> QED  BY <1>1, SpecOrder, PTL

(* What has been acknowledged, or is being acknowledged, the receiver has:  *)
(* handle_acknowledge never drops a command that would have to be sent      *)
(* again.                                                                   *)
THEOREM AcksAreTrue == Spec => []AckMeansReceived
<1>1. Order => AckMeansReceived
    BY DEF Order
<1> QED  BY <1>1, SpecOrder, PTL

(* The two tests of check_outgoing_commands keep the sender in the windows  *)
(* ahead of the receiver's where a command is taken for what it is.         *)
THEOREM SenderStaysInWindow == Spec => []StaysInWindow
<1>1. Order => StaysInWindow
    BY DEF Order
<1> QED  BY <1>1, SpecOrder, PTL

(* The abstract channel, as far as safety goes: the first state is one of   *)
(* its first states, and every step is one of its steps or leaves it alone. *)
LEMMA InitChannel == Init => Channel!Init
<1> SUFFICES ASSUME Init PROVE Channel!Init
    OBVIOUS
<1>1. accepted = Base /\ delivered = Base /\ closed = FALSE /\ Base \in Nat
    BY ChannelAssumption DEF Init
<1> QED  BY <1>1 DEF Channel!Init

LEMMA StepChannel == Order /\ [Next]_vars => [Channel!Next]_(Channel!channelVars)
<1> SUFFICES ASSUME Order, [Next]_vars
             PROVE  Channel!Next \/ UNCHANGED Channel!channelVars
    OBVIOUS
<1>1. /\ accepted \in Nat /\ delivered \in Nat /\ Base \in Nat /\ Last \in Nat
      /\ Last <= accepted
    BY ChannelAssumption, Places DEF Order, Sender, Receiver
<1>2. CASE PeerSend
    <2>1. accepted' - Base = (accepted - Base) + 1
        BY <1>1, <1>2 DEF PeerSend
    <2> QED  BY <1>2, <2>1 DEF PeerSend, receiverVars, Channel!Next, Channel!Send
<1>3. CASE Deliver
    <2>1. delivered' = delivered + 1 /\ delivered < Last
        BY <1>3, DeliverNext DEF Order
    <2>2. delivered' - Base = (delivered - Base) + 1 /\ delivered - Base < accepted - Base
        BY <1>1, <2>1
    <2> QED  BY <1>3, <2>2 DEF Deliver, senderVars, Channel!Next, Channel!Deliver
<1>4. CASE GiveUp
    <2>1. ~closed
        BY <1>4 DEF Order, Sender, GiveUp
    <2> QED  BY <1>4, <2>1 DEF GiveUp, receiverVars, Channel!Next, Channel!Close
<1>5. CASE UNCHANGED <<accepted, delivered, closed>>
    BY <1>5 DEF Channel!channelVars
<1>6. CASE Send \/ Arrives \/ Loses
    <2>1. UNCHANGED <<accepted, delivered, closed>>
        BY <1>6 DEF Send, SendNew, SendAgain, Arrives, ReceiveCommand, ReceiveAck,
                    HandleAcknowledge, Loses, LoseCommand, LoseAck, senderVars, receiverVars
    <2> QED  BY <1>5, <2>1
<1>7. CASE \E n \in sent : Timeout(n)
    BY <1>5, <1>7 DEF Timeout, receiverVars
<1>8. CASE UNCHANGED vars
    BY <1>5, <1>8 DEF vars, senderVars, receiverVars
<1> QED  BY <1>2, <1>3, <1>4, <1>6, <1>7, <1>8 DEF Next

(* The packets given to enet_peer_send come out of enet_host_service at the *)
(* other end once each and in their order, none that was not sent and none  *)
(* in pieces, however datagrams are lost, doubled and delayed within their  *)
(* lifetime and however often the sequence numbers wrap.                    *)
THEOREM ChannelKeepsOrder ==
    Spec => Channel!Init /\ [][Channel!Next]_(Channel!channelVars)
<1>1. Order /\ [Next]_vars => [Channel!Next]_(Channel!channelVars)
    BY StepChannel
<1> QED  BY <1>1, InitChannel, SpecOrder, PTL DEF Spec
=============================================================================
