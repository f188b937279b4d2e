-------------------------- MODULE EnetReceiver_proof --------------------------
(***************************************************************************)
(* The receiver of EnetChannel: what it makes of a command that is not     *)
(* older than Reach, and not further ahead than the sender may get.  The   *)
(* invariant that says so is Order; EnetOrder_proof shows that every step  *)
(* of the channel keeps it, and what follows from it.                      *)
(***************************************************************************)
EXTENDS EnetChannel_proof

-----------------------------------------------------------------------------
(* Counting.                                                                *)

(* A set of numbers above a that lacks none below one of its own is an      *)
(* interval, as long as the set is large.                                   *)
LEMMA DownClosed ==
    ASSUME NEW a \in Nat, NEW b \in Nat, NEW D \in SUBSET (a + 1..b),
           \A x \in D : a + 1..x \subseteq D
    PROVE  /\ IsFiniteSet(D) /\ Cardinality(D) \in Nat
           /\ D = a + 1..a + Cardinality(D)
<1> DEFINE k == Cardinality(D)
<1>1. IsFiniteSet(D) /\ k \in Nat
    <2>1. IsFiniteSet(a + 1..b)
        BY FS_Interval
    <2> QED  BY <2>1, FS_Subset, FS_CardinalityType
<1>2. ASSUME NEW x \in D PROVE x \in a + 1..a + k
    <2>1. x \in a + 1..b /\ a + 1..x \subseteq D
        OBVIOUS
    <2>2. Cardinality(a + 1..x) = x - a
        BY <2>1, FS_Interval
    <2>3. Cardinality(a + 1..x) <= k
        BY <1>1, <2>1, FS_Subset
    <2> QED  BY <1>1, <2>1, <2>2, <2>3
<1> HIDE DEF k
<1>3. IsFiniteSet(a + 1..a + k) /\ Cardinality(a + 1..a + k) = k
    BY <1>1, FS_Interval
<1>4. D = a + 1..a + k
    BY <1>2, <1>3, FS_Subset DEF k
<1> QED  BY <1>1, <1>4 DEF k

(* k numbers in increasing order out of k in a row are those in a row.      *)
LEMMA IncreasingOnto ==
    ASSUME NEW a \in Nat, NEW k \in Nat, NEW g \in [1..k -> a + 1..a + k],
           \A i, j \in 1..k : i < j => g[i] < g[j]
    PROVE  \A i \in 1..k : g[i] = a + i
<1> SUFFICES ASSUME NEW i \in 1..k PROVE g[i] = a + i
    OBVIOUS
<1>0. /\ \A j \in 1..k : g[j] \in Nat /\ a + 1 <= g[j] /\ g[j] <= a + k
      /\ \A x, y \in 1..k : x < y => g[x] < g[y]
      /\ i \in Nat /\ a \in Nat /\ k \in Nat /\ 1 <= i /\ i <= k /\ g[i] \in Nat
    OBVIOUS
<1>1. \A x, y \in 1..k : g[x] = g[y] => x = y
    <2>1. \A x, y \in 1..k : x < y \/ y < x \/ x = y
        OBVIOUS
    <2>2. \A u \in Nat : ~(u < u)
        OBVIOUS
    <2> QED  BY <1>0, <2>1, <2>2
<1>2. i <= g[i] - a
    <2> DEFINE S == 1..i  T == a + 1..g[i]  f == [j \in S |-> g[j]]
    <2>1. \A x \in S : x \in 1..k /\ (x = i \/ x < i)
        BY <1>0
    <2>2. ASSUME NEW x \in S PROVE g[x] \in T
        <3>1. x \in 1..k /\ g[x] \in Nat /\ a + 1 <= g[x] /\ g[x] <= a + k
            BY <1>0, <2>1
        <3>2. x = i \/ g[x] < g[i]
            BY <1>0, <2>1, <3>1
        <3> QED  BY <1>0, <3>1, <3>2
    <2>3. f \in Injection(S, T)
        BY <1>1, <2>1, <2>2 DEF Injection, IsInjective
    <2>4. IsFiniteSet(T) /\ Cardinality(S) = i /\ Cardinality(T) = g[i] - a
        <3>1. g[i] \in Int /\ g[i] >= a + 1 /\ i \in Int /\ i >= 1
            BY <1>0
        <3> QED  BY <1>0, <3>1, FS_Interval
    <2> HIDE DEF S, T, f
    <2> QED  BY <2>3, <2>4, FS_Injection
<1>3. k - i + 1 <= a + k - g[i] + 1
    <2> DEFINE S == i..k  T == g[i]..a + k  f == [j \in S |-> g[j]]
    <2>1. \A x \in S : x \in 1..k /\ (x = i \/ i < x)
        BY <1>0
    <2>2. ASSUME NEW x \in S PROVE g[x] \in T
        <3>1. x \in 1..k /\ g[x] \in Nat /\ a + 1 <= g[x] /\ g[x] <= a + k
            BY <1>0, <2>1
        <3>2. x = i \/ g[i] < g[x]
            BY <1>0, <2>1, <3>1
        <3> QED  BY <1>0, <3>1, <3>2
    <2>3. f \in Injection(S, T)
        BY <1>1, <2>1, <2>2 DEF Injection, IsInjective
    <2>4. IsFiniteSet(T) /\ Cardinality(S) = k - i + 1 /\ Cardinality(T) = a + k - g[i] + 1
        <3>1. IsFiniteSet(T) /\ Cardinality(T) = a + k - g[i] + 1
            <4>1. g[i] \in Int /\ a + k \in Int /\ ~(g[i] > a + k)
                BY <1>0
            <4> QED  BY <4>1, FS_Interval
        <3>2. Cardinality(S) = k - i + 1
            BY <1>0, FS_Interval
        <3> QED  BY <3>1, <3>2
    <2> HIDE DEF S, T, f
    <2> QED  BY <2>3, <2>4, FS_Injection
<1>4. \A h \in Nat : i <= h - a /\ k - i + 1 <= a + k - h + 1 => h = a + i
    BY <1>0
<1> QED  BY <1>0, <1>2, <1>3, <1>4

(* The set of f[x] for x in S, when f tells its arguments apart.            *)
LEMMA ImageCount ==
    ASSUME NEW S, IsFiniteSet(S), NEW f, f \in [S -> {f[x] : x \in S}],
           \A x, y \in S : f[x] = f[y] => x = y
    PROVE  /\ IsFiniteSet({f[x] : x \in S})
           /\ Cardinality({f[x] : x \in S}) = Cardinality(S)
<1> DEFINE T == {f[x] : x \in S}
<1>1. f \in Bijection(S, T)
    BY DEF Bijection, Injection, Surjection, IsInjective
<1> QED  BY <1>1, FS_Bijection DEF ExistsBijection

(* Every command is of one packet.                                          *)
LEMMA PacketOfType ==
    ASSUME NEW n \in Commands
    PROVE  /\ PacketOf[n] \in 1..Packets
           /\ First[PacketOf[n]] <= n /\ n < First[PacketOf[n] + 1]
<1> DEFINE D == {p \in 1..Packets : First[p] <= n}  k == Cardinality(D)
<1>1. Packets \in Nat /\ n \in Nat \ {0} /\ n < First[Packets + 1]
    <2>1. Packets \in Nat
        BY ChannelAssumption
    <2>2. First[Packets + 1] \in Nat
        BY <2>1, FirstType
    <2> QED  BY <2>1, <2>2 DEF Commands
<1>2. First[1] = 1
    <2>1. LongBefore(1) = {}
        BY LongType DEF LongBefore
    <2>2. Cardinality(LongBefore(1)) = 0
        BY <2>1, FS_EmptySet
    <2> QED  BY <1>1, <2>2, FirstType, FragmentType
<1>3. D \in SUBSET (0 + 1..Packets) /\ \A x \in D : 0 + 1..x \subseteq D
    <2> SUFFICES ASSUME NEW x \in D, NEW y \in 1..x PROVE y \in D
        BY <1>1
    <2>1. x \in 1..Packets + 1 /\ y \in 1..Packets + 1 /\ y \in 1..Packets
        BY <1>1
    <2>2. First[y] \in Nat /\ First[x] \in Nat
        BY <2>1, FirstType
    <2>3. y < x => First[y] < First[x]
        BY <2>1, FirstMonotone
    <2> QED  BY <1>1, <2>1, <2>2, <2>3
<1>4. k \in Nat /\ D = 1..k
    <2> HIDE DEF D
    <2>1. Cardinality(D) \in Nat /\ D = 0 + 1..0 + Cardinality(D)
        BY <1>1, <1>3, DownClosed
    <2> QED  BY <2>1
<1>5. k \in 1..Packets
    <2>1. 1 \in 1..Packets
        <3>1. Packets # 0
            BY <1>1, <1>2
        <3> QED  BY <1>1, <3>1
    <2>2. 1 \in D
        BY <1>1, <1>2, <2>1
    <2>3. k \in D
        BY <1>4, <2>2
    <2> QED  BY <2>3
<1>6. First[k] <= n /\ n < First[k + 1]
    <2>1. k \in D
        BY <1>4, <1>5
    <2>2. k + 1 \notin D
        BY <1>4
    <2>3. First[k + 1] \in Nat
        BY <1>1, <1>5, FirstType
    <2> QED  BY <1>1, <1>5, <2>1, <2>2, <2>3
<1> HIDE DEF k
<1> QED  BY <1>5, <1>6 DEF PacketOf

LEMMA PacketOfUnique ==
    ASSUME NEW n \in Commands, NEW p \in 1..Packets, First[p] <= n, n < First[p + 1]
    PROVE  PacketOf[n] = p
<1> DEFINE q == PacketOf[n]
<1>1. q \in 1..Packets /\ First[q] <= n /\ n < First[q + 1]
    BY PacketOfType
<1> HIDE DEF q
<1>2. /\ p + 1 \in 1..Packets + 1 /\ q + 1 \in 1..Packets + 1
      /\ p \in 1..Packets + 1 /\ q \in 1..Packets + 1 /\ p \in Nat /\ q \in Nat
    BY <1>1, ChannelAssumption
<1>3. /\ First[p] \in Nat /\ First[p + 1] \in Nat /\ First[q] \in Nat
      /\ First[q + 1] \in Nat /\ n \in Nat
    BY <1>1, <1>2, FirstType, ChannelAssumption DEF Commands
<1>4. ~(p < q)
    <2>1. p + 1 < q => First[p + 1] < First[q]
        BY <1>1, <1>2, FirstMonotone
    <2> QED  BY <1>1, <1>2, <1>3, <2>1
<1>5. ~(q < p)
    <2>1. q + 1 < p => First[q + 1] < First[p]
        BY <1>1, <1>2, FirstMonotone
    <2> QED  BY <1>1, <1>2, <1>3, <2>1
<1> QED  BY <1>2, <1>4, <1>5 DEF q

-----------------------------------------------------------------------------
(* The invariant.                                                           *)

\* No datagram is older than that: neither one that was sent once and lives on,
\* nor one that was sent again.
Reach == (FreeWindows + 1) * WindowSize + 1 - FragmentCount

\* the last packet the receiver has in order
Last == delivered + Len(dispatchedCommands)

Numbers(p, upTo) == {Seq16(k) : k \in {j \in First[p]..First[p + 1] - 1 : j <= upTo}}

Sender ==
    /\ accepted \in Base..Packets
    /\ sentUpTo \in 0..Outgoing
    /\ sent \subseteq 1..sentUpTo /\ requeued \subseteq (1..sentUpTo) \ sent
    /\ closed \in BOOLEAN
    /\ closed => sent = {} /\ requeued = {} /\ acks = {}

OnTheWire == \A m \in wire \cup acks : m \in 1..sentUpTo /\ sentUpTo < m + Reach

\* Not acknowledged, and so not far behind: the second test of WindowWrap.
UnackedNear == \A m \in sent \cup requeued : Win(sentUpTo) <= Win(m) + FreeWindows - 2

\* Acknowledged, and so not far ahead: the receiver's test.
AckedNear == /\ \A m \in acks : Win(m) <= Win(Received) + FreeWindows - 2
             /\ ~closed => \A m \in 1..sentUpTo : \/ m \in sent \cup requeued
                                                  \/ Win(m) <= Win(Received) + FreeWindows - 2

Receiver ==
    /\ delivered \in Nat /\ dispatchedCommands \in Seq(Nat)
    /\ Last \in Base..accepted
    /\ Received <= sentUpTo
    /\ incomingReliableSequenceNumber = Seq16(Received)
    /\ \A i \in 1..Len(dispatchedCommands) : dispatchedCommands[i] = delivered + i

\* What is in the queue, when the receiver has all up to packet last in order.
Queue(commands, last, upTo) ==
    /\ commands \subseteq Incoming
    /\ \A c \in commands :
          /\ last < c.packet /\ First[c.packet] <= upTo
          /\ c.start = Seq16(First[c.packet]) /\ c.count = Length(c.packet)
          /\ c.got \subseteq Numbers(c.packet, upTo)
    /\ \A b, c \in commands : b.packet = c.packet => b = c

Queued == Queue(incomingReliableCommands, Last, sentUpTo)

Order == /\ Sender /\ OnTheWire /\ UnackedNear /\ AckedNear /\ StaysInWindow
         /\ Receiver /\ Queued /\ AckMeansReceived

-----------------------------------------------------------------------------
LEMMA Reaches ==
    /\ Reach \in Nat /\ Lifetime \in Nat \ {0} /\ Lifetime <= Reach
    /\ WindowSize * (FreeWindows - 1) <= Reach
    /\ Reach + FragmentCount = WindowSize * (FreeWindows + 1) + 1
<1> DEFINE a == WindowSize * (FreeWindows - 1)
<1>1. a \in Nat
    BY Sizes, Products
<1>2. (FreeWindows + 1) * WindowSize = a + 2 * WindowSize
    BY Sizes
<1>3. WindowSize * (FreeWindows + 1) = a + 2 * WindowSize
    BY Sizes
<1>4. FragmentCount \in 2..2 * WindowSize
    BY ChannelAssumption
<1>5. Lifetime \in 1..(FreeWindows + 1) * WindowSize + 1 - FragmentCount
    BY ChannelAssumption
<1> HIDE DEF a
<1>6. /\ Reach \in Nat /\ Lifetime \in Nat \ {0} /\ Lifetime <= Reach /\ a <= Reach
      /\ Reach + FragmentCount = WindowSize * (FreeWindows + 1) + 1
    BY <1>1, <1>2, <1>3, <1>4, <1>5, Sizes DEF Reach
<1> QED  BY <1>6 DEF a

(* How far ahead one sequence number is of another, and the next ones.      *)
LEMMA AheadNumber ==
    ASSUME NEW r \in Nat, NEW n \in Nat, r <= n, n < r + SeqNumbers
    PROVE  (Seq16(n) + SeqNumbers - Seq16(r)) % SeqNumbers = n - r
<1> DEFINE d == n - r  x == Seq16(n) + SeqNumbers - Seq16(r)
<1>1. /\ Seq16(n) \in 0..SeqNumbers - 1 /\ Seq16(r) \in 0..SeqNumbers - 1
      /\ d \in 0..SeqNumbers - 1 /\ x \in Nat /\ SeqNumbers \in Nat \ {0}
    BY SeqParts, Sizes
<1>2. PICK a \in Nat, b \in Nat : n = SeqNumbers * a + Seq16(n) /\ r = SeqNumbers * b + Seq16(r)
    <2>1. /\ n \div SeqNumbers \in Nat /\ n = SeqNumbers * (n \div SeqNumbers) + Seq16(n)
          /\ r \div SeqNumbers \in Nat /\ r = SeqNumbers * (r \div SeqNumbers) + Seq16(r)
        BY Sizes, DivMod DEF Seq16
    <2> QED  BY <2>1
<1>3. /\ SeqNumbers * a \in Nat /\ SeqNumbers * b \in Nat
      /\ a < b => SeqNumbers * a + SeqNumbers <= SeqNumbers * b
      /\ b + 1 < a => SeqNumbers * (b + 1) + SeqNumbers <= SeqNumbers * a
      /\ SeqNumbers * (b + 1) = SeqNumbers * b + SeqNumbers
    BY <1>1, Products
<1>4. a = b \/ a = b + 1
    BY <1>1, <1>2, <1>3
<1>5. SeqNumbers * 0 = 0 /\ SeqNumbers * 1 = SeqNumbers
    BY <1>1
<1>6. CASE a = b
    <2>1. x = SeqNumbers * 1 + d
        BY <1>1, <1>2, <1>3, <1>5, <1>6
    <2> HIDE DEF x, d
    <2>2. x % SeqNumbers = d
        BY <1>1, <2>1, DivModUnique
    <2> QED  BY <2>2 DEF x, d
<1>7. CASE a = b + 1
    <2>1. x = SeqNumbers * 0 + d
        BY <1>1, <1>2, <1>3, <1>5, <1>7
    <2> HIDE DEF x, d
    <2>2. x % SeqNumbers = d
        BY <1>1, <2>1, DivModUnique
    <2> QED  BY <2>2 DEF x, d
<1> QED  BY <1>4, <1>6, <1>7

LEMMA NextNumber ==
    ASSUME NEW r \in Nat, NEW d \in Nat
    PROVE  (Seq16(r) + d) % SeqNumbers = Seq16(r + d)
<1>1. /\ Seq16(r) \in 0..SeqNumbers - 1 /\ SeqNumbers \in Nat \ {0} /\ Seq16(r) + d \in Nat
      /\ r + d \in Nat
    BY SeqParts, Sizes
<1>2. PICK b \in Nat : r = SeqNumbers * b + Seq16(r)
    BY Sizes, DivMod DEF Seq16
<1>3. PICK c \in Nat, y \in 0..SeqNumbers - 1 :
          Seq16(r) + d = SeqNumbers * c + y /\ y = (Seq16(r) + d) % SeqNumbers
    BY <1>1, DivMod
<1>4. r + d = SeqNumbers * (b + c) + y
    <2>1. SeqNumbers * (b + c) = SeqNumbers * b + SeqNumbers * c
        BY <1>1, Products
    <2>2. SeqNumbers * b \in Nat /\ SeqNumbers * c \in Nat
        BY <1>1, Products
    <2> QED  BY <1>1, <1>2, <1>3, <2>1, <2>2
<1>5. (r + d) % SeqNumbers = y
    <2>1. b + c \in Nat
        OBVIOUS
    <2>2. (SeqNumbers * (b + c) + y) % SeqNumbers = y
        BY <1>1, <2>1, DivModUnique
    <2> QED  BY <1>4, <2>2
<1> QED  BY <1>3, <1>5 DEF Seq16

(* Where the two ends are.                                                  *)
LEMMA Places ==
    ASSUME Sender, Receiver, StaysInWindow
    PROVE  /\ Last \in 0..Packets /\ Received \in Nat /\ First[Last + 1] = Received + 1
           /\ sentUpTo \in Nat /\ Received <= sentUpTo
           /\ Win(sentUpTo) <= Win(Received) + FreeWindows - 1
           /\ sentUpTo < Received + WindowSize * FreeWindows
           /\ sentUpTo < Received + SeqNumbers
           /\ 1..sentUpTo \subseteq Commands
<1>1. Last \in 0..Packets /\ accepted \in 0..Packets /\ Packets \in Nat
    BY ChannelAssumption DEF Sender, Receiver
<1>2. First[Last + 1] \in Nat \ {0} /\ First[accepted + 1] \in Nat \ {0}
      /\ First[Packets + 1] \in Nat \ {0}
    BY <1>1, FirstType
<1>3. Received \in Nat /\ First[Last + 1] = Received + 1
    BY <1>2 DEF Received, Last
<1>4. sentUpTo \in Nat /\ Received <= sentUpTo
    BY <1>2 DEF Sender, Receiver, Outgoing
<1>5. Win(sentUpTo) <= Win(Received) + FreeWindows - 1
    BY DEF StaysInWindow, Win
<1>6. sentUpTo < Received + WindowSize * FreeWindows
    <2>1. Win(sentUpTo) < Win(Received) + FreeWindows
        BY <1>3, <1>4, <1>5, WinType, Sizes
    <2> QED  BY <1>3, <1>4, <2>1, WinDistance, Sizes
<1>7. sentUpTo < Received + SeqNumbers
    <2>1. WindowSize * FreeWindows <= WindowSize * Windows /\ WindowSize * FreeWindows \in Nat
        BY Sizes, Products
    <2> QED  BY <1>3, <1>4, <1>6, <2>1, Sizes
<1>8. 1..sentUpTo \subseteq Commands
    <2>1. accepted < Packets => First[accepted + 1] < First[Packets + 1]
        BY <1>1, FirstMonotone
    <2>2. sentUpTo <= First[Packets + 1] - 1
        BY <1>1, <1>2, <2>1 DEF Sender, Outgoing
    <2> QED  BY <1>2, <1>4, <2>2 DEF Commands
<1> QED  BY <1>1, <1>3, <1>4, <1>5, <1>6, <1>7, <1>8

-----------------------------------------------------------------------------
(* The receiver's queue.                                                    *)

(* A command in the queue that is complete has all numbers of its packet,   *)
(* and the sender has sent them all.                                        *)
LEMMA WholePacket ==
    ASSUME NEW p \in 1..Packets, NEW upTo \in Nat, NEW got, got \subseteq Numbers(p, upTo),
           Cardinality(got) = Length(p)
    PROVE  /\ First[p + 1] - 1 <= upTo
           /\ \A k \in First[p]..First[p + 1] - 1 : Seq16(k) \in got
<1> DEFINE I == First[p]..First[p + 1] - 1
           f == [k \in I |-> Seq16(k)]
           T == {f[k] : k \in I}
<1>1. /\ First[p] \in Nat /\ First[p + 1] \in Nat /\ First[p + 1] = First[p] + Length(p)
      /\ Length(p) \in Nat /\ Length(p) >= 1 /\ Length(p) < SeqNumbers
    <2>1. FragmentCount < SeqNumbers
        <3>1. FragmentCount <= 2 * WindowSize
            BY ChannelAssumption
        <3>2. WindowSize * 3 <= SeqNumbers
            BY Sizes, Products
        <3> QED  BY <3>1, <3>2, Sizes, FragmentType
    <2>2. First[p] \in Nat /\ First[p + 1] \in Nat
        BY FirstType, ChannelAssumption
    <2> QED  BY <2>1, <2>2, FirstStep, LengthType, Sizes, FragmentType
<1>2. \A j, k \in I : Seq16(j) = Seq16(k) => j = k
    <2> SUFFICES ASSUME NEW j \in I, NEW k \in I, Seq16(j) = Seq16(k) PROVE j = k
        OBVIOUS
    <2>1. j \in Nat /\ k \in Nat /\ j < k + SeqNumbers /\ k < j + SeqNumbers
        BY <1>1, Sizes
    <2> QED  BY <2>1, SameNumber
<1>3. IsFiniteSet(I) /\ Cardinality(I) = Length(p)
    <2>1. /\ First[p] \in Int /\ First[p + 1] - 1 \in Int
          /\ ~(First[p] > First[p + 1] - 1)
          /\ First[p + 1] - 1 - First[p] + 1 = Length(p)
        BY <1>1
    <2> QED  BY <2>1, FS_Interval
<1>4. IsFiniteSet(T) /\ Cardinality(T) = Length(p)
    <2>1. f \in [I -> T] /\ \A x, y \in I : f[x] = f[y] => x = y
        BY <1>2
    <2> HIDE DEF I, f
    <2> QED  BY <1>3, <2>1, ImageCount
<1>5. got \subseteq T
    BY DEF Numbers
<1>6. got = T
    <2> HIDE DEF T
    <2> QED  BY <1>4, <1>5, FS_Subset
<1>7. First[p + 1] - 1 <= upTo
    <2>1. First[p + 1] - 1 \in I
        BY <1>1
    <2>2. Seq16(First[p + 1] - 1) \in got
        BY <1>6, <2>1
    <2>3. PICK k \in I : k <= upTo /\ Seq16(k) = Seq16(First[p + 1] - 1)
        BY <2>2 DEF Numbers
    <2> QED  BY <1>2, <2>1, <2>3
<1> QED  BY <1>6, <1>7

LEMMA Concatenated ==
    \A s, t \in Seq(Nat) : s \o t \in Seq(Nat) /\ Len(s \o t) = Len(s) + Len(t)
OBVIOUS

(* Dispatch hands over packets in order, and leaves those that are not.     *)
LEMMA DispatchOrder ==
    ASSUME Sender, Receiver, StaysInWindow, NEW commands,
           Queue(commands, Last, sentUpTo), Dispatch(commands)
    PROVE  \E k \in Nat :
               /\ Last + k \in 0..Packets
               /\ First[Last + k + 1] - 1 <= sentUpTo
               /\ incomingReliableSequenceNumber' = Seq16(First[Last + k + 1] - 1)
               /\ incomingReliableCommands' = {c \in commands : c.packet > Last + k}
               /\ dispatchedCommands' \in Seq(Nat)
               /\ Len(dispatchedCommands') = Len(dispatchedCommands) + k
               /\ \A i \in 1..Len(dispatchedCommands') : dispatchedCommands'[i] = delivered + i
<1> DEFINE R == Received
           seq(c) == First[c.packet]
           ready == Ready(commands)
           P == {c.packet : c \in ready}
           whole == {c \in commands : Complete(c)}
<1>1. /\ Last \in 0..Packets /\ R \in Nat /\ First[Last + 1] = R + 1
      /\ sentUpTo \in Nat /\ R <= sentUpTo /\ sentUpTo < R + SeqNumbers
      /\ 1..sentUpTo \subseteq Commands
      /\ incomingReliableSequenceNumber = Seq16(R) /\ Packets \in Nat
      /\ SeqNumbers \in Nat \ {0}
    BY Places, Sizes, ChannelAssumption DEF Receiver
<1> HIDE DEF R
<1>2. ASSUME NEW c \in commands
      PROVE  /\ c.packet \in 1..Packets /\ c.packet \in Last + 1..Packets
             /\ seq(c) \in Nat /\ R < seq(c) /\ seq(c) <= sentUpTo
             /\ First[c.packet + 1] \in Nat /\ First[c.packet + 1] = seq(c) + c.count
             /\ c.start = Seq16(seq(c)) /\ c.count = Length(c.packet)
             /\ c.got \subseteq Numbers(c.packet, sentUpTo)
             /\ Ahead(c.start) = seq(c) - R
    <2>1. c.packet \in 1..Packets /\ Last < c.packet /\ seq(c) <= sentUpTo
          /\ c.start = Seq16(seq(c)) /\ c.count = Length(c.packet)
          /\ c.got \subseteq Numbers(c.packet, sentUpTo)
        BY DEF Queue, Incoming
    <2>2. c.packet \in Last + 1..Packets /\ c.packet \in 1..Packets + 1
          /\ c.packet + 1 \in 1..Packets + 1 /\ Last + 1 \in 1..Packets + 1
        BY <1>1, <2>1
    <2>3. seq(c) \in Nat /\ First[c.packet + 1] \in Nat
        BY <2>2, FirstType
    <2>4. R < seq(c)
        <3>1. Last + 1 < c.packet => First[Last + 1] < First[c.packet]
            BY <2>2, FirstMonotone
        <3> QED  BY <1>1, <2>2, <2>3, <3>1
    <2>5. Ahead(c.start) = seq(c) - R
        BY <1>1, <2>1, <2>3, <2>4, AheadNumber DEF Ahead
    <2> QED  BY <2>1, <2>2, <2>3, <2>4, <2>5, FirstStep
<1>3. \A b, c \in commands : b.packet = c.packet => b = c
    BY DEF Queue
<1>4. ASSUME NEW c \in whole
      PROVE  /\ First[c.packet + 1] - 1 <= sentUpTo
             /\ Spans(c) = {Seq16(k) : k \in seq(c)..First[c.packet + 1] - 1}
    <2>1. Cardinality(c.got) = Length(c.packet)
        BY <1>2 DEF Complete
    <2>2. First[c.packet + 1] - 1 <= sentUpTo
        BY <1>1, <1>2, <2>1, WholePacket
    <2>3. /\ \A i \in 0..c.count - 1 : /\ (c.start + i) % SeqNumbers = Seq16(seq(c) + i)
                                       /\ seq(c) + i \in seq(c)..First[c.packet + 1] - 1
          /\ \A k \in seq(c)..First[c.packet + 1] - 1 : k - seq(c) \in 0..c.count - 1
                                                        /\ k = seq(c) + (k - seq(c))
        <3>1. c.count \in Nat /\ seq(c) \in Nat /\ First[c.packet + 1] = seq(c) + c.count
              /\ c.start = Seq16(seq(c))
            BY <1>2, LengthType
        <3>2. \A i \in 0..c.count - 1 : (c.start + i) % SeqNumbers = Seq16(seq(c) + i)
            <4> HIDE DEF seq
            <4> QED  BY <3>1, NextNumber
        <3> HIDE DEF seq
        <3> QED  BY <3>1, <3>2
    <2> QED  BY <2>2, <2>3 DEF Spans
<1> HIDE DEF seq
<1>5. ready \subseteq whole /\ whole \subseteq commands
    BY DEF Ready
\* a packet is ready only when those before are
<1>6. P \in SUBSET (Last + 1..Packets) /\ \A x \in P : Last + 1..x \subseteq P
    <2>1. P \subseteq Last + 1..Packets
        BY <1>2, <1>5
    <2> SUFFICES ASSUME NEW c \in ready, NEW y \in Last + 1..c.packet PROVE y \in P
        BY <2>1
    <2>2. c \in whole /\ c \in commands /\ c.packet \in Last + 1..Packets
        BY <1>2, <1>5
    <2>3. CASE y = c.packet
        BY <2>3
    <2>4. CASE y < c.packet
        <3> DEFINE d == First[y] - R
        <3>1. y \in 1..Packets /\ y + 1 \in 1..Packets + 1 /\ y \in 1..Packets + 1
              /\ Last + 1 \in 1..Packets + 1 /\ c.packet \in 1..Packets + 1
            BY <1>1, <2>2
        <3>2. /\ First[y] \in Nat /\ First[y] < seq(c) /\ R < First[y]
              /\ First[y] < First[y + 1] /\ First[y + 1] \in Nat
            <4>1. First[y] \in Nat /\ First[y] < seq(c) /\ First[y] < First[y + 1]
                  /\ First[y + 1] \in Nat
                BY <1>1, <2>4, <3>1, FirstType, FirstMonotone DEF seq
            <4>2. Last + 1 < y => First[Last + 1] < First[y]
                BY <3>1, FirstMonotone
            <4> QED  BY <1>1, <4>1, <4>2
        <3>3. /\ d \in 1..Ahead(c.start) - 1 /\ R + d = First[y]
              /\ (incomingReliableSequenceNumber + d) % SeqNumbers = Seq16(First[y])
            <4>1. d \in 1..Ahead(c.start) - 1 /\ R + d = First[y] /\ d \in Nat
                BY <1>1, <1>2, <2>2, <3>2
            <4> HIDE DEF d
            <4> QED  BY <1>1, <4>1, NextNumber
        <3>4. PICK b \in whole : Seq16(First[y]) \in Spans(b)
            BY <3>3 DEF Ready
        <3>5. b \in commands
            BY <1>5
        <3>6. PICK k \in seq(b)..First[b.packet + 1] - 1 : Seq16(First[y]) = Seq16(k)
            BY <1>4, <3>4
        <3>7. k = First[y]
            <4>1. k \in Nat /\ R < k /\ k <= sentUpTo /\ First[y] <= sentUpTo
                BY <1>1, <1>2, <1>4, <2>2, <3>2, <3>4, <3>5
            <4>2. k < First[y] + SeqNumbers /\ First[y] < k + SeqNumbers
                BY <1>1, <3>2, <4>1
            <4> QED  BY <3>2, <3>6, <4>1, <4>2, SameNumber
        <3>8. b.packet = y
            <4>1. First[y] \in Commands
                BY <1>1, <1>2, <2>2, <3>2
            <4>2. PacketOf[First[y]] = y
                BY <3>1, <3>2, <4>1, PacketOfUnique
            <4>3. PacketOf[First[y]] = b.packet
                <5>1. b.packet \in 1..Packets /\ First[b.packet] <= First[y]
                      /\ First[y] < First[b.packet + 1]
                    BY <1>2, <3>2, <3>5, <3>6, <3>7 DEF seq
                <5> QED  BY <4>1, <5>1, PacketOfUnique
            <4> QED  BY <4>2, <4>3
        <3>9. b \in ready
            <4>1. Ahead(b.start) = First[y] - R
                BY <1>2, <3>5, <3>8 DEF seq
            <4>2. 1..Ahead(b.start) - 1 \subseteq 1..Ahead(c.start) - 1
                BY <1>1, <1>2, <2>2, <3>2, <4>1
            <4> QED  BY <3>4, <4>2 DEF Ready
        <3> QED  BY <3>8, <3>9
    <2> QED  BY <1>1, <2>2, <2>3, <2>4
<1> DEFINE k == Cardinality(P)
<1>7. k \in Nat /\ P = Last + 1..Last + k /\ IsFiniteSet(P)
    <2>1. Last \in Nat
        BY <1>1
    <2> HIDE DEF P
    <2> QED  BY <1>1, <1>6, <2>1, DownClosed
<1>8. Cardinality(ready) = k
    <2> DEFINE f == [c \in ready |-> c.packet]
    <2>1. f \in Injection(ready, P) /\ f \in Surjection(ready, P)
        BY <1>3, <1>5 DEF Injection, Surjection, IsInjective
    <2> HIDE DEF f, P, ready
    <2> QED  BY <1>7, <2>1, FS_Injection
<1> HIDE DEF k
<1> DEFINE R2 == First[Last + k + 1] - 1
<1>9. Last + k \in 0..Packets
    <2>1. k = 0 \/ Last + k \in P
        BY <1>1, <1>7
    <2> QED  BY <1>1, <1>6, <1>7, <2>1
<1>10. R2 \in Nat /\ R <= R2 /\ R2 <= sentUpTo
    <2>1. Last + k + 1 \in 1..Packets + 1 /\ Last + 1 \in 1..Packets + 1
        BY <1>1, <1>9
    <2>2. First[Last + k + 1] \in Nat \ {0}
        BY <2>1, FirstType
    <2>3. CASE k = 0
        BY <1>1, <2>2, <2>3
    <2>4. CASE k # 0
        <3>1. Last + 1 < Last + k + 1
            BY <1>1, <1>7, <2>4
        <3>2. First[Last + 1] < First[Last + k + 1]
            BY <2>1, <3>1, FirstMonotone
        <3>3. PICK c \in ready : c.packet = Last + k
            BY <1>1, <1>7, <2>4
        <3>4. First[c.packet + 1] - 1 <= sentUpTo
            BY <1>4, <1>5
        <3> QED  BY <1>1, <2>2, <3>2, <3>3, <3>4
    <2> QED  BY <2>3, <2>4
<1> HIDE DEF R2
<1>11. Cardinality(UNION {Spans(c) : c \in ready}) = R2 - R
    <2> DEFINE I == R + 1..R2  f == [j \in I |-> Seq16(j)]  T == {f[j] : j \in I}
    <2>1. \A j \in I : j \in Nat /\ R < j /\ j <= sentUpTo
        BY <1>1, <1>10
    <2>2. \A i, j \in I : Seq16(i) = Seq16(j) => i = j
        <3> SUFFICES ASSUME NEW i \in I, NEW j \in I, Seq16(i) = Seq16(j) PROVE i = j
            OBVIOUS
        <3>1. i \in Nat /\ j \in Nat /\ i < j + SeqNumbers /\ j < i + SeqNumbers
            BY <1>1, <2>1
        <3> QED  BY <3>1, SameNumber
    <2>3. IsFiniteSet(I) /\ Cardinality(I) = R2 - R
        <3>1. R + 1 \in Int /\ R2 \in Int /\ (R + 1 > R2 => R2 - R = 0)
              /\ R2 - (R + 1) + 1 = R2 - R
            BY <1>1, <1>10
        <3> QED  BY <3>1, FS_Interval
    <2>4. Cardinality(T) = R2 - R
        <3>1. f \in [I -> T] /\ \A x, y \in I : f[x] = f[y] => x = y
            BY <2>2
        <3> HIDE DEF I, f
        <3> QED  BY <2>3, <3>1, ImageCount
    <2>5. ASSUME NEW c \in ready
          PROVE  Spans(c) \subseteq T
        <3>1. c \in whole /\ c \in commands /\ c.packet \in Last + 1..Last + k
            BY <1>5, <1>7
        <3>2. First[c.packet + 1] - 1 <= R2
            <4>1. c.packet + 1 \in 1..Packets + 1 /\ Last + k + 1 \in 1..Packets + 1
                BY <1>1, <1>2, <1>9, <3>1
            <4>2. c.packet + 1 < Last + k + 1 => First[c.packet + 1] < First[Last + k + 1]
                BY <4>1, FirstMonotone
            <4>3. First[c.packet + 1] \in Nat /\ First[Last + k + 1] \in Nat
                BY <4>1, FirstType
            <4> QED  BY <1>1, <1>7, <3>1, <4>2, <4>3 DEF R2
        <3>3. seq(c)..First[c.packet + 1] - 1 \subseteq I
            BY <1>1, <1>2, <1>10, <3>1, <3>2
        <3> QED  BY <1>4, <3>1, <3>3
    <2>6. ASSUME NEW j \in I
          PROVE  \E c \in ready : Seq16(j) \in Spans(c)
        <3> DEFINE q == PacketOf[j]
        <3>1. j \in Commands /\ j \in Nat
            BY <1>1, <2>1
        <3>2. q \in 1..Packets /\ First[q] <= j /\ j < First[q + 1]
            BY <3>1, PacketOfType
        <3> HIDE DEF q
        <3>3. q \in Last + 1..Last + k
            <4>1. q \in 1..Packets + 1 /\ q + 1 \in 1..Packets + 1
                  /\ Last + 1 \in 1..Packets + 1 /\ Last + k + 1 \in 1..Packets + 1
                BY <1>1, <1>9, <3>2
            <4>2. /\ First[q] \in Nat /\ First[q + 1] \in Nat
                  /\ First[Last + 1] = R + 1 /\ First[Last + k + 1] = R2 + 1
                BY <1>1, <4>1, FirstType DEF R2
            <4>3. ~(q < Last + 1)
                <5>1. q + 1 < Last + 1 => First[q + 1] < First[Last + 1]
                    BY <4>1, FirstMonotone
                <5> QED  BY <1>1, <2>1, <3>1, <3>2, <4>2, <5>1
            <4>4. ~(Last + k < q)
                <5>1. Last + k + 1 < q => First[Last + k + 1] < First[q]
                    BY <4>1, FirstMonotone
                <5> QED  BY <1>1, <1>7, <1>10, <3>1, <3>2, <4>2, <5>1
            <4> QED  BY <1>1, <1>7, <3>2, <4>3, <4>4
        <3>4. PICK c \in ready : c.packet = q
            BY <1>7, <3>3
        <3>5. j \in seq(c)..First[c.packet + 1] - 1
            <4>1. First[q] \in Nat /\ First[q + 1] \in Nat
                BY <1>1, <3>2, FirstType
            <4> QED  BY <3>1, <3>2, <3>4, <4>1 DEF seq
        <3> QED  BY <1>4, <1>5, <3>4, <3>5
    <2>7. UNION {Spans(c) : c \in ready} = T
        <3>1. \A j \in I : f[j] = Seq16(j)
            OBVIOUS
        <3> HIDE DEF ready, I, f
        <3> QED  BY <2>5, <2>6, <3>1
    <2> QED  BY <2>4, <2>7
<1>12. incomingReliableSequenceNumber' = Seq16(R2)
    <2>1. incomingReliableSequenceNumber' = (Seq16(R) + (R2 - R)) % SeqNumbers
        BY <1>1, <1>11 DEF Dispatch
    <2>2. R2 - R \in Nat /\ R + (R2 - R) = R2
        BY <1>1, <1>10
    <2> QED  BY <1>1, <2>1, <2>2, NextNumber
<1>13. incomingReliableCommands' = {c \in commands : c.packet > Last + k}
    <2>1. \A c \in commands : c \in ready <=> c.packet <= Last + k
        <3> SUFFICES ASSUME NEW c \in commands PROVE c \in ready <=> c.packet <= Last + k
            OBVIOUS
        <3>1. c.packet \in Last + 1..Packets
            BY <1>2
        <3>2. c \in ready => c.packet \in P
            OBVIOUS
        <3>3. c.packet \in P => c \in ready
            BY <1>3, <1>5
        <3> QED  BY <1>1, <1>7, <3>1, <3>2, <3>3
    <2>2. incomingReliableCommands' = commands \ ready
        BY DEF Dispatch
    <2> QED  BY <1>1, <1>2, <1>7, <2>1, <2>2
<1> DEFINE s == InOrder(ready)  g == [i \in 1..k |-> s[i].packet]
<1>14. /\ s \in [1..k -> ready]
       /\ \A i, j \in 1..k : i < j => Ahead(s[i].start) < Ahead(s[j].start)
    <2> DEFINE t == [i \in 1..k |-> CHOOSE c \in ready : c.packet = Last + i]
    <2>1. \A i \in 1..k : t[i] \in ready /\ t[i].packet = Last + i
        <3> SUFFICES ASSUME NEW i \in 1..k
                     PROVE  t[i] \in ready /\ t[i].packet = Last + i
            OBVIOUS
        <3>1. \E c \in ready : c.packet = Last + i
            BY <1>1, <1>7
        <3> HIDE DEF ready
        <3> QED  BY <3>1
    <2>2. t \in [1..k -> ready]
        BY <2>1
    <2>3. ASSUME NEW i \in 1..k, NEW j \in 1..k, i < j
          PROVE  Ahead(t[i].start) < Ahead(t[j].start)
        <3>1. /\ t[i] \in commands /\ t[j] \in commands
              /\ t[i].packet = Last + i /\ t[j].packet = Last + j
            BY <1>5, <2>1
        <3>2. Last + i \in 1..Packets + 1 /\ Last + j \in 1..Packets + 1 /\ Last + i < Last + j
            BY <1>1, <1>7, <1>9, <2>3
        <3>3. First[Last + i] < First[Last + j]
            BY <3>2, FirstMonotone
        <3>4. /\ Ahead(t[i].start) = First[Last + i] - R
              /\ Ahead(t[j].start) = First[Last + j] - R
              /\ First[Last + i] \in Nat /\ First[Last + j] \in Nat
            BY <1>2, <3>1 DEF seq
        <3> QED  BY <1>1, <3>3, <3>4
    <2> DEFINE ok(u) == \A i, j \in DOMAIN u :
                            i < j => Ahead(u[i].start) < Ahead(u[j].start)
    <2>4. ok(t)
        BY <2>2, <2>3
    <2> HIDE DEF t
    <2>5. s = CHOOSE u \in [1..k -> ready] : ok(u)
        BY <1>8 DEF InOrder
    <2> HIDE DEF ok, s
    <2>6. s \in [1..k -> ready] /\ ok(s)
        BY <2>2, <2>4, <2>5
    <2> QED  BY <2>6 DEF ok
<1> HIDE DEF s
<1>15. \A i \in 1..k : s[i].packet = Last + i
    <2>1. g \in [1..k -> Last + 1..Last + k]
        BY <1>7, <1>14
    <2>2. ASSUME NEW i \in 1..k, NEW j \in 1..k, i < j
          PROVE  g[i] < g[j]
        <3>1. s[i] \in commands /\ s[j] \in commands
            BY <1>5, <1>14
        <3>2. /\ Ahead(s[i].start) = First[s[i].packet] - R
              /\ Ahead(s[j].start) = First[s[j].packet] - R
              /\ First[s[i].packet] \in Nat /\ First[s[j].packet] \in Nat
              /\ s[i].packet \in 1..Packets /\ s[j].packet \in 1..Packets
            BY <1>2, <3>1 DEF seq
        <3>3. First[s[i].packet] < First[s[j].packet]
            BY <1>1, <1>14, <2>2, <3>2
        <3>4. s[j].packet < s[i].packet => First[s[j].packet] < First[s[i].packet]
            <4>1. s[i].packet \in 1..Packets + 1 /\ s[j].packet \in 1..Packets + 1
                BY <1>1, <3>2
            <4> QED  BY <4>1, FirstMonotone
        <3>5. s[i].packet < s[j].packet
            BY <1>1, <3>2, <3>3, <3>4
        <3> QED  BY <3>5
    <2>3. \A i \in 1..k : g[i] = Last + i
        <3> HIDE DEF g
        <3>1. Last \in Nat
            BY <1>1
        <3> QED  BY <1>7, <2>1, <2>2, <3>1, IncreasingOnto
    <2> QED  BY <2>3
<1>16. /\ dispatchedCommands' \in Seq(Nat)
       /\ Len(dispatchedCommands') = Len(dispatchedCommands) + k
       /\ \A i \in 1..Len(dispatchedCommands') : dispatchedCommands'[i] = delivered + i
    <2> DEFINE u == [i \in 1..k |-> s[i].packet]
    <2>1. u \in Seq(Nat) /\ Len(u) = k /\ \A i \in 1..k : u[i] = Last + i
        <3>1. \A i \in 1..k : u[i] = Last + i /\ Last + i \in Nat
            BY <1>1, <1>15
        <3> HIDE DEF u
        <3>2. u = [i \in 1..k |-> u[i]]
            BY DEF u
        <3> QED  BY <1>7, <3>1, <3>2
    <2>2. DOMAIN s = 1..k
        BY <1>14
    <2>3. dispatchedCommands' = dispatchedCommands \o u
        BY <2>2 DEF Dispatch, s
    <2>4. /\ dispatchedCommands \in Seq(Nat) /\ delivered \in Nat
          /\ Last = delivered + Len(dispatchedCommands)
          /\ \A i \in 1..Len(dispatchedCommands) : dispatchedCommands[i] = delivered + i
        BY DEF Receiver, Last
    <2> HIDE DEF u
    <2>5. /\ dispatchedCommands' \in Seq(Nat)
          /\ Len(dispatchedCommands') = Len(dispatchedCommands) + k
        BY <2>1, <2>3, <2>4, Concatenated
    <2>6. ASSUME NEW i \in 1..Len(dispatchedCommands')
          PROVE  dispatchedCommands'[i] = delivered + i
        <3> DEFINE l == Len(dispatchedCommands)
        <3>1. l \in Nat /\ i \in Nat /\ i >= 1 /\ i <= l + k
            BY <2>4, <2>5
        <3>2. CASE i <= l
            <4>1. dispatchedCommands'[i] = dispatchedCommands[i]
                BY <2>1, <2>3, <2>4, <3>1, <3>2
            <4> QED  BY <2>4, <3>1, <3>2, <4>1
        <3>3. CASE l < i
            <4>1. i - l \in 1..k /\ Last + (i - l) = delivered + i
                BY <1>7, <2>4, <3>1, <3>3
            <4>2. dispatchedCommands'[i] = u[i - l]
                BY <2>1, <2>3, <2>4, <3>1, <3>3
            <4> QED  BY <2>1, <4>1, <4>2
        <3> QED  BY <3>1, <3>2, <3>3
    <2> QED  BY <2>5, <2>6
<1> QED  BY <1>7, <1>9, <1>10, <1>12, <1>13, <1>16 DEF R2

InQueue(commands, m) == \E c \in commands : c.packet = PacketOf[m] /\ Seq16(m) \in c.got

(* Where the packet of a command on the wire begins: not so far back that   *)
(* it could be taken for a new one.                                         *)
LEMMA StartOfPacket ==
    ASSUME Sender, OnTheWire, Receiver, StaysInWindow, NEW n \in wire
    PROVE  LET p == PacketOf[n]
               s == First[p] IN
           /\ n \in 1..sentUpTo /\ n \in Commands
           /\ p \in 1..Packets /\ s \in Nat \ {0} /\ s <= n /\ n < First[p + 1]
           /\ First[p + 1] \in Nat
           /\ s <= Received => n <= Received /\ Win(Received) <= Win(s) + FreeWindows + 1
           /\ Received < s => Last < p
           /\ s < Received + SeqNumbers /\ Received < s + SeqNumbers
<1> DEFINE p == PacketOf[n]  s == First[p]  R == Received
<1>1. /\ Last \in 0..Packets /\ R \in Nat /\ First[Last + 1] = R + 1
      /\ sentUpTo \in Nat /\ R <= sentUpTo /\ sentUpTo < R + SeqNumbers
      /\ 1..sentUpTo \subseteq Commands /\ Packets \in Nat
    BY Places, ChannelAssumption
<1>2. n \in 1..sentUpTo /\ sentUpTo < n + Reach /\ n \in Commands
    BY <1>1 DEF OnTheWire
<1>3. p \in 1..Packets /\ s <= n /\ n < First[p + 1]
    BY <1>2, PacketOfType
<1>4. s \in Nat \ {0} /\ First[p + 1] \in Nat /\ First[p + 1] <= s + FragmentCount
    <2>1. p \in 1..Packets + 1 /\ p + 1 \in 1..Packets + 1
        BY <1>1, <1>3
    <2> QED  BY <1>3, <2>1, FirstType, FirstStep, LengthType, FragmentType
<1> HIDE DEF p, s, R
<1>5. R <= s + WindowSize * (FreeWindows + 1)
    <2>1. WindowSize * (FreeWindows + 1) \in Nat
        BY Sizes, Products
    <2> QED  BY <1>1, <1>2, <1>3, <1>4, <2>1, Reaches, FragmentType
<1>6. Win(R) <= Win(s) + FreeWindows + 1
    <2>1. Win(R) <= Win(s) + (FreeWindows + 1)
        BY <1>1, <1>4, <1>5, WinDistance, Sizes
    <2> QED  BY <1>1, <1>4, <2>1, WinType, Sizes
<1>7. p \in 1..Packets + 1 /\ p + 1 \in 1..Packets + 1 /\ Last + 1 \in 1..Packets + 1
    BY <1>1, <1>3
<1>8. s <= R => n <= R
    <2>1. Last + 1 < p => First[Last + 1] < First[p]
        BY <1>7, FirstMonotone
    <2>2. s <= R => p < Last + 1
        BY <1>1, <1>3, <1>4, <2>1 DEF s
    <2>3. p + 1 < Last + 1 => First[p + 1] < First[Last + 1]
        BY <1>7, FirstMonotone
    <2> QED  BY <1>1, <1>2, <1>3, <1>4, <2>2, <2>3
<1>9. R < s => Last < p
    <2>1. p < Last + 1 => First[p] < First[Last + 1]
        BY <1>7, FirstMonotone
    <2> QED  BY <1>1, <1>3, <1>4, <2>1 DEF s
<1>10. R < s + SeqNumbers
    <2>1. WindowSize * (FreeWindows + 1) + WindowSize <= SeqNumbers
        BY Sizes, Products
    <2>2. WindowSize * (FreeWindows + 1) \in Nat
        BY Sizes, Products
    <2> QED  BY <1>1, <1>4, <1>5, <2>1, <2>2, Sizes
<1>11. s < R + SeqNumbers
    BY <1>1, <1>2, <1>3, <1>4, Sizes
<1> QED  BY <1>2, <1>3, <1>4, <1>6, <1>8, <1>9, <1>10, <1>11 DEF p, s, R

(* A command that is taken joins its packet in the queue.                   *)
LEMMA TakenOrder ==
    ASSUME Sender, OnTheWire, Receiver, StaysInWindow, Queued, NEW n \in wire,
           Taken(incomingReliableSequenceNumber, Seq16(First[PacketOf[n]])),
           Seq16(First[PacketOf[n]]) # incomingReliableSequenceNumber
    PROVE  /\ Queue(WithCommand(n), Last, sentUpTo)
           /\ InQueue(WithCommand(n), n)
           /\ \A m : InQueue(incomingReliableCommands, m) => InQueue(WithCommand(n), m)
<1> DEFINE p == PacketOf[n]  s == First[p]  R == Received
           known == {c \in incomingReliableCommands : c.start = Seq16(s)}
           got == (UNION {c.got : c \in known}) \cup {Seq16(n)}
           new == [start |-> Seq16(s), packet |-> p, count |-> Length(p), got |-> got]
<1>1. /\ Last \in 0..Packets /\ R \in Nat /\ First[Last + 1] = R + 1
      /\ sentUpTo \in Nat /\ R <= sentUpTo /\ sentUpTo < R + SeqNumbers
      /\ incomingReliableSequenceNumber = Seq16(R) /\ Packets \in Nat
      /\ SeqNumbers \in Nat \ {0}
    BY Places, Sizes, ChannelAssumption DEF Receiver
<1>2. /\ n \in 1..sentUpTo /\ p \in 1..Packets /\ s \in Nat \ {0} /\ s <= n
      /\ n < First[p + 1] /\ First[p + 1] \in Nat
      /\ s <= R => Win(R) <= Win(s) + FreeWindows + 1
      /\ R < s => Last < p
    BY StartOfPacket
<1> HIDE DEF R
<1>3. R < s /\ Last < p
    <2>1. s # R
        BY <1>1
    <2>2. ~(s < R)
        BY <1>1, <1>2, BehindIsOld
    <2> QED  BY <1>1, <1>2, <2>1, <2>2
<1>4. ASSUME NEW c \in incomingReliableCommands
      PROVE  c \in known <=> c.packet = p
    <2>1. c.packet \in 1..Packets /\ Last < c.packet /\ First[c.packet] <= sentUpTo
          /\ c.start = Seq16(First[c.packet])
        BY DEF Queued, Queue, Incoming
    <2>2. /\ c.packet \in 1..Packets + 1 /\ Last + 1 \in 1..Packets + 1
          /\ p \in 1..Packets + 1
        BY <1>1, <1>2, <2>1
    <2>3. First[c.packet] \in Nat /\ R < First[c.packet]
        <3>1. Last + 1 < c.packet => First[Last + 1] < First[c.packet]
            BY <2>2, FirstMonotone
        <3> QED  BY <1>1, <2>1, <2>2, <3>1, FirstType
    <2>4. Seq16(First[c.packet]) = Seq16(s) => First[c.packet] = s
        <3>1. First[c.packet] < s + SeqNumbers /\ s < First[c.packet] + SeqNumbers
            BY <1>1, <1>2, <1>3, <2>1, <2>3
        <3> QED  BY <1>2, <2>3, <3>1, SameNumber
    <2>5. First[c.packet] = s => c.packet = p
        <3>1. /\ c.packet < p => First[c.packet] < First[p]
              /\ p < c.packet => First[p] < First[c.packet]
            BY <2>2, FirstMonotone
        <3> QED  BY <1>2, <2>1, <2>3, <3>1
    <2> QED  BY <2>1, <2>4, <2>5
<1>5. WithCommand(n) = (incomingReliableCommands \ known) \cup {new}
    BY DEF WithCommand
<1>6. Seq16(n) \in Numbers(p, sentUpTo)
    BY <1>2 DEF Numbers
<1>7. got \subseteq Numbers(p, sentUpTo) /\ Numbers(p, sentUpTo) \subseteq 0..SeqNumbers - 1
    <2>1. \A c \in known : c.got \subseteq Numbers(p, sentUpTo)
        BY <1>4 DEF Queued, Queue
    <2>2. Numbers(p, sentUpTo) \subseteq 0..SeqNumbers - 1
        <3> SUFFICES ASSUME NEW k \in First[p]..First[p + 1] - 1
                     PROVE  Seq16(k) \in 0..SeqNumbers - 1
            BY DEF Numbers
        <3>1. k \in Nat
            BY <1>2
        <3> QED  BY <3>1, SeqParts
    <2>3. \A x \in got : x = Seq16(n) \/ \E c \in known : x \in c.got
        <3> HIDE DEF known
        <3> QED  OBVIOUS
    <2> HIDE DEF got, known, p
    <2> QED  BY <1>6, <2>1, <2>2, <2>3
<1>8. new \in Incoming
    <2>1. Seq16(s) \in 0..SeqNumbers - 1
        BY <1>2, SeqParts
    <2>2. Length(p) \in {1, FragmentCount}
        BY DEF Length
    <2> HIDE DEF got, s, p
    <2> QED  BY <1>2, <1>7, <2>1, <2>2 DEF Incoming
<1> DEFINE e == new
<1>9. /\ e.start = Seq16(First[e.packet]) /\ e.count = Length(e.packet) /\ e.packet = p
      /\ e.got = got
    OBVIOUS
<1>10. Queue(WithCommand(n), Last, sentUpTo)
    <2>1. First[e.packet] <= sentUpTo
        BY <1>1, <1>2, <1>9
    <2>2. e.got \subseteq Numbers(e.packet, sentUpTo)
        BY <1>7, <1>9
    <2> HIDE DEF e, got, new, known, s, p
    <2>3. WithCommand(n) = (incomingReliableCommands \ known) \cup {e}
        BY <1>5 DEF e
    <2>4. e \in Incoming
        BY <1>8 DEF e
    <2>5. \A c \in WithCommand(n) : c = e \/ (c \in incomingReliableCommands /\ c.packet # p)
        BY <1>4, <2>3
    <2>6. WithCommand(n) \subseteq Incoming
        BY <2>4, <2>5 DEF Queued, Queue
    <2>7. \A c \in WithCommand(n) :
              /\ Last < c.packet /\ First[c.packet] <= sentUpTo
              /\ c.start = Seq16(First[c.packet]) /\ c.count = Length(c.packet)
              /\ c.got \subseteq Numbers(c.packet, sentUpTo)
        BY <1>3, <1>9, <2>1, <2>2, <2>5 DEF Queued, Queue
    <2>8. \A b, c \in WithCommand(n) : b.packet = c.packet => b = c
        BY <1>9, <2>5 DEF Queued, Queue
    <2> QED  BY <2>6, <2>7, <2>8 DEF Queue
<1>11. InQueue(WithCommand(n), n)
    <2>1. WithCommand(n) = (incomingReliableCommands \ known) \cup {e} /\ Seq16(n) \in got
        BY <1>5
    <2> HIDE DEF e, got, known
    <2> QED  BY <1>9, <2>1 DEF InQueue
<1>12. ASSUME NEW m, InQueue(incomingReliableCommands, m)
       PROVE  InQueue(WithCommand(n), m)
    <2>1. PICK c \in incomingReliableCommands : c.packet = PacketOf[m] /\ Seq16(m) \in c.got
        BY <1>12 DEF InQueue
    <2>2. CASE c \in known
        <3>1. Seq16(m) \in got /\ c.packet = p
            BY <1>4, <2>1, <2>2
        <3> HIDE DEF got, p
        <3> QED  BY <1>5, <1>9, <2>1, <3>1 DEF InQueue
    <2>3. CASE c \notin known
        BY <1>5, <2>1, <2>3 DEF InQueue
    <2> QED  BY <2>2, <2>3
<1> QED  BY <1>10, <1>11, <1>12

(* What the receiver makes of a command: it takes packets in order, loses   *)
(* nothing it had, and acknowledges only what it has.                       *)
LEMMA HandledOrder ==
    ASSUME Order, NEW n \in wire, HandleCommand(n), UNCHANGED <<senderVars, delivered>>
    PROVE  /\ Receiver' /\ Queued' /\ StaysInWindow'
           /\ Received <= Received' /\ Received' \in Nat
           /\ \A m \in 1..sentUpTo : Has(m) => Has(m)'
           /\ Acknowledged(incomingReliableSequenceNumber', Seq16(n)) =>
                  Has(n)' /\ Win(n) <= Win(Received') + FreeWindows - 2
<1> USE DEF Order
<1> DEFINE p == PacketOf[n]  s == First[p]  R == Received
<1>1. /\ Last \in 0..Packets /\ R \in Nat /\ First[Last + 1] = R + 1
      /\ sentUpTo \in Nat /\ R <= sentUpTo /\ Win(sentUpTo) <= Win(R) + FreeWindows - 1
      /\ 1..sentUpTo \subseteq Commands
      /\ incomingReliableSequenceNumber = Seq16(R) /\ Packets \in Nat
    BY Places, ChannelAssumption DEF Receiver
<1>2. /\ n \in 1..sentUpTo /\ p \in 1..Packets /\ s \in Nat \ {0} /\ s <= n
      /\ s <= R => n <= R
      /\ R < s => Last < p
      /\ s < R + SeqNumbers /\ R < s + SeqNumbers
    BY StartOfPacket
<1> DEFINE taken == /\ Taken(incomingReliableSequenceNumber, Seq16(s))
                    /\ Seq16(s) # incomingReliableSequenceNumber
<1>3. \E k \in Nat : \E commands :
          /\ Queue(commands, Last, sentUpTo)
          /\ \A m : InQueue(incomingReliableCommands, m) => InQueue(commands, m)
          /\ taken => InQueue(commands, n)
          /\ Last + k \in 0..Packets
          /\ First[Last + k + 1] - 1 <= sentUpTo
          /\ incomingReliableSequenceNumber' = Seq16(First[Last + k + 1] - 1)
          /\ incomingReliableCommands' = {c \in commands : c.packet > Last + k}
          /\ dispatchedCommands' \in Seq(Nat)
          /\ Len(dispatchedCommands') = Len(dispatchedCommands) + k
          /\ \A i \in 1..Len(dispatchedCommands') : dispatchedCommands'[i] = delivered + i
    <2>1. CASE taken
        <3>1. /\ Queue(WithCommand(n), Last, sentUpTo)
              /\ InQueue(WithCommand(n), n)
              /\ \A m : InQueue(incomingReliableCommands, m) => InQueue(WithCommand(n), m)
            BY <2>1, TakenOrder
        <3>2. Dispatch(WithCommand(n))
            BY <2>1 DEF HandleCommand
        <3> HIDE DEF taken
        <3> QED  BY <3>1, <3>2, DispatchOrder
    <2>2. CASE ~taken
        <3>1. UNCHANGED <<incomingReliableSequenceNumber, incomingReliableCommands,
                          dispatchedCommands>>
            BY <2>2 DEF HandleCommand
        <3> HIDE DEF taken
        <3>2. \A c \in incomingReliableCommands : c.packet \in Nat /\ Last < c.packet
            BY DEF Queued, Queue, Incoming
        <3>3. incomingReliableCommands = {c \in incomingReliableCommands : c.packet > Last + 0}
            BY <1>1, <3>2
        <3>4. Last + 0 = Last /\ First[Last + 0 + 1] - 1 = R
            BY <1>1
        <3>5. Len(dispatchedCommands) = Len(dispatchedCommands) + 0
            BY DEF Receiver
        <3> QED  BY <1>1, <2>2, <3>1, <3>3, <3>4, <3>5 DEF Receiver, Queued
    <2> QED  BY <2>1, <2>2
<1> HIDE DEF p, s, taken
<1>40. PICK k \in Nat : \E commands :
          /\ Queue(commands, Last, sentUpTo)
          /\ \A m : InQueue(incomingReliableCommands, m) => InQueue(commands, m)
          /\ taken => InQueue(commands, n)
          /\ Last + k \in 0..Packets
          /\ First[Last + k + 1] - 1 <= sentUpTo
          /\ incomingReliableSequenceNumber' = Seq16(First[Last + k + 1] - 1)
          /\ incomingReliableCommands' = {c \in commands : c.packet > Last + k}
          /\ dispatchedCommands' \in Seq(Nat)
          /\ Len(dispatchedCommands') = Len(dispatchedCommands) + k
          /\ \A i \in 1..Len(dispatchedCommands') : dispatchedCommands'[i] = delivered + i
    BY <1>3
<1>4. PICK commands :
          /\ Queue(commands, Last, sentUpTo)
          /\ \A m : InQueue(incomingReliableCommands, m) => InQueue(commands, m)
          /\ taken => InQueue(commands, n)
          /\ Last + k \in 0..Packets
          /\ First[Last + k + 1] - 1 <= sentUpTo
          /\ incomingReliableSequenceNumber' = Seq16(First[Last + k + 1] - 1)
          /\ incomingReliableCommands' = {c \in commands : c.packet > Last + k}
          /\ dispatchedCommands' \in Seq(Nat)
          /\ Len(dispatchedCommands') = Len(dispatchedCommands) + k
          /\ \A i \in 1..Len(dispatchedCommands') : dispatchedCommands'[i] = delivered + i
    BY <1>40
<1> DEFINE R2 == First[Last + k + 1] - 1
<1>5. Last' = Last + k
    <2>1. Len(dispatchedCommands) \in Nat /\ delivered \in Nat
        BY DEF Receiver
    <2> QED  BY <1>4, <2>1 DEF Last
<1>6. Received' = R2
    BY <1>5 DEF Received, Last
<1>7. R2 \in Nat /\ R <= R2 /\ R2 <= sentUpTo
    <2>1. Last + k + 1 \in 1..Packets + 1 /\ Last + 1 \in 1..Packets + 1
        BY <1>1, <1>4
    <2>2. First[Last + k + 1] \in Nat \ {0}
        BY <2>1, FirstType
    <2>3. Last + 1 < Last + k + 1 => First[Last + 1] < First[Last + k + 1]
        BY <2>1, FirstMonotone
    <2>4. k = 0 \/ Last + 1 < Last + k + 1
        BY <1>1
    <2>5. k = 0 => R2 = R
        BY <1>1
    <2> QED  BY <1>1, <1>4, <2>2, <2>3, <2>4, <2>5
\* what was in the queue is now handed over or still there
<1>8. ASSUME NEW m \in 1..sentUpTo, InQueue(commands, m)
      PROVE  Has(m)'
    <2>1. PICK c \in commands : c.packet = PacketOf[m] /\ Seq16(m) \in c.got
        BY <1>8 DEF InQueue
    <2>2. CASE c.packet > Last + k
        <3>1. c \in incomingReliableCommands'
            BY <1>4, <2>2
        <3> QED  BY <2>1, <3>1 DEF Has
    <2>3. CASE ~(c.packet > Last + k)
        <3>1. m \in Commands
            BY <1>1
        <3>2. PacketOf[m] \in 1..Packets /\ m < First[PacketOf[m] + 1]
            BY <3>1, PacketOfType
        <3>3. PacketOf[m] + 1 \in 1..Packets + 1 /\ Last + k + 1 \in 1..Packets + 1
            BY <1>1, <1>4, <3>2
        <3>4. PacketOf[m] + 1 < Last + k + 1 => First[PacketOf[m] + 1] < First[Last + k + 1]
            BY <3>3, FirstMonotone
        <3>5. First[PacketOf[m] + 1] \in Nat /\ First[Last + k + 1] \in Nat
            BY <3>3, FirstType
        <3>6. PacketOf[m] + 1 < Last + k + 1 \/ PacketOf[m] + 1 = Last + k + 1
            BY <1>1, <2>1, <2>3, <3>2
        <3>7. m <= R2
            BY <1>1, <3>2, <3>4, <3>5, <3>6
        <3> QED  BY <1>6, <3>7 DEF Has
    <2> QED  BY <2>2, <2>3
<1> HIDE DEF R2
<1>9. ASSUME NEW m \in 1..sentUpTo, Has(m) PROVE Has(m)'
    <2>1. CASE m <= R
        BY <1>1, <1>6, <1>7, <2>1 DEF Has
    <2>2. CASE InQueue(incomingReliableCommands, m)
        BY <1>4, <1>8, <2>2
    <2> QED  BY <1>9, <2>1, <2>2 DEF Has, InQueue
<1>10. Win(R) <= Win(R2) /\ Win(sentUpTo) <= Win(R2) + FreeWindows - 1
       /\ Win(R) \in Nat /\ Win(R2) \in Nat /\ Win(sentUpTo) \in Nat
    <2>1. Win(R) \in Nat /\ Win(R2) \in Nat /\ Win(sentUpTo) \in Nat /\ Win(R) <= Win(R2)
        BY <1>1, <1>7, WinMonotone, WinType
    <2> QED  BY <1>1, <2>1, Sizes
<1>11. StaysInWindow'
    BY <1>6, <1>10 DEF StaysInWindow, Win, senderVars
<1>12. Receiver'
    <2>1. Last' \in Base..accepted'
        <3>1. accepted' = accepted /\ accepted \in 0..Packets /\ Base \in Nat /\ Last >= Base
            BY ChannelAssumption DEF senderVars, Sender, Receiver
        <3>2. Last + k \in 0..Packets
            BY <1>1, <1>4, <3>1
        <3>3. Last + k + 1 \in 1..Packets + 1 /\ accepted + 1 \in 1..Packets + 1
            BY <1>1, <1>4, <3>1
        <3>4. accepted + 1 < Last + k + 1 => First[accepted + 1] < First[Last + k + 1]
            BY <3>3, FirstMonotone
        <3>5. sentUpTo <= First[accepted + 1] - 1 /\ First[accepted + 1] \in Nat
              /\ First[Last + k + 1] \in Nat
            BY <3>3, FirstType DEF Sender, Outgoing
        <3> QED  BY <1>1, <1>4, <1>5, <3>1, <3>4, <3>5
    <2>2. Received' <= sentUpTo' /\ incomingReliableSequenceNumber' = Seq16(Received')
        BY <1>4, <1>6, <1>7 DEF R2, senderVars
    <2> QED  BY <1>4, <2>1, <2>2 DEF Receiver
<1>13. Queued'
    <2>1. \A c \in commands : c.packet \in Nat
        BY <1>4 DEF Queue, Incoming
    <2>2. incomingReliableCommands' = {c \in commands : c.packet > Last + k} /\ Last' = Last + k
          /\ sentUpTo' = sentUpTo
        BY <1>4, <1>5 DEF senderVars
    <2>3. Queue(incomingReliableCommands', Last + k, sentUpTo)
        BY <1>1, <1>4, <2>1, <2>2 DEF Queue
    <2> QED  BY <2>2, <2>3 DEF Queued, Queue, Numbers
<1>14. ASSUME Acknowledged(incomingReliableSequenceNumber', Seq16(n))
       PROVE  Has(n)' /\ Win(n) <= Win(R2) + FreeWindows - 2
    <2>1. n \in Nat /\ n <= sentUpTo /\ Win(n) \in Nat /\ Win(s) \in Nat
        BY <1>1, <1>2, WinType
    <2>2. Win(n) <= Win(R2) + FreeWindows - 2
        <3>1. CASE n <= R2
            BY <1>7, <1>10, <2>1, <3>1, WinMonotone, Sizes
        <3>2. CASE R2 < n
            <4>1. Win(n) <= Win(R2) + FreeWindows - 1
                <5>1. Win(n) <= Win(sentUpTo)
                    BY <1>1, <2>1, WinMonotone
                <5> QED  BY <1>10, <2>1, <5>1, Sizes
            <4>2. Win(n) # Win(R2) + FreeWindows - 1
                <5>1. incomingReliableSequenceNumber' = Seq16(R2)
                    BY <1>4 DEF R2
                <5>2. Win(n) = Win(R2) + FreeWindows - 1 =>
                          Win(n) \in Win(R2) + FreeWindows - 1 .. Win(R2) + FreeWindows
                    BY <1>10, <2>1, Sizes
                <5> QED  BY <1>7, <1>14, <2>1, <3>2, <5>1, <5>2, TooFarIsDropped
            <4> QED  BY <1>10, <2>1, <4>1, <4>2, Sizes
        <3> QED  BY <1>7, <2>1, <3>1, <3>2
    <2>3. Has(n)'
        <3>1. CASE taken
            BY <1>2, <1>4, <1>8, <3>1
        <3>2. CASE s <= R
            <4>1. n <= R2
                BY <1>1, <1>2, <1>7, <2>1, <3>2
            <4> QED  BY <1>6, <4>1 DEF Has
        <3>3. CASE ~taken /\ R < s
            <4>1. s # R /\ Seq16(s) # Seq16(R)
                BY <1>1, <1>2, <3>3, SameNumber
            <4>2. ~Taken(Seq16(R), Seq16(s))
                BY <1>1, <3>3, <4>1 DEF taken
            <4>3. ~(Win(s) <= Win(R) + FreeWindows - 2)
                BY <1>1, <1>2, <3>3, <4>2, AheadIsTaken
            <4>4. UNCHANGED incomingReliableSequenceNumber
                BY <3>3 DEF HandleCommand, taken, s, p
            <4>5. Win(s) <= Win(n) /\ Win(n) <= Win(sentUpTo)
                BY <1>1, <1>2, <2>1, WinMonotone
            <4>6. Win(n) \in Win(R) + FreeWindows - 1 .. Win(R) + FreeWindows
                BY <1>1, <1>10, <2>1, <4>3, <4>5, Sizes
            <4>7. R <= n
                BY <1>1, <1>2, <2>1, <3>3
            <4> QED  BY <1>1, <1>14, <2>1, <4>4, <4>6, <4>7, TooFarIsDropped
        <3> QED  BY <1>1, <1>2, <3>1, <3>2, <3>3
    <2> QED  BY <2>2, <2>3
<1> QED  BY <1>1, <1>6, <1>7, <1>9, <1>11, <1>12, <1>13, <1>14
=============================================================================
