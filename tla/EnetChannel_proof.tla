-------------------------- MODULE EnetChannel_proof --------------------------
(***************************************************************************)
(* Two facts about the sliding window of EnetChannel, for all constants.   *)
(* What the receiver makes of 16 bits of a number is right: a command up   *)
(* to FreeWindows - 2 windows ahead is new to it, one in the two windows   *)
(* after those is dropped, and one up to FreeWindows + 1 windows behind is *)
(* not taken again.  And the sender's count of each window is exact.       *)
(***************************************************************************)
EXTENDS EnetChannel, FiniteSetTheorems, TLAPS

-----------------------------------------------------------------------------
(* Division.                                                                *)
LEMMA DivMod ==
    ASSUME NEW k \in Nat \ {0}, NEW a \in Nat
    PROVE  /\ a \div k \in Nat /\ a % k \in 0..k - 1
           /\ a = k * (a \div k) + (a % k)
OBVIOUS

LEMMA DivModUnique ==
    ASSUME NEW k \in Nat \ {0}, NEW q \in Nat, NEW r \in 0..k - 1
    PROVE  (k * q + r) \div k = q /\ (k * q + r) % k = r
OBVIOUS

LEMMA Products ==
    ASSUME NEW k \in Nat, NEW a \in Nat, NEW b \in Nat
    PROVE  /\ k * a \in Nat /\ k * (a + b) = k * a + k * b /\ k * (a + 1) = k * a + k
           /\ a <= b => k * a <= k * b
           /\ a < b => k * a + k <= k * b
<1>1. /\ k * a \in Nat /\ k * (a + b) = k * a + k * b /\ k * (a + 1) = k * a + k
      /\ a <= b => k * a <= k * b
    OBVIOUS
<1>2. \A c \in Nat : a + 1 <= c => k * (a + 1) <= k * c
    OBVIOUS
<1> QED  BY <1>1, <1>2

LEMMA SameRemainder ==
    ASSUME NEW k \in Nat \ {0}, NEW a \in Nat, NEW b \in Nat,
           a % k = b % k, a < b + k, b < a + k
    PROVE  a = b
<1> DEFINE q == a \div k  p == b \div k  r == a % k
<1>1. /\ q \in Nat /\ p \in Nat /\ r \in 0..k - 1
      /\ a = k * q + r /\ b = k * p + r
    BY DivMod
<1> HIDE DEF q, p, r
<1>2. ~(q < p)
    <2>1. q < p => k * q + k <= k * p
        BY <1>1, Products
    <2>2. k * q \in Nat /\ k * p \in Nat
        BY <1>1, Products
    <2> QED  BY <1>1, <2>1, <2>2
<1>3. ~(p < q)
    <2>1. p < q => k * p + k <= k * q
        BY <1>1, Products
    <2>2. k * q \in Nat /\ k * p \in Nat
        BY <1>1, Products
    <2> QED  BY <1>1, <2>1, <2>2
<1> QED  BY <1>1, <1>2, <1>3

-----------------------------------------------------------------------------
(* Windows, counted on without the wrap.                                    *)
Win(n) == n \div WindowSize

LEMMA Sizes ==
    /\ WindowSize \in Nat \ {0} /\ FreeWindows \in Nat /\ FreeWindows >= 3
    /\ Windows = 2 * FreeWindows /\ Windows \in Nat \ {0}
    /\ SeqNumbers = WindowSize * Windows /\ SeqNumbers \in Nat \ {0}
<1>1. /\ WindowSize \in Nat \ {0} /\ FreeWindows \in Nat /\ FreeWindows >= 3
      /\ Windows = 2 * FreeWindows /\ Windows \in Nat \ {0}
    BY ChannelAssumption DEF Windows
<1>2. SeqNumbers = WindowSize * Windows
    BY <1>1 DEF SeqNumbers
<1>3. \A a, b \in Nat \ {0} : a * b \in Nat \ {0}
    OBVIOUS
<1> QED  BY <1>1, <1>2, <1>3

LEMMA WinType ==
    ASSUME NEW n \in Nat
    PROVE  /\ Win(n) \in Nat /\ n % WindowSize \in 0..WindowSize - 1
           /\ n = WindowSize * Win(n) + (n % WindowSize)
BY Sizes, DivMod DEF Win

(* What 16 bits of a command's number say of it.                            *)
LEMMA SeqParts ==
    ASSUME NEW n \in Nat
    PROVE  /\ Seq16(n) \in 0..SeqNumbers - 1
           /\ Seq16(n) = WindowSize * (Win(n) % Windows) + (n % WindowSize)
           /\ Window(Seq16(n)) = Win(n) % Windows
           /\ Window(Seq16(n)) \in 0..Windows - 1
<1> DEFINE a == Win(n) \div Windows  b == Win(n) % Windows  r == n % WindowSize
<1>1. /\ a \in Nat /\ b \in 0..Windows - 1 /\ Win(n) = Windows * a + b
      /\ r \in 0..WindowSize - 1 /\ n = WindowSize * Win(n) + r
    BY WinType, Sizes, DivMod
<1> HIDE DEF a, b, r
<1> DEFINE s == WindowSize * b + r
<1>2. s \in 0..SeqNumbers - 1
    <2>1. WindowSize * b + WindowSize <= WindowSize * Windows /\ WindowSize * b \in Nat
        BY <1>1, Sizes, Products
    <2> QED  BY <1>1, <2>1, Sizes
<1>3. n = SeqNumbers * a + s
    <2>1. \A w, v, x, y \in Nat : w * (v * x + y) = (w * v) * x + w * y
        OBVIOUS
    <2>2. WindowSize * (Windows * a + b) = SeqNumbers * a + WindowSize * b
        BY <1>1, <2>1, Sizes
    <2>3. SeqNumbers * a \in Nat /\ WindowSize * b \in Nat
        BY <1>1, Sizes, Products
    <2> QED  BY <1>1, <2>2, <2>3
<1> HIDE DEF s
<1>4. n % SeqNumbers = s
    BY <1>1, <1>2, <1>3, Sizes, DivModUnique
<1>5. s \div WindowSize = b
    BY <1>1, Sizes, DivModUnique DEF s
<1>6. Window(Seq16(n)) = b
    BY <1>4, <1>5 DEF Seq16, Window
<1> QED  BY <1>1, <1>2, <1>4, <1>6 DEF Seq16, s, b, r

LEMMA SameNumber ==
    ASSUME NEW n \in Nat, NEW m \in Nat, Seq16(n) = Seq16(m),
           n < m + SeqNumbers, m < n + SeqNumbers
    PROVE  n = m
BY Sizes, SameRemainder DEF Seq16

(* A distance of so many windows.                                           *)
LEMMA WinDistance ==
    ASSUME NEW n \in Nat, NEW m \in Nat, NEW j \in Nat
    PROVE  /\ n <= m + WindowSize * j => Win(n) <= Win(m) + j
           /\ Win(n) < Win(m) + j => n < m + WindowSize * j
<1> DEFINE x == Win(n)  y == Win(m)
           a == WindowSize * x  b == WindowSize * y  c == WindowSize * j
<1>1. /\ n = a + (n % WindowSize) /\ m = b + (m % WindowSize)
      /\ n % WindowSize \in 0..WindowSize - 1 /\ m % WindowSize \in 0..WindowSize - 1
      /\ x \in Nat /\ y \in Nat /\ WindowSize \in Nat
    BY WinType, Sizes
<1> HIDE DEF x, y
<1>2. a \in Nat /\ b \in Nat /\ c \in Nat /\ WindowSize * (y + j) = b + c
    BY <1>1, Products
<1>3. /\ y + j < x => WindowSize * (y + j) + WindowSize <= a
      /\ x < y + j => a + WindowSize <= WindowSize * (y + j)
    BY <1>1, Products
<1> HIDE DEF a, b, c
<1>4. /\ n <= m + c => x <= y + j
      /\ x < y + j => n < m + c
    BY <1>1, <1>2, <1>3
<1> QED  BY <1>4 DEF c, x, y

LEMMA WinMonotone ==
    ASSUME NEW n \in Nat, NEW m \in Nat, n <= m
    PROVE  Win(n) <= Win(m)
<1>1. WindowSize * 0 = 0
    BY Sizes
<1>2. n <= m + WindowSize * 0 => Win(n) <= Win(m) + 0
    BY WinDistance
<1> QED  BY <1>1, <1>2, WinType

-----------------------------------------------------------------------------
(* The receiver's test, of command n when it has all up to r.               *)
LEMMA AheadWindow ==
    ASSUME NEW r \in Nat, NEW n \in Nat, r <= n, Win(n) < Win(r) + Windows
    PROVE  WindowFrom(Seq16(r), Seq16(n)) = Window(Seq16(r)) + Win(n) - Win(r)
<1> DEFINE a == Win(r) \div Windows  b == Win(r) % Windows  x == r % WindowSize
           c == Win(n) \div Windows  d == Win(n) % Windows  y == n % WindowSize
           wb == WindowSize * b  wd == WindowSize * d
<1>1. /\ Win(r) = Windows * a + b /\ Win(n) = Windows * c + d
      /\ r = WindowSize * Win(r) + x /\ n = WindowSize * Win(n) + y
      /\ a \in Nat /\ b \in 0..Windows - 1 /\ c \in Nat /\ d \in 0..Windows - 1
      /\ x \in 0..WindowSize - 1 /\ y \in 0..WindowSize - 1
      /\ Win(r) \in Nat /\ Win(n) \in Nat
    BY WinType, Sizes, DivMod
<1>2. /\ Seq16(r) = wb + x /\ Window(Seq16(r)) = b
      /\ Seq16(n) = wd + y /\ Window(Seq16(n)) = d
    BY SeqParts
<1>3. Win(r) <= Win(n)
    BY WinMonotone
<1> HIDE DEF a, b, c, d, x, y
<1>4. /\ b < d => wb + WindowSize <= wd
      /\ d < b => wd + WindowSize <= wb
      /\ wb \in Nat /\ wd \in Nat
    BY <1>1, Sizes, Products
<1>5. /\ a < c => Windows * a + Windows <= Windows * c
      /\ c < a => Windows * c + Windows <= Windows * a
      /\ a + 1 < c => Windows * (a + 1) + Windows <= Windows * c
      /\ Windows * (a + 1) = Windows * a + Windows
      /\ Windows * a \in Nat /\ Windows * c \in Nat
    BY <1>1, Sizes, Products
<1>6. Win(r) = Win(n) => b = d /\ x <= y
    <2>1. Win(r) = Win(n) => b = d
        BY DEF b, d
    <2>2. WindowSize * Win(r) \in Nat
        BY <1>1, Sizes, Products
    <2> QED  BY <1>1, <2>1, <2>2
<1> HIDE DEF wb, wd
<1>7. CASE Seq16(n) < Seq16(r)
    <2>1. d < b
        <3>1. d <= b
            BY <1>1, <1>2, <1>4, <1>7, Sizes
        <3>2. d # b
            <4> SUFFICES ASSUME d = b PROVE FALSE
                OBVIOUS
            <4>1. y < x
                BY <1>1, <1>2, <1>4, <1>7 DEF wb, wd
            <4>2. c # a
                BY <1>1, <1>6, <4>1
            <4> QED  BY <1>1, <1>3, <1>5, <4>2, Sizes
        <3> QED  BY <1>1, <3>1, <3>2
    <2>2. c = a + 1
        BY <1>1, <1>3, <1>5, <2>1, Sizes
    <2> QED  BY <1>1, <1>2, <1>5, <1>7, <2>2, Sizes DEF WindowFrom
<1>8. CASE ~(Seq16(n) < Seq16(r))
    <2>1. b <= d
        BY <1>1, <1>2, <1>4, <1>8, Sizes
    <2>2. c = a
        BY <1>1, <1>3, <1>5, <2>1, Sizes
    <2> QED  BY <1>1, <1>2, <1>8, <2>2, Sizes DEF WindowFrom
<1> QED  BY <1>7, <1>8

LEMMA BehindWindow ==
    ASSUME NEW r \in Nat, NEW n \in Nat, n < r, Win(r) < Win(n) + Windows
    PROVE  WindowFrom(Seq16(r), Seq16(n)) = Window(Seq16(r)) + Windows + Win(n) - Win(r)
<1> DEFINE a == Win(r) \div Windows  b == Win(r) % Windows  x == r % WindowSize
           c == Win(n) \div Windows  d == Win(n) % Windows  y == n % WindowSize
           wb == WindowSize * b  wd == WindowSize * d
<1>1. /\ Win(r) = Windows * a + b /\ Win(n) = Windows * c + d
      /\ r = WindowSize * Win(r) + x /\ n = WindowSize * Win(n) + y
      /\ a \in Nat /\ b \in 0..Windows - 1 /\ c \in Nat /\ d \in 0..Windows - 1
      /\ x \in 0..WindowSize - 1 /\ y \in 0..WindowSize - 1
      /\ Win(r) \in Nat /\ Win(n) \in Nat
    BY WinType, Sizes, DivMod
<1>2. /\ Seq16(r) = wb + x /\ Window(Seq16(r)) = b
      /\ Seq16(n) = wd + y /\ Window(Seq16(n)) = d
    BY SeqParts
<1>3. Win(n) <= Win(r)
    BY WinMonotone
<1> HIDE DEF a, b, c, d, x, y
<1>4. /\ b < d => wb + WindowSize <= wd
      /\ d < b => wd + WindowSize <= wb
      /\ wb \in Nat /\ wd \in Nat
    BY <1>1, Sizes, Products
<1>5. /\ a < c => Windows * a + Windows <= Windows * c
      /\ c < a => Windows * c + Windows <= Windows * a
      /\ c + 1 < a => Windows * (c + 1) + Windows <= Windows * a
      /\ Windows * (c + 1) = Windows * c + Windows
      /\ Windows * a \in Nat /\ Windows * c \in Nat
    BY <1>1, Sizes, Products
<1>6. Win(r) = Win(n) => b = d /\ y < x
    <2>1. Win(r) = Win(n) => b = d
        BY DEF b, d
    <2>2. WindowSize * Win(r) \in Nat
        BY <1>1, Sizes, Products
    <2> QED  BY <1>1, <2>1, <2>2
<1> HIDE DEF wb, wd
<1>7. CASE Seq16(n) < Seq16(r)
    <2>1. d <= b
        BY <1>1, <1>2, <1>4, <1>7, Sizes
    <2>2. c = a
        BY <1>1, <1>3, <1>5, <2>1, Sizes
    <2> QED  BY <1>1, <1>2, <1>7, <2>2, Sizes DEF WindowFrom
<1>8. CASE ~(Seq16(n) < Seq16(r))
    <2>1. b < d
        <3>1. b <= d
            BY <1>1, <1>2, <1>4, <1>8, Sizes
        <3>2. b # d
            <4> SUFFICES ASSUME b = d PROVE FALSE
                OBVIOUS
            <4>1. x <= y
                BY <1>1, <1>2, <1>4, <1>8 DEF wb, wd
            <4>2. c # a
                BY <1>1, <1>6, <4>1
            <4> QED  BY <1>1, <1>3, <1>5, <4>2, Sizes
        <3> QED  BY <1>1, <3>1, <3>2
    <2>2. a = c + 1
        BY <1>1, <1>3, <1>5, <2>1, Sizes
    <2> QED  BY <1>1, <1>2, <1>5, <1>8, <2>2, Sizes DEF WindowFrom
<1> QED  BY <1>7, <1>8


(* What is ahead is taken: a command in a window the receiver takes         *)
(* commands of is not mistaken for an old one, wherever the 16 bits wrap.   *)
THEOREM AheadIsTaken ==
    ASSUME NEW r \in Nat, NEW n \in Nat, r <= n,
           Win(n) <= Win(r) + FreeWindows - 2
    PROVE  Taken(Seq16(r), Seq16(n)) /\ Acknowledged(Seq16(r), Seq16(n))
<1>1. Win(r) \in Nat /\ Win(n) \in Nat /\ Win(r) <= Win(n) /\ Window(Seq16(r)) \in Nat
    BY WinType, WinMonotone, SeqParts, Sizes
<1>2. WindowFrom(Seq16(r), Seq16(n)) = Window(Seq16(r)) + Win(n) - Win(r)
    BY <1>1, AheadWindow, Sizes
<1> QED  BY <1>1, <1>2, Sizes DEF Taken, Acknowledged

(* What is too far ahead is dropped and not acknowledged: the two windows   *)
(* after those keep the commands ahead from looking like those behind.      *)
THEOREM TooFarIsDropped ==
    ASSUME NEW r \in Nat, NEW n \in Nat, r <= n,
           Win(n) \in Win(r) + FreeWindows - 1 .. Win(r) + FreeWindows
    PROVE  ~Taken(Seq16(r), Seq16(n)) /\ ~Acknowledged(Seq16(r), Seq16(n))
<1>1. Win(r) \in Nat /\ Win(n) \in Nat /\ Win(r) <= Win(n) /\ Window(Seq16(r)) \in Nat
    BY WinType, WinMonotone, SeqParts, Sizes
<1>2. WindowFrom(Seq16(r), Seq16(n)) = Window(Seq16(r)) + Win(n) - Win(r)
    BY <1>1, AheadWindow, Sizes
<1> QED  BY <1>1, <1>2, Sizes DEF Taken, Acknowledged

(* What is behind is not taken again, up to FreeWindows + 1 windows back;   *)
(* and up to FreeWindows - 1 back it is acknowledged again, for a sender    *)
(* that missed the acknowledgement.                                         *)
THEOREM BehindIsOld ==
    ASSUME NEW r \in Nat, NEW n \in Nat, n < r,
           Win(r) <= Win(n) + FreeWindows + 1
    PROVE  /\ ~Taken(Seq16(r), Seq16(n))
           /\ Win(r) <= Win(n) + FreeWindows - 1 => Acknowledged(Seq16(r), Seq16(n))
<1>1. Win(r) \in Nat /\ Win(n) \in Nat /\ Win(n) <= Win(r) /\ Window(Seq16(r)) \in Nat
    BY WinType, WinMonotone, SeqParts, Sizes
<1>2. WindowFrom(Seq16(r), Seq16(n)) = Window(Seq16(r)) + Windows + Win(n) - Win(r)
    BY <1>1, BehindWindow, Sizes
<1> QED  BY <1>1, <1>2, Sizes DEF Taken, Acknowledged

-----------------------------------------------------------------------------
(* Packets and their commands.                                              *)
LongBefore(p) == {q \in Long : q < p}

LEMMA LengthType == \A p : Length(p) \in Nat /\ Length(p) >= 1 /\ Length(p) <= FragmentCount
BY ChannelAssumption DEF Length

LEMMA FragmentType == FragmentCount \in Nat /\ FragmentCount >= 2
<1>1. (FreeWindows - 1) * WindowSize \in Int
    BY Sizes
<1> QED  BY <1>1, ChannelAssumption

LEMMA LongType == Packets \in Nat /\ \A q \in Long : q \in Nat /\ q >= 1
BY ChannelAssumption

LEMMA LongBeforeFinite ==
    ASSUME NEW p \in Nat
    PROVE  IsFiniteSet(LongBefore(p)) /\ Cardinality(LongBefore(p)) \in Nat
<1>1. LongBefore(p) \subseteq 1..Packets /\ Packets \in Nat
    BY ChannelAssumption DEF LongBefore
<1>2. IsFiniteSet(1..Packets)
    BY <1>1, FS_Interval
<1> QED  BY <1>1, <1>2, FS_Subset, FS_CardinalityType

LEMMA FirstType ==
    \A p \in 1..Packets + 1 :
        /\ First[p] \in Nat \ {0}
        /\ First[p] = p + (FragmentCount - 1) * Cardinality(LongBefore(p))
<1> SUFFICES ASSUME NEW p \in 1..Packets + 1
             PROVE  /\ First[p] \in Nat \ {0}
                    /\ First[p] = p + (FragmentCount - 1) * Cardinality(LongBefore(p))
    OBVIOUS
<1>1. First[p] = p + (FragmentCount - 1) * Cardinality(LongBefore(p))
    BY DEF First, LongBefore
<1>2. Cardinality(LongBefore(p)) \in Nat /\ FragmentCount - 1 \in Nat /\ p \in Nat \ {0}
    BY LongBeforeFinite, FragmentType, ChannelAssumption
<1>3. (FragmentCount - 1) * Cardinality(LongBefore(p)) \in Nat
    BY <1>2
<1> QED  BY <1>1, <1>2, <1>3

LEMMA FirstStep ==
    ASSUME NEW p \in 1..Packets
    PROVE  First[p + 1] = First[p] + Length(p)
<1> DEFINE c == Cardinality(LongBefore(p))  f == FragmentCount - 1
<1>1. c \in Nat /\ f \in Nat /\ p \in Nat /\ IsFiniteSet(LongBefore(p)) /\ Packets \in Nat
    BY LongBeforeFinite, FragmentType, ChannelAssumption
<1>2. First[p] = p + f * c /\ First[p + 1] = p + 1 + f * Cardinality(LongBefore(p + 1))
    BY <1>1, FirstType
<1>3. CASE p \in Long
    <2>1. LongBefore(p + 1) = LongBefore(p) \cup {p} /\ p \notin LongBefore(p)
        <3>1. \A q \in Long : q < p + 1 <=> (q < p \/ q = p)
            BY <1>1, LongType
        <3>2. ~(p < p)
            BY <1>1
        <3> QED  BY <1>3, <3>1, <3>2 DEF LongBefore
    <2>2. Cardinality(LongBefore(p + 1)) = c + 1
        BY <1>1, <2>1, FS_AddElement
    <2>3. f * (c + 1) = f * c + f /\ f * c \in Nat
        BY <1>1, Products
    <2> HIDE DEF c
    <2> QED  BY <1>1, <1>2, <1>3, <2>2, <2>3, FragmentType DEF Length
<1>4. CASE p \notin Long
    <2>1. LongBefore(p + 1) = LongBefore(p)
        BY <1>1, <1>4, LongType DEF LongBefore
    <2>2. f * c \in Nat
        BY <1>1, Products
    <2> HIDE DEF c
    <2> QED  BY <1>1, <1>2, <1>4, <2>1, <2>2 DEF Length, c
<1> QED  BY <1>3, <1>4

LEMMA FirstMonotone ==
    ASSUME NEW p \in 1..Packets + 1, NEW q \in 1..Packets + 1, p < q
    PROVE  First[p] + Length(p) <= First[q] /\ First[p] < First[q]
<1> DEFINE c == Cardinality(LongBefore(p + 1))  d == Cardinality(LongBefore(q))
           f == FragmentCount - 1
<1>1. p \in 1..Packets /\ p + 1 \in 1..Packets + 1 /\ p \in Nat /\ q \in Nat
    BY ChannelAssumption
<1>2. c \in Nat /\ d \in Nat /\ f \in Nat
    BY <1>1, LongBeforeFinite, FragmentType
<1>3. c <= d
    <2>1. LongBefore(p + 1) \subseteq LongBefore(q)
        BY <1>1, LongType DEF LongBefore
    <2> QED  BY <1>1, <2>1, LongBeforeFinite, FS_Subset
<1>4. First[p + 1] = p + 1 + f * c /\ First[q] = q + f * d
    BY <1>1, FirstType
<1> HIDE DEF c, d, f
<1>5. f * c <= f * d /\ f * c \in Nat /\ f * d \in Nat
    BY <1>2, <1>3, Products
<1>6. First[p + 1] <= First[q]
    BY <1>1, <1>4, <1>5
<1> QED  BY <1>1, <1>6, FirstStep, FirstType, LengthType

-----------------------------------------------------------------------------
(* The sender's count of each window.                                       *)

\* what has been sent and not acknowledged, and the part of it in window w
Unacked      == sent \cup requeued
UnackedIn(w) == {n \in Unacked : Window(Seq16(n)) = w}

SenderType ==
    /\ sentUpTo \in Nat
    /\ sent \subseteq 1..sentUpTo /\ requeued \subseteq 1..sentUpTo
    /\ reliableWindows \in [0..Windows - 1 -> Nat]

IInv == SenderType /\ WindowsCounted

LEMMA UnackedFinite ==
    ASSUME SenderType, NEW w
    PROVE  IsFiniteSet(UnackedIn(w)) /\ Cardinality(UnackedIn(w)) \in Nat
<1>1. UnackedIn(w) \subseteq 1..sentUpTo
    BY DEF SenderType, UnackedIn, Unacked
<1>2. IsFiniteSet(1..sentUpTo)
    BY FS_Interval DEF SenderType
<1> QED  BY <1>1, <1>2, FS_Subset, FS_CardinalityType

LEMMA CountedUnacked ==
    WindowsCounted <=>
        \A w \in 0..Windows - 1 :
            /\ reliableWindows[w] = Cardinality(UnackedIn(w))
            /\ w \in usedReliableWindows <=> reliableWindows[w] > 0
BY DEF WindowsCounted, UnackedIn, Unacked

(* A step that adds command n to the counts, and one that changes no count.  *)
LEMMA AddedCounts ==
    ASSUME IInv, SenderType', NEW n \in Nat, n \notin Unacked,
           Unacked' = Unacked \cup {n},
           reliableWindows' = [reliableWindows EXCEPT ![Window(Seq16(n))] = @ + 1],
           usedReliableWindows' = usedReliableWindows \cup {Window(Seq16(n))}
    PROVE  WindowsCounted'
<1> SUFFICES ASSUME NEW w \in 0..Windows - 1
             PROVE  /\ reliableWindows'[w] = Cardinality(UnackedIn(w)')
                    /\ w \in usedReliableWindows' <=> reliableWindows'[w] > 0
    BY DEF WindowsCounted, UnackedIn, Unacked
<1>1. /\ reliableWindows[w] = Cardinality(UnackedIn(w))
      /\ w \in usedReliableWindows <=> reliableWindows[w] > 0
      /\ reliableWindows[w] \in Nat
    BY CountedUnacked DEF IInv, SenderType
<1>2. CASE Window(Seq16(n)) = w
    <2>1. UnackedIn(w)' = UnackedIn(w) \cup {n}
        BY <1>2 DEF UnackedIn
    <2>2. n \notin UnackedIn(w)
        BY DEF UnackedIn
    <2>3. Cardinality(UnackedIn(w)') = Cardinality(UnackedIn(w)) + 1
        BY <2>1, <2>2, UnackedFinite, FS_AddElement DEF IInv
    <2>4. reliableWindows'[w] = reliableWindows[w] + 1
        BY <1>2 DEF IInv, SenderType
    <2> QED  BY <1>1, <1>2, <2>3, <2>4
<1>3. CASE Window(Seq16(n)) # w
    <2>1. UnackedIn(w)' = UnackedIn(w)
        BY <1>3 DEF UnackedIn
    <2>2. reliableWindows'[w] = reliableWindows[w]
        BY <1>3 DEF IInv, SenderType
    <2> QED  BY <1>1, <1>3, <2>1, <2>2
<1> QED  BY <1>2, <1>3

LEMMA SameCounts ==
    ASSUME IInv, Unacked' = Unacked,
           UNCHANGED <<reliableWindows, usedReliableWindows>>
    PROVE  WindowsCounted'
BY DEF IInv, WindowsCounted, UnackedIn, Unacked

(* A step that takes an acknowledged command m out of the counts.            *)
LEMMA FreedCounts ==
    ASSUME IInv, SenderType', NEW m \in Unacked,
           Unacked' = Unacked \ {m}, Freed(m)
    PROVE  WindowsCounted'
<1> SUFFICES ASSUME NEW w \in 0..Windows - 1
             PROVE  /\ reliableWindows'[w] = Cardinality(UnackedIn(w)')
                    /\ w \in usedReliableWindows' <=> reliableWindows'[w] > 0
    BY DEF WindowsCounted, UnackedIn, Unacked
<1>1. /\ reliableWindows[w] = Cardinality(UnackedIn(w))
      /\ w \in usedReliableWindows <=> reliableWindows[w] > 0
      /\ reliableWindows[w] \in Nat
    BY CountedUnacked DEF IInv, SenderType
<1>2. CASE Window(Seq16(m)) = w
    <2>1. UnackedIn(w)' = UnackedIn(w) \ {m} /\ m \in UnackedIn(w)
        BY <1>2 DEF UnackedIn
    <2>2. /\ IsFiniteSet(UnackedIn(w)) /\ Cardinality(UnackedIn(w)) \in Nat
          /\ Cardinality(UnackedIn(w) \ {m}) \in Nat
        BY UnackedFinite, FS_RemoveElement, FS_CardinalityType DEF IInv
    <2>3. Cardinality(UnackedIn(w)') = Cardinality(UnackedIn(w)) - 1
        BY <2>1, <2>2, FS_RemoveElement
    <2>4. reliableWindows[w] > 0
        BY <1>1, <2>1, <2>2, FS_EmptySet
    <2>5. reliableWindows'[w] = reliableWindows[w] - 1
        BY <1>2, <2>4 DEF IInv, SenderType, Freed
    <2>6. w \in usedReliableWindows' <=> reliableWindows[w] # 1
        BY <1>1, <1>2, <2>4 DEF Freed
    <2> QED  BY <1>1, <2>3, <2>4, <2>5, <2>6
<1>3. CASE Window(Seq16(m)) # w
    <2>1. UnackedIn(w)' = UnackedIn(w)
        BY <1>3 DEF UnackedIn
    <2>2. reliableWindows'[w] = reliableWindows[w]
        BY <1>3 DEF IInv, SenderType, Freed
    <2>3. w \in usedReliableWindows' <=> w \in usedReliableWindows
        BY <1>3 DEF Freed
    <2> QED  BY <1>1, <2>1, <2>2, <2>3
<1> QED  BY <1>2, <1>3

-----------------------------------------------------------------------------
LEMMA InitIInv == Init => IInv
<1> SUFFICES ASSUME Init PROVE IInv
    OBVIOUS
<1>1. Outgoing \in Nat
    BY FirstType, ChannelAssumption DEF Init, Outgoing
<1>2. SenderType
    BY <1>1 DEF Init, SenderType
<1>3. ASSUME NEW w \in 0..Windows - 1
      PROVE  /\ reliableWindows[w] = Cardinality(UnackedIn(w))
             /\ w \in usedReliableWindows <=> reliableWindows[w] > 0
    <2>1. UnackedIn(w) = {} /\ reliableWindows[w] = 0 /\ usedReliableWindows = {}
        BY DEF Init, UnackedIn, Unacked
    <2> QED  BY <2>1, FS_EmptySet
<1> QED  BY <1>2, <1>3, CountedUnacked DEF IInv

LEMMA StepIInv == IInv /\ [Next]_vars => IInv'
<1> SUFFICES ASSUME IInv, [Next]_vars PROVE IInv'
    OBVIOUS
<1> USE DEF IInv
<1>1. CASE SendNew
    <2> DEFINE n == sentUpTo + 1
    <2>1. /\ sentUpTo \in Nat /\ sentUpTo' = n /\ n \in Nat
          /\ sent' = sent \cup {n} /\ requeued' = requeued
          /\ reliableWindows' = [reliableWindows EXCEPT ![Window(Seq16(n))] = @ + 1]
          /\ usedReliableWindows' = usedReliableWindows \cup {Window(Seq16(n))}
        BY <1>1 DEF SendNew, SenderType
    <2>2. SenderType'
        <3>1. reliableWindows' \in [0..Windows - 1 -> Nat]
            <4>1. reliableWindows \in [0..Windows - 1 -> Nat]
                BY DEF SenderType
            <4>2. \A k \in Nat : k + 1 \in Nat
                OBVIOUS
            <4> HIDE DEF n
            <4> QED  BY <2>1, <4>1, <4>2
        <3>2. sent' \subseteq 1..sentUpTo' /\ requeued' \subseteq 1..sentUpTo'
            BY <2>1 DEF SenderType
        <3> QED  BY <2>1, <3>1, <3>2 DEF SenderType
    <2>3. n \notin Unacked /\ Unacked' = Unacked \cup {n}
        BY <2>1 DEF SenderType, Unacked
    <2> HIDE DEF n
    <2> QED  BY <2>1, <2>2, <2>3, AddedCounts
<1>2. ASSUME NEW n \in requeued, SendAgain(n) PROVE IInv'
    <2>1. SenderType' /\ Unacked' = Unacked
        BY <1>2 DEF SendAgain, SenderType, Unacked
    <2> QED  BY <1>2, <2>1, SameCounts DEF SendAgain
<1>3. ASSUME NEW n \in sent, Timeout(n) PROVE IInv'
    <2>1. SenderType' /\ Unacked' = Unacked
        BY <1>3 DEF Timeout, SenderType, Unacked
    <2> QED  BY <1>3, <2>1, SameCounts DEF Timeout
<1>4. CASE GiveUp
    <2>1. SenderType'
        BY <1>4 DEF GiveUp, SenderType
    <2>2. ASSUME NEW w \in 0..Windows - 1
          PROVE  /\ reliableWindows'[w] = Cardinality(UnackedIn(w)')
                 /\ w \in usedReliableWindows' <=> reliableWindows'[w] > 0
        <3>1. UnackedIn(w)' = {} /\ reliableWindows'[w] = 0 /\ usedReliableWindows' = {}
            BY <1>4 DEF GiveUp, UnackedIn, Unacked
        <3> QED  BY <3>1, FS_EmptySet
    <2> QED  BY <2>1, <2>2 DEF WindowsCounted, UnackedIn, Unacked
<1>5. ASSUME NEW n \in acks, ReceiveAck(n) PROVE IInv'
    <2>1. CASE UNCHANGED senderVars
        <3>1. SenderType' /\ Unacked' = Unacked
            BY <2>1 DEF senderVars, SenderType, Unacked
        <3> QED  BY <2>1, <3>1, SameCounts DEF senderVars
    <2>2. CASE \E m \in Matches(Seq16(n)) :
                  /\ sent' = sent \ {m} /\ requeued' = requeued \ {m}
                  /\ Freed(m) /\ UNCHANGED sentUpTo
        <3>1. PICK m \in Matches(Seq16(n)) :
                  /\ sent' = sent \ {m} /\ requeued' = requeued \ {m}
                  /\ Freed(m) /\ UNCHANGED sentUpTo
            BY <2>2
        <3>2. m \in Unacked /\ Unacked' = Unacked \ {m}
            BY <3>1 DEF Matches, Unacked
        <3>3. reliableWindows' \in [0..Windows - 1 -> Nat]
            <4> DEFINE f(k) == IF k > 0 THEN k - 1 ELSE 0
            <4>1. \A k \in Nat : f(k) \in Nat
                OBVIOUS
            <4>2. reliableWindows' =
                      [reliableWindows EXCEPT ![Window(Seq16(m))] = f(@)]
                BY <3>1 DEF Freed
            <4> HIDE DEF f
            <4> QED  BY <4>1, <4>2 DEF SenderType
        <3>4. SenderType'
            BY <3>1, <3>3 DEF SenderType
        <3> QED  BY <3>1, <3>2, <3>4, FreedCounts
    <2> QED  BY <1>5, <2>1, <2>2 DEF ReceiveAck, HandleAcknowledge
<1>6. CASE UNCHANGED <<sentUpTo, sent, requeued, reliableWindows, usedReliableWindows>>
    <2>1. SenderType' /\ Unacked' = Unacked
        BY <1>6 DEF SenderType, Unacked
    <2> QED  BY <1>6, <2>1, SameCounts
<1> QED
    BY <1>1, <1>2, <1>3, <1>4, <1>5, <1>6
    DEF Next, Send, Arrives, Loses, PeerSend, Deliver, ReceiveCommand, LoseCommand,
        LoseAck, vars, senderVars

(* However commands are sent, lost, timed out, sent again and acknowledged, *)
(* twice or late, the sender's counts stay exact: a count too high would    *)
(* close a window for ever, one too low would let the sender run into       *)
(* commands the receiver takes for old ones.                                *)
THEOREM WindowsAreCounted == Spec => []WindowsCounted
<1>1. IInv /\ [Next]_vars => IInv'
    BY StepIInv
<1>2. IInv => WindowsCounted
    BY DEF IInv
<1> QED  BY InitIInv, <1>1, <1>2, PTL DEF Spec
=============================================================================
