------------------------- MODULE EncodeBufferProofs -------------------------
(***************************************************************************)
(* That no character is lost or moved wrongly in the buffer of dumps(),    *)
(* and nothing written outside it, for headers and buffers of any sizes    *)
(* and tokens of any lengths.                                              *)
(*                                                                         *)
(* The characters up to the first that is wide keep their place when it    *)
(* comes, and so on at each change of the level (Settled).  While the      *)
(* parts are widened there is a frontier: what is before it is where it    *)
(* was written, what is behind it is where the result has it, and both     *)
(* can be true because a character ends no later in the narrow text than   *)
(* in the wide one (PlaceGrows).                                           *)
(***************************************************************************)
EXTENDS EncodeBuffer, SequenceTheorems, TLAPS

\* Where the first i characters end, if all have level k.
Place(k, i) == Start(k) + i * Width(k)

\* Character i was written at level k.
InLevel(i, k) ==
    Before(k) < i /\ (k = level \/ (k \in Narrow /\ i <= Before(k) + info[k]))

\* Character i is where it was written, or where the result has it.
Settled(i) == \A k \in Levels : InLevel(i, k) => Holds(mem, Place(k, i - 1), Width(k), i)
Final(i) == Holds(mem, Place(level, i - 1), Width(level), i)

MemoryKept ==
    /\ cap \in Nat /\ mem \in [0 .. cap - 1 -> Byte]
    /\ writer \in Nat /\ text \in Nat
    /\ level \in Levels /\ kind \in Levels /\ comma \in BOOLEAN
    /\ info \in [Narrow -> Nat] /\ \A k \in Narrow : k >= level => info[k] = 0

\* Between two tokens.
WalkKept ==
    pc \in {"walk", "single"} =>
        /\ writer = Place(level, text) /\ writer <= cap
        /\ Before(level) <= text /\ (comma => Before(level) < text)
        /\ \A i \in 1 .. text : Settled(i)

\* An array is widened: t characters are before it, and l of its own are left.
ArrayFrom(t, l) ==
    /\ \A i \in 1 .. t : Settled(i)
    /\ \A i \in t + 1 .. t + l : Holds(mem, Place(level, t) + (i - t - 1), 1, i)
    /\ \A i \in t + l + 1 .. text : Final(i)
    /\ jobs = IF l = 0 THEN <<>>
              ELSE <<[src |-> Place(level, t), dst |-> Place(level, t), from |-> 1,
                      to |-> level, left |-> l]>>

ArrayKept ==
    pc = "widen" /\ comma =>
        /\ level \in {2, 4} /\ writer = Place(level, text) /\ writer <= cap
        /\ Before(level) < text
        /\ \E t \in Nat, l \in Nat : Before(level) <= t /\ t + l <= text /\ ArrayFrom(t, l)

\* The parts that are widened after that of level k.
After(k) == CASE k = 2 -> Part(1) \o Part(0)
              [] k = 1 -> Part(0)
              [] k = 0 -> <<>>

\* The widenings s are those of the first f characters: of l at level k, and of the
\* levels below.
Parts(f, s) ==
    \/ f = 0 /\ s = <<>>
    \/ \E k \in Narrow, l \in Nat :
          /\ k < level /\ 0 < l /\ l <= info[k] /\ f = Before(k) + l
          /\ s = <<[Elevate(k) EXCEPT !.left = l]>> \o After(k)

\* The first f characters are left.
ResultFrom(f) ==
    /\ \A i \in 1 .. f : Settled(i)
    /\ \A i \in f + 1 .. text : Final(i)
    /\ Parts(f, jobs)

ResultKept ==
    pc = "widen" /\ ~comma =>
        /\ writer = Place(level, text) /\ writer + Width(level) <= cap
        /\ Before(level) <= text
        /\ \E f \in Nat : f <= Before(level) /\ ResultFrom(f)

FitKept ==
    pc = "fit" =>
        /\ writer = Place(level, text) /\ writer + Width(level) <= cap
        /\ \A i \in 1 .. text : Final(i)

DoneKept == pc = "done" => cap = Place(level, text + 1) /\ \A i \in 1 .. text : Final(i)

\* Before the buffer is there, and when nothing is widened.
StartKept ==
    pc = "start" => /\ level = 0 /\ kind = 0 /\ text = 0 /\ comma = FALSE
                    /\ \A k \in Narrow : info[k] = 0
JobsKept == pc # "widen" => jobs = <<>>

KindKept == pc \in {"walk", "single", "widen", "fit", "done"} => level = kind

BlocksKept ==
    /\ pc = "start" => head = "null" /\ blocks = 0
    /\ pc \in {"walk", "single", "widen", "fit", "done", "wild"} => head = "block" /\ blocks = 1
    /\ pc = "failed" => \/ head = "block" /\ blocks = 1
                        \/ head = "null" /\ blocks = 0
    /\ pc = "returned" => head = "null" /\ blocks = 0
    /\ pc \in {"start", "walk", "single", "widen", "fit", "done", "failed", "returned", "wild"}

BufferInv ==
    /\ MemoryKept /\ StartKept /\ JobsKept /\ KindKept /\ BlocksKept
    /\ WalkKept /\ ArrayKept /\ ResultKept /\ FitKept /\ DoneKept

-----------------------------------------------------------------------------
(* Places. *)

LEMMA Widths ==
    ASSUME NEW k \in Levels
    PROVE  /\ Width(k) \in {1, 2, 4} /\ Width(k) \in Nat /\ Start(k) \in Nat
           /\ 0 < Start(k) /\ Start(k) <= CompactStart /\ k \in Nat
           /\ (k # 0 => Width(k) = k /\ Start(k) = CompactStart) /\ (k = 0 => Width(k) = 1)
  BY HeadersAssumption DEF Levels, Width, Start

LEMMA PlaceIsNat == ASSUME NEW k \in Levels, NEW i \in Nat PROVE Place(k, i) \in Nat
<1>1. Width(k) \in {1, 2, 4} /\ Start(k) \in Nat
  BY Widths
<1> QED
  BY <1>1 DEF Place

\* n characters more.
LEMMA PlaceMoves ==
    ASSUME NEW k \in Levels, NEW i \in Nat, NEW n \in Nat
    PROVE  Place(k, i + n) = Place(k, i) + n * Width(k)
<1>1. Width(k) \in {1, 2, 4} /\ Start(k) \in Nat
  BY Widths
<1> QED
  BY <1>1 DEF Place

\* A character ends no later at a narrower level, and before those that follow it.
LEMMA PlaceGrows ==
    ASSUME NEW j \in Levels, NEW k \in Levels, j <= k, NEW i \in Nat, NEW n \in Nat, i <= n
    PROVE  Place(j, i) <= Place(k, n)
<1>1. Start(j) <= Start(k) /\ Start(j) \in Nat /\ Start(k) \in Nat
  BY HeadersAssumption DEF Levels, Start
<1>2. CASE Width(j) = 1 /\ Width(k) \in {1, 2, 4}
  BY <1>1, <1>2 DEF Place
<1>3. CASE Width(j) = 2 /\ Width(k) \in {2, 4}
  BY <1>1, <1>3 DEF Place
<1>4. CASE Width(j) = 4 /\ Width(k) = 4
  BY <1>1, <1>4 DEF Place
<1>5. \/ Width(j) = 1 /\ Width(k) \in {1, 2, 4}
      \/ Width(j) = 2 /\ Width(k) \in {2, 4}
      \/ Width(j) = 4 /\ Width(k) = 4
  BY DEF Levels, Width
<1> QED
  BY <1>2, <1>3, <1>4, <1>5

\* A byte of a character, found again.
LEMMA ByteOf ==
    ASSUME NEW w \in {1, 2, 4}, NEW q \in Nat, NEW b \in 0 .. w - 1
    PROVE  (q * w + b) \div w = q /\ (q * w + b) % w = b
<1>1. \A x \in Nat, y \in 0 .. 0 : (x * 1 + y) \div 1 = x /\ (x * 1 + y) % 1 = y
  OBVIOUS
<1>2. \A x \in Nat, y \in 0 .. 1 : (x * 2 + y) \div 2 = x /\ (x * 2 + y) % 2 = y
  OBVIOUS
<1>3. \A x \in Nat, y \in 0 .. 3 : (x * 4 + y) \div 4 = x /\ (x * 4 + y) % 4 = y
  OBVIOUS
<1>4. CASE w = 1
  BY <1>1, <1>4
<1>5. CASE w = 2
  BY <1>2, <1>5
<1>6. CASE w = 4
  BY <1>3, <1>6
<1> QED
  BY <1>4, <1>5, <1>6

\* The characters that the code counts.
LEMMA CharsCounted ==
    ASSUME level \in Levels, text \in Nat, writer = Place(level, text)
    PROVE  Chars = text
<1>1. Width(level) \in {1, 2, 4} /\ Start(level) \in Nat
  BY Widths
<1>2. writer - Start(level) = text * Width(level) + 0
  BY <1>1 DEF Place
<1>3. 0 \in 0 .. Width(level) - 1
  BY <1>1
<1>4. (text * Width(level) + 0) \div Width(level) = text
  BY <1>1, <1>3, ByteOf
<1> QED
  BY <1>2, <1>4 DEF Chars

\* Byte b of the bytes of n characters of w bytes each is in one of them.
LEMMA SplitByte ==
    ASSUME NEW w \in {1, 2, 4}, NEW n \in Nat, NEW b \in Nat, b < n * w
    PROVE  b \div w \in 0 .. n - 1 /\ b % w \in 0 .. w - 1 /\ b = (b \div w) * w + (b % w)
<1>1. \A x \in Nat, y \in Nat : y < x * 1 => y \div 1 \in 0 .. x - 1 /\ y % 1 = 0 /\ y = (y \div 1) * 1 + (y % 1)
  OBVIOUS
<1>2. \A x \in Nat, y \in Nat : y < x * 2 => y \div 2 \in 0 .. x - 1 /\ y % 2 \in 0 .. 1 /\ y = (y \div 2) * 2 + (y % 2)
  OBVIOUS
<1>3. \A x \in Nat, y \in Nat : y < x * 4 => y \div 4 \in 0 .. x - 1 /\ y % 4 \in 0 .. 3 /\ y = (y \div 4) * 4 + (y % 4)
  OBVIOUS
<1>4. CASE w = 1
  BY <1>1, <1>4
<1>5. CASE w = 2
  BY <1>2, <1>5
<1>6. CASE w = 4
  BY <1>3, <1>6
<1> QED
  BY <1>4, <1>5, <1>6

-----------------------------------------------------------------------------
(* Memory. *)

\* Memory of n bytes.
Memory(m, n) == m \in [0 .. n - 1 -> Byte]

LEMMA InMemory ==
    ASSUME NEW m, NEW n, Memory(m, n), NEW at, NEW w, NEW i, Holds(m, at, w, i), NEW b \in 0 .. w - 1
    PROVE  at + b \in 0 .. n - 1 /\ m[at + b] = <<i, w, b>>
  BY DEF Memory, Holds

\* What is no part of what is put, junk or cut stays.
LEMMA PutKeeps ==
    ASSUME NEW m, NEW at \in Int, NEW w \in Int, NEW i, NEW n \in Int,
           NEW a \in Int, NEW v \in Nat, NEW c, Holds(m, a, v, c), a + v <= at \/ at + n * w <= a
    PROVE  Holds(Put(m, at, w, i, n), a, v, c)
<1>1. n * w \in Int
  OBVIOUS
<1> DEFINE e == n * w
<1>2. e \in Int /\ (a + v <= at \/ at + e <= a)
  BY <1>1
<1>3. \A b \in 0 .. v - 1 : a + b \notin at .. at + e - 1
  <2> HIDE DEF e
  <2> QED
    BY <1>2
<1> QED
  BY <1>3 DEF Holds, Put

LEMMA ClobberedKeeps ==
    ASSUME NEW m, NEW at \in Int, NEW n \in Int,
           NEW a \in Int, NEW v \in Nat, NEW c, Holds(m, a, v, c), a + v <= at \/ at + n <= a
    PROVE  Holds(Clobbered(m, at, n), a, v, c)
<1>1. \A b \in 0 .. v - 1 : a + b \notin at .. at + n - 1
  OBVIOUS
<1> QED
  BY <1>1 DEF Holds, Clobbered

LEMMA ResizedKeeps ==
    ASSUME NEW m, NEW n \in Int, NEW a \in Int, NEW v \in Nat, NEW c, Holds(m, a, v, c),
           0 <= a, a + v <= n
    PROVE  Holds(Resized(m, n), a, v, c)
<1>1. \A b \in 0 .. v - 1 : a + b \in 0 .. n - 1
  OBVIOUS
<1> QED
  BY <1>1 DEF Holds, Resized

\* What is put is there.
LEMMA PutHolds ==
    ASSUME NEW m, NEW at \in Nat, NEW w \in {1, 2, 4}, NEW i \in Nat, NEW n \in Nat,
           \A b \in at .. at + n * w - 1 : b \in DOMAIN m, NEW q \in 0 .. n - 1
    PROVE  Holds(Put(m, at, w, i, n), at + q * w, w, i + q)
<1> SUFFICES ASSUME NEW b \in 0 .. w - 1
             PROVE  /\ at + q * w + b \in DOMAIN Put(m, at, w, i, n)
                    /\ Put(m, at, w, i, n)[at + q * w + b] = <<i + q, w, b>>
  BY DEF Holds
<1>1. q * w + b \in 0 .. n * w - 1
  <2>1. CASE w = 1
    BY <2>1
  <2>2. CASE w = 2
    BY <2>2
  <2>3. CASE w = 4
    BY <2>3
  <2> QED
    BY <2>1, <2>2, <2>3
<1> DEFINE x == q * w + b
<1>2. x \div w = q /\ x % w = b
  BY ByteOf
<1>3. /\ at + q * w + b = at + x /\ n * w \in Int /\ x \in 0 .. n * w - 1
  BY <1>1
<1> HIDE DEF x
<1>4. at + x \in at .. at + n * w - 1 /\ (at + x) - at = x
  BY <1>3
<1> QED
  BY <1>2, <1>3, <1>4 DEF Put

\* A character that is read is the one that is there.
LEMMA CharRead ==
    ASSUME NEW m, NEW at \in Nat, NEW w \in {1, 2, 4}, NEW i, i # 0, Holds(m, at, w, i)
    PROVE  CharAt(m, at, w) = i
<1>1. m[at + 0] = <<i, w, 0>> /\ at + 0 = at
  BY DEF Holds
<1>2. m[at][1] = i
  BY <1>1
<1> QED
  BY <1>2 DEF CharAt

\* n characters from character c on are at `at', with w bytes each.
Row(m, at, w, c, n) == \A q \in 0 .. n - 1 : Holds(m, at + q * w, w, c + q)

\* There are n places of w bytes at `at'.
Room(m, at, w, n) == \A b \in at .. at + n * w - 1 : b \in DOMAIN m

\* n characters that are widened are at their new places.
LEMMA WidenedRow ==
    ASSUME NEW m, NEW src \in Nat, NEW dst \in Nat, NEW from \in {1, 2, 4}, NEW to \in {1, 2, 4},
           NEW n \in Nat, NEW c \in Nat \ {0}, Row(m, src, from, c, n), Room(m, dst, to, n)
    PROVE  Row(Widened(m, src, dst, from, to, n), dst, to, c, n)
<1> SUFFICES ASSUME NEW q \in 0 .. n - 1
             PROVE  Holds(Widened(m, src, dst, from, to, n), dst + q * to, to, c + q)
  BY DEF Row
<1>1. /\ \A x \in 0 .. n - 1 : Holds(m, src + x * from, from, c + x)
      /\ \A b \in dst .. dst + n * to - 1 : b \in DOMAIN m
  BY DEF Row, Room
<1> SUFFICES ASSUME NEW b \in 0 .. to - 1
             PROVE  /\ dst + q * to + b \in DOMAIN Widened(m, src, dst, from, to, n)
                    /\ Widened(m, src, dst, from, to, n)[dst + q * to + b] = <<c + q, to, b>>
  BY DEF Holds
<1>2. q * to + b \in 0 .. n * to - 1 /\ src + q * from \in Nat
  <2>1. q * from \in Nat
    OBVIOUS
  <2>2. CASE to = 1
    BY <2>1, <2>2
  <2>3. CASE to = 2
    BY <2>1, <2>3
  <2>4. CASE to = 4
    BY <2>1, <2>4
  <2> QED
    BY <2>2, <2>3, <2>4
<1> DEFINE x == q * to + b
           y == src + q * from
<1>3. x \div to = q /\ x % to = b
  BY ByteOf
<1>4. dst + q * to + b = dst + x /\ n * to \in Int /\ x \in 0 .. n * to - 1
  BY <1>2
<1>5. CharAt(m, y, from) = c + q /\ c + q # 0
  <2>1. y \in Nat /\ c + q # 0
    BY <1>2
  <2> QED
    BY <1>1, <2>1, CharRead
<1>6. src + (x \div to) * from = y
  BY <1>3
<1> HIDE DEF x, y
<1>7. dst + x \in dst .. dst + n * to - 1 /\ (dst + x) - dst = x /\ dst + x \in DOMAIN m
  BY <1>4, <1>1
<1>8. Widened(m, src, dst, from, to, n)[dst + x] =
          LET i == CharAt(m, src + (((dst + x) - dst) \div to) * from, from)
          IN  IF i = 0 THEN Junk ELSE <<i, to, ((dst + x) - dst) % to>>
  BY <1>7 DEF Widened
<1>9. Widened(m, src, dst, from, to, n)[dst + x] = <<c + q, to, b>>
  BY <1>3, <1>5, <1>6, <1>7, <1>8
<1> QED
  BY <1>4, <1>7, <1>9 DEF Widened

LEMMA WidenedKeeps ==
    ASSUME NEW m, NEW src, NEW dst \in Int, NEW from, NEW to \in Int, NEW n \in Int,
           NEW a \in Int, NEW v \in Nat, NEW c, Holds(m, a, v, c), a + v <= dst \/ dst + n * to <= a
    PROVE  Holds(Widened(m, src, dst, from, to, n), a, v, c)
<1>1. n * to \in Int
  OBVIOUS
<1> DEFINE e == n * to
<1>2. e \in Int /\ (a + v <= dst \/ dst + e <= a)
  BY <1>1
<1>3. \A b \in 0 .. v - 1 : a + b \notin dst .. dst + e - 1
  <2> HIDE DEF e
  <2> QED
    BY <1>2
<1> QED
  BY <1>3 DEF Holds, Widened

\* All of these leave bytes in memory.
LEMMA MemoryResized == ASSUME NEW m, NEW c \in Int, Memory(m, c), NEW n \in Int PROVE Memory(Resized(m, n), n)
<1>1. Junk \in Byte
  BY DEF Junk, Byte
<1> QED
  BY <1>1 DEF Memory, Resized

LEMMA MemoryClobbered ==
    ASSUME NEW m, NEW c \in Int, Memory(m, c), NEW at, NEW n
    PROVE  Memory(Clobbered(m, at, n), c)
<1>1. Junk \in Byte
  BY DEF Junk, Byte
<1> QED
  BY <1>1 DEF Memory, Clobbered

LEMMA MemoryPut ==
    ASSUME NEW m, NEW c \in Int, Memory(m, c), NEW at \in Nat, NEW w \in {1, 2, 4}, NEW i \in Nat,
           NEW n \in Nat
    PROVE  Memory(Put(m, at, w, i, n), c)
<1> SUFFICES ASSUME NEW b \in 0 .. c - 1, b \in at .. at + n * w - 1
             PROVE  <<i + (b - at) \div w, w, (b - at) % w>> \in Byte
  BY DEF Memory, Put
<1>1. b - at \in Nat /\ b - at < n * w
  <2>1. n * w \in Nat
    OBVIOUS
  <2> QED
    BY <2>1
<1>2. (b - at) \div w \in Nat /\ (b - at) % w \in Nat
  <2> DEFINE x == b - at
  <2>1. x \in Nat /\ x < n * w
    BY <1>1
  <2> HIDE DEF x
  <2>2. x \div w \in 0 .. n - 1 /\ x % w \in 0 .. w - 1
    BY <2>1, SplitByte
  <2> QED
    BY <2>2 DEF x
<1>3. i + (b - at) \div w \in Nat /\ w \in Nat
  BY <1>2
<1> QED
  BY <1>2, <1>3 DEF Byte

LEMMA MemoryWidened ==
    ASSUME NEW m, NEW c \in Int, Memory(m, c), NEW src \in Nat, NEW dst \in Nat,
           NEW from \in {1, 2, 4}, NEW to \in {1, 2, 4}, NEW n \in Nat
    PROVE  Memory(Widened(m, src, dst, from, to, n), c)
<1>1. Junk \in Byte
  BY DEF Junk, Byte
<1>2. \A at \in Int : CharAt(m, at, from) \in Nat
  <2> SUFFICES ASSUME NEW at \in Int, Holds(m, at, from, m[at][1]) PROVE m[at][1] \in Nat
    BY DEF CharAt
  <2>1. 0 \in 0 .. from - 1 /\ at + 0 = at
    OBVIOUS
  <2>2. at \in 0 .. c - 1
    BY <2>1 DEF Memory, Holds
  <2>3. m[at] \in Nat \X Nat \X Nat
    BY <2>2 DEF Memory, Byte
  <2> QED
    BY <2>3
<1> SUFFICES ASSUME NEW b \in 0 .. c - 1, b \in dst .. dst + n * to - 1
             PROVE  LET i == CharAt(m, src + ((b - dst) \div to) * from, from)
                    IN  (IF i = 0 THEN Junk ELSE <<i, to, (b - dst) % to>>) \in Byte
  BY DEF Memory, Widened
<1>3. b - dst \in Nat /\ b - dst < n * to
  <2>1. n * to \in Nat
    OBVIOUS
  <2> QED
    BY <2>1
<1>4. (b - dst) \div to \in Nat /\ (b - dst) % to \in Nat
  <2> DEFINE x == b - dst
  <2>1. x \in Nat /\ x < n * to
    BY <1>3
  <2> HIDE DEF x
  <2>2. x \div to \in 0 .. n - 1 /\ x % to \in 0 .. to - 1
    BY <2>1, SplitByte
  <2> QED
    BY <2>2 DEF x
<1> DEFINE y == (b - dst) \div to
           at == src + y * from
<1>5. at \in Int
  <2>1. y \in Nat
    BY <1>4
  <2> HIDE DEF y
  <2> QED
    BY <2>1
<1>6. CharAt(m, at, from) \in Nat /\ to \in Nat
  BY <1>2, <1>5
<1> QED
  BY <1>1, <1>4, <1>6 DEF Byte

-----------------------------------------------------------------------------
(* Levels. *)

LEMMA BeforeIsNat == ASSUME MemoryKept, NEW k \in Levels PROVE Before(k) \in Nat
  BY DEF MemoryKept, Before, Narrow, Levels

\* A character is at no level above that of the buffer, and at one below only among
\* the first.
LEMMA LevelBounds ==
    ASSUME MemoryKept, NEW i \in Nat \ {0}, NEW k \in Levels, InLevel(i, k)
    PROVE  k <= level /\ (k # level => k \in Narrow /\ i <= Before(level))
<1>1. Before(k) \in Nat /\ Before(level) \in Nat
  BY BeforeIsNat DEF MemoryKept
<1>2. CASE k = level
  BY <1>1, <1>2 DEF MemoryKept, Levels
<1>3. CASE k # level
  <2>1. k \in Narrow /\ Before(k) < i /\ i <= Before(k) + info[k]
    BY <1>3 DEF InLevel
  <2>2. ~(k >= level)
    <3>1. k >= level => info[k] = 0
      BY <2>1 DEF MemoryKept
    <3> QED
      BY <1>1, <2>1, <3>1
  <2>3. Before(k) + info[k] <= Before(level)
    BY <2>1, <2>2 DEF MemoryKept, Before, Narrow, Levels
  <2>4. k <= level
    BY <2>2 DEF MemoryKept, Levels
  <2> QED
    BY <1>1, <2>1, <2>3, <2>4 DEF MemoryKept
<1> QED
  BY <1>2, <1>3

\* Each character has a level.
LEMMA LevelFound ==
    ASSUME MemoryKept, NEW i \in Nat \ {0}
    PROVE  \E k \in Levels : InLevel(i, k)
<1>1. CASE Before(level) < i
  BY <1>1 DEF InLevel, MemoryKept
<1>2. CASE ~(Before(level) < i)
  <2>1. Before(level) \in Nat /\ i <= Before(level)
    BY <1>2, BeforeIsNat DEF MemoryKept
  <2>2. info[0] \in Nat /\ info[1] \in Nat /\ info[2] \in Nat
    BY DEF MemoryKept, Narrow
  <2>3. i <= info[0] \/ (info[0] < i /\ i <= info[0] + info[1])
        \/ (info[0] + info[1] < i /\ i <= info[0] + info[1] + info[2])
    BY <2>1, <2>2 DEF Before, MemoryKept, Levels
  <2>4. Before(0) = 0 /\ Before(1) = info[0] /\ Before(2) = info[0] + info[1]
    BY <2>2 DEF Before
  <2> QED
    BY <2>2, <2>3, <2>4 DEF InLevel, Narrow, Levels
<1> QED
  BY <1>1, <1>2

\* What is before a place of the buffer's level stays where it is when bytes from there
\* on are written.
LEMMA SettledEnds ==
    ASSUME MemoryKept, NEW i \in Nat \ {0}, NEW k \in Levels, InLevel(i, k), NEW n \in Nat, i <= n
    PROVE  /\ Place(k, i - 1) \in Nat /\ Width(k) \in Nat
           /\ Place(k, i - 1) + Width(k) <= Place(level, n)
<1>1. k <= level /\ level \in Levels
  BY LevelBounds DEF MemoryKept
<1>2. Width(k) \in Nat /\ i - 1 \in Nat
  BY Widths
<1>3. Place(k, i - 1) \in Nat /\ Place(k, (i - 1) + 1) = Place(k, i - 1) + 1 * Width(k)
  BY <1>2, PlaceIsNat, PlaceMoves
<1>4. Place(k, i) <= Place(level, n)
  BY <1>1, PlaceGrows
<1>5. (i - 1) + 1 = i /\ 1 * Width(k) = Width(k)
  BY <1>2
<1> QED
  BY <1>2, <1>3, <1>4, <1>5

-----------------------------------------------------------------------------
(* Writing. *)

\* What a token leaves in memory.
Token(old, c, at, w, i, n, m) == Put(Clobbered(Resized(old, c), at + m * w, (n - m) * w), at, w, i, m)

LEMMA TokenKeeps ==
    ASSUME NEW old, NEW c \in Nat, NEW at \in Nat, NEW w \in {1, 2, 4}, NEW i \in Nat,
           NEW n \in Nat, NEW m \in Nat, m <= n,
           NEW a \in Nat, NEW v \in Nat, NEW x, Holds(old, a, v, x), a + v <= at, a + v <= c
    PROVE  Holds(Token(old, c, at, w, i, n, m), a, v, x)
<1>1. m * w \in Nat /\ (n - m) * w \in Int
  OBVIOUS
<1>2. Holds(Resized(old, c), a, v, x)
  BY ResizedKeeps
<1>3. at + m * w \in Int /\ a + v <= at + m * w
  BY <1>1
<1>4. Holds(Clobbered(Resized(old, c), at + m * w, (n - m) * w), a, v, x)
  BY <1>1, <1>2, <1>3, ClobberedKeeps
<1> QED
  BY <1>4, PutKeeps DEF Token

LEMMA TokenHolds ==
    ASSUME NEW old, NEW c \in Nat, NEW at \in Nat, NEW w \in {1, 2, 4}, NEW i \in Nat,
           NEW n \in Nat, NEW m \in Nat, m <= n, at + n * w <= c, NEW q \in 0 .. m - 1
    PROVE  Holds(Token(old, c, at, w, i, n, m), at + q * w, w, i + q)
<1>1. m * w <= n * w /\ m * w \in Nat /\ n * w \in Nat
  OBVIOUS
<1>2. \A b \in at .. at + m * w - 1 : b \in 0 .. c - 1
  BY <1>1
<1>3. DOMAIN Clobbered(Resized(old, c), at + m * w, (n - m) * w) = 0 .. c - 1
  BY DEF Clobbered, Resized
<1> QED
  BY <1>2, <1>3, PutHolds DEF Token

LEMMA MemoryToken ==
    ASSUME NEW old, NEW d \in Int, Memory(old, d), NEW c \in Nat, NEW at \in Nat,
           NEW w \in {1, 2, 4}, NEW i \in Nat, NEW n, NEW m \in Nat
    PROVE  Memory(Token(old, c, at, w, i, n, m), c)
<1> DEFINE cut == Resized(old, c)
           left == Clobbered(cut, at + m * w, (n - m) * w)
<1>1. c \in Int
  OBVIOUS
<1>2. Memory(cut, c)
  BY <1>1, MemoryResized
<1> HIDE DEF cut
<1>3. Memory(left, c)
  BY <1>1, <1>2, MemoryClobbered
<1> HIDE DEF left
<1>4. Memory(Put(left, at, w, i, m), c)
  BY <1>1, <1>3, MemoryPut
<1> QED
  BY <1>4 DEF Token, cut, left

\* What is reserved is there, and nothing is cut off.
LEMMA Grown ==
    ASSUME cap \in Nat, NEW size \in Nat, NEW c, GrowsTo(size, c)
    PROVE  c \in Nat /\ cap <= c /\ size <= c
<1>1. Sizes \subseteq Nat
  BY SizesAssumption
<1>2. CASE size <= cap
  BY <1>2 DEF GrowsTo
<1>3. CASE ~(size <= cap)
  <2>1. c \in Sizes /\ c >= size
    BY <1>3 DEF GrowsTo
  <2>2. c \in Nat
    BY <1>1, <2>1
  <2> QED
    BY <1>3, <2>1, <2>2
<1> QED
  BY <1>2, <1>3

-----------------------------------------------------------------------------
(* One step. *)

\* What LevelBounds says of all characters, and what it says in the next state.
LevelsBounded ==
    \A i \in Nat \ {0}, k \in Levels :
        InLevel(i, k) => k <= level /\ (k # level => k \in Narrow /\ i <= Before(level))

LEMMA Bounded == MemoryKept => LevelsBounded
  BY LevelBounds DEF LevelsBounded

LEMMA BoundedNext == MemoryKept' => LevelsBounded'
  BY Bounded, PTL

LEMMA BeforeLevel == MemoryKept => Before(level) \in Nat
  BY BeforeIsNat DEF MemoryKept

LEMMA BeforeLevelNext == MemoryKept' => (Before(level) \in Nat)'
  BY BeforeLevel, PTL

\* A character of a level ends before the place n of one that is not narrower.
LEMMA CharacterEnds ==
    ASSUME NEW j \in Levels, NEW k \in Levels, j <= k, NEW i \in Nat \ {0}, NEW n \in Nat, i <= n
    PROVE  /\ Place(j, i - 1) \in Nat /\ Width(j) \in Nat
           /\ Place(j, i - 1) + Width(j) <= Place(k, n)
<1>2. Width(j) \in Nat /\ i - 1 \in Nat
  BY Widths
<1>3. Place(j, i - 1) \in Nat /\ Place(j, (i - 1) + 1) = Place(j, i - 1) + 1 * Width(j)
  BY <1>2, PlaceIsNat, PlaceMoves
<1>4. Place(j, i) <= Place(k, n)
  BY PlaceGrows
<1>5. (i - 1) + 1 = i /\ 1 * Width(j) = Width(j)
  BY <1>2
<1> QED
  BY <1>2, <1>3, <1>4, <1>5

\* The first t characters are where they were written, and m more are written
\* behind them at level k, which is then that of the buffer.
LEMMA WriteKept ==
    ASSUME MemoryKept, NEW k \in Levels, NEW t \in Nat, NEW n \in Nat, NEW m \in Nat, m <= n,
           Write(Place(k, t), Width(k), t + 1, n, m),
           level' = k, kind' \in Levels, comma' \in BOOLEAN, info' \in [Narrow -> Nat],
           \A j \in Narrow : j >= k => info'[j] = 0,
           Before(k)' <= t,
           \A i \in 1 .. t, j \in Levels : InLevel(i, j)' => Holds(mem, Place(j, i - 1), Width(j), i),
           \A i \in 1 .. t, j \in Levels :
               InLevel(i, j)' => Place(j, i - 1) + Width(j) <= cap
    PROVE  /\ MemoryKept' /\ text' = t + m /\ writer' = Place(k, t + m) /\ writer' <= cap'
           /\ \A i \in 1 .. text' : Settled(i)'
<1>1. Width(k) \in {1, 2, 4} /\ Width(k) \in Nat /\ Place(k, t) \in Nat
  BY Widths, PlaceIsNat
<1>2. /\ GrowsTo(Place(k, t) + n * Width(k), cap')
      /\ mem' = Token(mem, cap', Place(k, t), Width(k), t + 1, n, m)
      /\ writer' = Place(k, t) + m * Width(k) /\ text' = t + 1 + m - 1
      /\ pc' = pc /\ jobs' = jobs
  BY DEF Write, Token, Enough
<1>3. cap' \in Nat /\ cap <= cap' /\ Place(k, t) + n * Width(k) <= cap'
  <2>1. Place(k, t) + n * Width(k) \in Nat /\ cap \in Nat
    BY <1>1 DEF MemoryKept
  <2> QED
    BY <1>2, <2>1, Grown
<1>4. text' = t + m /\ text' \in Nat
  BY <1>2
<1>5. Memory(mem', cap')
  <2>1. Memory(mem, cap) /\ cap \in Int
    BY DEF Memory, MemoryKept
  <2> QED
    BY <1>1, <1>2, <1>3, <2>1, MemoryToken
<1>6. writer' = Place(k, t + m) /\ writer' \in Nat
  BY <1>2, PlaceMoves, PlaceIsNat
<1>7. writer' <= cap'
  <2>1. m * Width(k) <= n * Width(k) /\ m * Width(k) \in Nat /\ n * Width(k) \in Nat
    BY <1>1
  <2> QED
    BY <1>1, <1>2, <1>3, <2>1
<1>8. MemoryKept'
  BY <1>3, <1>4, <1>5, <1>6 DEF MemoryKept, Memory
<1>9. ASSUME NEW i \in 1 .. text', NEW j \in Levels, InLevel(i, j)'
      PROVE  Holds(mem', Place(j, i - 1), Width(j), i)
  <2>1. LevelsBounded'
    BY <1>8, BoundedNext
  <2>2. i \in Nat \ {0} /\ i <= t + m
    BY <1>4
  <2>3. j <= level' /\ (j # level' => i <= Before(level)')
    BY <1>9, <2>1, <2>2 DEF LevelsBounded
  <2>4. CASE i <= t
    <3>1. i \in 1 .. t
      BY <2>2, <2>4
    <3>2. Holds(mem, Place(j, i - 1), Width(j), i) /\ Place(j, i - 1) + Width(j) <= cap
      BY <1>9, <3>1
    <3>3. /\ Place(j, i - 1) \in Nat /\ Width(j) \in Nat
          /\ Place(j, i - 1) + Width(j) <= Place(k, t)
      BY <2>2, <2>3, <2>4, CharacterEnds
    <3>4. Place(j, i - 1) + Width(j) <= cap'
      BY <1>3, <3>2, <3>3 DEF MemoryKept
    <3> DEFINE a == Place(j, i - 1)
               v == Width(j)
    <3>5. a \in Nat /\ v \in Nat /\ a + v <= Place(k, t) /\ a + v <= cap' /\ Holds(mem, a, v, i)
      BY <3>2, <3>3, <3>4
    <3> DEFINE at == Place(k, t)
               w == Width(k)
               c == cap'
               first == t + 1
    <3>6. at \in Nat /\ w \in {1, 2, 4} /\ c \in Nat /\ first \in Nat
      BY <1>1, <1>3
    <3>7. mem' = Token(mem, c, at, w, first, n, m) /\ a + v <= at /\ a + v <= c
      BY <1>2, <3>5
    <3> HIDE DEF a, v, at, w, c, first
    <3>8. Holds(Token(mem, c, at, w, first, n, m), a, v, i)
      BY <3>5, <3>6, <3>7, TokenKeeps
    <3> QED
      BY <3>7, <3>8 DEF a, v
  <2>5. CASE t < i
    <3>1. Before(level)' = Before(k)' /\ Before(level)' \in Nat
      BY <1>8, BeforeLevelNext DEF Before
    <3>2. j = k
      BY <2>2, <2>3, <2>5, <3>1
    <3>3. PICK q \in 0 .. m - 1 : i = t + 1 + q
      BY <2>2, <2>5
    <3>4. Holds(mem', Place(k, t) + q * Width(k), Width(k), t + 1 + q)
      <4> DEFINE at == Place(k, t)
                 w == Width(k)
                 c == cap'
                 first == t + 1
      <4>1. /\ at \in Nat /\ w \in {1, 2, 4} /\ c \in Nat /\ first \in Nat /\ at + n * w <= c
            /\ mem' = Token(mem, c, at, w, first, n, m)
        BY <1>1, <1>2, <1>3
      <4> HIDE DEF at, w, c, first
      <4>2. Holds(Token(mem, c, at, w, first, n, m), at + q * w, w, first + q)
        <5>1. q \in 0 .. m - 1
          BY <3>3
        <5>2. CASE w = 1
          BY <4>1, <5>1, <5>2, TokenHolds
        <5>3. CASE w = 2
          BY <4>1, <5>1, <5>3, TokenHolds
        <5>4. CASE w = 4
          BY <4>1, <5>1, <5>4, TokenHolds
        <5> QED
          BY <4>1, <5>2, <5>3, <5>4
      <4> QED
        BY <4>1, <4>2 DEF at, w, c, first
    <3>5. Place(k, t + q) = Place(k, t) + q * Width(k) /\ i - 1 = t + q
      BY <3>3, PlaceMoves
    <3> QED
      BY <3>2, <3>3, <3>4, <3>5
  <2> QED
    BY <2>2, <2>4, <2>5
<1> QED
  BY <1>4, <1>6, <1>7, <1>8, <1>9 DEF Settled

-----------------------------------------------------------------------------
(* The actions. *)

\* A call that fails, or goes on with an invalid writer, only has its buffer.
LEMMA FailKept ==
    ASSUME BufferInv, pc \in {"walk", "single"}, pc' \in {"failed", "wild"}, writer' = 0,
           UNCHANGED <<head, cap, mem, jobs, text, kind, blocks, comma>>,
           level' \in Levels, info' \in [Narrow -> Nat], \A k \in Narrow : k >= level' => info'[k] = 0
    PROVE  BufferInv'
<1> USE DEF BufferInv
<1>1. pc' \notin {"start", "walk", "single", "widen", "fit", "done", "returned"}
  OBVIOUS
<1>2. MemoryKept'
  BY DEF MemoryKept
<1>3. BlocksKept'
  BY DEF BlocksKept
<1> QED
  BY <1>1, <1>2, <1>3
     DEF StartKept, JobsKept, KindKept, WalkKept, ArrayKept, ResultKept, FitKept, DoneKept

\* A call that goes on.
LEMMA WalkOn ==
    ASSUME BufferInv, pc \in {"walk", "single"}, pc' = pc, jobs' = jobs, head' = head, blocks' = blocks,
           MemoryKept', level' = kind', writer' = Place(level', text'), writer' <= cap',
           Before(level)' < text', \A i \in 1 .. text' : Settled(i)'
    PROVE  BufferInv'
<1> USE DEF BufferInv
<1>1. (Before(level)' <= text') /\ jobs' = <<>>
  <2>1. Before(level)' \in Nat /\ text' \in Nat
    BY BeforeLevelNext DEF MemoryKept
  <2>2. Before(level)' <= text'
    BY <2>1
  <2>3. jobs = <<>>
    BY DEF JobsKept
  <2> QED
    BY <2>2, <2>3
<1>2. pc' \notin {"start", "widen", "fit", "done"}
  OBVIOUS
<1>3. BlocksKept' /\ KindKept'
  BY DEF BlocksKept, KindKept
<1>4. WalkKept'
  BY <1>1 DEF WalkKept
<1> QED
  BY <1>1, <1>2, <1>3, <1>4 DEF StartKept, JobsKept, ArrayKept, ResultKept, FitKept, DoneKept

\* What is written at the level of the buffer, behind the first t characters.
LEMMA SameLevel ==
    ASSUME BufferInv, pc \in {"walk", "single"}, NEW t \in Nat, t <= text, Before(level) <= t,
           NEW n \in Nat, NEW m \in Nat, m <= n, 0 < m,
           Write(Place(level, t), Width(level), t + 1, n, m),
           level' = level, info' = info, kind' = kind, comma' \in BOOLEAN
    PROVE  BufferInv'
<1> USE DEF BufferInv
<1>1. /\ level \in Levels /\ info \in [Narrow -> Nat] /\ kind' \in Levels
      /\ \A j \in Narrow : j >= level => info'[j] = 0
      /\ text \in Nat /\ cap \in Nat
  BY DEF MemoryKept
<1>2. Before(level)' = Before(level) /\ Before(level) \in Nat
  BY BeforeLevel DEF Before
<1>3. \A i, j : InLevel(i, j)' <=> InLevel(i, j)
  BY DEF InLevel, Before
<1>4. ASSUME NEW i \in 1 .. t, NEW j \in Levels, InLevel(i, j)'
      PROVE  Holds(mem, Place(j, i - 1), Width(j), i) /\ Place(j, i - 1) + Width(j) <= cap
  <2>1. i \in Nat \ {0} /\ i \in 1 .. text /\ i <= text /\ InLevel(i, j)
    BY <1>1, <1>3, <1>4
  <2>2. Holds(mem, Place(j, i - 1), Width(j), i)
    BY <2>1 DEF WalkKept, Settled
  <2>3. j <= level
    BY <2>1, LevelBounds
  <2>4. /\ Place(j, i - 1) + Width(j) <= Place(level, text)
        /\ Place(j, i - 1) \in Nat /\ Width(j) \in Nat
    BY <1>1, <2>1, <2>3, CharacterEnds
  <2>5. Place(level, text) <= cap /\ Place(level, text) \in Nat
    BY <1>1, PlaceIsNat DEF WalkKept
  <2> QED
    BY <1>1, <2>2, <2>4, <2>5
<1>5. /\ MemoryKept' /\ text' = t + m /\ writer' = Place(level, t + m) /\ writer' <= cap'
      /\ \A i \in 1 .. text' : Settled(i)'
  BY <1>1, <1>2, <1>4, WriteKept
<1>6. Before(level)' < text' /\ writer' = Place(level', text')
  BY <1>2, <1>5
<1>7. pc' = pc /\ jobs' = jobs /\ head' = head /\ blocks' = blocks
  BY DEF Write
<1>8. level' = kind'
  BY DEF KindKept
<1> QED
  BY <1>5, <1>6, <1>7, <1>8, WalkOn

\* What a token may be.
LEMMA Tokens ==
    ASSUME NEW m \in 1 .. MaxToken, NEW slack \in 0 .. MaxSlack
    PROVE  m \in Nat /\ 0 < m /\ m + slack \in Nat /\ m <= m + slack
  BY BoundsAssumption

LEMMA AppendOtherKept == ASSUME BufferInv, AppendOther PROVE BufferInv'
<1>1. PICK m \in 1 .. MaxToken, slack \in 0 .. MaxSlack :
         \/ /\ Write(writer, Width(level), text + 1, m + slack, m)
            /\ comma' \in BOOLEAN /\ kind' = kind
         \/ ReserveFails(writer, (m + slack) * Width(level)) /\ writer' = 0
  BY DEF AppendOther
<1>2. /\ pc = "walk" /\ level' = level /\ info' = info /\ writer = Place(level, text)
      /\ Before(level) <= text /\ MemoryKept
  BY DEF AppendOther, BufferInv, WalkKept
<1>3. CASE Write(writer, Width(level), text + 1, m + slack, m) /\ comma' \in BOOLEAN /\ kind' = kind
  <2>1. text \in Nat /\ text <= text
    BY <1>2 DEF MemoryKept
  <2>2. m \in Nat /\ 0 < m /\ m + slack \in Nat /\ m <= m + slack
    BY Tokens
  <2> QED
    BY <1>2, <1>3, <2>1, <2>2, SameLevel
<1>4. CASE ReserveFails(writer, (m + slack) * Width(level)) /\ writer' = 0
  <2>1. pc' = "failed" /\ UNCHANGED <<head, cap, mem, jobs, text, kind, blocks, comma>>
    BY <1>4 DEF ReserveFails, HeadAfterFailure
  <2>2. level' \in Levels /\ info' \in [Narrow -> Nat] /\ \A k \in Narrow : k >= level' => info'[k] = 0
    BY <1>2 DEF MemoryKept
  <2> QED
    BY <1>2, <1>4, <2>1, <2>2, FailKept
<1> QED
  BY <1>1, <1>3, <1>4

LEMMA AppendSingleKept == ASSUME BufferInv, AppendSingle PROVE BufferInv'
<1>1. PICK m \in 1 .. MaxToken, slack \in 0 .. MaxSlack :
         \/ /\ Write(writer, Width(level), 1, m + slack, m)
            /\ comma' = TRUE /\ kind' = kind /\ level' = level /\ info' = info
         \/ /\ ReserveFails(writer, (m + slack) * Width(level)) /\ writer' = 0
            /\ level' = level /\ info' = info
  BY DEF AppendSingle
<1>2. /\ pc = "single" /\ text = 0 /\ writer = Place(level, text) /\ Before(level) <= text
      /\ MemoryKept /\ level' = level /\ info' = info
  BY <1>1 DEF AppendSingle, BufferInv, WalkKept
<1>3. CASE Write(writer, Width(level), 1, m + slack, m) /\ comma' = TRUE /\ kind' = kind
  <2>1. text \in Nat /\ text <= text /\ text + 1 = 1
    BY <1>2
  <2>2. m \in Nat /\ 0 < m /\ m + slack \in Nat /\ m <= m + slack
    BY Tokens
  <2> QED
    BY <1>2, <1>3, <2>1, <2>2, SameLevel
<1>4. CASE ReserveFails(writer, (m + slack) * Width(level)) /\ writer' = 0
  <2>1. pc' = "failed" /\ UNCHANGED <<head, cap, mem, jobs, text, kind, blocks, comma>>
    BY <1>4 DEF ReserveFails, HeadAfterFailure
  <2>2. level' \in Levels /\ info' \in [Narrow -> Nat] /\ \A k \in Narrow : k >= level' => info'[k] = 0
    BY <1>2 DEF MemoryKept
  <2> QED
    BY <1>2, <1>4, <2>1, <2>2, FailKept
<1> QED
  BY <1>1, <1>3, <1>4

LEMMA CloseKept == ASSUME BufferInv, Close PROVE BufferInv'
<1>1. PICK slack \in 0 .. MaxSlack :
         \/ Write(LastComma, Width(level), text, 2 + slack, 2) /\ comma' = comma /\ kind' = kind
         \/ ReserveFails(LastComma, (2 + slack) * Width(level)) /\ writer' = 0
  BY DEF Close
<1>2. /\ pc = "walk" /\ comma /\ level' = level /\ info' = info /\ writer = Place(level, text)
      /\ Before(level) < text /\ MemoryKept
  BY DEF Close, BufferInv, WalkKept
<1>3. CASE Write(LastComma, Width(level), text, 2 + slack, 2) /\ comma' = comma /\ kind' = kind
  <2> DEFINE t == text - 1
  <2>1. t \in Nat /\ t <= text /\ Before(level) <= t /\ text = t + 1
    BY <1>2, BeforeLevel DEF MemoryKept
  <2> HIDE DEF t
  <2>2. LastComma = Place(level, t)
    <3>1. level \in Levels /\ Width(level) \in Nat /\ Place(level, t) \in Nat
      BY <2>1, <1>2, Widths, PlaceIsNat DEF MemoryKept
    <3>2. Place(level, t + 1) = Place(level, t) + 1 * Width(level)
      BY <2>1, <3>1, PlaceMoves
    <3> QED
      BY <1>2, <2>1, <3>1, <3>2 DEF LastComma
  <2>3. 2 \in Nat /\ 2 + slack \in Nat /\ 2 <= 2 + slack /\ 0 < 2 /\ comma' \in BOOLEAN
    BY <1>2, <1>3, BoundsAssumption DEF MemoryKept
  <2>4. Write(Place(level, t), Width(level), t + 1, 2 + slack, 2)
    BY <1>3, <2>1, <2>2
  <2> QED
    BY <1>2, <1>3, <2>1, <2>3, <2>4, SameLevel
<1>4. CASE ReserveFails(LastComma, (2 + slack) * Width(level)) /\ writer' = 0
  <2>1. pc' = "failed" /\ UNCHANGED <<head, cap, mem, jobs, text, kind, blocks, comma>>
    BY <1>4 DEF ReserveFails, HeadAfterFailure
  <2>2. level' \in Levels /\ info' \in [Narrow -> Nat] /\ \A k \in Narrow : k >= level' => info'[k] = 0
    BY <1>2 DEF MemoryKept
  <2> QED
    BY <1>2, <1>4, <2>1, <2>2, FailKept
<1> QED
  BY <1>1, <1>3, <1>4

LEMMA IntReserveFailsKept == ASSUME BufferInv, IntReserveFails PROVE BufferInv'
<1>1. /\ pc = "walk" /\ pc' \in {"failed", "wild"} /\ writer' = 0
      /\ UNCHANGED <<head, cap, mem, jobs, text, kind, blocks, comma>> /\ level' = level /\ info' = info
  BY DEF IntReserveFails
<1>2. level' \in Levels /\ info' \in [Narrow -> Nat] /\ \A k \in Narrow : k >= level' => info'[k] = 0
  BY <1>1 DEF BufferInv, MemoryKept
<1> QED
  BY <1>1, <1>2, FailKept

\* What is remembered when the level changes to k.
LEMMA Memorized ==
    ASSUME BufferInv, pc = "walk", NEW k \in Levels, k > level, info' = MemorizedInfo
    PROVE  /\ level \in Narrow /\ info' \in [Narrow -> Nat] /\ MemorizedWriter(k) = Place(k, text)
           /\ \A j \in Narrow : j >= k => info'[j] = 0
           /\ \A j \in Narrow : j # level => info'[j] = info[j]
           /\ \A j \in Levels : Before(j)' = IF j > level THEN text ELSE Before(j)
<1>1. /\ level \in Levels /\ text \in Nat /\ info \in [Narrow -> Nat]
      /\ \A j \in Narrow : j >= level => info[j] = 0
  BY DEF BufferInv, MemoryKept
<1>2. level \in Narrow /\ Chars = text
  BY <1>1, CharsCounted DEF Levels, Narrow, BufferInv, WalkKept
<1>3. Before(level) \in Nat /\ Before(level) <= text /\ text - Before(level) \in Nat
  <2>1. Before(level) \in Nat /\ Before(level) <= text
    BY BeforeLevel DEF BufferInv, WalkKept
  <2> QED
    BY <1>1, <2>1
<1>4. info' = [info EXCEPT ![level] = text - Before(level)]
  BY <1>2 DEF MemorizedInfo
<1>5. /\ info' \in [Narrow -> Nat] /\ info'[level] = text - Before(level)
      /\ \A j \in Narrow : j # level => info'[j] = info[j]
  BY <1>1, <1>2, <1>3, <1>4
<1>6. \A j \in Narrow : j >= k => info'[j] = 0
  BY <1>1, <1>5 DEF Narrow, Levels
<1>7. MemorizedWriter(k) = Place(k, text)
  BY <1>1, <1>2 DEF MemorizedWriter, Place, Start, Width, Levels
<1>8. ASSUME NEW j \in Levels PROVE Before(j)' = IF j > level THEN text ELSE Before(j)
  <2>1. Before(j)' = (IF j > 0 THEN info'[0] ELSE 0) + (IF j > 1 THEN info'[1] ELSE 0)
                   + (IF j > 2 THEN info'[2] ELSE 0)
    BY DEF Before
  <2>2. /\ 0 \in Narrow /\ 1 \in Narrow /\ 2 \in Narrow
        /\ info[0] \in Nat /\ info[1] \in Nat /\ info[2] \in Nat
    BY <1>1 DEF Narrow
  <2>3. CASE level = 0
    <3>1. Before(level) = 0 /\ info[1] = 0 /\ info[2] = 0
      BY <1>1, <2>2, <2>3 DEF Before
    <3>2. info'[0] = text /\ info'[1] = 0 /\ info'[2] = 0
      BY <1>1, <1>5, <2>2, <2>3, <3>1
    <3> QED
      BY <1>1, <2>1, <2>3, <3>2 DEF Before, Levels
  <2>4. CASE level = 1
    <3>1. Before(level) = info[0] /\ info[2] = 0
      BY <1>1, <2>2, <2>4 DEF Before
    <3>2. info'[0] = info[0] /\ info'[1] = text - info[0] /\ info'[2] = 0
      BY <1>1, <1>5, <2>2, <2>4, <3>1
    <3> QED
      BY <1>1, <2>1, <2>2, <2>4, <3>2 DEF Before, Levels
  <2>5. CASE level = 2
    <3>1. Before(level) = info[0] + info[1]
      BY <1>1, <2>2, <2>5 DEF Before
    <3>2. info'[0] = info[0] /\ info'[1] = info[1] /\ info'[2] = text - (info[0] + info[1])
      BY <1>1, <1>5, <2>2, <2>5, <3>1
    <3> QED
      BY <1>1, <2>1, <2>2, <2>5, <3>2 DEF Before, Levels
  <2> QED
    BY <1>2, <2>3, <2>4, <2>5 DEF Narrow
<1> QED
  BY <1>2, <1>5, <1>6, <1>7, <1>8

\* A string with wider characters than those before it.
LEMMA WiderKept ==
    ASSUME BufferInv, pc = "walk", NEW k \in Levels, k > level, level' = k, info' = MemorizedInfo,
           NEW n \in Nat, NEW m \in Nat, m <= n, 0 < m,
           Write(MemorizedWriter(k), Width(k), text + 1, n, m), kind' = k, comma' \in BOOLEAN
    PROVE  BufferInv'
<1> USE DEF BufferInv
<1>1. /\ level \in Levels /\ text \in Nat /\ cap \in Nat /\ info \in [Narrow -> Nat]
      /\ \A j \in Narrow : j >= level => info[j] = 0
  BY DEF MemoryKept
<1>2. /\ level \in Narrow /\ info' \in [Narrow -> Nat] /\ MemorizedWriter(k) = Place(k, text)
      /\ \A j \in Narrow : j >= k => info'[j] = 0
      /\ \A j \in Narrow : j # level => info'[j] = info[j]
      /\ \A j \in Levels : Before(j)' = IF j > level THEN text ELSE Before(j)
  BY Memorized
<1>3. Before(k)' = text
  BY <1>2
<1>4. ASSUME NEW i \in 1 .. text, NEW j \in Levels, InLevel(i, j)'
      PROVE  Holds(mem, Place(j, i - 1), Width(j), i) /\ Place(j, i - 1) + Width(j) <= cap
  <2>1. i \in Nat \ {0} /\ i <= text
    BY <1>1
  <2>2. Before(j)' < i /\ (j = k \/ (j \in Narrow /\ i <= Before(j)' + info'[j]))
    BY <1>4 DEF InLevel
  <2>3. ~(j > level)
    <3>1. CASE j > level
      <4>1. Before(j)' = text
        BY <1>2, <3>1
      <4> QED
        BY <1>1, <2>1, <2>2, <4>1
    <3> QED
      BY <3>1
  <2>4. Before(j) < i /\ j # k
    BY <1>2, <2>2, <2>3
  <2>5. InLevel(i, j)
    <3>1. CASE j = level
      BY <2>4, <3>1 DEF InLevel
    <3>2. CASE j # level
      BY <1>2, <2>2, <2>3, <2>4, <3>2 DEF InLevel
    <3> QED
      BY <3>1, <3>2
  <2>6. Holds(mem, Place(j, i - 1), Width(j), i)
    BY <2>5 DEF WalkKept, Settled
  <2>7. j <= level
    BY <2>1, <2>5, LevelBounds
  <2>8. /\ Place(j, i - 1) + Width(j) <= Place(level, text)
        /\ Place(j, i - 1) \in Nat /\ Width(j) \in Nat
    BY <1>1, <2>1, <2>7, CharacterEnds
  <2>9. Place(level, text) <= cap /\ Place(level, text) \in Nat
    BY <1>1, PlaceIsNat DEF WalkKept
  <2> QED
    BY <1>1, <2>6, <2>8, <2>9
<1>5. /\ MemoryKept' /\ text' = text + m /\ writer' = Place(k, text + m) /\ writer' <= cap'
      /\ \A i \in 1 .. text' : Settled(i)'
  <2>1. Write(Place(k, text), Width(k), text + 1, n, m) /\ kind' \in Levels /\ Before(k)' <= text
    BY <1>1, <1>2, <1>3
  <2> QED
    BY <1>1, <1>2, <1>4, <2>1, WriteKept
<1>6. Before(level)' < text' /\ writer' = Place(level', text') /\ level' = kind'
  <2>1. Before(level)' = Before(k)'
    BY DEF Before
  <2> QED
    BY <1>1, <1>3, <1>5, <2>1
<1>7. pc' = pc /\ jobs' = jobs /\ head' = head /\ blocks' = blocks
  BY DEF Write
<1> QED
  BY <1>5, <1>6, <1>7, WalkOn

LEMMA AppendStrKept == ASSUME BufferInv, AppendStr PROVE BufferInv'
<1>1. PICK k \in Levels, m \in 1 .. MaxToken, slack \in 0 .. MaxSlack :
         /\ level' = Wider(level, k)
         /\ info' = IF k > level THEN MemorizedInfo ELSE info
         /\ LET at == IF k > level THEN MemorizedWriter(k) ELSE writer
                w  == Width(level')
            IN  \/ /\ Write(at, w, text + 1, m + slack, m)
                   /\ kind' = Wider(kind, k) /\ comma' \in BOOLEAN
                \/ ReserveFails(at, (m + slack) * w) /\ writer' = 0
  BY DEF AppendStr
<1>2. /\ pc = "walk" /\ writer = Place(level, text) /\ Before(level) <= text /\ MemoryKept
      /\ level = kind /\ level \in Levels /\ text \in Nat
  BY DEF AppendStr, BufferInv, WalkKept, KindKept, MemoryKept
<1>3. m \in Nat /\ 0 < m /\ m + slack \in Nat /\ m <= m + slack
  BY Tokens
<1>4. CASE k > level
  <2>1. level' = k /\ info' = MemorizedInfo
    BY <1>1, <1>2, <1>4 DEF Wider, Levels
  <2>2. CASE /\ Write(MemorizedWriter(k), Width(k), text + 1, m + slack, m)
             /\ kind' = Wider(kind, k) /\ comma' \in BOOLEAN
    <3>1. kind' = k
      BY <1>2, <1>4, <2>2 DEF Wider, Levels
    <3> QED
      BY <1>2, <1>3, <1>4, <2>1, <2>2, <3>1, WiderKept
  <2>3. CASE ReserveFails(MemorizedWriter(k), (m + slack) * Width(k)) /\ writer' = 0
    <3>1. pc' = "failed" /\ UNCHANGED <<head, cap, mem, jobs, text, kind, blocks, comma>>
      BY <2>3 DEF ReserveFails, HeadAfterFailure
    <3>2. level' \in Levels /\ info' \in [Narrow -> Nat] /\ \A j \in Narrow : j >= level' => info'[j] = 0
      BY <1>2, <1>4, <2>1, Memorized
    <3> QED
      BY <1>2, <2>3, <3>1, <3>2, FailKept
  <2> QED
    BY <1>1, <1>4, <2>1, <2>2, <2>3
<1>5. CASE ~(k > level)
  <2>1. level' = level /\ info' = info
    BY <1>1, <1>2, <1>5 DEF Wider, Levels
  <2>2. CASE /\ Write(writer, Width(level), text + 1, m + slack, m)
             /\ kind' = Wider(kind, k) /\ comma' \in BOOLEAN
    <3>1. kind' = kind
      BY <1>2, <1>5, <2>2 DEF Wider, Levels
    <3>2. Write(Place(level, text), Width(level), text + 1, m + slack, m) /\ text <= text
      BY <1>2, <2>2
    <3> QED
      BY <1>2, <1>3, <2>1, <2>2, <3>1, <3>2, SameLevel
  <2>3. CASE ReserveFails(writer, (m + slack) * Width(level)) /\ writer' = 0
    <3>1. pc' = "failed" /\ UNCHANGED <<head, cap, mem, jobs, text, kind, blocks, comma>>
      BY <2>3 DEF ReserveFails, HeadAfterFailure
    <3>2. level' \in Levels /\ info' \in [Narrow -> Nat] /\ \A j \in Narrow : j >= level' => info'[j] = 0
      BY <1>2, <2>1 DEF MemoryKept
    <3> QED
      BY <1>2, <2>3, <3>1, <3>2, FailKept
  <2> QED
    BY <1>1, <1>5, <2>1, <2>2, <2>3
<1> QED
  BY <1>4, <1>5

LEMMA AllocatesKept == ASSUME BufferInv, Allocates PROVE BufferInv'
<1> USE DEF BufferInv
<1>1. /\ pc = "start" /\ pc' \in {"walk", "single"}
      /\ head' = "block" /\ cap' = InitSize /\ blocks' = 1 /\ mem' = Resized(mem, InitSize)
      /\ writer' = Start(level')
      /\ info' = info /\ jobs' = jobs /\ comma' = comma /\ text' = text
  BY DEF Allocates
<1>2. level' \in Levels /\ kind' = level'
  BY DEF Allocates, MemoryKept, StartKept
<1>3. /\ text = 0 /\ comma = FALSE /\ info \in [Narrow -> Nat] /\ jobs = <<>>
      /\ \A k \in Narrow : info[k] = 0
  BY <1>1 DEF StartKept, JobsKept, MemoryKept
<1>4. InitSize \in Nat /\ CompactStart <= InitSize
  BY SizesAssumption
<1>5. Start(level') \in Nat /\ Start(level') <= InitSize
  BY <1>2, <1>4, Widths, HeadersAssumption
<1>6. Memory(mem', cap')
  <2>1. Memory(mem, cap) /\ cap \in Int /\ InitSize \in Int
    BY <1>4 DEF Memory, MemoryKept
  <2> QED
    BY <1>1, <2>1, MemoryResized
<1>7. MemoryKept'
  BY <1>1, <1>2, <1>3, <1>4, <1>5, <1>6 DEF MemoryKept, Memory
<1>8. Place(level', 0) = Start(level') /\ Before(level)' = 0
  <2>1. Width(level') \in {1, 2, 4} /\ Start(level') \in Nat
    BY <1>2, Widths
  <2>2. Place(level', 0) = Start(level')
    BY <2>1 DEF Place
  <2>3. info'[0] = 0 /\ info'[1] = 0 /\ info'[2] = 0
    BY <1>1, <1>3 DEF Narrow
  <2> QED
    BY <2>2, <2>3 DEF Before
<1>9. WalkKept'
  BY <1>1, <1>3, <1>5, <1>8 DEF WalkKept
<1>10. BlocksKept' /\ KindKept' /\ JobsKept'
  BY <1>1, <1>2, <1>3 DEF BlocksKept, KindKept, JobsKept
<1> QED
  BY <1>1, <1>7, <1>9, <1>10 DEF StartKept, ArrayKept, ResultKept, FitKept, DoneKept

LEMMA NoBufferKept == ASSUME BufferInv, NoBuffer PROVE BufferInv'
<1> USE DEF BufferInv
<1>1. /\ pc = "start" /\ pc' = "failed"
      /\ UNCHANGED <<head, cap, mem, writer, level, info, jobs, comma, text, kind, blocks>>
  BY DEF NoBuffer
<1>2. MemoryKept'
  BY <1>1 DEF MemoryKept
<1>3. BlocksKept' /\ JobsKept'
  BY <1>1 DEF BlocksKept, JobsKept
<1> QED
  BY <1>1, <1>2, <1>3 DEF StartKept, KindKept, WalkKept, ArrayKept, ResultKept, FitKept, DoneKept

LEMMA FreeBufferKept == ASSUME BufferInv, FreeBuffer PROVE BufferInv'
<1> USE DEF BufferInv
<1>1. /\ pc = "failed" /\ pc' = "returned"
      /\ IF head = "block" THEN head' = "null" /\ blocks' = blocks - 1
         ELSE head' = head /\ blocks' = blocks
      /\ UNCHANGED <<cap, mem, writer, level, info, jobs, comma, text, kind>>
  BY DEF FreeBuffer
<1>2. MemoryKept'
  BY <1>1 DEF MemoryKept
<1>3. BlocksKept' /\ JobsKept'
  BY <1>1 DEF BlocksKept, JobsKept
<1> QED
  BY <1>1, <1>2, <1>3 DEF StartKept, KindKept, WalkKept, ArrayKept, ResultKept, FitKept, DoneKept

LEMMA FitStepKept == ASSUME BufferInv, Fit PROVE BufferInv'
<1> USE DEF BufferInv
<1>1. /\ pc = "fit" /\ pc' \in {"done", "failed"}
      /\ UNCHANGED <<head, writer, level, info, jobs, comma, text, kind, blocks>>
      /\ pc' = "failed" => cap' = cap /\ mem' = mem
      /\ pc' = "done" =>
            /\ cap' = FitSize(Chars)
            /\ mem' = Clobbered(Resized(mem, cap'), Start(level) + Chars * Width(level), Width(level))
  BY DEF Fit
<1>2. /\ level \in Levels /\ text \in Nat /\ writer = Place(level, text) /\ Chars = text
      /\ \A i \in 1 .. text : Final(i)
  BY <1>1, CharsCounted DEF MemoryKept, FitKept
<1>3. BlocksKept' /\ JobsKept' /\ KindKept'
  BY <1>1 DEF BlocksKept, JobsKept, KindKept
<1>4. CASE pc' = "failed"
  <2>1. MemoryKept'
    BY <1>1, <1>4 DEF MemoryKept
  <2> QED
    BY <1>1, <1>3, <1>4, <2>1 DEF StartKept, WalkKept, ArrayKept, ResultKept, FitKept, DoneKept
<1>5. CASE pc' = "done"
  <2>1. /\ cap' = Place(level, text + 1) /\ cap' \in Nat
        /\ mem' = Clobbered(Resized(mem, cap'), Place(level, text), Width(level))
    BY <1>1, <1>2, <1>5, PlaceIsNat DEF FitSize, Place
  <2>2. MemoryKept'
    <3>1. Memory(mem, cap) /\ cap \in Int /\ cap' \in Int
      BY <2>1 DEF Memory, MemoryKept
    <3>2. Memory(Resized(mem, cap'), cap')
      BY <3>1, MemoryResized
    <3>3. Memory(mem', cap')
      BY <2>1, <3>1, <3>2, MemoryClobbered
    <3> QED
      BY <1>1, <2>1, <3>3 DEF Memory, MemoryKept
  <2>3. ASSUME NEW i \in 1 .. text PROVE Final(i)'
    <3>1. i \in Nat \ {0} /\ i <= text /\ level <= level
      BY <1>2 DEF Levels
    <3>2. /\ Place(level, i - 1) \in Nat /\ Width(level) \in Nat
          /\ Place(level, i - 1) + Width(level) <= Place(level, text)
          /\ Place(level, text) <= Place(level, text + 1)
          /\ Place(level, text) \in Nat
      BY <1>2, <3>1, CharacterEnds, PlaceGrows, PlaceIsNat
    <3>3. Holds(mem, Place(level, i - 1), Width(level), i)
      BY <1>2 DEF Final
    <3>4. Holds(Resized(mem, cap'), Place(level, i - 1), Width(level), i)
      BY <2>1, <3>2, <3>3, ResizedKeeps
    <3>5. Holds(mem', Place(level, i - 1), Width(level), i)
      BY <2>1, <3>2, <3>4, ClobberedKeeps
    <3> QED
      BY <1>1, <3>5 DEF Final
  <2>4. DoneKept'
    BY <1>1, <2>1, <2>3 DEF DoneKept
  <2> QED
    BY <1>3, <1>5, <2>2, <2>4 DEF StartKept, WalkKept, ArrayKept, ResultKept, FitKept
<1> QED
  BY <1>1, <1>4, <1>5

\* The characters that are settled stay so when memory only changes behind them.
LEMMA SettledStays ==
    ASSUME MemoryKept, level' = level, info' = info, NEW i \in Nat \ {0}, NEW n \in Nat, i <= n,
           Settled(i),
           \A a \in Nat, v \in Nat : Holds(mem, a, v, i) /\ a + v <= Place(level, n) => Holds(mem', a, v, i)
    PROVE  Settled(i)'
<1> SUFFICES ASSUME NEW k \in Levels, InLevel(i, k)' PROVE Holds(mem', Place(k, i - 1), Width(k), i)
  BY DEF Settled
<1>1. InLevel(i, k)
  BY DEF InLevel, Before
<1>2. Holds(mem, Place(k, i - 1), Width(k), i)
  BY <1>1 DEF Settled
<1> QED
  BY <1>1, <1>2, SettledEnds

\* So do those that are at their final places, when it changes before them.
LEMMA FinalStays ==
    ASSUME level' = level, level \in Levels, NEW i \in Nat \ {0}, NEW n \in Nat, n < i, Final(i),
           \A a \in Nat, v \in Nat : Holds(mem, a, v, i) /\ Place(level, n) <= a => Holds(mem', a, v, i)
    PROVE  Final(i)'
<1>1. i - 1 \in Nat /\ n <= i - 1 /\ level <= level
  BY DEF Levels
<1>2. Place(level, n) <= Place(level, i - 1) /\ Place(level, i - 1) \in Nat /\ Width(level) \in Nat
  BY <1>1, PlaceGrows, PlaceIsNat, Widths
<1> QED
  BY <1>2 DEF Final

LEMMA AppendNdarrayKept == ASSUME BufferInv, AppendNdarray PROVE BufferInv'
<1> USE DEF BufferInv
<1>1. PICK m \in 1 .. MaxToken, slack \in 0 .. MaxSlack :
         \/ /\ \E n \in Sizes : GrowsTo(Enough(writer, m + slack), n) /\
                                IF Enough(writer, m * level) <= n THEN cap' = n
                                ELSE GrowsTo(Enough(writer, m * level), cap')
            /\ mem' = Put(Clobbered(Resized(mem, cap'), writer + m, slack), writer, 1, text + 1, m)
            /\ jobs' = <<[src |-> writer, dst |-> writer, from |-> 1, to |-> level, left |-> m]>>
            /\ writer' = writer + m * level
            /\ text' = text + m /\ text' <= MaxText
            /\ pc' = "widen" /\ comma' = TRUE
            /\ head' = head /\ kind' = kind /\ blocks' = blocks
         \/ ReserveFails(writer, m + slack) /\ writer' = 0
         \/ ReserveFails(writer, m * level) /\ writer' = 0
  BY DEF AppendNdarray
<1>2. /\ pc = "walk" /\ Width(level) > 1 /\ level' = level /\ info' = info
      /\ writer = Place(level, text) /\ Before(level) <= text
      /\ level \in Levels /\ text \in Nat /\ cap \in Nat
  BY DEF AppendNdarray, WalkKept, MemoryKept
<1>3. CASE (ReserveFails(writer, m + slack) \/ ReserveFails(writer, m * level)) /\ writer' = 0
  <2>1. pc' = "failed" /\ UNCHANGED <<head, cap, mem, jobs, text, kind, blocks, comma>>
    BY <1>3 DEF ReserveFails, HeadAfterFailure
  <2>2. level' \in Levels /\ info' \in [Narrow -> Nat] /\ \A k \in Narrow : k >= level' => info'[k] = 0
    BY <1>2 DEF MemoryKept
  <2> QED
    BY <1>2, <1>3, <2>1, <2>2, FailKept
<1>4. CASE /\ \E n \in Sizes : GrowsTo(Enough(writer, m + slack), n) /\
                               IF Enough(writer, m * level) <= n THEN cap' = n
                               ELSE GrowsTo(Enough(writer, m * level), cap')
           /\ mem' = Put(Clobbered(Resized(mem, cap'), writer + m, slack), writer, 1, text + 1, m)
           /\ jobs' = <<[src |-> writer, dst |-> writer, from |-> 1, to |-> level, left |-> m]>>
           /\ writer' = writer + m * level
           /\ text' = text + m /\ text' <= MaxText
           /\ pc' = "widen" /\ comma' = TRUE
           /\ head' = head /\ kind' = kind /\ blocks' = blocks
  <2>1. m \in Nat /\ 0 < m /\ m + slack \in Nat /\ m <= m + slack /\ slack \in Nat
    BY Tokens, BoundsAssumption
  <2>2. level \in {2, 4} /\ Width(level) = level /\ writer \in Nat
    BY <1>2, PlaceIsNat DEF Width, Levels
  <2>3. /\ cap' \in Nat /\ cap <= cap' /\ writer + (m + slack) <= cap' /\ writer + m * level <= cap'
    <3>1. PICK n \in Sizes : GrowsTo(Enough(writer, m + slack), n) /\
                               IF Enough(writer, m * level) <= n THEN cap' = n
                               ELSE GrowsTo(Enough(writer, m * level), cap')
      BY <1>4
    <3>2. writer + (m + slack) \in Nat /\ m * level \in Nat /\ writer + m * level \in Nat
      BY <2>1, <2>2
    <3>3. n \in Nat /\ cap <= n /\ writer + (m + slack) <= n
      BY <1>2, <3>1, <3>2, Grown DEF Enough
    <3>4. CASE writer + m * level <= n
      BY <3>1, <3>3, <3>4 DEF Enough
    <3>5. CASE ~(writer + m * level <= n)
      <4>1. cap' \in Nat /\ cap <= cap' /\ writer + m * level <= cap'
        BY <1>2, <3>1, <3>2, <3>5, Grown DEF Enough
      <4> QED
        BY <3>2, <3>3, <3>5, <4>1
    <3> QED
      BY <3>4, <3>5
  <2>4. mem' = Token(mem, cap', writer, 1, text + 1, m + slack, m)
    <3>1. m * 1 = m /\ ((m + slack) - m) * 1 = slack
      BY <2>1
    <3> QED
      BY <1>4, <3>1 DEF Token
  <2>5. writer' = Place(level, text + m) /\ writer' \in Nat /\ writer' <= cap' /\ text' \in Nat
    BY <1>2, <1>4, <2>1, <2>2, <2>3, PlaceMoves, PlaceIsNat
  <2>6. MemoryKept'
    <3>1. Memory(mem, cap) /\ cap \in Int /\ 1 \in {1, 2, 4} /\ text + 1 \in Nat
      BY <1>2 DEF Memory, MemoryKept
    <3>2. Memory(mem', cap')
      BY <2>1, <2>2, <2>3, <2>4, <3>1, MemoryToken
    <3> QED
      BY <1>2, <1>4, <2>3, <2>5, <3>2 DEF Memory, MemoryKept
  <2>7. ASSUME NEW i \in 1 .. text PROVE Settled(i)'
    <3>1. Settled(i) /\ i \in Nat \ {0} /\ i <= text
      BY <1>2 DEF WalkKept
    <3>2. ASSUME NEW a \in Nat, NEW v \in Nat, Holds(mem, a, v, i), a + v <= Place(level, text)
          PROVE  Holds(mem', a, v, i)
      <4>1. a + v <= writer /\ a + v <= cap' /\ 1 \in {1, 2, 4} /\ text + 1 \in Nat
        BY <1>2, <2>1, <2>2, <2>3, <3>2
      <4> QED
        BY <2>1, <2>2, <2>3, <2>4, <3>2, <4>1, TokenKeeps
    <3> QED
      BY <1>2, <3>1, <3>2, SettledStays
  <2>8. ASSUME NEW i \in text + 1 .. text + m
        PROVE  Holds(mem', Place(level, text) + (i - text - 1), 1, i)
    <3> DEFINE q == i - text - 1
    <3>1. q \in 0 .. m - 1 /\ (text + 1) + q = i /\ q * 1 = q
      BY <1>2, <2>1
    <3>2. 1 \in {1, 2, 4} /\ text + 1 \in Nat /\ writer + (m + slack) * 1 <= cap'
      BY <1>2, <2>1, <2>2, <2>3
    <3> HIDE DEF q
    <3>3. Holds(mem', writer + q * 1, 1, (text + 1) + q)
      BY <2>1, <2>2, <2>3, <2>4, <3>1, <3>2, TokenHolds
    <3> QED
      BY <1>2, <3>1, <3>3 DEF q
  <2> PICK t \in Nat : t = text
    BY <1>2
  <2>9. ArrayFrom(t, m)'
    <3>1. \A i \in t + m + 1 .. text' : FALSE
      BY <1>2, <1>4, <2>1
    <3>2. jobs' = IF m = 0 THEN <<>>
                  ELSE <<[src |-> Place(level', t), dst |-> Place(level', t), from |-> 1,
                          to |-> level', left |-> m]>>
      BY <1>2, <1>4, <2>1
    <3>3. \A i \in t + 1 .. t + m : Holds(mem', Place(level', t) + (i - t - 1), 1, i)
      BY <1>2, <2>8
    <3>4. \A i \in 1 .. t : Settled(i)'
      BY <2>7
    <3> QED
      BY <3>1, <3>2, <3>3, <3>4 DEF ArrayFrom
  <2>10. Before(level)' = Before(level) /\ Before(level) \in Nat
    BY <1>2, BeforeLevel DEF Before
  <2>11. ArrayKept'
    <3>1. Before(level)' <= t /\ t + m <= text' /\ Before(level)' < text'
      BY <1>2, <1>4, <2>1, <2>10
    <3>2. level' \in {2, 4} /\ writer' = Place(level', text') /\ text \in Nat /\ m \in Nat
      BY <1>2, <1>4, <2>1, <2>2, <2>5
    <3> QED
      BY <2>5, <2>9, <3>1, <3>2 DEF ArrayKept
  <2>12. BlocksKept' /\ KindKept'
    BY <1>2, <1>4 DEF BlocksKept, KindKept
  <2> QED
    BY <1>4, <2>6, <2>11, <2>12 DEF StartKept, JobsKept, WalkKept, ResultKept, FitKept, DoneKept
<1> QED
  BY <1>1, <1>3, <1>4

-----------------------------------------------------------------------------
(* Widening. *)

LEMMA JobOf ==
    ASSUME MemoryKept, NEW k \in Narrow, k < level, NEW l \in Nat
    PROVE  /\ Elevate(k) \in Job
           /\ [Elevate(k) EXCEPT !.left = l] =
                 [src |-> Place(k, Before(k)), dst |-> Place(level, Before(k)), from |-> Width(k),
                  to |-> level, left |-> l]
           /\ [Elevate(k) EXCEPT !.left = l] \in Job
           /\ [Elevate(k) EXCEPT !.left = info[k]] = Elevate(k)
           /\ level \in {1, 2, 4} /\ Width(level) = level /\ Start(level) = CompactStart
           /\ k \in Levels /\ k <= level
<1>1. /\ level \in Levels /\ k \in Levels /\ info[k] \in Nat /\ Before(k) \in Nat
  BY BeforeIsNat DEF MemoryKept, Narrow, Levels
<1>2. level \in {1, 2, 4} /\ Width(level) = level /\ Start(level) = CompactStart /\ Width(k) \in {1, 2}
  BY <1>1 DEF Levels, Narrow, Width, Start
<1>3. Place(k, Before(k)) \in Nat /\ Place(level, Before(k)) \in Nat
  BY <1>1, PlaceIsNat
<1>4. Elevate(k) = [src |-> Place(k, Before(k)), dst |-> Place(level, Before(k)), from |-> Width(k),
                    to |-> level, left |-> info[k]]
  BY <1>2 DEF Elevate, Place
<1> QED
  BY <1>1, <1>2, <1>3, <1>4 DEF Job, Narrow, Levels

LEMMA PartsTyped ==
    ASSUME MemoryKept
    PROVE  /\ \A k \in Narrow : Part(k) \in Seq(Job) /\ After(k) \in Seq(Job)
           /\ \A k \in Narrow : k < level /\ info[k] > 0 => Part(k) = <<Elevate(k)>>
           /\ \A k \in Narrow : ~(k < level /\ info[k] > 0) => Part(k) = <<>>
<1>1. ASSUME NEW k \in Narrow PROVE Part(k) \in Seq(Job)
  <2>1. CASE k < level
    <3>1. Elevate(k) \in Job
      BY <2>1, JobOf
    <3> QED
      BY <3>1 DEF Part
  <2>2. CASE ~(k < level)
    BY <2>2 DEF Part
  <2> QED
    BY <2>1, <2>2
<1>2. ASSUME NEW k \in Narrow PROVE After(k) \in Seq(Job)
  <2>1. Part(0) \in Seq(Job) /\ Part(1) \in Seq(Job)
    BY <1>1 DEF Narrow
  <2> QED
    BY <2>1 DEF After, Narrow
<1> QED
  BY <1>1, <1>2 DEF Part

\* The widening of the part at level k and those below, when f characters end there.
LEMMA PartsFrom ==
    ASSUME MemoryKept, NEW k \in Narrow, k < level, NEW f, f = Before(k) + info[k],
           info[k] = 0 => Parts(Before(k), After(k))
    PROVE  Parts(f, Part(k) \o After(k))
<1>1. info[k] \in Nat /\ Before(k) \in Nat
  BY BeforeIsNat DEF MemoryKept, Narrow, Levels
<1>2. CASE info[k] = 0
  <2>1. Part(k) = <<>> /\ After(k) \in Seq(Job) /\ f = Before(k)
    BY <1>1, <1>2, PartsTyped
  <2>2. Part(k) \o After(k) = After(k)
    BY <2>1
  <2> QED
    BY <1>2, <2>1, <2>2
<1>3. CASE info[k] > 0
  <2>1. Part(k) = <<[Elevate(k) EXCEPT !.left = info[k]]>>
    <3>1. [Elevate(k) EXCEPT !.left = info[k]] = Elevate(k)
      BY <1>1, JobOf
    <3> QED
      BY <1>3, <3>1, PartsTyped
  <2> QED
    BY <1>1, <1>3, <2>1 DEF Parts
<1> QED
  BY <1>1, <1>2, <1>3

\* The characters before level k are widened after it.
LEMMA PartsAfter ==
    ASSUME MemoryKept, NEW k \in Narrow, k <= level
    PROVE  Parts(Before(k), After(k))
<1>1. /\ info[0] \in Nat /\ info[1] \in Nat /\ 0 \in Narrow /\ 1 \in Narrow /\ level \in Levels
      /\ Before(0) = 0 /\ Before(1) = info[0] /\ Before(2) = info[0] + info[1]
  BY DEF MemoryKept, Narrow, Before
<1>2. Parts(Before(0), After(0))
  BY <1>1 DEF Parts, After
<1>3. CASE k = 0
  BY <1>2, <1>3
<1>4. 1 <= level => Parts(Before(1), After(1))
  <2> SUFFICES ASSUME 1 <= level PROVE Parts(Before(1), After(1))
    OBVIOUS
  <2>1. 0 < level /\ Before(1) = Before(0) + info[0]
    BY <1>1 DEF Levels
  <2>2. Parts(Before(1), Part(0) \o After(0))
    BY <1>1, <1>2, <2>1, PartsFrom
  <2>3. Part(0) \o After(0) = After(1)
    <3>1. Part(0) \in Seq(Job)
      BY <1>1, PartsTyped
    <3> QED
      BY <3>1 DEF After
  <2> QED
    BY <2>2, <2>3
<1>5. CASE k = 1
  BY <1>4, <1>5
<1>6. CASE k = 2
  <2>1. 1 < level /\ 1 <= level /\ Before(2) = Before(1) + info[1]
    BY <1>1, <1>6 DEF Levels
  <2>2. Parts(Before(2), Part(1) \o After(1))
    BY <1>1, <1>4, <2>1, PartsFrom
  <2>3. Part(1) \o After(1) = After(2)
    BY DEF After
  <2> QED
    BY <1>6, <2>2, <2>3
<1> QED
  BY <1>3, <1>5, <1>6 DEF Narrow

\* All of them, in the order of `Widening'.
LEMMA PartsOfAll ==
    ASSUME MemoryKept
    PROVE  Parts(Before(level), Part(Widening[1]) \o (Part(Widening[2]) \o Part(Widening[3])))
<1>1. /\ \A k \in Narrow : info[k] \in Nat /\ (k >= level => info[k] = 0)
      /\ 0 \in Narrow /\ 1 \in Narrow /\ 2 \in Narrow /\ level \in Levels
      /\ Before(0) = 0 /\ Before(1) = info[0] /\ Before(2) = info[0] + info[1]
      /\ Before(4) = info[0] + info[1] + info[2]
  BY DEF MemoryKept, Narrow, Before
<1>2. Part(Widening[1]) \o (Part(Widening[2]) \o Part(Widening[3])) = Part(2) \o After(2)
  BY DEF Widening, After
<1>3. CASE level = 4
  <2>1. 2 < level /\ 2 <= level /\ Before(level) = Before(2) + info[2]
    BY <1>1, <1>3
  <2>2. Parts(Before(2), After(2))
    BY <1>1, <2>1, PartsAfter
  <2>3. Parts(Before(level), Part(2) \o After(2))
    BY <1>1, <2>1, <2>2, PartsFrom
  <2> QED
    BY <1>2, <2>3
<1>4. CASE level # 4
  <2>1. Part(2) = <<>> /\ After(2) \in Seq(Job)
    BY <1>1, <1>4, PartsTyped DEF Levels
  <2>2. Part(2) \o After(2) = After(2)
    BY <2>1
  <2>3. Parts(Before(level), After(2))
    <3>1. CASE level = 2
      BY <1>1, <3>1, PartsAfter
    <3>2. CASE level \in {0, 1}
      <4>1. Part(1) = <<>> /\ Part(0) \in Seq(Job)
        BY <1>1, <3>2, PartsTyped
      <4>2. After(2) = After(1) /\ After(1) = Part(0)
        BY <4>1 DEF After
      <4>3. CASE level = 1
        BY <1>1, <4>2, <4>3, PartsAfter
      <4>4. CASE level = 0
        <5>1. Part(0) = <<>>
          BY <1>1, <4>4, PartsTyped
        <5> QED
          BY <1>1, <4>2, <4>4, <5>1 DEF Parts
      <4> QED
        BY <3>2, <4>3, <4>4
    <3> QED
      BY <1>1, <1>4, <3>1, <3>2 DEF Levels
  <2> QED
    BY <1>2, <2>2, <2>3
<1> QED
  BY <1>3, <1>4

LEMMA PartsSame ==
    ASSUME level' = level, info' = info, NEW f, NEW s
    PROVE  Parts(f, s)' <=> Parts(f, s)
<1>1. \A k : /\ Before(k)' = Before(k) /\ Elevate(k)' = Elevate(k) /\ Part(k)' = Part(k)
             /\ After(k)' = After(k)
  BY DEF Before, Elevate, Part, After
<1> QED
  BY <1>1 DEF Parts

LEMMA FinishKept == ASSUME BufferInv, Finish PROVE BufferInv'
<1> USE DEF BufferInv
<1>1. /\ pc \in {"walk", "single"} /\ comma /\ pc' = "widen"
      /\ writer' = LastComma /\ text' = text - 1 /\ comma' = FALSE
      /\ jobs' = Part(Widening[1]) \o (Part(Widening[2]) \o Part(Widening[3]))
      /\ UNCHANGED <<head, cap, mem, level, info, kind, blocks>>
  BY DEF Finish
<1>2. /\ level \in Levels /\ text \in Nat /\ cap \in Nat /\ writer = Place(level, text)
      /\ writer <= cap /\ Before(level) < text /\ Before(level) \in Nat
      /\ \A i \in 1 .. text : Settled(i)
  BY <1>1, BeforeLevel DEF MemoryKept, WalkKept
<1>3. /\ text' \in Nat /\ text = text' + 1 /\ Before(level) <= text'
  BY <1>1, <1>2
<1>4. /\ writer' = Place(level, text') /\ writer' \in Nat /\ writer' + Width(level) = writer
  <2>1. Place(level, text' + 1) = Place(level, text') + 1 * Width(level)
    BY <1>2, <1>3, PlaceMoves
  <2>2. Width(level) \in Nat /\ Place(level, text') \in Nat
    BY <1>2, <1>3, Widths, PlaceIsNat
  <2> QED
    BY <1>1, <1>2, <1>3, <2>1, <2>2 DEF LastComma
<1>5. MemoryKept'
  BY <1>1, <1>3, <1>4 DEF MemoryKept
<1>6. Before(level)' = Before(level)
  BY <1>1 DEF Before
<1> PICK f \in Nat : f = Before(level)
  BY <1>2
<1> PICK s : s = jobs'
  OBVIOUS
<1>7. Parts(f, jobs)'
  <2>1. Parts(f, s)
    BY <1>1, PartsOfAll
  <2>2. Parts(f, s)'
    BY <1>1, <2>1, PartsSame
  <2> QED
    BY <2>2
<1>8. ASSUME NEW i \in 1 .. f PROVE Settled(i)'
  <2>1. Settled(i) /\ i \in Nat \ {0} /\ i <= text
    BY <1>2
  <2> QED
    BY <1>1, <1>2, <2>1, SettledStays
<1>9. ASSUME NEW i \in f + 1 .. text' PROVE Final(i)'
  <2>1. i \in 1 .. text /\ f < i
    <3>1. text' \in Nat /\ text = text' + 1
      BY <1>3
    <3>2. \A e, g \in Nat : \A x \in g + 1 .. e : x \in 1 .. e + 1 /\ g < x
      OBVIOUS
    <3> QED
      BY <1>9, <3>1, <3>2
  <2>3. Settled(i) /\ Before(level) < i
    BY <1>2, <2>1
  <2>2. InLevel(i, level)
    BY <2>3 DEF InLevel
  <2> QED
    BY <1>1, <1>2, <2>2, <2>3 DEF Settled, Final
<1>10. ResultKept'
  <2>1. ResultFrom(f)'
    BY <1>7, <1>8, <1>9 DEF ResultFrom
  <2>2. writer' + Width(level') <= cap' /\ Before(level)' <= text' /\ f <= Before(level)'
    BY <1>1, <1>2, <1>3, <1>4, <1>6
  <2> QED
    BY <1>1, <1>4, <2>1, <2>2 DEF ResultKept
<1>11. BlocksKept' /\ KindKept'
  BY <1>1 DEF BlocksKept, KindKept
<1> QED
  BY <1>1, <1>5, <1>10, <1>11 DEF StartKept, JobsKept, WalkKept, ArrayKept, FitKept, DoneKept

LEMMA WidenEndKept == ASSUME BufferInv, WidenEnd PROVE BufferInv'
<1> USE DEF BufferInv
<1>1. /\ pc = "widen" /\ jobs = <<>> /\ pc' = (IF comma THEN "walk" ELSE "fit")
      /\ UNCHANGED <<head, cap, mem, writer, level, info, jobs, comma, text, kind, blocks>>
  BY DEF WidenEnd
<1>2. MemoryKept'
  BY <1>1 DEF MemoryKept
<1>3. BlocksKept' /\ JobsKept' /\ KindKept'
  BY <1>1 DEF BlocksKept, JobsKept, KindKept
<1>4. Before(level)' = Before(level)
  BY <1>1 DEF Before
<1>5. /\ \A i : Settled(i)' <=> Settled(i)
      /\ \A i : Final(i)' <=> Final(i)
  BY <1>1 DEF Settled, Final, InLevel, Before
<1>6. CASE comma
  <2>1. PICK t \in Nat, l \in Nat : Before(level) <= t /\ t + l <= text /\ ArrayFrom(t, l)
    BY <1>1, <1>6 DEF ArrayKept
  <2>2. l = 0
    BY <1>1, <2>1 DEF ArrayFrom
  <2>3. ASSUME NEW i \in 1 .. text PROVE Settled(i)
    <3>1. CASE i <= t
      BY <2>1, <3>1 DEF ArrayFrom
    <3>2. CASE ~(i <= t)
      <4>1. text \in Nat /\ i \in Nat \ {0} /\ i \in t + l + 1 .. text
        BY <2>1, <2>2, <3>2 DEF MemoryKept
      <4>2. Final(i)
        BY <2>1, <4>1 DEF ArrayFrom
      <4>3. Before(level) \in Nat /\ ~(i <= Before(level))
        BY <2>1, <3>2, BeforeLevel
      <4>4. ASSUME NEW k \in Levels, InLevel(i, k) PROVE k = level
        BY <4>1, <4>3, <4>4, LevelBounds
      <4> QED
        BY <4>2, <4>4 DEF Settled, Final
    <3> QED
      BY <3>1, <3>2
  <2>4. WalkKept'
    <3>1. writer = Place(level, text) /\ writer <= cap /\ Before(level) < text /\ Before(level) \in Nat
          /\ text \in Nat
      BY <1>1, <1>6, BeforeLevel DEF ArrayKept, MemoryKept
    <3>2. Before(level) <= text
      BY <3>1
    <3> QED
      BY <1>1, <1>4, <1>5, <2>3, <3>1, <3>2 DEF WalkKept
  <2> QED
    BY <1>1, <1>2, <1>3, <1>6, <2>4 DEF StartKept, ArrayKept, ResultKept, FitKept, DoneKept
<1>7. CASE ~comma
  <2>1. PICK f \in Nat : f <= Before(level) /\ ResultFrom(f)
    BY <1>1, <1>7 DEF ResultKept
  <2>2. f = 0
    <3>1. Parts(f, <<>>)
      BY <1>1, <2>1 DEF ResultFrom
    <3>2. ASSUME NEW k \in Narrow, NEW l \in Nat, k < level,
                 <<>> = <<[Elevate(k) EXCEPT !.left = l]>> \o After(k)
          PROVE  FALSE
      <4>1. [Elevate(k) EXCEPT !.left = l] \in Job /\ After(k) \in Seq(Job)
        BY <3>2, JobOf, PartsTyped
      <4> DEFINE x == [Elevate(k) EXCEPT !.left = l]
      <4>2. <<x>> \in Seq(Job) /\ <<x>> # <<>> /\ After(k) \in Seq(Job)
        BY <4>1
      <4> HIDE DEF x
      <4>3. <<x>> \o After(k) # <<>>
        BY <4>2, ConcatEqualIffEmpty
      <4> QED
        BY <3>2, <4>3 DEF x
    <3> QED
      BY <3>1, <3>2 DEF Parts
  <2>3. \A i \in 1 .. text : Final(i)
    BY <2>1, <2>2 DEF ResultFrom
  <2>4. FitKept'
    BY <1>1, <1>5, <1>7, <2>3 DEF FitKept, ResultKept
  <2> QED
    BY <1>1, <1>2, <1>3, <1>7, <2>4 DEF StartKept, WalkKept, ArrayKept, ResultKept, DoneKept
<1> QED
  BY <1>6, <1>7

\* A step of long_back_cvt, for the first job of the list.
LEMMA WidenStep ==
    ASSUME Head(jobs) \in Job, Widen
    PROVE  LET j == Head(jobs)
           IN  /\ pc = "widen" /\ jobs # <<>>
               /\ UNCHANGED <<pc, head, cap, writer, level, info, comma, text, kind, blocks>>
               /\ \E n \in IF j.from = j.to THEN {j.left} ELSE 1 .. j.left :
                     /\ mem' = Widened(mem, j.src + (j.left - n) * j.from,
                                       j.dst + (j.left - n) * j.to, j.from, j.to, n)
                     /\ jobs' = (IF j.left - n = 0 THEN <<>> ELSE <<[j EXCEPT !.left = j.left - n]>>)
                                \o Tail(jobs)
<1> DEFINE j == Head(jobs)
<1>1. \A n : /\ Batch(j, n).src = j.src + (j.left - n) * j.from
             /\ Batch(j, n).dst = j.dst + (j.left - n) * j.to
             /\ Batch(j, n).rest = [j EXCEPT !.left = j.left - n]
  BY DEF Batch
<1>2. PICK n \in IF j.from = j.to THEN {j.left} ELSE 1 .. j.left :
         /\ mem' = Widened(mem, Batch(j, n).src, Batch(j, n).dst, j.from, j.to, n)
         /\ jobs' = (IF Batch(j, n).rest.left = 0 THEN <<>> ELSE <<Batch(j, n).rest>>) \o Tail(jobs)
  BY DEF Widen
<1>3. [j EXCEPT !.left = j.left - n].left = j.left - n
  BY DEF Job
<1> QED
  BY <1>1, <1>2, <1>3 DEF Widen

\* Characters of the buffer that are widened to its level.
LEMMA WidenedToLevel ==
    ASSUME NEW at \in Nat, NEW dst \in Nat, NEW w \in {1, 2, 4}, level \in {1, 2, 4}, NEW n \in Nat,
           NEW c \in Nat \ {0}, Row(mem, at, w, c, n), Room(mem, dst, level, n)
    PROVE  Row(Widened(mem, at, dst, w, level, n), dst, level, c, n)
  BY WidenedRow

\* n characters of width w, at `at', are widened to the places of the result: those
\* behind the first p.
LEMMA WidenMoves ==
    ASSUME BufferInv, level # 0, UNCHANGED <<cap, level, info, text, writer, kind, comma>>,
           NEW at \in Nat, NEW w \in {1, 2, 4}, NEW p \in Nat, NEW n \in Nat,
           mem' = Widened(mem, at, Place(level, p), w, level, n),
           p + n <= text, Place(level, text) <= cap,
           Row(mem, at, w, p + 1, n)
    PROVE  /\ MemoryKept'
           /\ \A i \in p + 1 .. p + n : Final(i)'
           /\ \A i \in Nat \ {0} : i <= p /\ Settled(i) => Settled(i)'
           /\ \A i \in Nat \ {0} : p + n < i /\ Final(i) => Final(i)'
           /\ \A i : \A a \in Nat, v \in Nat :
                 Holds(mem, a, v, i) /\ a + v <= Place(level, p) => Holds(mem', a, v, i)
<1> USE DEF BufferInv
<1>1. /\ level \in Levels /\ level \in {1, 2, 4} /\ Width(level) = level
      /\ text \in Nat /\ cap \in Nat /\ p + n \in Nat
  BY DEF MemoryKept, Levels, Width
<1> DEFINE dst == Place(level, p)
<1>2. /\ dst \in Nat /\ dst + n * level = Place(level, p + n) /\ Place(level, p + n) \in Nat
      /\ Place(level, p + n) <= cap
  <2>1. Place(level, p + n) <= Place(level, text)
    BY <1>1, PlaceGrows DEF Levels
  <2>2. Place(level, p + n) \in Nat /\ Place(level, text) \in Nat
    BY <1>1, PlaceIsNat
  <2> QED
    BY <1>1, <2>1, <2>2, PlaceMoves, PlaceIsNat, SMTT(30)
<1>3. MemoryKept'
  <2>1. Memory(mem, cap) /\ cap \in Int
    BY <1>1 DEF Memory, MemoryKept
  <2>2. Memory(mem', cap)
    BY <1>1, <1>2, <2>1, MemoryWidened
  <2> QED
    BY <2>2 DEF Memory, MemoryKept
<1>4. ASSUME NEW i, NEW a \in Nat, NEW v \in Nat, Holds(mem, a, v, i),
             a + v <= dst \/ Place(level, p + n) <= a
      PROVE  Holds(mem', a, v, i)
  <2>1. a + v <= dst \/ dst + n * level <= a
    BY <1>2, <1>4
  <2>2. dst \in Int /\ level \in Int /\ n \in Int /\ a \in Int
    BY <1>1, <1>2
  <2> QED
    BY <1>4, <2>1, <2>2, WidenedKeeps
<1>5. ASSUME NEW i \in Nat \ {0}, i <= p, Settled(i) PROVE Settled(i)'
  <2>1. \A a \in Nat, v \in Nat :
           Holds(mem, a, v, i) /\ a + v <= Place(level, p) => Holds(mem', a, v, i)
    BY <1>4
  <2> QED
    BY <1>5, <2>1, SettledStays
<1>6. ASSUME NEW i \in Nat \ {0}, p + n < i, Final(i) PROVE Final(i)'
  <2>1. \A a \in Nat, v \in Nat :
           Holds(mem, a, v, i) /\ Place(level, p + n) <= a => Holds(mem', a, v, i)
    BY <1>4
  <2> QED
    BY <1>1, <1>6, <2>1, FinalStays
<1>7. ASSUME NEW i \in p + 1 .. p + n PROVE Final(i)'
  <2> DEFINE q == i - (p + 1)
  <2>1. q \in 0 .. n - 1 /\ p + 1 + q = i /\ p + q = i - 1 /\ p + 1 \in Nat \ {0}
    OBVIOUS
  <2>2. DOMAIN mem = 0 .. cap - 1
    BY DEF MemoryKept
  <2> HIDE DEF q
  <2>3. Room(mem, dst, level, n)
    BY <1>1, <1>2, <2>2, SMTT(30) DEF Room
  <2>4. Place(level, p + q) = dst + q * level
    <3>1. q \in Nat
      BY <2>1
    <3>2. Place(level, p + q) = Place(level, p) + q * Width(level)
      BY <1>1, <3>1, PlaceMoves
    <3> QED
      BY <1>1, <3>2
  <2>5. Row(mem', dst, level, p + 1, n)
    <3> DEFINE c == p + 1
    <3>1. c \in Nat \ {0} /\ dst \in Nat /\ Row(mem, at, w, c, n) /\ Room(mem, dst, level, n)
          /\ mem' = Widened(mem, at, dst, w, level, n)
      BY <1>2, <2>3
    <3> HIDE DEF c, dst
    <3>2. Row(Widened(mem, at, dst, w, level, n), dst, level, c, n)
      BY <1>1, <3>1, WidenedToLevel
    <3> QED
      BY <3>1, <3>2 DEF c
  <2>6. Holds(mem', dst + q * level, level, p + 1 + q)
    BY <2>1, <2>5 DEF Row
  <2> QED
    BY <1>1, <2>1, <2>4, <2>6 DEF Final
<1> QED
  BY <1>3, <1>4, <1>5, <1>6, <1>7

\* A batch of an array.
LEMMA WidenArrayKept == ASSUME BufferInv, Widen, comma PROVE BufferInv'
<1> USE DEF BufferInv
<1>1. pc = "widen" /\ jobs # <<>>
  BY DEF Widen
<1>2. /\ level \in {2, 4} /\ level \in Levels /\ level # 0 /\ Width(level) = level
      /\ writer = Place(level, text) /\ writer <= cap /\ Before(level) < text
      /\ text \in Nat /\ Before(level) \in Nat
  BY <1>1, BeforeLevel DEF ArrayKept, MemoryKept, Width
<1> PICK t \in Nat, l \in Nat : Before(level) <= t /\ t + l <= text /\ ArrayFrom(t, l)
  BY <1>1 DEF ArrayKept
<1>3. l # 0 /\ jobs = <<[src |-> Place(level, t), dst |-> Place(level, t), from |-> 1,
                         to |-> level, left |-> l]>>
  BY <1>1 DEF ArrayFrom
<1> DEFINE j == [src |-> Place(level, t), dst |-> Place(level, t), from |-> 1, to |-> level, left |-> l]
<1>4. Place(level, t) \in Nat
  BY <1>2, PlaceIsNat
<1>5. j \in Job /\ Head(jobs) = j /\ Tail(jobs) = <<>>
  BY <1>2, <1>3, <1>4 DEF Job
<1>6. /\ UNCHANGED <<pc, head, cap, writer, level, info, comma, text, kind, blocks>>
      /\ \E n \in 1 .. l :
            /\ mem' = Widened(mem, Place(level, t) + (l - n) * 1,
                              Place(level, t) + (l - n) * level, 1, level, n)
            /\ jobs' = (IF l - n = 0 THEN <<>> ELSE <<[j EXCEPT !.left = l - n]>>) \o <<>>
  <2>1. /\ j.src = Place(level, t) /\ j.dst = Place(level, t) /\ j.from = 1 /\ j.to = level
        /\ j.left = l /\ j.from # j.to
    BY <1>2
  <2> HIDE DEF j
  <2>2. /\ UNCHANGED <<pc, head, cap, writer, level, info, comma, text, kind, blocks>>
        /\ \E n \in IF j.from = j.to THEN {j.left} ELSE 1 .. j.left :
              /\ mem' = Widened(mem, j.src + (j.left - n) * j.from,
                                j.dst + (j.left - n) * j.to, j.from, j.to, n)
              /\ jobs' = (IF j.left - n = 0 THEN <<>> ELSE <<[j EXCEPT !.left = j.left - n]>>)
                         \o Tail(jobs)
    BY <1>5, WidenStep
  <2> QED
    BY <1>5, <2>1, <2>2
<1> PICK n \in 1 .. l :
            /\ mem' = Widened(mem, Place(level, t) + (l - n) * 1,
                              Place(level, t) + (l - n) * level, 1, level, n)
            /\ jobs' = (IF l - n = 0 THEN <<>> ELSE <<[j EXCEPT !.left = l - n]>>) \o <<>>
  BY <1>6
<1> PICK r \in Nat : r = l - n
  OBVIOUS
<1> PICK p \in Nat : p = t + r
  OBVIOUS
<1>7. n \in Nat /\ l = r + n /\ p + n = t + l
  OBVIOUS
<1>8. Place(level, t) + (l - n) * level = Place(level, p)
  BY <1>2, PlaceMoves
<1>9. Place(level, t) + (l - n) * 1 = Place(level, t) + r /\ Place(level, t) + r \in Nat
      /\ Place(level, t) + r <= Place(level, p)
  <2>1. r * level \in Nat /\ r <= r * level
    BY <1>2
  <2> QED
    BY <1>4, <1>8, <2>1
<1>10. Row(mem, Place(level, t) + r, 1, p + 1, n)
  <2> SUFFICES ASSUME NEW q \in 0 .. n - 1 PROVE Holds(mem, Place(level, t) + r + q * 1, 1, p + 1 + q)
    BY DEF Row
  <2>1. p + 1 + q \in t + 1 .. t + l
    BY <1>7
  <2>2. Place(level, t) + ((p + 1 + q) - t - 1) = Place(level, t) + r + q * 1
    BY <1>4
  <2> QED
    BY <2>1, <2>2 DEF ArrayFrom
<1>11. /\ MemoryKept'
       /\ \A i \in p + 1 .. p + n : Final(i)'
       /\ \A i \in Nat \ {0} : i <= p /\ Settled(i) => Settled(i)'
       /\ \A i \in Nat \ {0} : p + n < i /\ Final(i) => Final(i)'
       /\ \A i : \A a \in Nat, v \in Nat :
             Holds(mem, a, v, i) /\ a + v <= Place(level, p) => Holds(mem', a, v, i)
  BY <1>2, <1>6, <1>7, <1>8, <1>9, <1>10, WidenMoves, SMTT(30)
<1>12. ArrayFrom(t, r)'
  <2>1. ASSUME NEW i \in 1 .. t PROVE Settled(i)'
    BY <1>11 DEF ArrayFrom
  <2>2. ASSUME NEW i \in t + 1 .. t + r PROVE Holds(mem', Place(level, t) + (i - t - 1), 1, i)
    <3>1. Holds(mem, Place(level, t) + (i - t - 1), 1, i)
      BY <1>7 DEF ArrayFrom
    <3>2. Place(level, t) + (i - t - 1) \in Nat
          /\ Place(level, t) + (i - t - 1) + 1 <= Place(level, p)
      <4>1. Place(level, p) \in Nat
        BY <1>2, PlaceIsNat
      <4> QED
        BY <1>4, <1>9, <4>1
    <3> QED
      BY <1>11, <3>1, <3>2
  <2>3. ASSUME NEW i \in t + r + 1 .. text PROVE Final(i)'
    <3>1. CASE i <= p + n
      BY <1>2, <1>11, <3>1
    <3>2. CASE ~(i <= p + n)
      <4>1. i \in Nat \ {0} /\ p + n < i /\ i \in t + l + 1 .. text
        BY <1>2, <1>7, <3>2
      <4> QED
        BY <1>11, <4>1 DEF ArrayFrom
    <3> QED
      BY <3>1, <3>2
  <2>4. jobs' = IF r = 0 THEN <<>>
                ELSE <<[src |-> Place(level, t), dst |-> Place(level, t), from |-> 1,
                        to |-> level, left |-> r]>>
    <3>1. [j EXCEPT !.left = l - n] =
             [src |-> Place(level, t), dst |-> Place(level, t), from |-> 1, to |-> level, left |-> r]
      OBVIOUS
    <3>2. [j EXCEPT !.left = l - n] \in Job
      BY <1>5 DEF Job
    <3>3. <<[j EXCEPT !.left = l - n]>> \o <<>> = <<[j EXCEPT !.left = l - n]>>
      BY <3>2
    <3> QED
      BY <3>1, <3>3
  <2>5. Place(level, t)' = Place(level, t)
    BY <1>6 DEF Place
  <2> QED
    BY <1>6, <2>1, <2>2, <2>3, <2>4, <2>5 DEF ArrayFrom
<1>13. ArrayKept'
  <2>1. Before(level)' = Before(level) /\ Place(level, text)' = Place(level, text)
    BY <1>6 DEF Before, Place
  <2>2. t + r <= text
    BY <1>2, <1>7
  <2> QED
    BY <1>2, <1>6, <1>12, <2>1, <2>2 DEF ArrayKept
<1>14. BlocksKept' /\ KindKept'
  BY <1>6 DEF BlocksKept, KindKept
<1> QED
  BY <1>1, <1>6, <1>11, <1>13, <1>14
     DEF StartKept, JobsKept, WalkKept, ResultKept, FitKept, DoneKept

\* What is left of the list of widenings when the first has n characters less.
LEMMA PartsLess ==
    ASSUME MemoryKept, NEW k \in Narrow, k < level, NEW l \in Nat, l <= info[k], NEW r \in Nat, r < l,
           NEW s, s = (IF r = 0 THEN <<>> ELSE <<[[Elevate(k) EXCEPT !.left = l] EXCEPT !.left = r]>>)
                      \o After(k)
    PROVE  Parts(Before(k) + r, s)
<1>1. /\ k \in Levels /\ k <= level /\ info[k] \in Nat /\ level \in Levels /\ Before(k) \in Nat
      /\ After(k) \in Seq(Job)
  <2>1. k \in Levels /\ level \in Levels /\ info[k] \in Nat
    BY DEF MemoryKept, Narrow, Levels
  <2>2. k <= level
    BY <2>1 DEF Levels
  <2> QED
    BY <2>1, <2>2, BeforeIsNat, PartsTyped
<1>2. CASE r = 0
  <2>1. s = After(k) /\ Before(k) + r = Before(k)
    BY <1>1, <1>2
  <2> QED
    BY <1>1, <2>1, PartsAfter
<1>3. CASE r # 0
  <2>1. [[Elevate(k) EXCEPT !.left = l] EXCEPT !.left = r] = [Elevate(k) EXCEPT !.left = r]
    BY DEF Elevate
  <2>2. 0 < r /\ r <= info[k]
    BY <1>1, <1>3
  <2>3. s = <<[Elevate(k) EXCEPT !.left = r]>> \o After(k)
    BY <1>3, <2>1
  <2> QED
    BY <2>2, <2>3 DEF Parts
<1> QED
  BY <1>2, <1>3

\* A batch of the result.
LEMMA WidenResultKept == ASSUME BufferInv, Widen, ~comma PROVE BufferInv'
<1> USE DEF BufferInv
<1>1. pc = "widen" /\ jobs # <<>>
  BY DEF Widen
<1>2. /\ writer = Place(level, text) /\ writer + Width(level) <= cap /\ Before(level) <= text
      /\ text \in Nat /\ cap \in Nat /\ level \in Levels /\ Before(level) \in Nat
  BY <1>1, BeforeLevel DEF ResultKept, MemoryKept
<1>3. PICK f \in Nat : f <= Before(level) /\ ResultFrom(f)
  BY <1>1 DEF ResultKept
<1>4. /\ \A i \in 1 .. f : Settled(i)
      /\ \A i \in f + 1 .. text : Final(i)
      /\ Parts(f, jobs)
  BY <1>3 DEF ResultFrom
<1>5. PICK k \in Narrow, l \in Nat :
          /\ k < level /\ 0 < l /\ l <= info[k] /\ f = Before(k) + l
          /\ jobs = <<[Elevate(k) EXCEPT !.left = l]>> \o After(k)
  BY <1>1, <1>4 DEF Parts
<1>6. 0 < l /\ l <= info[k] /\ f = Before(k) + l
  BY <1>5
<1>7. PICK b \in Nat : b = Before(k)
  <2>1. k \in Levels
    BY DEF Narrow, Levels
  <2> QED
    BY <2>1, BeforeIsNat
<1> DEFINE j == [Elevate(k) EXCEPT !.left = l]
<1>8. /\ j = [src |-> Place(k, b), dst |-> Place(level, b), from |-> Width(k), to |-> level, left |-> l]
      /\ j \in Job /\ level \in {1, 2, 4} /\ level # 0 /\ Width(level) = level /\ k \in Levels
      /\ k <= level /\ After(k) \in Seq(Job) /\ Width(k) \in {1, 2, 4}
  BY <1>5, <1>7, JobOf, PartsTyped, Widths
<1>9. Head(jobs) = j /\ Tail(jobs) = After(k)
  <2>1. jobs = <<j>> \o After(k)
    BY <1>5
  <2> HIDE DEF j
  <2> QED
    BY <1>8, <2>1
<1>10. /\ UNCHANGED <<pc, head, cap, writer, level, info, comma, text, kind, blocks>>
       /\ \E n \in 1 .. l :
             /\ mem' = Widened(mem, Place(k, b) + (l - n) * Width(k),
                               Place(level, b) + (l - n) * level, Width(k), level, n)
             /\ jobs' = (IF l - n = 0 THEN <<>> ELSE <<[j EXCEPT !.left = l - n]>>) \o After(k)
  <2>1. /\ j.src = Place(k, b) /\ j.dst = Place(level, b) /\ j.from = Width(k) /\ j.to = level
        /\ j.left = l
    BY <1>8
  <2> HIDE DEF j
  <2>2. /\ UNCHANGED <<pc, head, cap, writer, level, info, comma, text, kind, blocks>>
        /\ \E n \in IF j.from = j.to THEN {j.left} ELSE 1 .. j.left :
              /\ mem' = Widened(mem, j.src + (j.left - n) * j.from,
                                j.dst + (j.left - n) * j.to, j.from, j.to, n)
              /\ jobs' = (IF j.left - n = 0 THEN <<>> ELSE <<[j EXCEPT !.left = j.left - n]>>)
                         \o Tail(jobs)
    BY <1>8, <1>9, WidenStep
  <2>3. \A n \in IF j.from = j.to THEN {j.left} ELSE 1 .. j.left : n \in 1 .. l
    BY <1>6, <2>1
  <2> QED
    BY <1>9, <2>1, <2>2, <2>3
<1>11. PICK n \in 1 .. l :
            /\ mem' = Widened(mem, Place(k, b) + (l - n) * Width(k),
                              Place(level, b) + (l - n) * level, Width(k), level, n)
            /\ jobs' = (IF l - n = 0 THEN <<>> ELSE <<[j EXCEPT !.left = l - n]>>) \o After(k)
  BY <1>10
<1> PICK r \in Nat : r = l - n
  OBVIOUS
<1> PICK p \in Nat : p = b + r
  OBVIOUS
<1>12. n \in Nat /\ r < l /\ b + l = f /\ p + n = f /\ f <= text /\ p + n <= text
  BY <1>2, <1>3, <1>7, <1>6
<1>13. /\ Place(k, b) + (l - n) * Width(k) = Place(k, p) /\ Place(k, p) \in Nat
       /\ Place(level, b) + (l - n) * level = Place(level, p)
  <2>1. Place(k, b + r) = Place(k, b) + r * Width(k) /\ Place(k, b + r) \in Nat
    BY <1>8, PlaceMoves, PlaceIsNat
  <2>2. Place(level, b + r) = Place(level, b) + r * Width(level)
    BY <1>2, PlaceMoves
  <2> QED
    BY <1>8, <2>1, <2>2
<1>14. Row(mem, Place(k, p), Width(k), p + 1, n)
  <2> SUFFICES ASSUME NEW q \in 0 .. n - 1
               PROVE  Holds(mem, Place(k, p) + q * Width(k), Width(k), p + 1 + q)
    BY DEF Row
  <2> PICK i \in Nat \ {0} : i = p + 1 + q
    OBVIOUS
  <2>1. i \in 1 .. f /\ b < i /\ i <= b + l /\ p + q = i - 1 /\ q \in Nat
    BY <1>12
  <2>2. InLevel(i, k)
    <3>1. info[k] \in Nat
      BY DEF MemoryKept
    <3> QED
      BY <1>7, <1>6, <2>1, <3>1 DEF InLevel
  <2>3. Holds(mem, Place(k, i - 1), Width(k), i)
    BY <1>4, <1>8, <2>1, <2>2 DEF Settled
  <2>4. Place(k, p + q) = Place(k, p) + q * Width(k)
    BY <1>8, <2>1, PlaceMoves
  <2> QED
    BY <2>1, <2>3, <2>4
<1>15. /\ MemoryKept'
       /\ \A i \in p + 1 .. p + n : Final(i)'
       /\ \A i \in Nat \ {0} : i <= p /\ Settled(i) => Settled(i)'
       /\ \A i \in Nat \ {0} : p + n < i /\ Final(i) => Final(i)'
  <2>1. Place(level, text) <= cap
    <3>1. Place(level, text) \in Nat
      BY <1>2, PlaceIsNat
    <3> QED
      BY <1>2, <1>8, <3>1, SMTT(30)
  <2>2. mem' = Widened(mem, Place(k, p), Place(level, p), Width(k), level, n)
    BY <1>13, <1>11
  <2>3. UNCHANGED <<cap, level, info, text, writer, kind, comma>> /\ Place(k, p) \in Nat
    BY <1>10, <1>13
  <2> QED
    BY <1>8, <1>12, <1>14, <2>1, <2>2, <2>3, WidenMoves, SMTT(30)
<1>16. ResultFrom(p)'
  <2>1. ASSUME NEW i \in 1 .. p PROVE Settled(i)'
    BY <1>4, <1>12, <1>15
  <2>2. ASSUME NEW i \in p + 1 .. text PROVE Final(i)'
    <3>1. CASE i <= p + n
      BY <1>2, <1>15, <3>1
    <3>2. CASE ~(i <= p + n)
      <4>1. i \in Nat \ {0} /\ p + n < i /\ i \in f + 1 .. text
        BY <1>2, <1>12, <3>2
      <4> QED
        BY <1>4, <1>15, <4>1
    <3> QED
      BY <3>1, <3>2
  <2>3. Parts(p, jobs)'
    <3> PICK s : s = jobs'
      OBVIOUS
    <3>1. Parts(Before(k) + r, s)
      BY <1>5, <1>11, <1>12, PartsLess
    <3>2. Parts(p, s)'
      BY <1>7, <1>10, <3>1, PartsSame
    <3> QED
      BY <3>2
  <2> QED
    BY <1>10, <2>1, <2>2, <2>3 DEF ResultFrom
<1>17. ResultKept'
  <2>1. Before(level)' = Before(level) /\ Place(level, text)' = Place(level, text)
        /\ Width(level)' = Width(level)
    BY <1>10 DEF Before, Place
  <2>2. p <= Before(level)
    BY <1>2, <1>3, <1>12
  <2> QED
    BY <1>2, <1>10, <1>16, <2>1, <2>2 DEF ResultKept
<1>18. BlocksKept' /\ KindKept'
  BY <1>10 DEF BlocksKept, KindKept
<1> QED
  BY <1>1, <1>10, <1>15, <1>17, <1>18
     DEF StartKept, JobsKept, WalkKept, ArrayKept, FitKept, DoneKept

LEMMA BufferInvNext == ASSUME BufferInv, [Next]_vars PROVE BufferInv'
<1>1. CASE UNCHANGED vars
  <2>1. UNCHANGED <<pc, head, cap, mem, writer, level, info, jobs, comma, text, kind, blocks>>
    BY <1>1 DEF vars
  <2>2. /\ \A i : Settled(i)' <=> Settled(i)
        /\ \A i : Final(i)' <=> Final(i)
    BY <2>1 DEF Settled, Final, InLevel, Before
  <2>3. /\ Before(level)' = Before(level) /\ Place(level, text)' = Place(level, text)
        /\ Place(level, text + 1)' = Place(level, text + 1)
        /\ \A t : Place(level, t)' = Place(level, t)
    BY <2>1 DEF Before, Place
  <2>4. ArrayKept'
    <3>1. \A t \in Nat, l \in Nat : ArrayFrom(t, l)' <=> ArrayFrom(t, l)
      BY <2>1, <2>2, <2>3 DEF ArrayFrom
    <3> QED
      BY <2>1, <2>3, <3>1 DEF BufferInv, ArrayKept
  <2>5. ResultKept'
    <3>1. \A f \in Nat : ResultFrom(f)' <=> ResultFrom(f)
      <4>1. ASSUME NEW f \in Nat PROVE Parts(f, jobs)' <=> Parts(f, jobs)
        <5> PICK s : s = jobs
          OBVIOUS
        <5>1. Parts(f, s)' <=> Parts(f, s)
          BY <2>1, PartsSame
        <5> QED
          BY <2>1, <5>1
      <4> QED
        BY <2>1, <2>2, <4>1 DEF ResultFrom
    <3> QED
      BY <2>1, <2>3, <3>1 DEF BufferInv, ResultKept
  <2>6. WalkKept' /\ FitKept' /\ DoneKept'
    BY <2>1, <2>2, <2>3 DEF BufferInv, WalkKept, FitKept, DoneKept
  <2> QED
    BY <2>1, <2>4, <2>5, <2>6 DEF BufferInv, MemoryKept, StartKept, JobsKept, KindKept, BlocksKept
<1>2. CASE Widen
  BY <1>2, WidenArrayKept, WidenResultKept
<1>3. CASE Returned
  BY <1>1, <1>3 DEF Returned
<1> QED
  BY <1>1, <1>2, <1>3, AllocatesKept, NoBufferKept, AppendStrKept, AppendSingleKept, AppendOtherKept,
     IntReserveFailsKept, CloseKept, AppendNdarrayKept, FinishKept, WidenEndKept, FitStepKept,
     FreeBufferKept DEF Next

LEMMA BufferInvInit == ASSUME Init PROVE BufferInv
<1>1. MemoryKept
  <2>1. mem \in [0 .. cap - 1 -> Byte]
    BY DEF Init
  <2> QED
    BY <2>1 DEF Init, MemoryKept, Levels, Narrow
<1> QED
  BY <1>1 DEF Init, BufferInv, StartKept, JobsKept, KindKept, BlocksKept, WalkKept, ArrayKept,
              ResultKept, FitKept, DoneKept

LEMMA BufferInvHolds == Spec => []BufferInv
  BY BufferInvInit, BufferInvNext, PTL DEF Spec

-----------------------------------------------------------------------------
(* What the invariant says. *)

\* The widenings that stay inside the buffer.
InsideJob == {j \in Job : j.dst + j.left * j.to <= cap}

\* A widening to the places of the first i characters of the buffer's level.
LEMMA JobInside ==
    ASSUME MemoryKept, level \in {1, 2, 4}, Place(level, text) <= cap, NEW b \in Nat, NEW l \in Nat, b + l <= text,
           NEW j \in Job, j.dst = Place(level, b), j.to = level, j.left = l
    PROVE  j.dst + j.left * j.to <= cap
<1>1. level \in Levels /\ text \in Nat /\ cap \in Nat /\ Width(level) = level
  BY DEF MemoryKept, Levels, Width
<1>2. Place(level, b + l) = Place(level, b) + l * Width(level)
  BY <1>1, PlaceMoves
<1>3. Place(level, b + l) <= Place(level, text) /\ Place(level, b + l) \in Nat
      /\ Place(level, text) \in Nat
  <2>1. level <= level /\ b + l \in Nat
    BY <1>1 DEF Levels
  <2> QED
    BY <1>1, <2>1, PlaceGrows, PlaceIsNat
<1> QED
  BY <1>1, <1>2, <1>3

LEMMA PartsInside ==
    ASSUME MemoryKept, level \in {1, 2, 4}, Place(level, text) <= cap, Before(level) <= text,
           NEW f, NEW s, Parts(f, s)
    PROVE  s \in Seq(InsideJob)
<1>1. ASSUME NEW k \in Narrow, k < level, NEW l \in Nat, l <= info[k]
      PROVE  [Elevate(k) EXCEPT !.left = l] \in InsideJob
  <2>1. /\ [Elevate(k) EXCEPT !.left = l].dst = Place(level, Before(k))
        /\ [Elevate(k) EXCEPT !.left = l].to = level
        /\ [Elevate(k) EXCEPT !.left = l].left = l
        /\ [Elevate(k) EXCEPT !.left = l] \in Job
    <3>1. /\ [Elevate(k) EXCEPT !.left = l] \in Job
          /\ [Elevate(k) EXCEPT !.left = l] =
                [src |-> Place(k, Before(k)), dst |-> Place(level, Before(k)), from |-> Width(k),
                 to |-> level, left |-> l]
      BY <1>1, JobOf
    <3> QED
      BY <3>1
  <2>2. Before(k) + info[k] <= Before(level) /\ Before(k) \in Nat /\ info[k] \in Nat
        /\ Before(level) \in Nat /\ text \in Nat
    BY <1>1, SMTT(30) DEF MemoryKept, Before, Narrow, Levels
  <2>3. Before(k) + l <= text
    BY <1>1, <2>2
  <2> QED
    BY <2>1, <2>2, <2>3, JobInside DEF InsideJob
<1>2. ASSUME NEW k \in Narrow PROVE Part(k) \in Seq(InsideJob)
  <2>1. CASE k < level /\ info[k] > 0
    <3>1. info[k] \in Nat /\ info[k] <= info[k]
      BY DEF MemoryKept
    <3>2. Elevate(k) \in InsideJob
      BY <1>1, <2>1, <3>1, JobOf
    <3>3. Part(k) = <<Elevate(k)>>
      BY <2>1, PartsTyped
    <3> QED
      BY <3>2, <3>3
  <2>2. CASE ~(k < level /\ info[k] > 0)
    <3>1. Part(k) = <<>>
      BY <2>2 DEF Part
    <3> QED
      BY <3>1
  <2> QED
    BY <2>1, <2>2
<1>3. ASSUME NEW k \in Narrow PROVE After(k) \in Seq(InsideJob)
  BY <1>2 DEF After, Narrow
<1>4. CASE s = <<>>
  BY <1>4
<1>5. ASSUME NEW k \in Narrow, NEW l \in Nat, k < level, l <= info[k],
             s = <<[Elevate(k) EXCEPT !.left = l]>> \o After(k)
      PROVE  s \in Seq(InsideJob)
  BY <1>1, <1>3, <1>5
<1> QED
  BY <1>4, <1>5 DEF Parts

LEMMA AllInside == ASSUME BufferInv PROVE jobs \in Seq(InsideJob)
<1> USE DEF BufferInv
<1>1. text \in Nat /\ cap \in Nat /\ level \in Levels
  BY DEF MemoryKept
<1>2. CASE pc # "widen"
  BY <1>2 DEF JobsKept
<1>3. CASE pc = "widen" /\ comma
  <2>1. level \in {1, 2, 4} /\ level \in {2, 4} /\ Place(level, text) <= cap
    BY <1>3 DEF ArrayKept
  <2>2. PICK t \in Nat, l \in Nat : t + l <= text /\ ArrayFrom(t, l)
    BY <1>3 DEF ArrayKept
  <2> DEFINE j == [src |-> Place(level, t), dst |-> Place(level, t), from |-> 1, to |-> level, left |-> l]
  <2>3. jobs = (IF l = 0 THEN <<>> ELSE <<j>>)
    BY <2>2 DEF ArrayFrom
  <2>4. j \in Job /\ j.dst = Place(level, t) /\ j.to = level /\ j.left = l
    BY <1>1, <2>1, PlaceIsNat DEF Job
  <2> HIDE DEF j
  <2>5. j \in InsideJob
    BY <2>1, <2>2, <2>4, JobInside DEF InsideJob
  <2> QED
    BY <2>3, <2>4, <2>5
<1>4. CASE pc = "widen" /\ ~comma
  <2>1. /\ writer = Place(level, text) /\ writer + Width(level) <= cap /\ Before(level) <= text
    BY <1>4 DEF ResultKept
  <2>2. PICK f \in Nat : Parts(f, jobs)
    BY <1>4 DEF ResultKept, ResultFrom
  <2>3. CASE level = 0
    <3>1. jobs = <<>>
      BY <2>2, <2>3 DEF Parts, Narrow
    <3> QED
      BY <3>1
  <2>4. CASE level # 0
    <3>1. level \in {1, 2, 4} /\ Width(level) \in Nat /\ Place(level, text) \in Nat
      BY <1>1, <2>4, Widths, PlaceIsNat DEF Levels
    <3>2. Place(level, text) <= cap
      BY <1>1, <2>1, <3>1
    <3> QED
      BY <2>1, <2>2, <3>1, <3>2, PartsInside
  <2> QED
    BY <2>3, <2>4
<1> QED
  BY <1>2, <1>3, <1>4

\* Each variable keeps its type: the memory has the size of the buffer, the pointers are
\* offsets, and the list of widenings has widenings.
THEOREM TypeCorrect == Spec => []TypeOK
<1>1. ASSUME BufferInv PROVE TypeOK
  <2>1. jobs \in Seq(Job)
    <3>1. InsideJob \subseteq Job
      BY DEF InsideJob
    <3> QED
      BY <1>1, <3>1, AllInside DEF BufferInv
  <2>2. head \in {"block", "null"} /\ blocks \in Nat
    BY <1>1 DEF BufferInv, BlocksKept
  <2> QED
    BY <1>1, <2>1, <2>2 DEF BufferInv, MemoryKept, BlocksKept, TypeOK
<1> QED
  BY <1>1, BufferInvHolds, PTL

\* fail: and success: a call that raises frees its buffer, also when realloc has failed,
\* and one that succeeds returns it; while there is a block, head points to it.
THEOREM BufferAccounted == Spec => []BufferFreed
<1>1. ASSUME BufferInv PROVE BufferFreed
  BY <1>1 DEF BufferInv, BlocksKept, BufferFreed
<1> QED
  BY <1>1, BufferInvHolds, PTL

\* u_buf_reserve and the elevations: no token, no widening and no terminator is written
\* past the end of the buffer, whatever the sizes.
THEOREM NothingOutside == Spec => []WritesInside
<1>1. ASSUME BufferInv PROVE WritesInside
  <2>1. pc \in {"walk", "single", "widen", "fit"} => writer <= cap
    <3>1. writer \in Nat /\ cap \in Nat /\ Width(level) \in Nat
      BY <1>1, Widths DEF BufferInv, MemoryKept
    <3> QED
      BY <1>1, <3>1 DEF BufferInv, WalkKept, ArrayKept, ResultKept, FitKept
  <2>2. ASSUME NEW i \in 1 .. Len(jobs) PROVE jobs[i].dst + jobs[i].left * jobs[i].to <= cap
    <3>1. jobs[i] \in InsideJob
      BY <1>1, AllInside
    <3> QED
      BY <3>1 DEF InsideJob
  <2>3. pc = "fit" => writer + Width(level) <= cap
    BY <1>1 DEF BufferInv, FitKept
  <2> QED
    BY <2>1, <2>2, <2>3 DEF WritesInside
<1> QED
  BY <1>1, BufferInvHolds, PTL

\* Between two tokens each character of the document is where it was written: growth, the
\* stores behind the writer and a change of the width lose none.
THEOREM TextKept == Spec => []TextHeld
<1>1. ASSUME BufferInv PROVE TextHeld
  <2> SUFFICES ASSUME pc \in {"walk", "single"}, NEW i \in 1 .. text
               PROVE  Holds(mem, Start(LevelOf(i)) + (i - 1) * Width(LevelOf(i)), Width(LevelOf(i)), i)
    BY DEF TextHeld
  <2>1. i \in Nat \ {0} /\ MemoryKept /\ Settled(i)
    BY <1>1 DEF BufferInv, MemoryKept, WalkKept
  <2>2. LevelOf(i) \in Levels /\ InLevel(i, LevelOf(i))
    <3>1. LevelOf(i) = CHOOSE k \in Levels : InLevel(i, k)
      BY DEF LevelOf, InLevel
    <3> QED
      BY <2>1, <3>1, LevelFound
  <2> QED
    BY <2>1, <2>2 DEF Settled, Place
<1> QED
  BY <1>1, BufferInvHolds, PTL

\* The str that dumps returns has the characters of the document, in order, with the width
\* of the widest of them, and its terminator, whatever changes of the width came between.
THEOREM ResultExact == Spec => []ResultIsTheText
<1>1. ASSUME BufferInv PROVE ResultIsTheText
  <2> SUFFICES ASSUME pc = "done" PROVE ResultIsTheText
    BY DEF ResultIsTheText
  <2>1. level = kind /\ cap = Place(level, text + 1) /\ \A i \in 1 .. text : Final(i)
    BY <1>1 DEF BufferInv, KindKept, DoneKept
  <2> QED
    BY <2>1 DEF Final, Place, ResultIsTheText
<1> QED
  BY <1>1, BufferInvHolds, PTL

\* resize_to_fit_pyunicode: cutting the buffer to the text never makes it larger.
THEOREM CutShrinks == Spec => FitShrinks
<1>1. ASSUME BufferInv, [Next]_vars PROVE [pc = "fit" => cap' <= cap]_vars
  <2> SUFFICES ASSUME pc = "fit", Next PROVE cap' <= cap
    BY <1>1
  <2>1. cap \in Nat /\ level \in Levels /\ text \in Nat /\ writer = Place(level, text)
        /\ writer + Width(level) <= cap
    BY <1>1 DEF BufferInv, MemoryKept, FitKept
  <2>2. Fit
    BY DEF Next, Allocates, NoBuffer, AppendStr, AppendSingle, AppendOther, IntReserveFails, Close,
           AppendNdarray, Finish, Widen, WidenEnd, FreeBuffer, Returned
  <2>3. FitSize(Chars) = writer + Width(level)
    <3>1. Chars = text
      BY <2>1, CharsCounted
    <3>2. Width(level) \in {1, 2, 4} /\ Start(level) \in Nat
      BY <2>1, Widths
    <3> QED
      BY <2>1, <3>1, <3>2 DEF FitSize, Place
  <2> QED
    BY <2>1, <2>2, <2>3 DEF Fit
<1> QED
  BY <1>1, BufferInvHolds, PTL DEF Spec, FitShrinks
=============================================================================
