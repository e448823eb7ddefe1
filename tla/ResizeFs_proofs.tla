--------------------------- MODULE ResizeFs_proofs ---------------------------
(***************************************************************************)
(* Proofs about ResizeFs, for groups, tables and file systems of any size, *)
(* with and without flex_bg, a resize inode and a stride.                  *)
(***************************************************************************)
EXTENDS ResizeFs, FiniteSetTheorems, SequenceTheorems, WellFoundedInduction, TLAPS

FsFields == {"size", "rsv", "ri", "flex", "stride", "jino", "jnl", "error", "orig", "gd", "map"}
Parts == {"bbm", "ibm", "it"}

\* A part of n blocks has its place below limit, or none.
SpotOK(b, n, limit) == b \in Nat /\ (b # Nowhere => b + n <= limit)
GroupOK(s, limit) == DOMAIN s = Parts /\ \A p \in Parts : SpotOK(s[p], Size(p), limit)

\* The blocks of a part that has a place.
Spot(s, p) == Run(s[p], Size(p))

\* A handle whose structures lie below limit.
FsOK(fs, limit) ==
    /\ DOMAIN fs = FsFields
    /\ fs.size \in Nat \ {0} /\ fs.rsv \in Nat /\ fs.flex \in Nat \ {0} /\ fs.stride \in Nat
    /\ fs.map \subseteq 0 .. fs.size - 1
    /\ DOMAIN fs.gd = GroupsOf(fs) /\ \A g \in GroupsOf(fs) : GroupOK(fs.gd[g], limit)

(***************************************************************************)
(* Numbers.                                                                *)
(***************************************************************************)
LEMMA Constants ==
    /\ PerGroup \in Nat \ {0} /\ DescPerBlock \in Nat \ {0} /\ InodeBlocks \in Nat \ {0}
    /\ Slack \in Nat /\ MaxReserved \in Nat /\ MaxFaults \in Nat
BY ResizeFsAssumption

(* Any set of natural numbers has a least element.                         *)
LEMMA LeastNatural ==
    ASSUME NEW T, T \subseteq Nat, T # {}
    PROVE  \E m \in T : \A j \in T : m <= j
<1>1. PICK m \in T : \A j \in T : ~(<<j, m>> \in OpToRel(<, Nat))
  BY NatLessThanWellFounded, WFMin, Zenon
<1>2. \A j \in T : ~(j < m)
  BY <1>1 DEF OpToRel
<1> QED
  BY <1>2

LEMMA MinIs ==
    ASSUME NEW T, T \subseteq Nat, T # {}
    PROVE  Min(T) \in T /\ \A j \in T : Min(T) <= j
<1>1. \E m \in T : \A j \in T : m <= j
  BY LeastNatural
<1> QED
  BY <1>1 DEF Min

LEMMA Quotient ==
    ASSUME NEW u \in Nat, NEW n \in Nat \ {0}
    PROVE  /\ u \div n \in Nat /\ (u \div n) * n \in Nat /\ (u \div n) * n <= u
           /\ u < (u \div n) * n + n /\ u % n \in 0 .. n - 1 /\ u = (u \div n) * n + (u % n)
OBVIOUS

LEMMA TimesNat == ASSUME NEW a \in Nat, NEW b \in Nat PROVE a * b \in Nat
OBVIOUS

LEMMA TimesLess ==
    ASSUME NEW a \in Nat, NEW b \in Nat, NEW n \in Nat, a < b
    PROVE  a * n + n <= b * n
<1>1. PICK d \in Nat : b = a + 1 + d
  <2>1. b - a - 1 \in Nat /\ b = a + 1 + (b - a - 1)
    OBVIOUS
  <2> QED
    BY <2>1
<1>2. b * n = a * n + n + d * n
  BY <1>1
<1>3. d * n \in Nat /\ a * n \in Nat
  BY TimesNat
<1> QED
  BY <1>2, <1>3

LEMMA DivUnique ==
    ASSUME NEW u \in Nat, NEW n \in Nat \ {0}, NEW q \in Nat, q * n <= u, u < q * n + n
    PROVE  u \div n = q /\ u % n = u - q * n
<1>1. PICK p : p = u \div n
  OBVIOUS
<1>2. p \in Nat /\ p * n <= u /\ u < p * n + n /\ u = p * n + (u % n) /\ u % n \in Nat
  BY <1>1, Quotient
<1>3. p * n \in Nat /\ q * n \in Nat
  BY <1>2, TimesNat
<1>4. ~(p < q)
  <2> SUFFICES ASSUME p < q PROVE FALSE
    OBVIOUS
  <2>1. p * n + n <= q * n
    BY <1>2, TimesLess
  <2> QED
    BY <1>2, <1>3, <2>1
<1>5. ~(q < p)
  <2> SUFFICES ASSUME q < p PROVE FALSE
    OBVIOUS
  <2>1. q * n + n <= p * n
    BY <1>2, TimesLess
  <2> QED
    BY <1>2, <1>3, <2>1
<1>6. p = q
  BY <1>2, <1>4, <1>5
<1> QED
  BY <1>1, <1>2, <1>3, <1>6

(* A file system that is not empty has a group.                            *)
LEMMA GroupsNat ==
    ASSUME NEW size \in Nat \ {0}
    PROVE  /\ Groups(size) \in Nat \ {0}
           /\ (Groups(size) - 1) * PerGroup < size /\ size <= Groups(size) * PerGroup
           /\ (Groups(size) - 1) * PerGroup \in Nat /\ Groups(size) * PerGroup \in Nat
<1> DEFINE u == size + PerGroup - 1
           q == u \div PerGroup
<1>1. u \in Nat /\ PerGroup \in Nat \ {0} /\ u >= PerGroup
  BY Constants
<1>a. u = size + (PerGroup - 1)
  OBVIOUS
<1>2. q \in Nat /\ q * PerGroup \in Nat /\ q * PerGroup <= u /\ u < q * PerGroup + PerGroup
  <2> HIDE DEF u
  <2> QED
    BY <1>1, Quotient
<1> HIDE DEF u, q
<1>3. q # 0
  <2> SUFFICES ASSUME q = 0 PROVE FALSE
    OBVIOUS
  <2>1. q * PerGroup = 0
    BY <1>1
  <2> QED
    BY <1>1, <1>2, <2>1
<1>4. (q - 1) * PerGroup = q * PerGroup - PerGroup
  BY <1>1, <1>2
<1>5. (q - 1) * PerGroup < size /\ size <= q * PerGroup
  BY <1>1, <1>2, <1>4, <1>a
<1>6. (q - 1) * PerGroup \in Nat
  BY <1>1, <1>2, <1>3, TimesNat
<1> QED
  BY <1>2, <1>3, <1>5, <1>6 DEF u, q, Groups

LEMMA GroupsUnique ==
    ASSUME NEW size \in Nat \ {0}, NEW q \in Nat, q * PerGroup < size, size <= q * PerGroup + PerGroup
    PROVE  Groups(size) = q + 1
<1>1. PerGroup \in Nat \ {0}
  BY Constants
<1>2. (q + 1) * PerGroup = q * PerGroup + PerGroup /\ q * PerGroup \in Nat
  BY <1>1, TimesNat
<1>3. PICK u, p : u = size + PerGroup - 1 /\ p = q + 1
  OBVIOUS
<1>4. u \in Nat /\ p \in Nat /\ p * PerGroup <= u /\ u < p * PerGroup + PerGroup
  BY <1>1, <1>2, <1>3
<1>5. u \div PerGroup = p
  BY <1>1, <1>4, DivUnique
<1> QED
  BY <1>3, <1>5 DEF Groups

(* A larger file system has at least as many groups.                       *)
LEMMA GroupsMonotone ==
    ASSUME NEW small \in Nat \ {0}, NEW large \in Nat, small <= large
    PROVE  Groups(small) <= Groups(large)
<1>1. PICK a, b : a = Groups(small) /\ b = Groups(large)
  OBVIOUS
<1>2. a \in Nat \ {0} /\ (a - 1) * PerGroup < small /\ (a - 1) * PerGroup \in Nat
  BY <1>1, GroupsNat
<1>3. b \in Nat \ {0} /\ large <= b * PerGroup /\ b * PerGroup \in Nat
  BY <1>1, GroupsNat
<1>4. ~(b < a)
  <2> SUFFICES ASSUME b < a PROVE FALSE
    OBVIOUS
  <2>1. CASE b = a - 1
    BY <1>2, <1>3, <2>1
  <2>2. CASE b < a - 1
    <3>1. PICK c : c = a - 1
      OBVIOUS
    <3>2. c \in Nat /\ b < c
      BY <1>2, <2>2, <3>1
    <3>3. b * PerGroup + PerGroup <= c * PerGroup
      BY <1>3, <3>2, Constants, TimesLess
    <3> QED
      BY <1>2, <1>3, <3>1, <3>3, Constants
  <2> QED
    BY <1>2, <1>3, <2>1, <2>2
<1> QED
  BY <1>1, <1>2, <1>3, <1>4

(* Where a group of a handle ends, and its flex group.                     *)
LEMMA GroupNumbers ==
    ASSUME NEW fs, fs.size \in Nat \ {0}, NEW g \in GroupsOf(fs)
    PROVE  /\ g \in Nat /\ g <= Groups(fs.size) - 1 /\ Groups(fs.size) \in Nat \ {0}
           /\ FirstBlock(g) \in Nat /\ LastBlock(fs, g) \in Nat
<1>1. Groups(fs.size) \in Nat \ {0}
  BY GroupsNat
<1>2. g \in Nat /\ g <= Groups(fs.size) - 1
  BY <1>1 DEF GroupsOf
<1>3. FirstBlock(g) \in Nat
  BY <1>2, Constants, TimesNat DEF FirstBlock
<1>4. fs.size - 1 \in Nat /\ FirstBlock(g) + PerGroup - 1 \in Nat
  BY <1>3, Constants
<1>5. LastBlock(fs, g) \in Nat
  BY <1>4 DEF LastBlock
<1> QED
  BY <1>1, <1>2, <1>3, <1>5

LEMMA FlexNumbers ==
    ASSUME NEW fs, fs.size \in Nat \ {0}, fs.flex \in Nat \ {0}, NEW g \in GroupsOf(fs)
    PROVE  /\ LastInFlex(fs, g) \in GroupsOf(fs) /\ LastInFlex(fs, g) \in Nat /\ g <= LastInFlex(fs, g)
           /\ g \div fs.flex \in Nat /\ (g \div fs.flex) * fs.flex \in Nat
           /\ g % fs.flex \in Nat /\ (g % fs.flex # 0 => g - 1 \in GroupsOf(fs))
           /\ TableOffset(fs, g) \in Nat
<1>1. PICK x, n : x = fs.flex /\ n = Groups(fs.size)
  OBVIOUS
<1>2. x \in Nat \ {0} /\ n \in Nat \ {0} /\ g \in Nat /\ g <= n - 1
  BY <1>1, GroupNumbers
<1>3. PICK q, r : q = (g \div x) * x /\ r = g % x
  OBVIOUS
<1>4. q \in Nat /\ q <= g /\ g < q + x /\ g \div x \in Nat /\ r \in 0 .. x - 1 /\ g = q + r
  BY <1>2, <1>3, Quotient
<1>5. PICK l : l = LastInFlex(fs, g)
  OBVIOUS
<1>6. l = IF q + x - 1 > n - 1 THEN n - 1 ELSE q + x - 1
  BY <1>1, <1>3, <1>5 DEF LastInFlex
<1>7. l \in Nat /\ g <= l /\ l <= n - 1
  BY <1>2, <1>4, <1>6
<1>8. l \in GroupsOf(fs)
  BY <1>1, <1>2, <1>7 DEF GroupsOf
<1>9. r # 0 => g - 1 \in GroupsOf(fs)
  <2>1. r # 0 => g - 1 \in 0 .. n - 1
    BY <1>2, <1>4
  <2> QED
    BY <1>1, <2>1 DEF GroupsOf
<1>10. TableOffset(fs, g) \in Nat
  <2>1. l % x \in Nat /\ (l % x) + 1 \in Nat
    BY <1>2, <1>7, Quotient
  <2> QED
    BY <1>1, <1>2, <1>5, <2>1 DEF TableOffset
<1> QED
  BY <1>1, <1>3, <1>4, <1>5, <1>7, <1>8, <1>9, <1>10

(***************************************************************************)
(* Allocation.                                                             *)
(***************************************************************************)
(* Blocks that are found are free in the map, and within the file system.  *)
LEMMA FreeBlocks ==
    ASSUME NEW fs, fs.size \in Nat, NEW start \in Nat, NEW finish \in Int, NEW num \in Int, NEW map,
           NEW b, b = GetFreeBlocks(fs, start, finish, num, map)
    PROVE  /\ SpotOK(b, num, fs.size)
           /\ b # Nowhere => Run(b, num) \cap map = {}
<1> DEFINE Fits(c) == c + num <= fs.size /\ Run(c, num) \cap map = {}
           top == IF start < finish THEN finish ELSE fs.size
           ahead == {c \in start .. top - 1 : Fits(c)}
           around == {c \in 0 .. finish - 1 : start >= finish /\ Fits(c)}
<1>1. b = IF ahead # {} THEN Min(ahead) ELSE IF around # {} THEN Min(around) ELSE Nowhere
  BY DEF GetFreeBlocks
<1>2. top \in Int
  OBVIOUS
<1>3. ahead \subseteq Nat /\ \A c \in ahead : Fits(c)
  <2> HIDE DEF top, Fits
  <2> QED
    BY <1>2
<1>4. around \subseteq Nat /\ \A c \in around : Fits(c)
  <2> HIDE DEF Fits
  <2> QED
    OBVIOUS
<1> HIDE DEF ahead, around, top
<1>5. CASE ahead # {}
  <2>1. b \in ahead
    BY <1>1, <1>3, <1>5, MinIs
  <2>2. b \in Nat /\ Fits(b)
    BY <1>3, <2>1
  <2> QED
    BY <2>2 DEF SpotOK
<1>6. CASE ahead = {} /\ around # {}
  <2>1. b \in around
    BY <1>1, <1>4, <1>6, MinIs
  <2>2. b \in Nat /\ Fits(b)
    BY <1>4, <2>1
  <2> QED
    BY <2>2 DEF SpotOK
<1>7. CASE ahead = {} /\ around = {}
  BY <1>1, <1>7 DEF SpotOK, Nowhere
<1> QED
  BY <1>5, <1>6, <1>7

LEMMA FreeNat ==
    ASSUME NEW fs, fs.size \in Nat, NEW start \in Nat, NEW finish \in Int, NEW num \in Int, NEW map
    PROVE  GetFreeBlocks(fs, start, finish, num, map) \in Nat
<1>1. SpotOK(GetFreeBlocks(fs, start, finish, num, map), num, fs.size)
  BY FreeBlocks
<1> QED
  BY <1>1 DEF SpotOK

LEMMA FlexOffsetNat ==
    ASSUME NEW fs, fs.size \in Nat \ {0}, fs.flex \in Nat \ {0}, NEW g \in GroupsOf(fs),
           NEW prev \in Nat, NEW map, NEW elem \in Nat
    PROVE  FlexbgOffset(fs, g, prev, map, elem) \in Nat
<1> DEFINE rem == (LastInFlex(fs, g) - g + 1) * elem
           size == IF rem > PerGroup \div 4 THEN PerGroup \div 4 ELSE rem
           start == FirstBlock((g \div fs.flex) * fs.flex)
           last == LastBlock(fs, LastInFlex(fs, g))
           near == IF prev # 0 /\ prev < fs.size THEN GetFreeBlocks(fs, prev, prev + size, elem, map)
                                                 ELSE Nowhere
<1>1. g \in Nat /\ LastInFlex(fs, g) \in Nat /\ (g \div fs.flex) * fs.flex \in Nat /\ last \in Nat
  BY GroupNumbers, FlexNumbers
<1>2. rem \in Int /\ PerGroup \div 4 \in Int
  <2>1. PICK l : l = LastInFlex(fs, g)
    OBVIOUS
  <2>2. (l - g + 1) \in Int
    BY <1>1, <2>1
  <2>3. (l - g + 1) * elem \in Int
    BY <2>2
  <2> QED
    BY <2>1, <2>3, Constants
<1>3. size \in Int
  <2> HIDE DEF rem
  <2> QED
    BY <1>2
<1>4. start \in Nat
  BY <1>1, Constants, TimesNat DEF FirstBlock
<1>5. FlexbgOffset(fs, g, prev, map, elem) =
        OrElse(near, OrElse(GetFreeBlocks(fs, start, last, size, map),
            OrElse(GetFreeBlocks(fs, start, last, elem, map), GetFreeBlocks(fs, 0, last, elem, map))))
  BY DEF FlexbgOffset
<1> HIDE DEF rem, size, start, last
<1>6. prev + size \in Int /\ fs.size \in Nat /\ last \in Int /\ elem \in Int
  BY <1>1, <1>3
<1>7. near \in Nat
  BY <1>6, FreeNat DEF Nowhere
<1>8. /\ GetFreeBlocks(fs, start, last, size, map) \in Nat
      /\ GetFreeBlocks(fs, start, last, elem, map) \in Nat
      /\ GetFreeBlocks(fs, 0, last, elem, map) \in Nat
  BY <1>3, <1>4, <1>6, FreeNat
<1> QED
  BY <1>5, <1>7, <1>8 DEF OrElse

LEMMA StaggeredNat ==
    ASSUME NEW fs, fs.size \in Nat \ {0}, fs.stride \in Nat, NEW g \in GroupsOf(fs), NEW map
    PROVE  Staggered(fs, g, map) \in Nat
<1> DEFINE last == LastBlock(fs, g)
           free == GetFreeBlocks(fs, FirstBlock(g), last, 1, map)
           s == free + InodeBlocks
           t == s + ((fs.stride * g) % (last - s + 1))
<1>1. FirstBlock(g) \in Nat /\ last \in Nat /\ g \in Nat
  BY GroupNumbers
<1>2. free \in Nat
  BY <1>1, FreeNat
<1>3. Staggered(fs, g, map) =
        IF fs.stride = 0 \/ free = Nowhere \/ s > last \/ t >= last THEN FirstBlock(g) ELSE t
  BY DEF Staggered
<1>4. fs.stride * g \in Nat
  BY <1>1, TimesNat
<1>5. s \in Nat
  <2> HIDE DEF free
  <2> QED
    BY <1>2, Constants
<1> HIDE DEF last, free, s
<1>6. ASSUME ~(s > last) PROVE t \in Nat
  <2>1. PICK m, a : m = last - s + 1 /\ a = fs.stride * g
    OBVIOUS
  <2>2. m \in Nat \ {0} /\ a \in Nat
    BY <1>1, <1>4, <1>5, <1>6, <2>1
  <2>3. a % m \in Nat
    BY <2>2, Quotient
  <2> QED
    BY <1>5, <2>1, <2>3
<1> QED
  BY <1>1, <1>3, <1>6

(* The search for a part begins at a block and ends at one.                *)
LEMMA SearchNat ==
    ASSUME NEW r, FsOK(r.fs, r.fs.size), NEW g \in GroupsOf(r.fs), NEW part \in Parts, NEW start \in Nat
    PROVE  SearchFrom(r, g, part, start) \in Nat /\ SearchTo(r.fs, g) \in Nat /\ FirstBlock(g) \in Nat
<1>1. r.fs.size \in Nat \ {0} /\ r.fs.flex \in Nat \ {0}
  BY DEF FsOK
<1>2. \A h \in GroupsOf(r.fs), p \in Parts : r.fs.gd[h][p] \in Nat
  BY DEF FsOK, GroupOK, SpotOK
<1>3. FirstBlock(g) \in Nat
  BY <1>1, GroupNumbers
<1>4. Size(part) \in Nat
  BY Constants DEF Size
<1>5. Previous(r.fs, g, part) \in Nat
  <2>1. g % r.fs.flex # 0 => g - 1 \in GroupsOf(r.fs)
    BY <1>1, FlexNumbers
  <2>2. TableOffset(r.fs, g) \in Nat
    BY <1>1, FlexNumbers
  <2>3. CASE g % r.fs.flex # 0
    <3>1. r.fs.gd[g - 1][part] \in Nat
      BY <1>2, <2>1, <2>3
    <3> QED
      BY <1>4, <2>3, <3>1 DEF Previous
  <2>4. CASE g % r.fs.flex = 0
    <3>1. r.fs.gd[g]["bbm"] \in Nat /\ r.fs.gd[g]["ibm"] \in Nat
      BY <1>2 DEF Parts
    <3> QED
      BY <2>2, <2>4, <3>1 DEF Previous
  <2> QED
    BY <2>3, <2>4
<1>6. FlexbgOffset(r.fs, g, Previous(r.fs, g, part), r.map, Size(part)) \in Nat
  BY <1>1, <1>4, <1>5, FlexOffsetNat
<1>7. SearchFrom(r, g, part, start) \in Nat
  BY <1>3, <1>6 DEF SearchFrom
<1>8. LastInFlex(r.fs, g) \in GroupsOf(r.fs)
  BY <1>1, FlexNumbers
<1>9. SearchTo(r.fs, g) \in Nat
  BY <1>1, <1>8, GroupNumbers DEF SearchTo
<1> QED
  BY <1>3, <1>7, <1>9

(* A place that is found is free in the map that is searched.              *)
LEMMA FoundFree ==
    ASSUME NEW r, FsOK(r.fs, r.fs.size), NEW g \in GroupsOf(r.fs), NEW part \in Parts, NEW from \in Nat,
           NEW b, b = Found(r, g, part, from)
    PROVE  SpotOK(b, Size(part), r.fs.size) /\ (b # Nowhere => Run(b, Size(part)) \cap r.map = {})
<1> DEFINE c == GetFreeBlocks(r.fs, from, SearchTo(r.fs, g), Size(part), r.map)
           d == GetFreeBlocks(r.fs, FirstBlock(g), SearchTo(r.fs, g), 1, r.map)
<1>1. r.fs.size \in Nat
  BY DEF FsOK
<1>2. SearchTo(r.fs, g) \in Int /\ FirstBlock(g) \in Nat
  BY SearchNat
<1>3. Size(part) \in Int
  BY Constants DEF Size
<1>4. SpotOK(c, Size(part), r.fs.size) /\ (c # Nowhere => Run(c, Size(part)) \cap r.map = {})
  BY <1>1, <1>2, <1>3, FreeBlocks
<1>5. SpotOK(d, 1, r.fs.size) /\ (d # Nowhere => Run(d, 1) \cap r.map = {})
  BY <1>1, <1>2, FreeBlocks
<1>6. b = OrElse(c, IF part = "it" THEN Nowhere ELSE d)
  BY DEF Found
<1> HIDE DEF c, d
<1>7. CASE c # Nowhere
  BY <1>4, <1>6, <1>7 DEF OrElse
<1>8. CASE c = Nowhere /\ part = "it"
  BY <1>1, <1>6, <1>8 DEF OrElse, SpotOK, Nowhere
<1>9. CASE c = Nowhere /\ part # "it"
  BY <1>5, <1>6, <1>9 DEF OrElse, Size
<1> QED
  BY <1>7, <1>8, <1>9

(* What no allocation changes, and that it only marks more blocks.         *)
Extends(fs, next) ==
    /\ next.size = fs.size /\ fs.map \subseteq next.map
    /\ \A p \in FsFields \ {"gd", "map"} : next[p] = fs[p]

\* A handle and a map to search.
SearchOK(r) ==
    /\ FsOK(r.fs, r.fs.size) /\ r.map \subseteq 0 .. r.fs.size - 1

\* The map in which a part is marked.
MapOf(q, part) == IF part = "it" THEN q.fs.map ELSE q.map

LEMMA PutOK ==
    ASSUME NEW r, SearchOK(r), NEW g \in GroupsOf(r.fs), NEW part \in Parts, NEW b, b # Nowhere,
           SpotOK(b, Size(part), r.fs.size), NEW q, q = Put(r, g, part, b)
    PROVE  /\ SearchOK(q) /\ Extends(r.fs, q.fs) /\ r.map \subseteq q.map /\ q.ok
           /\ q.fs.gd = [r.fs.gd EXCEPT ![g] = [@ EXCEPT ![part] = b]]
           /\ Run(b, Size(part)) \subseteq MapOf(q, part)
<1>1. /\ q.fs = [r.fs EXCEPT !.gd[g][part] = b, !.map = @ \cup (IF part = "it" THEN Run(b, InodeBlocks) ELSE {})]
      /\ q.map = IF part = "it" THEN r.map ELSE r.map \cup {b}
      /\ q.ok = (b # Nowhere)
  BY DEF Put
<1>2. /\ DOMAIN r.fs = FsFields /\ r.fs.size \in Nat \ {0}
      /\ DOMAIN r.fs.gd = GroupsOf(r.fs) /\ \A h \in GroupsOf(r.fs) : GroupOK(r.fs.gd[h], r.fs.size)
      /\ r.fs.map \subseteq 0 .. r.fs.size - 1 /\ r.map \subseteq 0 .. r.fs.size - 1
  BY DEF SearchOK, FsOK
<1>3. b \in Nat /\ b + Size(part) <= r.fs.size /\ Size(part) \in Nat \ {0}
  BY Constants DEF SpotOK, Size
<1>4. b \in 0 .. r.fs.size - 1 /\ (part = "it" => Run(b, InodeBlocks) \subseteq 0 .. r.fs.size - 1)
  <2>1. b \in 0 .. r.fs.size - 1
    BY <1>2, <1>3
  <2>2. part = "it" => b + InodeBlocks <= r.fs.size /\ InodeBlocks \in Nat \ {0}
    BY <1>3, Constants DEF Size
  <2>3. part = "it" => \A c \in Run(b, InodeBlocks) : c \in 0 .. r.fs.size - 1
    BY <1>2, <1>3, <2>2 DEF Run
  <2> QED
    BY <2>1, <2>3
<1>5. /\ DOMAIN q.fs = FsFields
      /\ \A p \in FsFields \ {"gd", "map"} : q.fs[p] = r.fs[p]
      /\ q.fs.gd = [r.fs.gd EXCEPT ![g] = [@ EXCEPT ![part] = b]]
      /\ q.fs.map = r.fs.map \cup (IF part = "it" THEN Run(b, InodeBlocks) ELSE {})
  BY <1>1, <1>2 DEF FsFields
<1>6. /\ q.fs.size = r.fs.size /\ q.fs.rsv = r.fs.rsv /\ q.fs.flex = r.fs.flex /\ q.fs.stride = r.fs.stride
  BY <1>5 DEF FsFields
<1>7. GroupsOf(q.fs) = GroupsOf(r.fs)
  BY <1>6 DEF GroupsOf
<1>8. DOMAIN q.fs.gd = GroupsOf(r.fs)
  BY <1>2, <1>5
<1>9. \A h \in GroupsOf(r.fs) : GroupOK(q.fs.gd[h], r.fs.size)
  <2> SUFFICES ASSUME NEW h \in GroupsOf(r.fs) PROVE GroupOK(q.fs.gd[h], r.fs.size)
    OBVIOUS
  <2>1. q.fs.gd[h] = IF h = g THEN [r.fs.gd[h] EXCEPT ![part] = b] ELSE r.fs.gd[h]
    BY <1>2, <1>5
  <2>2. GroupOK(r.fs.gd[h], r.fs.size)
    BY <1>2
  <2> QED
    BY <2>1, <2>2 DEF GroupOK
<1>10. q.fs.map \subseteq 0 .. r.fs.size - 1 /\ q.map \subseteq 0 .. r.fs.size - 1
  BY <1>1, <1>2, <1>4, <1>5
<1>11. FsOK(q.fs, r.fs.size)
  BY <1>5, <1>6, <1>7, <1>8, <1>9, <1>10 DEF FsOK, SearchOK
<1>12. SearchOK(q)
  BY <1>6, <1>10, <1>11 DEF SearchOK
<1>13. Extends(r.fs, q.fs)
  BY <1>5, <1>6 DEF Extends
<1>14. Run(b, Size(part)) \subseteq MapOf(q, part)
  <2>1. CASE part = "it"
    BY <1>5, <2>1 DEF Size, MapOf
  <2>2. CASE part # "it"
    <3>1. Run(b, Size(part)) = {b}
      BY <1>3, <2>2 DEF Size, Run
    <3> QED
      BY <1>1, <2>2, <3>1 DEF MapOf
  <2> QED
    BY <2>1, <2>2
<1> QED
  BY <1>1, <1>5, <1>12, <1>13, <1>14

(* A part gets a place that is free in the map, and keeps one it has.      *)
Placed(r, q, g, part) ==
    /\ SearchOK(q) /\ Extends(r.fs, q.fs) /\ r.map \subseteq q.map
    /\ \A h \in GroupsOf(r.fs) : h # g => q.fs.gd[h] = r.fs.gd[h]
    /\ \A p \in Parts : (p # part \/ r.fs.gd[g][part] # Nowhere) => q.fs.gd[g][p] = r.fs.gd[g][p]
    /\ q.fs.gd[g][part] # Nowhere
    /\ r.fs.gd[g][part] = Nowhere =>
         /\ Run(q.fs.gd[g][part], Size(part)) \cap r.map = {}
         /\ Run(q.fs.gd[g][part], Size(part)) \subseteq MapOf(q, part)

LEMMA PlaceOK ==
    ASSUME NEW r, SearchOK(r), r.ok, NEW g \in GroupsOf(r.fs), NEW part \in Parts, NEW start \in Nat,
           NEW q, q = Place(r, g, part, start), q.ok
    PROVE  Placed(r, q, g, part)
<1>1. CASE r.fs.gd[g][part] # Nowhere
  <2>1. q = r
    BY <1>1 DEF Place
  <2> QED
    BY <1>1, <2>1 DEF Placed, Extends
<1>2. CASE r.fs.gd[g][part] = Nowhere
  <2>1. FsOK(r.fs, r.fs.size)
    BY DEF SearchOK
  <2>2. PICK from : from = SearchFrom(r, g, part, start)
    OBVIOUS
  <2>3. from \in Nat
    BY <2>1, <2>2, SearchNat
  <2>4. PICK b : b = Found(r, g, part, from)
    OBVIOUS
  <2>5. SpotOK(b, Size(part), r.fs.size) /\ (b # Nowhere => Run(b, Size(part)) \cap r.map = {})
    BY <2>1, <2>3, <2>4, FoundFree
  <2>6. q = Put(r, g, part, b)
    BY <1>2, <2>2, <2>4 DEF Place
  <2>7. b # Nowhere
    <3>1. Put(r, g, part, b).ok = (b # Nowhere)
      BY DEF Put
    <3> QED
      BY <2>6, <3>1
  <2>8. /\ SearchOK(q) /\ Extends(r.fs, q.fs) /\ r.map \subseteq q.map
        /\ q.fs.gd = [r.fs.gd EXCEPT ![g] = [@ EXCEPT ![part] = b]]
        /\ Run(b, Size(part)) \subseteq MapOf(q, part)
    BY <2>5, <2>6, <2>7, PutOK
  <2>9. DOMAIN r.fs.gd = GroupsOf(r.fs) /\ \A h \in GroupsOf(r.fs) : DOMAIN r.fs.gd[h] = Parts
    BY <2>1 DEF FsOK, GroupOK
  <2>10. q.fs.gd[g][part] = b
    BY <2>8, <2>9
  <2>11. /\ \A h \in GroupsOf(r.fs) : h # g => q.fs.gd[h] = r.fs.gd[h]
         /\ \A p \in Parts : p # part => q.fs.gd[g][p] = r.fs.gd[g][p]
    BY <2>8, <2>9
  <2>12. /\ Run(q.fs.gd[g][part], Size(part)) \cap r.map = {}
         /\ Run(q.fs.gd[g][part], Size(part)) \subseteq MapOf(q, part)
    BY <2>5, <2>7, <2>8, <2>10, Zenon
  <2>13. \A p \in Parts : (p # part \/ r.fs.gd[g][part] # Nowhere) => q.fs.gd[g][p] = r.fs.gd[g][p]
    BY <1>2, <2>11
  <2>14. SearchOK(q) /\ Extends(r.fs, q.fs) /\ r.map \subseteq q.map /\ q.fs.gd[g][part] # Nowhere
    BY <2>7, <2>8, <2>10
  <2> QED
    BY <2>11, <2>12, <2>13, <2>14, Zenon DEF Placed
<1> QED
  BY <1>1, <1>2

\* A part that has no place, and one that no other part is put on.
Lost(r, g, p) == r.fs.gd[g][p] = Nowhere
Avoided(r, g, o) == Lost(r, g, o) \/ Spot(r.fs.gd[g], o) \subseteq r.map

\* A part stays, or goes where the map was free and is marked.
KeptOrNew(r, q, g, p) ==
    IF Lost(r, g, p)
      THEN /\ Spot(q.fs.gd[g], p) \cap r.map = {}
           /\ Spot(q.fs.gd[g], p) \subseteq q.map \cup q.fs.map
      ELSE q.fs.gd[g][p] = r.fs.gd[g][p]

(* A group that has all its parts in the end: the other groups are as they *)
(* were, and a table that had no place lies where the map was free.        *)
Furnished(r, q, g) ==
    /\ SearchOK(q) /\ Extends(r.fs, q.fs) /\ r.map \subseteq q.map
    /\ \A h \in GroupsOf(r.fs) : h # g => q.fs.gd[h] = r.fs.gd[h]
    /\ \A p \in Parts : q.fs.gd[g][p] # Nowhere
    /\ r.fs.gd[g].it = Nowhere => Table(q.fs.gd[g]) \cap r.map = {}
    /\ \A p \in Parts : KeptOrNew(r, q, g, p)
    /\ \A p, o \in Parts : (p # o /\ Lost(r, g, p) /\ Avoided(r, g, o)) => Spot(q.fs.gd[g], p) \cap Spot(q.fs.gd[g], o) = {}

LEMMA AllPlaced ==
    ASSUME NEW r, SearchOK(r), r.ok, NEW g \in GroupsOf(r.fs), NEW start \in Nat,
           NEW q, q = PlaceAll(r, g, start), q.ok
    PROVE  Furnished(r, q, g)
<1>1. PICK s, t : s = Place(r, g, "bbm", start) /\ t = Place(s, g, "ibm", start)
  OBVIOUS
<1>2. q = Place(t, g, "it", start)
  BY <1>1 DEF PlaceAll
<1>3. t.ok
  BY <1>2 DEF Place
<1>4. s.ok
  BY <1>1, <1>3 DEF Place
<1>5. Placed(r, s, g, "bbm")
  BY <1>1, <1>4, PlaceOK DEF Parts
<1>6. GroupsOf(s.fs) = GroupsOf(r.fs)
  BY <1>5 DEF Placed, Extends, GroupsOf
<1>7. Placed(s, t, g, "ibm")
  <2>1. SearchOK(s)
    BY <1>5 DEF Placed
  <2> QED
    BY <1>1, <1>3, <1>4, <1>6, <2>1, PlaceOK DEF Parts
<1>8. GroupsOf(t.fs) = GroupsOf(r.fs)
  BY <1>6, <1>7 DEF Placed, Extends, GroupsOf
<1>9. Placed(t, q, g, "it")
  <2>1. SearchOK(t)
    BY <1>7 DEF Placed
  <2> QED
    BY <1>2, <1>3, <1>8, <2>1, PlaceOK DEF Parts
<1>10. GroupsOf(q.fs) = GroupsOf(r.fs)
  BY <1>8, <1>9 DEF Placed, Extends, GroupsOf
<1>11. \A h \in GroupsOf(r.fs) : h # g => q.fs.gd[h] = r.fs.gd[h]
  BY <1>5, <1>6, <1>7, <1>8, <1>9 DEF Placed
<1>12. \A p \in Parts : q.fs.gd[g][p] # Nowhere
  <2>1. q.fs.gd[g]["it"] # Nowhere
    BY <1>9 DEF Placed
  <2>2. t.fs.gd[g]["ibm"] # Nowhere /\ q.fs.gd[g]["ibm"] = t.fs.gd[g]["ibm"]
    BY <1>7, <1>8, <1>9 DEF Placed, Parts
  <2>3. s.fs.gd[g]["bbm"] # Nowhere /\ t.fs.gd[g]["bbm"] = s.fs.gd[g]["bbm"] /\ q.fs.gd[g]["bbm"] = t.fs.gd[g]["bbm"]
    BY <1>5, <1>6, <1>7, <1>8, <1>9 DEF Placed, Parts
  <2> QED
    BY <2>1, <2>2, <2>3 DEF Parts
<1>13. ASSUME r.fs.gd[g].it = Nowhere PROVE Table(q.fs.gd[g]) \cap r.map = {}
  <2>1. s.fs.gd[g]["it"] = r.fs.gd[g]["it"] /\ t.fs.gd[g]["it"] = s.fs.gd[g]["it"]
    BY <1>5, <1>6, <1>7 DEF Placed, Parts
  <2>2. Run(q.fs.gd[g]["it"], Size("it")) \cap t.map = {}
    BY <1>9, <1>13, <2>1 DEF Placed
  <2>3. r.map \subseteq t.map
    BY <1>5, <1>7 DEF Placed
  <2>4. Table(q.fs.gd[g]) \subseteq Run(q.fs.gd[g]["it"], Size("it"))
    BY DEF Table, Size
  <2> QED
    BY <2>2, <2>3, <2>4
<1>14. SearchOK(q) /\ Extends(r.fs, q.fs) /\ r.map \subseteq q.map
  <2>1. SearchOK(q) /\ Extends(r.fs, s.fs) /\ Extends(s.fs, t.fs) /\ Extends(t.fs, q.fs)
        /\ r.map \subseteq s.map /\ s.map \subseteq t.map /\ t.map \subseteq q.map
    BY <1>5, <1>7, <1>9 DEF Placed
  <2> QED
    BY <2>1 DEF Extends
<1>15. /\ r.map \subseteq s.map /\ s.map \subseteq t.map /\ t.map \subseteq q.map /\ t.fs.map \subseteq q.fs.map
  BY <1>5, <1>7, <1>9 DEF Placed, Extends
<1>16. /\ q.fs.gd[g]["bbm"] = s.fs.gd[g]["bbm"] /\ q.fs.gd[g]["ibm"] = t.fs.gd[g]["ibm"]
       /\ s.fs.gd[g]["ibm"] = r.fs.gd[g]["ibm"] /\ t.fs.gd[g]["it"] = r.fs.gd[g]["it"]
  BY <1>5, <1>6, <1>7, <1>8, <1>9 DEF Placed, Parts
<1>17. Lost(r, g, "bbm") => Spot(q.fs.gd[g], "bbm") \cap r.map = {} /\ Spot(q.fs.gd[g], "bbm") \subseteq s.map
  BY <1>5, <1>16 DEF Placed, Lost, Spot, MapOf
<1>18. Lost(r, g, "ibm") => Spot(q.fs.gd[g], "ibm") \cap s.map = {} /\ Spot(q.fs.gd[g], "ibm") \subseteq t.map
  BY <1>7, <1>16 DEF Placed, Lost, Spot, MapOf
<1>19. Lost(r, g, "it") => Spot(q.fs.gd[g], "it") \cap t.map = {} /\ Spot(q.fs.gd[g], "it") \subseteq q.fs.map
  BY <1>9, <1>16 DEF Placed, Lost, Spot, MapOf
<1>20. \A p \in Parts : ~Lost(r, g, p) => q.fs.gd[g][p] = r.fs.gd[g][p] /\ Spot(q.fs.gd[g], p) = Spot(r.fs.gd[g], p)
  BY <1>5, <1>6, <1>7, <1>8, <1>9 DEF Placed, Parts, Lost, Spot
<1>21. \A p \in Parts : KeptOrNew(r, q, g, p)
  BY <1>15, <1>17, <1>18, <1>19, <1>20 DEF KeptOrNew, Parts
<1>22. ASSUME NEW p \in Parts, NEW o \in Parts, p # o, Lost(r, g, p), Avoided(r, g, o)
       PROVE  Spot(q.fs.gd[g], p) \cap Spot(q.fs.gd[g], o) = {}
  <2>1. CASE ~Lost(r, g, o)
    <3>1. Spot(q.fs.gd[g], o) \subseteq r.map
      BY <1>20, <1>22, <2>1 DEF Avoided
    <3>2. Spot(q.fs.gd[g], p) \cap r.map = {}
      BY <1>21, <1>22 DEF KeptOrNew
    <3> QED
      BY <3>1, <3>2
  <2>2. CASE Lost(r, g, o)
    BY <1>15, <1>17, <1>18, <1>19, <1>22, <2>2 DEF Parts
  <2> QED
    BY <2>1, <2>2
<1> QED
  BY <1>11, <1>12, <1>13, <1>14, <1>21, <1>22 DEF Furnished

\* A failure before the parts are placed stays one.
LEMMA PlacedIfOK ==
    ASSUME NEW r, NEW g, NEW start, PlaceAll(r, g, start).ok
    PROVE  r.ok
BY DEF PlaceAll, Place

LEMMA GroupTableAllocated ==
    ASSUME NEW fs, FsOK(fs, fs.size), NEW g \in GroupsOf(fs), NEW map, map \subseteq 0 .. fs.size - 1,
           NEW a, a = AllocateGroupTable(fs, g, map), a.ok
    PROVE  Furnished([fs |-> fs, map |-> map, ok |-> TRUE], a, g)
<1>1. PICK r : r = [fs |-> fs, map |-> map, ok |-> Staggers(fs, g, map)]
  OBVIOUS
<1>2. r.fs = fs /\ r.map = map /\ r.ok = Staggers(fs, g, map)
  BY <1>1
<1>3. Staggered(fs, g, map) \in Nat
  BY StaggeredNat DEF FsOK
<1>4. a = PlaceAll(r, g, Staggered(fs, g, map))
  BY <1>1 DEF AllocateGroupTable
<1>5. SearchOK(r)
  BY <1>2 DEF SearchOK
<1>6. r.ok
  BY <1>4, PlacedIfOK
<1>7. Furnished(r, a, g)
  BY <1>2, <1>3, <1>4, <1>5, <1>6, AllPlaced
<1>8. r = [fs |-> fs, map |-> map, ok |-> TRUE]
  BY <1>1, <1>2, <1>6 DEF Staggers
<1> QED
  BY <1>7, <1>8

(* The backups of a group lie within the file system.                      *)
LEMMA DescBlocksNat ==
    ASSUME NEW fs, fs.size \in Nat \ {0}
    PROVE  DescBlocks(fs) \in Nat
<1>1. PICK n : n = Groups(fs.size)
  OBVIOUS
<1>2. n \in Nat \ {0}
  BY <1>1, GroupsNat
<1>3. n + DescPerBlock - 1 \in Nat /\ DescPerBlock \in Nat \ {0}
  BY <1>2, Constants
<1>4. PICK u : u = n + DescPerBlock - 1
  OBVIOUS
<1>5. u \div DescPerBlock \in Nat
  BY <1>3, <1>4, Quotient
<1> QED
  BY <1>1, <1>4, <1>5 DEF DescBlocks

LEMMA BackupsInside ==
    ASSUME NEW fs, fs.size \in Nat \ {0}, fs.rsv \in Nat, NEW g \in Nat
    PROVE  SuperAndBgd(fs, g) \subseteq 0 .. fs.size - 1
<1>1. PICK n, f : n = 1 + DescBlocks(fs) + fs.rsv /\ f = FirstBlock(g)
  OBVIOUS
<1>2. n \in Nat
  BY <1>1, DescBlocksNat
<1>3. f \in Nat
  BY <1>1, Constants, TimesNat DEF FirstBlock
<1>4. {b \in Run(f, n) : b < fs.size} \subseteq 0 .. fs.size - 1
  BY <1>2, <1>3 DEF Run
<1> QED
  BY <1>1, <1>4 DEF SuperAndBgd

(* More blocks may be marked in a handle.                                  *)
Marked(fs, T) == [fs EXCEPT !.map = @ \cup T]

LEMMA MarkOK ==
    ASSUME NEW fs, NEW limit, FsOK(fs, limit), NEW T, T \subseteq 0 .. fs.size - 1,
           NEW next, next = Marked(fs, T)
    PROVE  /\ FsOK(next, limit) /\ Extends(fs, next) /\ next.gd = fs.gd /\ next.map = fs.map \cup T
           /\ GroupsOf(next) = GroupsOf(fs)
<1>1. /\ DOMAIN next = FsFields /\ next.gd = fs.gd /\ next.map = fs.map \cup T
      /\ \A p \in FsFields \ {"gd", "map"} : next[p] = fs[p]
  BY DEF FsOK, FsFields, Marked
<1>2. next.size = fs.size /\ next.rsv = fs.rsv /\ next.flex = fs.flex /\ next.stride = fs.stride
  BY <1>1 DEF FsFields
<1>3. GroupsOf(next) = GroupsOf(fs)
  BY <1>2 DEF GroupsOf
<1> QED
  BY <1>1, <1>2, <1>3 DEF FsOK, Extends

Bare(s) == \A p \in Parts : s[p] = Nowhere

\* The parts of a group lie apart, beside what was taken, and are marked.
Fresh(s, taken, map) ==
    /\ \A p \in Parts : Spot(s, p) \cap taken = {} /\ Spot(s, p) \subseteq map
    /\ \A p, o \in Parts : p # o => Spot(s, p) \cap Spot(s, o) = {}

(* A group that is added: the others stay, and its table is where nothing  *)
(* was marked before, as are all its parts if it had none.                 *)
LEMMA GroupAdded ==
    ASSUME NEW r, r.ok, FsOK(r.fs, r.fs.size), NEW g \in GroupsOf(r.fs), NEW q, q = WithGroup(r, g), q.ok
    PROVE  /\ FsOK(q.fs, q.fs.size) /\ Extends(r.fs, q.fs)
           /\ \A h \in GroupsOf(r.fs) : h # g => q.fs.gd[h] = r.fs.gd[h]
           /\ \A p \in Parts : q.fs.gd[g][p] # Nowhere
           /\ r.fs.gd[g].it = Nowhere => Table(q.fs.gd[g]) \cap r.fs.map = {}
           /\ Bare(r.fs.gd[g]) => Fresh(q.fs.gd[g], r.fs.map, q.fs.map)
<1>1. PICK fs : fs = Marked(r.fs, SuperAndBgd(r.fs, g))
  OBVIOUS
<1>2. SuperAndBgd(r.fs, g) \subseteq 0 .. r.fs.size - 1
  <2>1. r.fs.size \in Nat \ {0} /\ r.fs.rsv \in Nat
    BY DEF FsOK
  <2>2. g \in Nat
    BY <2>1, GroupNumbers
  <2> QED
    BY <2>1, <2>2, BackupsInside
<1>3. /\ FsOK(fs, r.fs.size) /\ Extends(r.fs, fs) /\ fs.gd = r.fs.gd /\ r.fs.map \subseteq fs.map
      /\ GroupsOf(fs) = GroupsOf(r.fs) /\ fs.size = r.fs.size
  BY <1>1, <1>2, MarkOK DEF Extends
<1>4. PICK a, c : a = AllocateGroupTable(fs, g, fs.map) /\ c = [fs |-> fs, map |-> fs.map, ok |-> TRUE]
  OBVIOUS
<1>5. q = [fs |-> [a.fs EXCEPT !.map = @ \cup a.map], ok |-> a.ok]
  BY <1>1, <1>4 DEF WithGroup, AllocateIn, Marked
<1>6. a.ok
  BY <1>5
<1>7. Furnished(c, a, g)
  <2>1. FsOK(fs, fs.size) /\ fs.map \subseteq 0 .. fs.size - 1 /\ g \in GroupsOf(fs)
    BY <1>3 DEF FsOK
  <2> QED
    BY <1>4, <1>6, <2>1, GroupTableAllocated
<1>8. c.fs = fs /\ c.map = fs.map
  BY <1>4
<1>9. SearchOK(a) /\ Extends(fs, a.fs)
  BY <1>7, <1>8 DEF Furnished
<1>10. FsOK(a.fs, a.fs.size) /\ a.map \subseteq 0 .. a.fs.size - 1
  BY <1>9 DEF SearchOK
<1>11. q.fs = Marked(a.fs, a.map)
  BY <1>5 DEF Marked
<1>12. FsOK(q.fs, a.fs.size) /\ Extends(a.fs, q.fs) /\ q.fs.gd = a.fs.gd
  BY <1>10, <1>11, MarkOK
<1>13. FsOK(q.fs, q.fs.size) /\ Extends(r.fs, q.fs)
  BY <1>3, <1>9, <1>12 DEF Extends
<1>14. /\ \A h \in GroupsOf(r.fs) : h # g => q.fs.gd[h] = r.fs.gd[h]
       /\ \A p \in Parts : q.fs.gd[g][p] # Nowhere
  BY <1>3, <1>7, <1>8, <1>12 DEF Furnished
<1>15. r.fs.gd[g].it = Nowhere => Table(q.fs.gd[g]) \cap r.fs.map = {}
  <2>1. r.fs.gd[g].it = Nowhere => Table(a.fs.gd[g]) \cap fs.map = {}
    BY <1>3, <1>7, <1>8 DEF Furnished
  <2> QED
    BY <1>3, <1>12, <2>1
<1>16. ASSUME Bare(r.fs.gd[g]) PROVE Fresh(q.fs.gd[g], r.fs.map, q.fs.map)
  <2>1. \A p \in Parts : Lost(c, g, p)
    BY <1>3, <1>8, <1>16 DEF Bare, Lost
  <2>2. q.fs.map = a.fs.map \cup a.map
    BY <1>10, <1>11, MarkOK
  <2>3. \A p \in Parts : Spot(a.fs.gd[g], p) \cap fs.map = {} /\ Spot(a.fs.gd[g], p) \subseteq a.map \cup a.fs.map
    BY <1>7, <1>8, <2>1 DEF Furnished, KeptOrNew
  <2>4. \A p, o \in Parts : p # o => Spot(a.fs.gd[g], p) \cap Spot(a.fs.gd[g], o) = {}
    BY <1>7, <2>1 DEF Furnished, Avoided
  <2> QED
    BY <1>3, <1>12, <2>2, <2>3, <2>4 DEF Fresh
<1> QED
  BY <1>13, <1>14, <1>15, <1>16

(***************************************************************************)
(* The loops over groups.  Each is a recursive function of the number of   *)
(* groups done; that there is such a function has to be shown.             *)
(***************************************************************************)
\* One round: of the loops of mke2fs and of adjust_fs_info, where c is empty,
\* or of blocks_to_move, where c has the old file system and its metadata.
Round(c, r, g) == IF c = << >> THEN WithGroup(r, g) ELSE Reallocated(r, c[1], c[2], g)

\* f is the loop up to round n: it starts from b after the first t rounds.
LoopTo(f, c, b, t, n) ==
    \A g \in 0 .. n : f[g] = IF g <= t THEN b ELSE Round(c, f[g - 1], g - 1)

LEMMA LoopToExists ==
    ASSUME NEW c, NEW b, NEW t \in Nat, NEW n \in Nat
    PROVE  \E f : LoopTo(f, c, b, t, n)
<1> DEFINE T == {m \in Nat : ~ \E f : LoopTo(f, c, b, t, m)}
<1> SUFFICES ASSUME T # {} PROVE FALSE
  OBVIOUS
<1>1. PICK m \in T : \A j \in T : m <= j
  BY LeastNatural
<1>2. CASE m = 0
  <2>1. LoopTo([g \in Nat |-> b], c, b, t, 0)
    BY DEF LoopTo
  <2> QED
    BY <1>2, <2>1
<1>3. CASE m > 0
  <2>1. m - 1 \in Nat /\ ~(m - 1 \in T)
    BY <1>1, <1>3
  <2>2. PICK f : LoopTo(f, c, b, t, m - 1)
    BY <2>1
  <2> DEFINE h == [g \in Nat |-> IF g < m THEN f[g] ELSE IF g <= t THEN b ELSE Round(c, f[g - 1], g - 1)]
  <2>3. ASSUME NEW g \in 0 .. m PROVE h[g] = IF g <= t THEN b ELSE Round(c, h[g - 1], g - 1)
    <3>1. g \in Nat
      OBVIOUS
    <3>2. g > 0 => h[g - 1] = f[g - 1]
      BY <1>1
    <3>3. CASE g < m
      <4>1. h[g] = f[g] /\ g \in 0 .. m - 1
        BY <1>1, <3>1, <3>3
      <4>2. f[g] = IF g <= t THEN b ELSE Round(c, f[g - 1], g - 1)
        BY <2>2, <4>1 DEF LoopTo
      <4>3. ~(g <= t) => g > 0
        BY <3>1
      <4> QED
        BY <3>2, <4>1, <4>2, <4>3
    <3>4. CASE ~(g < m)
      <4>1. h[g] = IF g <= t THEN b ELSE Round(c, f[g - 1], g - 1)
        BY <3>1, <3>4
      <4>2. g > 0
        BY <1>1, <1>3, <3>4
      <4> QED
        BY <3>2, <4>1, <4>2
    <3> QED
      BY <3>3, <3>4
  <2>4. LoopTo(h, c, b, t, m)
    <3> HIDE DEF h
    <3> QED
      BY <2>3 DEF LoopTo
  <2> QED
    BY <2>4
<1> QED
  BY <1>1, <1>2, <1>3

LEMMA LoopToUnique ==
    ASSUME NEW c, NEW b, NEW t \in Nat, NEW n \in Nat, NEW i \in Nat, i <= n,
           NEW f, LoopTo(f, c, b, t, i), NEW h, LoopTo(h, c, b, t, n)
    PROVE  f[i] = h[i]
<1> DEFINE T == {g \in 0 .. i : f[g] # h[g]}
<1> SUFFICES ASSUME T # {} PROVE FALSE
  OBVIOUS
<1>a. T \subseteq Nat
  OBVIOUS
<1>1. PICK m \in T : \A j \in T : m <= j
  <2> HIDE DEF T
  <2> QED
    BY <1>a, LeastNatural
<1>2. /\ f[m] = IF m <= t THEN b ELSE Round(c, f[m - 1], m - 1)
      /\ h[m] = IF m <= t THEN b ELSE Round(c, h[m - 1], m - 1)
  BY <1>1 DEF LoopTo
<1>3. ~(m <= t)
  BY <1>1, <1>2
<1>4. m - 1 \in 0 .. i /\ ~(m <= m - 1)
  BY <1>1, <1>3
<1>5. f[m - 1] = h[m - 1]
  BY <1>1, <1>4
<1> QED
  BY <1>1, <1>2, <1>3, <1>5

\* f is the whole loop.
Loop(f, c, b, t) == \A g \in Nat : f[g] = IF g <= t THEN b ELSE Round(c, f[g - 1], g - 1)
IsFcn(f) == f = [g \in Nat |-> f[g]]

LEMMA LoopExists ==
    ASSUME NEW c, NEW b, NEW t \in Nat
    PROVE  \E f : IsFcn(f) /\ Loop(f, c, b, t)
<1> DEFINE A(n) == CHOOSE f : LoopTo(f, c, b, t, n)
           F == [n \in Nat |-> A(n)[n]]
<1>1. ASSUME NEW n \in Nat PROVE LoopTo(A(n), c, b, t, n)
  BY LoopToExists
<1>2. ASSUME NEW g \in Nat PROVE F[g] = IF g <= t THEN b ELSE Round(c, F[g - 1], g - 1)
  <2>1. LoopTo(A(g), c, b, t, g) /\ F[g] = A(g)[g]
    BY <1>1
  <2>2. A(g)[g] = IF g <= t THEN b ELSE Round(c, A(g)[g - 1], g - 1)
    BY <2>1 DEF LoopTo
  <2>3. ASSUME ~(g <= t) PROVE A(g)[g - 1] = F[g - 1]
    <3>1. g - 1 \in Nat /\ g - 1 <= g
      BY <2>3
    <3>2. LoopTo(A(g - 1), c, b, t, g - 1) /\ F[g - 1] = A(g - 1)[g - 1]
      BY <1>1, <3>1
    <3> HIDE DEF A, F
    <3> QED
      BY <2>1, <3>1, <3>2, LoopToUnique
  <2> HIDE DEF A, F
  <2> QED
    BY <2>1, <2>2, <2>3
<1>3. IsFcn(F)
  BY DEF IsFcn
<1>4. Loop(F, c, b, t)
  <2> HIDE DEF F
  <2> QED
    BY <1>2 DEF Loop
<1> QED
  BY <1>3, <1>4

\* What adding the groups t .. n - 1 to a handle has made of it.
Added(fs, next, t, n) ==
    /\ FsOK(next, next.size) /\ Extends(fs, next)
    /\ \A h \in GroupsOf(fs) : (h < t \/ h >= n) => next.gd[h] = fs.gd[h]
    /\ \A h \in GroupsOf(fs) : (h >= t /\ h < n) => \A p \in Parts : next.gd[h][p] # Nowhere
    /\ \A h \in GroupsOf(fs) : (h >= t /\ h < n /\ fs.gd[h].it = Nowhere) => Table(next.gd[h]) \cap fs.map = {}
    /\ \A h \in GroupsOf(fs) : (h >= t /\ h < n /\ Bare(fs.gd[h])) => Fresh(next.gd[h], fs.map, next.map)
    /\ \A g, h \in GroupsOf(fs) :
         (g >= t /\ g < h /\ h < n /\ Bare(fs.gd[g]) /\ Bare(fs.gd[h]))
           => \A p, o \in Parts : Spot(next.gd[g], p) \cap Spot(next.gd[h], o) = {}

LEMMA LoopAdds ==
    ASSUME NEW fs, FsOK(fs, fs.size), NEW t \in Nat, NEW n \in Nat, t <= n, n <= Groups(fs.size),
           NEW f, Loop(f, << >>, [fs |-> fs, ok |-> TRUE], t), f[n].ok
    PROVE  Added(fs, f[n].fs, t, n)
<1>g. fs.size \in Nat \ {0} /\ Groups(fs.size) \in Nat
  BY GroupsNat DEF FsOK
<1> DEFINE T == {m \in Nat : t <= m /\ m <= n /\ f[m].ok /\ ~Added(fs, f[m].fs, t, m)}
<1> SUFFICES ASSUME T # {} PROVE FALSE
  OBVIOUS
<1>1. PICK m \in T : \A j \in T : m <= j
  <2>1. T \subseteq Nat
    OBVIOUS
  <2> HIDE DEF T
  <2> QED
    BY <2>1, LeastNatural
<1>2. CASE m = t
  <2>1. f[m] = [fs |-> fs, ok |-> TRUE]
    BY <1>2 DEF Loop
  <2>2. f[m].fs = fs
    BY <2>1
  <2>3. \A h \in GroupsOf(fs) : ~(h >= t /\ h < t)
    BY DEF GroupsOf
  <2>a. \A g, h \in GroupsOf(fs) : ~(g >= t /\ g < h /\ h < t)
    BY DEF GroupsOf
  <2>4. Added(fs, fs, t, t)
    BY <2>3, <2>a DEF Added, Extends
  <2> QED
    BY <1>1, <1>2, <2>2, <2>4
<1>3. CASE m # t
  <2>1. m - 1 \in Nat /\ t <= m - 1 /\ m - 1 <= n /\ m \in Nat /\ ~(m <= t)
    BY <1>1, <1>3
  <2>2. f[m] = WithGroup(f[m - 1], m - 1)
    BY <2>1 DEF Loop, Round
  <2>3. PICK r, q, g : r = f[m - 1] /\ q = f[m] /\ g = m - 1
    OBVIOUS
  <2>4. q = WithGroup(r, g) /\ q.ok
    BY <1>1, <2>2, <2>3
  <2>5. r.ok
    BY <2>4 DEF WithGroup
  <2>6. Added(fs, r.fs, t, g)
    <3>1. ~(g \in T)
      BY <1>1, <2>1, <2>3
    <3> QED
      BY <2>1, <2>3, <2>5, <3>1
  <2>7. g \in GroupsOf(fs)
    BY <1>1, <1>g, <2>1, <2>3 DEF GroupsOf
  <2>8. FsOK(r.fs, r.fs.size) /\ Extends(fs, r.fs) /\ GroupsOf(r.fs) = GroupsOf(fs)
    BY <2>6 DEF Added, Extends, GroupsOf
  <2>9. /\ FsOK(q.fs, q.fs.size) /\ Extends(r.fs, q.fs)
        /\ \A h \in GroupsOf(fs) : h # g => q.fs.gd[h] = r.fs.gd[h]
        /\ \A p \in Parts : q.fs.gd[g][p] # Nowhere
        /\ r.fs.gd[g].it = Nowhere => Table(q.fs.gd[g]) \cap r.fs.map = {}
        /\ Bare(r.fs.gd[g]) => Fresh(q.fs.gd[g], r.fs.map, q.fs.map)
    BY <2>4, <2>5, <2>7, <2>8, GroupAdded
  <2>10. Extends(fs, q.fs)
    BY <2>8, <2>9 DEF Extends
  <2>11. r.fs.gd[g] = fs.gd[g]
    BY <2>1, <2>3, <2>6, <2>7, SMTT(30) DEF Added
  <2>12. \A h \in GroupsOf(fs) : h \in Nat
    BY <1>g DEF GroupsOf
  <2>13. \A h \in GroupsOf(fs) : /\ (h < t \/ h >= m) => h # g /\ (h < t \/ h >= g)
                                 /\ (h >= t /\ h < m) => h = g \/ (h # g /\ h >= t /\ h < g)
    BY <2>1, <2>3, <2>12
  <2>14. \A h \in GroupsOf(fs) : (h < t \/ h >= m) => q.fs.gd[h] = fs.gd[h]
    BY <2>6, <2>9, <2>13 DEF Added
  <2>15. \A h \in GroupsOf(fs) : (h >= t /\ h < m) => \A p \in Parts : q.fs.gd[h][p] # Nowhere
    BY <2>6, <2>9, <2>13, SMTT(30) DEF Added
  <2>16. ASSUME NEW h \in GroupsOf(fs), h >= t, h < m, fs.gd[h].it = Nowhere
         PROVE  Table(q.fs.gd[h]) \cap fs.map = {}
    <3>1. fs.map \subseteq r.fs.map
      BY <2>8 DEF Extends
    <3>2. CASE h = g
      BY <2>9, <2>11, <2>16, <3>1, <3>2
    <3>3. CASE h # g
      BY <2>6, <2>9, <2>13, <2>16, <3>3 DEF Added
    <3> QED
      BY <3>2, <3>3
  <2>17. fs.map \subseteq r.fs.map /\ r.fs.map \subseteq q.fs.map
    BY <2>8, <2>9 DEF Extends
  <2>18. ASSUME NEW h \in GroupsOf(fs), h >= t, h < m, Bare(fs.gd[h])
         PROVE  Fresh(q.fs.gd[h], fs.map, q.fs.map)
    <3>1. CASE h = g
      BY <2>9, <2>11, <2>17, <2>18, <3>1 DEF Fresh
    <3>2. CASE h # g
      <4>1. Fresh(r.fs.gd[h], fs.map, r.fs.map)
        BY <2>6, <2>13, <2>18, <3>2 DEF Added
      <4> QED
        BY <2>9, <2>17, <3>2, <4>1 DEF Fresh
    <3> QED
      BY <3>1, <3>2
  <2>19. ASSUME NEW i \in GroupsOf(fs), NEW h \in GroupsOf(fs), i >= t, i < h, h < m,
                Bare(fs.gd[i]), Bare(fs.gd[h]), NEW p \in Parts, NEW o \in Parts
         PROVE  Spot(q.fs.gd[i], p) \cap Spot(q.fs.gd[h], o) = {}
    <3>1. i \in Nat /\ h \in Nat /\ i # g /\ i < g /\ i < m
      BY <2>1, <2>3, <2>12, <2>19
    <3>2. q.fs.gd[i] = r.fs.gd[i]
      BY <2>9, <3>1
    <3>3. CASE h = g
      <4>1. Spot(r.fs.gd[i], p) \subseteq r.fs.map
        BY <2>6, <2>19, <3>1 DEF Added, Fresh
      <4>2. Spot(q.fs.gd[g], o) \cap r.fs.map = {}
        BY <2>9, <2>11, <2>19, <3>3 DEF Fresh
      <4> QED
        BY <3>2, <3>3, <4>1, <4>2
    <3>4. CASE h # g
      <4>1. h < g /\ q.fs.gd[h] = r.fs.gd[h]
        BY <2>1, <2>3, <2>9, <2>19, <3>1, <3>4
      <4>2. Spot(r.fs.gd[i], p) \cap Spot(r.fs.gd[h], o) = {}
        BY <2>6, <2>19, <4>1 DEF Added
      <4> QED
        BY <3>2, <4>1, <4>2
    <3> QED
      BY <3>3, <3>4
  <2>20. Added(fs, q.fs, t, m)
    BY <2>9, <2>10, <2>14, <2>15, <2>16, <2>18, <2>19 DEF Added
  <2> QED
    BY <1>1, <2>3, <2>20
<1> QED
  BY <1>2, <1>3

\* The three loops, as they are written.
MkfsLoop(f, b) == f = [g \in Nat |-> IF g = 0 THEN b ELSE WithGroup(f[g - 1], g - 1)]
GrowLoop(f, b, t) == f = [g \in Nat |-> IF g <= t THEN b ELSE WithGroup(f[g - 1], g - 1)]
MoveLoop(f, b, fs, meta) == f = [g \in Nat |-> IF g = 0 THEN b ELSE Reallocated(f[g - 1], fs, meta, g - 1)]

LEMMA MkfsLoopExists ==
    ASSUME NEW b
    PROVE  (\E f : MkfsLoop(f, b)) /\ \A f : MkfsLoop(f, b) => Loop(f, << >>, b, 0)
<1>1. PICK f : IsFcn(f) /\ Loop(f, << >>, b, 0)
  BY LoopExists
<1>2. \A g \in Nat : g <= 0 <=> g = 0
  OBVIOUS
<1>3. MkfsLoop(f, b)
  BY <1>1, <1>2 DEF MkfsLoop, Loop, IsFcn, Round
<1>4. ASSUME NEW h, MkfsLoop(h, b) PROVE Loop(h, << >>, b, 0)
  BY <1>2, <1>4 DEF MkfsLoop, Loop, Round
<1> QED
  BY <1>3, <1>4

LEMMA GrowLoopExists ==
    ASSUME NEW b, NEW t \in Nat
    PROVE  (\E f : GrowLoop(f, b, t)) /\ \A f : GrowLoop(f, b, t) => Loop(f, << >>, b, t)
<1>1. PICK f : IsFcn(f) /\ Loop(f, << >>, b, t)
  BY LoopExists
<1>2. GrowLoop(f, b, t)
  BY <1>1 DEF GrowLoop, Loop, IsFcn, Round
<1>3. ASSUME NEW h, GrowLoop(h, b, t) PROVE Loop(h, << >>, b, t)
  BY <1>3 DEF GrowLoop, Loop, Round
<1> QED
  BY <1>2, <1>3

LEMMA MoveLoopExists ==
    ASSUME NEW b, NEW fs, NEW meta
    PROVE  (\E f : MoveLoop(f, b, fs, meta)) /\ \A f : MoveLoop(f, b, fs, meta) => Loop(f, <<fs, meta>>, b, 0)
<1>1. PICK f : IsFcn(f) /\ Loop(f, <<fs, meta>>, b, 0)
  BY LoopExists
<1>2. \A g \in Nat : g <= 0 <=> g = 0
  OBVIOUS
<1>3. \A r, g : Round(<<fs, meta>>, r, g) = Reallocated(r, fs, meta, g)
  BY DEF Round
<1>4. MoveLoop(f, b, fs, meta)
  BY <1>1, <1>2, <1>3 DEF MoveLoop, Loop, IsFcn
<1>5. ASSUME NEW h, MoveLoop(h, b, fs, meta) PROVE Loop(h, <<fs, meta>>, b, 0)
  BY <1>2, <1>3, <1>5 DEF MoveLoop, Loop
<1> QED
  BY <1>4, <1>5

(* mke2fs marks the descriptor regions and gives all groups their parts.   *)
LEMMA MadeAdded ==
    ASSUME NEW f \in Formats
    PROVE  \E from : /\ FsOK(from, from.size) /\ from.size = f.size /\ from.rsv = f.rsv
                     /\ from.map = Regions(from, from) /\ \A g \in GroupsOf(from) : Bare(from.gd[g])
                     /\ Added(from, Mkfs(f).fs, 0, Groups(f.size))
                     /\ from.flex = f.flex /\ from.ri = f.ri
                     /\ \E l : Loop(l, << >>, [fs |-> from, ok |-> TRUE], 0) /\ Mkfs(f) = l[Groups(f.size)]
<1> DEFINE n == Groups(f.size)
           bare == [size |-> f.size, rsv |-> f.rsv, ri |-> f.ri, flex |-> f.flex, stride |-> f.stride,
                    jino |-> 0, jnl |-> << >>, error |-> FALSE, orig |-> << >>,
                    gd |-> [g \in 0 .. n - 1 |-> NoStructures], map |-> {}]
           T == UNION {SuperAndBgd(bare, h) : h \in 0 .. n - 1}
           from == Marked(bare, T)
           start == [fs |-> from, ok |-> TRUE]
<1>1. f.size \in Nat \ {0} /\ f.rsv \in Nat /\ f.flex \in Nat \ {0} /\ f.stride \in Nat
  BY ResizeFsAssumption
<1>2. n \in Nat \ {0}
  BY <1>1, GroupsNat
<1>3. bare.size = f.size /\ bare.rsv = f.rsv /\ GroupsOf(bare) = 0 .. n - 1
  BY DEF GroupsOf
<1>4. FsOK(bare, f.size)
  <2>1. GroupOK(NoStructures, f.size)
    BY DEF GroupOK, NoStructures, Parts, SpotOK, Nowhere
  <2>2. /\ DOMAIN bare = FsFields /\ bare.flex = f.flex /\ bare.stride = f.stride /\ bare.map = {}
        /\ bare.gd = [g \in 0 .. n - 1 |-> NoStructures]
    BY DEF FsFields
  <2> HIDE DEF bare, n
  <2> QED
    BY <1>1, <1>3, <2>1, <2>2 DEF FsOK
<1>5. T \subseteq 0 .. bare.size - 1
  <2> HIDE DEF bare, n
  <2>1. \A h \in 0 .. n - 1 : h \in Nat
    BY <1>2
  <2>2. \A h \in 0 .. n - 1 : SuperAndBgd(bare, h) \subseteq 0 .. bare.size - 1
    BY <1>1, <1>3, <2>1, BackupsInside
  <2> QED
    BY <2>2
<1>6. FsOK(from, from.size) /\ from.size = f.size /\ Extends(bare, from)
  <2> HIDE DEF bare, T
  <2>1. FsOK(from, f.size) /\ Extends(bare, from)
    BY <1>3, <1>4, <1>5, MarkOK
  <2> QED
    BY <1>3, <2>1 DEF Extends
<1>7. PICK l : MkfsLoop(l, start) /\ Mkfs(f) = l[n]
  <2>1. \E l : MkfsLoop(l, start)
    BY MkfsLoopExists
  <2> QED
    BY <2>1 DEF MkfsLoop, Mkfs, Marked
<1>8. Loop(l, << >>, start, 0)
  BY <1>7, MkfsLoopExists
<1>9. l[n].ok
  BY <1>7, FormatsAssumption
<1>10. Added(from, l[n].fs, 0, n)
  <2> HIDE DEF from
  <2>1. n <= Groups(from.size) /\ 0 <= n /\ n \in Nat
    BY <1>2, <1>6
  <2> HIDE DEF n
  <2> QED
    BY <1>6, <1>8, <1>9, <2>1, LoopAdds
<1>11. from.map = Regions(from, from) /\ from.rsv = f.rsv /\ from.gd = bare.gd /\ GroupsOf(from) = 0 .. n - 1
  <2>1. from.map = T /\ from.rsv = bare.rsv /\ from.gd = bare.gd /\ from.size = bare.size
    <3>1. FsOK(bare, f.size) /\ bare.map = {}
      BY <1>4
    <3> HIDE DEF bare, T
    <3>2. from = Marked(bare, T)
      OBVIOUS
    <3> HIDE DEF from
    <3>3. Extends(bare, from) /\ from.gd = bare.gd /\ from.map = bare.map \cup T
      BY <1>5, <3>1, <3>2, MarkOK, ZenonT(30)
    <3> QED
      BY <3>1, <3>3 DEF Extends, FsFields
  <2> HIDE DEF bare, from
  <2>2. GroupsOf(from) = GroupsOf(bare) /\ DescBlocks(from) = DescBlocks(bare)
    BY <2>1 DEF GroupsOf, DescBlocks
  <2>3. \A h : SuperAndBgd(from, h) = SuperAndBgd(bare, h)
    BY <2>1, <2>2 DEF SuperAndBgd
  <2> QED
    BY <1>3, <2>1, <2>2, <2>3 DEF Regions
<1>12. \A g \in GroupsOf(from) : Bare(from.gd[g])
  <2>1. Bare(NoStructures)
    BY DEF Bare, NoStructures, Parts
  <2>2. bare.gd = [g \in 0 .. n - 1 |-> NoStructures]
    OBVIOUS
  <2> HIDE DEF bare, from
  <2> QED
    BY <1>11, <2>1, <2>2
<1>13. from.flex = f.flex /\ from.ri = f.ri
  <2>1. bare.flex = f.flex /\ bare.ri = f.ri
    OBVIOUS
  <2> HIDE DEF bare, from
  <2> QED
    BY <1>6, <2>1 DEF Extends, FsFields
<1>14. \E h : Loop(h, << >>, [fs |-> from, ok |-> TRUE], 0) /\ Mkfs(f) = h[n]
  BY <1>7, <1>8
<1> HIDE DEF from, bare
<1> QED
  BY <1>6, <1>7, <1>10, <1>11, <1>12, <1>13, <1>14

(* mke2fs puts every structure within the file system.                     *)
LEMMA MadeOK ==
    ASSUME NEW f \in Formats
    PROVE  LET fs == Mkfs(f).fs IN FsOK(fs, fs.size) /\ fs.size = f.size /\ fs.rsv = f.rsv
<1>1. PICK from : from.size = f.size /\ from.rsv = f.rsv /\ Added(from, Mkfs(f).fs, 0, Groups(f.size))
  BY MadeAdded
<1>2. PICK fs : fs = Mkfs(f).fs
  OBVIOUS
<1>3. Extends(from, fs) /\ FsOK(fs, fs.size)
  BY <1>1, <1>2 DEF Added
<1>4. fs.rsv = from.rsv /\ fs.size = from.size
  BY <1>3 DEF Extends, FsFields
<1> QED
  BY <1>1, <1>2, <1>3, <1>4

(***************************************************************************)
(* Phase 1.                                                                *)
(***************************************************************************)
\* The blocks that the last group of a file system of this size needs.
Overhead(fs, size) ==
    2 + InodeBlocks
      + (IF HasSuper(Groups(size) - 1) THEN 1 + ((Groups(size) + DescPerBlock - 1) \div DescPerBlock) + fs.rsv ELSE 0)

LEMMA FittedIs ==
    ASSUME NEW fs, "size" \in DOMAIN fs, NEW size
    PROVE  Fitted(fs, size) =
             IF Groups(size) > 1 /\ size % PerGroup # 0 /\ size % PerGroup < Overhead(fs, size) + Slack
               THEN size - (size % PerGroup) ELSE size
<1>1. DescBlocks([fs EXCEPT !.size = size]) = (Groups(size) + DescPerBlock - 1) \div DescPerBlock
  BY DEF DescBlocks
<1> QED
  BY <1>1 DEF Fitted, Overhead

(* A group that is given up was not there before: the size that is taken   *)
(* is never less than the old one.                                         *)
LEMMA FittedGrows ==
    ASSUME NEW fs, "size" \in DOMAIN fs, fs.rsv \in Nat, fs.size \in Nat \ {0}, Fitted(fs, fs.size) = fs.size,
           NEW size \in Nat, fs.size < size
    PROVE  Fitted(fs, size) \in Nat /\ fs.size <= Fitted(fs, size) /\ Fitted(fs, size) <= size
<1>1. PICK q, r, n : q = size \div PerGroup /\ r = size % PerGroup /\ n = PerGroup
  OBVIOUS
<1>2. n \in Nat \ {0} /\ q \in Nat /\ r \in 0 .. n - 1 /\ size = q * n + r /\ q * n \in Nat
  BY <1>1, Constants, Quotient
<1>3. CASE Fitted(fs, size) = size
  BY <1>3
<1>4. CASE Fitted(fs, size) # size
  <2>1. /\ Groups(size) > 1 /\ r # 0 /\ r < Overhead(fs, size) + Slack
        /\ Fitted(fs, size) = size - r
    BY <1>1, <1>4, FittedIs
  <2>2. Fitted(fs, size) = q * n
    BY <1>2, <2>1
  <2>3. ASSUME ~(fs.size <= q * n) PROVE FALSE
    <3>1. PICK s : s = fs.size
      OBVIOUS
    <3>2. s \in Nat \ {0} /\ q * n < s /\ s < size /\ s < q * n + n
      BY <1>2, <2>3, <3>1
    <3>a. PICK w, e, v : w = q * n /\ e = s % n /\ v = Overhead(fs, size) + Slack
      OBVIOUS
    <3>b. e = s - w /\ w \in Nat
      <4>1. s \in Nat /\ q * n <= s /\ s < q * n + n
        BY <1>2, <3>2
      <4>2. s % n = s - q * n
        BY <1>2, <4>1, DivUnique
      <4> QED
        BY <1>2, <3>a, <4>2
    <3>3. e \in Nat \ {0} /\ e < r
      BY <1>2, <3>2, <3>a, <3>b
    <3>4. Groups(size) = q + 1 /\ Groups(s) = q + 1
      BY <1>1, <1>2, <2>1, <3>2, GroupsUnique
    <3>5. Overhead(fs, s) = Overhead(fs, size)
      BY <3>4 DEF Overhead
    <3>6. Overhead(fs, size) + Slack \in Int
      <4>1. PICK a : a = (Groups(size) + DescPerBlock - 1) \div DescPerBlock
        OBVIOUS
      <4>2. a \in Int
        BY <1>2, <3>4, <4>1, Constants
      <4>3. Overhead(fs, size) = 2 + InodeBlocks + (IF HasSuper(Groups(size) - 1) THEN 1 + a + fs.rsv ELSE 0)
        BY <4>1 DEF Overhead
      <4> QED
        BY <4>2, <4>3, Constants
    <3>7. e < v
      BY <1>2, <2>1, <3>3, <3>6, <3>a
    <3>8. Fitted(fs, s) = s - e
      BY <1>1, <2>1, <3>3, <3>4, <3>5, <3>7, <3>a, FittedIs
    <3> QED
      BY <3>1, <3>2, <3>3, <3>8
  <2> QED
    BY <1>2, <2>2, <2>3
<1> QED
  BY <1>3, <1>4

LEMMA ResizedOK ==
    ASSUME NEW fs, FsOK(fs, fs.size), NEW size \in Nat, fs.size <= size, NEW next, next = Resized(fs, size)
    PROVE  /\ FsOK(next, next.size) /\ next.size = size /\ next.map = fs.map
           /\ GroupsOf(fs) \subseteq GroupsOf(next)
           /\ \A g \in GroupsOf(next) : next.gd[g] = IF g \in GroupsOf(fs) THEN fs.gd[g] ELSE NoStructures
           /\ next.ri = fs.ri /\ next.flex = fs.flex
           /\ next.rsv = AdjustReservedGdtBlocks(fs, [fs EXCEPT !.size = size])
<1>1. PICK mid : mid = [fs EXCEPT !.size = size]
  OBVIOUS
<1>2. next = [mid EXCEPT !.rsv = AdjustReservedGdtBlocks(fs, mid),
                         !.gd = [g \in GroupsOf(mid) |-> IF g \in DOMAIN @ THEN @[g] ELSE NoStructures]]
  BY <1>1 DEF Resized
<1>3. /\ DOMAIN fs = FsFields /\ fs.size \in Nat \ {0} /\ fs.rsv \in Nat /\ DOMAIN fs.gd = GroupsOf(fs)
      /\ fs.flex \in Nat \ {0} /\ fs.stride \in Nat
      /\ fs.map \subseteq 0 .. fs.size - 1 /\ \A g \in GroupsOf(fs) : GroupOK(fs.gd[g], fs.size)
  BY DEF FsOK
<1>4. /\ DOMAIN mid = FsFields /\ mid.size = size /\ mid.gd = fs.gd /\ mid.map = fs.map /\ mid.rsv = fs.rsv
      /\ mid.flex = fs.flex /\ mid.stride = fs.stride /\ mid.ri = fs.ri
  BY <1>1, <1>3 DEF FsFields
<1>5. /\ DOMAIN next = FsFields /\ next.size = size /\ next.map = fs.map /\ next.ri = fs.ri
      /\ next.flex = fs.flex /\ next.stride = fs.stride /\ next.rsv = AdjustReservedGdtBlocks(fs, mid)
      /\ next.gd = [g \in GroupsOf(mid) |-> IF g \in GroupsOf(fs) THEN fs.gd[g] ELSE NoStructures]
  BY <1>2, <1>3, <1>4 DEF FsFields
<1>6. size \in Nat \ {0}
  BY <1>3
<1>7. AdjustReservedGdtBlocks(fs, mid) \in Nat
  <2>1. DescBlocks(fs) \in Nat /\ DescBlocks(mid) \in Nat
    BY <1>3, <1>4, <1>6, DescBlocksNat
  <2> QED
    BY <1>3, <2>1, Constants DEF AdjustReservedGdtBlocks
<1>8. GroupsOf(next) = GroupsOf(mid)
  BY <1>4, <1>5 DEF GroupsOf
<1>9. \A g \in GroupsOf(next) : next.gd[g] = IF g \in GroupsOf(fs) THEN fs.gd[g] ELSE NoStructures
  BY <1>5, <1>8
<1>10. GroupsOf(fs) \subseteq GroupsOf(next)
  <2>1. PICK a, b : a = Groups(fs.size) /\ b = Groups(size)
    OBVIOUS
  <2>2. a \in Nat /\ b \in Nat /\ a <= b
    BY <1>3, <1>6, <2>1, GroupsNat, GroupsMonotone
  <2> QED
    BY <1>5, <2>1, <2>2 DEF GroupsOf
<1>11. \A g \in GroupsOf(next) : GroupOK(next.gd[g], size)
  <2>1. GroupOK(NoStructures, size)
    BY DEF GroupOK, NoStructures, Parts, SpotOK, Nowhere
  <2>2. ASSUME NEW g \in GroupsOf(fs) PROVE GroupOK(fs.gd[g], size)
    <3>1. GroupOK(fs.gd[g], fs.size)
      BY <1>3
    <3>2. \A p \in Parts : Size(p) \in Nat
      BY Constants DEF Size
    <3> QED
      BY <1>3, <1>6, <3>1, <3>2 DEF GroupOK, SpotOK
  <2> QED
    BY <1>9, <2>1, <2>2
<1>12. fs.map \subseteq 0 .. size - 1
  BY <1>3, <1>6
<1>13. FsOK(next, size)
  BY <1>3, <1>5, <1>6, <1>7, <1>8, <1>11, <1>12 DEF FsOK
<1> QED
  BY <1>1, <1>5, <1>9, <1>10, <1>13

LEMMA StructuresInside ==
    ASSUME NEW s, NEW limit \in Nat, GroupOK(s, limit)
    PROVE  Structures(s) \subseteq 1 .. limit - 1
<1>1. /\ s.bbm \in Nat /\ (s.bbm # Nowhere => s.bbm + 1 <= limit)
      /\ s.ibm \in Nat /\ (s.ibm # Nowhere => s.ibm + 1 <= limit)
      /\ s.it \in Nat /\ (s.it # Nowhere => s.it + InodeBlocks <= limit)
  BY DEF GroupOK, SpotOK, Parts, Size
<1>2. {s.bbm, s.ibm} \ {Nowhere} \subseteq 1 .. limit - 1
  BY <1>1 DEF Nowhere
<1>3. Table(s) \subseteq 1 .. limit - 1
  BY <1>1, Constants DEF Table, Run, Nowhere
<1> QED
  BY <1>2, <1>3 DEF Structures

LEMMA MetaInside ==
    ASSUME NEW fs, FsOK(fs, fs.size)
    PROVE  MetaBlocks(fs) \subseteq 0 .. fs.size - 1
<1>1. fs.size \in Nat \ {0} /\ fs.rsv \in Nat /\ \A g \in GroupsOf(fs) : GroupOK(fs.gd[g], fs.size)
  BY DEF FsOK
<1>2. \A g \in GroupsOf(fs) : SuperAndBgd(fs, g) \subseteq 0 .. fs.size - 1
  BY <1>1, GroupNumbers, BackupsInside
<1>3. \A g \in GroupsOf(fs) : Structures(fs.gd[g]) \subseteq 0 .. fs.size - 1
  <2>1. \A g \in GroupsOf(fs) : Structures(fs.gd[g]) \subseteq 1 .. fs.size - 1
    BY <1>1, StructuresInside
  <2>2. 1 .. fs.size - 1 \subseteq 0 .. fs.size - 1
    BY <1>1
  <2> QED
    BY <2>1, <2>2
<1> QED
  BY <1>2, <1>3 DEF MetaBlocks

\* What phase 1 makes of a handle: it marks more, keeps the groups there are,
\* and puts the tables of the others where nothing was marked.
Enlarged(fs, next, reserved) ==
    /\ FsOK(next, next.size) /\ fs.size <= next.size /\ fs.map \subseteq next.map
    /\ GroupsOf(fs) \subseteq GroupsOf(next) /\ reserved \subseteq 0 .. next.size - 1
    /\ \A g \in GroupsOf(fs) : next.gd[g] = fs.gd[g]
    /\ \A g \in GroupsOf(next) \ GroupsOf(fs) : next.gd[g].it # Nowhere /\ Table(next.gd[g]) \cap fs.map = {}

\* Besides: what becomes of the reserved blocks, and all parts of the groups
\* that are new lie where nothing was marked.
Outfitted(fs, next, reserved) ==
    /\ next.ri = fs.ri /\ next.flex = fs.flex
    /\ next.rsv = AdjustReservedGdtBlocks(fs, [fs EXCEPT !.size = next.size])
    /\ Groups(next.size) # Groups(fs.size) => reserved = MetaBlocks(next)
    /\ \A g \in GroupsOf(next) \ GroupsOf(fs), p \in Parts :
         next.gd[g][p] # Nowhere /\ Spot(next.gd[g], p) \cap fs.map = {}

LEMMA AdjustFsInfoIs ==
    ASSUME NEW fs, NEW next, Groups(next.size) # Groups(fs.size), Groups(fs.size) \in Nat
    PROVE  \E l : /\ GrowLoop(l, [fs |-> Marked(next, Regions(fs, next)), ok |-> TRUE], Groups(fs.size))
                 /\ AdjustFsInfo(fs, next) = [fs |-> l[Groups(next.size)].fs, ok |-> l[Groups(next.size)].ok,
                                              reserve |-> MetaBlocks(l[Groups(next.size)].fs)]
<1> DEFINE L == CHOOSE f : GrowLoop(f, [fs |-> Marked(next, Regions(fs, next)), ok |-> TRUE], Groups(fs.size))
           n == Groups(next.size)
<1>1. GrowLoop(L, [fs |-> Marked(next, Regions(fs, next)), ok |-> TRUE], Groups(fs.size))
  BY GrowLoopExists
<1>2. AdjustFsInfo(fs, next) = [fs |-> L[n].fs, reserve |-> MetaBlocks(L[n].fs), ok |-> L[n].ok]
  BY DEF AdjustFsInfo, GrowLoop, Marked
<1> HIDE DEF L
<1> QED
  BY <1>1, <1>2

LEMMA AdjustedOK ==
    ASSUME NEW fs, FsOK(fs, fs.size), NEW size \in Nat, fs.size <= size,
           NEW r, r = AdjustFsInfo(fs, Resized(fs, size)), r.ok
    PROVE  Enlarged(fs, r.fs, r.reserve) /\ r.fs.size = size /\ Outfitted(fs, r.fs, r.reserve)
<1>1. PICK next : next = Resized(fs, size)
  OBVIOUS
<1>2. /\ FsOK(next, next.size) /\ next.size = size /\ next.map = fs.map
      /\ GroupsOf(fs) \subseteq GroupsOf(next)
      /\ \A g \in GroupsOf(next) : next.gd[g] = IF g \in GroupsOf(fs) THEN fs.gd[g] ELSE NoStructures
      /\ next.ri = fs.ri /\ next.flex = fs.flex
      /\ next.rsv = AdjustReservedGdtBlocks(fs, [fs EXCEPT !.size = size])
  BY <1>1, ResizedOK
<1>3. fs.size \in Nat \ {0} /\ next.size \in Nat \ {0} /\ next.rsv \in Nat
  BY <1>2 DEF FsOK
<1>4. PICK t, n : t = Groups(fs.size) /\ n = Groups(next.size)
  OBVIOUS
<1>5. t \in Nat /\ n \in Nat /\ t <= n
  BY <1>2, <1>3, <1>4, GroupsNat, GroupsMonotone
<1>6. CASE n = t
  <2>1. r.fs = next /\ r.reserve = {}
    BY <1>1, <1>4, <1>6 DEF AdjustFsInfo
  <2>2. GroupsOf(next) = GroupsOf(fs)
    BY <1>4, <1>6 DEF GroupsOf
  <2> QED
    BY <1>2, <1>4, <1>6, <2>1, <2>2 DEF Enlarged, Outfitted
<1>7. CASE n # t
  <2> DEFINE from == Marked(next, Regions(fs, next))
             start == [fs |-> from, ok |-> TRUE]
  <2>1. PICK l : GrowLoop(l, start, t) /\ r = [fs |-> l[n].fs, reserve |-> MetaBlocks(l[n].fs), ok |-> l[n].ok]
    BY <1>1, <1>4, <1>5, <1>7, AdjustFsInfoIs
  <2>2. Regions(fs, next) \subseteq 0 .. next.size - 1
    <3>1. \A h \in GroupsOf(fs) : SuperAndBgd(next, h) \subseteq 0 .. next.size - 1
      BY <1>3, GroupNumbers, BackupsInside
    <3> QED
      BY <3>1 DEF Regions
  <2>3. /\ FsOK(from, next.size) /\ Extends(next, from) /\ from.gd = next.gd
        /\ next.map \subseteq from.map /\ GroupsOf(from) = GroupsOf(next)
    <3>1. from = Marked(next, Regions(fs, next))
      OBVIOUS
    <3> HIDE DEF from
    <3>2. FsOK(next, next.size)
      BY <1>2
    <3> QED
      BY <2>2, <3>1, <3>2, MarkOK
  <2>4. Loop(l, << >>, start, t)
    BY <1>5, <2>1, GrowLoopExists
  <2>5. l[n].ok
    BY <2>1
  <2> HIDE DEF from
  <2>6. Added(from, l[n].fs, t, n)
    <3>1. from.size = next.size
      BY <2>3 DEF Extends
    <3>2. n <= Groups(from.size)
      BY <1>4, <1>5, <3>1
    <3> QED
      BY <1>5, <2>3, <2>4, <2>5, <3>1, <3>2, LoopAdds
  <2>7. PICK q : q = l[n].fs
    OBVIOUS
  <2>8. r.fs = q /\ r.reserve = MetaBlocks(q)
    BY <2>1, <2>7
  <2>9. FsOK(q, q.size) /\ Extends(from, q)
    BY <2>6, <2>7 DEF Added
  <2>10. q.size = size /\ fs.map \subseteq q.map /\ GroupsOf(q) = GroupsOf(next)
    BY <1>2, <2>3, <2>9 DEF Extends, GroupsOf
  <2>11. MetaBlocks(q) \subseteq 0 .. q.size - 1
    BY <2>9, MetaInside
  <2>12. \A g \in GroupsOf(next) : g \in Nat /\ g < n /\ (g \in GroupsOf(fs) <=> g < t)
    BY <1>4, <1>5 DEF GroupsOf
  <2>13. ASSUME NEW g \in GroupsOf(fs) PROVE q.gd[g] = fs.gd[g]
    BY <1>2, <2>3, <2>6, <2>7, <2>12 DEF Added
  <2>14. ASSUME NEW g \in GroupsOf(next) \ GroupsOf(fs)
         PROVE  q.gd[g].it # Nowhere /\ Table(q.gd[g]) \cap fs.map = {}
    <3>1. g >= t /\ g < n
      BY <1>5, <2>12
    <3>2. from.gd[g].it = Nowhere
      BY <1>2, <2>3 DEF NoStructures
    <3>3. fs.map \subseteq from.map
      BY <1>2, <2>3
    <3>4. Table(q.gd[g]) \cap from.map = {}
      BY <2>3, <2>6, <2>7, <3>1, <3>2 DEF Added
    <3>5. q.gd[g].it # Nowhere
      BY <2>3, <2>6, <2>7, <3>1 DEF Added, Parts
    <3> QED
      BY <3>3, <3>4, <3>5
  <2>15. q.ri = fs.ri /\ q.flex = fs.flex /\ q.rsv = AdjustReservedGdtBlocks(fs, [fs EXCEPT !.size = q.size])
    <3>1. /\ q.ri = from.ri /\ q.rsv = from.rsv /\ from.ri = next.ri /\ from.rsv = next.rsv
          /\ q.flex = from.flex /\ from.flex = next.flex
      BY <2>3, <2>9 DEF Extends, FsFields
    <3> QED
      BY <1>2, <2>10, <3>1
  <2>16. ASSUME NEW g \in GroupsOf(next) \ GroupsOf(fs), NEW p \in Parts
         PROVE  q.gd[g][p] # Nowhere /\ Spot(q.gd[g], p) \cap fs.map = {}
    <3>1. g >= t /\ g < n
      BY <1>5, <2>12
    <3>2. Bare(from.gd[g])
      BY <1>2, <2>3 DEF NoStructures, Bare, Parts
    <3>3. fs.map \subseteq from.map
      BY <1>2, <2>3
    <3>4. Fresh(q.gd[g], from.map, q.map)
      BY <2>3, <2>6, <2>7, <3>1, <3>2 DEF Added
    <3>5. q.gd[g][p] # Nowhere
      BY <2>3, <2>6, <2>7, <3>1 DEF Added
    <3> QED
      BY <3>3, <3>4, <3>5 DEF Fresh
  <2>17. Enlarged(fs, r.fs, r.reserve)
    BY <1>2, <2>8, <2>9, <2>10, <2>11, <2>13, <2>14 DEF Enlarged
  <2>18. Outfitted(fs, r.fs, r.reserve)
    BY <2>8, <2>10, <2>15, <2>16 DEF Outfitted
  <2> QED
    BY <2>8, <2>10, <2>17, <2>18
<1> QED
  BY <1>6, <1>7

(***************************************************************************)
(* Phase 2.                                                                *)
(***************************************************************************)
LEMMA RegionsInside ==
    ASSUME NEW fs, fs.size \in Nat \ {0}, NEW next, next.size \in Nat \ {0}, next.rsv \in Nat
    PROVE  Regions(fs, next) \subseteq 0 .. next.size - 1
<1>1. \A h \in GroupsOf(fs) : SuperAndBgd(next, h) \subseteq 0 .. next.size - 1
  BY GroupNumbers, BackupsInside
<1> QED
  BY <1>1 DEF Regions

LEMMA ClearedOK ==
    ASSUME NEW fs, fs.size \in Nat \ {0}, NEW next, FsOK(next, next.size), NEW c, c = Cleared(fs, next)
    PROVE  FsOK(c, c.size) /\ Extends(next, c)
<1> DEFINE Near(g) == IF Flex(fs) THEN Regions(fs, next) ELSE SuperAndBgd(next, g)
<1>1. /\ DOMAIN next = FsFields /\ next.size \in Nat \ {0} /\ next.rsv \in Nat /\ next.flex \in Nat \ {0}
      /\ next.stride \in Nat /\ next.map \subseteq 0 .. next.size - 1 /\ DOMAIN next.gd = GroupsOf(next)
      /\ \A g \in GroupsOf(next) : GroupOK(next.gd[g], next.size)
  BY DEF FsOK
<1>2. /\ DOMAIN c = FsFields /\ c.map = next.map \cup Regions(fs, next)
      /\ c.gd = [g \in GroupsOf(next) |-> IF g \in GroupsOf(fs) THEN Displaced(next.gd[g], Near(g)) ELSE next.gd[g]]
      /\ \A p \in FsFields \ {"gd", "map"} : c[p] = next[p]
  BY <1>1 DEF Cleared, FsFields
<1>3. c.size = next.size /\ c.rsv = next.rsv /\ c.flex = next.flex /\ c.stride = next.stride
  BY <1>2 DEF FsFields
<1>4. GroupsOf(c) = GroupsOf(next)
  BY <1>3 DEF GroupsOf
<1>5. ASSUME NEW s, GroupOK(s, next.size), NEW T PROVE GroupOK(Displaced(s, T), next.size)
  BY <1>1, <1>5 DEF GroupOK, SpotOK, Displaced, Parts, Nowhere
<1>6. \A g \in GroupsOf(next) : GroupOK(c.gd[g], next.size)
  <2> HIDE DEF Near
  <2> QED
    BY <1>1, <1>2, <1>5
<1>7. DOMAIN c.gd = GroupsOf(next)
  BY <1>2
<1>8. c.map \subseteq 0 .. next.size - 1
  BY <1>1, <1>2, RegionsInside
<1>9. FsOK(c, next.size)
  BY <1>1, <1>2, <1>3, <1>4, <1>6, <1>7, <1>8 DEF FsOK
<1>10. Extends(next, c)
  BY <1>2, <1>3 DEF Extends
<1> QED
  BY <1>3, <1>9, <1>10

\* What phase 2 keeps from round to round.
Relocated(fs, next, r) ==
    /\ FsOK(r.fs, r.fs.size) /\ Extends(next, r.fs)
    /\ r.reserve \subseteq 0 .. next.size - 1 /\ r.move \subseteq fs.map

LEMMA DisplacingOK ==
    ASSUME NEW fs, FsOK(fs, fs.size), NEW next, FsOK(next, next.size), fs.size <= next.size,
           NEW held, held \subseteq 0 .. next.size - 1
    PROVE  Relocated(fs, next, Displacing(fs, next, held))
<1>1. PICK c : c = Cleared(fs, next)
  OBVIOUS
<1>2. fs.size \in Nat \ {0} /\ next.size \in Nat \ {0} /\ next.rsv \in Nat
  BY DEF FsOK
<1>3. FsOK(c, c.size) /\ Extends(next, c)
  BY <1>1, <1>2, ClearedOK
<1>4. Regions(fs, next) \subseteq 0 .. next.size - 1
  BY <1>2, RegionsInside
<1>5. Existing(fs, next) \subseteq 0 .. next.size - 1
  <2>1. ASSUME NEW g \in GroupsOf(fs) PROVE Structures(fs.gd[g]) \subseteq 0 .. next.size - 1
    <3>1. Structures(fs.gd[g]) \subseteq 1 .. fs.size - 1
      BY <1>2, StructuresInside DEF FsOK
    <3>2. 1 .. fs.size - 1 \subseteq 0 .. next.size - 1
      BY <1>2
    <3> QED
      BY <3>1, <3>2
  <2>2. ASSUME NEW g \in GroupsOf(fs), g \in GroupsOf(c) PROVE Structures(c.gd[g]) \subseteq 0 .. next.size - 1
    <3>1. c.size = next.size
      BY <1>3 DEF Extends
    <3>2. Structures(c.gd[g]) \subseteq 1 .. next.size - 1
      BY <1>2, <1>3, <2>2, <3>1, StructuresInside DEF FsOK
    <3>3. 1 .. next.size - 1 \subseteq 0 .. next.size - 1
      BY <1>2
    <3> QED
      BY <3>2, <3>3
  <2>3. GroupsOf(fs) \subseteq GroupsOf(c)
    <3>1. c.size = next.size
      BY <1>3 DEF Extends
    <3>2. PICK a, b : a = Groups(fs.size) /\ b = Groups(next.size)
      OBVIOUS
    <3>3. a \in Nat /\ b \in Nat /\ a <= b
      BY <1>2, <3>2, GroupsNat, GroupsMonotone
    <3> QED
      BY <3>1, <3>2, <3>3 DEF GroupsOf
  <2>4. \A g \in GroupsOf(fs) : Structures(IF Flex(fs) THEN fs.gd[g] ELSE c.gd[g]) \subseteq 0 .. next.size - 1
    BY <2>1, <2>2, <2>3
  <2> QED
    BY <1>1, <2>4 DEF Existing
<1> QED
  BY <1>1, <1>3, <1>4, <1>5 DEF Relocated, Displacing

LEMMA ReallocatedOK ==
    ASSUME NEW fs, FsOK(fs, fs.size), NEW next, FsOK(next, next.size), fs.size <= next.size,
           NEW r, r.ok, Relocated(fs, next, r), NEW meta, NEW g \in GroupsOf(fs), GroupsOf(fs) \subseteq GroupsOf(next),
           NEW q, q = Reallocated(r, fs, meta, g), q.ok
    PROVE  Relocated(fs, next, q)
<1>1. CASE q = r
  BY <1>1
<1>2. CASE q # r
  <2>1. PICK a, c : a = AllocateGroupTable(r.fs, g, r.reserve) /\ c = [fs |-> r.fs, map |-> r.reserve, ok |-> TRUE]
    OBVIOUS
  <2>2. q = Booked(r, a, fs, meta, g)
    BY <1>2, <2>1 DEF Reallocated
  <2>3. PICK taken : taken = Structures(a.fs.gd[g]) \ Structures(fs.gd[g])
    OBVIOUS
  <2>4. /\ q.fs = Marked(a.fs, taken)
        /\ q.reserve = a.map \cup (IF a.fs.gd[g].it # fs.gd[g].it THEN Table(fs.gd[g]) ELSE {})
        /\ q.move = r.move \cup ((taken \cap fs.map) \ meta)
    BY <2>2, <2>3 DEF Booked, Marked
  <2>5. a.ok
    <3>1. Booked(r, a, fs, meta, g).ok = a.ok
      BY DEF Booked
    <3> QED
      BY <2>2, <3>1
  <2>6. fs.size \in Nat \ {0} /\ next.size \in Nat \ {0} /\ r.fs.size = next.size /\ FsOK(r.fs, r.fs.size)
    BY DEF FsOK, Relocated, Extends
  <2>7. GroupsOf(r.fs) = GroupsOf(next) /\ g \in GroupsOf(r.fs)
    BY <2>6 DEF GroupsOf
  <2>8. r.reserve \subseteq 0 .. r.fs.size - 1
    BY <2>6 DEF Relocated
  <2>9. Furnished(c, a, g)
    BY <2>1, <2>5, <2>6, <2>7, <2>8, GroupTableAllocated
  <2>10. SearchOK(a) /\ Extends(r.fs, a.fs)
    BY <2>1, <2>9 DEF Furnished
  <2>11. FsOK(a.fs, a.fs.size) /\ a.map \subseteq 0 .. next.size - 1 /\ a.fs.size = next.size
    BY <2>6, <2>10 DEF SearchOK, Extends
  <2>12. Structures(a.fs.gd[g]) \subseteq 1 .. next.size - 1
    <3>1. g \in GroupsOf(a.fs)
      BY <2>6, <2>7, <2>11 DEF GroupsOf
    <3>2. GroupOK(a.fs.gd[g], next.size)
      BY <2>11, <3>1 DEF FsOK
    <3> QED
      BY <2>6, <3>2, StructuresInside
  <2>13. taken \subseteq 0 .. a.fs.size - 1
    <3>1. 1 .. next.size - 1 \subseteq 0 .. next.size - 1
      BY <2>6
    <3> QED
      BY <2>3, <2>11, <2>12, <3>1
  <2>14. FsOK(q.fs, a.fs.size) /\ Extends(a.fs, q.fs)
    BY <2>4, <2>11, <2>13, MarkOK
  <2>15. FsOK(q.fs, q.fs.size) /\ Extends(next, q.fs)
    BY <2>10, <2>14 DEF Relocated, Extends
  <2>16. Table(fs.gd[g]) \subseteq 0 .. next.size - 1
    <3>1. Structures(fs.gd[g]) \subseteq 1 .. fs.size - 1
      BY <2>6, StructuresInside DEF FsOK
    <3>2. 1 .. fs.size - 1 \subseteq 0 .. next.size - 1
      BY <2>6
    <3> QED
      BY <3>1, <3>2 DEF Structures
  <2>17. q.reserve \subseteq 0 .. next.size - 1
    BY <2>4, <2>11, <2>16
  <2>18. q.move \subseteq fs.map
    BY <2>4 DEF Relocated
  <2> QED
    BY <2>15, <2>17, <2>18 DEF Relocated
<1> QED
  BY <1>1, <1>2

LEMMA LoopMoves ==
    ASSUME NEW fs, FsOK(fs, fs.size), NEW next, FsOK(next, next.size), fs.size <= next.size,
           GroupsOf(fs) \subseteq GroupsOf(next), NEW meta, NEW b, Relocated(fs, next, b),
           NEW f, Loop(f, <<fs, meta>>, b, 0), f[Groups(fs.size)].ok
    PROVE  Relocated(fs, next, f[Groups(fs.size)])
<1>1. PICK n : n = Groups(fs.size)
  OBVIOUS
<1>2. n \in Nat
  BY <1>1, GroupsNat DEF FsOK
<1>3. \A r, g : Round(<<fs, meta>>, r, g) = Reallocated(r, fs, meta, g)
  BY DEF Round
<1>4. f[0] = b
  BY DEF Loop
<1>5. \A g \in Nat : g # 0 => f[g] = Reallocated(f[g - 1], fs, meta, g - 1)
  <2>1. \A g \in Nat : g # 0 => ~(g <= 0)
    OBVIOUS
  <2> QED
    BY <1>3, <2>1 DEF Loop
<1> DEFINE T == {m \in Nat : m <= n /\ f[m].ok /\ ~Relocated(fs, next, f[m])}
<1>6. T = {}
  <2> SUFFICES ASSUME T # {} PROVE FALSE
    OBVIOUS
  <2>1. PICK m \in T : \A j \in T : m <= j
    <3>1. T \subseteq Nat
      OBVIOUS
    <3> HIDE DEF T
    <3> QED
      BY <3>1, LeastNatural
  <2>2. m \in Nat /\ m # 0 /\ m <= n /\ f[m].ok /\ ~Relocated(fs, next, f[m])
    BY <1>4, <2>1
  <2>3. PICK r, q, g : r = f[m - 1] /\ q = f[m] /\ g = m - 1
    OBVIOUS
  <2>4. q = Reallocated(r, fs, meta, g) /\ q.ok
    BY <1>5, <2>2, <2>3
  <2>5. r.ok
    BY <2>4 DEF Reallocated
  <2>6. g \in Nat /\ g < m /\ g <= n /\ g \in GroupsOf(fs)
    BY <1>1, <1>2, <2>2, <2>3 DEF GroupsOf
  <2>7. Relocated(fs, next, r)
    <3>1. ~(g \in T)
      BY <2>1, <2>2, <2>6
    <3> QED
      BY <2>3, <2>5, <2>6, <3>1
  <2>8. Relocated(fs, next, q)
    BY <2>4, <2>5, <2>6, <2>7, ReallocatedOK
  <2> QED
    BY <2>2, <2>3, <2>8
<1> QED
  BY <1>1, <1>2, <1>6

LEMMA ToMoveOK ==
    ASSUME NEW fs, FsOK(fs, fs.size), NEW next, FsOK(next, next.size), fs.size <= next.size,
           GroupsOf(fs) \subseteq GroupsOf(next), NEW held, held \subseteq 0 .. next.size - 1,
           NEW r, r = ToMove(fs, next, held), r.ok
    PROVE  Relocated(fs, next, r)
<1>1. CASE DescBlocks(fs) + fs.rsv = DescBlocks(next) + next.rsv
  <2>1. r = [fs |-> next, reserve |-> held, move |-> {}, ok |-> TRUE]
    BY <1>1 DEF ToMove
  <2> QED
    BY <2>1 DEF Relocated, Extends
<1>2. CASE DescBlocks(fs) + fs.rsv # DescBlocks(next) + next.rsv
  <2> DEFINE L == CHOOSE f : MoveLoop(f, Displacing(fs, next, held), fs, MetaBlocks(fs))
  <2>1. MoveLoop(L, Displacing(fs, next, held), fs, MetaBlocks(fs))
    BY MoveLoopExists
  <2>2. ToMove(fs, next, held) = L[Groups(fs.size)]
    BY <1>2 DEF ToMove, MoveLoop
  <2> HIDE DEF L
  <2>3. Loop(L, <<fs, MetaBlocks(fs)>>, Displacing(fs, next, held), 0)
    BY <2>1, MoveLoopExists
  <2>4. Relocated(fs, next, Displacing(fs, next, held))
    BY DisplacingOK
  <2> QED
    BY <2>2, <2>3, <2>4, LoopMoves
<1> QED
  BY <1>1, <1>2

(* A finite set has an element with as many below it as one likes.         *)
LEMMA RankTaken ==
    ASSUME NEW S, S \subseteq Nat, IsFiniteSet(S)
    PROVE  \A n \in 1 .. Cardinality(S) : \E b \in S : Cardinality({c \in S : c < b}) = n - 1
<1> DEFINE Below(b) == {c \in S : c < b}
           N == Cardinality(S)
           Has(n) == \E b \in S : Cardinality(Below(b)) = n - 1
<1>1. N \in Nat
  BY FS_CardinalityType
<1>2. ASSUME NEW b \in S PROVE IsFiniteSet(Below(b)) /\ Cardinality(Below(b)) \in Nat
  <2>1. Below(b) \subseteq S
    OBVIOUS
  <2>2. IsFiniteSet(Below(b))
    BY <2>1, FS_Subset
  <2> QED
    BY <2>2, FS_CardinalityType
<1> DEFINE T == {n \in Nat : n \in 1 .. N /\ ~Has(n)}
<1>3. T = {}
  <2> SUFFICES ASSUME T # {} PROVE FALSE
    OBVIOUS
  <2>1. PICK m \in T : \A j \in T : m <= j
    <3>1. T \subseteq Nat
      OBVIOUS
    <3> HIDE DEF T
    <3> QED
      BY <3>1, LeastNatural
  <2>2. m \in Nat /\ 1 <= m /\ m <= N /\ ~Has(m)
    BY <1>1, <2>1
  <2>3. CASE m = 1
    <3>1. S # {}
      BY <2>2, <2>3, FS_EmptySet
    <3>2. PICK b \in S : \A j \in S : b <= j
      BY <3>1, LeastNatural
    <3>3. Below(b) = {}
      <4>1. \A c \in S : ~(c < b)
        BY <3>2
      <4> QED
        BY <4>1
    <3>4. Cardinality(Below(b)) = m - 1
      <4> HIDE DEF Below
      <4> QED
        BY <2>3, <3>3, FS_EmptySet
    <3> QED
      BY <2>2, <3>4
  <2>4. CASE m > 1
    <3>1. ~(m - 1 \in T) /\ m - 1 \in Nat /\ m - 1 \in 1 .. N
      BY <1>1, <2>1, <2>2, <2>4
    <3>2. PICK b \in S : Cardinality(Below(b)) = (m - 1) - 1
      BY <3>1
    <3>3. b \notin Below(b) /\ IsFiniteSet(Below(b))
      BY <1>2
    <3>4. Cardinality(Below(b) \cup {b}) = m - 1
      <4> HIDE DEF Below
      <4>1. Cardinality(Below(b) \cup {b}) = Cardinality(Below(b)) + 1
        BY <3>3, FS_AddElement
      <4> QED
        BY <2>2, <3>2, <4>1
    <3> DEFINE above == {c \in S : c > b}
    <3>5. above # {}
      <4> SUFFICES ASSUME above = {} PROVE FALSE
        OBVIOUS
      <4>a. \A c \in S : c < b \/ c = b
        <5>1. \A c \in S : ~(c > b) /\ c \in Nat
          OBVIOUS
        <5> QED
          BY <5>1
      <4>1. S = Below(b) \cup {b}
        BY <4>a
      <4> HIDE DEF Below
      <4> QED
        BY <1>1, <2>2, <3>4, <4>1
    <3>6. above \subseteq Nat
      OBVIOUS
    <3>7. PICK d \in above : \A j \in above : d <= j
      <4> HIDE DEF above
      <4> QED
        BY <3>5, <3>6, LeastNatural
    <3>8. Below(d) = Below(b) \cup {b}
      <4>1. \A c \in S : c \in Nat /\ (c > b => d <= c)
        BY <3>7
      <4>2. \A c \in S : c < d <=> (c < b \/ c = b)
        BY <3>7, <4>1
      <4> QED
        BY <4>2
    <3>9. d \in S /\ Cardinality(Below(d)) = m - 1
      <4> HIDE DEF Below
      <4> QED
        BY <3>4, <3>7, <3>8
    <3> QED
      BY <2>2, <3>9
  <2> QED
    BY <2>2, <2>3, <2>4
<1>4. \A n \in 1 .. N : Has(n)
  <2> HIDE DEF Has
  <2> QED
    BY <1>1, <1>3
<1> QED
  BY <1>4

(* The blocks of a finite set in ascending order are in the set.           *)
LEMMA AscendingSeq ==
    ASSUME NEW S, S \subseteq Nat, IsFiniteSet(S)
    PROVE  Ascending(S) \in Seq(S)
<1> DEFINE N == Cardinality(S)
<1>1. N \in Nat
  BY FS_CardinalityType
<1>2. \A n \in 1 .. N : \E b \in S : Cardinality({c \in S : c < b}) = n - 1
  BY RankTaken
<1>3. \A n \in 1 .. N : (CHOOSE b \in S : Cardinality({c \in S : c < b}) = n - 1) \in S
  BY <1>2
<1>4. Ascending(S) \in [1 .. N -> S]
  BY <1>3 DEF Ascending
<1> QED
  BY <1>1, <1>4, SeqDef

(***************************************************************************)
(* The invariant.                                                          *)
(***************************************************************************)
\* Before phase 1 there is one file system; in phase 1 and up to the copies
\* the new one has marked all that the old one uses; what is zeroed and what
\* is copied to is none of it.
Phases ==
    /\ pc \in {"start", "adjust"} =>
         /\ new = old /\ FsOK(old, old.size) /\ Fitted(old, old.size) = old.size
         /\ asked \in NewSizes /\ old.size < asked
    /\ pc = "zero" => FsOK(old, old.size) /\ Enlarged(old, new, reserve) /\ k >= Groups(old.size)
    /\ pc = "plan" => old.map \subseteq new.map
    /\ pc = "copy" => k # 0 /\ Len(bmap) \in Nat /\ \A n \in 1 .. Len(bmap) : bmap[n][2] \notin old.map

Control == pc \in Places /\ k \in Nat /\ faults \in 0 .. MaxFaults /\ DOMAIN disk = Blocks

Layout ==
    /\ FsOK(old, new.size) /\ FsOK(new, new.size) /\ old.size <= new.size
    /\ old.map \subseteq Blocks /\ GroupsOf(old) \subseteq GroupsOf(new)
    /\ reserve \subseteq 0 .. new.size - 1 /\ move \subseteq old.map

ResizeInv == Control /\ Layout /\ Phases

LayoutFields == {"size", "rsv", "flex", "stride", "gd", "map"}
SameLayout(fs, next) == DOMAIN next = DOMAIN fs /\ \A p \in LayoutFields : next[p] = fs[p]

LEMMA LayoutOK ==
    ASSUME NEW fs, NEW limit, FsOK(fs, limit), NEW next, SameLayout(fs, next)
    PROVE  /\ FsOK(next, limit) /\ GroupsOf(next) = GroupsOf(fs)
           /\ next.size = fs.size /\ next.map = fs.map /\ next.gd = fs.gd /\ next.rsv = fs.rsv
<1>1. /\ DOMAIN next = FsFields /\ next.size = fs.size /\ next.rsv = fs.rsv /\ next.flex = fs.flex
      /\ next.stride = fs.stride /\ next.gd = fs.gd /\ next.map = fs.map
  BY DEF SameLayout, LayoutFields, FsOK
<1>2. GroupsOf(next) = GroupsOf(fs)
  BY <1>1 DEF GroupsOf
<1> QED
  BY <1>1, <1>2 DEF FsOK

LEMMA LimitOK ==
    ASSUME NEW fs, NEW a \in Nat, FsOK(fs, a), NEW b \in Nat, a <= b
    PROVE  FsOK(fs, b)
<1>1. ASSUME NEW g \in GroupsOf(fs) PROVE GroupOK(fs.gd[g], b)
  <2>1. GroupOK(fs.gd[g], a)
    BY DEF FsOK
  <2>2. \A p \in Parts : Size(p) \in Nat
    BY Constants DEF Size
  <2> QED
    BY <2>1, <2>2 DEF GroupOK, SpotOK
<1> QED
  BY <1>1 DEF FsOK

LEMMA SameFit ==
    ASSUME NEW fs, "size" \in DOMAIN fs, NEW next, "size" \in DOMAIN next, next.rsv = fs.rsv, NEW size
    PROVE  Fitted(next, size) = Fitted(fs, size)
<1>1. Overhead(next, size) = Overhead(fs, size)
  BY DEF Overhead
<1> QED
  BY <1>1, FittedIs

LEMMA BlocksBelow ==
    ASSUME NEW n \in NewSizes
    PROVE  n \in Nat /\ n <= Max(NewSizes) /\ Max(NewSizes) \in Nat
<1>1. \E m \in NewSizes : \A j \in NewSizes : m >= j
  BY ResizeFsAssumption
<1>2. Max(NewSizes) \in NewSizes /\ \A j \in NewSizes : Max(NewSizes) >= j
  BY <1>1 DEF Max
<1> QED
  BY <1>2, ResizeFsAssumption

(***************************************************************************)
(* The initial states.                                                     *)
(***************************************************************************)
LEMMA InitInv == Init => ResizeInv
<1> SUFFICES ASSUME Init PROVE ResizeInv
  OBVIOUS
<1>1. PICK fs \in {Mkfs(f).fs : f \in Formats}, p \in Pairs :
        /\ asked \in {n \in NewSizes : n > fs.size}
        /\ {p[1], p[2]} \subseteq 1 .. Groups(fs.size) * InodeBlocks
        /\ \E S \in Owned(Unused(fs)) : \E T \in {{}, Unused(fs) \ S} :
             \E blocks \in {[i \in {p[1], p[2]} |-> Ascending(IF i = p[1] THEN S ELSE T)]} :
               /\ \E owned \in {[fs EXCEPT !.map = @ \cup S \cup T, !.jino = p[1], !.jnl = blocks[p[1]]]} :
                    old = [owned EXCEPT !.orig = Super(owned)]
               /\ files = [i \in DOMAIN blocks |-> Len(blocks[i])]
               /\ disk = Formatted(old, blocks)
  BY DEF Init
<1>2. PICK f \in Formats : fs = Mkfs(f).fs
  OBVIOUS
<1>3. PICK S, T, blocks, owned :
        /\ S \in Owned(Unused(fs)) /\ T \in {{}, Unused(fs) \ S}
        /\ owned = [fs EXCEPT !.map = @ \cup S \cup T, !.jino = p[1], !.jnl = blocks[p[1]]]
        /\ old = [owned EXCEPT !.orig = Super(owned)]
        /\ disk = Formatted(old, blocks)
  BY <1>1
<1>4. FsOK(fs, fs.size) /\ fs.size = f.size /\ fs.rsv = f.rsv
  BY <1>2, MadeOK
<1>5. f.size \in Nat \ {0} /\ "size" \in DOMAIN f /\ Fitted(f, f.size) = f.size
  BY ResizeFsAssumption, FormatsAssumption
<1>6. S \cup T \subseteq 0 .. fs.size - 1
  <2>1. S \subseteq Unused(fs)
    BY <1>2, <1>3, FormatsAssumption
  <2>2. Unused(fs) \subseteq 0 .. fs.size - 1
    BY DEF Unused
  <2> QED
    BY <1>3, <2>1, <2>2
<1>7. PICK m : m = Marked(fs, S \cup T)
  OBVIOUS
<1>8. FsOK(m, fs.size) /\ Extends(fs, m)
  BY <1>4, <1>6, <1>7, MarkOK
<1>9. DOMAIN fs = FsFields
  BY <1>4 DEF FsOK
<1>10. SameLayout(m, old)
  <2>1. DOMAIN owned = FsFields /\ DOMAIN old = FsFields
    BY <1>3, <1>9
  <2>2. \A q \in LayoutFields : old[q] = owned[q]
    BY <1>3, <2>1 DEF LayoutFields, FsFields
  <2>3. \A q \in LayoutFields \ {"map"} : owned[q] = m[q]
    BY <1>3, <1>7, <1>9 DEF LayoutFields, FsFields, Marked
  <2>4. owned.map = m.map
    <3>1. owned.map = fs.map \cup S \cup T
      BY <1>3, <1>9 DEF FsFields
    <3>2. m.map = fs.map \cup (S \cup T)
      BY <1>7, <1>9 DEF FsFields, Marked
    <3> QED
      BY <3>1, <3>2
  <2> QED
    BY <1>7, <1>9, <2>1, <2>2, <2>3, <2>4 DEF SameLayout, Marked
<1>11. FsOK(old, fs.size) /\ old.size = fs.size /\ old.rsv = fs.rsv
  <2>1. FsOK(old, fs.size) /\ old.size = m.size /\ old.rsv = m.rsv
    BY <1>8, <1>10, LayoutOK
  <2> QED
    BY <1>8, <2>1 DEF Extends, FsFields
<1>12. Fitted(old, old.size) = old.size
  <2>1. "size" \in DOMAIN old
    BY <1>11 DEF FsOK, FsFields
  <2>2. Fitted(old, f.size) = Fitted(f, f.size)
    BY <1>4, <1>5, <1>11, <2>1, SameFit
  <2> QED
    BY <1>4, <1>5, <1>11, <2>2
<1>13. asked \in NewSizes /\ old.size < asked
  <2>1. asked \in NewSizes /\ asked > fs.size /\ fs.size \in Nat
    BY <1>1, <1>2, <1>4, <1>5
  <2> QED
    BY <1>11, <2>1, BlocksBelow
<1>14. old.map \subseteq Blocks
  <2>1. asked \in Nat /\ asked <= Max(NewSizes) /\ Max(NewSizes) \in Nat
    BY <1>13, BlocksBelow
  <2>2. old.map \subseteq 0 .. old.size - 1 /\ old.size \in Nat
    BY <1>11 DEF FsOK
  <2> QED
    BY <1>13, <2>1, <2>2 DEF Blocks
<1>15. DOMAIN disk = Blocks
  BY <1>3 DEF Formatted
<1>16. /\ new = old /\ reserve = {} /\ move = {} /\ pc = "start" /\ k = 0 /\ faults = 0
  BY DEF Init
<1>17. Phases
  BY <1>11, <1>12, <1>13, <1>16 DEF Phases
<1>18. old.size \in Nat /\ MaxFaults \in Nat
  BY <1>11, Constants DEF FsOK
<1> QED
  BY <1>11, <1>14, <1>15, <1>16, <1>17, <1>18 DEF ResizeInv, Control, Layout, Places

(***************************************************************************)
(* The steps.                                                              *)
(***************************************************************************)
LEMMA LayoutKept ==
    ASSUME Layout, SameLayout(old, old'), SameLayout(new, new'), UNCHANGED <<reserve, move>>
    PROVE  Layout'
<1>1. /\ FsOK(old', new.size) /\ GroupsOf(old') = GroupsOf(old) /\ old'.size = old.size /\ old'.map = old.map
  BY LayoutOK DEF Layout
<1>2. /\ FsOK(new', new.size) /\ GroupsOf(new') = GroupsOf(new) /\ new'.size = new.size
  BY LayoutOK DEF Layout
<1>3. Blocks' = Blocks
  BY DEF Blocks
<1> QED
  BY <1>1, <1>2, <1>3 DEF Layout

LEMMA LayoutStutters ==
    ASSUME Layout, UNCHANGED <<old, new, reserve, move>>
    PROVE  Layout'
<1>1. SameLayout(old, old') /\ SameLayout(new, new')
  BY DEF SameLayout
<1> QED
  BY <1>1, LayoutKept

LEMMA FaultOK ==
    ASSUME faults \in 0 .. MaxFaults, Fault \/ UNCHANGED faults
    PROVE  faults' \in 0 .. MaxFaults
BY Constants DEF Fault

\* Several blocks fail at once.
LEMMA FaultsOK ==
    ASSUME faults \in 0 .. MaxFaults, NEW S \in SUBSET Waiting, Faults(S)
    PROVE  faults' \in 0 .. MaxFaults
<1>1. Max(NewSizes) \in Nat
  BY ResizeFsAssumption, BlocksBelow
<1>2. S \subseteq 0 .. Max(NewSizes) - 1
  BY DEF Waiting, Blocks
<1>3. IsFiniteSet(S)
  <2>1. Max(NewSizes) - 1 \in Int
    BY <1>1
  <2>2. IsFiniteSet(0 .. Max(NewSizes) - 1)
    BY <2>1, FS_Interval
  <2> QED
    BY <1>2, <2>2, FS_Subset
<1>4. Cardinality(S) \in Nat
  BY <1>3, FS_CardinalityType
<1> QED
  BY <1>4, Constants DEF Faults

LEMMA FlushOldOK ==
    ASSUME NEW fs, FlushOld(fs), Control
    PROVE  SameLayout(fs, old') /\ DOMAIN disk' = Blocks /\ faults' \in 0 .. MaxFaults
<1>1. DOMAIN disk' = Blocks
  BY DEF FlushOld, Control
<1>2. Fault \/ UNCHANGED faults
  BY DEF FlushOld, FlushUnseen
<1>3. SameLayout(fs, old')
  <2>1. CASE old' = fs
    BY <2>1 DEF SameLayout
  <2>2. CASE old' = [fs EXCEPT !.orig = Super(fs)]
    BY <2>2 DEF SameLayout, LayoutFields
  <2> QED
    BY <2>1, <2>2 DEF FlushOld
<1> QED
  BY <1>1, <1>2, <1>3, FaultOK DEF Control

LEMMA MarkErrorStep == ResizeInv /\ MarkError => ResizeInv'
<1> SUFFICES ASSUME ResizeInv, MarkError PROVE ResizeInv'
  OBVIOUS
<1>1. PICK fs : fs = [old EXCEPT !.error = TRUE]
  OBVIOUS
<1>2. /\ pc = "start" /\ pc' = "adjust" /\ k' = 0 /\ FlushOld(fs) /\ new' = old'
      /\ asked' = asked /\ UNCHANGED <<reserve, move>>
  BY <1>1 DEF MarkError, Goto, given
<1>3. /\ new = old /\ FsOK(old, old.size) /\ Fitted(old, old.size) = old.size
      /\ asked \in NewSizes /\ old.size < asked
  BY <1>2 DEF ResizeInv, Phases
<1>4. SameLayout(old, fs)
  BY <1>1 DEF SameLayout, LayoutFields
<1>5. SameLayout(fs, old') /\ DOMAIN disk' = Blocks /\ faults' \in 0 .. MaxFaults
  BY <1>2, FlushOldOK DEF ResizeInv
<1>6. SameLayout(old, old')
  BY <1>4, <1>5 DEF SameLayout
<1>7. /\ FsOK(old', old'.size) /\ old'.size = old.size /\ old'.rsv = old.rsv
  BY <1>3, <1>6, LayoutOK
<1>8. Fitted(old', old'.size) = old'.size
  <2>1. "size" \in DOMAIN old /\ "size" \in DOMAIN old'
    BY <1>3, <1>7 DEF FsOK, FsFields
  <2>2. Fitted(old', old.size) = Fitted(old, old.size)
    BY <1>7, <2>1, SameFit
  <2> QED
    BY <1>3, <1>7, <2>2
<1>9. Layout'
  BY <1>2, <1>3, <1>6, LayoutKept DEF ResizeInv
<1>10. Phases'
  BY <1>2, <1>3, <1>7, <1>8 DEF Phases
<1>11. Control'
  BY <1>2, <1>5 DEF Control, Places, Blocks
<1> QED
  BY <1>9, <1>10, <1>11 DEF ResizeInv

LEMMA AdjustSuperblockStep == ResizeInv /\ AdjustSuperblock => ResizeInv'
<1> SUFFICES ASSUME ResizeInv, AdjustSuperblock PROVE ResizeInv'
  OBVIOUS
<1>1. PICK r : /\ r = AdjustFsInfo(new, Resized(new, Fitted(new, asked)))
               /\ IF r.ok THEN /\ new' = r.fs /\ reserve' = r.reserve
                               /\ Goto("zero", Groups(old.size))
                          ELSE Fail /\ UNCHANGED <<new, reserve>>
  BY DEF AdjustSuperblock
<1>2. pc = "adjust" /\ UNCHANGED <<disk, old, move, asked, faults>>
  BY DEF AdjustSuperblock, given
<1>3. /\ new = old /\ FsOK(old, old.size) /\ Fitted(old, old.size) = old.size
      /\ asked \in NewSizes /\ old.size < asked
  BY <1>2 DEF ResizeInv, Phases
<1>4. CASE r.ok
  <2>1. pc' = "zero" /\ k' = Groups(old.size) /\ new' = r.fs /\ reserve' = r.reserve
    BY <1>1, <1>4 DEF Goto
  <2>2. PICK size : size = Fitted(old, asked)
    OBVIOUS
  <2>3. old.size \in Nat \ {0} /\ "size" \in DOMAIN old /\ old.rsv \in Nat /\ asked \in Nat
    BY <1>3, BlocksBelow DEF FsOK, FsFields
  <2>4. size \in Nat /\ old.size <= size
    BY <1>3, <2>2, <2>3, FittedGrows
  <2>5. Enlarged(old, r.fs, r.reserve) /\ r.fs.size = size
    BY <1>1, <1>3, <1>4, <2>2, <2>4, AdjustedOK
  <2>6. FsOK(old, size)
    BY <1>3, <2>3, <2>4, LimitOK
  <2>7. Layout'
    BY <1>2, <2>1, <2>4, <2>5, <2>6 DEF ResizeInv, Layout, Enlarged, Blocks
  <2>8. Groups(old.size) \in Nat
    BY <2>3, GroupsNat
  <2>9. Phases'
    BY <1>2, <1>3, <2>1, <2>5, <2>8 DEF Phases
  <2>10. Control'
    BY <1>2, <2>1, <2>8 DEF ResizeInv, Control, Places, Blocks
  <2> QED
    BY <2>7, <2>9, <2>10 DEF ResizeInv
<1>5. CASE ~r.ok
  <2>1. pc' = "failed" /\ k' = k /\ UNCHANGED <<new, reserve>>
    BY <1>1, <1>5 DEF Fail
  <2>2. Layout'
    BY <1>2, <2>1, LayoutStutters DEF ResizeInv
  <2> QED
    BY <1>2, <2>1, <2>2 DEF ResizeInv, Control, Phases, Places, Blocks
<1> QED
  BY <1>4, <1>5

LEMMA ZeroNewTableStep == ResizeInv /\ ZeroNewTable => ResizeInv'
<1> SUFFICES ASSUME ResizeInv, ZeroNewTable PROVE ResizeInv'
  OBVIOUS
<1>1. /\ pc = "zero" /\ UNCHANGED <<old, new, reserve, move, bmap, asked>>
      /\ DOMAIN disk' = Blocks /\ faults' \in 0 .. MaxFaults
      /\ (pc' = "zero" /\ k' = k + 1) \/ (pc' = "failed" /\ k' = k)
  <2>1. pc = "zero" /\ UNCHANGED <<old, new, reserve, move, bmap, asked>>
    BY DEF ZeroNewTable, handles, given
  <2>2. DOMAIN disk' = Blocks
    BY DEF ZeroNewTable, WriteRun
  <2>3. faults' \in 0 .. MaxFaults
    BY FaultOK DEF ZeroNewTable, FlushUnseen, ResizeInv, Control
  <2>4. (pc' = "zero" /\ k' = k + 1) \/ (pc' = "failed" /\ k' = k)
    BY <2>1 DEF ZeroNewTable, Advance, Fail
  <2> QED
    BY <2>1, <2>2, <2>3, <2>4
<1>2. Layout'
  BY <1>1, LayoutStutters DEF ResizeInv
<1>3. k' \in Nat
  BY <1>1 DEF ResizeInv, Control
<1>4. Phases'
  <2>1. CASE pc' = "failed"
    BY <2>1 DEF Phases
  <2>2. CASE pc' = "zero" /\ k' = k + 1
    <3>1. FsOK(old, old.size) /\ Enlarged(old, new, reserve) /\ k >= Groups(old.size)
      BY <1>1 DEF ResizeInv, Phases
    <3>2. Groups(old.size) \in Nat /\ k \in Nat
      BY <3>1, GroupsNat DEF FsOK, ResizeInv, Control
    <3>3. k' >= Groups(old.size)
      BY <2>2, <3>1, <3>2
    <3> QED
      BY <1>1, <2>2, <3>1, <3>3 DEF Phases
  <2> QED
    BY <1>1, <2>1, <2>2
<1> QED
  BY <1>1, <1>2, <1>3, <1>4 DEF ResizeInv, Control, Places, Blocks

LEMMA BlocksToMoveStep == ResizeInv /\ BlocksToMove => ResizeInv'
<1> SUFFICES ASSUME ResizeInv, BlocksToMove PROVE ResizeInv'
  OBVIOUS
<1>1. PICK r : /\ r = ToMove(old, new, reserve)
               /\ IF r.ok THEN /\ new' = r.fs /\ reserve' = r.reserve /\ move' = r.move
                               /\ Goto("plan", 0)
                          ELSE Fail /\ UNCHANGED <<new, reserve, move>>
  BY DEF BlocksToMove
<1>2. pc = "zero" /\ UNCHANGED <<disk, old, faults>>
  BY DEF BlocksToMove
<1>3. FsOK(old, old.size) /\ Enlarged(old, new, reserve)
  BY <1>2 DEF ResizeInv, Phases
<1>4. CASE r.ok
  <2>1. pc' = "plan" /\ k' = 0 /\ new' = r.fs /\ reserve' = r.reserve /\ move' = r.move
    BY <1>1, <1>4 DEF Goto
  <2>2. Relocated(old, new, r)
    BY <1>1, <1>3, <1>4, ToMoveOK DEF Enlarged
  <2>3. /\ FsOK(r.fs, r.fs.size) /\ r.fs.size = new.size /\ new.map \subseteq r.fs.map
        /\ r.reserve \subseteq 0 .. new.size - 1 /\ r.move \subseteq old.map
    BY <2>2 DEF Relocated, Extends
  <2>4. GroupsOf(r.fs) = GroupsOf(new)
    BY <2>3 DEF GroupsOf
  <2>5. Layout'
    BY <1>2, <2>1, <2>3, <2>4 DEF ResizeInv, Layout, Blocks
  <2>6. Phases'
    BY <1>2, <1>3, <2>1, <2>3 DEF Phases, Enlarged
  <2> QED
    BY <1>2, <2>1, <2>5, <2>6 DEF ResizeInv, Control, Places, Blocks
<1>5. CASE ~r.ok
  <2>1. pc' = "failed" /\ k' = k /\ UNCHANGED <<new, reserve, move>>
    BY <1>1, <1>5 DEF Fail
  <2>2. Layout'
    BY <1>2, <2>1, LayoutStutters DEF ResizeInv
  <2> QED
    BY <1>2, <2>1, <2>2 DEF ResizeInv, Control, Phases, Places, Blocks
<1> QED
  BY <1>4, <1>5

LEMMA SeqSubset ==
    ASSUME NEW S, NEW T, S \subseteq T, NEW s \in Seq(S)
    PROVE  s \in Seq(T)
<1>1. s = [i \in 1 .. Len(s) |-> s[i]] /\ Len(s) \in Nat /\ \A i \in 1 .. Len(s) : s[i] \in T
  OBVIOUS
<1> QED
  BY <1>1, SeqDef

(* Blocks are copied to what is free in the new file system.               *)
LEMMA NewBlocksFree ==
    ASSUME Layout
    PROVE  NewBlocks \in Seq((0 .. new.size - 1) \ new.map)
<1> DEFINE usable == (0 .. new.size - 1) \ (new.map \cup reserve)
           free == (0 .. new.size - 1) \ new.map
<1>1. new.size \in Nat
  BY DEF Layout, FsOK
<1>2. ASSUME NEW T, T \subseteq usable PROVE Ascending(T) \in Seq(free)
  <2>1. T \subseteq Nat /\ T \subseteq free
    BY <1>1, <1>2
  <2>2. IsFiniteSet(0 .. new.size - 1) /\ T \subseteq 0 .. new.size - 1
    BY <1>1, <1>2, FS_Interval
  <2>3. IsFiniteSet(T)
    BY <2>2, FS_Subset
  <2>4. Ascending(T) \in Seq(T)
    BY <2>1, <2>3, AscendingSeq
  <2> HIDE DEF free, usable
  <2> QED
    BY <2>1, <2>4, SeqSubset
<1>3. Ascending(usable \ old.map) \in Seq(free) /\ Ascending(usable \cap old.map) \in Seq(free)
  <2> HIDE DEF free, usable
  <2> QED
    BY <1>2
<1>4. NewBlocks = Ascending(usable \ old.map) \o Ascending(usable \cap old.map)
  BY DEF NewBlocks
<1> HIDE DEF usable, free
<1>5. NewBlocks \in Seq(free)
  BY <1>3, <1>4
<1> QED
  BY <1>5 DEF free

LEMMA PlanMovesStep == ResizeInv /\ PlanMoves => ResizeInv'
<1> SUFFICES ASSUME ResizeInv, PlanMoves PROVE ResizeInv'
  OBVIOUS
<1>1. PICK from, to : from = Ascending(move \cap old.map) /\ to = NewBlocks
  OBVIOUS
<1>2. /\ pc = "plan" /\ UNCHANGED <<disk, old, reserve, move, faults>>
      /\ IF Len(from) <= Len(to)
           THEN /\ bmap' = [n \in DOMAIN from |-> <<from[n], to[n]>>]
                /\ new' = [new EXCEPT !.map = @ \cup {to[n] : n \in DOMAIN from}]
                /\ Goto("copy", 1)
           ELSE Fail /\ UNCHANGED <<new, bmap>>
  BY <1>1 DEF PlanMoves
<1>3. Layout /\ old.map \subseteq new.map
  BY <1>2 DEF ResizeInv, Phases
<1>4. CASE Len(from) <= Len(to)
  <2>1. pc' = "copy" /\ k' = 1
    BY <1>2, <1>4 DEF Goto
  <2>2. from \in Seq(old.map)
    <3>1. old.map \subseteq 0 .. old.size - 1 /\ old.size \in Nat
      BY <1>3 DEF Layout, FsOK
    <3>2. IsFiniteSet(0 .. old.size - 1) /\ move \cap old.map \subseteq 0 .. old.size - 1
      BY <3>1, FS_Interval
    <3>3. IsFiniteSet(move \cap old.map) /\ move \cap old.map \subseteq Nat
      BY <3>1, <3>2, FS_Subset
    <3>4. from \in Seq(move \cap old.map)
      BY <1>1, <3>3, AscendingSeq
    <3> QED
      BY <3>4
  <2>3. to \in Seq((0 .. new.size - 1) \ new.map)
    BY <1>1, <1>3, NewBlocksFree
  <2>4. DOMAIN from = 1 .. Len(from) /\ Len(from) \in Nat
    BY <2>2
  <2>5. \A n \in DOMAIN from : to[n] \in (0 .. new.size - 1) \ new.map
    <3>1. \A n \in DOMAIN from : n \in 1 .. Len(to)
      BY <1>4, <2>2, <2>3, <2>4
    <3> QED
      BY <2>3, <3>1
  <2>6. PICK T : T = {to[n] : n \in DOMAIN from}
    OBVIOUS
  <2>7. T \subseteq 0 .. new.size - 1
    BY <2>5, <2>6
  <2>8. new' = Marked(new, T)
    BY <1>2, <1>4, <2>6 DEF Marked
  <2>9. FsOK(new', new.size) /\ new'.size = new.size /\ GroupsOf(new') = GroupsOf(new)
    <3>1. FsOK(new', new.size) /\ Extends(new, new') /\ GroupsOf(new') = GroupsOf(new)
      BY <1>3, <2>7, <2>8, MarkOK DEF Layout
    <3> QED
      BY <3>1 DEF Extends
  <2>10. Layout'
    BY <1>2, <1>3, <2>9 DEF Layout, Blocks
  <2>11. bmap' = [n \in 1 .. Len(from) |-> <<from[n], to[n]>>]
    BY <1>2, <1>4, <2>4
  <2>12. Len(bmap') = Len(from)
    BY <2>4, <2>11
  <2>13. \A n \in 1 .. Len(bmap') : bmap'[n][2] \notin old.map
    BY <1>3, <2>4, <2>5, <2>11, <2>12
  <2>14. Phases'
    BY <1>2, <2>1, <2>4, <2>12, <2>13 DEF Phases
  <2> QED
    BY <1>2, <2>1, <2>10, <2>14 DEF ResizeInv, Control, Places, Blocks
<1>5. CASE ~(Len(from) <= Len(to))
  <2>1. pc' = "failed" /\ k' = k /\ UNCHANGED new
    BY <1>2, <1>5 DEF Fail
  <2>2. Layout'
    BY <1>2, <1>3, <2>1, LayoutStutters
  <2> QED
    BY <1>2, <2>1, <2>2 DEF ResizeInv, Control, Phases, Places, Blocks
<1> QED
  BY <1>4, <1>5

LEMMA CopyBlockStep == ResizeInv /\ CopyBlock => ResizeInv'
<1> SUFFICES ASSUME ResizeInv, CopyBlock PROVE ResizeInv'
  OBVIOUS
<1>1. pc = "copy" /\ UNCHANGED <<old, new, reserve, move, bmap, asked>>
  BY DEF CopyBlock, handles, given
<1>2. DOMAIN disk' = Blocks
  BY DEF CopyBlock, Write, ResizeInv, Control
<1>3. faults' \in 0 .. MaxFaults
  BY FaultOK DEF CopyBlock, FlushUnseen, cache, ResizeInv, Control
<1>4. (pc' = "copy" /\ k' = k + 1) \/ (pc' = "failed" /\ k' = k)
  BY <1>1 DEF CopyBlock, Advance, Fail
<1>5. Layout'
  BY <1>1, LayoutStutters DEF ResizeInv
<1>6. k' \in Nat /\ (pc' = "copy" => k' # 0)
  BY <1>4 DEF ResizeInv, Control
<1>7. Phases'
  BY <1>1, <1>4, <1>6 DEF ResizeInv, Phases
<1> QED
  BY <1>2, <1>3, <1>4, <1>5, <1>6, <1>7 DEF ResizeInv, Control, Places, Blocks

\* Past the copies only the layout matters.
Late == Places \ {"start", "adjust", "zero", "plan", "copy"}

LEMMA LateStep ==
    ASSUME Layout', pc' \in Late, k' \in Nat, faults' \in 0 .. MaxFaults, DOMAIN disk' = Blocks
    PROVE  ResizeInv'
<1>1. Phases'
  BY DEF Late, Phases
<1>2. Control'
  BY DEF Late, Control, Blocks
<1> QED
  BY <1>1, <1>2 DEF ResizeInv

LEMMA FixInodeStep == ResizeInv /\ FixInode => ResizeInv'
<1> SUFFICES ASSUME ResizeInv, FixInode PROVE ResizeInv'
  OBVIOUS
<1>0. Layout /\ k \in Nat /\ faults \in 0 .. MaxFaults /\ DOMAIN disk = Blocks
  BY DEF ResizeInv, Control
<1>1. UNCHANGED <<old, new, reserve, move>>
  BY DEF FixInode, handles
<1>2. PICK n, b, content :
        /\ n = IF pc = "copy" THEN 1 ELSE k
        /\ \/ Write(b, content) /\ Goto("fix", n + 1) /\ UNCHANGED faults
           \/ Fault /\ Fail /\ UNCHANGED disk
  BY DEF FixInode
<1>3. DOMAIN disk' = Blocks
  BY <1>0, <1>2 DEF Write
<1>4. faults' \in 0 .. MaxFaults
  BY <1>0, <1>2, FaultOK
<1>5. pc' \in Late /\ k' \in Nat
  BY <1>0, <1>2 DEF Goto, Fail, Late, Places
<1>6. Layout'
  BY <1>0, <1>1, LayoutStutters
<1> QED
  BY <1>3, <1>4, <1>5, <1>6, LateStep

LEMMA BeginTablesStep == ResizeInv /\ BeginTables => ResizeInv'
<1> SUFFICES ASSUME ResizeInv, BeginTables PROVE ResizeInv'
  OBVIOUS
<1>1. UNCHANGED <<disk, old, new, reserve, move>> /\ (Fault \/ UNCHANGED faults)
  BY DEF BeginTables, FlushUnseen, handles
<1>2. pc' \in Late /\ k' \in Nat
  BY DEF BeginTables, Goto, Late, Places
<1>3. Layout'
  BY <1>1, LayoutStutters DEF ResizeInv
<1>4. DOMAIN disk' = Blocks /\ faults' \in 0 .. MaxFaults
  BY <1>1, FaultOK DEF ResizeInv, Control
<1> QED
  BY <1>2, <1>3, <1>4, LateStep

LEMMA FlushTableStep == ResizeInv /\ FlushTable => ResizeInv'
<1> SUFFICES ASSUME ResizeInv, FlushTable PROVE ResizeInv'
  OBVIOUS
<1>1. FlushOld(old) /\ UNCHANGED <<new, reserve, move>> /\ pc' = "tables" /\ k' = k + 1
  BY DEF FlushTable, Goto
<1>2. SameLayout(old, old') /\ DOMAIN disk' = Blocks /\ faults' \in 0 .. MaxFaults
  BY <1>1, FlushOldOK DEF ResizeInv
<1>3. SameLayout(new, new')
  BY <1>1 DEF SameLayout
<1>4. Layout'
  BY <1>1, <1>2, <1>3, LayoutKept DEF ResizeInv
<1>5. pc' \in Late /\ k' \in Nat
  BY <1>1 DEF Late, Places, ResizeInv, Control
<1> QED
  BY <1>2, <1>4, <1>5, LateStep

LEMMA CloseOldStep == ResizeInv /\ CloseOld => ResizeInv'
<1> SUFFICES ASSUME ResizeInv, CloseOld PROVE ResizeInv'
  OBVIOUS
<1>1. /\ FlushOld(old) \/ (UNCHANGED <<disk, old>> /\ (Fault \/ UNCHANGED faults))
      /\ UNCHANGED <<new, reserve, move>> /\ pc' = "closed" /\ k' = 0
  BY DEF CloseOld, FlushUnseen, Goto
<1>2. SameLayout(old, old') /\ DOMAIN disk' = Blocks /\ faults' \in 0 .. MaxFaults
  <2>1. CASE FlushOld(old)
    BY <2>1, FlushOldOK DEF ResizeInv
  <2>2. CASE UNCHANGED <<disk, old>> /\ (Fault \/ UNCHANGED faults)
    BY <2>2, FaultOK DEF SameLayout, ResizeInv, Control
  <2> QED
    BY <1>1, <2>1, <2>2
<1>3. SameLayout(new, new')
  BY <1>1 DEF SameLayout
<1>4. Layout'
  BY <1>1, <1>2, <1>3, LayoutKept DEF ResizeInv
<1>5. pc' \in Late /\ k' \in Nat
  BY <1>1 DEF Late, Places
<1> QED
  BY <1>2, <1>4, <1>5, LateStep

LEMMA EndTablesStep == ResizeInv /\ EndTables => ResizeInv'
<1> SUFFICES ASSUME ResizeInv, EndTables PROVE ResizeInv'
  OBVIOUS
<1>1. /\ new' = Marked(new, MetaBlocks(new)) /\ pc' = "bits" /\ k' = 0
      /\ UNCHANGED <<disk, old, reserve, move, faults>>
  BY DEF EndTables, Goto, Marked
<1>2. Layout
  BY DEF ResizeInv
<1>3. MetaBlocks(new) \subseteq 0 .. new.size - 1
  BY <1>2, MetaInside DEF Layout
<1>4. FsOK(new', new.size) /\ Extends(new, new') /\ GroupsOf(new') = GroupsOf(new)
  BY <1>1, <1>2, <1>3, MarkOK DEF Layout
<1>5. new'.size = new.size
  BY <1>4 DEF Extends
<1>6. Layout'
  BY <1>1, <1>2, <1>4, <1>5 DEF Layout, Blocks
<1>7. DOMAIN disk' = Blocks /\ faults' \in 0 .. MaxFaults /\ pc' \in Late /\ k' \in Nat
  BY <1>1 DEF ResizeInv, Control, Late, Places
<1> QED
  BY <1>6, <1>7, LateStep

LEMMA MoveTableStep == ResizeInv /\ MoveTable => ResizeInv'
<1> SUFFICES ASSUME ResizeInv, MoveTable PROVE ResizeInv'
  OBVIOUS
<1>0. Layout /\ k \in Nat /\ faults \in 0 .. MaxFaults /\ DOMAIN disk = Blocks
  BY DEF ResizeInv, Control
<1>1. pc = "tables" /\ k < Groups(old.size) /\ UNCHANGED <<reserve, move>>
  BY DEF MoveTable
<1>2. PICK to : to = new.gd[k].it
  OBVIOUS
<1>3. \/ Advance /\ UNCHANGED <<disk, old, new, faults>>
      \/ /\ Goto("flush", k) /\ DOMAIN disk' = Blocks
         /\ new' = [new EXCEPT !.map = @ \ Table(old.gd[k])]
         /\ old' = [old EXCEPT !.gd[k].it = to]
         /\ UNCHANGED faults
      \/ Fault /\ Fail /\ DOMAIN disk' = Blocks /\ UNCHANGED <<old, new>>
  BY <1>2 DEF MoveTable
<1>4. pc' \in Late /\ k' \in Nat
  BY <1>0, <1>1, <1>3 DEF Advance, Goto, Fail, Late, Places
<1>5. DOMAIN disk' = Blocks
  BY <1>0, <1>3
<1>6. faults' \in 0 .. MaxFaults
  BY <1>0, <1>3, FaultOK
<1>7. CASE UNCHANGED <<old, new>>
  <2>1. Layout'
    BY <1>0, <1>1, <1>7, LayoutStutters
  <2> QED
    BY <1>4, <1>5, <1>6, <2>1, LateStep
<1>8. CASE /\ new' = [new EXCEPT !.map = @ \ Table(old.gd[k])]
           /\ old' = [old EXCEPT !.gd[k].it = to]
  <2>1. /\ DOMAIN new = FsFields /\ DOMAIN old = FsFields /\ new.map \subseteq 0 .. new.size - 1
        /\ DOMAIN old.gd = GroupsOf(old) /\ old.size \in Nat \ {0}
        /\ \A g \in GroupsOf(old) : GroupOK(old.gd[g], new.size) /\ GroupOK(new.gd[g], new.size)
    BY <1>0 DEF Layout, FsOK
  <2>2. k \in GroupsOf(old)
    <3>1. Groups(old.size) \in Nat
      BY <2>1, GroupsNat
    <3> QED
      BY <1>0, <1>1, <3>1 DEF GroupsOf
  <2>3. /\ DOMAIN new' = FsFields /\ new'.map = new.map \ Table(old.gd[k])
        /\ \A p \in FsFields \ {"map"} : new'[p] = new[p]
    BY <1>8, <2>1 DEF FsFields
  <2>4. /\ new'.size = new.size /\ new'.rsv = new.rsv /\ new'.flex = new.flex
        /\ new'.stride = new.stride /\ new'.gd = new.gd
    BY <2>3 DEF FsFields
  <2>5. GroupsOf(new') = GroupsOf(new)
    BY <2>4 DEF GroupsOf
  <2>6. FsOK(new', new.size)
    BY <1>0, <2>1, <2>3, <2>4, <2>5 DEF Layout, FsOK
  <2>7. /\ DOMAIN old' = FsFields /\ old'.gd = [old.gd EXCEPT ![k] = [@ EXCEPT !.it = to]]
        /\ \A p \in FsFields \ {"gd"} : old'[p] = old[p]
    BY <1>8, <2>1 DEF FsFields
  <2>8. /\ old'.size = old.size /\ old'.rsv = old.rsv /\ old'.flex = old.flex
        /\ old'.stride = old.stride /\ old'.map = old.map
    BY <2>7 DEF FsFields
  <2>9. GroupsOf(old') = GroupsOf(old)
    BY <2>8 DEF GroupsOf
  <2>10. ASSUME NEW g \in GroupsOf(old) PROVE GroupOK(old'.gd[g], new.size)
    <3>1. old'.gd[g] = IF g = k THEN [old.gd[g] EXCEPT !.it = to] ELSE old.gd[g]
      BY <2>1, <2>7
    <3>2. GroupOK(old.gd[g], new.size) /\ GroupOK(new.gd[g], new.size)
      BY <2>1
    <3>3. g = k => SpotOK(to, Size("it"), new.size)
      BY <1>2, <3>2 DEF GroupOK, Parts
    <3> QED
      BY <3>1, <3>2, <3>3 DEF GroupOK
  <2>11. DOMAIN old'.gd = GroupsOf(old)
    BY <2>1, <2>7
  <2>12. FsOK(old', new.size)
    BY <1>0, <2>7, <2>8, <2>9, <2>10, <2>11 DEF Layout, FsOK
  <2>13. Layout'
    BY <1>0, <1>1, <2>4, <2>5, <2>6, <2>8, <2>9, <2>12 DEF Layout, Blocks
  <2> QED
    BY <1>4, <1>5, <1>6, <2>13, LateStep
<1> QED
  BY <1>3, <1>7, <1>8

LEMMA WriteBitmapsStep == ResizeInv /\ WriteBitmaps => ResizeInv'
<1> SUFFICES ASSUME ResizeInv, WriteBitmaps PROVE ResizeInv'
  OBVIOUS
<1>0. Layout /\ k \in Nat /\ faults \in 0 .. MaxFaults /\ DOMAIN disk = Blocks
  BY DEF ResizeInv, Control
<1>1. pc = "bits" /\ UNCHANGED <<old, new, reserve, move>>
  BY DEF WriteBitmaps, handles
<1>2. DOMAIN disk' = DOMAIN disk
  BY DEF WriteBitmaps, Write
<1>3. Fault \/ UNCHANGED faults
  BY DEF WriteBitmaps
<1>4. pc' \in Late /\ k' \in Nat
  BY <1>0, <1>1 DEF WriteBitmaps, FlushFails, Fail, Goto, Advance, Late, Places
<1>5. Layout'
  BY <1>0, <1>1, LayoutStutters
<1> QED
  BY <1>0, <1>2, <1>3, <1>4, <1>5, FaultOK, LateStep

LEMMA WriteDescsStep == ResizeInv /\ WriteDescs => ResizeInv'
<1> SUFFICES ASSUME ResizeInv, WriteDescs PROVE ResizeInv'
  OBVIOUS
<1>0. Layout /\ k \in Nat /\ faults \in 0 .. MaxFaults /\ DOMAIN disk = Blocks
  BY DEF ResizeInv, Control
<1>1. pc = "descs" /\ UNCHANGED <<old, new, reserve, move>>
  BY DEF WriteDescs, handles
<1>2. DOMAIN disk' = Blocks
  BY <1>0 DEF WriteDescs, Without
<1>3. Fault \/ UNCHANGED faults \/ \E S \in SUBSET Waiting : Faults(S)
  BY DEF WriteDescs
<1>4. pc' \in Late /\ k' \in Nat
  BY <1>0, <1>1 DEF WriteDescs, FlushFails, Fail, Goto, Advance, Late, Places
<1>5. Layout'
  BY <1>0, <1>1, LayoutStutters
<1>6. faults' \in 0 .. MaxFaults
  BY <1>0, <1>3, FaultOK, FaultsOK
<1> QED
  BY <1>2, <1>4, <1>5, <1>6, LateStep

LEMMA WriteSuperStep == ResizeInv /\ WriteSuper => ResizeInv'
<1> SUFFICES ASSUME ResizeInv, WriteSuper PROVE ResizeInv'
  OBVIOUS
<1>0. Layout /\ k \in Nat /\ faults \in 0 .. MaxFaults /\ DOMAIN disk = Blocks
  BY DEF ResizeInv, Control
<1>1. UNCHANGED <<old, reserve, move>> /\ (UNCHANGED new \/ new' = [new EXCEPT !.orig = Super(new)])
  BY DEF WriteSuper
<1>2. DOMAIN disk' = DOMAIN disk
  BY DEF WriteSuper
<1>3. Fault \/ UNCHANGED faults
  BY DEF WriteSuper, FlushUnseen
<1>4. pc' \in Late /\ k' \in Nat
  BY <1>0 DEF WriteSuper, FlushFails, Fail, Goto, Late, Places
<1>5. SameLayout(old, old') /\ SameLayout(new, new')
  <2>1. CASE UNCHANGED new
    BY <1>1, <2>1 DEF SameLayout
  <2>2. CASE new' = [new EXCEPT !.orig = Super(new)]
    BY <1>1, <2>2 DEF SameLayout, LayoutFields
  <2> QED
    BY <1>1, <2>1, <2>2
<1>6. Layout'
  BY <1>0, <1>1, <1>5, LayoutKept
<1> QED
  BY <1>0, <1>2, <1>3, <1>4, <1>6, FaultOK, LateStep

LEMMA FixResizeInodeStep == ResizeInv /\ FixResizeInode => ResizeInv'
<1> SUFFICES ASSUME ResizeInv, FixResizeInode PROVE ResizeInv'
  OBVIOUS
<1>0. Layout /\ k \in Nat /\ faults \in 0 .. MaxFaults /\ DOMAIN disk = Blocks
  BY DEF ResizeInv, Control
<1>1. UNCHANGED <<old, new, reserve, move>>
  BY DEF FixResizeInode, handles
<1>2. DOMAIN disk' = Blocks
  BY <1>0 DEF FixResizeInode, WriteRun
<1>3. Fault \/ UNCHANGED faults
  BY DEF FixResizeInode
<1>4. pc' \in Late /\ k' \in Nat
  BY <1>0 DEF FixResizeInode, Fail, Goto, Late, Places
<1>5. Layout'
  BY <1>0, <1>1, LayoutStutters
<1> QED
  BY <1>0, <1>2, <1>3, <1>4, <1>5, FaultOK, LateStep

LEMMA FixSbJournalBackupStep == ResizeInv /\ FixSbJournalBackup => ResizeInv'
<1> SUFFICES ASSUME ResizeInv, FixSbJournalBackup PROVE ResizeInv'
  OBVIOUS
<1>1. /\ UNCHANGED <<disk, old, reserve, move, faults>> /\ pc' = "bits" /\ k' = 0
      /\ new' = [new EXCEPT !.jnl = InodeRead(InodeBlock(new.gd, new.jino)), !.error = FALSE]
  BY DEF FixSbJournalBackup, Goto
<1>2. SameLayout(old, old') /\ SameLayout(new, new')
  BY <1>1 DEF SameLayout, LayoutFields
<1>3. Layout'
  BY <1>1, <1>2, LayoutKept DEF ResizeInv
<1>4. DOMAIN disk' = Blocks /\ faults' \in 0 .. MaxFaults /\ pc' \in Late /\ k' \in Nat
  BY <1>1 DEF ResizeInv, Control, Late, Places
<1> QED
  BY <1>3, <1>4, LateStep

LEMMA LoseBlockStep == ResizeInv /\ LoseBlock => ResizeInv'
<1> SUFFICES ASSUME ResizeInv, LoseBlock PROVE ResizeInv'
  OBVIOUS
<1>1. /\ UNCHANGED <<old, new, reserve, move, bmap, asked, pc, k>> /\ Fault /\ DOMAIN disk' = Blocks
  BY DEF LoseBlock, Without, handles, given
<1>2. faults' \in 0 .. MaxFaults
  BY <1>1, FaultOK DEF ResizeInv, Control
<1>3. Layout'
  BY <1>1, LayoutStutters DEF ResizeInv
<1>4. Control'
  BY <1>1, <1>2 DEF ResizeInv, Control, Blocks
<1>5. Phases'
  BY <1>1 DEF ResizeInv, Phases
<1> QED
  BY <1>3, <1>4, <1>5 DEF ResizeInv

(* What resize2fs knows of the two file systems fits together at every     *)
(* moment of a resize, whatever fails.                                     *)
THEOREM ResizeInvariant == Spec => []ResizeInv
<1>1. Init => ResizeInv
  BY InitInv
<1>2. ResizeInv /\ [Next]_vars => ResizeInv'
  <2> SUFFICES ASSUME ResizeInv, [Next]_vars PROVE ResizeInv'
    OBVIOUS
  <2>1. CASE MarkError
    BY <2>1, MarkErrorStep
  <2>2. CASE AdjustSuperblock
    BY <2>2, AdjustSuperblockStep
  <2>3. CASE ZeroNewTable
    BY <2>3, ZeroNewTableStep
  <2>4. CASE BlocksToMove
    BY <2>4, BlocksToMoveStep
  <2>5. CASE PlanMoves
    BY <2>5, PlanMovesStep
  <2>6. CASE CopyBlock
    BY <2>6, CopyBlockStep
  <2>7. CASE FixInode
    BY <2>7, FixInodeStep
  <2>8. CASE BeginTables
    BY <2>8, BeginTablesStep
  <2>9. CASE MoveTable
    BY <2>9, MoveTableStep
  <2>10. CASE FlushTable
    BY <2>10, FlushTableStep
  <2>11. CASE EndTables
    BY <2>11, EndTablesStep
  <2>12. CASE WriteBitmaps
    BY <2>12, WriteBitmapsStep
  <2>13. CASE WriteDescs
    BY <2>13, WriteDescsStep
  <2>14. CASE WriteSuper
    BY <2>14, WriteSuperStep
  <2>15. CASE FixResizeInode
    BY <2>15, FixResizeInodeStep
  <2>16. CASE FixSbJournalBackup
    BY <2>16, FixSbJournalBackupStep
  <2>17. CASE CloseOld
    BY <2>17, CloseOldStep
  <2>18. CASE LoseBlock
    BY <2>18, LoseBlockStep
  <2>19. CASE UNCHANGED vars
    <3>1. UNCHANGED <<disk, old, new, reserve, move, bmap, asked, pc, k, faults>>
      BY <2>19 DEF vars
    <3>2. Layout'
      BY <3>1, LayoutStutters DEF ResizeInv
    <3>3. Control'
      BY <3>1 DEF ResizeInv, Control, Blocks
    <3>4. Phases'
      BY <3>1 DEF ResizeInv, Phases
    <3> QED
      BY <3>2, <3>3, <3>4 DEF ResizeInv
  <2> QED
    BY <2>1, <2>2, <2>3, <2>4, <2>5, <2>6, <2>7, <2>8, <2>9, <2>10, <2>11, <2>12, <2>13, <2>14,
       <2>15, <2>16, <2>17, <2>18, <2>19 DEF Next
<1> QED
  BY <1>1, <1>2, PTL DEF Spec

\* What is on the device is known for every block.
CacheOK == DOMAIN device = Blocks /\ lost \in BOOLEAN

\* Each step leaves the device, writes all of it or lets a part wait.
DeviceStep ==
    /\ UNCHANGED device \/ Flushed \/ (\E S : Waits(S)) \/ DOMAIN device' = Blocks
    /\ UNCHANGED lost \/ lost' \in BOOLEAN

LEMMA DeviceSteps ==
    ASSUME CacheOK, [Next]_vars
    PROVE  DeviceStep
<1>1. \A S : FlushUnseen(S) => DeviceStep
  BY DEF FlushUnseen, DeviceStep
<1>2. \A fs : FlushOld(fs) => DeviceStep
  BY <1>1 DEF FlushOld, DeviceStep
<1>3. UNCHANGED cache => DeviceStep
  BY DEF cache, DeviceStep
<1>4. CASE MarkError \/ FlushTable
  BY <1>2, <1>4 DEF MarkError, FlushTable
<1>5. CASE AdjustSuperblock \/ BlocksToMove \/ PlanMoves \/ EndTables \/ FixSbJournalBackup
  BY <1>3, <1>5 DEF AdjustSuperblock, BlocksToMove, PlanMoves, EndTables, FixSbJournalBackup
<1>6. CASE ZeroNewTable
  BY <1>1, <1>6 DEF ZeroNewTable, DeviceStep
<1>7. CASE CopyBlock \/ BeginTables
  BY <1>1, <1>3, <1>7 DEF CopyBlock, BeginTables
<1>8. CASE FixInode
  BY <1>3, <1>8 DEF FixInode, DeviceStep
<1>9. CASE MoveTable
  BY <1>3, <1>9 DEF MoveTable, DeviceStep
<1>10. CASE WriteBitmaps
  BY <1>10 DEF WriteBitmaps, DeviceStep
<1>11. CASE WriteDescs
  BY <1>11 DEF WriteDescs, DeviceStep, CacheOK
<1>12. CASE WriteSuper
  BY <1>1, <1>12 DEF WriteSuper, DeviceStep
<1>13. CASE FixResizeInode
  BY <1>13 DEF FixResizeInode, DeviceStep
<1>14. CASE CloseOld
  BY <1>1, <1>2, <1>14 DEF CloseOld
<1>15. CASE LoseBlock
  BY <1>15 DEF LoseBlock, DeviceStep
<1>16. CASE UNCHANGED vars
  BY <1>3, <1>16 DEF vars
<1> QED
  BY <1>4, <1>5, <1>6, <1>7, <1>8, <1>9, <1>10, <1>11, <1>12, <1>13, <1>14, <1>15, <1>16 DEF Next

LEMMA CacheInvariant == Spec => []CacheOK
<1>1. Init /\ ResizeInv => CacheOK
  BY DEF Init, CacheOK, ResizeInv, Control
<1>2. CacheOK /\ ResizeInv' /\ [Next]_vars => CacheOK'
  <2> SUFFICES ASSUME CacheOK, ResizeInv', [Next]_vars PROVE CacheOK'
    OBVIOUS
  <2>1. DeviceStep
    BY DeviceSteps
  <2>2. DOMAIN disk' = Blocks /\ Blocks' = Blocks
    BY DEF ResizeInv, Control, Blocks
  <2> QED
    BY <2>1, <2>2 DEF CacheOK, DeviceStep, Flushed, Waits
<1> QED
  BY <1>1, <1>2, ResizeInvariant, PTL DEF Spec

(* No structure is ever placed outside the file system, whatever the size  *)
(* of groups and tables, however the groups are gathered and staggered.    *)
THEOREM Typed == Spec => []TypeOK
<1>1. ResizeInv /\ CacheOK => TypeOK
  <2> SUFFICES ASSUME ResizeInv, CacheOK PROVE TypeOK
    OBVIOUS
  <2>1. Control /\ Layout
    BY DEF ResizeInv
  <2>2. new.size \in Nat
    BY <2>1 DEF Layout, FsOK
  <2>3. ASSUME NEW fs \in {old, new}
        PROVE  /\ fs.map \subseteq 0 .. fs.size - 1 /\ DOMAIN fs.gd = GroupsOf(fs)
               /\ \A g \in DOMAIN fs.gd : Structures(fs.gd[g]) \subseteq 1 .. new.size - 1
    <3>1. FsOK(fs, new.size)
      BY <2>1 DEF Layout
    <3> QED
      BY <2>2, <3>1, StructuresInside DEF FsOK
  <2> QED
    BY <2>1, <2>3 DEF TypeOK, Control, Layout, CacheOK
<1> QED
  BY <1>1, ResizeInvariant, CacheInvariant, PTL

(* Up to the copies nothing the old file system uses is written: the       *)
(* tables that are zeroed and the blocks that are copied to were free.     *)
THEOREM OldBlocksKept == Spec => VirginSpaceOnly
<1>1. ASSUME ResizeInv, [Next]_vars, pc \in {"zero", "copy"}, <<pc, k>>' # <<pc, k>>, pc' # "fix",
             NEW b \in old.map
      PROVE  Same(disk'[b], disk[b])
  <2>0. disk'[b] = disk[b] => Same(disk'[b], disk[b])
    BY DEF Same
  <2>1. b \in Blocks /\ DOMAIN disk = Blocks /\ k \in Nat
    BY <1>1 DEF ResizeInv, Layout, Control
  <2>2. CASE ZeroNewTable
    <3>1. PICK n : n \in 0 .. InodeBlocks /\ WriteRun(new.gd[k].it, n, Content("zero", 0))
      BY <2>2, Constants DEF ZeroNewTable
    <3>2. pc = "zero" /\ k < Groups(new.size)
      BY <2>2 DEF ZeroNewTable
    <3>3. FsOK(old, old.size) /\ Enlarged(old, new, reserve) /\ k >= Groups(old.size)
      BY <1>1, <3>2 DEF ResizeInv, Phases
    <3>4. Groups(old.size) \in Nat /\ Groups(new.size) \in Nat /\ FsOK(new, new.size)
      BY <3>3, GroupsNat DEF FsOK, Enlarged
    <3>5. k \in GroupsOf(new) \ GroupsOf(old)
      BY <2>1, <3>2, <3>3, <3>4 DEF GroupsOf
    <3>6. new.gd[k].it # Nowhere /\ Table(new.gd[k]) \cap old.map = {}
      BY <3>3, <3>5 DEF Enlarged
    <3>7. new.gd[k].it \in Nat
      BY <3>4, <3>5 DEF FsOK, GroupOK, SpotOK, Parts
    <3>8. Run(new.gd[k].it, n) \subseteq Table(new.gd[k])
      BY <3>1, <3>6, <3>7, Constants DEF Table, Run
    <3>9. b \notin Run(new.gd[k].it, n)
      BY <1>1, <3>6, <3>8
    <3> QED
      BY <2>0, <2>1, <3>1, <3>9 DEF WriteRun
  <2>3. CASE CopyBlock
    <3>1. pc = "copy" /\ k <= Len(bmap)
      BY <2>3 DEF CopyBlock
    <3>2. k # 0 /\ Len(bmap) \in Nat /\ \A n \in 1 .. Len(bmap) : bmap[n][2] \notin old.map
      BY <1>1, <3>1 DEF ResizeInv, Phases
    <3>3. bmap[k][2] # b
      BY <1>1, <2>1, <3>1, <3>2
    <3>4. disk' = disk \/ \E c : disk' = [disk EXCEPT ![bmap[k][2]] = c]
      BY <2>3 DEF CopyBlock, Write
    <3> QED
      BY <2>0, <2>1, <3>3, <3>4
  <2>4. CASE BlocksToMove \/ BeginTables
    BY <2>0, <2>4 DEF BlocksToMove, BeginTables
  <2>5. CASE FixInode
    BY <1>1, <2>0, <2>5 DEF FixInode, Goto
  <2>6. ~(LoseBlock \/ UNCHANGED vars)
    BY <1>1 DEF LoseBlock, vars
  <2>7. ~(\/ MarkError \/ AdjustSuperblock \/ PlanMoves \/ MoveTable \/ FlushTable \/ EndTables
          \/ WriteBitmaps \/ WriteDescs \/ WriteSuper \/ FixResizeInode \/ FixSbJournalBackup \/ CloseOld)
    BY <1>1 DEF MarkError, AdjustSuperblock, PlanMoves, MoveTable, FlushTable, EndTables, WriteBitmaps,
                WriteDescs, WriteSuper, FixResizeInode, FixSbJournalBackup, CloseOld
  <2> QED
    BY <1>1, <2>2, <2>3, <2>4, <2>5, <2>6, <2>7 DEF Next
<1>2. ResizeInv /\ [Next]_vars =>
        [(pc \in {"zero", "copy"} /\ <<pc, k>>' # <<pc, k>> /\ pc' # "fix") => \A b \in old.map : Same(disk'[b], disk[b])]_vars
  BY <1>1
<1> QED
  BY <1>2, ResizeInvariant, PTL DEF Spec, VirginSpaceOnly
=============================================================================
