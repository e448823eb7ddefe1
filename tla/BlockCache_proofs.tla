-------------------------- MODULE BlockCache_proofs --------------------------
(***************************************************************************)
(* Proofs about BlockCache, for a device, a cache, blocks and requests of  *)
(* any size.                                                               *)
(***************************************************************************)
EXTENDS BlockCache, FiniteSetTheorems, SequenceTheorems, WellFoundedInduction, TLAPS

\* What a unit may hold.
Values == UNION {{p[u] : u \in Units} : p \in Payloads \cup {Initial}}

Entry(b) == [buf : [UnitsOf(b) -> Values], dirty : BOOLEAN]

(***************************************************************************)
(* The inductive invariant: the types, the places of the entries among the *)
(* access times, and the four properties, which need each other.  A        *)
(* request is served to its end before the next one is made, so the cache  *)
(* is not changed between a flush and the return of its result.            *)
(***************************************************************************)
Device ==
    /\ bs \in BlockSizes /\ open \in BOOLEAN /\ faults \in 0 .. MaxFaults
    /\ result \in {"ok", "error", "synced"}
    /\ DOMAIN dev = Units /\ DOMAIN want = Units
    /\ \A u \in Units : dev[u] \in Values

CacheOK ==
    \A b \in DOMAIN cache : b \in Nat /\ (b + 1) * bs <= NumUnits /\ cache[b] \in Entry(b)

JobOK ==
    job = Idle \/ /\ job \in [op : {"read", "write"}, block : Nat, count : 1 .. WriteDirectSize,
                              bytes : Payloads \cup {<< >>}]
                  /\ (job.block + job.count) * bs <= NumUnits
                  /\ job.op = "write" => job.bytes \in Payloads
                  /\ result # "synced"

\* seq lists the blocks of S, each of them once.
Lists(seq, S) ==
    /\ seq \in Seq(Nat)
    /\ \A i, j \in DOMAIN seq : i # j => seq[i] # seq[j]
    /\ S = {seq[i] : i \in DOMAIN seq}

OrderOK == Lists(order, DOMAIN cache) /\ Len(order) <= CacheSize

Safe == SeesLastWritten /\ ReadsLastWritten /\ CleanMatchesDevice /\ FlushedReachesDevice

IndInv == Device /\ CacheOK /\ JobOK /\ OrderOK /\ Safe

(***************************************************************************)
(* Arithmetic of blocks and units.                                         *)
(***************************************************************************)
LEMMA DivBounds ==
    ASSUME NEW u \in Nat, NEW n \in Nat \ {0}
    PROVE  u \div n \in Nat /\ (u \div n) * n <= u /\ u < ((u \div n) + 1) * n
OBVIOUS

LEMMA DivUnique ==
    ASSUME NEW u \in Nat, NEW n \in Nat \ {0}, NEW b \in Nat, b * n <= u, u < (b + 1) * n
    PROVE  u \div n = b
OBVIOUS

LEMMA TimesMonotone ==
    ASSUME NEW a \in Nat, NEW b \in Nat, NEW c \in Nat, a <= b
    PROVE  a * c <= b * c /\ a * c \in Nat /\ b * c \in Nat
OBVIOUS

LEMMA BlockSizePositive ==
    ASSUME bs \in BlockSizes
    PROVE  bs \in Nat \ {0}
BY BlockCacheAssumption

(* A unit belongs to the block that its offset is divided into.            *)
LEMMA BlockUnits ==
    ASSUME bs \in BlockSizes, NEW u \in Nat, NEW b \in Nat
    PROVE  u \in UnitsOf(b) <=> BlockOf(u) = b
<1>1. bs \in Nat \ {0} /\ b * bs \in Nat /\ (b + 1) * bs \in Nat
  BY BlockSizePositive, TimesMonotone
<1>2. u \in UnitsOf(b) <=> b * bs <= u /\ u < (b + 1) * bs
  BY <1>1 DEF UnitsOf
<1>3. ASSUME b * bs <= u, u < (b + 1) * bs PROVE u \div bs = b
  BY <1>1, <1>3, DivUnique
<1>4. ASSUME u \div bs = b PROVE b * bs <= u /\ u < (b + 1) * bs
  BY <1>1, <1>4, DivBounds
<1> QED
  BY <1>2, <1>3, <1>4 DEF BlockOf

LEMMA BlockOfNat ==
    ASSUME bs \in BlockSizes, NEW u \in Units
    PROVE  u \in Nat /\ BlockOf(u) \in Nat /\ u \in UnitsOf(BlockOf(u))
<1>1. u \in Nat
  BY BlockCacheAssumption DEF Units
<1>2. BlockOf(u) \in Nat
  BY <1>1, BlockSizePositive, DivBounds DEF BlockOf
<1> QED
  BY <1>1, <1>2, BlockUnits

(* A block that ends within the device consists of units of the device.    *)
LEMMA BlockWithin ==
    ASSUME bs \in BlockSizes, NEW b \in Nat, (b + 1) * bs <= NumUnits
    PROVE  /\ UnitsOf(b) \subseteq Units /\ UnitsOf(b) # {} /\ b \in Blocks
           /\ \A u \in UnitsOf(b) : BlockOf(u) = b /\ u \in Nat /\ b * bs <= u
           /\ b * bs \in UnitsOf(b)
<1>1. bs \in Nat \ {0} /\ b * bs \in Nat /\ (b + 1) * bs = b * bs + bs
  BY BlockSizePositive, TimesMonotone
<1>2. \A u \in UnitsOf(b) : u \in Nat /\ b * bs <= u /\ u < NumUnits
  BY <1>1, BlockCacheAssumption DEF UnitsOf
<1>3. UnitsOf(b) \subseteq Units
  BY <1>2, BlockCacheAssumption DEF Units
<1>4. b * bs \in UnitsOf(b)
  BY <1>1 DEF UnitsOf
<1>5. \A u \in UnitsOf(b) : BlockOf(u) = b
  BY <1>2, BlockUnits
<1> QED
  BY <1>2, <1>3, <1>4, <1>5 DEF Blocks

LEMMA CachedWithin ==
    ASSUME bs \in BlockSizes, CacheOK, NEW b \in DOMAIN cache
    PROVE  /\ b \in Nat /\ UnitsOf(b) \subseteq Units /\ UnitsOf(b) # {} /\ b \in Blocks
           /\ \A u \in UnitsOf(b) : BlockOf(u) = b /\ u \in Nat /\ b * bs <= u
           /\ b * bs \in UnitsOf(b)
           /\ cache[b] \in Entry(b) /\ DOMAIN cache[b].buf = UnitsOf(b)
           /\ cache[b].dirty \in BOOLEAN /\ \A u \in UnitsOf(b) : cache[b].buf[u] \in Values
<1>1. b \in Nat /\ (b + 1) * bs <= NumUnits /\ cache[b] \in Entry(b)
  BY DEF CacheOK
<1> QED
  BY <1>1, BlockWithin DEF Entry

(* Values are what a payload holds.                                        *)
LEMMA PayloadValues ==
    /\ \A p \in Payloads, u \in Units : p[u] \in Values
    /\ \A u \in Units : Initial[u] \in Values
    /\ DOMAIN Initial = Units /\ \A p \in Payloads : DOMAIN p = Units
BY BlockCacheAssumption DEF Values

(* What the caller sees of a cached and of an uncached unit.               *)
LEMMA ContentsIs ==
    ASSUME bs \in BlockSizes, CacheOK
    PROVE  /\ \A b \in DOMAIN cache : \A u \in UnitsOf(b) : Contents[u] = cache[b].buf[u]
           /\ \A u \in Units : BlockOf(u) \notin DOMAIN cache => Contents[u] = dev[u]
<1>1. ASSUME NEW b \in DOMAIN cache, NEW u \in UnitsOf(b)
      PROVE  Contents[u] = cache[b].buf[u]
  BY CachedWithin DEF Contents
<1> QED
  BY <1>1 DEF Contents

(* Any set of natural numbers has a least element.                         *)
LEMMA LeastNatural ==
    ASSUME NEW T, T \subseteq Nat, T # {}
    PROVE  \E m \in T : \A k \in T : m <= k
<1>1. PICK m \in T : \A k \in T : ~(<<k, m>> \in OpToRel(<, Nat))
  BY NatLessThanWellFounded, WFMin, Zenon
<1>2. \A k \in T : ~(k < m)
  BY <1>1 DEF OpToRel
<1> QED
  BY <1>2

(* Blocks are few enough to be counted.                                    *)
LEMMA FaultsCounted ==
    ASSUME Device, CacheOK, NEW bad \in SUBSET Dirty, Count(Cardinality(bad))
    PROVE  faults' \in 0 .. MaxFaults
<1>1. DOMAIN cache \subseteq 0 .. NumUnits
  <2>1. ASSUME NEW b \in DOMAIN cache PROVE b \in 0 .. NumUnits
    <3>1. b \in Nat /\ (b + 1) * bs <= NumUnits /\ bs \in Nat \ {0}
      BY BlockSizePositive DEF CacheOK, Device
    <3>2. (b + 1) * 1 <= (b + 1) * bs
      BY <3>1
    <3> QED
      BY <3>1, <3>2, BlockCacheAssumption
  <2> QED
    BY <2>1
<1>2. bad \subseteq 0 .. NumUnits /\ IsFiniteSet(0 .. NumUnits)
  BY <1>1, FS_Interval, BlockCacheAssumption DEF Dirty
<1>3. Cardinality(bad) \in Nat
  BY <1>2, FS_Subset, FS_CardinalityType
<1> QED
  BY <1>3, BlockCacheAssumption DEF Count, Device

(***************************************************************************)
(* The access times.                                                       *)
(***************************************************************************)
LEMMA ListsTail ==
    ASSUME NEW seq, NEW S, Lists(seq, S), seq # << >>
    PROVE  Lists(Tail(seq), S \ {Head(seq)}) /\ Len(Tail(seq)) = Len(seq) - 1 /\ Head(seq) \in S
<1>1. seq \in Seq(Nat) /\ Len(seq) \in Nat \ {0} /\ DOMAIN seq = 1 .. Len(seq) /\ Head(seq) = seq[1]
  BY EmptySeq DEF Lists
<1>2. /\ Tail(seq) \in Seq(Nat) /\ Len(Tail(seq)) = Len(seq) - 1
      /\ \A i \in 1 .. Len(seq) - 1 : Tail(seq)[i] = seq[i + 1]
  BY <1>1, HeadTailProperties
<1>3. DOMAIN Tail(seq) = 1 .. Len(seq) - 1
  BY <1>2
<1>4. \A i, j \in 1 .. Len(seq) - 1 : i # j => Tail(seq)[i] # Tail(seq)[j]
  BY <1>1, <1>2 DEF Lists
<1>5. ASSUME NEW b PROVE b \in S \ {Head(seq)} <=> \E i \in 1 .. Len(seq) - 1 : Tail(seq)[i] = b
  <2>1. b \in S <=> \E i \in 1 .. Len(seq) : seq[i] = b
    BY <1>1 DEF Lists
  <2>2. ASSUME b \in S, b # Head(seq) PROVE \E i \in 1 .. Len(seq) - 1 : Tail(seq)[i] = b
    <3>1. PICK i \in 1 .. Len(seq) : seq[i] = b
      BY <2>1, <2>2
    <3>2. i - 1 \in 1 .. Len(seq) - 1 /\ (i - 1) + 1 = i
      BY <1>1, <2>2, <3>1
    <3> QED
      BY <1>2, <3>1, <3>2
  <2>3. ASSUME NEW i \in 1 .. Len(seq) - 1, Tail(seq)[i] = b PROVE b \in S /\ b # Head(seq)
    <3>1. i + 1 \in 1 .. Len(seq) /\ i + 1 # 1 /\ 1 \in 1 .. Len(seq)
      BY <1>1
    <3>2. b = seq[i + 1]
      BY <1>2, <2>3
    <3> QED
      BY <1>1, <2>1, <3>1, <3>2 DEF Lists
  <2> QED
    BY <2>2, <2>3
<1>6. S \ {Head(seq)} = {Tail(seq)[i] : i \in DOMAIN Tail(seq)}
  BY <1>3, <1>5, Zenon
<1>7. Head(seq) \in S
  BY <1>1 DEF Lists
<1> QED
  BY <1>2, <1>3, <1>4, <1>6, <1>7 DEF Lists

LEMMA ListsAppend ==
    ASSUME NEW seq, NEW S, Lists(seq, S), NEW b \in Nat, b \notin S
    PROVE  Lists(Append(seq, b), S \cup {b}) /\ Len(Append(seq, b)) = Len(seq) + 1
<1> DEFINE new == Append(seq, b)
<1>1. seq \in Seq(Nat) /\ Len(seq) \in Nat /\ DOMAIN seq = 1 .. Len(seq)
  BY DEF Lists
<1>2. /\ new \in Seq(Nat) /\ Len(new) = Len(seq) + 1 /\ new[Len(seq) + 1] = b
      /\ \A i \in DOMAIN seq : new[i] = seq[i]
      /\ DOMAIN new = DOMAIN seq \cup {Len(seq) + 1} /\ Len(seq) + 1 \notin DOMAIN seq
  BY <1>1, AppendProperties
<1> HIDE DEF new
<1>3. \A i \in DOMAIN seq : seq[i] # b
  BY DEF Lists
<1>4. \A i, j \in DOMAIN new : i # j => new[i] # new[j]
  BY <1>2, <1>3 DEF Lists
<1>5. \A c : c \in S <=> \E i \in DOMAIN seq : seq[i] = c
  BY DEF Lists
<1>6. \A c : c \in S \cup {b} <=> \E i \in DOMAIN new : new[i] = c
  BY <1>2, <1>5
<1>7. S \cup {b} = {new[i] : i \in DOMAIN new}
  BY <1>6, Zenon
<1> QED
  BY <1>2, <1>4, <1>7 DEF Lists, new

LEMMA ListsTouched ==
    ASSUME NEW seq, NEW S, Lists(seq, S), NEW b \in S
    PROVE  Lists(Touched(seq, b), S) /\ Len(Touched(seq, b)) = Len(seq)
<1> DEFINE k == CHOOSE k \in DOMAIN seq : seq[k] = b
           n == Len(seq)
           new == Touched(seq, b)
<1>1. seq \in Seq(Nat) /\ n \in Nat /\ DOMAIN seq = 1 .. n
      /\ \A i, j \in 1 .. n : i # j => seq[i] # seq[j]
  BY DEF Lists
<1>2. k \in 1 .. n /\ seq[k] = b
  BY <1>1 DEF Lists
<1>3. new = [i \in DOMAIN seq |-> IF i < k THEN seq[i] ELSE IF i < n THEN seq[i + 1] ELSE b]
  BY DEF Touched
<1>n. n \in Int /\ k \in Int /\ 1 <= k /\ k <= n /\ \A i \in 1 .. n : i \in Int /\ i <= n
  BY <1>1, <1>2
<1> HIDE DEF k, new
<1>4. /\ \A i \in 1 .. n : i < k => new[i] = seq[i]
      /\ \A i \in 1 .. n : k <= i /\ i < n => new[i] = seq[i + 1] /\ i + 1 \in 1 .. n /\ i + 1 # k
      /\ new[n] = seq[k]
  BY <1>1, <1>2, <1>3
<1>5. new \in Seq(Nat) /\ Len(new) = n /\ DOMAIN new = 1 .. n
  <2>1. \A i \in 1 .. n : new[i] \in Nat
    BY <1>1, <1>2, <1>4
  <2>2. new \in [1 .. n -> Nat]
    BY <1>1, <1>3, <2>1
  <2> QED
    BY <1>1, <2>2
<1>6. ASSUME NEW i \in 1 .. n, NEW j \in 1 .. n, i < j PROVE new[i] # new[j]
  <2>1. i < n
    BY <1>1, <1>6
  <2>2. CASE j = n
    BY <1>1, <1>2, <1>4, <1>6, <2>1, <2>2
  <2>3. CASE j < n
    BY <1>1, <1>2, <1>4, <1>6, <2>1, <2>3
  <2> QED
    BY <1>n, <2>2, <2>3
<1>7. \A i, j \in DOMAIN new : i # j => new[i] # new[j]
  <2>1. \A i, j \in 1 .. n : i # j => i < j \/ j < i
    BY <1>1
  <2> QED
    BY <1>5, <1>6, <2>1
<1>8. \A c : c \in S <=> \E i \in 1 .. n : seq[i] = c
  BY <1>1 DEF Lists
<1>9. ASSUME NEW c PROVE c \in S <=> \E i \in 1 .. n : new[i] = c
  <2>1. ASSUME NEW i \in 1 .. n, seq[i] = c PROVE \E j \in 1 .. n : new[j] = c
    <3>1. CASE i < k
      BY <1>4, <2>1, <3>1
    <3>2. CASE i = k
      <4>1. n \in 1 .. n
        BY <1>1, <1>2
      <4> QED
        BY <1>4, <2>1, <3>2, <4>1
    <3>3. CASE k < i
      <4>1. i - 1 \in 1 .. n /\ k <= i - 1 /\ i - 1 < n /\ (i - 1) + 1 = i
        BY <1>1, <1>2, <3>3
      <4> QED
        BY <1>4, <2>1, <4>1
    <3> QED
      BY <1>1, <1>2, <3>1, <3>2, <3>3
  <2>2. ASSUME NEW i \in 1 .. n, new[i] = c PROVE \E j \in 1 .. n : seq[j] = c
    <3>1. i < k \/ (k <= i /\ i < n) \/ i = n
      BY <1>n
    <3> QED
      BY <1>2, <1>4, <2>2, <3>1
  <2> QED
    BY <1>8, <2>1, <2>2
<1>10. S = {new[i] : i \in DOMAIN new}
  BY <1>5, <1>9, Zenon
<1> QED
  BY <1>5, <1>7, <1>10 DEF Lists, new

(* The number of entries in use is the number of blocks they hold.         *)
LEMMA ListsCount ==
    ASSUME NEW seq, NEW S, Lists(seq, S)
    PROVE  Len(seq) = Cardinality(S)
<1>1. seq \in Seq(Nat) /\ Len(seq) \in Nat /\ DOMAIN seq = 1 .. Len(seq)
  BY DEF Lists
<1>2. seq \in Bijection(1 .. Len(seq), S)
  BY <1>1 DEF Lists, Bijection, Injection, Surjection, IsInjective
<1> QED
  BY <1>1, <1>2, FS_CountingElements DEF ExistsBijection

(***************************************************************************)
(* What flush_cached_blocks and reuse_cache write.                         *)
(***************************************************************************)
LEMMA FlushedIs ==
    ASSUME IndInv, NEW bad \in SUBSET Dirty, NEW got, NEW f, f = Flushed(bad, got)
    PROVE  /\ DOMAIN f = Units /\ \A u \in Units : f[u] \in Values
           /\ \A b \in DOMAIN cache \ bad : \A u \in UnitsOf(b) \ bypassed : f[u] = cache[b].buf[u]
           /\ \A u \in Units \ bypassed : BlockOf(u) \notin bad => f[u] = Contents[u]
<1>0. bs \in BlockSizes /\ CacheOK /\ CleanMatchesDevice /\ Device
  BY DEF IndInv, Device, Safe
<1>1. f = [u \in Units |-> IF BlockOf(u) \in Dirty /\ (BlockOf(u) \in bad => u < BlockOf(u) * bs + got[BlockOf(u)])
                             THEN cache[BlockOf(u)].buf[u] ELSE dev[u]]
  BY DEF Flushed
<1>2. ASSUME NEW u \in Units PROVE f[u] \in Values
  <2>1. dev[u] \in Values
    BY <1>0 DEF Device
  <2>2. BlockOf(u) \in DOMAIN cache => cache[BlockOf(u)].buf[u] \in Values
    BY <1>0, CachedWithin, BlockOfNat
  <2> QED
    BY <1>1, <2>1, <2>2 DEF Dirty
<1>3. ASSUME NEW b \in DOMAIN cache \ bad, NEW u \in UnitsOf(b) \ bypassed
      PROVE  f[u] = cache[b].buf[u]
  <2>1. BlockOf(u) = b /\ u \in Units
    BY <1>0, CachedWithin
  <2>2. CASE b \in Dirty
    BY <1>1, <2>1, <2>2
  <2>3. CASE b \notin Dirty
    BY <1>0, <1>1, <2>1, <2>3 DEF CleanMatchesDevice
  <2> QED
    BY <2>2, <2>3
<1>4. ASSUME NEW u \in Units \ bypassed, BlockOf(u) \notin bad PROVE f[u] = Contents[u]
  <2>1. CASE BlockOf(u) \in DOMAIN cache
    <3>1. u \in UnitsOf(BlockOf(u))
      BY <1>0, BlockOfNat
    <3> QED
      BY <1>0, <1>3, <1>4, <2>1, <3>1, ContentsIs
  <2>2. CASE BlockOf(u) \notin DOMAIN cache
    BY <1>0, <1>1, <2>2, ContentsIs DEF Dirty
  <2> QED
    BY <2>1, <2>2
<1> QED
  BY <1>1, <1>2, <1>3, <1>4

(* The least unit of a row of units.                                       *)
LEMMA LeastUnit ==
    ASSUME NEW units, units \subseteq Nat, NEW a \in units, \A v \in units : a <= v
    PROVE  a = CHOOSE u \in units : \A v \in units : u <= v
<1> DEFINE low == CHOOSE u \in units : \A v \in units : u <= v
<1>1. low \in units /\ \A v \in units : low <= v
  OBVIOUS
<1>2. low \in Nat /\ a \in Nat /\ low <= a /\ a <= low
  BY <1>1
<1> QED
  BY <1>2

LEMMA BlockIsRow ==
    ASSUME bs \in BlockSizes, NEW b \in Nat
    PROVE  bs \in Nat \ {0} /\ b * bs \in Nat /\ UnitsOf(b) = b * bs .. b * bs + bs - 1
<1>1. bs \in Nat \ {0} /\ b * bs \in Nat /\ (b + 1) * bs = b * bs + bs
  BY BlockSizePositive, TimesMonotone
<1> QED
  BY <1>1 DEF UnitsOf

LEMMA EvictedIs ==
    ASSUME IndInv, NEW gone \in Losses, WriteBack(gone)
    PROVE  /\ DOMAIN dev' = Units /\ \A u \in Units : dev'[u] \in Values
           /\ KeptBlocks \subseteq DOMAIN cache
           /\ \A b \in KeptBlocks : \A u \in UnitsOf(b) : dev'[u] = dev[u]
           /\ \A u \in Units : BlockOf(u) \notin DOMAIN cache => dev'[u] = dev[u]
           /\ \A u \in Units \ (bypassed \cup gone) : BlockOf(u) \notin KeptBlocks => dev'[u] = Contents[u]
<1>0. bs \in BlockSizes /\ CacheOK /\ CleanMatchesDevice /\ Device
  BY DEF IndInv, Device, Safe
<1>1. KeptBlocks \subseteq DOMAIN cache
  BY DEF KeptBlocks
<1>2. CASE Full /\ Eldest \in Dirty
  <2>1. Eldest \in DOMAIN cache /\ cache[Eldest].dirty
    BY <1>2 DEF Dirty
  <2>2. PICK k \in IF gone = {} THEN {bs} ELSE 0 .. bs - 1 :
          dev' = Landed(UnitsOf(Eldest), cache[Eldest].buf, k)
    BY <1>2 DEF WriteBack
  <2>3. Eldest \in Nat /\ UnitsOf(Eldest) \subseteq Units /\ UnitsOf(Eldest) # {}
        /\ \A u \in UnitsOf(Eldest) : BlockOf(u) = Eldest /\ cache[Eldest].buf[u] \in Values
    BY <1>0, <2>1, CachedWithin
  <2>4. bs \in Nat \ {0} /\ Eldest * bs \in Nat
        /\ UnitsOf(Eldest) = Eldest * bs .. Eldest * bs + bs - 1
    BY <1>0, <2>3, BlockIsRow
  <2>5. /\ DOMAIN dev' = Units
        /\ \A u \in Units : dev'[u] = IF u \in UnitsOf(Eldest) /\ u < Eldest * bs + k
                                        THEN cache[Eldest].buf[u] ELSE dev[u]
    <3>1. Eldest * bs \in UnitsOf(Eldest) /\ UnitsOf(Eldest) \subseteq Nat
          /\ \A v \in UnitsOf(Eldest) : Eldest * bs <= v
      BY <1>0, <2>1, CachedWithin
    <3> DEFINE low == CHOOSE u \in UnitsOf(Eldest) : \A v \in UnitsOf(Eldest) : u <= v
    <3>2. low = Eldest * bs
      BY <3>1, LeastUnit
    <3> HIDE DEF low
    <3>3. dev' = [u \in Units |-> IF u \in UnitsOf(Eldest) /\ u < low + k
                                    THEN cache[Eldest].buf[u] ELSE dev[u]]
      BY <2>2 DEF Landed, low
    <3> QED
      BY <3>2, <3>3
  <2>6. \A u \in Units : dev'[u] \in Values
    BY <1>0, <2>3, <2>5 DEF Device
  <2>7. ASSUME NEW u \in Units, BlockOf(u) # Eldest PROVE dev'[u] = dev[u]
    BY <2>3, <2>5, <2>7
  <2>8. ASSUME NEW b \in KeptBlocks, NEW u \in UnitsOf(b) PROVE dev'[u] = dev[u]
    <3>1. BlockOf(u) = b /\ u \in Units /\ b # Eldest
      BY <1>0, <1>1, <1>2, CachedWithin DEF KeptBlocks
    <3> QED
      BY <2>7, <3>1
  <2>9. ASSUME NEW u \in Units \ (bypassed \cup gone), BlockOf(u) \notin KeptBlocks
        PROVE  dev'[u] = Contents[u]
    <3>1. CASE BlockOf(u) \notin DOMAIN cache
      BY <1>0, <2>1, <2>7, <3>1, ContentsIs
    <3>2. CASE BlockOf(u) \in DOMAIN cache
      <4>1. BlockOf(u) = Eldest
        BY <1>2, <2>9, <3>2 DEF KeptBlocks
      <4>2. u \in UnitsOf(Eldest)
        BY <1>0, <4>1, BlockOfNat
      <4>3. gone = {}
        BY <1>2, <2>9, <4>2 DEF Losses
      <4>4. k = bs
        BY <2>2, <4>3
      <4>5. u < Eldest * bs + k
        BY <2>4, <4>2, <4>4
      <4> QED
        BY <1>0, <2>1, <2>5, <4>2, <4>5, ContentsIs
    <3> QED
      BY <3>1, <3>2
  <2>10. ASSUME NEW u \in Units, BlockOf(u) \notin DOMAIN cache PROVE dev'[u] = dev[u]
    BY <2>1, <2>7, <2>10
  <2>11. DOMAIN dev' = Units
    BY <2>5
  <2> QED
    BY <1>1, <2>6, <2>8, <2>9, <2>10, <2>11
<1>3. CASE ~(Full /\ Eldest \in Dirty)
  <2>1. dev' = dev
    BY <1>3 DEF WriteBack
  <2>2. ASSUME NEW u \in Units \ (bypassed \cup gone), BlockOf(u) \notin KeptBlocks
        PROVE  dev'[u] = Contents[u]
    <3>1. CASE BlockOf(u) \notin DOMAIN cache
      BY <1>0, <2>1, <3>1, ContentsIs
    <3>2. CASE BlockOf(u) \in DOMAIN cache
      <4>1. BlockOf(u) \notin Dirty
        BY <1>3, <2>2, <3>2 DEF KeptBlocks
      <4>2. u \in UnitsOf(BlockOf(u))
        BY <1>0, BlockOfNat
      <4>3. cache[BlockOf(u)].buf[u] = dev[u]
        BY <1>0, <3>2, <4>1, <4>2, <2>2 DEF CleanMatchesDevice
      <4> QED
        BY <1>0, <2>1, <3>2, <4>2, <4>3, ContentsIs
    <3> QED
      BY <3>1, <3>2
  <2> QED
    BY <1>0, <1>1, <2>1, <2>2 DEF Device
<1> QED
  BY <1>2, <1>3

(* The access times of the entries that are kept.                          *)
LEMMA KeptLists ==
    ASSUME IndInv
    PROVE  Lists(OrderKept, KeptBlocks) /\ Len(OrderKept) \in Nat /\ Len(OrderKept) < CacheSize
<1>1. Lists(order, DOMAIN cache) /\ Len(order) <= CacheSize /\ order \in Seq(Nat) /\ CacheSize \in Nat
      /\ CacheSize > 0 /\ Len(order) \in Nat
  BY BlockCacheAssumption DEF IndInv, OrderOK, Lists
<1>2. CASE Full
  <2>1. order # << >>
    BY <1>1, <1>2 DEF Full
  <2>2. Lists(Tail(order), DOMAIN cache \ {Head(order)}) /\ Len(Tail(order)) = Len(order) - 1
    BY <1>1, <2>1, ListsTail
  <2>3. OrderKept = Tail(order) /\ KeptBlocks = DOMAIN cache \ {Head(order)}
    BY <1>2 DEF OrderKept, KeptBlocks, Eldest
  <2>4. Len(order) \in Nat \ {0} /\ Len(order) - 1 \in Nat /\ Len(order) - 1 < CacheSize
    BY <1>1, <2>1, EmptySeq
  <2> QED
    BY <2>2, <2>3, <2>4
<1>3. CASE ~Full
  BY <1>1, <1>3 DEF Full, OrderKept, KeptBlocks
<1> QED
  BY <1>2, <1>3

(***************************************************************************)
(* What is left after a flush, with and without invalidate.                *)
(***************************************************************************)
LEMMA EmptyCache ==
    ASSUME cache' = << >>, order' = << >>, DOMAIN dev' = Units
    PROVE  /\ CacheOK' /\ OrderOK' /\ CleanMatchesDevice'
           /\ \A u \in Units : Contents'[u] = dev'[u]
<1>1. DOMAIN cache' = {}
  OBVIOUS
<1>2. OrderOK'
  <2>1. order' \in Seq(Nat) /\ DOMAIN order' = {} /\ Len(order') = 0
    OBVIOUS
  <2>2. DOMAIN cache' = {order'[i] : i \in DOMAIN order'}
    BY <1>1, <2>1
  <2> QED
    BY <2>1, <2>2, BlockCacheAssumption DEF OrderOK, Lists
<1> QED
  BY <1>1, <1>2 DEF CacheOK, CleanMatchesDevice, Contents

LEMMA StillDirtyIs ==
    ASSUME bs \in BlockSizes, CacheOK, NEW bad \in SUBSET Dirty, cache' = StillDirty(bad), bs' = bs
    PROVE  /\ CacheOK' /\ DOMAIN cache' = DOMAIN cache
           /\ \A b \in DOMAIN cache : cache'[b].buf = cache[b].buf /\ (cache'[b].dirty <=> b \in bad)
<1>1. ASSUME NEW b \in DOMAIN cache
      PROVE  /\ cache'[b] \in Entry(b) /\ cache'[b].buf = cache[b].buf
             /\ (cache'[b].dirty <=> b \in bad)
  <2>1. cache[b] \in Entry(b)
    BY CachedWithin
  <2>2. cache'[b] = [cache[b] EXCEPT !.dirty = cache[b].dirty /\ b \in bad]
    BY DEF StillDirty
  <2>3. (cache[b].dirty /\ b \in bad) \in BOOLEAN
    OBVIOUS
  <2>4. (cache[b].dirty /\ b \in bad) <=> b \in bad
    BY DEF Dirty
  <2>5. cache'[b].dirty = (cache[b].dirty /\ b \in bad) /\ cache'[b].buf = cache[b].buf
    BY <2>1, <2>2 DEF Entry
  <2>6. cache'[b] \in Entry(b)
    BY <2>1, <2>2, <2>3 DEF Entry
  <2> QED
    BY <2>4, <2>5, <2>6, Zenon
<1>2. DOMAIN cache' = DOMAIN cache
  BY DEF StillDirty
<1> QED
  BY <1>1, <1>2 DEF CacheOK, Entry, UnitsOf

LEMMA FlushKeeps ==
    ASSUME IndInv, NEW bad \in SUBSET Dirty, NEW got, dev' = Flushed(bad, got),
           cache' = StillDirty(bad), UNCHANGED <<bs, order, want, told, lost, bypassed>>
    PROVE  /\ CacheOK' /\ OrderOK' /\ SeesLastWritten' /\ CleanMatchesDevice'
           /\ DOMAIN dev' = Units /\ \A u \in Units : dev'[u] \in Values
           /\ bad = {} => \A u \in Units \ Excused : dev'[u] = want[u]
<1>0. bs \in BlockSizes /\ CacheOK /\ SeesLastWritten /\ OrderOK
  BY DEF IndInv, Device, Safe
<1>1. /\ CacheOK' /\ DOMAIN cache' = DOMAIN cache
      /\ \A b \in DOMAIN cache : cache'[b].buf = cache[b].buf /\ (cache'[b].dirty <=> b \in bad)
  BY <1>0, StillDirtyIs
<1>2. /\ DOMAIN dev' = Units /\ \A u \in Units : dev'[u] \in Values
      /\ \A b \in DOMAIN cache \ bad : \A u \in UnitsOf(b) \ bypassed : dev'[u] = cache[b].buf[u]
      /\ \A u \in Units \ bypassed : BlockOf(u) \notin bad => dev'[u] = Contents[u]
  <2>1. DOMAIN dev' = Units /\ \A u \in Units : dev'[u] \in Values
    BY FlushedIs
  <2>2. \A b \in DOMAIN cache \ bad : \A u \in UnitsOf(b) \ bypassed : dev'[u] = cache[b].buf[u]
    BY FlushedIs
  <2>3. \A u \in Units \ bypassed : BlockOf(u) \notin bad => dev'[u] = Contents[u]
    BY FlushedIs
  <2> QED
    BY <2>1, <2>2, <2>3
<1>3. OrderOK'
  BY <1>0, <1>1 DEF OrderOK, Lists
<1>4. SeesLastWritten'
  <2>1. ASSUME NEW u \in Units \ Excused PROVE Contents'[u] = Contents[u]
    <3>1. Contents'[u] = IF BlockOf(u) \in DOMAIN cache' THEN cache'[BlockOf(u)].buf[u] ELSE dev'[u]
      BY DEF Contents, BlockOf
    <3>2. CASE BlockOf(u) \in DOMAIN cache
      BY <1>1, <3>1, <3>2 DEF Contents
    <3>3. CASE BlockOf(u) \notin DOMAIN cache
      <4>1. BlockOf(u) \notin bad /\ u \notin bypassed
        BY <3>3 DEF Dirty, Excused
      <4> QED
        BY <1>1, <1>2, <3>1, <3>3, <4>1
    <3> QED
      BY <3>2, <3>3
  <2> QED
    BY <1>0, <2>1 DEF SeesLastWritten, Excused
<1>5. CleanMatchesDevice'
  <2>1. ASSUME NEW b \in DOMAIN cache', ~cache'[b].dirty, NEW u \in UnitsOf(b)' \ bypassed'
        PROVE  cache'[b].buf[u] = dev'[u]
    <3>1. b \in DOMAIN cache \ bad /\ u \in UnitsOf(b) \ bypassed
      BY <1>1, <2>1 DEF UnitsOf
    <3> QED
      BY <1>1, <1>2, <3>1
  <2> QED
    BY <2>1 DEF CleanMatchesDevice, Dirty
<1>6. ASSUME bad = {}, NEW u \in Units \ Excused PROVE dev'[u] = want[u]
  BY <1>0, <1>2, <1>6 DEF SeesLastWritten, Excused
<1> QED
  BY <1>1, <1>2, <1>3, <1>4, <1>5, <1>6

LEMMA FlushDrops ==
    ASSUME IndInv, NEW bad \in SUBSET Dirty, NEW got, dev' = Flushed(bad, got),
           cache' = << >>, order' = << >>, told' = told \cup UnitsIn(bad),
           UNCHANGED <<want, lost, bypassed>>
    PROVE  /\ CacheOK' /\ OrderOK' /\ SeesLastWritten' /\ CleanMatchesDevice'
           /\ DOMAIN dev' = Units /\ \A u \in Units : dev'[u] \in Values
           /\ \A u \in Units \ Excused' : dev'[u] = want[u]
<1>0. bs \in BlockSizes /\ CacheOK /\ SeesLastWritten
  BY DEF IndInv, Device, Safe
<1>1. /\ DOMAIN dev' = Units /\ \A u \in Units : dev'[u] \in Values
      /\ \A u \in Units \ bypassed : BlockOf(u) \notin bad => dev'[u] = Contents[u]
  BY FlushedIs
<1>2. /\ CacheOK' /\ OrderOK' /\ CleanMatchesDevice'
      /\ \A u \in Units : Contents'[u] = dev'[u]
  BY <1>1, EmptyCache
<1>3. ASSUME NEW u \in Units \ Excused' PROVE dev'[u] = want[u]
  <2>1. u \notin Excused /\ u \notin bypassed /\ u \notin UnitsIn(bad)
    BY <1>3 DEF Excused
  <2>2. BlockOf(u) \notin bad
    BY <1>0, <2>1, BlockOfNat DEF UnitsIn
  <2> QED
    BY <1>0, <1>1, <2>1, <2>2 DEF SeesLastWritten
<1>4. SeesLastWritten'
  BY <1>2, <1>3 DEF SeesLastWritten
<1> QED
  BY <1>1, <1>2, <1>3, <1>4

LEMMA InitInv == Init => IndInv
<1> SUFFICES ASSUME Init PROVE IndInv
  OBVIOUS
<1>1. bs \in BlockSizes /\ DOMAIN dev = Units /\ \A u \in Units : dev[u] = want[u]
  BY PayloadValues DEF Init
<1>2. Device
  BY <1>1, PayloadValues, BlockCacheAssumption DEF Init, Device
<1>3. DOMAIN cache = {} /\ DOMAIN served = {}
  BY DEF Init
<1>4. CacheOK /\ JobOK
  BY <1>3 DEF Init, CacheOK, JobOK
<1>5. OrderOK
  <2>1. order \in Seq(Nat) /\ DOMAIN order = {} /\ Len(order) = 0
    BY DEF Init
  <2>2. DOMAIN cache = {order[i] : i \in DOMAIN order}
    BY <1>3, <2>1
  <2> QED
    BY <2>1, <2>2, BlockCacheAssumption DEF OrderOK, Lists
<1>6. Safe
  BY <1>1, <1>3 DEF Init, Safe, SeesLastWritten, ReadsLastWritten, CleanMatchesDevice,
                    FlushedReachesDevice, Contents
<1> QED
  BY <1>2, <1>4, <1>5, <1>6 DEF IndInv

LEMMA NothingServed == ASSUME NoAnswer PROVE ReadsLastWritten'
<1>1. DOMAIN served' = {}
  BY DEF NoAnswer
<1> QED
  BY <1>1 DEF ReadsLastWritten

(* unix_flush                                                              *)
LEMMA FlushInv == IndInv /\ Flush => IndInv'
<1> SUFFICES ASSUME IndInv, Flush PROVE IndInv'
  OBVIOUS
<1>1. job = Idle /\ UNCHANGED <<open, bs, order, job, want, told, lost, bypassed>> /\ NoAnswer
  BY DEF Flush, Ready, history
<1>2. PICK bad \in SUBSET Dirty : FlushWith(bad) /\ cache' = StillDirty(bad)
  BY DEF Flush
<1>3. PICK got : dev' = Flushed(bad, got)
  BY <1>2 DEF FlushWith
<1>4. /\ CacheOK' /\ OrderOK' /\ SeesLastWritten' /\ CleanMatchesDevice'
      /\ DOMAIN dev' = Units /\ (\A u \in Units : dev'[u] \in Values)
      /\ (bad = {} => \A u \in Units \ Excused : dev'[u] = want[u])
  BY <1>1, <1>2, <1>3, FlushKeeps
<1>5. faults' \in 0 .. MaxFaults
  BY <1>2, FaultsCounted DEF FlushWith, IndInv
<1>6. Device'
  BY <1>1, <1>2, <1>4, <1>5 DEF IndInv, Device, FlushWith
<1>7. FlushedReachesDevice'
  BY <1>1, <1>2, <1>4 DEF FlushWith, FlushedReachesDevice, Excused
<1> QED
  BY <1>1, <1>4, <1>6, <1>7, NothingServed DEF IndInv, JobOK, Safe

(* unix_close                                                              *)
LEMMA CloseInv == IndInv /\ Close => IndInv'
<1> SUFFICES ASSUME IndInv, Close PROVE IndInv'
  OBVIOUS
<1>1. /\ job = Idle /\ UNCHANGED <<bs, job, want, lost, bypassed>> /\ NoAnswer
      /\ open' = FALSE /\ cache' = << >> /\ order' = << >>
  BY DEF Close, Ready
<1>2. PICK bad \in SUBSET Dirty : FlushWith(bad) /\ told' = told \cup UnitsIn(bad)
  BY DEF Close
<1>3. PICK got : dev' = Flushed(bad, got)
  BY <1>2 DEF FlushWith
<1>4. /\ CacheOK' /\ OrderOK' /\ SeesLastWritten' /\ CleanMatchesDevice'
      /\ DOMAIN dev' = Units /\ (\A u \in Units : dev'[u] \in Values)
      /\ \A u \in Units \ Excused' : dev'[u] = want[u]
  BY <1>1, <1>2, <1>3, FlushDrops
<1>5. faults' \in 0 .. MaxFaults
  BY <1>2, FaultsCounted DEF FlushWith, IndInv
<1>6. Device'
  BY <1>1, <1>2, <1>4, <1>5 DEF IndInv, Device, FlushWith
<1>7. FlushedReachesDevice'
  BY <1>1, <1>4 DEF FlushedReachesDevice
<1> QED
  BY <1>1, <1>4, <1>6, <1>7, NothingServed DEF IndInv, JobOK, Safe

(* unix_set_blksize                                                        *)
LEMMA SetBlkSizeInv == IndInv /\ SetBlkSize => IndInv'
<1> SUFFICES ASSUME IndInv, SetBlkSize PROVE IndInv'
  OBVIOUS
<1>1. job = Idle /\ UNCHANGED <<open, job, want, told, lost, bypassed>> /\ NoAnswer
  BY DEF SetBlkSize, Ready, history
<1>2. PICK size \in BlockSizes \ {bs}, bad \in SUBSET Dirty :
        /\ FlushWith(bad)
        /\ \/ bad = {} /\ bs' = size /\ cache' = << >> /\ order' = << >>
           \/ bad # {} /\ cache' = StillDirty(bad) /\ UNCHANGED <<bs, order>>
  BY DEF SetBlkSize
<1>3. PICK got : dev' = Flushed(bad, got)
  BY <1>2 DEF FlushWith
<1>4. /\ CacheOK' /\ OrderOK' /\ SeesLastWritten' /\ CleanMatchesDevice'
      /\ DOMAIN dev' = Units /\ (\A u \in Units : dev'[u] \in Values)
      /\ (bad = {} => \A u \in Units \ Excused' : dev'[u] = want[u])
  <2>1. CASE bad = {} /\ bs' = size /\ cache' = << >> /\ order' = << >>
    <3>1. told' = told \cup UnitsIn(bad)
      BY <1>1, <2>1 DEF UnitsIn
    <3> QED
      BY <1>1, <1>3, <2>1, <3>1, FlushDrops
  <2>2. CASE bad # {} /\ cache' = StillDirty(bad) /\ UNCHANGED <<bs, order>>
    BY <1>1, <1>3, <2>2, FlushKeeps
  <2> QED
    BY <1>2, <2>1, <2>2
<1>5. faults' \in 0 .. MaxFaults
  BY <1>2, FaultsCounted DEF FlushWith, IndInv
<1>6. Device'
  BY <1>1, <1>2, <1>4, <1>5 DEF IndInv, Device, FlushWith
<1>7. FlushedReachesDevice'
  BY <1>1, <1>2, <1>4 DEF FlushWith, FlushedReachesDevice
<1> QED
  BY <1>1, <1>4, <1>6, <1>7, NothingServed DEF IndInv, JobOK, Safe

(* A flush that fails before a direct transfer.                            *)
LEMMA FlushFailsInv == IndInv /\ FlushFails => IndInv'
<1> SUFFICES ASSUME IndInv, FlushFails PROVE IndInv'
  OBVIOUS
<1>1. job = Idle /\ UNCHANGED <<open, bs, job, want, lost, bypassed>> /\ NoAnswer
  BY DEF FlushFails, Ready
<1>2. PICK bad \in (SUBSET Dirty) \ {{}} :
        /\ FlushWith(bad)
        /\ \/ cache' = StillDirty(bad) /\ UNCHANGED <<order, told>>
           \/ cache' = << >> /\ order' = << >> /\ told' = told \cup UnitsIn(bad)
  BY DEF FlushFails
<1>3. PICK got : dev' = Flushed(bad, got)
  BY <1>2 DEF FlushWith
<1>4. /\ CacheOK' /\ OrderOK' /\ SeesLastWritten' /\ CleanMatchesDevice'
      /\ DOMAIN dev' = Units /\ (\A u \in Units : dev'[u] \in Values)
  <2>1. CASE cache' = StillDirty(bad) /\ UNCHANGED <<order, told>>
    BY <1>1, <1>3, <2>1, FlushKeeps
  <2>2. CASE cache' = << >> /\ order' = << >> /\ told' = told \cup UnitsIn(bad)
    BY <1>1, <1>3, <2>2, FlushDrops
  <2> QED
    BY <1>2, <2>1, <2>2
<1>5. faults' \in 0 .. MaxFaults
  BY <1>2, FaultsCounted DEF FlushWith, IndInv
<1>6. Device' /\ result' = "error"
  BY <1>1, <1>2, <1>4, <1>5 DEF IndInv, Device, FlushWith
<1>7. FlushedReachesDevice'
  BY <1>6 DEF FlushedReachesDevice
<1> QED
  BY <1>1, <1>4, <1>6, <1>7, NothingServed DEF IndInv, JobOK, Safe

(* A result other than that of a flush promises nothing.                   *)
LEMMA NotSynced == ASSUME result' # "synced" PROVE FlushedReachesDevice'
BY DEF FlushedReachesDevice

LEMMA AnswerInv ==
    ASSUME NEW a, NEW n, NEW bytes, Answered(a, n, bytes),
           \A u \in (a .. a + n - 1) \ Excused' : bytes[u] = want'[u]
    PROVE  ReadsLastWritten'
<1>1. DOMAIN served' = a .. a + n - 1 /\ \A u \in a .. a + n - 1 : served'[u] = bytes[u]
  BY DEF Answered
<1> QED
  BY <1>1 DEF ReadsLastWritten

LEMMA OneMoreFault ==
    ASSUME Device, NEW n \in Nat, Count(n)
    PROVE  faults' \in 0 .. MaxFaults
BY BlockCacheAssumption DEF Count, Device

(* A read past the cache                                                   *)
LEMMA ReadDirectInv == IndInv /\ ReadDirect => IndInv'
<1> SUFFICES ASSUME IndInv, ReadDirect PROVE IndInv'
  OBVIOUS
<1>1. job = Idle /\ UNCHANGED <<open, bs, order, job, want, told, lost, bypassed>>
  BY DEF ReadDirect, Ready, history
<1>2. PICK offset \in Units, size \in 1 .. NumUnits :
         /\ Direct(offset, size)
         /\ dev' = Flushed({}, << >>) /\ cache' = StillDirty({})
         /\ \/ /\ Answered(offset, size, dev') /\ result' = "ok" /\ UNCHANGED faults
            \/ /\ Count(1)
               /\ result' = "error" /\ NoAnswer
  BY DEF ReadDirect
<1>3. /\ CacheOK' /\ OrderOK' /\ SeesLastWritten' /\ CleanMatchesDevice'
      /\ DOMAIN dev' = Units /\ (\A u \in Units : dev'[u] \in Values)
      /\ \A u \in Units \ Excused : dev'[u] = want[u]
  BY <1>1, <1>2, FlushKeeps, {} \in SUBSET Dirty
<1>4. faults' \in 0 .. MaxFaults
  BY <1>2, OneMoreFault DEF IndInv, Device
<1>5. Device' /\ result' # "synced"
  BY <1>1, <1>2, <1>3, <1>4 DEF IndInv, Device
<1>6. ReadsLastWritten'
  <2>1. CASE Answered(offset, size, dev')
    <3>1. offset .. offset + size - 1 \subseteq Units
      BY <1>2, BlockCacheAssumption DEF Direct, Units
    <3>2. \A u \in (offset .. offset + size - 1) \ Excused' : dev'[u] = want'[u]
      BY <1>1, <1>3, <3>1 DEF Excused
    <3> QED
      BY <2>1, <3>2, AnswerInv
  <2> QED
    BY <1>2, <2>1, NothingServed
<1> QED
  BY <1>1, <1>3, <1>5, <1>6, NotSynced DEF IndInv, JobOK, Safe

(* A write past the cache                                                  *)
LEMMA WriteDirectInv == IndInv /\ WriteDirect => IndInv'
<1> SUFFICES ASSUME IndInv, WriteDirect PROVE IndInv'
  OBVIOUS
<1>0. bs \in BlockSizes /\ CacheOK /\ SeesLastWritten
  BY DEF IndInv, Device, Safe
<1> DEFINE f == Flushed({}, << >>)
<1>1. /\ job = Idle /\ UNCHANGED <<open, bs, job>> /\ NoAnswer
      /\ cache' = << >> /\ order' = << >>
  BY DEF WriteDirect, Ready, Emptied
<1>2. PICK offset \in Units, size \in 1 .. NumUnits, bytes \in Payloads :
         LET units == offset .. offset + size - 1
             arrived(n) == [u \in Units |-> IF u \in units /\ u < offset + n
                                              THEN bytes[u] ELSE f[u]]
         IN  /\ Direct(offset, size)
             /\ Asked(units, bytes)
             /\ \/ /\ dev' = arrived(size) /\ result' = "ok"
                   /\ told' = told \ units /\ UNCHANGED faults
                \/ /\ Count(1)
                   /\ \E n \in 0 .. size - 1 : dev' = arrived(n)
                   /\ result' = "error" /\ told' = told \cup units
             /\ lost' = lost \ units /\ bypassed' = bypassed \ units
  BY DEF WriteDirect
<1> DEFINE units == offset .. offset + size - 1
<1>3. /\ DOMAIN f = Units /\ \A u \in Units : f[u] \in Values
      /\ \A u \in Units \ bypassed : f[u] = Contents[u]
  BY FlushedIs, {} \in SUBSET Dirty
<1> HIDE DEF f
<1>4. /\ units \subseteq Units /\ offset \in Nat /\ size \in Nat
      /\ \A u \in Units : bytes[u] \in Values
      /\ \A u \in units : u < offset + size
  BY <1>2, BlockCacheAssumption, PayloadValues DEF Direct, Units
<1>5. PICK n : dev' = [u \in Units |-> IF u \in units /\ u < offset + n THEN bytes[u] ELSE f[u]]
               /\ (n = size \/ told' = told \cup units)
               /\ lost' = lost \ units /\ bypassed' = bypassed \ units
               /\ (told' = told \cup units \/ told' = told \ units)
               /\ result' \in {"ok", "error"}
  BY <1>2
<1>6. DOMAIN want' = Units /\ \A u \in Units : want'[u] = IF u \in units THEN bytes[u] ELSE want[u]
  BY <1>2 DEF Asked
<1> HIDE DEF units
<1>7. DOMAIN dev' = Units /\ \A u \in Units : dev'[u] \in Values
  BY <1>3, <1>4, <1>5
<1>8. faults' \in 0 .. MaxFaults
  BY <1>2, OneMoreFault DEF IndInv, Device
<1>9. Device'
  BY <1>1, <1>5, <1>6, <1>7, <1>8 DEF IndInv, Device
<1>10. /\ CacheOK' /\ OrderOK' /\ CleanMatchesDevice'
       /\ \A u \in Units : Contents'[u] = dev'[u]
  BY <1>1, <1>7, EmptyCache
<1>11. ASSUME NEW u \in Units \ Excused' PROVE dev'[u] = want'[u]
  <2>1. CASE u \in units
    <3>1. n = size
      BY <1>5, <1>11, <2>1 DEF Excused
    <3> QED
      BY <1>4, <1>5, <1>6, <2>1, <3>1
  <2>2. CASE u \notin units
    <3>1. u \notin Excused /\ u \notin bypassed
      BY <1>5, <1>11, <2>2 DEF Excused
    <3>2. Contents[u] = want[u]
      BY <1>0, <3>1 DEF SeesLastWritten
    <3> QED
      BY <1>3, <1>5, <1>6, <2>2, <3>1, <3>2
  <2> QED
    BY <2>1, <2>2
<1>12. SeesLastWritten'
  BY <1>10, <1>11 DEF SeesLastWritten
<1> QED
  BY <1>1, <1>5, <1>9, <1>10, <1>12, NothingServed, NotSynced DEF IndInv, JobOK, Safe

(* The start of a request that goes through the cache                      *)
LEMMA RequestInv == IndInv /\ Request => IndInv'
<1> SUFFICES ASSUME IndInv, Request PROVE IndInv'
  OBVIOUS
<1>0. bs \in BlockSizes
  BY DEF IndInv, Device
<1>1. /\ UNCHANGED <<open, bs, cache, order, dev, faults, want, told, lost, bypassed>> /\ NoAnswer
      /\ result' = "ok"
  BY DEF Request, history
<1>2. PICK op \in {"read", "write"}, block \in Blocks, count \in 1 .. WriteDirectSize, bytes \in Payloads :
         /\ (block + count) * bs <= NumUnits
         /\ job' = [op |-> op, block |-> block, count |-> count,
                    bytes |-> IF op = "read" THEN << >> ELSE bytes]
  BY DEF Request
<1>3. block \in Nat
  BY <1>0, BlockOfNat DEF Blocks
<1>4. JobOK'
  <2>1. job' \in [op : {"read", "write"}, block : Nat, count : 1 .. WriteDirectSize,
                  bytes : Payloads \cup {<< >>}]
    BY <1>2, <1>3
  <2>2. job'.op = "write" => job'.bytes \in Payloads
    BY <1>2
  <2> QED
    BY <1>1, <1>2, <2>1, <2>2 DEF JobOK
<1>5. Device' /\ CacheOK' /\ OrderOK'
  BY <1>1 DEF IndInv, Device, CacheOK, OrderOK, Lists, Entry, UnitsOf
<1>6. SeesLastWritten' /\ CleanMatchesDevice'
  BY <1>1 DEF IndInv, Safe, SeesLastWritten, CleanMatchesDevice, Contents, BlockOf, Excused, Dirty, UnitsOf
<1> QED
  BY <1>1, <1>4, <1>5, <1>6, NothingServed, NotSynced DEF IndInv, Safe

(* unix_write_byte: what it writes past a cached copy is bypassed.         *)
LEMMA WriteByteInv == IndInv /\ WriteByte => IndInv'
<1> SUFFICES ASSUME IndInv, WriteByte PROVE IndInv'
  OBVIOUS
<1>0. bs \in BlockSizes /\ CacheOK /\ SeesLastWritten /\ CleanMatchesDevice /\ Device
  BY DEF IndInv, Device, Safe
<1>1. job = Idle /\ UNCHANGED <<open, bs, cache, order, job>> /\ NoAnswer
  BY DEF WriteByte, Ready
<1>2. PICK offset \in Units, size \in 1 .. 2, bytes \in Payloads :
         LET units == offset .. offset + size - 1
             cached == {u \in units : BlockOf(u) \in DOMAIN cache}
         IN  /\ offset + size <= NumUnits
             /\ Asked(units, bytes)
             /\ \/ /\ dev' = Landed(units, bytes, size)
                   /\ Count(One(cached # {}))
                   /\ result' = "ok" /\ told' = told \ units
                \/ /\ Count(1)
                   /\ \E k \in 0 .. size - 1 : dev' = Landed(units, bytes, k)
                   /\ result' = "error" /\ told' = told \cup units
             /\ lost' = lost \ units
             /\ bypassed' = (bypassed \ units) \cup cached
  BY DEF WriteByte
<1> DEFINE units == offset .. offset + size - 1
           cached == {u \in units : BlockOf(u) \in DOMAIN cache}
           low == CHOOSE u \in units : \A v \in units : u <= v
<1>3. /\ units \subseteq Units /\ offset \in Nat /\ size \in Nat /\ units \subseteq Nat
      /\ \A u \in Units : bytes[u] \in Values
      /\ \A u \in units : u < offset + size /\ offset <= u
      /\ offset \in units
  BY <1>2, BlockCacheAssumption, PayloadValues DEF Units
<1>4. DOMAIN want' = Units /\ \A u \in Units : want'[u] = IF u \in units THEN bytes[u] ELSE want[u]
  BY <1>2 DEF Asked
<1>5. PICK n : dev' = Landed(units, bytes, n)
               /\ (n = size \/ told' = told \cup units)
               /\ lost' = lost \ units /\ bypassed' = (bypassed \ units) \cup cached
               /\ (told' = told \cup units \/ told' = told \ units)
               /\ result' \in {"ok", "error"}
  BY <1>2
<1>6. One(cached # {}) \in Nat
  BY DEF One
<1>7. faults' \in 0 .. MaxFaults
  BY <1>0, <1>2, <1>6, OneMoreFault
<1>8. \A u \in cached : u \in units /\ BlockOf(u) \in DOMAIN cache
  OBVIOUS
<1>9. \A u \in units : BlockOf(u) \in DOMAIN cache => u \in cached
  OBVIOUS
<1> HIDE DEF units, cached
<1>10. low = offset
  BY <1>3, LeastUnit
<1>11. dev' = [u \in Units |-> IF u \in units /\ u < low + n THEN bytes[u] ELSE dev[u]]
  BY <1>5 DEF Landed
<1> HIDE DEF low
<1>12. /\ DOMAIN dev' = Units
       /\ \A u \in Units : dev'[u] = IF u \in units /\ u < offset + n THEN bytes[u] ELSE dev[u]
  BY <1>10, <1>11
<1>13. \A u \in Units : dev'[u] \in Values
  BY <1>0, <1>3, <1>12 DEF Device
<1>14. Device' /\ CacheOK' /\ OrderOK'
  BY <1>1, <1>4, <1>5, <1>7, <1>12, <1>13 DEF IndInv, Device, CacheOK, OrderOK, Lists, Entry, UnitsOf
<1>15. SeesLastWritten'
  <2>1. ASSUME NEW u \in Units \ Excused' PROVE Contents'[u] = want'[u]
    <3>1. Contents'[u] = IF BlockOf(u) \in DOMAIN cache THEN cache[BlockOf(u)].buf[u] ELSE dev'[u]
      BY <1>1 DEF Contents, BlockOf
    <3>2. CASE u \in units
      <4>1. n = size /\ BlockOf(u) \notin DOMAIN cache
        BY <1>5, <1>9, <2>1, <3>2 DEF Excused
      <4> QED
        BY <1>3, <1>4, <1>12, <3>1, <3>2, <4>1
    <3>3. CASE u \notin units
      <4>1. u \notin Excused
        BY <1>5, <2>1, <3>3 DEF Excused
      <4>2. Contents[u] = want[u]
        BY <1>0, <4>1 DEF SeesLastWritten
      <4> QED
        BY <1>4, <1>12, <3>1, <3>3, <4>2 DEF Contents
    <3> QED
      BY <3>2, <3>3
  <2> QED
    BY <2>1 DEF SeesLastWritten
<1>16. CleanMatchesDevice'
  <2>1. ASSUME NEW b \in DOMAIN cache, ~cache[b].dirty, NEW u \in UnitsOf(b), u \notin bypassed'
        PROVE  cache[b].buf[u] = dev'[u]
    <3>1. u \in Units /\ BlockOf(u) = b
      BY <1>0, CachedWithin
    <3>2. u \notin units /\ u \notin bypassed
      BY <1>5, <1>8, <1>9, <2>1, <3>1
    <3> QED
      BY <1>0, <1>12, <2>1, <3>1, <3>2 DEF CleanMatchesDevice, Dirty
  <2> QED
    BY <1>1, <2>1 DEF CleanMatchesDevice, Dirty, UnitsOf
<1> QED
  BY <1>1, <1>5, <1>14, <1>15, <1>16, NothingServed, NotSynced DEF IndInv, JobOK, Safe

(***************************************************************************)
(* The rounds of unix_read_blk64 and unix_write_blk64.                     *)
(***************************************************************************)
LEMMA JobIs ==
    ASSUME IndInv, job.op \in {"read", "write"}
    PROVE  /\ job \in [op : {"read", "write"}, block : Nat, count : 1 .. WriteDirectSize,
                       bytes : Payloads \cup {<< >>}]
           /\ job.block \in Nat /\ job.count \in Nat \ {0}
           /\ (job.block + job.count) * bs <= NumUnits
           /\ job.op = "write" => job.bytes \in Payloads
           /\ result # "synced"
<1>1. job # Idle
  BY DEF Idle
<1>2. WriteDirectSize \in Nat
  BY BlockCacheAssumption
<1> QED
  BY <1>1, <1>2 DEF IndInv, JobOK

(* A block within the request ends within the device.                      *)
LEMMA JobWithin ==
    ASSUME IndInv, job.op \in {"read", "write"}, NEW n \in 1 .. job.count
    PROVE  /\ (job.block + n) * bs <= NumUnits
           /\ job.block + n - 1 \in Nat /\ ((job.block + n - 1) + 1) * bs <= NumUnits
<1>1. /\ job.block \in Nat /\ job.count \in Nat \ {0}
      /\ (job.block + job.count) * bs <= NumUnits /\ bs \in Nat /\ NumUnits \in Nat
  BY JobIs, BlockSizePositive, BlockCacheAssumption DEF IndInv, Device
<1>2. n \in Nat /\ job.block + n \in Nat /\ job.block + n <= job.block + job.count
      /\ job.block + job.count \in Nat
  BY <1>1
<1>3. (job.block + n) * bs <= (job.block + job.count) * bs
      /\ (job.block + n) * bs \in Nat /\ (job.block + job.count) * bs \in Nat
  BY <1>1, <1>2, TimesMonotone
<1>4. (job.block + n) * bs <= NumUnits
  BY <1>1, <1>3
<1>5. job.block + n - 1 \in Nat /\ (job.block + n - 1) + 1 = job.block + n
  BY <1>1, <1>2
<1> QED
  BY <1>4, <1>5

LEMMA RestInv ==
    ASSUME IndInv, job.op \in {"read", "write"}, NEW n \in 1 .. job.count, job' = Rest(n),
           bs' = bs, result' = result
    PROVE  JobOK'
<1>1. /\ job \in [op : {"read", "write"}, block : Nat, count : 1 .. WriteDirectSize,
                  bytes : Payloads \cup {<< >>}]
      /\ job.block \in Nat /\ job.count \in Nat \ {0}
      /\ (job.block + job.count) * bs <= NumUnits
      /\ job.op = "write" => job.bytes \in Payloads
      /\ result # "synced"
  BY JobIs
<1>2. CASE job.count = n
  BY <1>2 DEF Rest, JobOK
<1>3. CASE job.count # n
  <2>1. job' = [job EXCEPT !.block = job.block + n, !.count = job.count - n]
    BY <1>3 DEF Rest
  <2>2. WriteDirectSize \in Nat
    BY BlockCacheAssumption
  <2>3. /\ job.block + n \in Nat /\ job.count - n \in 1 .. WriteDirectSize
        /\ (job.block + n) + (job.count - n) = job.block + job.count
    BY <1>1, <1>3, <2>2
  <2>4. /\ job' \in [op : {"read", "write"}, block : Nat, count : 1 .. WriteDirectSize,
                     bytes : Payloads \cup {<< >>}]
        /\ job'.block = job.block + n /\ job'.count = job.count - n
        /\ job'.op = job.op /\ job'.bytes = job.bytes
    BY <1>1, <2>1, <2>3
  <2> QED
    BY <1>1, <2>3, <2>4 DEF JobOK
<1> QED
  BY <1>2, <1>3

(* An entry is put in place of the one that is reused.                     *)
LEMMA WithIs ==
    ASSUME bs \in BlockSizes, CacheOK, KeptBlocks \subseteq DOMAIN cache,
           NEW block \in Nat, (block + 1) * bs <= NumUnits,
           NEW bytes, \A u \in UnitsOf(block) : bytes[u] \in Values, NEW dirty \in BOOLEAN, bs' = bs,
           cache' = With(block, bytes, dirty)
    PROVE  /\ CacheOK' /\ DOMAIN cache' = KeptBlocks \cup {block}
           /\ \A b \in KeptBlocks : b # block => cache'[b] = cache[b]
<1>1. cache'[block] = [buf |-> [u \in UnitsOf(block) |-> bytes[u]], dirty |-> dirty]
  BY DEF With
<1>2. \A b \in KeptBlocks : b # block => cache'[b] = cache[b]
  BY DEF With
<1>3. cache'[block] \in Entry(block)
  BY <1>1 DEF Entry
<1>4. DOMAIN cache' = KeptBlocks \cup {block}
  BY DEF With
<1>5. CacheOK'
  BY <1>2, <1>3, <1>4 DEF CacheOK, Entry, UnitsOf
<1> QED
  BY <1>2, <1>4, <1>5

LEMMA OrderIs ==
    ASSUME NEW seq, NEW S, Lists(seq, S), Len(seq) <= CacheSize, order' = seq, DOMAIN cache' = S
    PROVE  OrderOK'
BY DEF OrderOK, Lists

(* A block that was not cached is put in place of a reused entry: as the   *)
(* device has it, or as the caller wrote it.                               *)
LEMMA ReadInIs ==
    ASSUME IndInv, NEW gone \in Losses, WriteBack(gone), lost' = lost \cup gone,
           NEW block \in Nat, (block + 1) * bs <= NumUnits, block \notin DOMAIN cache,
           NEW bytes, \A u \in UnitsOf(block) : bytes[u] = dev'[u],
           cache' = With(block, bytes, FALSE), UNCHANGED <<bs, want, told, bypassed>>
    PROVE  /\ CacheOK' /\ SeesLastWritten' /\ CleanMatchesDevice'
           /\ DOMAIN dev' = Units /\ \A u \in Units : dev'[u] \in Values
           /\ DOMAIN cache' = KeptBlocks \cup {block}
<1>0. bs \in BlockSizes /\ CacheOK /\ SeesLastWritten /\ CleanMatchesDevice
  BY DEF IndInv, Device, Safe
<1>1. /\ DOMAIN dev' = Units /\ \A u \in Units : dev'[u] \in Values
      /\ KeptBlocks \subseteq DOMAIN cache
      /\ \A b \in KeptBlocks : \A u \in UnitsOf(b) : dev'[u] = dev[u]
      /\ \A u \in Units : BlockOf(u) \notin DOMAIN cache => dev'[u] = dev[u]
      /\ \A u \in Units \ (bypassed \cup gone) : BlockOf(u) \notin KeptBlocks => dev'[u] = Contents[u]
  BY EvictedIs
<1>2. UnitsOf(block) \subseteq Units /\ \A u \in UnitsOf(block) : BlockOf(u) = block
  BY <1>0, BlockWithin
<1>3. /\ CacheOK' /\ DOMAIN cache' = KeptBlocks \cup {block}
      /\ \A b \in KeptBlocks : b # block => cache'[b] = cache[b]
      /\ cache'[block].dirty = FALSE
      /\ \A u \in UnitsOf(block) : cache'[block].buf[u] = bytes[u]
  <2>1. \A u \in UnitsOf(block) : bytes[u] \in Values
    BY <1>1, <1>2
  <2>2. CacheOK' /\ DOMAIN cache' = KeptBlocks \cup {block}
    BY <1>0, <1>1, <2>1, WithIs
  <2>3. \A b \in KeptBlocks : b # block => cache'[b] = cache[b]
    BY <1>0, <1>1, <2>1, WithIs
  <2>4. cache'[block].dirty = FALSE
    BY DEF With
  <2>5. \A u \in UnitsOf(block) : cache'[block].buf[u] = bytes[u]
    BY DEF With
  <2> QED
    BY <2>2, <2>3, <2>4, <2>5
<1>4. SeesLastWritten'
  <2>1. ASSUME NEW u \in Units \ Excused' PROVE Contents'[u] = want[u]
    <3>1. Contents'[u] = IF BlockOf(u) \in DOMAIN cache' THEN cache'[BlockOf(u)].buf[u] ELSE dev'[u]
      BY DEF Contents, BlockOf
    <3>2. u \notin Excused /\ u \notin bypassed \cup gone
      BY <2>1 DEF Excused
    <3>3. Contents[u] = want[u] /\ u \in UnitsOf(BlockOf(u))
      BY <1>0, <3>2, BlockOfNat DEF SeesLastWritten
    <3>4. CASE BlockOf(u) = block
      <4>1. dev'[u] = Contents[u]
        BY <1>1, <3>2, <3>4
      <4> QED
        BY <1>3, <3>1, <3>3, <3>4, <4>1
    <3>5. CASE BlockOf(u) # block /\ BlockOf(u) \in KeptBlocks
      BY <1>1, <1>3, <3>1, <3>3, <3>5 DEF Contents
    <3>6. CASE BlockOf(u) # block /\ BlockOf(u) \notin KeptBlocks
      BY <1>1, <1>3, <3>1, <3>2, <3>3, <3>6
    <3> QED
      BY <3>4, <3>5, <3>6
  <2> QED
    BY <2>1 DEF SeesLastWritten
<1>5. CleanMatchesDevice'
  <2>1. ASSUME NEW b \in DOMAIN cache', ~cache'[b].dirty, NEW u \in UnitsOf(b), u \notin bypassed
        PROVE  cache'[b].buf[u] = dev'[u]
    <3>1. CASE b = block
      BY <1>3, <3>1
    <3>2. CASE b # block
      <4>1. b \in KeptBlocks /\ b \in DOMAIN cache /\ cache'[b] = cache[b]
        BY <1>1, <1>3, <3>2
      <4>2. cache[b].buf[u] = dev[u]
        BY <1>0, <2>1, <4>1 DEF CleanMatchesDevice, Dirty
      <4>3. dev'[u] = dev[u]
        BY <1>1, <2>1, <4>1
      <4> QED
        BY <4>1, <4>2, <4>3
    <3> QED
      BY <3>1, <3>2
  <2> QED
    BY <2>1 DEF CleanMatchesDevice, Dirty, UnitsOf
<1> QED
  BY <1>1, <1>3, <1>4, <1>5

LEMMA LossesCounted ==
    ASSUME Device, NEW gone, NEW n \in Nat, Count(One(gone # {}) + n)
    PROVE  faults' \in 0 .. MaxFaults
<1>1. One(gone # {}) + n \in Nat
  BY DEF One
<1> QED
  BY <1>1, OneMoreFault

(* A block that is cached is read                                          *)
LEMMA ReadHitInv == IndInv /\ ReadHit => IndInv'
<1> SUFFICES ASSUME IndInv, ReadHit PROVE IndInv'
  OBVIOUS
<1>0. bs \in BlockSizes /\ CacheOK /\ SeesLastWritten /\ OrderOK
  BY DEF IndInv, Device, Safe
<1>1. /\ job.op = "read" /\ job.block \in DOMAIN cache /\ job' = Rest(1)
      /\ order' = Touched(order, job.block)
      /\ Answered(job.block * bs, bs, cache[job.block].buf)
      /\ UNCHANGED <<open, bs, cache, dev, result, faults, want, told, lost, bypassed>>
  BY DEF ReadHit, history
<1>2. job.block \in Nat /\ job.count \in Nat \ {0} /\ result # "synced" /\ 1 \in 1 .. job.count
  BY <1>1, JobIs
<1>3. JobOK'
  BY <1>1, <1>2, RestInv
<1>4. OrderOK'
  BY <1>0, <1>1, ListsTouched DEF OrderOK
<1>5. Device' /\ CacheOK'
  BY <1>1 DEF IndInv, Device, CacheOK, Entry, UnitsOf
<1>6. SeesLastWritten' /\ CleanMatchesDevice'
  BY <1>1 DEF IndInv, Safe, SeesLastWritten, CleanMatchesDevice, Contents, BlockOf, Excused, Dirty, UnitsOf
<1>7. ReadsLastWritten'
  <2>1. UnitsOf(job.block) = job.block * bs .. job.block * bs + bs - 1
    BY <1>0, <1>2, BlockIsRow
  <2>2. UnitsOf(job.block) \subseteq Units
    BY <1>0, <1>1, CachedWithin
  <2>3. \A u \in UnitsOf(job.block) \ Excused : cache[job.block].buf[u] = want[u]
    BY <1>0, <1>1, <2>2, ContentsIs DEF SeesLastWritten
  <2>4. \A u \in (job.block * bs .. job.block * bs + bs - 1) \ Excused' : cache[job.block].buf[u] = want'[u]
    BY <1>1, <2>1, <2>3 DEF Excused
  <2> QED
    BY <1>1, <2>4, AnswerInv
<1> QED
  BY <1>1, <1>2, <1>3, <1>4, <1>5, <1>6, <1>7, NotSynced DEF IndInv, Safe

(* The last block of a request is read                                     *)
LEMMA ReadLastInv == IndInv /\ ReadLast => IndInv'
<1> SUFFICES ASSUME IndInv, ReadLast PROVE IndInv'
  OBVIOUS
<1>0. bs \in BlockSizes /\ CacheOK /\ SeesLastWritten /\ CleanMatchesDevice /\ Device
  BY DEF IndInv, Device, Safe
<1>1. /\ job.op = "read" /\ job.block \notin DOMAIN cache /\ job.count = 1 /\ job' = Idle
      /\ UNCHANGED <<open, bs, want, told, bypassed>>
  BY DEF ReadLast
<1>2. PICK gone \in Losses, short \in BOOLEAN :
         /\ WriteBack(gone) /\ lost' = lost \cup gone
         /\ Count(One(gone # {}) + One(short))
         /\ IF short
              THEN /\ cache' = [b \in KeptBlocks |-> cache[b]] /\ order' = OrderKept
                   /\ result' = "error" /\ NoAnswer
              ELSE /\ cache' = With(job.block, dev', FALSE)
                   /\ order' = Append(OrderKept, job.block)
                   /\ Answered(job.block * bs, bs, dev') /\ UNCHANGED result
  BY DEF ReadLast
<1>3. job.block \in Nat /\ result # "synced" /\ (job.block + 1) * bs <= NumUnits
  BY <1>1, JobIs
<1>4. /\ DOMAIN dev' = Units /\ \A u \in Units : dev'[u] \in Values
      /\ KeptBlocks \subseteq DOMAIN cache
      /\ \A b \in KeptBlocks : \A u \in UnitsOf(b) : dev'[u] = dev[u]
      /\ \A u \in Units : BlockOf(u) \notin DOMAIN cache => dev'[u] = dev[u]
      /\ \A u \in Units \ (bypassed \cup gone) : BlockOf(u) \notin KeptBlocks => dev'[u] = Contents[u]
  BY <1>2, EvictedIs
<1>5. faults' \in 0 .. MaxFaults
  <2>1. One(short) \in Nat
    BY DEF One
  <2> QED
    BY <1>0, <1>2, <2>1, LossesCounted
<1>6. Device' /\ result' # "synced" /\ JobOK'
  BY <1>0, <1>1, <1>2, <1>3, <1>4, <1>5 DEF Device, JobOK
<1>7. Lists(OrderKept, KeptBlocks) /\ Len(OrderKept) \in Nat /\ Len(OrderKept) < CacheSize
      /\ CacheSize \in Nat
  BY KeptLists, BlockCacheAssumption
<1>8. CASE short
  <2>1. /\ cache' = [b \in KeptBlocks |-> cache[b]] /\ order' = OrderKept /\ NoAnswer
    BY <1>2, <1>8
  <2>2. DOMAIN cache' = KeptBlocks /\ \A b \in KeptBlocks : cache'[b] = cache[b]
    BY <2>1
  <2>3. CacheOK' /\ OrderOK'
    BY <1>0, <1>1, <1>4, <1>7, <2>1, <2>2 DEF CacheOK, OrderOK, Entry, UnitsOf
  <2>4. SeesLastWritten'
    <3>1. ASSUME NEW u \in Units \ Excused' PROVE Contents'[u] = want'[u]
      <4>1. Contents'[u] = IF BlockOf(u) \in DOMAIN cache' THEN cache'[BlockOf(u)].buf[u] ELSE dev'[u]
        BY <1>1 DEF Contents, BlockOf
      <4>2. u \notin Excused /\ u \notin bypassed \cup gone
        BY <1>1, <1>2, <3>1 DEF Excused
      <4>3. Contents[u] = want[u]
        BY <1>0, <4>2 DEF SeesLastWritten
      <4>4. CASE BlockOf(u) \in KeptBlocks
        BY <1>1, <1>4, <2>2, <4>1, <4>3, <4>4 DEF Contents
      <4>5. CASE BlockOf(u) \notin KeptBlocks
        BY <1>1, <1>4, <2>2, <4>1, <4>2, <4>3, <4>5
      <4> QED
        BY <4>4, <4>5
    <3> QED
      BY <3>1 DEF SeesLastWritten
  <2>5. CleanMatchesDevice'
    <3>1. ASSUME NEW b \in KeptBlocks, ~cache[b].dirty, NEW u \in UnitsOf(b), u \notin bypassed
          PROVE  cache[b].buf[u] = dev'[u]
      BY <1>0, <1>4, <3>1 DEF CleanMatchesDevice, Dirty
    <3> QED
      BY <1>1, <2>2, <3>1 DEF CleanMatchesDevice, Dirty, UnitsOf
  <2> QED
    BY <1>6, <2>1, <2>3, <2>4, <2>5, NothingServed, NotSynced DEF IndInv, Safe
<1>9. CASE ~short
  <2>1. /\ cache' = With(job.block, dev', FALSE) /\ order' = Append(OrderKept, job.block)
        /\ Answered(job.block * bs, bs, dev')
    BY <1>2, <1>9
  <2>2. /\ CacheOK' /\ SeesLastWritten' /\ CleanMatchesDevice'
        /\ DOMAIN cache' = KeptBlocks \cup {job.block}
    BY <1>1, <1>2, <1>3, <2>1, ReadInIs
  <2>3. OrderOK'
    <3>1. job.block \notin KeptBlocks
      BY <1>1, <1>4
    <3>2. /\ Lists(Append(OrderKept, job.block), KeptBlocks \cup {job.block})
          /\ Len(Append(OrderKept, job.block)) = Len(OrderKept) + 1
      BY <1>3, <1>7, <3>1, ListsAppend
    <3>3. Len(OrderKept) + 1 <= CacheSize
      BY <1>7
    <3> QED
      BY <2>1, <2>2, <3>2, <3>3, OrderIs
  <2>4. ReadsLastWritten'
    <3>1. UnitsOf(job.block) = job.block * bs .. job.block * bs + bs - 1
      BY <1>0, <1>3, BlockIsRow
    <3>2. UnitsOf(job.block) \subseteq Units /\ \A u \in UnitsOf(job.block) : BlockOf(u) = job.block
      BY <1>0, <1>3, BlockWithin
    <3>3. \A u \in UnitsOf(job.block) \ Excused' : dev'[u] = Contents[u] /\ Contents[u] = want[u]
      BY <1>0, <1>1, <1>2, <1>4, <3>2 DEF SeesLastWritten, Excused
    <3>4. \A u \in (job.block * bs .. job.block * bs + bs - 1) \ Excused' : dev'[u] = want'[u]
      BY <1>1, <3>1, <3>3
    <3> QED
      BY <2>1, <3>4, AnswerInv
  <2> QED
    BY <1>6, <2>2, <2>3, <2>4, NotSynced DEF IndInv, Safe
<1> QED
  BY <1>8, <1>9

(* A unit within a run of blocks belongs to one of them.                   *)
LEMMA RunUnits ==
    ASSUME bs \in BlockSizes, NEW a \in Nat, NEW n \in Nat \ {0}, (a + n) * bs <= NumUnits,
           NEW u \in a * bs .. a * bs + n * bs - 1
    PROVE  u \in Units /\ BlockOf(u) \in a .. a + n - 1
<1>1. bs \in Nat \ {0} /\ NumUnits \in Nat /\ a * bs \in Nat /\ n * bs \in Nat
      /\ (a + n) * bs = a * bs + n * bs
  BY BlockSizePositive, BlockCacheAssumption
<1>2. u \in Nat /\ a * bs <= u /\ u < (a + n) * bs
  BY <1>1
<1>3. u \in Units
  BY <1>1, <1>2 DEF Units
<1> DEFINE b == u \div bs
<1>4. b \in Nat /\ b * bs <= u /\ u < (b + 1) * bs /\ b * bs \in Nat /\ (b + 1) * bs \in Nat
  BY <1>1, <1>2, DivBounds
<1> HIDE DEF b
<1>5. ASSUME b < a PROVE FALSE
  <2>1. (b + 1) * bs <= a * bs
    BY <1>1, <1>4, <1>5, TimesMonotone
  <2> QED
    BY <1>1, <1>2, <1>4, <2>1
<1>6. ASSUME a + n <= b PROVE FALSE
  <2>1. (a + n) * bs <= b * bs /\ (a + n) * bs \in Nat
    BY <1>1, <1>4, <1>6, TimesMonotone
  <2> QED
    BY <1>1, <1>2, <1>4, <2>1
<1>7. b \in a .. a + n - 1
  BY <1>4, <1>5, <1>6
<1> QED
  BY <1>3, <1>7 DEF BlockOf, b

(* The run of blocks that are read at once ends at the request's end or    *)
(* before the first cached block.                                          *)
LEMMA RunIs ==
    ASSUME IndInv, job.op = "read", job.block \notin DOMAIN cache
    PROVE  /\ RunLength \in 1 .. job.count
           /\ \A b \in job.block .. job.block + RunLength - 1 : b \notin DOMAIN cache
<1>1. job.block \in Nat /\ job.count \in Nat \ {0}
  BY JobIs
<1> DEFINE Ends(n) == n = job.count \/ job.block + n \in DOMAIN cache
           T == {n \in 1 .. job.count : Ends(n)}
<1>2. T \subseteq Nat /\ job.count \in T
  BY <1>1
<1>3. PICK m \in T : \A k \in T : m <= k
  BY <1>2, LeastNatural
<1>4. /\ m \in 1 .. job.count
      /\ m = job.count \/ job.block + m \in DOMAIN cache
      /\ \A i \in 1 .. m - 1 : job.block + i \notin DOMAIN cache
  <2>1. ASSUME NEW i \in 1 .. m - 1 PROVE job.block + i \notin DOMAIN cache
    <3>1. i \in 1 .. job.count /\ i < m
      BY <1>1, <1>2, <1>3
    <3>2. i \notin T
      BY <1>2, <1>3, <3>1
    <3> QED
      BY <3>1, <3>2
  <2> QED
    BY <1>3, <2>1
<1>5. /\ RunLength \in 1 .. job.count
      /\ \A i \in 1 .. RunLength - 1 : job.block + i \notin DOMAIN cache
  BY <1>4 DEF RunLength
<1>6. ASSUME NEW b \in job.block .. job.block + RunLength - 1 PROVE b \notin DOMAIN cache
  <2>1. CASE b = job.block
    BY <2>1
  <2>2. CASE b # job.block
    <3>1. b - job.block \in 1 .. RunLength - 1 /\ job.block + (b - job.block) = b
      BY <1>1, <1>5, <2>2
    <3> QED
      BY <1>5, <3>1
  <2> QED
    BY <2>1, <2>2
<1> QED
  BY <1>5, <1>6

(* Several blocks that are not cached are read at once                     *)
LEMMA ReadRunInv == IndInv /\ ReadRun => IndInv'
<1> SUFFICES ASSUME IndInv, ReadRun PROVE IndInv'
  OBVIOUS
<1> DEFINE n == RunLength
           hit == job.block + n
           last == job.block + n - 1
           youngest(seq) == IF hit \in {seq[k] : k \in DOMAIN seq} /\ n < job.count
                              THEN Touched(seq, hit) ELSE seq
<1>0. bs \in BlockSizes /\ CacheOK /\ SeesLastWritten /\ CleanMatchesDevice /\ Device /\ OrderOK
  BY DEF IndInv, Device, Safe
<1>1. /\ job.op = "read" /\ job.block \notin DOMAIN cache
      /\ UNCHANGED <<open, bs, want, told, bypassed>>
  BY DEF ReadRun
<1>2. \/ /\ \E gone \in Losses :
              WriteBack(gone) /\ lost' = lost \cup gone /\ Count(One(gone # {}))
         /\ Answered(job.block * bs, n * bs, dev)
         /\ cache' = With(last, dev, FALSE)
         /\ order' = Append(youngest(OrderKept), last)
         /\ job' = Rest(n)
         /\ UNCHANGED result
      \/ /\ Count(1)
         /\ order' = youngest(order)
         /\ result' = "error" /\ job' = Idle
         /\ NoAnswer /\ UNCHANGED <<cache, dev, lost>>
  BY DEF ReadRun
<1>3. n \in 1 .. job.count /\ \A b \in job.block .. job.block + n - 1 : b \notin DOMAIN cache
  BY <1>1, RunIs
<1> HIDE DEF n
<1>4. job.block \in Nat /\ job.count \in Nat \ {0} /\ result # "synced"
  BY <1>1, JobIs
<1>5. n \in Nat \ {0} /\ last \in Nat /\ (last + 1) * bs <= NumUnits /\ (job.block + n) * bs <= NumUnits
      /\ last \notin DOMAIN cache
  <2>1. last \in Nat /\ (last + 1) * bs <= NumUnits /\ (job.block + n) * bs <= NumUnits
    BY <1>1, <1>3, JobWithin
  <2>2. last \in job.block .. job.block + n - 1 /\ n \in Nat \ {0}
    BY <1>3, <1>4
  <2> QED
    BY <1>3, <2>1, <2>2
<1>6. ASSUME NEW seq, NEW S, Lists(seq, S)
      PROVE  Lists(youngest(seq), S) /\ Len(youngest(seq)) = Len(seq)
  <2>1. CASE hit \in {seq[k] : k \in DOMAIN seq} /\ n < job.count
    <3>1. hit \in S
      BY <1>6, <2>1 DEF Lists
    <3>2. Lists(Touched(seq, hit), S) /\ Len(Touched(seq, hit)) = Len(seq)
      BY <1>6, <3>1, ListsTouched
    <3> QED
      BY <2>1, <3>2
  <2>2. CASE ~(hit \in {seq[k] : k \in DOMAIN seq} /\ n < job.count)
    BY <1>6, <2>2
  <2> QED
    BY <2>1, <2>2
<1> HIDE DEF hit, last, youngest
<1>7. ASSUME Count(1), order' = youngest(order), result' = "error", job' = Idle,
             NoAnswer, UNCHANGED <<cache, dev, lost>>
      PROVE  IndInv'
  <2>1. OrderOK'
    BY <1>0, <1>6, <1>7 DEF OrderOK
  <2>2. faults' \in 0 .. MaxFaults
    BY <1>0, <1>7, OneMoreFault
  <2>3. Device' /\ CacheOK' /\ JobOK'
    BY <1>0, <1>1, <1>7, <2>2 DEF Device, CacheOK, Entry, UnitsOf, JobOK
  <2>4. SeesLastWritten' /\ CleanMatchesDevice'
    BY <1>0, <1>1, <1>7 DEF SeesLastWritten, CleanMatchesDevice, Contents, BlockOf, Excused, Dirty, UnitsOf
  <2> QED
    BY <1>7, <2>1, <2>3, <2>4, NothingServed, NotSynced DEF IndInv, Safe
<1>8. ASSUME NEW gone \in Losses, WriteBack(gone), lost' = lost \cup gone, Count(One(gone # {})),
             Answered(job.block * bs, n * bs, dev), cache' = With(last, dev, FALSE),
             order' = Append(youngest(OrderKept), last), job' = Rest(n), UNCHANGED result
      PROVE  IndInv'
  <2>1. JobOK'
    BY <1>1, <1>3, <1>8, RestInv
  <2>2. faults' \in 0 .. MaxFaults
    <3>1. One(gone # {}) \in Nat
      BY DEF One
    <3> QED
      BY <1>0, <1>8, <3>1, OneMoreFault
  <2>3. /\ KeptBlocks \subseteq DOMAIN cache
        /\ \A u \in Units : BlockOf(u) \notin DOMAIN cache => dev'[u] = dev[u]
    BY <1>8, EvictedIs
  <2>4. \A u \in UnitsOf(last) : dev[u] = dev'[u]
    BY <1>0, <1>5, <2>3, BlockWithin
  <2>5. /\ CacheOK' /\ SeesLastWritten' /\ CleanMatchesDevice'
        /\ DOMAIN dev' = Units /\ \A u \in Units : dev'[u] \in Values
        /\ DOMAIN cache' = KeptBlocks \cup {last}
    BY <1>1, <1>5, <1>8, <2>4, ReadInIs
  <2>6. Device'
    BY <1>0, <1>1, <1>8, <2>2, <2>5 DEF Device
  <2>7. OrderOK'
    <3>1. Lists(OrderKept, KeptBlocks) /\ Len(OrderKept) \in Nat /\ Len(OrderKept) < CacheSize
          /\ CacheSize \in Nat
      BY KeptLists, BlockCacheAssumption
    <3>2. Lists(youngest(OrderKept), KeptBlocks) /\ Len(youngest(OrderKept)) = Len(OrderKept)
      BY <1>6, <3>1
    <3>3. last \notin KeptBlocks
      BY <1>5, <2>3
    <3>4. /\ Lists(Append(youngest(OrderKept), last), KeptBlocks \cup {last})
          /\ Len(Append(youngest(OrderKept), last)) = Len(youngest(OrderKept)) + 1
      BY <1>5, <3>2, <3>3, ListsAppend
    <3>5. Len(OrderKept) + 1 <= CacheSize
      BY <3>1
    <3> QED
      BY <1>8, <2>5, <3>2, <3>4, <3>5, OrderIs
  <2>8. ReadsLastWritten'
    <3>1. ASSUME NEW u \in (job.block * bs .. job.block * bs + n * bs - 1) \ Excused'
          PROVE  dev[u] = want'[u]
      <4>1. u \in Units /\ BlockOf(u) \in job.block .. job.block + n - 1
        BY <1>0, <1>4, <1>5, RunUnits
      <4>2. BlockOf(u) \notin DOMAIN cache /\ u \notin Excused
        BY <1>1, <1>3, <1>8, <3>1, <4>1 DEF Excused
      <4> QED
        BY <1>0, <1>1, <4>1, <4>2, ContentsIs DEF SeesLastWritten
    <3> QED
      BY <1>8, <3>1, AnswerInv
  <2> QED
    BY <1>4, <1>8, <2>1, <2>5, <2>6, <2>7, <2>8, NotSynced DEF IndInv, Safe
<1> QED
  BY <1>2, <1>7, <1>8

(* A block is written into the cache                                       *)
LEMMA WriteBlockInv == IndInv /\ WriteBlock => IndInv'
<1> SUFFICES ASSUME IndInv, WriteBlock PROVE IndInv'
  OBVIOUS
<1> DEFINE block == job.block
           units == UnitsOf(block)
<1>0. bs \in BlockSizes /\ CacheOK /\ SeesLastWritten /\ CleanMatchesDevice /\ Device /\ OrderOK
  BY DEF IndInv, Device, Safe
<1>1. /\ job.op = "write" /\ Asked(units, job.bytes) /\ job' = Rest(1) /\ NoAnswer
      /\ told' = told \ units /\ bypassed' = bypassed \ units
      /\ UNCHANGED <<open, bs, result>>
  BY DEF WriteBlock
<1>2. block \in Nat /\ job.count \in Nat \ {0} /\ result # "synced" /\ job.bytes \in Payloads
      /\ 1 \in 1 .. job.count
  BY <1>1, JobIs
<1>3. (block + 1) * bs <= NumUnits
  BY <1>1, <1>2, JobWithin
<1>4. JobOK'
  BY <1>1, <1>2, RestInv
<1>5. units \subseteq Units /\ \A u \in units : BlockOf(u) = block
  BY <1>0, <1>2, <1>3, BlockWithin
<1>6. DOMAIN want' = Units /\ \A u \in Units : want'[u] = IF u \in units THEN job.bytes[u] ELSE want[u]
  BY <1>1 DEF Asked
<1>7. \A u \in units : job.bytes[u] \in Values
  BY <1>2, <1>5, PayloadValues
<1>8. \E gone :
        /\ lost' = (lost \cup gone) \ units /\ faults' \in 0 .. MaxFaults
        /\ DOMAIN dev' = Units /\ (\A u \in Units : dev'[u] \in Values)
        /\ CacheOK' /\ OrderOK' /\ block \in DOMAIN cache'
        /\ cache'[block].dirty = TRUE
        /\ (\A u \in units : cache'[block].buf[u] = job.bytes[u])
        /\ (\A b \in DOMAIN cache' : b # block => b \in DOMAIN cache /\ cache'[b] = cache[b])
        /\ (\A b \in DOMAIN cache' : b # block => \A u \in UnitsOf(b) : dev'[u] = dev[u])
        /\ (\A u \in Units \ (bypassed \cup gone) : BlockOf(u) \notin DOMAIN cache' => dev'[u] = Contents[u])
  <2>1. CASE block \in DOMAIN cache
    <3>1. /\ cache' = [cache EXCEPT ![block] = [buf |-> [u \in units |-> job.bytes[u]], dirty |-> TRUE]]
          /\ order' = Touched(order, block)
          /\ lost' = lost \ units /\ UNCHANGED <<dev, faults>>
      BY <2>1 DEF WriteBlock
    <3>2. /\ DOMAIN cache' = DOMAIN cache
          /\ \A b \in DOMAIN cache : b # block => cache'[b] = cache[b]
          /\ cache'[block] = [buf |-> [u \in units |-> job.bytes[u]], dirty |-> TRUE]
      BY <2>1, <3>1
    <3>3. cache'[block] \in Entry(block)
      BY <1>7, <3>2 DEF Entry
    <3>4. CacheOK'
      BY <1>0, <1>1, <3>2, <3>3 DEF CacheOK, Entry, UnitsOf
    <3>5. OrderOK'
      BY <1>0, <2>1, <3>1, <3>2, ListsTouched DEF OrderOK
    <3>6. \A u \in Units : BlockOf(u) \notin DOMAIN cache' => dev'[u] = Contents[u]
      BY <1>0, <3>1, <3>2, ContentsIs
    <3>7. lost' = (lost \cup {}) \ units /\ faults' \in 0 .. MaxFaults
          /\ DOMAIN dev' = Units /\ (\A u \in Units : dev'[u] \in Values)
      BY <1>0, <3>1 DEF Device
    <3>8. cache'[block].dirty = TRUE /\ \A u \in units : cache'[block].buf[u] = job.bytes[u]
      BY <3>2
    <3> HIDE DEF block, units
    <3> QED
      BY <2>1, <3>1, <3>2, <3>4, <3>5, <3>6, <3>7, <3>8
  <2>2. CASE block \notin DOMAIN cache
    <3>1. PICK gone \in Losses :
            WriteBack(gone) /\ Count(One(gone # {})) /\ lost' = (lost \cup gone) \ units
      BY <2>2 DEF WriteBlock
    <3>2. cache' = With(block, job.bytes, TRUE) /\ order' = Append(OrderKept, block)
      BY <2>2 DEF WriteBlock
    <3>3. /\ DOMAIN dev' = Units /\ \A u \in Units : dev'[u] \in Values
          /\ KeptBlocks \subseteq DOMAIN cache
          /\ \A b \in KeptBlocks : \A u \in UnitsOf(b) : dev'[u] = dev[u]
          /\ \A u \in Units \ (bypassed \cup gone) : BlockOf(u) \notin KeptBlocks => dev'[u] = Contents[u]
      BY <3>1, EvictedIs
    <3>4. One(gone # {}) \in Nat
      BY DEF One
    <3>5. faults' \in 0 .. MaxFaults
      BY <1>0, <3>1, <3>4, OneMoreFault
    <3>6. CacheOK' /\ DOMAIN cache' = KeptBlocks \cup {block}
          /\ \A b \in KeptBlocks : b # block => cache'[b] = cache[b]
      BY <1>0, <1>1, <1>2, <1>3, <1>7, <3>2, <3>3, WithIs
    <3>7. cache'[block].dirty = TRUE /\ \A u \in units : cache'[block].buf[u] = job.bytes[u]
      BY <3>2 DEF With
    <3>8. OrderOK'
      <4>1. Lists(OrderKept, KeptBlocks) /\ Len(OrderKept) \in Nat /\ Len(OrderKept) < CacheSize
            /\ CacheSize \in Nat
        BY KeptLists, BlockCacheAssumption
      <4>2. block \notin KeptBlocks
        BY <2>2, <3>3
      <4>3. /\ Lists(Append(OrderKept, block), KeptBlocks \cup {block})
            /\ Len(Append(OrderKept, block)) = Len(OrderKept) + 1
        BY <1>2, <4>1, <4>2, ListsAppend
      <4>4. Len(OrderKept) + 1 <= CacheSize
        BY <4>1
      <4> QED
        BY <3>2, <3>6, <4>3, <4>4, OrderIs
    <3> HIDE DEF block, units
    <3>9. \A b \in DOMAIN cache' : b # block => b \in KeptBlocks /\ b \in DOMAIN cache
      BY <3>3, <3>6
    <3>10. \A u \in Units : BlockOf(u) \notin DOMAIN cache' => BlockOf(u) \notin KeptBlocks
      BY <3>6
    <3>11. block \in DOMAIN cache'
      BY <3>6
    <3> QED
      BY <3>1, <3>3, <3>5, <3>6, <3>7, <3>8, <3>9, <3>10, <3>11
  <2> QED
    BY <2>1, <2>2
<1>9. PICK gone :
        /\ lost' = (lost \cup gone) \ units /\ faults' \in 0 .. MaxFaults
        /\ DOMAIN dev' = Units /\ (\A u \in Units : dev'[u] \in Values)
        /\ CacheOK' /\ OrderOK' /\ block \in DOMAIN cache'
        /\ cache'[block].dirty = TRUE
        /\ (\A u \in units : cache'[block].buf[u] = job.bytes[u])
        /\ (\A b \in DOMAIN cache' : b # block => b \in DOMAIN cache /\ cache'[b] = cache[b])
        /\ (\A b \in DOMAIN cache' : b # block => \A u \in UnitsOf(b) : dev'[u] = dev[u])
        /\ (\A u \in Units \ (bypassed \cup gone) : BlockOf(u) \notin DOMAIN cache' => dev'[u] = Contents[u])
  BY <1>8
<1>10. Device'
  BY <1>0, <1>1, <1>6, <1>9 DEF Device
<1>11. SeesLastWritten'
  <2>1. ASSUME NEW u \in Units \ Excused' PROVE Contents'[u] = want'[u]
    <3>1. Contents'[u] = IF BlockOf(u) \in DOMAIN cache' THEN cache'[BlockOf(u)].buf[u] ELSE dev'[u]
      BY <1>1 DEF Contents, BlockOf
    <3>2. CASE u \in units
      BY <1>5, <1>6, <1>9, <3>1, <3>2
    <3>3. CASE u \notin units
      <4>1. u \notin Excused /\ u \notin bypassed \cup gone
        BY <1>1, <1>9, <2>1, <3>3 DEF Excused
      <4>2. Contents[u] = want[u] /\ want'[u] = want[u]
        BY <1>0, <1>6, <3>3, <4>1 DEF SeesLastWritten
      <4>3. BlockOf(u) # block
        BY <1>0, <3>3, BlockOfNat
      <4>4. CASE BlockOf(u) \in DOMAIN cache'
        BY <1>9, <3>1, <4>2, <4>3, <4>4 DEF Contents
      <4>5. CASE BlockOf(u) \notin DOMAIN cache'
        BY <1>9, <3>1, <4>1, <4>2, <4>5
      <4> QED
        BY <4>4, <4>5
    <3> QED
      BY <3>2, <3>3
  <2> QED
    BY <2>1 DEF SeesLastWritten
<1>12. CleanMatchesDevice'
  <2>1. ASSUME NEW b \in DOMAIN cache', ~cache'[b].dirty, NEW u \in UnitsOf(b), u \notin bypassed'
        PROVE  cache'[b].buf[u] = dev'[u]
    <3>1. b # block
      BY <1>9, <2>1
    <3>2. b \in DOMAIN cache /\ cache'[b] = cache[b] /\ dev'[u] = dev[u]
      BY <1>9, <3>1
    <3>3. u \in Units /\ BlockOf(u) = b
      BY <1>0, <3>2, CachedWithin
    <3>4. u \notin bypassed
      BY <1>1, <1>5, <2>1, <3>1, <3>3
    <3>5. cache[b].buf[u] = dev[u]
      BY <1>0, <2>1, <3>2, <3>4 DEF CleanMatchesDevice, Dirty
    <3> QED
      BY <3>2, <3>5
  <2> QED
    BY <1>1, <2>1 DEF CleanMatchesDevice, Dirty, UnitsOf
<1> QED
  BY <1>1, <1>2, <1>4, <1>9, <1>10, <1>11, <1>12, NothingServed, NotSynced DEF IndInv, Safe

LEMMA StepInv == IndInv /\ [Next]_vars => IndInv'
<1> SUFFICES ASSUME IndInv, [Next]_vars PROVE IndInv'
  OBVIOUS
<1>1. CASE UNCHANGED vars
  <2>1. UNCHANGED <<open, bs, cache, order, dev, job, served, result, faults, want, told, lost, bypassed>>
    BY <1>1 DEF vars, history
  <2>2. Device' /\ CacheOK' /\ JobOK' /\ OrderOK'
    BY <2>1 DEF IndInv, Device, CacheOK, JobOK, OrderOK, Lists, Entry, UnitsOf
  <2>3. Safe'
    BY <2>1 DEF IndInv, Safe, SeesLastWritten, ReadsLastWritten, CleanMatchesDevice,
                FlushedReachesDevice, Contents, BlockOf, Excused, Dirty, UnitsOf
  <2> QED
    BY <2>2, <2>3 DEF IndInv
<1>2. CASE Next
  BY <1>2, RequestInv, ReadHitInv, ReadLastInv, ReadRunInv, WriteBlockInv, ReadDirectInv,
     WriteDirectInv, FlushFailsInv, WriteByteInv, FlushInv, SetBlkSizeInv, CloseInv DEF Next
<1> QED
  BY <1>1, <1>2

LEMMA Invariance == Spec => []IndInv
<1> QED
  BY InitInv, StepInv, PTL DEF Spec

(***************************************************************************)
(* The results.                                                            *)
(***************************************************************************)
LEMMA IndInvTyped == IndInv => TypeOK
<1> SUFFICES ASSUME IndInv PROVE TypeOK
  OBVIOUS
<1>1. /\ bs \in BlockSizes /\ open \in BOOLEAN /\ faults \in 0 .. MaxFaults /\ CacheOK
      /\ DOMAIN dev = Units /\ DOMAIN want = Units /\ result \in {"ok", "error", "synced"}
  BY DEF IndInv, Device
<1>2. DOMAIN cache \subseteq Blocks
  BY <1>1, CachedWithin
<1>3. \A b \in DOMAIN cache : DOMAIN cache[b].buf = UnitsOf(b) /\ cache[b].dirty \in BOOLEAN
  BY <1>1, CachedWithin
<1>4. /\ DOMAIN cache = {order[k] : k \in DOMAIN order}
      /\ Len(order) = Cardinality(DOMAIN cache) /\ Len(order) <= CacheSize
  <2>1. Lists(order, DOMAIN cache) /\ Len(order) <= CacheSize
    BY DEF IndInv, OrderOK
  <2> QED
    BY <2>1, ListsCount DEF Lists
<1>5. job = Idle \/ (job.count \in 1 .. WriteDirectSize /\ (job.block + job.count) * bs <= NumUnits)
  BY DEF IndInv, JobOK
<1> QED
  BY <1>1, <1>2, <1>3, <1>4, <1>5 DEF TypeOK

(* The entries of the cache always hold different whole blocks of the      *)
(* device, as many as they have places among the access times, and a       *)
(* request never runs past the end of the device.                          *)
THEOREM Typed == Spec => []TypeOK
<1> QED
  BY Invariance, IndInvTyped, PTL

(* Whatever unix_read_blk64 and unix_write_blk64 evict, however many       *)
(* flushes fail and however often the block size changes, the channel      *)
(* shows what was written last, but for reported errors, evictions that    *)
(* failed and byte writes past a cached copy.                              *)
THEOREM CacheShowsLastWritten == Spec => []SeesLastWritten
<1>1. IndInv => SeesLastWritten
  BY DEF IndInv, Safe
<1> QED
  BY <1>1, Invariance, PTL

(* Every round of unix_read_blk64, through the cache or past it, gives the *)
(* caller what was written last, with the same exceptions.                 *)
THEOREM ReadsReturnLastWritten == Spec => []ReadsLastWritten
<1>1. IndInv => ReadsLastWritten
  BY DEF IndInv, Safe
<1> QED
  BY <1>1, Invariance, PTL

(* reuse_cache may always drop an entry whose dirty flag is clear.         *)
THEOREM CleanEntriesMatch == Spec => []CleanMatchesDevice
<1>1. IndInv => CleanMatchesDevice
  BY DEF IndInv, Safe
<1> QED
  BY <1>1, Invariance, PTL

(* A successful unix_flush, unix_close or unix_set_blksize leaves what was *)
(* written last on the device, with the same exceptions.                   *)
THEOREM FlushReachesDevice == Spec => []FlushedReachesDevice
<1>1. IndInv => FlushedReachesDevice
  BY DEF IndInv, Safe
<1> QED
  BY <1>1, Invariance, PTL
=============================================================================
