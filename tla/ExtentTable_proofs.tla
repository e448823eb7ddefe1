-------------------------- MODULE ExtentTable_proofs -------------------------
(***************************************************************************)
(* Proofs about ExtentTable, for any locations and any number of them.     *)
(***************************************************************************)
EXTENDS ExtentTable, SequenceTheorems, TLAPS

Entry == [old_loc : OldLocs, new_loc : NewLocs, size : Nat \ {0}]

Tables ==
    /\ list \in Seq(Entry) /\ sorted \in BOOLEAN /\ cursor \in 0 .. Len(list)
    /\ DOMAIN moved \subseteq OldLocs

Searching ==
    find = NoSearch \/ (sorted /\ find \in [old_loc : OldLocs, low : 1 .. Len(list) + 1,
                                            high : 0 .. Len(list)])

IndInv ==
    /\ Tables /\ Searching
    /\ SortedIsSorted /\ EntriesAreAdditions /\ SearchKeepsTarget /\ AnswerIsRight

(* The parts of an entry, as numbers.                                      *)
LEMMA EntryNumbers ==
    ASSUME list \in Seq(Entry), NEW i \in DOMAIN list
    PROVE  /\ i \in 1 .. Len(list) /\ Len(list) \in Nat
           /\ list[i] \in Entry /\ list[i].old_loc \in OldLocs
           /\ list[i].old_loc \in Nat \ {0} /\ list[i].new_loc \in Nat \ {0}
           /\ list[i].size \in Nat \ {0}
<1>1. i \in 1 .. Len(list) /\ Len(list) \in Nat /\ list[i] \in Entry
  OBVIOUS
<1>2. list[i].old_loc \in OldLocs /\ list[i].new_loc \in NewLocs /\ list[i].size \in Nat \ {0}
  BY <1>1 DEF Entry
<1> QED
  BY <1>1, <1>2, ExtentTableAssumption

(* An entry holds the locations it covers.                                 *)
LEMMA HoldsCovers ==
    ASSUME NEW e, e.old_loc \in Nat, e.size \in Nat, NEW old \in Nat
    PROVE  Holds(e, old) <=> old \in Covers(e)
BY DEF Holds, Covers

(* What a longer extent covers.                                            *)
LEMMA LongerCovers ==
    ASSUME NEW a \in Nat, NEW s \in Nat
    PROVE  a .. a + (s + 1) - 1 = (a .. a + s - 1) \cup {a + s}
OBVIOUS

(* In a sorted table an entry ends before the next one begins, because no  *)
(* location is in two of them: this is what lets the search drop a half.   *)
LEMMA SortedApart ==
    ASSUME list \in Seq(Entry), InOrder(list), EntriesAreAdditions,
           NEW i \in DOMAIN list, NEW j \in DOMAIN list, i < j
    PROVE  list[i].old_loc + list[i].size <= list[j].old_loc
<1>1. /\ list[i].old_loc \in Nat /\ list[i].size \in Nat \ {0}
      /\ list[j].old_loc \in Nat /\ list[j].size \in Nat \ {0} /\ i # j
  BY EntryNumbers
<1>2. list[i].old_loc < list[j].old_loc
  BY DEF InOrder
<1>3. list[j].old_loc \in Covers(list[j])
  BY <1>1 DEF Covers
<1>4. list[j].old_loc \notin Covers(list[i])
  BY <1>1, <1>3 DEF EntriesAreAdditions
<1> QED
  BY <1>1, <1>2, <1>4 DEF Covers

LEMMA InitInv == Init => IndInv
<1> SUFFICES ASSUME Init PROVE IndInv
  OBVIOUS
<1>1. list = << >> /\ DOMAIN list = {} /\ Len(list) = 0 /\ list \in Seq(Entry)
  BY DEF Init
<1>2. DOMAIN moved = {}
  BY DEF Init
<1>3. Tables /\ Searching
  BY <1>1, <1>2 DEF Init, Tables, Searching
<1>4. SortedIsSorted /\ EntriesAreAdditions
  BY <1>1, <1>2 DEF SortedIsSorted, InOrder, EntriesAreAdditions
<1>5. SearchKeepsTarget /\ AnswerIsRight
  BY <1>2 DEF Init, SearchKeepsTarget, AnswerIsRight, NoAnswer
<1> QED
  BY <1>3, <1>4, <1>5 DEF IndInv

(* An entry that continues the last one is coalesced with it.              *)
LEMMA Coalesced ==
    ASSUME IndInv, NEW old \in OldLocs \ DOMAIN moved, NEW new \in NewLocs, Extends(old, new),
           moved' = [l \in DOMAIN moved \cup {old} |-> IF l = old THEN new ELSE moved[l]],
           list' = [list EXCEPT ![Len(list)].size = @ + 1], sorted' = sorted
    PROVE  /\ list' \in Seq(Entry) /\ Len(list') = Len(list) /\ DOMAIN moved' \subseteq OldLocs
           /\ SortedIsSorted' /\ EntriesAreAdditions'
<1> DEFINE n == Len(list)
           e == [list[n] EXCEPT !.size = @ + 1]
<1>1. list \in Seq(Entry) /\ list # << >> /\ n \in DOMAIN list /\ n \in Nat
  <2>1. list \in Seq(Entry) /\ list # << >>
    BY DEF IndInv, Tables, Extends
  <2> QED
    BY <2>1, EmptySeq
<1>2. /\ list[n] \in Entry /\ list[n].old_loc \in Nat \ {0} /\ list[n].new_loc \in Nat \ {0}
      /\ list[n].size \in Nat \ {0}
  BY <1>1, EntryNumbers
<1>3. old = list[n].old_loc + list[n].size /\ new = list[n].new_loc + list[n].size
  BY DEF Extends, Last
<1>4. /\ e \in Entry /\ e.old_loc = list[n].old_loc /\ e.new_loc = list[n].new_loc
      /\ e.size = list[n].size + 1
  BY <1>2 DEF Entry
<1>5. list' = [list EXCEPT ![n] = e]
  OBVIOUS
<1> HIDE DEF e
<1>6. /\ list' \in Seq(Entry) /\ Len(list') = n /\ DOMAIN list' = DOMAIN list
      /\ list'[n] = e /\ \A i \in DOMAIN list : i # n => list'[i] = list[i]
  BY <1>1, <1>4, <1>5, SMTT(30)
<1>7. Covers(list'[n]) = Covers(list[n]) \cup {old}
  BY <1>2, <1>3, <1>4, <1>6, LongerCovers, ZenonT(30) DEF Covers
<1>8. \A i \in DOMAIN list : i # n => Covers(list'[i]) = Covers(list[i])
  BY <1>6
<1>9. SortedIsSorted'
  <2>1. \A i \in DOMAIN list : list'[i].old_loc = list[i].old_loc
    BY <1>4, <1>6
  <2> QED
    BY <1>6, <2>1 DEF IndInv, SortedIsSorted, InOrder
<1>10. EntriesAreAdditions'
  <2>1. DOMAIN moved = UNION {Covers(list[i]) : i \in DOMAIN list}
    BY DEF IndInv, EntriesAreAdditions
  <2>2. DOMAIN moved' = UNION {Covers(list'[i]) : i \in DOMAIN list'}
    <3>1. DOMAIN moved' = DOMAIN moved \cup {old}
      OBVIOUS
    <3>2. \A l : (\E i \in DOMAIN list : l \in Covers(list'[i]))
                   <=> l = old \/ (\E i \in DOMAIN list : l \in Covers(list[i]))
      BY <1>1, <1>7, <1>8
    <3> QED
      BY <1>6, <2>1, <3>1, <3>2
  <2>3. ASSUME NEW i \in DOMAIN list, NEW l \in Covers(list'[i])
        PROVE  moved'[l] = list'[i].new_loc + (l - list'[i].old_loc)
    <3>1. CASE l = old
      <4>1. i = n
        BY <1>8, <2>1, <2>3, <3>1
      <4>2. moved'[l] = new
        BY <3>1
      <4>3. list'[i].new_loc = list[n].new_loc /\ list'[i].old_loc = list[n].old_loc
        BY <1>4, <1>6, <4>1
      <4>4. l - list[n].old_loc = list[n].size
        BY <1>2, <1>3, <3>1
      <4> QED
        BY <1>3, <4>2, <4>3, <4>4
    <3>2. CASE l # old
      <4>1. l \in Covers(list[i])
        BY <1>7, <1>8, <2>3, <3>2
      <4>2. moved'[l] = moved[l] /\ moved[l] = list[i].new_loc + (l - list[i].old_loc)
        BY <2>1, <3>2, <4>1 DEF IndInv, EntriesAreAdditions
      <4> QED
        BY <1>4, <1>6, <4>2
    <3> QED
      BY <3>1, <3>2
  <2>4. ASSUME NEW i \in DOMAIN list, NEW j \in DOMAIN list, i # j
        PROVE  Covers(list'[i]) \cap Covers(list'[j]) = {}
    <3>1. Covers(list[i]) \cap Covers(list[j]) = {}
      BY <2>4 DEF IndInv, EntriesAreAdditions
    <3>2. old \notin Covers(list[i]) /\ old \notin Covers(list[j])
      BY <2>1
    <3> QED
      BY <1>7, <1>8, <2>4, <3>1, <3>2
  <2> QED
    BY <1>6, <2>2, <2>3, <2>4 DEF EntriesAreAdditions
<1> QED
  BY <1>6, <1>9, <1>10 DEF IndInv, Tables

(* Any other entry is added at the end, and the flag tells whether the     *)
(* list is still in order.                                                 *)
LEMMA Appended ==
    ASSUME IndInv, NEW old \in OldLocs \ DOMAIN moved, NEW new \in NewLocs,
           moved' = [l \in DOMAIN moved \cup {old} |-> IF l = old THEN new ELSE moved[l]],
           list' = Append(list, [old_loc |-> old, new_loc |-> new, size |-> 1]),
           sorted' = StillSorted(old)
    PROVE  /\ list' \in Seq(Entry) /\ Len(list') = Len(list) + 1 /\ DOMAIN moved' \subseteq OldLocs
           /\ SortedIsSorted' /\ EntriesAreAdditions'
<1> DEFINE n == Len(list) + 1
           e == [old_loc |-> old, new_loc |-> new, size |-> 1]
<1>1. list \in Seq(Entry) /\ Len(list) \in Nat /\ DOMAIN list = 1 .. Len(list)
  BY DEF IndInv, Tables
<1>2. e \in Entry /\ e.old_loc = old /\ e.new_loc = new /\ e.size = 1
  BY DEF Entry
<1>3. old \in Nat \ {0} /\ new \in Nat \ {0}
  BY ExtentTableAssumption
<1>4. list' = Append(list, e)
  OBVIOUS
<1> HIDE DEF e
<1>5. /\ list' \in Seq(Entry) /\ Len(list') = n /\ DOMAIN list' = DOMAIN list \cup {n}
      /\ list'[n] = e /\ \A i \in DOMAIN list : list'[i] = list[i] /\ i # n /\ i < n
  BY <1>1, <1>2, <1>4, AppendProperties
<1> HIDE DEF n
<1>6. Covers(list'[n]) = {old}
  <2>1. old .. old + 1 - 1 = {old}
    BY <1>3
  <2> QED
    BY <1>2, <1>5, <2>1 DEF Covers
<1>7. \A i \in DOMAIN list : Covers(list'[i]) = Covers(list[i])
  BY <1>5
<1>8. SortedIsSorted'
  <2> SUFFICES ASSUME sorted', NEW i \in DOMAIN list', NEW j \in DOMAIN list', i < j
               PROVE  list'[i].old_loc < list'[j].old_loc
    BY DEF SortedIsSorted, InOrder
  <2>1. i \in DOMAIN list
    BY <1>1, <1>5 DEF n
  <2>2. InOrder(list) /\ (list = << >> \/ Last.old_loc + Last.size <= old)
    BY DEF IndInv, SortedIsSorted, StillSorted
  <2>3. CASE j \in DOMAIN list
    BY <1>5, <2>1, <2>2, <2>3 DEF InOrder
  <2>4. CASE j = n
    <3>1. Len(list) \in DOMAIN list /\ list # << >>
      BY <1>1, <2>1
    <3>2. Last.old_loc + Last.size <= old /\ Last.old_loc \in Nat /\ Last.size \in Nat \ {0}
      BY <1>1, <2>2, <3>1, EntryNumbers DEF Last
    <3>3. list[i].old_loc \in Nat /\ (i = Len(list) \/ list[i].old_loc < Last.old_loc)
      BY <1>1, <2>1, <2>2, <3>1, EntryNumbers DEF InOrder, Last
    <3>4. list[i].old_loc < old
      BY <1>3, <3>2, <3>3 DEF Last
    <3> QED
      BY <1>2, <1>5, <2>1, <2>4, <3>4
  <2> QED
    BY <1>5, <2>3, <2>4
<1>9. EntriesAreAdditions'
  <2>1. DOMAIN moved = UNION {Covers(list[i]) : i \in DOMAIN list}
    BY DEF IndInv, EntriesAreAdditions
  <2>2. DOMAIN moved' = UNION {Covers(list'[i]) : i \in DOMAIN list'}
    <3>1. DOMAIN moved' = DOMAIN moved \cup {old}
      OBVIOUS
    <3>2. \A l : (\E i \in DOMAIN list' : l \in Covers(list'[i]))
                   <=> l = old \/ (\E i \in DOMAIN list : l \in Covers(list[i]))
      BY <1>5, <1>6, <1>7
    <3>3. \A l : l \in DOMAIN moved <=> \E i \in DOMAIN list : l \in Covers(list[i])
      BY <2>1
    <3>4. \A l : l \in DOMAIN moved' <=> \E i \in DOMAIN list' : l \in Covers(list'[i])
      BY <3>1, <3>2, <3>3
    <3>5. \A l : l \in UNION {Covers(list'[i]) : i \in DOMAIN list'}
                   <=> \E i \in DOMAIN list' : l \in Covers(list'[i])
      OBVIOUS
    <3>6. \A l : l \in DOMAIN moved' <=> l \in UNION {Covers(list'[i]) : i \in DOMAIN list'}
      BY <3>4, <3>5
    <3> QED
      BY <3>6, SMTT(30)
  <2>3. ASSUME NEW i \in DOMAIN list', NEW l \in Covers(list'[i])
        PROVE  moved'[l] = list'[i].new_loc + (l - list'[i].old_loc)
    <3>1. CASE i = n
      <4>1. l = old /\ moved'[l] = new
        BY <1>6, <2>3, <3>1
      <4>2. list'[i].new_loc = new /\ list'[i].old_loc = old
        BY <1>2, <1>5, <3>1
      <4> QED
        BY <1>3, <4>1, <4>2
    <3>2. CASE i \in DOMAIN list
      <4>1. l \in Covers(list[i]) /\ l \in DOMAIN moved
        BY <1>7, <2>1, <2>3, <3>2
      <4>2. moved'[l] = moved[l] /\ moved[l] = list[i].new_loc + (l - list[i].old_loc)
        BY <3>2, <4>1 DEF IndInv, EntriesAreAdditions
      <4> QED
        BY <1>5, <3>2, <4>2
    <3> QED
      BY <1>5, <3>1, <3>2
  <2>4. ASSUME NEW i \in DOMAIN list', NEW j \in DOMAIN list', i # j
        PROVE  Covers(list'[i]) \cap Covers(list'[j]) = {}
    <3>1. \A k \in DOMAIN list : old \notin Covers(list[k])
      BY <2>1
    <3>2. i \in DOMAIN list /\ j \in DOMAIN list => Covers(list[i]) \cap Covers(list[j]) = {}
      BY <2>4 DEF IndInv, EntriesAreAdditions
    <3> QED
      BY <1>5, <1>6, <1>7, <2>4, <3>1, <3>2
  <2> QED
    BY <2>2, <2>3, <2>4 DEF EntriesAreAdditions
<1> QED
  BY <1>5, <1>9, <1>8 DEF IndInv, Tables, n

(* Sorting only moves the entries.                                         *)
LEMMA SortedKeeps ==
    ASSUME IndInv, list' \in Sorted(list), UNCHANGED moved
    PROVE  /\ list' \in Seq(Entry) /\ Len(list') = Len(list) /\ InOrder(list')
           /\ EntriesAreAdditions'
<1>1. list \in Seq(Entry) /\ Len(list) \in Nat /\ DOMAIN list = 1 .. Len(list)
  BY DEF IndInv, Tables
<1>2. /\ list' \in [DOMAIN list -> Entries(list)]
      /\ InOrder(list') /\ Entries(list') = Entries(list)
  BY DEF Sorted
<1>3. list' \in [1 .. Len(list) -> Entry]
  BY <1>1, <1>2 DEF Entries
<1>4. list' \in Seq(Entry) /\ Len(list') = Len(list) /\ DOMAIN list' = DOMAIN list
  BY <1>1, <1>3
<1>5. /\ \A i \in DOMAIN list' : \E k \in DOMAIN list : list'[i] = list[k]
      /\ \A k \in DOMAIN list : \E i \in DOMAIN list' : list'[i] = list[k]
  BY <1>2 DEF Entries
<1>6. EntriesAreAdditions'
  <2>1. DOMAIN moved' = UNION {Covers(list'[i]) : i \in DOMAIN list'}
    <3>1. DOMAIN moved = UNION {Covers(list[i]) : i \in DOMAIN list}
      BY DEF IndInv, EntriesAreAdditions
    <3>2. \A l : (\E i \in DOMAIN list' : l \in Covers(list'[i]))
                   <=> (\E i \in DOMAIN list : l \in Covers(list[i]))
      BY <1>5
    <3> QED
      BY <3>1, <3>2
  <2>2. ASSUME NEW i \in DOMAIN list', NEW l \in Covers(list'[i])
        PROVE  moved'[l] = list'[i].new_loc + (l - list'[i].old_loc)
    <3>1. PICK k \in DOMAIN list : list'[i] = list[k]
      BY <1>5
    <3> QED
      BY <2>2, <3>1 DEF IndInv, EntriesAreAdditions
  <2>3. ASSUME NEW i \in DOMAIN list', NEW j \in DOMAIN list', i # j
        PROVE  Covers(list'[i]) \cap Covers(list'[j]) = {}
    <3>1. PICK k \in DOMAIN list, m \in DOMAIN list : list'[i] = list[k] /\ list'[j] = list[m]
      BY <1>5
    <3>2. list'[i].old_loc # list'[j].old_loc
      <4>1. i < j \/ j < i
        BY <1>1, <1>4, <2>3
      <4>2. list'[i].old_loc < list'[j].old_loc \/ list'[j].old_loc < list'[i].old_loc
        BY <1>2, <4>1 DEF InOrder
      <4>3. list'[i].old_loc \in Nat /\ list'[j].old_loc \in Nat
        BY <1>1, <3>1, EntryNumbers
      <4> QED
        BY <4>2, <4>3
    <3>3. k # m
      BY <3>1, <3>2
    <3> QED
      BY <3>1, <3>3 DEF IndInv, EntriesAreAdditions
  <2> QED
    BY <2>1, <2>2, <2>3 DEF EntriesAreAdditions
<1> QED
  BY <1>2, <1>4, <1>6

LEMMA AddInv == IndInv /\ Add => IndInv'
<1> SUFFICES ASSUME IndInv, Add PROVE IndInv'
  OBVIOUS
<1>1. PICK old \in OldLocs \ DOMAIN moved, new \in NewLocs :
        /\ moved' = [l \in DOMAIN moved \cup {old} |-> IF l = old THEN new ELSE moved[l]]
        /\ \/ /\ Extends(old, new)
              /\ list' = [list EXCEPT ![Len(list)].size = @ + 1]
              /\ UNCHANGED sorted
           \/ /\ ~Extends(old, new)
              /\ list' = Append(list, [old_loc |-> old, new_loc |-> new, size |-> 1])
              /\ sorted' = StillSorted(old)
  BY DEF Add
<1>2. /\ list' \in Seq(Entry) /\ Len(list') \in {Len(list), Len(list) + 1}
      /\ DOMAIN moved' \subseteq OldLocs /\ SortedIsSorted' /\ EntriesAreAdditions'
  <2>1. CASE /\ Extends(old, new)
             /\ list' = [list EXCEPT ![Len(list)].size = @ + 1]
             /\ UNCHANGED sorted
    BY <1>1, <2>1, Coalesced
  <2>2. CASE /\ list' = Append(list, [old_loc |-> old, new_loc |-> new, size |-> 1])
             /\ sorted' = StillSorted(old)
    BY <1>1, <2>2, Appended
  <2> QED
    BY <1>1, <2>1, <2>2
<1>3. find = NoSearch /\ find' = NoSearch /\ answer' = NoAnswer /\ cursor' = cursor
  BY DEF Add, Ready
<1>4. sorted' \in BOOLEAN
  BY <1>1 DEF IndInv, Tables, StillSorted
<1>5. cursor' \in 0 .. Len(list')
  BY <1>2, <1>3 DEF IndInv, Tables
<1>6. SearchKeepsTarget'
  <2>1. find'.old_loc = 0
    BY <1>3 DEF NoSearch
  <2> QED
    BY <1>2, <2>1, ExtentTableAssumption DEF SearchKeepsTarget
<1>7. AnswerIsRight'
  BY <1>3 DEF AnswerIsRight, NoAnswer
<1> QED
  BY <1>2, <1>3, <1>4, <1>5, <1>6, <1>7 DEF IndInv, Tables, Searching

(* A search starts with the whole list, in order.                          *)
LEMMA TranslateInv == IndInv /\ Translate => IndInv'
<1> SUFFICES ASSUME IndInv, Translate PROVE IndInv'
  OBVIOUS
<1>1. /\ list' \in (IF sorted THEN {list} ELSE Sorted(list))
      /\ sorted' = TRUE /\ answer' = NoAnswer /\ UNCHANGED <<cursor, moved>>
  BY DEF Translate
<1>2. PICK old \in OldLocs : find' = [old_loc |-> old, low |-> 1, high |-> Len(list)]
  BY DEF Translate
<1>3. list \in Seq(Entry) /\ Len(list) \in Nat
  BY DEF IndInv, Tables
<1>4. list' \in Seq(Entry) /\ Len(list') = Len(list) /\ InOrder(list') /\ EntriesAreAdditions'
  <2>1. CASE sorted
    BY <1>1, <2>1 DEF IndInv, Tables, SortedIsSorted, EntriesAreAdditions
  <2>2. CASE ~sorted
    BY <1>1, <2>2, SortedKeeps
  <2> QED
    BY <2>1, <2>2
<1>5. Searching'
  <2>1. 1 \in 1 .. Len(list') + 1 /\ Len(list) \in 0 .. Len(list')
    BY <1>3, <1>4
  <2> QED
    BY <1>1, <1>2, <2>1 DEF Searching
<1>6. SearchKeepsTarget'
  <2> SUFFICES ASSUME find'.old_loc \in DOMAIN moved'
               PROVE  \E i \in find'.low .. find'.high : i \in DOMAIN list' /\ Holds(list'[i], find'.old_loc)
    BY DEF SearchKeepsTarget
  <2>1. find'.old_loc = old /\ find'.low = 1 /\ find'.high = Len(list') /\ old \in Nat
    BY <1>2, <1>4, ExtentTableAssumption
  <2>2. PICK i \in DOMAIN list' : old \in Covers(list'[i])
    BY <1>4, <2>1 DEF EntriesAreAdditions
  <2>3. list'[i].old_loc \in Nat /\ list'[i].size \in Nat /\ i \in 1 .. Len(list')
    <3>1. list'[i] \in Entry /\ i \in 1 .. Len(list')
      BY <1>4
    <3> QED
      BY <3>1, ExtentTableAssumption DEF Entry
  <2>4. Holds(list'[i], old)
    BY <2>1, <2>2, <2>3, HoldsCovers
  <2> QED
    BY <2>1, <2>3, <2>4
<1>7. AnswerIsRight'
  BY <1>1 DEF AnswerIsRight, NoAnswer
<1> QED
  BY <1>1, <1>4, <1>5, <1>6, <1>7 DEF IndInv, Tables, SortedIsSorted

(* A round finds the entry, or drops a part of the list that does not hold *)
(* the location, wherever it looks.                                        *)
LEMMA ProbeInv == IndInv /\ Probe => IndInv'
<1> SUFFICES ASSUME IndInv, Probe PROVE IndInv'
  OBVIOUS
<1>1. UNCHANGED <<list, sorted, cursor, moved>> /\ find.old_loc # 0 /\ find.low <= find.high
  BY DEF Probe
<1>2. /\ sorted /\ find \in [old_loc : OldLocs, low : 1 .. Len(list) + 1, high : 0 .. Len(list)]
  BY <1>1 DEF IndInv, Searching, NoSearch
<1>3. /\ find.old_loc \in OldLocs /\ find.old_loc \in Nat \ {0}
      /\ find.low \in 1 .. Len(list) + 1 /\ find.high \in 0 .. Len(list)
  BY <1>2, ExtentTableAssumption
<1>4. /\ list \in Seq(Entry) /\ Len(list) \in Nat /\ DOMAIN list = 1 .. Len(list)
      /\ InOrder(list) /\ EntriesAreAdditions
  BY <1>2 DEF IndInv, Tables, SortedIsSorted
<1>5. PICK mid \in find.low .. find.high :
        IF Holds(list[mid], find.old_loc)
          THEN /\ answer' = [old_loc |-> find.old_loc,
                             new_loc |-> Found(list[mid], find.old_loc)]
               /\ find' = NoSearch
          ELSE /\ find' = IF find.old_loc < list[mid].old_loc
                            THEN [find EXCEPT !.high = mid - 1]
                            ELSE [find EXCEPT !.low = mid + 1]
               /\ UNCHANGED answer
  BY DEF Probe
<1>6. mid \in DOMAIN list /\ mid \in 1 .. Len(list)
  BY <1>3, <1>4
<1>7. /\ list[mid].old_loc \in Nat \ {0} /\ list[mid].size \in Nat \ {0}
      /\ list[mid].new_loc \in Nat \ {0}
  BY <1>4, <1>6, EntryNumbers
<1>8. Tables' /\ SortedIsSorted' /\ EntriesAreAdditions'
  BY <1>1 DEF IndInv, Tables, SortedIsSorted, InOrder, EntriesAreAdditions
<1>9. CASE Holds(list[mid], find.old_loc)
  <2>1. find.old_loc \in Covers(list[mid])
    BY <1>3, <1>7, <1>9, HoldsCovers
  <2>2. find.old_loc \in DOMAIN moved
        /\ moved[find.old_loc] = list[mid].new_loc + (find.old_loc - list[mid].old_loc)
    BY <1>4, <1>6, <2>1 DEF EntriesAreAdditions
  <2>3. AnswerIsRight'
    BY <1>1, <1>5, <1>9, <2>2 DEF AnswerIsRight, Found
  <2>4. SearchKeepsTarget'
    <3>1. find'.old_loc = 0 /\ 0 \notin DOMAIN moved'
      BY <1>5, <1>9, <1>8, ExtentTableAssumption DEF NoSearch, Tables
    <3> QED
      BY <3>1 DEF SearchKeepsTarget
  <2> QED
    BY <1>5, <1>8, <1>9, <2>3, <2>4 DEF IndInv, Searching
<1>10. CASE ~Holds(list[mid], find.old_loc)
  <2>1. AnswerIsRight'
    BY <1>1, <1>5, <1>10 DEF IndInv, AnswerIsRight
  <2>2. /\ find'.old_loc = find.old_loc
        /\ \/ /\ find.old_loc < list[mid].old_loc
              /\ find'.low = find.low /\ find'.high = mid - 1
           \/ /\ list[mid].old_loc + list[mid].size <= find.old_loc
              /\ find'.low = mid + 1 /\ find'.high = find.high
    BY <1>2, <1>3, <1>5, <1>7, <1>10, SMTT(30) DEF Holds
  <2>3. find' \in [old_loc : OldLocs, low : 1 .. Len(list) + 1, high : 0 .. Len(list)]
    <3>1. mid - 1 \in 0 .. Len(list) /\ mid + 1 \in 1 .. Len(list) + 1
      BY <1>4, <1>6
    <3> QED
      BY <1>2, <1>5, <1>10, <3>1
  <2>4. SearchKeepsTarget'
    <3> SUFFICES ASSUME find'.old_loc \in DOMAIN moved'
                 PROVE  \E i \in find'.low .. find'.high :
                          i \in DOMAIN list' /\ Holds(list'[i], find'.old_loc)
      BY DEF SearchKeepsTarget
    <3>1. PICK i \in find.low .. find.high : i \in DOMAIN list /\ Holds(list[i], find.old_loc)
      BY <1>1, <2>2 DEF IndInv, SearchKeepsTarget
    <3>2. i \in 1 .. Len(list) /\ list[i].old_loc \in Nat /\ list[i].size \in Nat \ {0}
      BY <1>4, <3>1, EntryNumbers
    <3>3. list[i].old_loc <= find.old_loc /\ find.old_loc < list[i].old_loc + list[i].size
      BY <3>1 DEF Holds
    <3>4. i # mid
      BY <1>10, <3>1
    <3>5. mid < i => list[mid].old_loc + list[mid].size <= list[i].old_loc
      BY <1>4, <1>6, <3>1, SortedApart
    <3>6. i < mid => list[i].old_loc + list[i].size <= list[mid].old_loc
      BY <1>4, <1>6, <3>1, SortedApart
    <3>7. i \in find'.low .. find'.high
      <4>1. i \in Nat /\ mid \in Nat /\ find.low \in Nat /\ find.high \in Nat
            /\ find.low <= i /\ i <= find.high
        BY <1>3, <1>6, <3>1, <3>2
      <4>2. CASE find.old_loc < list[mid].old_loc /\ find'.low = find.low /\ find'.high = mid - 1
        <5>1. ~(mid < i)
          BY <1>3, <1>7, <3>2, <3>3, <3>5, <4>2, SMTT(30)
        <5> QED
          BY <3>4, <4>1, <4>2, <5>1
      <4>3. CASE /\ list[mid].old_loc + list[mid].size <= find.old_loc
                 /\ find'.low = mid + 1 /\ find'.high = find.high
        <5>1. ~(list[i].old_loc + list[i].size <= list[mid].old_loc)
          <6>1. \A a, b, c, d, f \in Nat : f < a + b /\ c + d <= f => ~(a + b <= c)
            OBVIOUS
          <6>2. find.old_loc < list[i].old_loc + list[i].size
                /\ list[mid].old_loc + list[mid].size <= find.old_loc
            BY <3>3, <4>3
          <6> QED
            BY <1>3, <1>7, <3>2, <6>1, <6>2
        <5>2. ~(i < mid)
          BY <3>6, <5>1
        <5> QED
          BY <3>4, <4>1, <4>3, <5>2
      <4> QED
        BY <2>2, <4>2, <4>3
    <3> QED
      BY <1>1, <2>2, <3>1, <3>7
  <2> QED
    BY <1>1, <1>2, <1>8, <2>1, <2>3, <2>4 DEF IndInv, Searching
<1> QED
  BY <1>9, <1>10

(* An empty range means that the location was never added.                 *)
LEMMA NotFoundInv == IndInv /\ NotFound => IndInv'
<1> SUFFICES ASSUME IndInv, NotFound PROVE IndInv'
  OBVIOUS
<1>1. /\ UNCHANGED <<list, sorted, cursor, moved>> /\ find.old_loc # 0 /\ find.low > find.high
      /\ find' = NoSearch /\ answer' = [old_loc |-> find.old_loc, new_loc |-> 0]
  BY DEF NotFound
<1>2. find.low \in Nat /\ find.high \in Nat
  BY <1>1 DEF IndInv, Searching, Tables, NoSearch
<1>3. find.old_loc \notin DOMAIN moved
  BY <1>1, <1>2 DEF IndInv, SearchKeepsTarget
<1>4. Tables' /\ SortedIsSorted' /\ EntriesAreAdditions'
  BY <1>1 DEF IndInv, Tables, SortedIsSorted, InOrder, EntriesAreAdditions
<1>5. AnswerIsRight'
  BY <1>1, <1>3 DEF AnswerIsRight
<1>6. SearchKeepsTarget'
  <2>1. find'.old_loc = 0 /\ 0 \notin DOMAIN moved'
    BY <1>1, <1>4, ExtentTableAssumption DEF NoSearch, Tables
  <2> QED
    BY <2>1 DEF SearchKeepsTarget
<1> QED
  BY <1>1, <1>4, <1>5, <1>6 DEF IndInv, Searching

LEMMA StepInv == IndInv /\ [Next]_vars => IndInv'
<1> SUFFICES ASSUME IndInv, [Next]_vars PROVE IndInv'
  OBVIOUS
<1>1. CASE Add
  BY <1>1, AddInv
<1>2. CASE Translate
  BY <1>2, TranslateInv
<1>3. CASE Probe
  BY <1>3, ProbeInv
<1>4. CASE NotFound
  BY <1>4, NotFoundInv
<1>5. CASE Iterate
  <2>1. UNCHANGED <<list, sorted, find, answer, moved>>
        /\ ((cursor < Len(list) /\ cursor' = cursor + 1) \/ cursor' = 0)
    BY <1>5 DEF Iterate
  <2>2. Len(list) \in Nat /\ cursor \in 0 .. Len(list)
    BY DEF IndInv, Tables
  <2>3. cursor' \in 0 .. Len(list)
    BY <2>1, <2>2
  <2> QED
    BY <2>1, <2>3 DEF IndInv, Tables, Searching, SortedIsSorted, InOrder, EntriesAreAdditions,
       SearchKeepsTarget, AnswerIsRight
<1>6. CASE UNCHANGED vars
  BY <1>6 DEF vars, IndInv, Tables, Searching, SortedIsSorted, InOrder, EntriesAreAdditions,
       SearchKeepsTarget, AnswerIsRight
<1> QED
  BY <1>1, <1>2, <1>3, <1>4, <1>5, <1>6 DEF Next

LEMMA Invariance == Spec => []IndInv
BY InitInv, StepInv, PTL DEF Spec

(* A search stays within the list and only a sorted list is searched.      *)
THEOREM Typed == Spec => []TypeOK
<1>1. ASSUME IndInv PROVE TypeOK
  <2>1. list \in Seq(Entry) /\ cursor \in 0 .. Len(list)
    BY <1>1 DEF IndInv, Tables
  <2>2. \A i \in DOMAIN list : list[i].size \in Nat \ {0} /\ list[i].old_loc \in OldLocs
    BY <2>1, EntryNumbers
  <2>3. find # NoSearch => sorted /\ find.low \in 1 .. Len(list) + 1 /\ find.high \in 0 .. Len(list)
    BY <1>1 DEF IndInv, Searching
  <2> QED
    BY <2>1, <2>2, <2>3 DEF TypeOK
<1> QED
  BY <1>1, Invariance, PTL

(* The flag that saves the sorting tells the truth.                        *)
THEOREM FlagIsTrue == Spec => []SortedIsSorted
<1>1. IndInv => SortedIsSorted
  BY DEF IndInv
<1> QED
  BY <1>1, Invariance, PTL

(* The entries say exactly what was added, each location in one entry.     *)
THEOREM TableIsMap == Spec => []EntriesAreAdditions
<1>1. IndInv => EntriesAreAdditions
  BY DEF IndInv
<1> QED
  BY <1>1, Invariance, PTL

(* The search never leaves out the entry that holds the location.          *)
THEOREM TargetKept == Spec => []SearchKeepsTarget
<1>1. IndInv => SearchKeepsTarget
  BY DEF IndInv
<1> QED
  BY <1>1, Invariance, PTL

(* ext2fs_extent_translate returns what was added, or 0.                   *)
THEOREM TranslationIsRight == Spec => []AnswerIsRight
<1>1. IndInv => AnswerIsRight
  BY DEF IndInv
<1> QED
  BY <1>1, Invariance, PTL
=============================================================================
