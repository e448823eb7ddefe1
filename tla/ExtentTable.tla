---------------------------- MODULE ExtentTable -----------------------------
(***************************************************************************)
(* extent.c: the tables that tell resize2fs where a block or an inode has  *)
(* been moved.  Entries for neighbours are coalesced as they are added,    *)
(* the list is sorted when it is next searched, and the search guesses     *)
(* where to look by interpolation, in floating point: here it may look at  *)
(* any entry that is left.                                                 *)
(*                                                                         *)
(* The callers add every location once.  extent_cmp returns an int, so     *)
(* locations are taken to differ by less than 2^31.                        *)
(***************************************************************************)
EXTENDS Integers, Sequences, FiniteSets

CONSTANTS
    OldLocs, NewLocs,   \* locations that may be added; 0 is none
    MaxEntries          \* bound: locations that are added

ASSUME ExtentTableAssumption ==
    OldLocs \subseteq Nat \ {0} /\ NewLocs \subseteq Nat \ {0} /\ MaxEntries \in Nat

VARIABLES
    list,      \* extent->list, the first num entries
    sorted,    \* extent->sorted
    cursor,    \* extent->cursor
    find,      \* the search: what for, and what is left of the list
    answer,    \* what ext2fs_extent_translate returned
    moved      \* the locations as they were added: old |-> new

vars == <<list, sorted, cursor, find, answer, moved>>

NoSearch == [old_loc |-> 0, low |-> 1, high |-> 0]
NoAnswer == [old_loc |-> 0, new_loc |-> 0]

Init ==
    /\ list = << >> /\ sorted = TRUE /\ cursor = 0
    /\ find = NoSearch /\ answer = NoAnswer /\ moved = << >>

Ready == find = NoSearch

Last == list[Len(list)]

\* Faulty variant: only the old locations must be neighbours.
ExtendsOld(old, new) == list # << >> /\ Last.old_loc + Last.size = old

\* The new entry continues the last one.
Extends(old, new) ==
    list # << >> /\ Last.old_loc + Last.size = old /\ Last.new_loc + Last.size = new

\* Faulty variant: an entry before the last one is not noticed.
StillSortedAlways(old) == sorted

StillSorted(old) == sorted /\ (list = << >> \/ Last.old_loc + Last.size <= old)

\* ext2fs_add_extent_entry
Add ==
    /\ Ready /\ Cardinality(DOMAIN moved) < MaxEntries
    /\ \E old \in OldLocs \ DOMAIN moved, new \in NewLocs :
         /\ moved' = [l \in DOMAIN moved \cup {old} |-> IF l = old THEN new ELSE moved[l]]
         /\ \/ /\ Extends(old, new)
               /\ list' = [list EXCEPT ![Len(list)].size = @ + 1]
               /\ UNCHANGED sorted
            \/ /\ ~Extends(old, new)
               /\ list' = Append(list, [old_loc |-> old, new_loc |-> new, size |-> 1])
               /\ sorted' = StillSorted(old)
    /\ answer' = NoAnswer
    /\ UNCHANGED <<cursor, find>>

Entries(l) == {l[i] : i \in DOMAIN l}
InOrder(l) == \A i, j \in DOMAIN l : i < j => l[i].old_loc < l[j].old_loc

\* What qsort with extent_cmp may make of the list.
Sorted(l) == {s \in [DOMAIN l -> Entries(l)] : InOrder(s) /\ Entries(s) = Entries(l)}

\* Faulty variant: the search starts past the last entry.
TranslatePastEnd ==
    /\ Ready
    /\ \E old \in OldLocs : find' = [old_loc |-> old, low |-> 1, high |-> Len(list) + 1]
    /\ list' \in IF sorted THEN {list} ELSE Sorted(list)
    /\ sorted' = TRUE /\ answer' = NoAnswer
    /\ UNCHANGED <<cursor, moved>>

\* ext2fs_extent_translate: the list is sorted if need be.
Translate ==
    /\ Ready
    /\ \E old \in OldLocs : find' = [old_loc |-> old, low |-> 1, high |-> Len(list)]
    /\ list' \in IF sorted THEN {list} ELSE Sorted(list)
    /\ sorted' = TRUE
    /\ answer' = NoAnswer
    /\ UNCHANGED <<cursor, moved>>

Holds(entry, old) == entry.old_loc <= old /\ old < entry.old_loc + entry.size

\* Faulty variant: the search goes on in the wrong half.
ProbeOtherHalf ==
    /\ find.old_loc # 0 /\ find.low <= find.high
    /\ \E mid \in find.low .. find.high :
         /\ ~Holds(list[mid], find.old_loc)
         /\ find' = IF find.old_loc < list[mid].old_loc
                      THEN [find EXCEPT !.low = mid + 1] ELSE [find EXCEPT !.high = mid - 1]
    /\ UNCHANGED <<list, sorted, cursor, answer, moved>>

\* Faulty variant: the range keeps the entry that was looked at.
ProbeAgain ==
    /\ find.old_loc # 0 /\ find.low <= find.high
    /\ \E mid \in find.low .. find.high :
         /\ ~Holds(list[mid], find.old_loc)
         /\ find' = IF find.old_loc < list[mid].old_loc
                      THEN [find EXCEPT !.high = mid] ELSE [find EXCEPT !.low = mid]
    /\ UNCHANGED <<list, sorted, cursor, answer, moved>>

\* Faulty variant: the offset within the entry is left out.
FoundAt(entry, old) == entry.new_loc

Found(entry, old) == entry.new_loc + (old - entry.old_loc)

\* One round of its loop, and the end of it.
Probe ==
    /\ find.old_loc # 0 /\ find.low <= find.high
    /\ \E mid \in find.low .. find.high :
         IF Holds(list[mid], find.old_loc)
           THEN /\ answer' = [old_loc |-> find.old_loc,
                              new_loc |-> Found(list[mid], find.old_loc)]
                /\ find' = NoSearch
           ELSE /\ find' = IF find.old_loc < list[mid].old_loc
                             THEN [find EXCEPT !.high = mid - 1]
                             ELSE [find EXCEPT !.low = mid + 1]
                /\ UNCHANGED answer
    /\ UNCHANGED <<list, sorted, cursor, moved>>

NotFound ==
    /\ find.old_loc # 0 /\ find.low > find.high
    /\ answer' = [old_loc |-> find.old_loc, new_loc |-> 0]
    /\ find' = NoSearch
    /\ UNCHANGED <<list, sorted, cursor, moved>>

\* ext2fs_iterate_extent, which starts over without an old_loc.
Iterate ==
    /\ Ready
    /\ \/ cursor < Len(list) /\ cursor' = cursor + 1
       \/ cursor' = 0
    /\ UNCHANGED <<list, sorted, find, answer, moved>>

Next == Add \/ Translate \/ Probe \/ NotFound \/ Iterate

Spec == Init /\ [][Next]_vars /\ WF_vars(Probe \/ NotFound)

(***************************************************************************)
(* Properties                                                              *)
(***************************************************************************)
Covers(entry) == entry.old_loc .. entry.old_loc + entry.size - 1

(* A search stays within the list, and only a sorted list is searched.     *)
TypeOK ==
    /\ \A i \in DOMAIN list : list[i].size \in Nat \ {0} /\ list[i].old_loc \in OldLocs
    /\ cursor \in 0 .. Len(list)
    /\ find = NoSearch \/ (find.low \in 1 .. Len(list) + 1 /\ find.high \in 0 .. Len(list))
    /\ find # NoSearch => sorted

(* The flag that saves the sorting tells the truth.                        *)
SortedIsSorted == sorted => InOrder(list)

(* However the additions were coalesced and sorted, the entries say        *)
(* exactly what was added, each location in one entry.                     *)
EntriesAreAdditions ==
    /\ DOMAIN moved = UNION {Covers(list[i]) : i \in DOMAIN list}
    /\ \A i \in DOMAIN list : \A old \in Covers(list[i]) :
         moved[old] = list[i].new_loc + (old - list[i].old_loc)
    /\ \A i, j \in DOMAIN list : i # j => Covers(list[i]) \cap Covers(list[j]) = {}

(* ext2fs_extent_translate returns what was added for a location, and 0    *)
(* for one that was never added, wherever the interpolation looks.         *)
AnswerIsRight ==
    answer.old_loc # 0 =>
      answer.new_loc = IF answer.old_loc \in DOMAIN moved THEN moved[answer.old_loc] ELSE 0

(* The search never leaves out the entry that holds the location.          *)
SearchKeepsTarget ==
    find.old_loc \in DOMAIN moved =>
      \E i \in find.low .. find.high : i \in DOMAIN list /\ Holds(list[i], find.old_loc)

(* A search ends: each round of the interpolation narrows the range.       *)
SearchEnds == find # NoSearch ~> find = NoSearch
=============================================================================
