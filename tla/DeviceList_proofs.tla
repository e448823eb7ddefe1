-------------------------- MODULE DeviceList_proofs --------------------------
(***************************************************************************)
(* Proofs about DeviceList, for any devices, sizes of media and bounds.    *)
(***************************************************************************)
EXTENDS DeviceList, TLAPS

Record == [Hotplug : {"fixed", "removable", "null"}, VolumeSize : Sizes \cup {NoMedia}]
Item == [text : Sizes \cup {NoMedia}, Tag : Record]

(***************************************************************************)
(* The inductive invariant.  A posted list holds what the refresh thread   *)
(* found out, so the lists under way, the one being built and the devices  *)
(* still to be opened are part of it.                                      *)
(***************************************************************************)
Lists ==
    /\ media \in [Devices -> Sizes \cup {NoMedia, Gone}]
    /\ known \in DiskLists /\ lst \in DiskLists /\ queue \in Seq(DiskLists)
    /\ found \subseteq Devices

Places ==
    /\ window \in {"hung", "starting", "open", "closing", "closed"} /\ hide \in BOOLEAN
    /\ thread \in {"none", "query", "stuck", "wait", "stopped"}

Shown ==
    /\ items \in [Visible(known, hide) -> Item]
    /\ \A d \in DOMAIN items : items[d].Tag = known[d]

IndInv == Lists /\ Places /\ Shown

(* A disk list is a function from some of the devices to records.          *)
LEMMA DiskListIntro ==
    ASSUME NEW l, NEW D \in SUBSET Devices, l \in [D -> Record]
    PROVE  l \in DiskLists
BY DEF DiskLists, Record

LEMMA DiskListElim ==
    ASSUME NEW l \in DiskLists
    PROVE  /\ DOMAIN l \subseteq Devices
           /\ l \in [DOMAIN l -> Record]
BY DEF DiskLists, Record

(* The list that a round starts with.                                      *)
LEMMA EmptyList == << >> \in DiskLists
<1>1. << >> \in Seq(Record) /\ Len(<< >>) = 0
  OBVIOUS
<1>2. << >> \in [1 .. 0 -> Record] /\ 1 .. 0 = {}
  BY <1>1
<1>3. {} \in SUBSET Devices /\ << >> \in [{} -> Record]
  BY <1>2
<1> QED
  BY <1>3, DiskListIntro

(* A query of a plugged device yields a record (DiskRecord).               *)
LEMMA RecordsTyped ==
    ASSUME media \in [Devices -> Sizes \cup {NoMedia, Gone}], NEW d \in Plugged, NEW r \in Records(d)
    PROVE  r \in Record
<1>1. d \in Devices /\ media[d] \in Sizes \cup {NoMedia}
  BY DEF Plugged
<1>2. Kind[d] \in {"fixed", "removable"}
  BY <1>1, DeviceListAssumption
<1>3. PICK h \in {Kind[d]} \cup (IF d \in Flaky THEN {"null"} ELSE {}),
           v \in {media[d]} \cup (IF d \in Flaky THEN {NoMedia} ELSE {}) :
        r = [Hotplug |-> h, VolumeSize |-> v]
  BY DEF Records
<1> QED
  BY <1>1, <1>2, <1>3 DEF Record

(* What RefreshDeviceList builds shows the list it was given.              *)
LEMMA RefreshShows ==
    ASSUME NEW l \in DiskLists, NEW h
    PROVE  /\ RefreshDeviceList(l, h) \in [Visible(l, h) -> Item]
           /\ \A d \in Visible(l, h) : RefreshDeviceList(l, h)[d].Tag = l[d]
<1>1. \A d \in Visible(l, h) : l[d] \in Record
  BY DiskListElim DEF Visible
<1>2. \A d \in Visible(l, h) : CreateListViewItemForDisk(l[d]) \in Item
                                /\ CreateListViewItemForDisk(l[d]).Tag = l[d]
  BY <1>1 DEF CreateListViewItemForDisk, Item, Record
<1> QED
  BY <1>2 DEF RefreshDeviceList

(* What the merge of a new list leaves in the list view shows that list.   *)
LEMMA MergedShows ==
    ASSUME NEW l \in DiskLists, Shown
    PROVE  /\ Merged(l) \in [Visible(l, hide) -> Item]
           /\ \A d \in Visible(l, hide) : Merged(l)[d].Tag = l[d]
<1> DEFINE item(d) == IF d \in DOMAIN items THEN [items[d] EXCEPT !.Tag = l[d]]
                                            ELSE CreateListViewItemForDisk(l[d])
<1>1. ASSUME NEW d \in Visible(l, hide)
      PROVE  item(d) \in Item /\ item(d).Tag = l[d]
  <2>1. l[d] \in Record
    BY DiskListElim DEF Visible
  <2>2. CASE d \in DOMAIN items
    <3>1. items[d] \in Item
      BY <2>2 DEF Shown
    <3> QED
      BY <2>1, <2>2, <3>1 DEF Item
  <2>3. CASE d \notin DOMAIN items
    BY <2>1, <2>3 DEF CreateListViewItemForDisk, Item, Record
  <2> QED
    BY <2>2, <2>3
<1> QED
  BY <1>1 DEF Merged

LEMMA InitInv == Init => IndInv
<1> SUFFICES ASSUME Init PROVE IndInv
  OBVIOUS
<1>1. ASSUME known \in AllDisks PROVE known \in DiskLists
  <2>1. PICK D \in SUBSET Plugged :
          /\ known \in [D -> UNION {Records(d) : d \in Devices}]
          /\ \A d \in D : known[d] \in Records(d)
    BY <1>1 DEF AllDisks
  <2>2. media \in [Devices -> Sizes \cup {NoMedia, Gone}] /\ D \in SUBSET Devices
    BY <2>1 DEF Init, Plugged
  <2>3. \A d \in D : known[d] \in Record
    BY <2>1, <2>2, RecordsTyped
  <2>4. known \in [D -> Record]
    BY <2>1, <2>3
  <2> QED
    BY <2>2, <2>4, DiskListIntro
<1>2. known \in DiskLists /\ lst \in DiskLists
  BY <1>1, EmptyList DEF Init
<1>3. Lists /\ Places
  BY <1>2 DEF Init, Lists, Places, Plugged
<1>4. Shown
  <2>1. items = RefreshDeviceList(known, hide)
    BY DEF Init
  <2>2. /\ items \in [Visible(known, hide) -> Item]
        /\ \A d \in Visible(known, hide) : items[d].Tag = known[d]
    BY <1>2, <2>1, RefreshShows
  <2> QED
    BY <2>2 DEF Shown
<1> QED
  BY <1>3, <1>4 DEF IndInv

(* One step of the refresh thread, the window, the user or the hardware.   *)
LEMMA StepInv == IndInv /\ [Next]_vars => IndInv'
<1> SUFFICES ASSUME IndInv, [Next]_vars PROVE IndInv'
  OBVIOUS
<1> USE DEF IndInv, ui, refresh
<1>1. CASE Change
  BY <1>1 DEF Change, Lists, Places, Shown
<1>2. CASE QueryDisk
  <2>1. PICK d \in found :
          /\ found' = found \ {d}
          /\ \/ /\ d \in Plugged
                /\ \E r \in Records(d) :
                     lst' = [e \in DOMAIN lst \cup {d} |-> IF e = d THEN r ELSE lst[e]]
             \/ UNCHANGED lst
    BY <1>2 DEF QueryDisk
  <2>2. lst' \in DiskLists
    <3>1. CASE d \in Plugged /\ \E r \in Records(d) :
                 lst' = [e \in DOMAIN lst \cup {d} |-> IF e = d THEN r ELSE lst[e]]
      <4>1. PICK r \in Records(d) :
              lst' = [e \in DOMAIN lst \cup {d} |-> IF e = d THEN r ELSE lst[e]]
        BY <3>1
      <4>2. r \in Record
        BY <3>1, RecordsTyped DEF Lists
      <4>3. DOMAIN lst \subseteq Devices /\ lst \in [DOMAIN lst -> Record] /\ d \in Devices
        BY <2>1, DiskListElim DEF Lists
      <4>4. lst' \in [DOMAIN lst \cup {d} -> Record]
        BY <4>1, <4>2, <4>3
      <4> QED
        BY <4>3, <4>4, DiskListIntro
    <3> QED
      BY <2>1, <3>1 DEF Lists
  <2> QED
    BY <1>2, <2>1, <2>2 DEF QueryDisk, Lists, Places, Shown
<1>3. CASE EnumerationFails
  BY <1>3 DEF EnumerationFails, Lists, Places, Shown
<1>4. CASE Post
  BY <1>4 DEF Post, Lists, Places, Shown
<1>5. CASE Wait
  <2>1. << >> \in DiskLists
    BY EmptyList
  <2> QED
    BY <1>5, <2>1 DEF Wait, Lists, Places, Shown, Plugged
<1>6. CASE Show
  BY <1>6 DEF Show, Lists, Places, Shown
<1>7. CASE ProcessNewDiskList
  <2>1. Head(queue) \in DiskLists /\ Tail(queue) \in Seq(DiskLists)
    BY <1>7 DEF ProcessNewDiskList, Lists
  <2>2. Shown'
    BY <1>7, <2>1, MergedShows DEF ProcessNewDiskList, Shown
  <2> QED
    BY <1>7, <2>1, <2>2 DEF ProcessNewDiskList, Lists, Places
<1>8. CASE ToggleHide
  <2>1. Shown'
    BY <1>8, RefreshShows DEF ToggleHide, Lists, Shown
  <2> QED
    BY <1>8, <2>1 DEF ToggleHide, Lists, Places
<1>9. CASE OnClosed
  BY <1>9 DEF OnClosed, Lists, Places, Shown
<1>10. CASE Joined
  BY <1>10 DEF Joined, Lists, Places, Shown
<1>11. CASE Abort
  BY <1>11 DEF Abort, Lists, Places, Shown
<1>12. CASE UNCHANGED vars
  BY <1>12 DEF vars, Lists, Places, Shown
<1> QED
  BY <1>1, <1>2, <1>3, <1>4, <1>5, <1>6, <1>7, <1>8, <1>9, <1>10, <1>11, <1>12 DEF Next

LEMMA Invariance == Spec => []IndInv
BY InitInv, StepInv, PTL DEF Spec

(* Whatever the hardware does and however the two threads interleave, the  *)
(* lists that are built, posted and kept are lists of disks.               *)
THEOREM Typed == Spec => []TypeOK
<1>1. IndInv => TypeOK
  BY DEF IndInv, Lists, Places, TypeOK
<1> QED
  BY <1>1, Invariance, PTL

(* The list view shows the disks of the last list that are not to be       *)
(* hidden, each with the record of that list, after any sequence of merges *)
(* (ProcessNewDiskList) and rebuilds (RefreshDeviceList).                  *)
THEOREM ListViewIsKnownList == Spec => []ListShowsKnown
<1>1. IndInv => ListShowsKnown
  BY DEF IndInv, Shown, ListShowsKnown
<1> QED
  BY <1>1, Invariance, PTL
=============================================================================
