----------------------------- MODULE DeviceList -----------------------------
(***************************************************************************)
(* MainForm.cs, DeviceEnumerator.cs: the list of target devices.  A thread *)
(* asks Windows twice a second which disks there are, opens each of them   *)
(* for its attributes, and posts the result to the window, which merges it *)
(* into the list on the screen.  A device is the DeviceID that the lists   *)
(* are keyed by; its place in the list and its icon are left out.          *)
(***************************************************************************)
EXTENDS Integers, Sequences

CONSTANTS
    Devices,      \* DeviceIDs
    Sizes,        \* sizes of media
    Kind,         \* device |-> "fixed" or "removable" (MediaRemovable)
    Flaky,        \* devices that may fail to answer a query or to open
    EnumErrors,   \* whether SetupDiEnumDeviceInterfaces may fail for good
    MaxQueue,     \* bound: lists that are posted and not yet processed
    MaxChanges    \* bound: how often the hardware changes

Gone == -1        \* the device is not plugged in
NoMedia == 0      \* VolumeSize of a reader without a card

ASSUME DeviceListAssumption ==
    /\ Sizes \subseteq Nat \ {0} /\ Flaky \subseteq Devices /\ EnumErrors \in BOOLEAN
    /\ Kind \in [Devices -> {"fixed", "removable"}]
    /\ MaxQueue \in Nat \ {0} /\ MaxChanges \in Nat

VARIABLES
    media,      \* the hardware: what each device holds
    changes,    \* how often it has changed
    window,     \* "hung" or "starting" (MainForm), "open", "closing" (OnClosed) or "closed"
    hide,       \* chbHideDevices.Checked
    thread,     \* the refresh thread: "none", "query", "stuck", "wait" or "stopped"
    found,      \* devices enumerated and not yet opened
    lst,        \* the list it builds: device |-> record
    queue,      \* lists posted with BeginInvoke
    known,      \* _LastKnownFullDiskList
    items       \* lvDevices: device |-> [text, Tag]

ui == <<window, hide, known, items>>
refresh == <<thread, found, lst>>
vars == <<media, changes, ui, refresh, queue>>

Plugged == {d \in Devices : media[d] # Gone}

\* One DiskRecord: Hotplug is null, VolumeSize 0, when the query fails.
Records(d) ==
    {[Hotplug |-> h, VolumeSize |-> v] :
        h \in {Kind[d]} \cup (IF d \in Flaky THEN {"null"} ELSE {}),
        v \in {media[d]} \cup (IF d \in Flaky THEN {NoMedia} ELSE {})}

ShouldHideDiskItem(record, checked) ==
    checked /\ (record.Hotplug = "fixed" \/ record.VolumeSize = NoMedia)

Visible(list, checked) == {d \in DOMAIN list : ~ShouldHideDiskItem(list[d], checked)}

CreateListViewItemForDisk(record) == [text |-> record.VolumeSize, Tag |-> record]

RefreshDeviceList(list, checked) ==
    [d \in Visible(list, checked) |-> CreateListViewItemForDisk(list[d])]

\* The list QueryAllDisks returns if nothing changes meanwhile.
AllDisks ==
    UNION {{list \in [D -> UNION {Records(d) : d \in Devices}] : \A d \in D : list[d] \in Records(d)} :
             D \in {E \in SUBSET Plugged : Plugged \ E \subseteq Flaky}}

\* The constructor asks for the disks itself, and hangs in an enumeration
\* that fails for good: there is no window and no thread then.
Init ==
    /\ media \in [Devices -> Sizes \cup {NoMedia, Gone}] /\ changes = 0
    /\ hide = TRUE /\ lst = << >> /\ queue = << >>
    /\ \/ /\ window = "starting" /\ known \in AllDisks /\ thread = "query" /\ found = Plugged
       \/ EnumErrors /\ window = "hung" /\ known = << >> /\ thread = "none" /\ found = {}
    /\ items = RefreshDeviceList(known, hide)

\* A device is plugged in or out, a medium inserted or taken out.
Change ==
    /\ changes < MaxChanges /\ changes' = changes + 1
    /\ \E d \in Devices, m \in Sizes \cup {NoMedia, Gone} : media' = [media EXCEPT ![d] = m]
    /\ UNCHANGED <<ui, refresh, queue>>

(***************************************************************************)
(* The refresh thread                                                      *)
(***************************************************************************)
\* Faulty variant: a disk that cannot be opened gets a record all the same.
QueryDiskBlindly ==
    /\ thread = "query"
    /\ \E d \in found : \E r \in Records(d) :
         /\ found' = found \ {d}
         /\ lst' = [e \in DOMAIN lst \cup {d} |-> IF e = d THEN r ELSE lst[e]]
    /\ UNCHANGED <<media, changes, ui, thread, queue>>

\* A disk that cannot be opened, or not any more, is left out.
QueryDisk ==
    /\ thread = "query"
    /\ \E d \in found :
         /\ found' = found \ {d}
         /\ \/ /\ d \in Plugged
               /\ \E r \in Records(d) :
                    lst' = [e \in DOMAIN lst \cup {d} |-> IF e = d THEN r ELSE lst[e]]
            \/ d \notin Plugged \ Flaky /\ UNCHANGED lst
    /\ UNCHANGED <<media, changes, ui, thread, queue>>

\* An error other than 259 does not end the loop over the member index.
EnumerationFails ==
    /\ thread = "query" /\ EnumErrors
    /\ thread' = "stuck"
    /\ UNCHANGED <<media, changes, ui, found, lst, queue>>

\* BeginInvoke throws if there is no window; the exception is dropped.
Post ==
    /\ thread = "query" /\ found = {} /\ Len(queue) < MaxQueue
    /\ queue' = IF window = "open" THEN Append(queue, lst) ELSE queue
    /\ thread' = "wait"
    /\ UNCHANGED <<media, changes, ui, found, lst>>

\* _Shutdown.WaitOne(500)
Wait ==
    /\ thread = "wait"
    /\ IF window \in {"closing", "closed"}
         THEN thread' = "stopped" /\ UNCHANGED <<found, lst>>
         ELSE thread' = "query" /\ found' = Plugged /\ lst' = << >>
    /\ UNCHANGED <<media, changes, ui, queue>>

(***************************************************************************)
(* The window                                                              *)
(***************************************************************************)
Show ==
    /\ window = "starting" /\ window' = "open"
    /\ UNCHANGED <<media, changes, hide, known, items, refresh, queue>>

\* Faulty variant: an item stays although its device is to be hidden now.
MergedAll(list) ==
    [d \in Visible(list, hide) \cup (DOMAIN items \cap DOMAIN list) |->
        IF d \in DOMAIN items THEN [items[d] EXCEPT !.Tag = list[d]]
                              ELSE CreateListViewItemForDisk(list[d])]

\* An item that stays keeps its text and gets the new record.
Merged(list) ==
    [d \in Visible(list, hide) |->
        IF d \in DOMAIN items THEN [items[d] EXCEPT !.Tag = list[d]]
                              ELSE CreateListViewItemForDisk(list[d])]

\* Faulty variant: the list behind the check box is not renewed.
ProcessNewDiskListOnly ==
    /\ window = "open" /\ queue # << >>
    /\ items' = Merged(Head(queue))
    /\ queue' = Tail(queue)
    /\ UNCHANGED <<media, changes, window, hide, known, refresh>>

ProcessNewDiskList ==
    /\ window = "open" /\ queue # << >>
    /\ known' = Head(queue) /\ items' = Merged(Head(queue))
    /\ queue' = Tail(queue)
    /\ UNCHANGED <<media, changes, window, hide, refresh>>

ToggleHide ==
    /\ window = "open"
    /\ hide' = ~hide /\ items' = RefreshDeviceList(known, hide')
    /\ UNCHANGED <<media, changes, window, known, refresh, queue>>

OnClosed ==
    /\ window = "open" /\ window' = "closing"
    /\ UNCHANGED <<media, changes, hide, known, items, refresh, queue>>

Joined ==
    /\ window = "closing" /\ thread = "stopped" /\ window' = "closed"
    /\ UNCHANGED <<media, changes, hide, known, items, refresh, queue>>

\* Faulty variant: the thread is left alone after the 500 ms.
GaveUp ==
    /\ window = "closing" /\ thread # "stopped" /\ window' = "closed"
    /\ UNCHANGED <<media, changes, hide, known, items, refresh, queue>>

\* The thread did not end within 500 ms.
Abort ==
    /\ window = "closing" /\ thread # "stopped"
    /\ window' = "closed" /\ thread' = "stopped"
    /\ UNCHANGED <<media, changes, hide, known, items, found, lst, queue>>

Next ==
    \/ Change
    \/ QueryDisk \/ EnumerationFails \/ Post \/ Wait
    \/ Show \/ ProcessNewDiskList \/ ToggleHide \/ OnClosed \/ Joined \/ Abort

Spec == Init /\ [][Next]_vars

\* Both threads run; the user and the hardware need not do anything.
Fairness ==
    /\ WF_vars(QueryDisk) /\ WF_vars(Post) /\ WF_vars(Wait)
    /\ WF_vars(Show) /\ WF_vars(ProcessNewDiskList) /\ WF_vars(Joined \/ Abort)

FairSpec == Spec /\ Fairness

(***************************************************************************)
(* Properties                                                              *)
(***************************************************************************)
DiskLists == UNION {[D -> [Hotplug : {"fixed", "removable", "null"},
                           VolumeSize : Sizes \cup {NoMedia}]] : D \in SUBSET Devices}

TypeOK ==
    /\ media \in [Devices -> Sizes \cup {NoMedia, Gone}]
    /\ known \in DiskLists /\ lst \in DiskLists
    /\ \A k \in DOMAIN queue : queue[k] \in DiskLists
    /\ window \in {"hung", "starting", "open", "closing", "closed"} /\ hide \in BOOLEAN
    /\ thread \in {"none", "query", "stuck", "wait", "stopped"}

(* Whatever lists arrive and however the check box is used, the list view  *)
(* shows the disks of the last list that are not to be hidden, and each    *)
(* item leads to the record of that list (ProcessNewDiskList merges into   *)
(* the items, RefreshDeviceList builds them anew).                         *)
ListShowsKnown ==
    /\ DOMAIN items = Visible(known, hide)
    /\ \A d \in DOMAIN items : items[d].Tag = known[d]

(* Once the hardware stays as it is, the list comes to show the disks that *)
(* are there and not to be hidden, and their records are right: what was   *)
(* found before the last change, even in two lists that are posted and not *)
(* yet processed, gives way to a list that was made after it.  Left out    *)
(* are devices that do not answer, and an error of the enumeration that    *)
(* keeps the refresh thread, or the constructor, in its loop.              *)
Current ==
    /\ DOMAIN items \ Flaky =
          {d \in Plugged \ Flaky : hide => Kind[d] = "removable" /\ media[d] # NoMedia}
    /\ \A d \in DOMAIN items \ Flaky : items[d].Tag.VolumeSize = media[d]

ListCatchesUp == <>[](window \in {"hung", "closing", "closed"} \/ thread = "stuck" \/ Current)

(* Closing the window ends the refresh thread, even in the middle of an    *)
(* enumeration that would never end (OnClosed: Join, then Abort).          *)
ClosingEndsThread == window = "closing" ~> window = "closed" /\ thread = "stopped"
=============================================================================
