---------------------------- MODULE FlashWindow -----------------------------
(***************************************************************************)
(* MainForm.cs: the window, its write threads and the hardware.  The user  *)
(* picks a disk and confirms; a thread then finds the disk again by its    *)
(* number, lets diskpart clean it and writes the image, while it talks to  *)
(* the window through delegates that are posted to the window's queue.     *)
(* What is written, and where, is the subject of ImageWriter; here a write *)
(* is a number of chunks.                                                  *)
(*                                                                         *)
(* A message box or dialog runs a message loop of its own: posted          *)
(* delegates are executed while it is open, but the window under it takes  *)
(* no input.  dialogs is the stack of these loops, the innermost first.    *)
(***************************************************************************)
EXTENDS Integers, Sequences, FiniteSets

CONSTANTS
    Numbers,        \* disk numbers
    Media,          \* media that may be in them
    Length,         \* medium |-> its length
    None,           \* no medium
    ImageLength,    \* fs.Length
    Chunks,         \* how many buffers the image is copied in
    WriteOps,       \* how many operations the change file holds
    MaxJobs,        \* bound: how often Write is confirmed
    MaxRetries,     \* bound: how often the user answers Retry
    MaxExchanges    \* bound: how often a medium is exchanged

ASSUME FlashWindowAssumption ==
    /\ None \notin Media /\ Length \in [Media -> Nat \ {0}] /\ ImageLength \in Nat
    /\ Chunks \in Nat \ {0} /\ WriteOps \in Nat
    /\ MaxJobs \in Nat /\ MaxRetries \in Nat /\ MaxExchanges \in Nat

VARIABLES
    slot,        \* the hardware: number |-> medium or None
    exchanges,   \* how often it has changed
    window,      \* "open" or "closed"
    gui,         \* GUIEnabled
    abort,       \* _AbortWriting
    label,       \* lblProgress: "Ready", "Preparing" or "Busy"
    dialogs,     \* open dialogs: "error", "confirm", "report" or "retry"
    click,       \* locals of button3_Click while the confirmation is open
    queue,       \* posted delegates
    jobs,        \* the write threads, in the order they were started
    retries,
    cancelled,   \* jobs the user has cancelled, with either button
    erased       \* what diskpart cleaned, for the properties

hardware == <<slot, exchanges>>
history == <<retries, cancelled, erased>>
vars == <<hardware, window, gui, abort, label, dialogs, click, queue, jobs, history>>

Ids == DOMAIN jobs
NoClick == [number |-> None, medium |-> None, VolumeSize |-> 0]

Init ==
    /\ slot \in [Numbers -> Media \cup {None}] /\ exchanges = 0
    /\ window = "open" /\ gui = TRUE /\ abort = FALSE /\ label = "Ready"
    /\ dialogs = << >> /\ click = NoClick /\ queue = << >> /\ jobs = << >>
    /\ retries = 0 /\ cancelled = {} /\ erased = {}

\* A medium is taken out or put in, or a disk number passes to another disk.
Exchange ==
    /\ exchanges < MaxExchanges /\ exchanges' = exchanges + 1
    /\ \E n \in Numbers, m \in Media \cup {None} :
         /\ m # slot[n] /\ (m = None \/ \A k \in Numbers : slot[k] # m)
         /\ slot' = [slot EXCEPT ![n] = m]
    /\ UNCHANGED <<window, gui, abort, label, dialogs, click, queue, jobs, history>>

(***************************************************************************)
(* The user                                                                *)
(***************************************************************************)
\* Faulty variant: the dialog does not disable the window below it.
ActiveAlways == window = "open"

\* The main window itself takes input.
Active == window = "open" /\ dialogs = << >>

\* button3_Click up to the confirmation, which shows what was just queried.
ClickWrite ==
    /\ Active /\ gui /\ Len(jobs) < MaxJobs
    /\ \E n \in Numbers :
         IF slot[n] # None /\ ImageLength <= Length[slot[n]]
           THEN /\ click' = [number |-> n, medium |-> slot[n], VolumeSize |-> Length[slot[n]]]
                /\ dialogs' = <<"confirm">> \o dialogs
           ELSE dialogs' = <<"error">> \o dialogs /\ UNCHANGED click
    /\ UNCHANGED <<hardware, window, gui, abort, label, queue, jobs, history>>

Top == Head(dialogs)
Closing(kind) == dialogs # << >> /\ Top = kind /\ dialogs' = Tail(dialogs)

Dismiss ==
    /\ Closing("error") \/ Closing("confirm")
    /\ click' = NoClick
    /\ UNCHANGED <<hardware, window, gui, abort, label, queue, jobs, history>>

NewJob == [pc |-> "start", number |-> click.number, VolumeSize |-> click.VolumeSize,
           reviewed |-> click.medium, done |-> 0, outcome |-> "none"]

\* Faulty variant: the controls stay enabled.
StartEnabled ==
    /\ Closing("confirm")
    /\ label' = "Preparing" /\ abort' = FALSE
    /\ jobs' = Append(jobs, NewJob) /\ click' = NoClick
    /\ UNCHANGED <<hardware, window, gui, queue, history>>

\* Faulty variant: _AbortWriting keeps its value from the last job.
StartStillAborted ==
    /\ Closing("confirm")
    /\ label' = "Preparing" /\ gui' = FALSE
    /\ jobs' = Append(jobs, NewJob) /\ click' = NoClick
    /\ UNCHANGED <<hardware, window, abort, queue, history>>

\* button3_Click after the confirmation.
Start ==
    /\ Closing("confirm")
    /\ label' = "Preparing" /\ gui' = FALSE /\ abort' = FALSE
    /\ jobs' = Append(jobs, NewJob) /\ click' = NoClick
    /\ UNCHANGED <<hardware, window, queue, history>>

\* Jobs that the window has not been told the end of.
Unreported == {j \in Ids : jobs[j].outcome = "none"}

\* button2_Click; the button is visible while a job runs.
ClickCancel ==
    /\ Active /\ ~gui
    /\ abort' = TRUE /\ cancelled' = cancelled \cup Unreported
    /\ UNCHANGED <<hardware, window, gui, label, dialogs, click, queue, jobs, retries, erased>>

(***************************************************************************)
(* A write thread.  Its calls UpdateProgress, AskRetry and ReportCompletion*)
(* go through the queue while there is a window.  After that they run on   *)
(* the thread itself, where touching a disposed control may throw.         *)
(***************************************************************************)
At(j, pc) == j \in Ids /\ jobs[j].pc = pc
Goto(j, pc) == jobs' = [jobs EXCEPT ![j].pc = pc]

\* ReportCompletion
Ends(j, outcome) ==
    /\ jobs' = [jobs EXCEPT ![j].outcome = outcome,
                            ![j].pc = IF window = "open" THEN "disposing" ELSE "boxed"]
    /\ queue' = IF window = "open"
                  THEN Append(queue, [kind |-> "report", outcome |-> outcome]) ELSE queue

Thread == UNCHANGED <<hardware, window, gui, abort, label, dialogs, click, retries, cancelled>>

\* UpdateProgress, after which the thread is at pc.
UpdateProgress(j, pc, done) ==
    \/ /\ jobs' = [jobs EXCEPT ![j].pc = pc, ![j].done = done]
       /\ queue' = IF window = "open" THEN Append(queue, [kind |-> "progress"]) ELSE queue
    \/ window = "closed" /\ Ends(j, "error")

Announce(j) ==
    /\ At(j, "start")
    /\ UpdateProgress(j, "check", 0)
    /\ UNCHANGED erased /\ Thread

\* The disk with the number taken at the click must have the same length.
CheckLength(j) ==
    /\ At(j, "check")
    /\ LET m == slot[jobs[j].number]
       IN  IF m # None /\ Length[m] = jobs[j].VolumeSize
             THEN Goto(j, "diskpart") /\ UNCHANGED queue
             ELSE Ends(j, "error")
    /\ UNCHANGED erased /\ Thread

\* SELECT DISK n, CLEAN; diskpart may fail before or after it did its work.
RunDiskpart(j) ==
    /\ At(j, "diskpart")
    /\ \/ /\ slot[jobs[j].number] # None
          /\ erased' = erased \cup {[job |-> j, medium |-> slot[jobs[j].number]]}
          /\ \/ Goto(j, "reopen") /\ UNCHANGED queue
             \/ Ends(j, "error")
       \/ UNCHANGED erased /\ Ends(j, "error")
    /\ Thread

Reopen(j) ==
    /\ At(j, "reopen")
    /\ \/ slot[jobs[j].number] # None /\ Goto(j, "write") /\ UNCHANGED queue
       \/ Ends(j, "error")
    /\ UNCHANGED erased /\ Thread

Cancel(j) ==
    /\ At(j, "write") /\ abort /\ jobs[j].done < Chunks
    /\ Ends(j, "cancelled")
    /\ UNCHANGED erased /\ Thread

\* Faulty variant: the loop does not stop at the end of the image.
WriteChunkMore(j) ==
    /\ At(j, "write") /\ ~abort /\ slot[jobs[j].number] # None
    /\ UpdateProgress(j, "write", jobs[j].done + 1)
    /\ UNCHANGED erased /\ Thread

\* A chunk is written and its progress posted.
WriteChunk(j) ==
    /\ At(j, "write") /\ ~abort /\ jobs[j].done < Chunks /\ slot[jobs[j].number] # None
    /\ UpdateProgress(j, "write", jobs[j].done + 1)
    /\ UNCHANGED erased /\ Thread

\* A read or a write fails.  AskRetry waits in Invoke until the box is closed,
\* or shows it itself if there is no window.
AskRetry(j) ==
    /\ At(j, "write") /\ ~abort /\ jobs[j].done < Chunks
    /\ Goto(j, "asking")
    /\ queue' = IF window = "open" THEN Append(queue, [kind |-> "ask"]) ELSE queue
    /\ UNCHANGED erased /\ Thread

\* The partition is to be extended: resize2fs runs.
Resize(j) ==
    /\ At(j, "write") /\ jobs[j].done = Chunks
    /\ UpdateProgress(j, "resize", jobs[j].done)
    /\ UNCHANGED erased /\ Thread

\* The change file is applied, and the progress is posted at its beginning
\* and with each operation.
ApplyChanges(j) ==
    /\ \/ At(j, "resize") /\ UpdateProgress(j, "apply", jobs[j].done)
       \/ /\ At(j, "apply") /\ jobs[j].done < Chunks + WriteOps
          /\ UpdateProgress(j, "apply", jobs[j].done + 1)
    /\ UNCHANGED erased /\ Thread

\* The boot sector is written, or not, because the resize is skipped or
\* something fails.
Finish(j) ==
    /\ \/ /\ At(j, "write") /\ jobs[j].done = Chunks
          /\ \E outcome \in {"success", "skipped", "error"} : Ends(j, outcome)
       \/ At(j, "resize") /\ \E outcome \in {"skipped", "error"} : Ends(j, outcome)
       \/ At(j, "apply") /\ jobs[j].done = Chunks + WriteOps /\ Ends(j, "success")
       \/ At(j, "apply") /\ Ends(j, "error")
    /\ UNCHANGED erased /\ Thread

\* The end of the using block and of the finally block.
Dispose(j) ==
    /\ At(j, "disposing") \/ At(j, "boxed")
    /\ Goto(j, "done")
    /\ UNCHANGED <<queue, erased>> /\ Thread

Worker(j) ==
    \/ Announce(j) \/ CheckLength(j) \/ RunDiskpart(j) \/ Reopen(j) \/ Cancel(j)
    \/ WriteChunk(j) \/ AskRetry(j) \/ Resize(j) \/ ApplyChanges(j) \/ Finish(j) \/ Dispose(j)

(***************************************************************************)
(* The message loop                                                        *)
(***************************************************************************)
Idle == gui' = TRUE /\ label' = "Ready"

\* Faulty variant: reports overtake what was posted before them.
NextReport ==
    LET reports == {k \in DOMAIN queue : queue[k].kind = "report"}
    IN  IF reports = {} THEN 1 ELSE CHOOSE k \in reports : TRUE

NextPosted == 1

RunPosted ==
    /\ window = "open" /\ queue # << >>
    /\ LET posted == queue[NextPosted]
       IN  \/ /\ posted.kind = "progress"
              /\ label' = "Busy" /\ UNCHANGED <<gui, dialogs>>
           \/ /\ posted.kind = "ask"
              /\ dialogs' = <<"retry">> \o dialogs /\ UNCHANGED <<gui, label>>
           \/ /\ posted.kind = "report"
              /\ IF posted.outcome = "cancelled"
                   THEN Idle /\ UNCHANGED dialogs
                   ELSE dialogs' = <<"report">> \o dialogs /\ UNCHANGED <<gui, label>>
    /\ queue' = [k \in 1 .. Len(queue) - 1 |-> IF k < NextPosted THEN queue[k] ELSE queue[k + 1]]
    /\ UNCHANGED <<hardware, window, abort, click, jobs, history>>

\* Faulty variant: the controls are not enabled again.
ReadReportOnly ==
    /\ Closing("report")
    /\ label' = "Ready"
    /\ UNCHANGED <<hardware, window, gui, abort, click, queue, jobs, history>>

\* The box that ReportCompletion shows is closed.
ReadReport ==
    /\ Closing("report")
    /\ Idle
    /\ UNCHANGED <<hardware, window, abort, click, queue, jobs, history>>

\* Faulty variant: only the window can show the box.
AnswerInWindow ==
    /\ Closing("retry")
    /\ \E j \in Ids :
         At(j, "asking") /\ Ends(j, "cancelled") /\ cancelled' = cancelled \cup {j}
    /\ UNCHANGED <<hardware, window, gui, abort, label, click, retries, erased>>

\* AskRetry returns; Cancel throws OperationCanceledException in the thread.
Answer ==
    /\ \/ Closing("retry")
       \/ window = "closed" /\ UNCHANGED dialogs
    /\ \E j \in Ids :
         /\ At(j, "asking")
         /\ \/ /\ retries < MaxRetries /\ retries' = retries + 1
               /\ jobs' = [jobs EXCEPT ![j].pc = "write", ![j].done = 0]
               /\ UNCHANGED <<queue, cancelled>>
            \/ /\ Ends(j, "cancelled") /\ cancelled' = cancelled \cup {j}
               /\ UNCHANGED retries
    /\ UNCHANGED <<hardware, window, gui, abort, label, click, erased>>

\* The window is closed: what was posted is dropped, and a thread that waits
\* in Invoke gets an ObjectDisposedException.
Close ==
    /\ Active /\ window' = "closed" /\ queue' = << >>
    /\ jobs' = [j \in Ids |->
                  IF jobs[j].pc = "asking" THEN [jobs[j] EXCEPT !.pc = "boxed", !.outcome = "error"]
                                           ELSE jobs[j]]
    /\ UNCHANGED <<hardware, gui, abort, label, dialogs, click, history>>

Next ==
    \/ Exchange
    \/ ClickWrite \/ Dismiss \/ Start \/ ClickCancel \/ Close
    \/ RunPosted \/ ReadReport \/ Answer
    \/ \E j \in Ids : Worker(j)

Spec == Init /\ [][Next]_vars

\* The threads run, Windows delivers posted messages, and the user closes
\* the boxes that are shown; nobody need press a button of the main window.
Fairness ==
    /\ \A j \in 1 .. MaxJobs : WF_vars(Worker(j))
    /\ WF_vars(RunPosted) /\ WF_vars(ReadReport) /\ WF_vars(Answer)

FairSpec == Spec /\ Fairness

(***************************************************************************)
(* Properties                                                              *)
(***************************************************************************)
Writing == {"start", "check", "diskpart", "reopen", "write", "asking", "resize", "apply"}
Writers == {j \in Ids : jobs[j].pc \in Writing}

TypeOK ==
    /\ slot \in [Numbers -> Media \cup {None}]
    /\ window \in {"open", "closed"} /\ gui \in BOOLEAN /\ abort \in BOOLEAN
    /\ label \in {"Ready", "Preparing", "Busy"}
    /\ \A j \in Ids :
         /\ jobs[j].pc \in Writing \cup {"disposing", "boxed", "done"}
         /\ jobs[j].outcome \in {"none", "success", "skipped", "error", "cancelled"}
         /\ jobs[j].done \in 0 .. Chunks + WriteOps
         /\ jobs[j].pc \in Writing <=> jobs[j].outcome = "none"

(* At most one thread may still clean or write a disk, although the next   *)
(* job can be started while the thread of the last one is not yet gone     *)
(* (ReportCompletion is posted before the using block ends).               *)
OneWriter == Cardinality(Writers) <= 1

(* No dialog is opened on top of another one by a posted delegate.         *)
DialogsDoNotNest == Len(dialogs) <= 1

(* A job ends as cancelled only if the user cancelled this very job: a     *)
(* late click on Cancel does not reach the next one.                       *)
CancelledByUser == \A j \in Ids : jobs[j].outcome = "cancelled" => j \in cancelled

(* When the window can be used again it says so: no progress of the last   *)
(* job arrives after its end.                                              *)
ReadyWhenEnabled == gui => label = "Ready"

(* What the confirmation says: "Please review the information about the    *)
(* target device before you continue".                                     *)
ErasesReviewedDevice == \A e \in erased : e.medium = jobs[e.job].reviewed

(* A job that was started ends, and the window can be used again unless    *)
(* it was closed.                                                          *)
WindowComesBack == ~gui ~> (gui \/ window = "closed")

(* Closing the window does not keep the program alive for ever.            *)
ThreadsEnd == window = "closed" ~> \A j \in Ids : jobs[j].pc = "done"
=============================================================================
