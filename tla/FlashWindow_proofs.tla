------------------------- MODULE FlashWindow_proofs --------------------------
(***************************************************************************)
(* Proofs about FlashWindow, for any disks, media, lengths and bounds.     *)
(***************************************************************************)
EXTENDS FlashWindow, FiniteSetTheorems, SequenceTheorems, TLAPS

Outcomes == {"none", "success", "skipped", "error", "cancelled"}
Posted == [kind : {"progress", "ask"}] \cup [kind : {"report"}, outcome : Outcomes]

Job == [pc : Writing \cup {"disposing", "boxed", "done"}, number : Numbers, VolumeSize : Nat,
        reviewed : Media, done : 0 .. Chunks + WriteOps, outcome : Outcomes]

JobOK(job) ==
    /\ job \in Job
    /\ job.pc \in Writing <=> job.outcome = "none"

Types ==
    /\ slot \in [Numbers -> Media \cup {None}]
    /\ window \in {"open", "closed"} /\ gui \in BOOLEAN /\ abort \in BOOLEAN
    /\ label \in {"Ready", "Preparing", "Busy"}
    /\ queue \in Seq(Posted) /\ jobs \in Seq(Job)
    /\ \A j \in Ids : JobOK(jobs[j])

(***************************************************************************)
(* While the window is open, the controls, the dialogs, the queue and the  *)
(* threads are in one of six phases.                                       *)
(***************************************************************************)
Quiet(n) == \A k \in 1 .. n : queue[k].kind = "progress"
PostedLast(kind) == queue # << >> /\ Quiet(Len(queue) - 1) /\ queue[Len(queue)].kind = kind
Alone(j) == j \in Ids /\ Unreported = {j}
NoneLeft == \A j \in Ids : jobs[j].outcome # "none"

Enabled == gui /\ NoneLeft /\ queue = << >> /\ dialogs \in {<< >>, <<"error">>, <<"confirm">>}
Running == ~gui /\ (\E j \in Ids : Alone(j) /\ jobs[j].pc # "asking") /\ Quiet(Len(queue)) /\ dialogs = << >>
AskPosted == ~gui /\ (\E j \in Ids : Alone(j) /\ jobs[j].pc = "asking") /\ PostedLast("ask") /\ dialogs = << >>
AskShown == ~gui /\ (\E j \in Ids : Alone(j) /\ jobs[j].pc = "asking") /\ queue = << >> /\ dialogs = <<"retry">>
ReportPosted == ~gui /\ NoneLeft /\ PostedLast("report") /\ dialogs = << >>
ReportShown == ~gui /\ NoneLeft /\ queue = << >> /\ dialogs = <<"report">>

Open ==
    /\ window = "open"
    /\ Enabled \/ Running \/ AskPosted \/ AskShown \/ ReportPosted \/ ReportShown

\* Without a window a thread may go on, and nothing is posted or shown.
Closed ==
    /\ window = "closed" /\ queue = << >> /\ dialogs = << >>
    /\ NoneLeft \/ \E j \in Ids : Alone(j)

Phases == Open \/ Closed

ClickOK ==
    dialogs = <<"confirm">> =>
      click.number \in Numbers /\ click.medium \in Media /\ click.VolumeSize = Length[click.medium]

\* A click on Cancel reaches the job that was running, and Start forgets it.
AbortOK == abort => Unreported \subseteq cancelled

IndInv ==
    /\ Types /\ Phases /\ ClickOK /\ AbortOK
    /\ CancelledByUser /\ ReadyWhenEnabled

(***************************************************************************)
(* What a step of a write thread comes to: it goes on, asks whether to try *)
(* again, reports its end, or goes away.                                   *)
(***************************************************************************)
Becomes(j, job) == j \in Ids /\ JobOK(job) /\ jobs' = [jobs EXCEPT ![j] = job]

Posts(kind) ==
    IF window = "open" THEN \E m \in Posted : m.kind = kind /\ queue' = Append(queue, m)
                       ELSE queue' = queue

GoesOn(j) ==
    /\ jobs[j].outcome = "none" /\ jobs[j].pc # "asking"
    /\ \E job : Becomes(j, job) /\ job.outcome = "none" /\ job.pc # "asking"
    /\ Posts("progress") \/ queue' = queue

Asks(j) ==
    /\ jobs[j].outcome = "none" /\ jobs[j].pc # "asking"
    /\ \E job : Becomes(j, job) /\ job.outcome = "none" /\ job.pc = "asking"
    /\ Posts("ask")

Reports(j) ==
    /\ jobs[j].outcome = "none" /\ jobs[j].pc # "asking"
    /\ \E job : /\ Becomes(j, job) /\ job.outcome # "none"
                /\ job.outcome = "cancelled" => abort
    /\ Posts("report")

Leaves(j) ==
    /\ jobs[j].outcome # "none"
    /\ \E job : Becomes(j, job) /\ job.outcome = jobs[j].outcome
    /\ queue' = queue

(* Only the thread's own record changes.                                   *)
LEMMA BecomesChanges ==
    ASSUME jobs \in Seq(Job), NEW j, NEW job, Becomes(j, job)
    PROVE  /\ jobs' \in Seq(Job) /\ Ids' = Ids /\ jobs'[j] = job
           /\ \A i \in Ids : i # j => jobs'[i] = jobs[i]
<1>1. j \in 1 .. Len(jobs) /\ job \in Job
  BY DEF Becomes, Ids, JobOK
<1> QED
  BY <1>1 DEF Becomes, Ids

(* Appending a posted delegate leaves the ones before it in their order.   *)
LEMMA PostsAppends ==
    ASSUME queue \in Seq(Posted), window = "open", NEW kind, Posts(kind)
    PROVE  /\ queue' \in Seq(Posted) /\ queue' # << >> /\ Len(queue') = Len(queue) + 1
           /\ queue'[Len(queue')].kind = kind
           /\ \A k \in 1 .. Len(queue) : queue'[k] = queue[k]
<1>1. PICK m \in Posted : m.kind = kind /\ queue' = Append(queue, m)
  BY DEF Posts
<1> QED
  BY <1>1, AppendProperties

(* ReportCompletion ends a job that was not ended before.                  *)
LEMMA EndsReports ==
    ASSUME Types, NEW j \in Ids, NEW outcome \in Outcomes \ {"none"}, Ends(j, outcome)
    PROVE  /\ \E job : Becomes(j, job) /\ job.outcome = outcome
           /\ Posts("report")
<1> DEFINE job == [jobs[j] EXCEPT !.outcome = outcome,
                                  !.pc = IF window = "open" THEN "disposing" ELSE "boxed"]
<1>1. jobs[j] \in Job /\ JobOK(jobs[j])
  BY DEF Types, JobOK
<1>2. jobs' = [jobs EXCEPT ![j] = job]
  BY DEF Ends
<1>3. job \in Job /\ job.outcome = outcome /\ job.pc \in {"disposing", "boxed"}
  BY <1>1 DEF Job, Writing
<1>4. JobOK(job)
  BY <1>1, <1>3 DEF JobOK, Writing
<1>5. Posts("report")
  BY DEF Ends, Posts, Posted, Types
<1> QED
  BY <1>2, <1>3, <1>4, <1>5 DEF Becomes

(* UpdateProgress lets the thread go on, or ends it if there is no window. *)
LEMMA ProgressKinds ==
    ASSUME Types, NEW j \in Ids, jobs[j].outcome = "none", jobs[j].pc # "asking",
           NEW pc \in Writing \ {"asking"}, NEW done \in 0 .. Chunks + WriteOps, UpdateProgress(j, pc, done)
    PROVE  GoesOn(j) \/ Reports(j)
<1> DEFINE job == [jobs[j] EXCEPT !.pc = pc, !.done = done]
<1>1. JobOK(jobs[j])
  BY DEF Types
<1>2. CASE /\ jobs' = [jobs EXCEPT ![j].pc = pc, ![j].done = done]
           /\ queue' = IF window = "open" THEN Append(queue, [kind |-> "progress"]) ELSE queue
  <2>1. jobs' = [jobs EXCEPT ![j] = job]
    BY <1>2
  <2>2. JobOK(job) /\ job.outcome = "none" /\ job.pc # "asking"
    BY <1>1 DEF JobOK, Job, Writing
  <2>3. [kind |-> "progress"] \in Posted /\ [kind |-> "progress"].kind = "progress"
    BY DEF Posted
  <2>4. Posts("progress")
    BY <1>2, <2>3 DEF Posts
  <2> QED
    BY <2>1, <2>2, <2>4 DEF GoesOn, Becomes
<1>3. CASE Ends(j, "error")
  BY <1>3, EndsReports DEF Reports, Outcomes
<1> QED
  BY <1>2, <1>3 DEF UpdateProgress

(* A thread moves to another place of its code.                            *)
LEMMA GotoBecomes ==
    ASSUME Types, NEW j \in Ids, jobs[j].outcome = "none", NEW pc \in Writing, Goto(j, pc)
    PROVE  \E job : Becomes(j, job) /\ job.outcome = "none" /\ job.pc = pc
<1> DEFINE job == [jobs[j] EXCEPT !.pc = pc]
<1>1. JobOK(jobs[j])
  BY DEF Types
<1>2. jobs' = [jobs EXCEPT ![j] = job]
  BY DEF Goto
<1>3. JobOK(job) /\ job.outcome = "none" /\ job.pc = pc
  BY <1>1 DEF JobOK, Job
<1> QED
  BY <1>2, <1>3 DEF Becomes

LEMMA WorkerKinds ==
    ASSUME Types, NEW j \in Ids, Worker(j)
    PROVE  GoesOn(j) \/ Asks(j) \/ Reports(j) \/ Leaves(j)
<1>0. JobOK(jobs[j]) /\ jobs[j].number \in Numbers /\ jobs[j].done \in 0 .. Chunks + WriteOps
      /\ slot[jobs[j].number] \in Media \cup {None}
  BY DEF Types, JobOK, Job
<1>1. ASSUME NEW pc \in Writing, At(j, pc)
      PROVE  jobs[j].outcome = "none" /\ jobs[j].pc = pc
  BY <1>0, <1>1 DEF At, JobOK
<1>2. ASSUME jobs[j].outcome = "none", jobs[j].pc # "asking",
             NEW outcome \in Outcomes \ {"none", "cancelled"}, Ends(j, outcome)
      PROVE  Reports(j)
  BY <1>2, EndsReports DEF Reports
<1>3. CASE Announce(j)
  <2>1. jobs[j].outcome = "none" /\ jobs[j].pc # "asking"
    BY <1>1, <1>3 DEF Announce, Writing
  <2>2. "check" \in Writing \ {"asking"} /\ 0 \in 0 .. Chunks + WriteOps
    BY FlashWindowAssumption DEF Writing
  <2> QED
    BY <1>3, <2>1, <2>2, ProgressKinds DEF Announce
<1>4. CASE CheckLength(j)
  <2> DEFINE m == slot[jobs[j].number]
  <2>1. jobs[j].outcome = "none" /\ jobs[j].pc # "asking"
    BY <1>1, <1>4 DEF CheckLength, Writing
  <2>2. CASE m # None /\ Length[m] = jobs[j].VolumeSize
    <3>1. Goto(j, "diskpart") /\ queue' = queue
      BY <1>4, <2>2 DEF CheckLength
    <3>2. "diskpart" \in Writing
      BY DEF Writing
    <3> QED
      BY <2>1, <3>1, <3>2, GotoBecomes DEF GoesOn
  <2>3. CASE ~(m # None /\ Length[m] = jobs[j].VolumeSize)
    BY <1>2, <1>4, <2>1, <2>3 DEF CheckLength, Outcomes
  <2> QED
    BY <2>2, <2>3
<1>5. CASE RunDiskpart(j)
  <2>1. jobs[j].outcome = "none" /\ jobs[j].pc # "asking"
    BY <1>1, <1>5 DEF RunDiskpart, Writing
  <2>2. CASE Goto(j, "reopen") /\ queue' = queue
    <3>1. "reopen" \in Writing
      BY DEF Writing
    <3> QED
      BY <2>1, <2>2, <3>1, GotoBecomes DEF GoesOn
  <2> QED
    BY <1>2, <1>5, <2>1, <2>2 DEF RunDiskpart, Outcomes
<1>6. CASE Reopen(j)
  <2>1. jobs[j].outcome = "none" /\ jobs[j].pc # "asking"
    BY <1>1, <1>6 DEF Reopen, Writing
  <2>2. CASE Goto(j, "write") /\ queue' = queue
    <3>1. "write" \in Writing
      BY DEF Writing
    <3> QED
      BY <2>1, <2>2, <3>1, GotoBecomes DEF GoesOn
  <2> QED
    BY <1>2, <1>6, <2>1, <2>2 DEF Reopen, Outcomes
<1>7. CASE Cancel(j)
  <2>1. jobs[j].outcome = "none" /\ jobs[j].pc # "asking"
    BY <1>1, <1>7 DEF Cancel, Writing
  <2> QED
    BY <1>7, <2>1, EndsReports DEF Cancel, Reports, Outcomes
<1>8. CASE WriteChunk(j)
  <2>1. jobs[j].outcome = "none" /\ jobs[j].pc # "asking"
    BY <1>1, <1>8 DEF WriteChunk, Writing
  <2>2. "write" \in Writing \ {"asking"} /\ jobs[j].done + 1 \in 0 .. Chunks + WriteOps
    BY <1>0, <1>8, FlashWindowAssumption DEF WriteChunk, Writing
  <2> QED
    BY <1>8, <2>1, <2>2, ProgressKinds DEF WriteChunk
<1>9. CASE AskRetry(j)
  <2>1. jobs[j].outcome = "none" /\ jobs[j].pc # "asking" /\ "asking" \in Writing
    BY <1>1, <1>9 DEF AskRetry, Writing
  <2>2. [kind |-> "ask"] \in Posted /\ [kind |-> "ask"].kind = "ask"
    BY DEF Posted
  <2>3. Posts("ask")
    BY <1>9, <2>2 DEF AskRetry, Posts
  <2> QED
    BY <1>9, <2>1, <2>3, GotoBecomes DEF AskRetry, Asks
<1>10. CASE Finish(j)
  <2>1. jobs[j].outcome = "none" /\ jobs[j].pc # "asking"
    BY <1>1, <1>10 DEF Finish, Writing
  <2>2. PICK outcome \in {"success", "skipped", "error"} : Ends(j, outcome)
    BY <1>10 DEF Finish
  <2> QED
    BY <1>2, <2>1, <2>2 DEF Outcomes
<1>11. CASE Dispose(j)
  <2> DEFINE job == [jobs[j] EXCEPT !.pc = "done"]
  <2>1. jobs[j].outcome # "none"
    BY <1>0, <1>11 DEF Dispose, At, JobOK, Writing
  <2>2. jobs' = [jobs EXCEPT ![j] = job] /\ queue' = queue
    BY <1>11 DEF Dispose, Goto
  <2>3. JobOK(job) /\ job.outcome = jobs[j].outcome
    BY <1>0, <2>1 DEF JobOK, Job, Writing
  <2> QED
    BY <2>1, <2>2, <2>3 DEF Leaves, Becomes
<1>12. CASE Resize(j)
  <2>1. jobs[j].outcome = "none" /\ jobs[j].pc # "asking" /\ "resize" \in Writing \ {"asking"}
    BY <1>1, <1>12 DEF Resize, Writing
  <2> QED
    BY <1>0, <1>12, <2>1, ProgressKinds DEF Resize
<1>13. CASE ApplyChanges(j)
  <2>1. jobs[j].outcome = "none" /\ jobs[j].pc # "asking" /\ "apply" \in Writing \ {"asking"}
    BY <1>1, <1>13 DEF ApplyChanges, Writing
  <2>2. CASE UpdateProgress(j, "apply", jobs[j].done)
    BY <1>0, <2>1, <2>2, ProgressKinds
  <2>3. CASE jobs[j].done < Chunks + WriteOps /\ UpdateProgress(j, "apply", jobs[j].done + 1)
    <3>1. jobs[j].done + 1 \in 0 .. Chunks + WriteOps
      BY <1>0, <2>3, FlashWindowAssumption
    <3> QED
      BY <2>1, <2>3, <3>1, ProgressKinds
  <2> QED
    BY <1>13, <2>2, <2>3 DEF ApplyChanges
<1> QED
  BY <1>3, <1>4, <1>5, <1>6, <1>7, <1>8, <1>9, <1>10, <1>11, <1>12, <1>13 DEF Worker

(* The threads' records stay typed, whatever a thread does.                *)
LEMMA BecomesTyped ==
    ASSUME Types, NEW j, NEW job, Becomes(j, job), queue' \in Seq(Posted),
           UNCHANGED <<slot, window, gui, abort, label>>
    PROVE  Types'
<1>1. jobs' \in Seq(Job) /\ Ids' = Ids /\ jobs'[j] = job /\ JobOK(job)
      /\ \A i \in Ids : i # j => jobs'[i] = jobs[i]
  BY BecomesChanges DEF Types, Becomes
<1>2. \A i \in Ids' : JobOK(jobs'[i])
  BY <1>1 DEF Types
<1> QED
  BY <1>1, <1>2 DEF Types, JobOK

(* A step of a thread keeps the phases apart: the jobs that are over are   *)
(* not heard of again, and the one that is not over says at most one thing *)
(* that the window has to answer or to act upon.                           *)
LEMMA WorkerPhases ==
    ASSUME Types, Phases, NEW j \in Ids, GoesOn(j) \/ Asks(j) \/ Reports(j) \/ Leaves(j),
           UNCHANGED <<window, gui, dialogs>>
    PROVE  Phases'
<1>0. queue \in Seq(Posted) /\ jobs \in Seq(Job) /\ gui \in BOOLEAN
  BY DEF Types
<1>1. ASSUME NoneLeft PROVE Leaves(j)
  BY <1>1 DEF NoneLeft, GoesOn, Asks, Reports
<1>2. ASSUME Leaves(j)
      PROVE  /\ Ids' = Ids /\ queue' = queue
             /\ NoneLeft => NoneLeft'
             /\ \A i \in Ids : Alone(i) => Alone(i)' /\ jobs'[i].pc = jobs[i].pc
  <2>1. PICK job : Becomes(j, job) /\ job.outcome = jobs[j].outcome /\ job.outcome # "none"
    BY <1>2 DEF Leaves
  <2>2. Ids' = Ids /\ jobs'[j] = job /\ \A i \in Ids : i # j => jobs'[i] = jobs[i]
    BY <1>0, <2>1, BecomesChanges
  <2>3. \A i \in Ids : jobs'[i].outcome = jobs[i].outcome
    BY <2>1, <2>2
  <2>4. Unreported' = Unreported
    BY <2>2, <2>3 DEF Unreported
  <2>5. NoneLeft => NoneLeft'
    BY <2>2, <2>3 DEF NoneLeft
  <2>6. ASSUME NEW i \in Ids, Alone(i) PROVE Alone(i)' /\ jobs'[i].pc = jobs[i].pc
    <3>1. i # j
      BY <2>6, <2>1 DEF Alone, Unreported
    <3> QED
      BY <2>2, <2>4, <2>6, <3>1 DEF Alone
  <2> QED
    BY <1>2, <2>2, <2>5, <2>6 DEF Leaves
<1>3. ASSUME NEW i \in Ids, Alone(i), ~Leaves(j)
      PROVE  i = j /\ jobs[j].pc # "asking"
  BY <1>3 DEF Alone, Unreported, GoesOn, Asks, Reports
<1>4. ASSUME Alone(j), NEW job, Becomes(j, job)
      PROVE  /\ Ids' = Ids /\ jobs'[j] = job
             /\ job.outcome = "none" => Alone(j)'
             /\ job.outcome # "none" => NoneLeft'
  <2>1. Ids' = Ids /\ jobs'[j] = job /\ \A i \in Ids : i # j => jobs'[i] = jobs[i]
    BY <1>0, <1>4, BecomesChanges
  <2>2. \A i \in Ids : i # j => jobs[i].outcome # "none"
    BY <1>4 DEF Alone, Unreported
  <2>3. \A i \in Ids : i # j => jobs'[i].outcome # "none"
    BY <2>1, <2>2
  <2> QED
    BY <2>1, <2>3 DEF Alone, Unreported, NoneLeft
<1>5. ASSUME Leaves(j) PROVE Phases'
  <2>1. /\ Enabled => Enabled'
        /\ ReportPosted => ReportPosted'
        /\ ReportShown => ReportShown'
    BY <1>2, <1>5 DEF Enabled, ReportPosted, ReportShown, PostedLast, Quiet
  <2>2. Running => Running'
    BY <1>2, <1>5 DEF Running, Quiet
  <2>3. AskPosted => AskPosted'
    BY <1>2, <1>5 DEF AskPosted, PostedLast, Quiet
  <2>4. AskShown => AskShown'
    BY <1>2, <1>5 DEF AskShown
  <2>5. Closed => Closed'
    BY <1>2, <1>5 DEF Closed
  <2> QED
    BY <2>1, <2>2, <2>3, <2>4, <2>5 DEF Phases, Open
<1>6. ASSUME Running, window = "open", ~Leaves(j) PROVE Phases'
  <2>1. Alone(j) /\ ~gui /\ dialogs = << >> /\ Quiet(Len(queue))
    BY <1>3, <1>6 DEF Running
  <2>2. CASE GoesOn(j)
    <3>1. PICK job : Becomes(j, job) /\ job.outcome = "none" /\ job.pc # "asking"
      BY <2>2 DEF GoesOn
    <3>2. \E i \in Ids' : Alone(i)' /\ jobs'[i].pc # "asking"
      BY <1>4, <2>1, <3>1
    <3>3. Quiet(Len(queue))'
      BY <1>0, <1>6, <2>1, <2>2, PostsAppends DEF GoesOn, Quiet
    <3> QED
      BY <1>6, <2>1, <3>2, <3>3 DEF Phases, Open, Running
  <2>3. CASE Asks(j)
    <3>1. PICK job : Becomes(j, job) /\ job.outcome = "none" /\ job.pc = "asking"
      BY <2>3 DEF Asks
    <3>2. \E i \in Ids' : Alone(i)' /\ jobs'[i].pc = "asking"
      BY <1>4, <2>1, <3>1
    <3>3. PostedLast("ask")'
      BY <1>0, <1>6, <2>1, <2>3, PostsAppends, SMTT(30) DEF Asks, Quiet, PostedLast
    <3> QED
      BY <1>6, <2>1, <3>2, <3>3 DEF Phases, Open, AskPosted
  <2>4. CASE Reports(j)
    <3>1. PICK job : Becomes(j, job) /\ job.outcome # "none"
      BY <2>4 DEF Reports
    <3>2. NoneLeft'
      BY <1>4, <2>1, <3>1
    <3>3. PostedLast("report")'
      BY <1>0, <1>6, <2>1, <2>4, PostsAppends DEF Reports, Quiet, PostedLast
    <3> QED
      BY <1>6, <2>1, <3>2, <3>3 DEF Phases, Open, ReportPosted
  <2> QED
    BY <1>6, <2>2, <2>3, <2>4
<1>7. ASSUME Closed, ~Leaves(j) PROVE Phases'
  <2>1. Alone(j)
    BY <1>1, <1>3, <1>7 DEF Closed
  <2>2. queue' = queue /\ \E job : Becomes(j, job)
    BY <1>7 DEF Closed, GoesOn, Asks, Reports, Posts
  <2>3. NoneLeft' \/ \E i \in Ids' : Alone(i)'
    BY <1>4, <2>1, <2>2
  <2> QED
    BY <1>7, <2>2, <2>3 DEF Closed, Phases
<1>8. ASSUME Open, ~Leaves(j) PROVE Running
  BY <1>1, <1>3, <1>8 DEF Open, Enabled, AskPosted, AskShown, ReportPosted, ReportShown
<1> QED
  BY <1>5, <1>6, <1>7, <1>8 DEF Phases, Open

(* The rest of the invariant, for a step of a thread.                      *)
LEMMA WorkerInv ==
    ASSUME IndInv, NEW j \in Ids, Worker(j)
    PROVE  IndInv'
<1>0. Types /\ Phases /\ (GoesOn(j) \/ Asks(j) \/ Reports(j) \/ Leaves(j))
  BY WorkerKinds DEF IndInv
<1>1. UNCHANGED <<slot, exchanges, window, gui, abort, label, dialogs, click, retries, cancelled>>
  BY DEF Worker, Announce, CheckLength, RunDiskpart, Reopen, Cancel, WriteChunk, AskRetry,
         Resize, ApplyChanges, Finish, Dispose, Thread, hardware
<1>2. PICK job : /\ Becomes(j, job)
                 /\ job.outcome = "none" => jobs[j].outcome = "none"
                 /\ job.outcome = "cancelled" => abort \/ jobs[j].outcome = "cancelled"
                 /\ jobs[j].outcome # "none" => job.outcome = jobs[j].outcome
  BY <1>0 DEF GoesOn, Asks, Reports, Leaves
<1>3. jobs' \in Seq(Job) /\ Ids' = Ids /\ jobs'[j] = job
      /\ \A i \in Ids : i # j => jobs'[i] = jobs[i]
  BY <1>0, <1>2, BecomesChanges DEF Types
<1>4. Types'
  <2>1. queue' \in Seq(Posted)
    BY <1>0, PostsAppends DEF Types, Posts, GoesOn, Asks, Reports, Leaves
  <2> QED
    BY <1>0, <1>1, <1>2, <2>1, BecomesTyped
<1>5. Phases'
  BY <1>0, <1>1, WorkerPhases
<1>6. ClickOK'
  BY <1>1 DEF IndInv, ClickOK
<1>8. AbortOK'
  <2>1. Unreported' \subseteq Unreported
    BY <1>2, <1>3 DEF Unreported
  <2> QED
    BY <1>1, <2>1 DEF IndInv, AbortOK
<1>9. CancelledByUser'
  <2>1. ASSUME NEW i \in Ids, jobs'[i].outcome = "cancelled" PROVE i \in cancelled
    <3>1. CASE jobs[i].outcome = "cancelled"
      BY <3>1 DEF IndInv, CancelledByUser
    <3>2. CASE jobs[i].outcome # "cancelled"
      <4>1. i = j /\ abort /\ jobs[j].outcome = "none"
        BY <1>2, <1>3, <2>1, <3>2
      <4> QED
        BY <4>1 DEF IndInv, AbortOK, Unreported
    <3> QED
      BY <3>1, <3>2
  <2> QED
    BY <1>1, <1>3, <2>1 DEF CancelledByUser
<1>10. ReadyWhenEnabled'
  BY <1>1 DEF IndInv, ReadyWhenEnabled
<1> QED
  BY <1>4, <1>5, <1>6, <1>8, <1>9, <1>10 DEF IndInv

LEMMA InitInv == Init => IndInv
<1> SUFFICES ASSUME Init PROVE IndInv
  OBVIOUS
<1>1. Types
  <2>1. jobs \in Seq(Job) /\ queue \in Seq(Posted) /\ Ids = {}
    BY DEF Init, Ids
  <2>2. /\ slot \in [Numbers -> Media \cup {None}] /\ window \in {"open", "closed"}
        /\ gui \in BOOLEAN /\ abort \in BOOLEAN /\ label \in {"Ready", "Preparing", "Busy"}
    BY DEF Init
  <2> QED
    BY <2>1, <2>2 DEF Types
<1>2. Phases
  BY DEF Init, Phases, Open, Enabled, NoneLeft, Ids
<1>3. ClickOK /\ AbortOK /\ CancelledByUser /\ ReadyWhenEnabled
  <2>1. dialogs # <<"confirm">>
    BY DEF Init
  <2> QED
    BY <2>1 DEF Init, ClickOK, AbortOK, CancelledByUser, ReadyWhenEnabled, Ids, Unreported
<1> QED
  BY <1>1, <1>2, <1>3 DEF IndInv

(* A dialog that is closed was the only one, and its window is there.      *)
LEMMA ClosingLast ==
    ASSUME Phases, NEW kind, Closing(kind)
    PROVE  /\ window = "open" /\ dialogs = <<kind>> /\ dialogs' = << >>
           /\ kind \in {"error", "confirm"} => Enabled
           /\ kind = "retry" => AskShown
           /\ kind = "report" => ReportShown
<1>1. dialogs \in {<< >>, <<"error">>, <<"confirm">>, <<"retry">>, <<"report">>}
  BY DEF Phases, Open, Closed, Enabled, Running, AskPosted, AskShown, ReportPosted, ReportShown
<1>2. dialogs # << >> /\ Head(dialogs) = kind /\ dialogs' = Tail(dialogs)
  BY DEF Closing, Top
<1>3. \A d : Head(<<d>>) = d /\ Tail(<<d>>) = << >>
  OBVIOUS
<1>4. dialogs = <<kind>> /\ dialogs' = << >> /\ kind \in {"error", "confirm", "retry", "report"}
  BY <1>1, <1>2, <1>3
<1>5. \A d, e : <<d>> = <<e>> => d = e
  OBVIOUS
<1>6. window = "open"
  BY <1>2 DEF Phases, Open, Closed
<1> QED
  BY <1>4, <1>5, <1>6, <1>2
     DEF Phases, Open, Closed, Enabled, Running, AskPosted, AskShown, ReportPosted, ReportShown

(* The hardware: the threads and the window do not notice.                 *)
LEMMA ExchangeInv == IndInv /\ Exchange => IndInv'
<1> SUFFICES ASSUME IndInv, Exchange PROVE IndInv'
  OBVIOUS
<1>1. UNCHANGED <<window, gui, abort, label, dialogs, click, queue, jobs, retries, cancelled, erased>>
  BY DEF Exchange, history
<1>2. slot' \in [Numbers -> Media \cup {None}]
  BY DEF Exchange, IndInv, Types
<1>3. Types'
  BY <1>1, <1>2 DEF IndInv, Types, Ids, JobOK
<1>4. Phases'
  BY <1>1 DEF IndInv, Phases, Open, Closed, Enabled, Running, AskPosted, AskShown, ReportPosted,
              ReportShown, NoneLeft, Alone, Unreported, Ids, PostedLast, Quiet
<1> QED
  BY <1>1, <1>3, <1>4 DEF IndInv, ClickOK, AbortOK, CancelledByUser, ReadyWhenEnabled,
                          Ids, Unreported

(* A click on Write opens a dialog over the idle window.                   *)
LEMMA ClickWriteInv == IndInv /\ ClickWrite => IndInv'
<1> SUFFICES ASSUME IndInv, ClickWrite PROVE IndInv'
  OBVIOUS
<1>1. UNCHANGED <<slot, window, gui, abort, label, queue, jobs, retries, cancelled, erased>>
  BY DEF ClickWrite, history, hardware
<1>2. Enabled /\ window = "open" /\ dialogs = << >>
  BY DEF ClickWrite, Active, IndInv, Phases, Open, Closed, Running, AskPosted, AskShown,
         ReportPosted, ReportShown
<1>3. PICK n \in Numbers :
        \/ /\ slot[n] # None
           /\ click' = [number |-> n, medium |-> slot[n], VolumeSize |-> Length[slot[n]]]
           /\ dialogs' = <<"confirm">> \o dialogs
        \/ dialogs' = <<"error">> \o dialogs /\ UNCHANGED click
  BY DEF ClickWrite
<1>4. \A d : <<d>> \o << >> = <<d>>
  OBVIOUS
<1>5. dialogs' = <<"confirm">> \/ dialogs' = <<"error">>
  BY <1>2, <1>3, <1>4
<1>6. Types'
  BY <1>1 DEF IndInv, Types, Ids, JobOK
<1>7. Phases'
  BY <1>1, <1>2, <1>5 DEF Phases, Open, Enabled, NoneLeft, Ids
<1>8. ClickOK'
  <2>1. slot[n] \in Media \cup {None}
    BY DEF IndInv, Types
  <2>2. <<"error">> # <<"confirm">>
    OBVIOUS
  <2>3. CASE dialogs' = <<"error">> \o dialogs
    BY <1>2, <1>4, <2>2, <2>3 DEF ClickOK
  <2>4. CASE /\ slot[n] # None
             /\ click' = [number |-> n, medium |-> slot[n], VolumeSize |-> Length[slot[n]]]
    BY <2>1, <2>4 DEF ClickOK
  <2> QED
    BY <1>3, <2>3, <2>4
<1> QED
  BY <1>1, <1>6, <1>7, <1>8 DEF IndInv, AbortOK, CancelledByUser, ReadyWhenEnabled,
                                Ids, Unreported

LEMMA DismissInv == IndInv /\ Dismiss => IndInv'
<1> SUFFICES ASSUME IndInv, Dismiss PROVE IndInv'
  OBVIOUS
<1>1. UNCHANGED <<slot, window, gui, abort, label, queue, jobs, retries, cancelled, erased>>
  BY DEF Dismiss, history, hardware
<1>2. Enabled /\ window = "open" /\ dialogs' = << >>
  <2>1. PICK kind \in {"error", "confirm"} : Closing(kind)
    BY DEF Dismiss
  <2> QED
    BY <2>1, ClosingLast DEF IndInv
<1>3. Types'
  BY <1>1 DEF IndInv, Types, Ids, JobOK
<1>4. Phases'
  BY <1>1, <1>2 DEF Phases, Open, Enabled, NoneLeft, Ids
<1>5. ClickOK'
  <2>1. << >> # <<"confirm">>
    OBVIOUS
  <2> QED
    BY <1>2, <2>1 DEF ClickOK
<1> QED
  BY <1>1, <1>3, <1>4, <1>5 DEF IndInv, AbortOK, CancelledByUser, ReadyWhenEnabled,
                                Ids, Unreported

(* The next job is started only when there is none that is not over.       *)
LEMMA StartInv == IndInv /\ Start => IndInv'
<1> SUFFICES ASSUME IndInv, Start PROVE IndInv'
  OBVIOUS
<1>1. UNCHANGED <<slot, window, queue, retries, cancelled, erased>>
      /\ label' = "Preparing" /\ gui' = FALSE /\ abort' = FALSE /\ jobs' = Append(jobs, NewJob)
  BY DEF Start, history, hardware
<1>2. Enabled /\ window = "open" /\ dialogs = <<"confirm">> /\ dialogs' = << >>
  BY ClosingLast DEF Start, IndInv
<1>3. jobs \in Seq(Job) /\ queue \in Seq(Posted)
  BY DEF IndInv, Types
<1>4. JobOK(NewJob) /\ NewJob.outcome = "none" /\ NewJob.pc = "start"
  <2>1. click.number \in Numbers /\ click.medium \in Media /\ click.VolumeSize = Length[click.medium]
        /\ click.VolumeSize \in Nat
    BY <1>2, FlashWindowAssumption DEF IndInv, ClickOK
  <2> QED
    BY <2>1, FlashWindowAssumption DEF NewJob, JobOK, Job, Writing, Outcomes
<1>5. /\ jobs' \in Seq(Job) /\ Ids' = Ids \cup {Len(jobs) + 1} /\ jobs'[Len(jobs) + 1] = NewJob
      /\ \A i \in Ids : jobs'[i] = jobs[i] /\ i # Len(jobs) + 1
  <2>1. NewJob \in Job
    BY <1>4 DEF JobOK
  <2> QED
    BY <1>1, <1>3, <2>1, AppendProperties DEF Ids
<1>6. Types'
  <2>1. \A i \in Ids' : JobOK(jobs'[i])
    BY <1>4, <1>5 DEF IndInv, Types
  <2> QED
    BY <1>1, <1>3, <1>5, <2>1 DEF IndInv, Types, JobOK
<1>7. Phases'
  <2>1. Unreported' = {Len(jobs) + 1}
    BY <1>2, <1>4, <1>5 DEF Enabled, NoneLeft, Unreported
  <2>2. \E j \in Ids' : Alone(j)' /\ jobs'[j].pc # "asking"
    BY <1>4, <1>5, <2>1 DEF Alone
  <2>3. Quiet(Len(queue))'
    BY <1>1, <1>2 DEF Enabled, Quiet
  <2> QED
    BY <1>1, <1>2, <2>2, <2>3 DEF Phases, Open, Running
<1>8. ClickOK'
  <2>1. << >> # <<"confirm">>
    OBVIOUS
  <2> QED
    BY <1>2, <2>1 DEF ClickOK
<1>10. CancelledByUser'
  BY <1>1, <1>4, <1>5 DEF IndInv, CancelledByUser
<1> QED
  BY <1>1, <1>6, <1>7, <1>8, <1>10 DEF IndInv, AbortOK, ReadyWhenEnabled

(* A click on Cancel is meant for the job that is not over.                *)
LEMMA ClickCancelInv == IndInv /\ ClickCancel => IndInv'
<1> SUFFICES ASSUME IndInv, ClickCancel PROVE IndInv'
  OBVIOUS
<1>1. UNCHANGED <<slot, window, gui, label, dialogs, click, queue, jobs, retries, erased>>
      /\ abort' = TRUE /\ cancelled' = cancelled \cup Unreported
  BY DEF ClickCancel, hardware
<1>2. Types'
  BY <1>1 DEF IndInv, Types, Ids, JobOK
<1>3. Phases'
  BY <1>1 DEF IndInv, Phases, Open, Closed, Enabled, Running, AskPosted, AskShown, ReportPosted,
              ReportShown, NoneLeft, Alone, Unreported, Ids, PostedLast, Quiet
<1>4. AbortOK' /\ CancelledByUser'
  BY <1>1 DEF IndInv, AbortOK, CancelledByUser, Unreported, Ids
<1> QED
  BY <1>1, <1>2, <1>3, <1>4 DEF IndInv, ClickOK, ReadyWhenEnabled, Ids

(* Closing the window ends the wait of a thread in Invoke.                 *)
LEMMA CloseInv == IndInv /\ Close => IndInv'
<1> SUFFICES ASSUME IndInv, Close PROVE IndInv'
  OBVIOUS
<1> DEFINE after(j) == IF jobs[j].pc = "asking"
                         THEN [jobs[j] EXCEPT !.pc = "boxed", !.outcome = "error"] ELSE jobs[j]
<1>1. UNCHANGED <<slot, gui, abort, label, dialogs, click, retries, cancelled, erased>>
      /\ window' = "closed" /\ queue' = << >> /\ dialogs = << >> /\ jobs' = [j \in Ids |-> after(j)]
  BY DEF Close, Active, hardware, history
<1>2. ASSUME NEW j \in Ids
      PROVE  /\ JobOK(after(j))
             /\ after(j).outcome \in {"error", jobs[j].outcome}
             /\ after(j).outcome = "none" => jobs[j].outcome = "none"
  <2>1. JobOK(jobs[j])
    BY DEF IndInv, Types
  <2>2. CASE jobs[j].pc = "asking"
    <3> DEFINE job == [jobs[j] EXCEPT !.pc = "boxed", !.outcome = "error"]
    <3>1. JobOK(job) /\ job.outcome = "error"
      BY <2>1 DEF JobOK, Job, Writing, Outcomes
    <3> QED
      BY <2>2, <3>1
  <2>3. CASE jobs[j].pc # "asking"
    BY <2>1, <2>3
  <2> QED
    BY <2>2, <2>3
<1>3. jobs' \in Seq(Job) /\ Ids' = Ids /\ \A j \in Ids : jobs'[j] = after(j)
  <2>1. Ids = 1 .. Len(jobs) /\ Len(jobs) \in Nat
    BY DEF IndInv, Types, Ids
  <2>2. \A j \in Ids : after(j) \in Job
    BY <1>2 DEF JobOK
  <2> HIDE DEF after
  <2> QED
    BY <1>1, <2>1, <2>2, IsASeq DEF Ids
<1> HIDE DEF after
<1>4. Types'
  <2>1. \A j \in Ids' : JobOK(jobs'[j])
    BY <1>2, <1>3
  <2> QED
    BY <1>1, <1>3, <2>1 DEF IndInv, Types, JobOK
<1>5. Unreported' \subseteq Unreported
  BY <1>2, <1>3 DEF Unreported
<1>6. Phases'
  <2>1. Unreported = {} \/ \E j \in Ids : Unreported = {j}
    BY DEF IndInv, Phases, Open, Closed, Enabled, Running, AskPosted, AskShown, ReportPosted,
           ReportShown, NoneLeft, Alone, Unreported
  <2>2. NoneLeft' \/ \E j \in Ids' : Alone(j)'
    BY <1>3, <1>5, <2>1 DEF NoneLeft, Alone, Unreported
  <2> QED
    BY <1>1, <2>2 DEF Phases, Closed
<1>7. AbortOK'
  BY <1>1, <1>3, <1>5 DEF IndInv, AbortOK
<1>8. CancelledByUser'
  BY <1>1, <1>2, <1>3 DEF IndInv, CancelledByUser
<1> QED
  BY <1>1, <1>4, <1>6, <1>7, <1>8 DEF IndInv, ClickOK, ReadyWhenEnabled

(* The message loop takes the oldest delegate: a question or a report is   *)
(* shown when all progress before it has been, and nothing comes after it. *)
LEMMA RunPostedInv == IndInv /\ RunPosted => IndInv'
<1> SUFFICES ASSUME IndInv, RunPosted PROVE IndInv'
  OBVIOUS
<1>1. UNCHANGED <<slot, window, abort, click, jobs, retries, cancelled, erased>>
      /\ window = "open" /\ queue # << >>
  BY DEF RunPosted, hardware, history
<1>2. queue \in Seq(Posted) /\ Len(queue) \in Nat \ {0} /\ DOMAIN queue = 1 .. Len(queue)
      /\ gui \in BOOLEAN
  <2>1. queue \in Seq(Posted) /\ gui \in BOOLEAN
    BY DEF IndInv, Types
  <2> QED
    BY <1>1, <2>1, EmptySeq
<1>3. /\ queue' \in Seq(Posted) /\ Len(queue') = Len(queue) - 1
      /\ \A k \in 1 .. Len(queue) - 1 : queue'[k] = queue[k + 1]
  <2>1. queue' = [k \in 1 .. Len(queue) - 1 |-> queue[k + 1]]
    BY <1>2 DEF RunPosted, NextPosted
  <2>2. \A k \in 1 .. Len(queue) - 1 : queue[k + 1] \in Posted
    BY <1>2
  <2> QED
    BY <1>2, <2>1, <2>2, IsASeq
<1>4. Running \/ AskPosted \/ ReportPosted
  BY <1>1 DEF IndInv, Phases, Open, Closed, Enabled, AskShown, ReportShown
<1>5. ~gui /\ dialogs = << >>
  BY <1>4 DEF Running, AskPosted, ReportPosted
<1>6. \A d : <<d>> \o << >> = <<d>>
  OBVIOUS
<1>7. CASE queue[1].kind = "progress"
  <2>1. label' = "Busy" /\ gui' = gui /\ dialogs' = dialogs
    BY <1>7 DEF RunPosted, NextPosted
  <2>2. Running => Running'
    <3>1. Quiet(Len(queue)) => Quiet(Len(queue))'
      BY <1>2, <1>3 DEF Quiet
    <3> QED
      BY <1>1, <2>1, <3>1 DEF Running, Alone, Unreported, Ids
  <2>3. ASSUME NEW kind, PostedLast(kind), kind # "progress" PROVE PostedLast(kind)'
    <3>1. Len(queue) # 1
      BY <1>7, <2>3 DEF PostedLast
    <3>2. Len(queue') # 0 /\ queue'[Len(queue')] = queue[Len(queue)]
      BY <1>2, <1>3, <3>1
    <3>3. queue' # << >>
      BY <1>3, <3>2
    <3>4. \A k \in 1 .. Len(queue') - 1 : queue'[k].kind = "progress"
      BY <1>2, <1>3, <2>3 DEF PostedLast, Quiet
    <3> QED
      BY <2>3, <3>2, <3>3, <3>4 DEF PostedLast, Quiet
  <2>4. AskPosted => AskPosted'
    BY <1>1, <2>1, <2>3 DEF AskPosted, Alone, Unreported, Ids
  <2>5. ReportPosted => ReportPosted'
    BY <1>1, <2>1, <2>3 DEF ReportPosted, NoneLeft, Ids
  <2>6. Phases'
    BY <1>1, <1>4, <2>2, <2>4, <2>5 DEF Phases, Open
  <2>7. Types'
    BY <1>1, <1>3, <2>1 DEF IndInv, Types, Ids, JobOK
  <2> QED
    BY <1>1, <1>5, <2>1, <2>6, <2>7 DEF IndInv, ClickOK, AbortOK, CancelledByUser,
       ReadyWhenEnabled, Ids, Unreported
<1>8. CASE queue[1].kind # "progress"
  <2>1. Len(queue) = 1
    BY <1>2, <1>4, <1>8 DEF Running, AskPosted, ReportPosted, PostedLast, Quiet
  <2>2. queue' = << >>
    BY <1>3, <2>1, EmptySeq
  <2>3. CASE queue[1].kind = "ask"
    <3>1. dialogs' = <<"retry">> /\ gui' = gui /\ label' = label
      BY <1>5, <1>6, <2>3 DEF RunPosted, NextPosted
    <3>2. AskPosted
      BY <1>2, <1>4, <2>1, <2>3 DEF Running, ReportPosted, PostedLast, Quiet
    <3>3. AskShown'
      BY <1>1, <2>2, <3>1, <3>2 DEF AskPosted, AskShown, Alone, Unreported, Ids
    <3>4. Types'
      BY <1>1, <1>3, <3>1 DEF IndInv, Types, Ids, JobOK
    <3>5. ClickOK'
      <4>1. <<"retry">> # <<"confirm">>
        OBVIOUS
      <4> QED
        BY <3>1, <4>1 DEF ClickOK
    <3> QED
      BY <1>1, <3>1, <3>3, <3>4, <3>5 DEF IndInv, Phases, Open, AbortOK, CancelledByUser,
         ReadyWhenEnabled, Ids, Unreported
  <2>4. CASE queue[1].kind = "report"
    <3>1. ReportPosted
      BY <1>2, <1>4, <2>1, <2>4 DEF Running, AskPosted, PostedLast, Quiet
    <3>2. NoneLeft'
      BY <1>1, <3>1 DEF ReportPosted, NoneLeft, Ids
    <3>3. CASE gui' = TRUE /\ label' = "Ready" /\ dialogs' = dialogs
      <4>1. Enabled'
        BY <1>5, <2>2, <3>2, <3>3 DEF Enabled
      <4>2. Types'
        BY <1>1, <1>3, <3>3 DEF IndInv, Types, Ids, JobOK
      <4> QED
        BY <1>1, <3>3, <4>1, <4>2 DEF IndInv, Phases, Open, ClickOK, AbortOK,
           CancelledByUser, ReadyWhenEnabled, Ids, Unreported
    <3>4. CASE gui' = gui /\ label' = label /\ dialogs' = <<"report">> \o dialogs
      <4>1. dialogs' = <<"report">>
        BY <1>5, <1>6, <3>4
      <4>2. ReportShown'
        BY <1>5, <2>2, <3>2, <3>4, <4>1 DEF ReportShown
      <4>3. Types'
        BY <1>1, <1>3, <3>4 DEF IndInv, Types, Ids, JobOK
      <4>4. ClickOK'
        <5>1. <<"report">> # <<"confirm">>
          OBVIOUS
        <5> QED
          BY <4>1, <5>1 DEF ClickOK
      <4> QED
        BY <1>1, <3>4, <4>2, <4>3, <4>4 DEF IndInv, Phases, Open, AbortOK,
           CancelledByUser, ReadyWhenEnabled, Ids, Unreported
    <3> QED
      BY <2>4, <3>3, <3>4 DEF RunPosted, NextPosted, Idle
  <2> QED
    BY <1>2, <1>8, <2>3, <2>4 DEF RunPosted, NextPosted
<1> QED
  BY <1>7, <1>8

LEMMA ReadReportInv == IndInv /\ ReadReport => IndInv'
<1> SUFFICES ASSUME IndInv, ReadReport PROVE IndInv'
  OBVIOUS
<1>1. UNCHANGED <<slot, window, abort, click, queue, jobs, retries, cancelled, erased>>
      /\ gui' = TRUE /\ label' = "Ready"
  BY DEF ReadReport, Idle, hardware, history
<1>2. ReportShown /\ window = "open" /\ dialogs' = << >>
  BY ClosingLast DEF ReadReport, IndInv
<1>3. Types'
  BY <1>1 DEF IndInv, Types, Ids, JobOK
<1>4. Phases'
  BY <1>1, <1>2 DEF Phases, Open, Enabled, ReportShown, NoneLeft, Ids
<1>5. ClickOK'
  <2>1. << >> # <<"confirm">>
    OBVIOUS
  <2> QED
    BY <1>2, <2>1 DEF ClickOK
<1> QED
  BY <1>1, <1>3, <1>4, <1>5 DEF IndInv, AbortOK, CancelledByUser, ReadyWhenEnabled,
                                Ids, Unreported

(* The answer goes to the thread that asked, which is the only one left.   *)
LEMMA AnswerInv == IndInv /\ Answer => IndInv'
<1> SUFFICES ASSUME IndInv, Answer PROVE IndInv'
  OBVIOUS
<1>0. Types /\ Phases /\ queue \in Seq(Posted) /\ jobs \in Seq(Job)
  BY DEF IndInv, Types
<1>1. UNCHANGED <<slot, window, gui, abort, label, click, erased>>
  BY DEF Answer, hardware
<1>2. PICK j \in Ids :
        /\ At(j, "asking")
        /\ \/ /\ jobs' = [jobs EXCEPT ![j].pc = "write", ![j].done = 0]
              /\ UNCHANGED <<queue, cancelled>>
           \/ Ends(j, "cancelled") /\ cancelled' = cancelled \cup {j}
  BY DEF Answer
<1>3. jobs[j].outcome = "none" /\ jobs[j].pc = "asking" /\ JobOK(jobs[j])
  BY <1>0, <1>2 DEF At, Types, JobOK, Writing
<1>4. \/ Closed /\ dialogs' = << >>
      \/ AskShown /\ window = "open" /\ dialogs' = << >>
  <2>1. CASE Closing("retry")
    BY <1>0, <2>1, ClosingLast
  <2>2. CASE window = "closed" /\ UNCHANGED dialogs
    BY <1>0, <2>2 DEF Phases, Open, Closed
  <2> QED
    BY <2>1, <2>2 DEF Answer
<1>5. Alone(j)
  BY <1>3, <1>4 DEF Closed, AskShown, Alone, Unreported, NoneLeft
<1>6. PICK job : /\ Becomes(j, job)
                 /\ \/ /\ job.outcome = "none" /\ job.pc # "asking"
                       /\ queue' = queue /\ cancelled' = cancelled
                    \/ /\ job.outcome = "cancelled"
                       /\ Posts("report") /\ cancelled' = cancelled \cup {j}
  <2>1. CASE /\ jobs' = [jobs EXCEPT ![j].pc = "write", ![j].done = 0]
             /\ UNCHANGED <<queue, cancelled>>
    <3> DEFINE job == [jobs[j] EXCEPT !.pc = "write", !.done = 0]
    <3>1. jobs' = [jobs EXCEPT ![j] = job]
      BY <2>1
    <3>2. JobOK(job) /\ job.outcome = "none" /\ job.pc # "asking"
      <4>1. 0 \in 0 .. Chunks + WriteOps
        BY FlashWindowAssumption
      <4> QED
        BY <1>3, <4>1 DEF JobOK, Job, Writing
    <3> QED
      BY <2>1, <3>1, <3>2 DEF Becomes
  <2>2. CASE Ends(j, "cancelled") /\ cancelled' = cancelled \cup {j}
    BY <1>0, <2>2, EndsReports DEF Outcomes
  <2> QED
    BY <1>2, <2>1, <2>2
<1>7. jobs' \in Seq(Job) /\ Ids' = Ids /\ jobs'[j] = job
      /\ \A i \in Ids : i # j => jobs'[i] = jobs[i]
  BY <1>0, <1>6, BecomesChanges
<1>8. queue' \in Seq(Posted)
  BY <1>0, <1>6, PostsAppends DEF Posts
<1>9. Types'
  BY <1>0, <1>1, <1>6, <1>8, BecomesTyped
<1>10. \A i \in Ids : i # j => jobs'[i].outcome # "none"
  BY <1>5, <1>7 DEF Alone, Unreported
<1>11. Phases'
  <2>1. CASE job.outcome = "none"
    <3>1. Alone(j)' /\ jobs'[j].pc # "asking" /\ j \in Ids' /\ queue' = queue
      BY <1>6, <1>7, <1>10, <2>1 DEF Alone, Unreported
    <3>2. ASSUME AskShown PROVE Running'
      BY <1>1, <1>4, <3>1, <3>2 DEF AskShown, Running, Quiet
    <3>3. ASSUME Closed PROVE Closed'
      BY <1>1, <1>4, <3>1, <3>3 DEF Closed
    <3> QED
      BY <1>1, <1>4, <3>2, <3>3 DEF Phases, Open
  <2>2. CASE job.outcome = "cancelled"
    <3>1. NoneLeft' /\ Posts("report")
      BY <1>6, <1>7, <1>10, <2>2 DEF NoneLeft
    <3>2. ASSUME AskShown, window = "open" PROVE ReportPosted'
      <4>1. queue = << >> /\ ~gui
        BY <3>2 DEF AskShown
      <4>2. PostedLast("report")'
        BY <1>0, <3>1, <3>2, <4>1, PostsAppends DEF PostedLast, Quiet
      <4>3. dialogs' = << >> /\ ~gui'
        BY <1>1, <1>4, <4>1
      <4> QED
        BY <3>1, <4>2, <4>3 DEF ReportPosted
    <3>3. ASSUME Closed PROVE Closed'
      <4>1. window = "closed" /\ queue = << >> /\ dialogs' = << >>
        BY <1>4, <3>3 DEF Closed
      <4>2. queue' = queue
        BY <3>1, <4>1 DEF Posts
      <4> QED
        BY <1>1, <3>1, <4>1, <4>2 DEF Closed
    <3> QED
      BY <1>1, <1>4, <3>2, <3>3 DEF Phases, Open
  <2> QED
    BY <1>6, <2>1, <2>2
<1>12. ClickOK'
  <2>1. << >> # <<"confirm">>
    OBVIOUS
  <2> QED
    BY <1>4, <2>1 DEF ClickOK
<1>13. AbortOK'
  <2>1. Unreported' \subseteq Unreported /\ cancelled \subseteq cancelled'
    BY <1>3, <1>6, <1>7 DEF Unreported
  <2> QED
    BY <1>1, <2>1 DEF IndInv, AbortOK
<1>14. CancelledByUser'
  BY <1>6, <1>7 DEF IndInv, CancelledByUser
<1> QED
  BY <1>1, <1>9, <1>11, <1>12, <1>13, <1>14 DEF IndInv, ReadyWhenEnabled

LEMMA StepInv == IndInv /\ [Next]_vars => IndInv'
<1> SUFFICES ASSUME IndInv, [Next]_vars PROVE IndInv'
  OBVIOUS
<1>1. CASE Exchange
  BY <1>1, ExchangeInv
<1>2. CASE ClickWrite
  BY <1>2, ClickWriteInv
<1>3. CASE Dismiss
  BY <1>3, DismissInv
<1>4. CASE Start
  BY <1>4, StartInv
<1>5. CASE ClickCancel
  BY <1>5, ClickCancelInv
<1>6. CASE Close
  BY <1>6, CloseInv
<1>7. CASE RunPosted
  BY <1>7, RunPostedInv
<1>8. CASE ReadReport
  BY <1>8, ReadReportInv
<1>9. CASE Answer
  BY <1>9, AnswerInv
<1>10. CASE \E j \in Ids : Worker(j)
  BY <1>10, WorkerInv
<1>11. CASE UNCHANGED vars
  <2>1. UNCHANGED <<slot, window, gui, abort, label, dialogs, click, queue, jobs, retries,
                    cancelled, erased>>
    BY <1>11 DEF vars, hardware, history
  <2>2. Types'
    BY <2>1 DEF IndInv, Types, Ids, JobOK
  <2>3. Phases'
    BY <2>1 DEF IndInv, Phases, Open, Closed, Enabled, Running, AskPosted, AskShown, ReportPosted,
                ReportShown, NoneLeft, Alone, Unreported, Ids, PostedLast, Quiet
  <2> QED
    BY <2>1, <2>2, <2>3 DEF IndInv, ClickOK, AbortOK, CancelledByUser, ReadyWhenEnabled,
                            Ids, Unreported
<1> QED
  BY <1>1, <1>2, <1>3, <1>4, <1>5, <1>6, <1>7, <1>8, <1>9, <1>10, <1>11 DEF Next

LEMMA Invariance == Spec => []IndInv
BY InitInv, StepInv, PTL DEF Spec

(* The threads of all jobs stay within their code, and a job has an        *)
(* outcome exactly when its thread is past ReportCompletion.               *)
THEOREM Typed == Spec => []TypeOK
<1>1. IndInv => TypeOK
  BY DEF IndInv, Types, JobOK, Job, Outcomes, TypeOK
<1> QED
  BY <1>1, Invariance, PTL

(* However the threads of earlier jobs linger, at most one thread may      *)
(* still clean or write a disk.                                            *)
THEOREM OneWriterOnly == Spec => []OneWriter
<1>1. ASSUME IndInv PROVE OneWriter
  <2>1. Writers = Unreported
    BY <1>1 DEF IndInv, Types, JobOK, Writers, Unreported
  <2>2. Unreported = {} \/ \E j \in Ids : Unreported = {j}
    BY <1>1 DEF IndInv, Phases, Open, Closed, Enabled, Running, AskPosted, AskShown, ReportPosted,
                ReportShown, NoneLeft, Alone, Unreported
  <2>3. Cardinality(Writers) \in {0, 1}
    BY <2>1, <2>2, FS_EmptySet, FS_Singleton
  <2> QED
    BY <2>3 DEF OneWriter
<1> QED
  BY <1>1, Invariance, PTL

(* A delegate that the message loop of a dialog runs never opens another   *)
(* dialog on top of it.                                                    *)
THEOREM NoNestedDialogs == Spec => []DialogsDoNotNest
<1>1. ASSUME IndInv PROVE DialogsDoNotNest
  <2>1. dialogs \in {<< >>, <<"error">>, <<"confirm">>, <<"retry">>, <<"report">>}
    BY <1>1 DEF IndInv, Phases, Open, Closed, Enabled, Running, AskPosted, AskShown, ReportPosted,
                ReportShown
  <2>2. Len(<< >>) <= 1 /\ \A d : Len(<<d>>) <= 1
    OBVIOUS
  <2> QED
    BY <2>1, <2>2, Zenon DEF DialogsDoNotNest
<1> QED
  BY <1>1, Invariance, PTL

(* A job ends as cancelled only if the user cancelled this very job.       *)
THEOREM CancelReachesItsJob == Spec => []CancelledByUser
<1>1. IndInv => CancelledByUser
  BY DEF IndInv
<1> QED
  BY <1>1, Invariance, PTL

(* The progress of a job never arrives after its report: a window that can *)
(* be used says "Ready".                                                   *)
THEOREM EnabledIsReady == Spec => []ReadyWhenEnabled
<1>1. IndInv => ReadyWhenEnabled
  BY DEF IndInv
<1> QED
  BY <1>1, Invariance, PTL

=============================================================================
