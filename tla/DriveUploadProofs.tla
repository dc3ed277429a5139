-------------------------- MODULE DriveUploadProofs --------------------------
(***************************************************************************)
(* Proofs about DriveUpload, for any number of requests, cleanups and      *)
(* workers, any attempts, and any mishaps.                                 *)
(*                                                                         *)
(* Why only clean files are published: what lets a malformed file pass the *)
(* checks, or an infected one the scan, is never in a handler's hands.     *)
(* Why a verdict stands: the graph is stored once, so the job is queued    *)
(* once, and while no lock is lost and no cleanup is near, whoever is      *)
(* about to decide is alone and the version is undecided.                  *)
(***************************************************************************)
EXTENDS DriveUpload, TLAPS

-----------------------------------------------------------------------------
Shapes ==
    /\ upload \in SessionStatus /\ version \in VersionStatus
    /\ due \in BOOLEAN /\ object \in BOOLEAN
    /\ parts \in {"open", "completed", "aborted"}
    /\ content \in Content
    /\ proc \in [Process -> [pc : Step, read : SessionStatus]]
    /\ job \in Job /\ scan \in [Worker -> Scan]
    /\ mishaps \subseteq Mishap

\* The multipart upload is completed before anything is made of it.
Completed ==
    parts # "completed" =>
        /\ ~object /\ version = "none" /\ job.state = "none"
        /\ \A p \in Process : proc[p].pc \in {"idle", "signing", "completing", "refusing",
                "discarding", "aborting", "erasing", "expiring"}
        /\ \A w \in Worker : scan[w].pc = "idle"

\* Who stored the graph, until the job is queued or given up.
Holds(p) == proc[p].pc \in {"enqueueing", "failing", "failed"}

\* The graph is stored once and the job queued once; a job that is queued or
\* taken has an attempt left.
QueuedOnce ==
    /\ \A p, q \in Process : Holds(p) /\ Holds(q) => p = q
    /\ \A p \in Process : proc[p].pc = "enqueueing" => job.state = "none"
    /\ version = "none" =>
         /\ job.state = "none"
         /\ \A p \in Process : ~Holds(p)
    /\ job.state \in {"none", "waiting", "active"} => job.made < Attempts
    /\ job.state = "active" <=> job.owner # None
    /\ job.state = "none" => \A w \in Worker : scan[w].pc = "idle"

Past == {"storing", "enqueueing", "failing", "failed"}

\* A malformed file is stopped by the checks, an infected one by the scan.
Screened ==
    /\ content = "malformed" =>
         /\ version = "none" /\ job.state = "none"
         /\ \A p \in Process : proc[p].pc \notin Past
         /\ \A w \in Worker : scan[w].pc = "idle"
    /\ content = "infected" =>
         /\ version # "ACTIVE"
         /\ \A w \in Worker : scan[w].pc \in {"rechecking", "storing"} => ~scan[w].clean

UploadInv == Shapes /\ Completed /\ QueuedOnce /\ Screened

-----------------------------------------------------------------------------
(* What a step of a handler, or of a worker, may do to the invariant *)

\* The states in which nothing has been made of the upload.
Early == {"idle", "signing", "completing", "refusing", "discarding", "aborting", "erasing",
          "expiring"}

LEMMA ProcessStep ==
    ASSUME UploadInv, NEW p \in Process, NEW s \in [pc : Step, read : SessionStatus],
           proc' = [proc EXCEPT ![p] = s],
           UNCHANGED <<content, job, scan>>,
           upload' \in SessionStatus, due' \in BOOLEAN, object' \in BOOLEAN,
           parts' \in {"open", "completed", "aborted"}, mishaps' \subseteq Mishap,
           parts = "completed" => parts' = "completed",
           object' => parts' = "completed",
           version' = version \/ (version # "none" /\ version' = "REJECTED"),
           s.pc \in Early \/ parts' = "completed",
           s.pc \in {"enqueueing", "failing", "failed"} => Holds(p) /\ s.pc # "enqueueing",
           s.pc = "storing" => content # "malformed"
    PROVE  UploadInv'
<1>1. /\ proc' \in [Process -> [pc : Step, read : SessionStatus]]
      /\ proc'[p] = s
      /\ \A q \in Process : q # p => proc'[q] = proc[q]
  BY DEF UploadInv, Shapes
<1>2. Shapes'
  BY <1>1 DEF UploadInv, Shapes, VersionStatus
<1>3. Completed'
  BY <1>1 DEF UploadInv, Completed, Early
<1>4. QueuedOnce'
  <2>1. \A q \in Process : Holds(q)' => Holds(q)
    BY <1>1 DEF Holds
  <2>2. \A q \in Process : proc'[q].pc = "enqueueing" => proc[q].pc = "enqueueing"
    BY <1>1
  <2> QED BY <2>1, <2>2 DEF UploadInv, QueuedOnce
<1>5. Screened'
  BY <1>1 DEF UploadInv, Screened, Past, Holds
<1> QED BY <1>2, <1>3, <1>4, <1>5 DEF UploadInv

LEMMA WorkerStep ==
    ASSUME UploadInv, NEW w \in Worker, NEW s \in Scan,
           scan' = [scan EXCEPT ![w] = s],
           UNCHANGED <<content, proc, parts, object, due>>,
           upload' \in SessionStatus, mishaps' \subseteq Mishap,
           job.state # "none", job' \in Job, job'.state # "none",
           job'.state \in {"waiting", "active"} => job'.made < Attempts,
           job'.state = "active" <=> job'.owner # None,
           version' = version \/ version' \in {"ACTIVE", "REJECTED"},
           content = "infected" =>
             /\ version' # "ACTIVE"
             /\ s.pc \in {"rechecking", "storing"} => ~s.clean
    PROVE  UploadInv'
<1>1. scan' \in [Worker -> Scan] /\ scan'[w] = s /\ \A v \in Worker : v # w => scan'[v] = scan[v]
  BY DEF UploadInv, Shapes
<1>2. version # "none" /\ parts = "completed" /\ content # "malformed" /\ version' # "none"
  BY DEF UploadInv, Completed, QueuedOnce, Screened
<1>3. Shapes'
  BY <1>1 DEF UploadInv, Shapes, VersionStatus
<1>4. Completed'
  BY <1>2 DEF Completed
<1>5. QueuedOnce'
  <2>1. job'.state = "none" => FALSE
    OBVIOUS
  <2>2. \A q \in Process : proc[q].pc # "enqueueing"
    BY DEF UploadInv, QueuedOnce
  <2> QED BY <1>2, <2>1, <2>2 DEF UploadInv, QueuedOnce, Holds
<1>6. Screened'
  BY <1>1, <1>2 DEF UploadInv, Screened
<1> QED BY <1>3, <1>4, <1>5, <1>6 DEF UploadInv

-----------------------------------------------------------------------------
(* Steps of handlers *)

\* Moving is giving a process another record.
LEMMA Moves ==
    ASSUME Shapes, NEW p \in Process, NEW pc \in Step
    PROVE  /\ [proc[p] EXCEPT !.pc = pc] \in [pc : Step, read : SessionStatus]
           /\ [proc[p] EXCEPT !.pc = pc].pc = pc
           /\ Goto(p, pc) <=> proc' = [proc EXCEPT ![p] = [proc[p] EXCEPT !.pc = pc]]
BY DEF Shapes, Goto

LEMMA Finishes ==
    ASSUME NEW p \in Process
    PROVE  /\ [pc |-> "idle", read |-> "CREATED"] \in [pc : Step, read : SessionStatus]
           /\ Done(p) <=> proc' = [proc EXCEPT ![p] = [pc |-> "idle", read |-> "CREATED"]]
BY DEF Done, Step, SessionStatus

LEMMA Recorded ==
    ASSUME NEW kinds, Suffer(kinds), Shapes
    PROVE  mishaps \subseteq mishaps' /\ mishaps' \subseteq Mishap /\ kinds \subseteq mishaps'
BY UploadAssumption DEF Suffer, Recordable, Shapes

LEMMA Begins ==
    ASSUME UploadInv, NEW p \in Process, NEW pc \in {"signing", "completing", "aborting"},
           NEW other, Begin(p, pc, other),
           UNCHANGED <<uploadRows, bucket, due, content, queue>>
    PROVE  UploadInv'
<1> DEFINE s == [pc |-> pc, read |-> upload]
<1>1. s \in [pc : Step, read : SessionStatus] /\ s.pc \in Early
      /\ s.pc \notin {"enqueueing", "failing", "failed", "storing"}
  BY DEF UploadInv, Shapes, Step, Early
<1>2. proc' = [proc EXCEPT ![p] = s] /\ mishaps' \subseteq Mishap
  BY Recorded DEF Begin, UploadInv
<1>3. object => parts = "completed"
  BY DEF UploadInv, Completed
<1> HIDE DEF s
<1> QED BY <1>1, <1>2, <1>3, ProcessStep DEF UploadInv, Shapes, uploadRows, bucket, queue

\* A step that only moves a process, and may set the session's status and
\* delete the object.
LEMMA Moved ==
    ASSUME UploadInv, NEW p \in Process, NEW pc \in Step, Goto(p, pc),
           UNCHANGED <<version, parts, due, content, queue>>,
           upload' \in SessionStatus, object' \in BOOLEAN, object' => object, mishaps' \subseteq Mishap,
           pc \in Early \/ parts = "completed",
           pc \in {"enqueueing", "failing", "failed"} => Holds(p) /\ pc # "enqueueing",
           pc = "storing" => content # "malformed"
    PROVE  UploadInv'
<1> DEFINE s == [proc[p] EXCEPT !.pc = pc]
<1>1. /\ s \in [pc : Step, read : SessionStatus] /\ s.pc = pc
      /\ proc' = [proc EXCEPT ![p] = s]
  BY Moves DEF UploadInv
<1>2. object => parts = "completed"
  BY DEF UploadInv, Completed
<1> HIDE DEF s
<1>3. UNCHANGED <<content, job, scan>> /\ parts' = parts /\ due' = due
  BY DEF queue
<1>5. due' \in BOOLEAN
  BY <1>3 DEF UploadInv, Shapes
<1>6. parts \in {"open", "completed", "aborted"}
  BY DEF UploadInv, Shapes
<1>7. object' => parts' = "completed"
  BY <1>2, <1>3
<1> QED BY <1>1, <1>3, <1>5, <1>6, <1>7, ProcessStep

LEMMA Finished ==
    ASSUME UploadInv, NEW p \in Process, Done(p),
           UNCHANGED <<parts, due, content, queue>>,
           upload' \in SessionStatus, object' \in BOOLEAN, object' => object, mishaps' \subseteq Mishap,
           version' = version \/ (version # "none" /\ version' = "REJECTED")
    PROVE  UploadInv'
<1> DEFINE s == [pc |-> "idle", read |-> "CREATED"]
<1>1. s \in [pc : Step, read : SessionStatus] /\ proc' = [proc EXCEPT ![p] = s]
      /\ s.pc = "idle"
  BY Finishes
<1>2. object => parts = "completed"
  BY DEF UploadInv, Completed
<1> HIDE DEF s
<1>3. UNCHANGED <<content, job, scan>> /\ parts' = parts /\ due' = due
  BY DEF queue
<1>5. due' \in BOOLEAN
  BY <1>3 DEF UploadInv, Shapes
<1>6. parts \in {"open", "completed", "aborted"}
  BY DEF UploadInv, Shapes
<1>7. object' => parts' = "completed"
  BY <1>2, <1>3
<1>4. s.pc \in Early /\ s.pc \notin {"enqueueing", "failing", "failed", "storing"}
  BY <1>1 DEF Early
<1> QED BY <1>1, <1>3, <1>4, <1>5, <1>6, <1>7, ProcessStep

\* Past the completion of the multipart upload.
LEMMA Late ==
    ASSUME UploadInv, NEW p \in Process, proc[p].pc \notin Early
    PROVE  parts = "completed"
BY DEF UploadInv, Completed, Early

LEMMA Unchanged ==
    ASSUME UploadInv
    PROVE  /\ UNCHANGED uploadRows => upload' \in SessionStatus
           /\ UNCHANGED bucket => object' \in BOOLEAN /\ (object' => object) /\ parts' = parts
           /\ UNCHANGED mishaps => mishaps' \subseteq Mishap
BY DEF UploadInv, Shapes, uploadRows, bucket

LEMMA Deleting ==
    ASSUME UploadInv, DeleteOrNot
    PROVE  /\ object' \in BOOLEAN /\ (object' => object)
           /\ mishaps' \subseteq Mishap /\ mishaps \subseteq mishaps'
<1>0. mishaps \subseteq Mishap /\ object \in BOOLEAN /\ Shapes
  BY DEF UploadInv, Shapes
<1>1. CASE object' = FALSE /\ UNCHANGED mishaps
  BY <1>0, <1>1
<1>2. CASE UNCHANGED object /\ Suffer({"undeleted"})
  <2>1. mishaps \subseteq mishaps' /\ mishaps' \subseteq Mishap
    BY <1>0, <1>2, Recorded
  <2> QED BY <1>0, <1>2, <2>1
<1> QED BY <1>1, <1>2 DEF DeleteOrNot

LEMMA RequestKeeps ==
    ASSUME UploadInv, NEW r \in Request, RequestStep(r)
    PROVE  UploadInv'
<1> USE DEF At
<1>0. r \in Process
  BY DEF Process
<1>1. CASE SignMark(r)
  BY <1>0, <1>1, Finished, Unchanged DEF SignMark, SessionStatus, bucket
<1>2. CASE ProviderComplete(r)
  <2>1. CASE /\ parts = "open"
             /\ parts' = "completed" /\ object' = TRUE
             /\ \E pc \in {"verifying", "refusing"} : Goto(r, pc)
    <3>1. PICK pc \in {"verifying", "refusing"} : Goto(r, pc)
      BY <2>1
    <3> DEFINE s == [proc[r] EXCEPT !.pc = pc]
    <3>0. pc \in Step
      BY DEF Step
    <3>2. /\ s \in [pc : Step, read : SessionStatus] /\ s.pc = pc
          /\ proc' = [proc EXCEPT ![r] = s]
      BY <1>0, <3>0, <3>1, Moves DEF UploadInv
    <3>3. UNCHANGED <<upload, version, due, content, job, scan, mishaps>>
      BY <1>2 DEF ProviderComplete, uploadRows, queue
    <3> HIDE DEF s
    <3> QED BY <1>0, <2>1, <3>2, <3>3, ProcessStep DEF UploadInv, Shapes
  <2>2. CASE Goto(r, "refusing") /\ UNCHANGED bucket
    BY <1>0, <1>2, <2>2, Moved, Unchanged DEF ProviderComplete, uploadRows, Step, Early
  <2> QED BY <1>2, <2>1, <2>2 DEF ProviderComplete
<1>3. CASE MarkVerifying(r)
  BY <1>0, <1>3, Moved, Late, Unchanged DEF MarkVerifying, bucket, Step, Early, SessionStatus
<1>4. CASE CheckObject(r)
  BY <1>0, <1>4, Moved, Late, Unchanged DEF CheckObject, bucket, uploadRows, Step, Early
<1>5. CASE StoreGraph(r)
  <2>1. /\ proc[r].pc = "storing" /\ version = "none"
        /\ UNCHANGED <<parts, object, due, content, job, scan>>
        /\ upload' = version'
        /\ version' = IF content = "exempt" THEN "ACTIVE" ELSE "VERIFYING"
        /\ \/ /\ IF content = "exempt" THEN Done(r) ELSE Goto(r, "enqueueing")
              /\ UNCHANGED mishaps
           \/ Goto(r, "rejecting") /\ Suffer({"lost commit"})
    BY <1>5 DEF StoreGraph, bucket, queue
  <2>2. parts = "completed" /\ content # "malformed" /\ job.state = "none"
        /\ \A q \in Process : ~Holds(q)
    BY <1>0, <2>1, Late DEF UploadInv, Screened, QueuedOnce, Past, Early
  <2>3. /\ proc' \in [Process -> [pc : Step, read : SessionStatus]]
        /\ \A q \in Process : q # r => proc'[q] = proc[q]
        /\ proc'[r].pc \in {"idle", "enqueueing", "rejecting"}
    <3>1. {"enqueueing", "rejecting"} \subseteq Step
      BY DEF Step
    <3>2. Shapes
      BY DEF UploadInv
    <3>3. CASE Done(r)
      BY <1>0, <3>2, <3>3 DEF Shapes, Done, Step, SessionStatus
    <3>4. CASE \E pc \in {"enqueueing", "rejecting"} : Goto(r, pc)
      BY <1>0, <3>1, <3>2, <3>4 DEF Shapes, Goto
    <3> QED BY <2>1, <3>3, <3>4
  <2>8. mishaps' \subseteq Mishap
    BY <2>1, Recorded DEF UploadInv, Shapes
  <2>4. Shapes'
    BY <2>1, <2>3, <2>8 DEF UploadInv, Shapes, VersionStatus, SessionStatus
  <2>5. Completed'
    BY <2>1, <2>2 DEF Completed
  <2>6. QueuedOnce'
    <3>1. \A q \in Process : Holds(q)' => q = r
      BY <2>2, <2>3 DEF Holds
    <3>2. version' # "none"
      BY <2>1
    <3> QED BY <2>1, <2>2, <3>1, <3>2 DEF UploadInv, QueuedOnce
  <2>7. Screened'
    BY <2>1, <2>2 DEF UploadInv, Screened
  <2> QED BY <2>4, <2>5, <2>6, <2>7 DEF UploadInv
<1>6. CASE Enqueue(r)
  <2>1. /\ proc[r].pc = "enqueueing" /\ job' = [job EXCEPT !.state = "waiting"]
        /\ UNCHANGED <<upload, version, parts, object, due, content, scan>>
        /\ \/ Done(r) /\ UNCHANGED mishaps
           \/ Goto(r, "failing") /\ Suffer({"late job"})
    BY <1>6 DEF Enqueue, bucket, uploadRows, Done, Goto, Suffer
  <2>2. job.state = "none" /\ version # "none" /\ Holds(r)
    BY <1>0, <2>1 DEF UploadInv, QueuedOnce, Holds
  <2>3. parts = "completed" /\ content # "malformed"
    BY <1>0, <2>1, Late DEF UploadInv, Screened, Past, Early
  <2>4. /\ proc' \in [Process -> [pc : Step, read : SessionStatus]]
        /\ \A q \in Process : q # r => proc'[q] = proc[q]
        /\ proc'[r].pc \in {"idle", "failing"}
    <3>1. "failing" \in Step
      BY DEF Step
    <3>2. PICK s \in [pc : Step, read : SessionStatus] :
            proc' = [proc EXCEPT ![r] = s] /\ s.pc \in {"idle", "failing"}
      <4>1. CASE Done(r)
        BY <1>0, <4>1, Finishes
      <4>2. CASE Goto(r, "failing")
        BY <1>0, <3>1, <4>2, Moves DEF UploadInv
      <4> QED BY <2>1, <4>1, <4>2
    <3> QED BY <1>0, <3>2 DEF UploadInv, Shapes
  <2>5. /\ job' \in Job /\ job'.state = "waiting" /\ job'.made = job.made
        /\ job'.owner = job.owner /\ job.owner = None /\ job.made < Attempts
    BY <2>1, <2>2 DEF UploadInv, Shapes, QueuedOnce, Job
  <2>6. mishaps' \subseteq Mishap
    BY <2>1, Recorded DEF UploadInv, Shapes
  <2>7. Shapes'
    BY <2>1, <2>4, <2>5, <2>6 DEF UploadInv, Shapes
  <2>8. Completed'
    BY <2>1, <2>3 DEF Completed
  <2>9. QueuedOnce'
    <3>1. \A q \in Process : Holds(q)' => Holds(q)
      BY <2>2, <2>4 DEF Holds
    <3>2. \A q \in Process : proc'[q].pc # "enqueueing"
      BY <1>0, <2>1, <2>2, <2>4 DEF UploadInv, QueuedOnce, Holds
    <3> QED BY <2>1, <2>2, <2>5, <3>1, <3>2 DEF UploadInv, QueuedOnce
  <2>10. Screened'
    BY <2>1, <2>3 DEF UploadInv, Screened
  <2> QED BY <2>7, <2>8, <2>9, <2>10 DEF UploadInv
<1>7. CASE Fail(r)
  BY <1>0, <1>7, Moved, Late, Unchanged DEF Fail, bucket, uploadRows, Step, Early, Holds
<1>8. CASE MarkRejected(r)
  <2>1. CASE proc[r].pc = "rejecting"
    BY <1>0, <1>8, <2>1, Moved, Late, Unchanged
      DEF MarkRejected, bucket, Step, Early, SessionStatus
  <2>2. CASE proc[r].pc = "refusing"
    BY <1>0, <1>8, <2>2, Finished, Unchanged DEF MarkRejected, bucket, SessionStatus
  <2> QED BY <1>8, <2>1, <2>2 DEF MarkRejected
<1>9. CASE DeleteRejected(r)
  BY <1>0, <1>9, Finished, Deleting, Unchanged DEF DeleteRejected, uploadRows
<1>10. CASE FindVerifying(r)
  <2>1. CASE version = "VERIFYING"
    BY <1>0, <1>10, <2>1, Moved, Late, Unchanged
      DEF FindVerifying, bucket, uploadRows, Step, Early, Holds
  <2>2. CASE version # "VERIFYING"
    BY <1>0, <1>10, <2>2, Finished, Unchanged DEF FindVerifying, bucket, uploadRows
  <2> QED BY <2>1, <2>2
<1>11. CASE RejectFailed(r)
  <2>1. version # "none"
    BY <1>0, <1>11 DEF RejectFailed, UploadInv, QueuedOnce, Holds
  <2>2. upload' \in SessionStatus /\ version' = "REJECTED"
    BY <1>11 DEF RejectFailed, Failed, UploadInv, Shapes, SessionStatus
  <2> QED BY <1>0, <1>11, <2>1, <2>2, Finished, Unchanged DEF RejectFailed, bucket
<1> QED BY <1>1, <1>2, <1>3, <1>4, <1>5, <1>6, <1>7, <1>8, <1>9, <1>10, <1>11 DEF RequestStep

LEMMA EndingKeeps ==
    ASSUME UploadInv, NEW p \in Process, Ending(p)
    PROVE  UploadInv'
<1> USE DEF At
<1>1. CASE AbortMultipart(p)
  <2>1. PICK pc \in {"erasing", "discarding", "expiring"} : Goto(p, pc)
    BY <1>1 DEF AbortMultipart
  <2> DEFINE s == [proc[p] EXCEPT !.pc = pc]
  <2>0. pc \in Step
    BY DEF Step
  <2>2. /\ s \in [pc : Step, read : SessionStatus] /\ s.pc = pc
        /\ proc' = [proc EXCEPT ![p] = s]
    BY <2>0, <2>1, Moves DEF UploadInv
  <2>3. UNCHANGED <<upload, version, object, due, content, job, scan, mishaps>>
        /\ \/ parts = "open" /\ parts' = "aborted"
           \/ UNCHANGED parts
    BY <1>1 DEF AbortMultipart, uploadRows, queue
  <2>4. object => parts = "completed"
    BY DEF UploadInv, Completed
  <2> HIDE DEF s
  <2> QED BY <2>2, <2>3, <2>4, ProcessStep DEF UploadInv, Shapes, Early
<1>2. CASE Erase(p)
  BY <1>2, Moved, Deleting, Unchanged DEF Erase, uploadRows, Step, Early
<1>3. CASE MarkExpired(p)
  BY <1>3, Finished, Unchanged DEF MarkExpired, bucket, SessionStatus
<1> QED BY <1>1, <1>2, <1>3 DEF Ending

LEMMA CleanKeeps ==
    ASSUME UploadInv, NEW c \in Cleaner, CleanStep(c)
    PROVE  UploadInv'
<1>0. c \in Process
  BY DEF Process
<1>1. CASE CleanRead(c)
  BY <1>0, <1>1, Begins DEF CleanRead
<1>2. CASE RejectVersions(c)
  <2> DEFINE s == [proc[c] EXCEPT !.pc = "erasing"]
  <2>1. /\ s \in [pc : Step, read : SessionStatus] /\ s.pc = "erasing"
        /\ proc' = [proc EXCEPT ![c] = s]
    BY <1>0, <1>2, Moves DEF RejectVersions, UploadInv, Step
  <2>2. UNCHANGED <<upload, parts, object, due, content, job, scan, mishaps>>
        /\ (version' = version \/ (version # "none" /\ version' = "REJECTED"))
    BY <1>2 DEF RejectVersions, bucket, queue
  <2>3. object => parts = "completed"
    BY DEF UploadInv, Completed
  <2> HIDE DEF s
  <2> QED BY <1>0, <2>1, <2>2, <2>3, ProcessStep DEF UploadInv, Shapes, Early
<1>3. CASE Ending(c)
  BY <1>0, <1>3, EndingKeeps
<1> QED BY <1>1, <1>2, <1>3 DEF CleanStep
-----------------------------------------------------------------------------
(* Steps of workers *)

\* What is known while a worker runs, or a job waits.
LEMMA JobThere ==
    ASSUME UploadInv, NEW w \in Worker, scan[w].pc # "idle"
    PROVE  job.state # "none"
BY DEF UploadInv, QueuedOnce

LEMMA Ended ==
    ASSUME UploadInv, NEW w \in Worker, EndJob(w), scan[w].pc # "idle"
    PROVE  /\ NoScan \in Scan /\ NoScan.pc = "idle"
           /\ scan' = [scan EXCEPT ![w] = NoScan]
           /\ job' \in Job /\ job'.state # "none"
           /\ job'.state \in {"waiting", "active"} => job'.made < Attempts
           /\ job'.state = "active" <=> job'.owner # None
<1>1. NoScan \in Scan /\ NoScan.pc = "idle" /\ scan' = [scan EXCEPT ![w] = NoScan]
  BY DEF NoScan, Scan, EndJob
<1>2. job \in Job /\ job.state # "none"
  BY JobThere DEF UploadInv, Shapes
<1>3. CASE job.owner = w
  <2>1. job' = [job EXCEPT !.state = "done", !.owner = None]
    BY <1>3 DEF EndJob
  <2>2. job' \in Job /\ job'.state = "done" /\ job'.owner = None
    BY <1>2, <2>1 DEF Job
  <2> QED BY <1>1, <2>2
<1>4. CASE job.owner # w
  <2>1. job' = job
    BY <1>4 DEF EndJob
  <2> QED BY <1>1, <1>2, <2>1 DEF UploadInv, QueuedOnce
<1> QED BY <1>3, <1>4

\* A worker that only goes on.
LEMMA GoesOn ==
    ASSUME UploadInv, NEW w \in Worker, NEW s \in Scan,
           scan' = [scan EXCEPT ![w] = s], scan[w].pc # "idle",
           UNCHANGED <<uploadRows, bucket, due, content, proc, job, mishaps>>,
           content = "infected" /\ s.pc \in {"rechecking", "storing"} => ~s.clean
    PROVE  UploadInv'
<1>1. UNCHANGED <<content, proc, parts, object, due>>
      /\ version' = version /\ upload' = upload /\ mishaps' = mishaps /\ job' = job
  BY DEF uploadRows, bucket
<1>2. upload' \in SessionStatus /\ mishaps' \subseteq Mishap /\ job' \in Job
  BY <1>1 DEF UploadInv, Shapes
<1>3. job.state # "none" /\ job'.state # "none"
  BY <1>1, JobThere
<1>4. /\ job'.state \in {"waiting", "active"} => job'.made < Attempts
      /\ job'.state = "active" <=> job'.owner # None
  BY <1>1 DEF UploadInv, QueuedOnce
<1>5. content = "infected" => version' # "ACTIVE"
  BY <1>1 DEF UploadInv, Screened
<1> QED BY <1>1, <1>2, <1>3, <1>4, <1>5, WorkerStep

LEMMA EndsJob ==
    ASSUME UploadInv, NEW w \in Worker, EndJob(w), scan[w].pc # "idle",
           UNCHANGED <<uploadRows, bucket, due, content, proc, mishaps>>
    PROVE  UploadInv'
<1>1. UNCHANGED <<content, proc, parts, object, due>>
      /\ version' = version /\ upload' = upload /\ mishaps' = mishaps
  BY DEF uploadRows, bucket
<1>2. upload' \in SessionStatus /\ mishaps' \subseteq Mishap
  BY <1>1 DEF UploadInv, Shapes
<1>3. content = "infected" => version' # "ACTIVE"
  BY <1>1 DEF UploadInv, Screened
<1> QED BY <1>1, <1>2, <1>3, JobThere, Ended, WorkerStep

\* A scan's record after a step.
LEMMA ScanRecord ==
    ASSUME Shapes, NEW w \in Worker,
           NEW pc \in {"scanning", "finding", "rechecking", "storing", "unheard", "failing",
                       "failed"}
    PROVE  /\ [scan[w] EXCEPT !.pc = pc] \in Scan
           /\ [scan[w] EXCEPT !.pc = pc].pc = pc
           /\ [scan[w] EXCEPT !.pc = pc].clean = scan[w].clean
           /\ [scan EXCEPT ![w].pc = pc] = [scan EXCEPT ![w] = [scan[w] EXCEPT !.pc = pc]]
BY DEF Shapes, Scan

LEMMA ScanKeeps ==
    ASSUME UploadInv, NEW w \in Worker, ScanStep(w)
    PROVE  UploadInv'
<1>0. Shapes /\ scan[w] \in Scan /\ job \in Job
  BY DEF UploadInv, Shapes
<1>1. CASE TakeJob(w)
  <2> DEFINE s == [scan[w] EXCEPT !.pc = "finding"]
  <2>1. s \in Scan /\ s.pc = "finding" /\ scan' = [scan EXCEPT ![w] = s]
    BY <1>0, <1>1, ScanRecord DEF TakeJob
  <2>2. job.state = "waiting" /\ job' = [job EXCEPT !.state = "active", !.owner = w]
    BY <1>1 DEF TakeJob
  <2>3. job' \in Job /\ job'.state = "active" /\ job'.owner = w /\ job'.made = job.made
    BY <1>0, <2>2 DEF Job
  <2>4. job.made < Attempts /\ w # None
    BY <2>2, UploadAssumption DEF UploadInv, QueuedOnce
  <2>5. mishaps' \subseteq Mishap
    BY <1>0, <1>1, Recorded DEF TakeJob
  <2>6. UNCHANGED <<content, proc, parts, object, due>>
        /\ version' = version /\ upload' = upload
    BY <1>1 DEF TakeJob, uploadRows, bucket
  <2>7. upload' \in SessionStatus /\ (content = "infected" => version' # "ACTIVE")
    BY <2>6 DEF UploadInv, Shapes, Screened
  <2> HIDE DEF s
  <2> QED BY <2>1, <2>2, <2>3, <2>4, <2>5, <2>6, <2>7, WorkerStep
<1>2. CASE FindVersion(w)
  <2>1. CASE version = "VERIFYING"
    <3> DEFINE s == [scan[w] EXCEPT !.pc = "scanning"]
    <3>1. s \in Scan /\ s.pc = "scanning" /\ scan' = [scan EXCEPT ![w] = s]
      BY <1>0, <1>2, <2>1, ScanRecord DEF FindVersion
    <3> HIDE DEF s
    <3> QED BY <1>2, <2>1, <3>1, GoesOn DEF FindVersion
  <2>2. CASE version # "VERIFYING"
    BY <1>2, <2>2, EndsJob DEF FindVersion
  <2> QED BY <2>1, <2>2
<1>3. CASE ScanObject(w)
  <2> DEFINE s == [pc |-> "rechecking", clean |-> content # "infected"]
  <2>1. s \in Scan /\ (content = "infected" => ~s.clean)
    BY DEF Scan
  <2>2. scan' = [scan EXCEPT ![w] = s]
    BY <1>3 DEF ScanObject
  <2> HIDE DEF s
  <2> QED BY <1>3, <2>1, <2>2, GoesOn DEF ScanObject
<1>4. CASE Recheck(w)
  <2>1. CASE version = "VERIFYING"
    <3> DEFINE s == [scan[w] EXCEPT !.pc = "storing"]
    <3>1. s \in Scan /\ s.clean = scan[w].clean /\ scan' = [scan EXCEPT ![w] = s]
      BY <1>0, <1>4, <2>1, ScanRecord DEF Recheck
    <3>2. content = "infected" => ~s.clean
      BY <1>4, <3>1 DEF Recheck, UploadInv, Screened
    <3> HIDE DEF s
    <3> QED BY <1>4, <2>1, <3>1, <3>2, GoesOn DEF Recheck
  <2>2. CASE version # "VERIFYING"
    BY <1>4, <2>2, EndsJob DEF Recheck
  <2> QED BY <2>1, <2>2
<1>5. CASE StoreVerdict(w)
  <2>1. /\ scan[w].pc = "storing"
        /\ version' = IF scan[w].clean THEN "ACTIVE" ELSE "REJECTED"
        /\ upload' = IF upload = "VERIFYING" THEN version' ELSE upload
        /\ Answered(w)
        /\ UNCHANGED <<parts, object, due, content, proc, mishaps>>
    BY <1>5 DEF StoreVerdict, bucket
  <2>2. content = "infected" => version' # "ACTIVE"
    BY <2>1 DEF UploadInv, Screened
  <2>3. version' \in {"ACTIVE", "REJECTED"}
    BY <2>1
  <2>4. upload' \in SessionStatus /\ mishaps' \subseteq Mishap
    BY <1>0, <2>1 DEF Shapes, SessionStatus
  <2>5. job.state # "none"
    BY <2>1, JobThere
  <2>6. CASE EndJob(w)
    BY <2>1, <2>2, <2>3, <2>4, <2>5, <2>6, Ended, WorkerStep
  <2>7. CASE scan' = [scan EXCEPT ![w].pc = "unheard"] /\ UNCHANGED job
    <3> DEFINE s == [scan[w] EXCEPT !.pc = "unheard"]
    <3>1. s \in Scan /\ s.pc = "unheard" /\ scan' = [scan EXCEPT ![w] = s]
      BY <1>0, <2>7, ScanRecord
    <3>2. /\ job' \in Job /\ job'.state # "none"
          /\ job'.state \in {"waiting", "active"} => job'.made < Attempts
          /\ job'.state = "active" <=> job'.owner # None
      BY <1>0, <2>5, <2>7 DEF UploadInv, QueuedOnce
    <3> HIDE DEF s
    <3> QED BY <2>1, <2>2, <2>3, <2>4, <2>5, <3>1, <3>2, WorkerStep
  <2> QED BY <2>1, <2>6, <2>7 DEF Answered
<1>6. CASE ScanFails(w)
  <2>1. scan[w].pc # "idle" /\ job.state # "none"
        /\ UNCHANGED <<uploadRows, bucket, due, content, proc, mishaps>>
    BY <1>6, JobThere DEF ScanFails
  <2>2. NoScan \in Scan /\ NoScan.pc = "idle"
    BY DEF NoScan, Scan
  <2>3. CASE job.owner # w
    BY <1>6, <2>1, <2>2, <2>3, GoesOn DEF ScanFails
  <2>4. CASE job.owner = w
    <3>1. job.state = "active" /\ job.made < Attempts
      BY <2>4, UploadAssumption DEF UploadInv, QueuedOnce
    <3>2. PICK last \in BOOLEAN : last = (job.made + 1 = Attempts)
      OBVIOUS
    <3>3. job' = [job EXCEPT !.made = job.made + 1, !.owner = None,
                             !.state = IF last THEN "failed" ELSE "waiting"]
      BY <1>6, <2>4, <3>2 DEF ScanFails
    <3>4. PICK s \in Scan : scan' = [scan EXCEPT ![w] = s] /\ s.pc \in {"idle", "failing"}
      <4>1. [pc |-> "failing", clean |-> FALSE] \in Scan
        BY DEF Scan
      <4> QED BY <1>6, <2>2, <2>4, <4>1 DEF ScanFails
    <3>5. job.made + 1 \in 0 .. Attempts /\ (~last => job.made + 1 < Attempts)
      <4>1. job.made + 1 \in 0 .. Attempts
        BY <1>0, <3>1, UploadAssumption DEF Job
      <4>2. job.made + 1 # Attempts => job.made + 1 < Attempts
        BY <1>0, <3>1, UploadAssumption DEF Job
      <4> QED BY <3>2, <4>1, <4>2
    <3>6. job' \in Job /\ job'.made = job.made + 1 /\ job'.owner = None
          /\ job'.state = IF last THEN "failed" ELSE "waiting"
      <4>1. PICK state \in {"failed", "waiting"} :
              state = IF last THEN "failed" ELSE "waiting"
        OBVIOUS
      <4>2. job' = [job EXCEPT !.made = job.made + 1, !.owner = None, !.state = state]
        BY <3>3, <4>1
      <4>3. job' \in Job /\ job'.made = job.made + 1 /\ job'.owner = None
            /\ job'.state = state
        BY <1>0, <4>2, <3>5 DEF Job
      <4> QED BY <4>1, <4>3
    <3>7. UNCHANGED <<content, proc, parts, object, due>>
          /\ version' = version /\ upload' = upload /\ mishaps' = mishaps
      BY <2>1 DEF uploadRows, bucket
    <3>8. upload' \in SessionStatus /\ mishaps' \subseteq Mishap
          /\ (content = "infected" => version' # "ACTIVE")
      BY <3>7 DEF UploadInv, Shapes, Screened
    <3> QED BY <2>1, <3>4, <3>5, <3>6, <3>7, <3>8, WorkerStep
  <2> QED BY <2>3, <2>4
<1>7. CASE ScanFindVerifying(w)
  <2>1. PICK s \in Scan : scan' = [scan EXCEPT ![w] = s] /\ s.pc \in {"idle", "failed"}
    <3>1. [pc |-> "failed", clean |-> FALSE] \in Scan /\ NoScan \in Scan /\ NoScan.pc = "idle"
      BY DEF Scan, NoScan
    <3> QED BY <1>7, <3>1 DEF ScanFindVerifying
  <2> QED BY <1>7, <2>1, GoesOn DEF ScanFindVerifying
<1>8. CASE ScanRejectFailed(w)
  <2>1. NoScan \in Scan /\ NoScan.pc = "idle" /\ scan' = [scan EXCEPT ![w] = NoScan]
    BY <1>8 DEF ScanRejectFailed, NoScan, Scan
  <2>2. version' = "REJECTED" /\ UNCHANGED <<content, proc, parts, object, due, job, mishaps>>
    BY <1>8 DEF ScanRejectFailed, Failed, bucket
  <2>3. upload' \in SessionStatus /\ mishaps' \subseteq Mishap
    BY <1>0, <1>8, <2>2 DEF ScanRejectFailed, Failed, Shapes, SessionStatus
  <2>4. job.state # "none"
    BY <1>8, JobThere DEF ScanRejectFailed
  <2>5. /\ job' \in Job /\ job'.state # "none"
        /\ job'.state \in {"waiting", "active"} => job'.made < Attempts
        /\ job'.state = "active" <=> job'.owner # None
    BY <1>0, <2>2, <2>4 DEF UploadInv, QueuedOnce
  <2> QED BY <2>1, <2>2, <2>3, <2>4, <2>5, WorkerStep
<1> QED BY <1>1, <1>2, <1>3, <1>4, <1>5, <1>6, <1>7, <1>8 DEF ScanStep

LEMMA StallKeeps ==
    ASSUME UploadInv, Stall
    PROVE  UploadInv'
<1>0. Shapes /\ job \in Job
  BY DEF UploadInv, Shapes
<1>1. job.state = "active" /\ job.owner # None /\ job.made < Attempts
  BY DEF Stall, UploadInv, QueuedOnce
<1>2. PICK w \in Worker : w = job.owner
  BY <1>0, <1>1 DEF Job
<1>3. PICK s \in Scan : scan' = [scan EXCEPT ![w] = s] /\ (s = scan[w] \/ s = NoScan)
  <2>1. NoScan \in Scan /\ scan[w] \in Scan /\ scan = [scan EXCEPT ![w] = scan[w]]
    BY <1>0 DEF NoScan, Scan, Shapes
  <2> QED BY <1>2, <2>1 DEF Stall
<1>4. job' = [job EXCEPT !.owner = None,
                !.state = IF job.stalls < MaxStalls THEN "waiting" ELSE "failed",
                !.stalls = IF job.stalls < MaxStalls THEN job.stalls + 1 ELSE job.stalls]
  BY DEF Stall
<1>5. job.stalls < MaxStalls => job.stalls + 1 \in 0 .. MaxStalls
  BY <1>0, UploadAssumption DEF Job
<1>6. job' \in Job /\ job'.owner = None /\ job'.made = job.made
      /\ job'.state \in {"waiting", "failed"}
  BY <1>0, <1>4, <1>5 DEF Job
<1>7. UNCHANGED <<content, proc, parts, object, due>>
      /\ version' = version /\ upload' = upload
  BY DEF Stall, uploadRows, bucket
<1>8. upload' \in SessionStatus /\ mishaps' \subseteq Mishap
  BY <1>0, <1>7, Recorded DEF Stall, Shapes
<1>9. content = "infected" =>
        /\ version' # "ACTIVE"
        /\ s.pc \in {"rechecking", "storing"} => ~s.clean
  BY <1>3, <1>7 DEF UploadInv, Screened, NoScan
<1> QED BY <1>1, <1>3, <1>6, <1>7, <1>8, <1>9, WorkerStep

-----------------------------------------------------------------------------
LEMMA UploadInvFirst == UploadInit => UploadInv
<1> SUFFICES ASSUME UploadInit PROVE UploadInv
  OBVIOUS
<1> USE DEF UploadInit
<1>0. \A p \in Process : proc[p].pc = "idle"
  OBVIOUS
<1>1. \A w \in Worker : scan[w].pc = "idle"
  BY DEF NoScan
<1>2. Shapes
  <2>1. proc \in [Process -> [pc : Step, read : SessionStatus]]
    BY DEF Step, SessionStatus
  <2>2. scan \in [Worker -> Scan]
    BY DEF NoScan, Scan
  <2>3. job \in Job
    BY UploadAssumption DEF Job
  <2>4. due \in BOOLEAN /\ object \in BOOLEAN
    OBVIOUS
  <2> QED BY <2>1, <2>2, <2>3, <2>4 DEF Shapes, SessionStatus, VersionStatus, Content
<1>3. Completed
  BY <1>0, <1>1 DEF Completed
<1>4. QueuedOnce
  BY <1>0, <1>1, UploadAssumption DEF QueuedOnce, Holds
<1>5. Screened
  BY <1>0, <1>1 DEF Screened, Past
<1> QED BY <1>2, <1>3, <1>4, <1>5 DEF UploadInv

LEMMA UploadInvNext == UploadInv /\ [UploadNext]_uploadVars => UploadInv'
<1> SUFFICES ASSUME UploadInv, [UploadNext]_uploadVars
             PROVE  UploadInv'
  OBVIOUS
<1>1. ASSUME NEW r \in Request, SignRead(r) \/ CompleteRead(r) \/ AbortRead(r)
      PROVE  UploadInv'
  <2>1. r \in Process
    BY DEF Process
  <2> QED BY <1>1, <2>1, Begins DEF SignRead, CompleteRead, AbortRead
<1>2. ASSUME NEW r \in Request, RequestStep(r) \/ Ending(r)
      PROVE  UploadInv'
  BY <1>2, RequestKeeps, EndingKeeps DEF Process
<1>3. ASSUME NEW c \in Cleaner, CleanStep(c)
      PROVE  UploadInv'
  BY <1>3, CleanKeeps
<1>4. ASSUME NEW w \in Worker, ScanStep(w)
      PROVE  UploadInv'
  BY <1>4, ScanKeeps
<1>5. CASE Stall
  BY <1>5, StallKeeps
<1>6. ASSUME NEW p \in Process, Die(p)
      PROVE  UploadInv'
  <2>1. mishaps' \subseteq Mishap
    BY <1>6, Recorded DEF Die, UploadInv
  <2> QED BY <1>6, <2>1, Finished, Unchanged DEF Die, uploadRows, bucket
<1>7. CASE PassExpiry
  <2>1. due' \in BOOLEAN
    BY <1>7 DEF PassExpiry
  <2>2. UNCHANGED <<upload, version, parts, object, content, proc, job, scan, mishaps>>
    BY <1>7 DEF PassExpiry, uploadRows, bucket, queue
  <2>3. Shapes'
    BY <2>1, <2>2 DEF UploadInv, Shapes
  <2>4. Completed' /\ QueuedOnce' /\ Screened'
    BY <2>2 DEF UploadInv, Completed, QueuedOnce, Screened, Holds
  <2> QED BY <2>3, <2>4 DEF UploadInv
<1>8. CASE UNCHANGED uploadVars
  BY <1>8 DEF uploadVars, uploadRows, bucket, queue, UploadInv, Shapes, Completed,
              QueuedOnce, Screened, Holds
<1> QED BY <1>1, <1>2, <1>3, <1>4, <1>5, <1>6, <1>7, <1>8 DEF UploadNext

\* The strengthened invariant holds in every reachable state.
THEOREM UploadInvHolds == UploadSpec => []UploadInv
<1> QED BY UploadInvFirst, UploadInvNext, PTL DEF UploadSpec

\* Rows, object, handlers and job keep their shapes, the job runs under one
\* lock, and no version is stored before the upload is completed.
THEOREM UploadTypesHold == UploadSpec => []UploadTypeOK
<1>1. UploadInv => UploadTypeOK
  BY DEF UploadInv, Shapes, Completed, QueuedOnce, UploadTypeOK
<1> QED BY <1>1, UploadInvHolds, PTL

\* However many requests, cleanups and workers there are, and whatever races,
\* fails, stalls or dies, what can be downloaded passed the checks and is
\* clean or exempt (completeUploadSession, FileScanService.scan).
THEOREM OnlyCleanPublishedHolds == UploadSpec => []OnlyCleanPublished
<1>1. UploadInv => OnlyCleanPublished
  BY DEF UploadInv, Shapes, Screened, OnlyCleanPublished, Content
<1> QED BY <1>1, UploadInvHolds, PTL
-----------------------------------------------------------------------------
(* Verdicts stand *)

\* None of the mishaps that let a verdict be replaced.
Calm == ~Among({"race", "stall", "late job"}, mishaps)

\* A cleanup is alone; whoever stored the graph has not queued the job; one
\* worker runs, and whoever is about to decide finds the version undecided.
Solo ==
    /\ \A c \in Cleaner : ~Idle(c) =>
         /\ \A q \in Process : q # c => Idle(q)
         /\ \A w \in Worker : scan[w].pc = "idle"
    /\ \A p \in Process :
         /\ proc[p].pc \in {"failing", "failed"} => job.state = "none"
         /\ proc[p].pc = "failed" => version = "VERIFYING"
    /\ \A v, w \in Worker : scan[v].pc # "idle" /\ scan[w].pc # "idle" => v = w
    /\ \A w \in Worker :
         /\ scan[w].pc \in {"finding", "scanning", "rechecking", "storing", "unheard"} =>
              job.owner = w
         /\ scan[w].pc \in {"failing", "failed"} => job.state = "failed"
         /\ scan[w].pc \in {"storing", "failed"} => version = "VERIFYING"

SoloInv == Calm => Solo

LEMMA Calms ==
    ASSUME Calm', mishaps \subseteq mishaps'
    PROVE  Calm /\ {"race", "stall", "late job"} \cap mishaps' = {}
BY DEF Calm, Among

\* Mishaps are recorded for good.
LEMMA MishapsKept ==
    ASSUME UploadInv, [UploadNext]_uploadVars
    PROVE  mishaps \subseteq mishaps'
<1>0. Shapes
  BY DEF UploadInv
<1>1. ASSUME NEW p \in Process, NEW pc, NEW other, Begin(p, pc, other)
      PROVE  mishaps \subseteq mishaps'
  BY <1>0, <1>1, Recorded DEF Begin
<1>2. ASSUME NEW r \in Request, SignRead(r) \/ CompleteRead(r) \/ AbortRead(r)
      PROVE  mishaps \subseteq mishaps'
  BY <1>1, <1>2 DEF SignRead, CompleteRead, AbortRead, Process
<1>3. ASSUME NEW r \in Request, RequestStep(r)
      PROVE  mishaps \subseteq mishaps'
  <2>1. CASE Enqueue(r) \/ StoreGraph(r)
    BY <1>0, <2>1, Recorded DEF Enqueue, StoreGraph
  <2>2. CASE DeleteRejected(r)
    BY <2>2, Deleting DEF DeleteRejected
  <2>3. CASE ~Enqueue(r) /\ ~StoreGraph(r) /\ ~DeleteRejected(r)
    BY <1>3, <2>3 DEF RequestStep, SignMark, ProviderComplete, MarkVerifying, CheckObject,
                      Fail, MarkRejected, FindVerifying, RejectFailed
  <2> QED BY <2>1, <2>2, <2>3
<1>4. ASSUME NEW p \in Process, Ending(p)
      PROVE  mishaps \subseteq mishaps'
  BY <1>4, Deleting DEF Ending, AbortMultipart, Erase, MarkExpired
<1>5. ASSUME NEW c \in Cleaner, CleanStep(c)
      PROVE  mishaps \subseteq mishaps'
  BY <1>1, <1>4, <1>5 DEF CleanStep, CleanRead, RejectVersions, Process
<1>6. ASSUME NEW w \in Worker, ScanStep(w)
      PROVE  mishaps \subseteq mishaps'
  <2>1. CASE TakeJob(w)
    BY <1>0, <2>1, Recorded DEF TakeJob
  <2>2. CASE ~TakeJob(w)
    BY <1>6, <2>2 DEF ScanStep, FindVersion, ScanObject, Recheck, StoreVerdict, ScanFails,
                      ScanFindVerifying, ScanRejectFailed
  <2> QED BY <2>1, <2>2
<1>7. CASE Stall
  BY <1>0, <1>7, Recorded DEF Stall
<1>8. ASSUME NEW p \in Process, Die(p)
      PROVE  mishaps \subseteq mishaps'
  BY <1>0, <1>8, Recorded DEF Die
<1>9. CASE PassExpiry \/ UNCHANGED uploadVars
  BY <1>9 DEF PassExpiry, uploadVars
<1> QED BY <1>2, <1>3, <1>4, <1>5, <1>6, <1>7, <1>8, <1>9 DEF UploadNext, Process

\* A process that begins finds no one it may not meet, and one that goes on
\* keeps to itself.
LEMMA ProcessSolo ==
    ASSUME UploadInv, Solo, NEW p \in Process,
           NEW s \in [pc : Step, read : SessionStatus],
           proc' = [proc EXCEPT ![p] = s], UNCHANGED scan,
           Idle(p) /\ s.pc # "idle" =>
             IF p \in Cleaner
               THEN (\A q \in Process : Idle(q)) /\ \A w \in Worker : scan[w].pc = "idle"
               ELSE \A c \in Cleaner : Idle(c),
           s.pc \in {"failing", "failed"} =>
             /\ Holds(p) /\ job'.state = "none"
             /\ s.pc = "failed" => version = "VERIFYING",
           job' = job \/ job.state = "none",
           \A q \in Process : q # p /\ Holds(q) => job' = job,
           version' = version
             \/ /\ \A q \in Process : q # p => proc[q].pc # "failed"
                /\ \A w \in Worker : scan[w].pc \notin {"storing", "failed"}
                /\ s.pc # "failed"
    PROVE  Solo'
<1>0. UNCHANGED scan /\ proc \in [Process -> [pc : Step, read : SessionStatus]]
  BY DEF UploadInv, Shapes
<1>1. proc'[p] = s /\ \A q \in Process : q # p => proc'[q] = proc[q]
  BY <1>0
<1>2. ASSUME NEW c \in Cleaner, ~Idle(c)'
      PROVE  /\ \A q \in Process : q # c => Idle(q)'
             /\ \A w \in Worker : scan'[w].pc = "idle"
  <2>0. c \in Process
    BY DEF Process
  <2>1. CASE c = p
    <3>1. (\A q \in Process : q # c => Idle(q)) /\ \A w \in Worker : scan[w].pc = "idle"
      BY <1>1, <1>2, <2>0, <2>1 DEF Idle, Solo
    <3> QED BY <1>0, <1>1, <2>1, <3>1 DEF Idle
  <2>2. CASE c # p
    <3>1. ~Idle(c)
      BY <1>1, <1>2, <2>0, <2>2 DEF Idle
    <3>2. (\A q \in Process : q # c => Idle(q)) /\ \A w \in Worker : scan[w].pc = "idle"
      BY <3>1 DEF Solo
    <3>3. s.pc = "idle"
      <4>1. Idle(p)
        BY <2>2, <3>2
      <4>2. s.pc # "idle" => Idle(c)
        BY <2>0, <4>1
      <4> QED BY <3>1, <4>2
    <3> QED BY <1>0, <1>1, <3>2, <3>3 DEF Idle
  <2> QED BY <2>1, <2>2
<1>3. ASSUME NEW q \in Process
      PROVE  /\ proc'[q].pc \in {"failing", "failed"} => job'.state = "none"
             /\ proc'[q].pc = "failed" => version' = "VERIFYING"
  <2>1. CASE q = p
    BY <1>1, <2>1
  <2>2. CASE q # p
    BY <1>1, <2>2 DEF Solo, Holds
  <2> QED BY <2>1, <2>2
<1>4. ASSUME NEW w \in Worker
      PROVE  /\ scan[w].pc \in {"finding", "scanning", "rechecking", "storing", "unheard"} =>
                  job'.owner = w
             /\ scan[w].pc \in {"failing", "failed"} => job'.state = "failed"
             /\ scan[w].pc \in {"storing", "failed"} => version' = "VERIFYING"
  <2>1. job' = job \/ scan[w].pc = "idle"
    BY DEF UploadInv, QueuedOnce
  <2> QED BY <2>1 DEF Solo
<1> QED BY <1>0, <1>2, <1>3, <1>4 DEF Solo

\* A worker that goes on, alone.
LEMMA WorkerSolo ==
    ASSUME UploadInv, Solo, NEW w \in Worker, NEW s \in Scan,
           scan' = [scan EXCEPT ![w] = s], UNCHANGED proc,
           job.state # "none",
           \A v \in Worker : v # w => scan[v].pc = "idle",
           s.pc # "idle" => \A c \in Cleaner : Idle(c),
           s.pc \in {"finding", "scanning", "rechecking", "storing", "unheard"} =>
             job'.owner = w,
           s.pc \in {"failing", "failed"} => job'.state = "failed",
           s.pc \in {"storing", "failed"} => version' = "VERIFYING"
    PROVE  Solo'
<1>1. scan'[w] = s /\ \A v \in Worker : v # w => scan'[v] = scan[v]
  BY DEF UploadInv, Shapes
<1>2. \A v \in Worker : scan'[v].pc # "idle" => v = w
  BY <1>1
<1>3. \A p \in Process : proc[p].pc \notin {"failing", "failed"}
  BY DEF Solo
<1>4. ASSUME NEW c \in Cleaner, ~Idle(c)
      PROVE  /\ \A q \in Process : q # c => Idle(q)
             /\ \A v \in Worker : scan'[v].pc = "idle"
  BY <1>1, <1>4 DEF Solo
<1>5. UNCHANGED proc
  OBVIOUS
<1> QED BY <1>1, <1>2, <1>3, <1>4, <1>5 DEF Solo, Idle
LEMMA MoveSolo ==
    ASSUME UploadInv, Solo, NEW p \in Process, NEW pc \in Step, Goto(p, pc), ~Idle(p),
           UNCHANGED <<version, queue>>,
           pc \in {"failing", "failed"} =>
             /\ Holds(p) /\ job.state = "none"
             /\ pc = "failed" => version = "VERIFYING"
    PROVE  Solo'
<1> DEFINE s == [proc[p] EXCEPT !.pc = pc]
<1>1. /\ s \in [pc : Step, read : SessionStatus] /\ s.pc = pc
      /\ proc' = [proc EXCEPT ![p] = s]
  BY Moves DEF UploadInv
<1>2. job' = job /\ scan' = scan /\ version' = version
  BY DEF queue
<1> HIDE DEF s
<1> QED BY <1>1, <1>2, ProcessSolo

LEMMA DoneSolo ==
    ASSUME UploadInv, Solo, NEW p \in Process, Done(p), UNCHANGED scan,
           job' = job \/ job.state = "none",
           \A q \in Process : q # p /\ Holds(q) => job' = job,
           version' = version
             \/ /\ \A q \in Process : q # p => proc[q].pc # "failed"
                /\ \A w \in Worker : scan[w].pc \notin {"storing", "failed"}
    PROVE  Solo'
<1> DEFINE s == [pc |-> "idle", read |-> "CREATED"]
<1>1. /\ s \in [pc : Step, read : SessionStatus] /\ s.pc = "idle"
      /\ proc' = [proc EXCEPT ![p] = s]
  BY Finishes
<1> HIDE DEF s
<1> QED BY <1>1, ProcessSolo

LEMMA BeginSolo ==
    ASSUME UploadInv, Solo, NEW p \in Process,
           NEW pc \in {"signing", "completing", "aborting"},
           NEW other, Begin(p, pc, other), Calm', UNCHANGED <<version, queue>>
    PROVE  Solo'
<1> DEFINE s == [pc |-> pc, read |-> upload]
<1>1. /\ s \in [pc : Step, read : SessionStatus]
      /\ s.pc = pc /\ proc' = [proc EXCEPT ![p] = s] /\ Idle(p)
  BY DEF Begin, UploadInv, Shapes, Step
<1>2. IfSo("race", IF p \in Request THEN \E q \in Cleaner : ~Idle(q)
                   ELSE \/ \E q \in Process : ~Idle(q)
                        \/ \E w \in Worker : scan[w].pc # "idle") \subseteq mishaps'
  BY Recorded DEF Begin, UploadInv
<1>3. "race" \notin mishaps'
  BY DEF Calm, Among
<1>4. ~(IF p \in Request THEN \E q \in Cleaner : ~Idle(q)
        ELSE \/ \E q \in Process : ~Idle(q)
             \/ \E w \in Worker : scan[w].pc # "idle")
  BY <1>2, <1>3 DEF IfSo
<1>5. IF p \in Cleaner
        THEN (\A q \in Process : Idle(q)) /\ \A w \in Worker : scan[w].pc = "idle"
        ELSE \A c \in Cleaner : Idle(c)
  <2>1. CASE p \in Cleaner
    BY <1>4, <2>1, UploadAssumption
  <2>2. CASE p \notin Cleaner
    BY <1>4, <2>2 DEF Process
  <2> QED BY <2>1, <2>2
<1>6. job' = job /\ scan' = scan /\ version' = version
  BY DEF queue
<1> HIDE DEF s
<1> QED BY <1>1, <1>5, <1>6, ProcessSolo

LEMMA RequestSolo ==
    ASSUME UploadInv, Solo, Calm', NEW r \in Request, RequestStep(r)
    PROVE  Solo'
<1> USE DEF At
<1>0. r \in Process
  BY DEF Process
<1>1. CASE SignMark(r)
  BY <1>0, <1>1, DoneSolo DEF SignMark, queue
<1>2. CASE ProviderComplete(r)
  <2>1. PICK pc \in {"verifying", "refusing"} : Goto(r, pc)
    BY <1>2 DEF ProviderComplete
  <2> QED BY <1>0, <1>2, <2>1, MoveSolo DEF ProviderComplete, Idle, Step, uploadRows
<1>3. CASE MarkVerifying(r)
  BY <1>0, <1>3, MoveSolo DEF MarkVerifying, Idle, Step
<1>4. CASE CheckObject(r)
  BY <1>0, <1>4, MoveSolo DEF CheckObject, Idle, Step, uploadRows
<1>5. CASE StoreGraph(r)
  <2>1. /\ proc[r].pc = "storing" /\ version = "none" /\ UNCHANGED <<job, scan>>
        /\ \/ Done(r)
           \/ \E pc \in {"enqueueing", "rejecting"} : Goto(r, pc)
    BY <1>5 DEF StoreGraph, queue
  <2>2. /\ \A q \in Process : proc[q].pc # "failed"
        /\ \A w \in Worker : scan[w].pc \notin {"storing", "failed"}
    BY <2>1 DEF UploadInv, QueuedOnce, Holds
  <2>3. CASE Done(r)
    BY <1>0, <2>1, <2>2, <2>3, DoneSolo
  <2>4. ASSUME NEW pc \in {"enqueueing", "rejecting"}, Goto(r, pc)
        PROVE  Solo'
    <3> DEFINE s == [proc[r] EXCEPT !.pc = pc]
    <3>0. pc \in Step
      BY DEF Step
    <3>1. /\ s \in [pc : Step, read : SessionStatus] /\ s.pc = pc
          /\ proc' = [proc EXCEPT ![r] = s]
      BY <1>0, <2>4, <3>0, Moves DEF UploadInv
    <3>2. ~Idle(r)
      BY <2>1 DEF Idle
    <3> HIDE DEF s
    <3> QED BY <1>0, <2>1, <2>2, <3>1, <3>2, ProcessSolo
  <2> QED BY <2>1, <2>3, <2>4
<1>6. CASE Enqueue(r)
  <2>1. Done(r)
    <3>1. ASSUME Suffer({"late job"})
          PROVE  FALSE
      BY <3>1, Recorded DEF Calm, Among, UploadInv
    <3> QED BY <1>6, <3>1 DEF Enqueue
  <2>2. job.state = "none" /\ UNCHANGED <<version, scan>> /\ Holds(r)
    BY <1>0, <1>6 DEF Enqueue, uploadRows, UploadInv, QueuedOnce, Holds
  <2>3. \A q \in Process : q # r => ~Holds(q)
    BY <1>0, <2>2 DEF UploadInv, QueuedOnce
  <2> QED BY <1>0, <2>1, <2>2, <2>3, DoneSolo
<1>7. CASE Fail(r)
  <2>1. CASE proc[r].pc = "enqueueing"
    <3>1. job.state = "none" /\ Holds(r)
      BY <1>0, <2>1 DEF UploadInv, QueuedOnce, Holds
    <3> QED BY <1>0, <1>7, <2>1, <3>1, MoveSolo DEF Fail, Idle, Step, uploadRows
  <2>2. CASE proc[r].pc # "enqueueing"
    BY <1>0, <1>7, <2>2, MoveSolo DEF Fail, Idle, Step, uploadRows
  <2> QED BY <2>1, <2>2
<1>8. CASE MarkRejected(r)
  <2>1. CASE proc[r].pc = "rejecting"
    BY <1>0, <1>8, <2>1, MoveSolo DEF MarkRejected, Idle, Step
  <2>2. CASE proc[r].pc = "refusing"
    BY <1>0, <1>8, <2>2, DoneSolo DEF MarkRejected, queue
  <2> QED BY <1>8, <2>1, <2>2 DEF MarkRejected
<1>9. CASE DeleteRejected(r)
  BY <1>0, <1>9, DoneSolo DEF DeleteRejected, uploadRows, queue
<1>10. CASE FindVerifying(r)
  <2>1. CASE version = "VERIFYING"
    <3>1. job.state = "none" /\ Holds(r)
      BY <1>0, <1>10 DEF FindVerifying, Solo, Holds
    <3> QED BY <1>0, <1>10, <2>1, <3>1, MoveSolo DEF FindVerifying, Idle, Step, uploadRows
  <2>2. CASE version # "VERIFYING"
    BY <1>0, <1>10, <2>2, DoneSolo DEF FindVerifying, uploadRows, queue
  <2> QED BY <2>1, <2>2
<1>11. CASE RejectFailed(r)
  <2>1. Done(r) /\ UNCHANGED <<job, scan>> /\ Holds(r) /\ job.state = "none"
    BY <1>0, <1>11 DEF RejectFailed, queue, Holds, Solo
  <2>2. \A q \in Process : q # r => proc[q].pc # "failed"
    BY <1>0, <2>1 DEF UploadInv, QueuedOnce, Holds
  <2>3. \A w \in Worker : scan[w].pc \notin {"storing", "failed"}
    BY <2>1 DEF UploadInv, QueuedOnce
  <2> QED BY <1>0, <2>1, <2>2, <2>3, DoneSolo
<1> QED BY <1>1, <1>2, <1>3, <1>4, <1>5, <1>6, <1>7, <1>8, <1>9, <1>10, <1>11 DEF RequestStep

LEMMA EndingSolo ==
    ASSUME UploadInv, Solo, NEW p \in Process, Ending(p)
    PROVE  Solo'
<1> USE DEF At
<1>1. CASE AbortMultipart(p)
  <2>1. PICK pc \in {"erasing", "discarding", "expiring"} : Goto(p, pc)
    BY <1>1 DEF AbortMultipart
  <2> QED BY <1>1, <2>1, MoveSolo DEF AbortMultipart, Idle, Step, uploadRows
<1>2. CASE Erase(p)
  BY <1>2, MoveSolo DEF Erase, Idle, Step, uploadRows
<1>3. CASE MarkExpired(p)
  BY <1>3, DoneSolo DEF MarkExpired, queue
<1> QED BY <1>1, <1>2, <1>3 DEF Ending

LEMMA CleanSolo ==
    ASSUME UploadInv, Solo, Calm', NEW c \in Cleaner, CleanStep(c)
    PROVE  Solo'
<1>0. c \in Process
  BY DEF Process
<1>1. CASE CleanRead(c)
  BY <1>0, <1>1, BeginSolo DEF CleanRead, uploadRows
<1>2. CASE RejectVersions(c)
  <2> DEFINE s == [proc[c] EXCEPT !.pc = "erasing"]
  <2>1. /\ s \in [pc : Step, read : SessionStatus] /\ s.pc = "erasing"
        /\ proc' = [proc EXCEPT ![c] = s]
    BY <1>0, <1>2, Moves DEF RejectVersions, UploadInv, Step
  <2>2. ~Idle(c) /\ UNCHANGED <<job, scan>>
    BY <1>2 DEF RejectVersions, At, Idle, queue
  <2>3. (\A q \in Process : q # c => Idle(q)) /\ \A w \in Worker : scan[w].pc = "idle"
    BY <2>2 DEF Solo
  <2> HIDE DEF s
  <2> QED BY <1>0, <2>1, <2>2, <2>3, ProcessSolo DEF Idle
<1>3. CASE Ending(c)
  BY <1>0, <1>3, EndingSolo
<1> QED BY <1>1, <1>2, <1>3 DEF CleanStep

\* A worker whose job is over, or given back.
LEMMA IdleSolo ==
    ASSUME UploadInv, Solo, NEW w \in Worker, scan[w].pc # "idle",
           scan' = [scan EXCEPT ![w] = NoScan], UNCHANGED proc
    PROVE  Solo'
<1>1. NoScan \in Scan /\ NoScan.pc = "idle"
  BY DEF NoScan, Scan
<1>2. \A v \in Worker : v # w => scan[v].pc = "idle"
  BY DEF Solo
<1> QED BY <1>1, <1>2, JobThere, WorkerSolo

LEMMA ScanSolo ==
    ASSUME UploadInv, Solo, Calm', NEW w \in Worker, ScanStep(w)
    PROVE  Solo'
<1>0. Shapes /\ scan[w] \in Scan
  BY DEF UploadInv, Shapes
<1>1. CASE TakeJob(w)
  <2> DEFINE s == [scan[w] EXCEPT !.pc = "finding"]
  <2>1. s \in Scan /\ s.pc = "finding" /\ scan' = [scan EXCEPT ![w] = s] /\ UNCHANGED proc
    BY <1>0, <1>1, ScanRecord DEF TakeJob
  <2>2. job.state = "waiting" /\ job'.owner = w
    BY <1>1 DEF TakeJob, UploadInv, Shapes, Job
  <2>3. job.owner = None /\ w # None
    BY <2>2, UploadAssumption DEF UploadInv, QueuedOnce
  <2>4. \A v \in Worker : scan[v].pc = "idle"
    <3>1. ASSUME NEW v \in Worker, scan[v].pc # "idle"
          PROVE  FALSE
      <4>1. scan[v].pc \in {"finding", "scanning", "rechecking", "storing", "unheard",
                            "failing", "failed"}
        BY <3>1, <1>0 DEF Shapes, Scan
      <4>2. v # None
        BY UploadAssumption
      <4> QED BY <2>2, <2>3, <4>1, <4>2 DEF Solo
    <3> QED BY <3>1
  <2>5. IfSo("race", \E c \in Cleaner : ~Idle(c)) \subseteq mishaps'
    BY <1>0, <1>1, Recorded DEF TakeJob
  <2>6. \A c \in Cleaner : Idle(c)
    BY <2>5 DEF IfSo, Calm, Among
  <2>7. job.state # "none"
    BY <2>2
  <2> HIDE DEF s
  <2> QED BY <2>1, <2>2, <2>4, <2>6, <2>7, WorkerSolo
<1>2. CASE ~TakeJob(w)
  <2>1. scan[w].pc # "idle" /\ UNCHANGED proc
    BY <1>2 DEF ScanStep, FindVersion, ScanObject, Recheck, StoreVerdict, ScanFails,
                ScanFindVerifying, ScanRejectFailed
  <2>2. /\ job.state # "none"
        /\ \A v \in Worker : v # w => scan[v].pc = "idle"
        /\ \A c \in Cleaner : Idle(c)
    BY <2>1, JobThere DEF Solo
  <2>3. EndJob(w) => Solo'
    BY <2>1, IdleSolo DEF EndJob
  <2>4. CASE FindVersion(w)
    <3> DEFINE s == [scan[w] EXCEPT !.pc = "scanning"]
    <3>1. CASE version = "VERIFYING"
      <4>1. s \in Scan /\ s.pc = "scanning" /\ scan' = [scan EXCEPT ![w] = s] /\ job' = job
        BY <1>0, <2>4, <3>1, ScanRecord DEF FindVersion
      <4>2. job.owner = w
        BY <2>4 DEF FindVersion, Solo
      <4> HIDE DEF s
      <4> QED BY <2>1, <2>2, <4>1, <4>2, WorkerSolo
    <3>2. CASE version # "VERIFYING"
      BY <2>3, <2>4, <3>2 DEF FindVersion
    <3> QED BY <3>1, <3>2
  <2>5. CASE ScanObject(w)
    <3> DEFINE s == [pc |-> "rechecking", clean |-> content # "infected"]
    <3>1. s \in Scan
      BY DEF Scan
    <3>2. s.pc = "rechecking" /\ scan' = [scan EXCEPT ![w] = s] /\ job' = job
      BY <2>5 DEF ScanObject
    <3>3. job.owner = w
      BY <2>5 DEF ScanObject, Solo
    <3> HIDE DEF s
    <3> QED BY <2>1, <2>2, <3>1, <3>2, <3>3, WorkerSolo
  <2>6. CASE Recheck(w)
    <3> DEFINE s == [scan[w] EXCEPT !.pc = "storing"]
    <3>1. CASE version = "VERIFYING"
      <4>1. s \in Scan /\ s.pc = "storing" /\ scan' = [scan EXCEPT ![w] = s] /\ job' = job
            /\ version' = version
        BY <1>0, <2>6, <3>1, ScanRecord DEF Recheck, uploadRows
      <4>2. job.owner = w
        BY <2>6 DEF Recheck, Solo
      <4> HIDE DEF s
      <4> QED BY <2>1, <2>2, <3>1, <4>1, <4>2, WorkerSolo
    <3>2. CASE version # "VERIFYING"
      BY <2>3, <2>6, <3>2 DEF Recheck
    <3> QED BY <3>1, <3>2
  <2>7. CASE StoreVerdict(w)
    <3> DEFINE s == [scan[w] EXCEPT !.pc = "unheard"]
    <3>1. CASE EndJob(w)
      BY <2>3, <3>1
    <3>2. CASE scan' = [scan EXCEPT ![w].pc = "unheard"] /\ UNCHANGED job
      <4>1. s \in Scan /\ s.pc = "unheard" /\ scan' = [scan EXCEPT ![w] = s] /\ job' = job
        BY <1>0, <3>2, ScanRecord
      <4>2. job.owner = w
        BY <2>7 DEF StoreVerdict, Solo
      <4> HIDE DEF s
      <4> QED BY <2>1, <2>2, <4>1, <4>2, WorkerSolo
    <3> QED BY <2>7, <3>1, <3>2 DEF StoreVerdict, Answered
  <2>8. CASE ScanFails(w)
    <3> DEFINE s == [pc |-> "failing", clean |-> FALSE]
    <3>1. CASE scan' = [scan EXCEPT ![w] = NoScan]
      BY <2>1, <3>1, IdleSolo
    <3>2. CASE scan' # [scan EXCEPT ![w] = NoScan]
      <4>1. s \in Scan /\ s.pc = "failing"
        BY DEF Scan
      <4>2. job.owner = w /\ job.made + 1 = Attempts
        BY <2>8, <3>2 DEF ScanFails
      <4>3. scan' = [scan EXCEPT ![w] = s]
            /\ job' = [job EXCEPT !.made = job.made + 1, !.owner = None, !.state = "failed"]
        BY <2>8, <4>2 DEF ScanFails
      <4>4. job'.state = "failed"
        BY <1>0, <4>3 DEF Shapes, Job
      <4> HIDE DEF s
      <4> QED BY <2>1, <2>2, <4>1, <4>3, <4>4, WorkerSolo
    <3> QED BY <3>1, <3>2
  <2>9. CASE ScanFindVerifying(w)
    <3> DEFINE s == [pc |-> "failed", clean |-> FALSE]
    <3>1. CASE version = "VERIFYING"
      <4>1. s \in Scan /\ s.pc = "failed"
        BY DEF Scan
      <4>2. scan' = [scan EXCEPT ![w] = s] /\ job' = job /\ version' = version
        BY <2>9, <3>1 DEF ScanFindVerifying, uploadRows
      <4>3. job.state = "failed"
        BY <2>9 DEF ScanFindVerifying, Solo
      <4> HIDE DEF s
      <4> QED BY <2>1, <2>2, <3>1, <4>1, <4>2, <4>3, WorkerSolo
    <3>2. CASE version # "VERIFYING"
      <4>1. scan' = [scan EXCEPT ![w] = NoScan]
        BY <2>9, <3>2 DEF ScanFindVerifying
      <4> QED BY <2>1, <4>1, IdleSolo
    <3> QED BY <3>1, <3>2
  <2>10. CASE ScanRejectFailed(w)
    BY <2>1, <2>10, IdleSolo DEF ScanRejectFailed
  <2> QED BY <1>2, <2>4, <2>5, <2>6, <2>7, <2>8, <2>9, <2>10 DEF ScanStep
<1> QED BY <1>1, <1>2

LEMMA SoloNext == UploadInv /\ SoloInv /\ [UploadNext]_uploadVars => SoloInv'
<1> SUFFICES ASSUME UploadInv, SoloInv, [UploadNext]_uploadVars, Calm'
             PROVE  Solo'
  BY DEF SoloInv
<1>0. Calm /\ Solo /\ {"race", "stall", "late job"} \cap mishaps' = {}
  BY MishapsKept, Calms DEF SoloInv
<1>1. ASSUME NEW r \in Request, SignRead(r) \/ CompleteRead(r) \/ AbortRead(r)
      PROVE  Solo'
  <2>1. r \in Process
    BY DEF Process
  <2> QED BY <1>0, <1>1, <2>1, BeginSolo DEF SignRead, CompleteRead, AbortRead, uploadRows
<1>2. ASSUME NEW r \in Request, RequestStep(r) \/ Ending(r)
      PROVE  Solo'
  BY <1>0, <1>2, RequestSolo, EndingSolo DEF Process
<1>3. ASSUME NEW c \in Cleaner, CleanStep(c)
      PROVE  Solo'
  BY <1>0, <1>3, CleanSolo
<1>4. ASSUME NEW w \in Worker, ScanStep(w)
      PROVE  Solo'
  BY <1>0, <1>4, ScanSolo
<1>5. ~Stall
  <2>1. ASSUME Stall PROVE FALSE
    BY <1>0, <2>1, Recorded DEF Stall, UploadInv
  <2> QED BY <2>1
<1>6. ASSUME NEW p \in Process, Die(p)
      PROVE  Solo'
  BY <1>0, <1>6, DoneSolo DEF Die, uploadRows, queue
<1>7. CASE PassExpiry \/ UNCHANGED uploadVars
  <2>1. UNCHANGED <<version, proc, job, scan>>
    BY <1>7 DEF PassExpiry, uploadVars, uploadRows, queue
  <2> QED BY <1>0, <2>1 DEF Solo, Idle
<1> QED BY <1>1, <1>2, <1>3, <1>4, <1>5, <1>6, <1>7 DEF UploadNext

LEMMA SoloFirst == UploadInit => SoloInv
BY DEF UploadInit, SoloInv, Solo, Idle, NoScan

\* Whoever decides a version finds it undecided.
LEMMA VerdictKept ==
    ASSUME UploadInv, SoloInv, [UploadNext]_uploadVars, version \in {"ACTIVE", "REJECTED"},
           Calm
    PROVE  version' = version
<1>0. Solo
  BY DEF SoloInv
<1>1. ASSUME NEW r \in Request, RequestStep(r)
      PROVE  version' = version
  <2>1. ~RejectFailed(r)
    BY <1>0 DEF RejectFailed, At, Solo, Process
  <2> QED BY <1>1, <2>1 DEF RequestStep, SignMark, ProviderComplete, MarkVerifying,
        CheckObject, StoreGraph, Enqueue, Fail, MarkRejected, DeleteRejected,
        FindVerifying, uploadRows
<1>2. ASSUME NEW p \in Process, Ending(p)
      PROVE  version' = version
  BY <1>2 DEF Ending, AbortMultipart, Erase, MarkExpired, uploadRows
<1>3. ASSUME NEW c \in Cleaner, CleanStep(c)
      PROVE  version' = version
  BY <1>2, <1>3 DEF CleanStep, CleanRead, RejectVersions, uploadRows, Process
<1>4. ASSUME NEW w \in Worker, ScanStep(w)
      PROVE  version' = version
  <2>1. ~StoreVerdict(w) /\ ~ScanRejectFailed(w)
    BY <1>0 DEF StoreVerdict, ScanRejectFailed, Solo
  <2> QED BY <1>4, <2>1 DEF ScanStep, TakeJob, FindVersion, ScanObject, Recheck, ScanFails,
        ScanFindVerifying, uploadRows
<1>5. ASSUME \/ \E r \in Request : SignRead(r) \/ CompleteRead(r) \/ AbortRead(r)
             \/ Stall \/ (\E p \in Process : Die(p)) \/ PassExpiry \/ UNCHANGED uploadVars
      PROVE  version' = version
  BY <1>5 DEF SignRead, CompleteRead, AbortRead, Stall, Die, PassExpiry, uploadVars, uploadRows
<1> QED BY <1>1, <1>2, <1>3, <1>4, <1>5 DEF UploadNext, Process

\* A verdict stands whatever requests overlap, die or abort, and whatever is
\* left undeleted: only a cleanup next to the scan, a stalled scan or a job
\* believed lost replaces one, however many requests, cleanups and workers
\* there are (FileScanService.completeScan and markFailed).
THEOREM VerdictStandsHolds == UploadSpec => VerdictStands
<1>1. UploadInv /\ SoloInv /\ [UploadNext]_uploadVars =>
        [(version \in {"ACTIVE", "REJECTED"}) =>
           (version' = version \/ Among({"race", "stall", "late job"}, mishaps))]_uploadVars
  BY VerdictKept DEF Calm
<1> QED BY <1>1, UploadInvFirst, UploadInvNext, SoloFirst, SoloNext, PTL
       DEF UploadSpec, VerdictStands

-----------------------------------------------------------------------------
(* One process at a time *)

\* Neither requests nor cleanups have overlapped.
Apart == ~Among({"overlap", "race"}, mishaps)

Alone == \A p, q \in Process : ~Idle(p) /\ ~Idle(q) => p = q

AloneInv == Apart => Alone

\* Where a process is after a step, and that the others are where they were.
LEMMA Went ==
    ASSUME Shapes, NEW p \in Process, NEW pc \in Step, Goto(p, pc)
    PROVE  /\ proc'[p].pc = pc /\ proc'[p].read = proc[p].read
           /\ \A q \in Process : q # p => proc'[q] = proc[q]
BY DEF Shapes, Goto

LEMMA WentHome ==
    ASSUME Shapes, NEW p \in Process, Done(p)
    PROVE  /\ proc'[p].pc = "idle"
           /\ \A q \in Process : q # p => proc'[q] = proc[q]
BY DEF Shapes, Done

LEMMA RequestMoves ==
    ASSUME Shapes, NEW r \in Request, RequestStep(r)
    PROVE  ~Idle(r) /\ \A q \in Process : q # r => proc'[q] = proc[q]
<1>0. r \in Process
  BY DEF Process
<1>1. ~Idle(r)
  BY DEF RequestStep, SignMark, ProviderComplete, MarkVerifying, CheckObject, StoreGraph,
         Enqueue, Fail, MarkRejected, DeleteRejected, FindVerifying, RejectFailed, At, Idle
<1>2. Done(r) \/ \E pc \in Step : Goto(r, pc)
  <2>1. {"verifying", "refusing", "checking", "storing", "enqueueing", "failing", "rejecting",
         "deleting", "failed"} \subseteq Step
    BY DEF Step
  <2> QED BY <2>1 DEF RequestStep, SignMark, ProviderComplete, MarkVerifying, CheckObject,
        StoreGraph, Enqueue, Fail, MarkRejected, DeleteRejected, FindVerifying, RejectFailed
<1> QED BY <1>0, <1>1, <1>2, Went, WentHome

LEMMA EndingMoves ==
    ASSUME Shapes, NEW p \in Process, Ending(p)
    PROVE  ~Idle(p) /\ \A q \in Process : q # p => proc'[q] = proc[q]
<1>1. ~Idle(p)
  BY DEF Ending, AbortMultipart, Erase, MarkExpired, At, Idle
<1>2. Done(p) \/ \E pc \in Step : Goto(p, pc)
  <2>1. {"erasing", "discarding", "expiring"} \subseteq Step
    BY DEF Step
  <2> QED BY <2>1 DEF Ending, AbortMultipart, Erase, MarkExpired
<1> QED BY <1>1, <1>2, Went, WentHome

LEMMA DiscardMoves ==
    ASSUME Shapes, NEW c \in Cleaner, RejectVersions(c)
    PROVE  /\ ~Idle(c) /\ proc'[c].pc = "erasing"
           /\ \A q \in Process : q # c => proc'[q] = proc[q]
<1>1. c \in Process /\ "erasing" \in Step
  BY DEF Process, Step
<1> QED BY <1>1, Went DEF RejectVersions, At, Idle

\* A process begins when every other is idle.
LEMMA BeginAlone ==
    ASSUME UploadInv, Apart', NEW p \in Process,
           NEW pc \in {"signing", "completing", "aborting"},
           NEW other, Begin(p, pc, other)
    PROVE  /\ \A q \in Process : Idle(q)
           /\ proc'[p] = [pc |-> pc, read |-> upload]
           /\ \A q \in Process : q # p => proc'[q] = proc[q]
<1>1. /\ IfSo("overlap", p \in Request /\ \E q \in Request : ~Idle(q)) \subseteq mishaps'
      /\ IfSo("race", IF p \in Request THEN \E q \in Cleaner : ~Idle(q)
                      ELSE \/ \E q \in Process : ~Idle(q)
                           \/ \E w \in Worker : scan[w].pc # "idle") \subseteq mishaps'
  BY Recorded DEF Begin, UploadInv
<1>2. "overlap" \notin mishaps' /\ "race" \notin mishaps'
  BY DEF Apart, Among
<1>3. ~(p \in Request /\ \E q \in Request : ~Idle(q))
  BY <1>1, <1>2 DEF IfSo
<1>4. ~(IF p \in Request THEN \E q \in Cleaner : ~Idle(q)
        ELSE \/ \E q \in Process : ~Idle(q)
             \/ \E w \in Worker : scan[w].pc # "idle")
  BY <1>1, <1>2 DEF IfSo
<1>5. \A q \in Process : Idle(q)
  BY <1>3, <1>4 DEF Process
<1> QED BY <1>5 DEF Begin, UploadInv, Shapes

\* While a process moves alone, the others stay idle.
LEMMA OthersIdle ==
    ASSUME Alone, NEW p \in Process, ~Idle(p),
           \A q \in Process : q # p => proc'[q] = proc[q]
    PROVE  Alone' /\ \A q \in Process : q # p => Idle(q) /\ proc'[q].pc = "idle"
BY DEF Alone, Idle

LEMMA AloneFirst == UploadInit => AloneInv
BY DEF UploadInit, AloneInv, Alone, Idle

LEMMA AloneNext == UploadInv /\ AloneInv /\ [UploadNext]_uploadVars => AloneInv'
<1> SUFFICES ASSUME UploadInv, AloneInv, [UploadNext]_uploadVars, Apart'
             PROVE  Alone'
  BY DEF AloneInv
<1>0. Alone /\ Shapes
  BY MishapsKept DEF AloneInv, Apart, Among, UploadInv
<1>1. ASSUME NEW p \in Process, NEW pc \in {"signing", "completing", "aborting"}, NEW other,
             Begin(p, pc, other)
      PROVE  Alone'
  BY <1>1, BeginAlone DEF Alone, Idle
<1>2. ASSUME NEW r \in Request, SignRead(r) \/ CompleteRead(r) \/ AbortRead(r)
      PROVE  Alone'
  BY <1>1, <1>2 DEF SignRead, CompleteRead, AbortRead, Process
<1>3. ASSUME NEW r \in Request, RequestStep(r)
      PROVE  Alone'
  BY <1>0, <1>3, RequestMoves, OthersIdle DEF Process
<1>4. ASSUME NEW p \in Process, Ending(p)
      PROVE  Alone'
  BY <1>0, <1>4, EndingMoves, OthersIdle
<1>5. ASSUME NEW c \in Cleaner, CleanStep(c)
      PROVE  Alone'
  BY <1>0, <1>1, <1>4, <1>5, DiscardMoves, OthersIdle DEF CleanStep, CleanRead, Process
<1>6. ASSUME NEW p \in Process, Die(p)
      PROVE  Alone'
  BY <1>0, <1>6, WentHome, OthersIdle DEF Die
<1>7. CASE UNCHANGED proc
  BY <1>0, <1>7 DEF Alone, Idle
<1>8. ASSUME (\E w \in Worker : ScanStep(w)) \/ Stall \/ PassExpiry \/ UNCHANGED uploadVars
      PROVE  UNCHANGED proc
  BY <1>8 DEF ScanStep, TakeJob, FindVersion, ScanObject, Recheck, StoreVerdict, ScanFails,
        ScanFindVerifying, ScanRejectFailed, Stall, PassExpiry, uploadVars
<1> QED BY <1>2, <1>3, <1>4, <1>5, <1>6, <1>7, <1>8 DEF UploadNext, Process

-----------------------------------------------------------------------------
(* A version that can be downloaded has its object *)

\* None of the mishaps that may part a version from its object.
Fair == ~Among({"overlap", "race", "stall", "late job", "lost commit"}, mishaps)

\* Until the graph is stored there is no version; who is about to erase the
\* object does it for an upload whose version is not, and will not be, ACTIVE.
BackedBy(p) ==
    /\ proc[p].pc \in {"signing", "completing", "verifying", "checking", "storing",
                       "rejecting", "refusing", "deleting"} => version = "none"
    /\ proc[p].pc = "storing" => object
    /\ proc[p].pc = "aborting" =>
         /\ proc[p].read = "REJECTED" => version \in {"none", "REJECTED"}
         /\ proc[p].read = "VERIFYING" /\ p \in Cleaner => version # "ACTIVE"
    /\ proc[p].pc = "discarding" => p \in Cleaner /\ version # "ACTIVE"
    /\ proc[p].pc = "erasing" => version \in {"none", "REJECTED"}

\* The session's status does not lag behind the version's.
BackedRows ==
    /\ upload \in Open => version = "none"
    /\ upload = "VERIFYING" => version # "ACTIVE"
    /\ upload = "REJECTED" => version \in {"none", "REJECTED"}
    /\ version \in {"VERIFYING", "ACTIVE"} => object

Backed == BackedRows /\ \A p \in Process : BackedBy(p)

BackedInv == Fair => Backed

LEMMA BackedStep ==
    ASSUME NEW p \in Process, \A q \in Process : q # p => proc'[q].pc = "idle",
           BackedBy(p)', BackedRows'
    PROVE  Backed'
<1>1. ASSUME NEW q \in Process, q # p
      PROVE  BackedBy(q)'
  BY <1>1 DEF BackedBy
<1> QED BY <1>1 DEF Backed

LEMMA RequestBacked ==
    ASSUME UploadInv, Solo, Alone, Backed, Fair', NEW r \in Request, RequestStep(r)
    PROVE  Backed'
<1> USE DEF At
<1>0. /\ r \in Process /\ Shapes /\ BackedBy(r) /\ BackedRows
      /\ \A q \in Process : q # r => proc'[q].pc = "idle"
      /\ upload \in SessionStatus /\ version \in VersionStatus
  BY RequestMoves, OthersIdle DEF UploadInv, Backed, Process, Shapes
<1> SUFFICES BackedBy(r)' /\ BackedRows'
  BY <1>0, BackedStep
<1>1. CASE SignMark(r)
  BY <1>0, <1>1, WentHome DEF SignMark, BackedBy, BackedRows, bucket, Open
<1>2. CASE ProviderComplete(r)
  <2>1. PICK pc \in {"verifying", "refusing"} : Goto(r, pc)
    BY <1>2 DEF ProviderComplete
  <2>2. proc'[r].pc \in {"verifying", "refusing"}
    BY <1>0, <2>1, Went DEF Step
  <2>3. version = "none" /\ version' = version /\ upload' = upload
    BY <1>0, <1>2 DEF ProviderComplete, BackedBy, uploadRows
  <2> QED BY <1>0, <2>2, <2>3 DEF BackedBy, BackedRows
<1>3. CASE MarkVerifying(r)
  <2>1. proc'[r].pc = "checking"
    BY <1>0, <1>3, Went DEF MarkVerifying, Step
  <2> QED BY <1>0, <1>3, <2>1 DEF MarkVerifying, BackedBy, BackedRows, Open
<1>4. CASE CheckObject(r)
  <2>1. proc'[r].pc = "storing"
    BY <1>0, <1>4, Went DEF CheckObject, Step
  <2> QED BY <1>0, <1>4, <2>1 DEF CheckObject, BackedBy, BackedRows, uploadRows, bucket
<1>5. CASE StoreGraph(r)
  <2>1. object /\ object' = object /\ upload' = version' /\ version' \in {"ACTIVE", "VERIFYING"}
    BY <1>0, <1>5 DEF StoreGraph, BackedBy, bucket
  <2>2. proc'[r].pc \in {"idle", "enqueueing"}
    <3>1. ~Suffer({"lost commit"})
      BY <1>0, Recorded DEF Fair, Among
    <3> QED BY <1>0, <1>5, <3>1, Went, WentHome DEF StoreGraph, Step
  <2> QED BY <2>1, <2>2 DEF BackedBy, BackedRows, Open
<1>6. CASE Enqueue(r)
  <2>1. proc'[r].pc \in {"idle", "failing"}
    BY <1>0, <1>6, Went, WentHome DEF Enqueue, Step
  <2> QED BY <1>0, <1>6, <2>1 DEF Enqueue, BackedBy, BackedRows, uploadRows, bucket
<1>7. CASE Fail(r)
  <2>1. proc'[r].pc = IF proc[r].pc = "enqueueing" THEN "failing" ELSE "rejecting"
    BY <1>0, <1>7, Went DEF Fail, Step
  <2> QED BY <1>0, <1>7, <2>1 DEF Fail, BackedBy, BackedRows, uploadRows, bucket
<1>8. CASE MarkRejected(r)
  <2>1. proc'[r].pc \in {"deleting", "idle"}
    BY <1>0, <1>8, Went, WentHome DEF MarkRejected, Step
  <2> QED BY <1>0, <1>8, <2>1 DEF MarkRejected, BackedBy, BackedRows, bucket, Open
<1>9. CASE DeleteRejected(r)
  BY <1>0, <1>9, WentHome DEF DeleteRejected, BackedBy, BackedRows, uploadRows
<1>10. CASE FindVerifying(r)
  <2>1. proc'[r].pc \in {"failed", "idle"}
    BY <1>0, <1>10, Went, WentHome DEF FindVerifying, Step
  <2> QED BY <1>0, <1>10, <2>1 DEF FindVerifying, BackedBy, BackedRows, uploadRows, bucket
<1>11. CASE RejectFailed(r)
  <2>1. version = "VERIFYING"
    BY <1>0, <1>11 DEF RejectFailed, Solo
  <2>2. /\ proc'[r].pc = "idle" /\ version' = "REJECTED"
        /\ upload' = IF upload = "VERIFYING" THEN "REJECTED" ELSE upload
    BY <1>0, <1>11, WentHome DEF RejectFailed, Failed
  <2> QED BY <1>0, <2>1, <2>2 DEF BackedBy, BackedRows, Open
<1> QED BY <1>1, <1>2, <1>3, <1>4, <1>5, <1>6, <1>7, <1>8, <1>9, <1>10, <1>11 DEF RequestStep

LEMMA EndingBacked ==
    ASSUME UploadInv, Alone, Backed, NEW p \in Process, Ending(p)
    PROVE  Backed'
<1> USE DEF At
<1>0. /\ Shapes /\ BackedBy(p) /\ BackedRows
      /\ \A q \in Process : q # p => proc'[q].pc = "idle"
  BY EndingMoves, OthersIdle DEF UploadInv, Backed
<1> SUFFICES BackedBy(p)' /\ BackedRows'
  BY <1>0, BackedStep
<1>1. CASE AbortMultipart(p)
  <2>1. proc'[p].pc = IF proc[p].read = "REJECTED" THEN "erasing"
                      ELSE IF proc[p].read = "VERIFYING" /\ p \in Cleaner THEN "discarding"
                      ELSE "expiring"
    BY <1>0, <1>1, Went DEF AbortMultipart, Step
  <2>2. proc[p].pc = "aborting" /\ UNCHANGED <<upload, version, object>>
    BY <1>1 DEF AbortMultipart, uploadRows
  <2> QED BY <1>0, <2>1, <2>2 DEF BackedBy, BackedRows
<1>2. CASE Erase(p)
  <2>1. proc'[p].pc = "expiring"
    BY <1>0, <1>2, Went DEF Erase, Step
  <2> QED BY <1>0, <1>2, <2>1 DEF Erase, BackedBy, BackedRows, uploadRows
<1>3. CASE MarkExpired(p)
  BY <1>0, <1>3, WentHome DEF MarkExpired, BackedBy, BackedRows, bucket, Open
<1> QED BY <1>1, <1>2, <1>3 DEF Ending

LEMMA BeginBacked ==
    ASSUME UploadInv, Backed, Fair', NEW p \in Process,
           NEW pc \in {"signing", "completing", "aborting"},
           NEW other, Begin(p, pc, other), UNCHANGED <<uploadRows, bucket>>,
           pc \in {"signing", "completing"} => upload \in Open
    PROVE  Backed'
<1>1. Apart'
  BY DEF Fair, Apart, Among
<1>2. /\ \A q \in Process : q # p => proc'[q].pc = "idle"
      /\ proc'[p].pc = pc /\ proc'[p].read = upload
  BY <1>1, BeginAlone DEF Idle
<1>3. BackedRows /\ UNCHANGED <<upload, version, object>>
  BY DEF Backed, uploadRows, bucket
<1>4. BackedBy(p)' /\ BackedRows'
  BY <1>2, <1>3 DEF BackedBy, BackedRows
<1> QED BY <1>2, <1>4, BackedStep

LEMMA CleanBacked ==
    ASSUME UploadInv, Alone, Backed, Fair', NEW c \in Cleaner, CleanStep(c)
    PROVE  Backed'
<1>0. c \in Process
  BY DEF Process
<1>1. CASE CleanRead(c)
  BY <1>0, <1>1, BeginBacked DEF CleanRead
<1>2. CASE RejectVersions(c)
  <2>0. Shapes
    BY DEF UploadInv
  <2>1. /\ \A q \in Process : q # c => proc'[q].pc = "idle"
        /\ proc'[c].pc = "erasing"
    BY <1>0, <1>2, <2>0, DiscardMoves, OthersIdle
  <2>2. /\ version # "ACTIVE" /\ BackedRows /\ version \in VersionStatus
        /\ version' = IF version = "VERIFYING" THEN "REJECTED" ELSE version
        /\ upload' = upload /\ object' = object
    BY <1>0, <1>2, <2>0 DEF RejectVersions, At, Backed, BackedBy, bucket, Shapes
  <2>3. BackedBy(c)' /\ BackedRows'
    BY <2>1, <2>2 DEF BackedBy, BackedRows, VersionStatus
  <2> QED BY <1>0, <2>1, <2>3, BackedStep
<1>3. CASE Ending(c)
  BY <1>0, <1>3, EndingBacked
<1> QED BY <1>1, <1>2, <1>3 DEF CleanStep

\* A worker that decides finds the version undecided, and so its object there.
LEMMA DecidedBacked ==
    ASSUME UploadInv, Solo, Backed, NEW w \in Worker, scan[w].pc \in {"storing", "failed"},
           UNCHANGED <<proc, object>>, version' \in {"ACTIVE", "REJECTED"},
           upload' = IF upload = "VERIFYING" THEN version' ELSE upload
    PROVE  Backed'
<1>1. version = "VERIFYING" /\ BackedRows
  BY DEF Solo, Backed
<1>2. BackedRows'
  BY <1>1 DEF BackedRows, Open
<1>3. ASSUME NEW p \in Process
      PROVE  BackedBy(p)'
  <2>1. p \in Cleaner => Idle(p)
    BY DEF Solo
  <2>2. BackedBy(p)
    BY DEF Backed
  <2> QED BY <1>1, <2>1, <2>2 DEF BackedBy, Idle
<1> QED BY <1>2, <1>3 DEF Backed

LEMMA ScanBacked ==
    ASSUME UploadInv, Solo, Backed, NEW w \in Worker, ScanStep(w)
    PROVE  Backed'
<1>1. CASE StoreVerdict(w)
  BY <1>1, DecidedBacked DEF StoreVerdict, bucket
<1>2. CASE ScanRejectFailed(w)
  BY <1>2, DecidedBacked DEF ScanRejectFailed, Failed, bucket
<1>3. CASE ~StoreVerdict(w) /\ ~ScanRejectFailed(w)
  <2>1. UNCHANGED <<upload, version, object, proc>>
    BY <1>3 DEF ScanStep, TakeJob, FindVersion, ScanObject, Recheck, ScanFails,
                ScanFindVerifying, uploadRows, bucket
  <2> QED BY <2>1 DEF Backed, BackedRows, BackedBy
<1> QED BY <1>1, <1>2, <1>3

LEMMA BackedFirst == UploadInit => BackedInv
BY DEF UploadInit, BackedInv, Backed, BackedRows, BackedBy

LEMMA BackedNext ==
    UploadInv /\ SoloInv /\ AloneInv /\ BackedInv /\ [UploadNext]_uploadVars => BackedInv'
<1> SUFFICES ASSUME UploadInv, SoloInv, AloneInv, BackedInv, [UploadNext]_uploadVars, Fair'
             PROVE  Backed'
  BY DEF BackedInv
<1>0. Solo /\ Alone /\ Backed /\ Shapes
  BY MishapsKept DEF SoloInv, AloneInv, BackedInv, Fair, Calm, Apart, Among, UploadInv
<1>1. ASSUME NEW r \in Request, SignRead(r) \/ CompleteRead(r) \/ AbortRead(r)
      PROVE  Backed'
  <2>1. r \in Process
    BY DEF Process
  <2>2. CASE SignRead(r)
    BY <1>0, <2>1, <2>2, BeginBacked DEF SignRead
  <2>3. CASE CompleteRead(r)
    BY <1>0, <2>1, <2>3, BeginBacked DEF CompleteRead
  <2>4. CASE AbortRead(r)
    BY <1>0, <2>1, <2>4, BeginBacked DEF AbortRead
  <2> QED BY <1>1, <2>2, <2>3, <2>4
<1>2. ASSUME NEW r \in Request, RequestStep(r) \/ Ending(r)
      PROVE  Backed'
  BY <1>0, <1>2, RequestBacked, EndingBacked DEF Process
<1>3. ASSUME NEW c \in Cleaner, CleanStep(c)
      PROVE  Backed'
  BY <1>0, <1>3, CleanBacked
<1>4. ASSUME NEW w \in Worker, ScanStep(w)
      PROVE  Backed'
  BY <1>0, <1>4, ScanBacked
<1>5. ~Stall
  <2>1. ASSUME Stall PROVE FALSE
    BY <1>0, <2>1, Recorded DEF Stall, Fair, Among
  <2> QED BY <2>1
<1>6. ASSUME NEW p \in Process, Die(p)
      PROVE  Backed'
  <2>1. /\ \A q \in Process : q # p => proc'[q].pc = "idle"
        /\ proc'[p].pc = "idle" /\ UNCHANGED <<upload, version, object>>
    BY <1>0, <1>6, WentHome, OthersIdle DEF Die, uploadRows, bucket
  <2>2. BackedBy(p)' /\ BackedRows'
    BY <1>0, <2>1 DEF Backed, BackedBy, BackedRows
  <2> QED BY <2>1, <2>2, BackedStep
<1>7. CASE PassExpiry \/ UNCHANGED uploadVars
  <2>1. UNCHANGED <<upload, version, object, proc>>
    BY <1>7 DEF PassExpiry, uploadVars, uploadRows, bucket
  <2> QED BY <1>0, <2>1 DEF Backed, BackedRows, BackedBy
<1> QED BY <1>1, <1>2, <1>3, <1>4, <1>5, <1>6, <1>7 DEF UploadNext

\* What can be downloaded is in the bucket, whatever dies, is aborted or is
\* left undeleted, for any number of requests, cleanups and workers, as long
\* as requests, cleanup and scan take turns, no verdict is replaced and the
\* answer that a version is stored is not lost: then the paths that delete an
\* object (completeUploadSession's catch block, abortUploadSession,
\* expireUploads) see a version that is none or REJECTED.
THEOREM PublishedUnlessRacedHolds == UploadSpec => []PublishedUnlessRaced
<1>1. UploadInv /\ BackedInv => PublishedUnlessRaced
  BY DEF BackedInv, Backed, BackedRows, Fair, PublishedUnlessRaced, UploadInv, Shapes
<1> QED BY <1>1, UploadInvFirst, UploadInvNext, SoloFirst, SoloNext, AloneFirst, AloneNext,
           BackedFirst, BackedNext, PTL DEF UploadSpec

-----------------------------------------------------------------------------
(* An upload that is over leaves nothing behind *)

\* None of the mishaps that leave an object without a version.
Swept == ~Among({"undeleted", "death", "aborted", "overlap", "race"}, mishaps)

\* Who is about to end the session without erasing the object finds none.
ClearedBy(p) ==
    /\ proc[p].pc \in {"signing", "completing"} => upload \in Open
    /\ proc[p].pc = "aborting" =>
         /\ proc[p].read \in {"CREATED", "UPLOADING", "EXPIRED"} => ~object
         /\ proc[p].read = "VERIFYING" => p \in Cleaner
         /\ proc[p].read # "ACTIVE"
    /\ proc[p].pc = "expiring" => ~object

\* An open session has an object only while its completion is under way.
ClearedRows ==
    /\ upload = "EXPIRED" => ~object
    /\ upload \in Open /\ object =>
         \E p \in Process : proc[p].pc \in {"verifying", "refusing", "rejecting"}

Cleared == ClearedRows /\ \A p \in Process : ClearedBy(p)

ClearedInv == Swept => Cleared

LEMMA ClearedStep ==
    ASSUME NEW p \in Process, \A q \in Process : q # p => proc'[q].pc = "idle",
           ClearedBy(p)', ClearedRows'
    PROVE  Cleared'
<1>1. ASSUME NEW q \in Process, q # p
      PROVE  ClearedBy(q)'
  BY <1>1 DEF ClearedBy
<1> QED BY <1>1 DEF Cleared

\* Alone, and not where the object of an open session is dealt with.
LEMMA NoObjectYet ==
    ASSUME Alone, Cleared, NEW p \in Process, upload \in Open,
           ~Idle(p) \/ \A q \in Process : Idle(q),
           proc[p].pc \notin {"verifying", "refusing", "rejecting"}
    PROVE  ~object
<1>1. \A q \in Process : proc[q].pc \notin {"verifying", "refusing", "rejecting"}
  BY DEF Alone, Idle
<1> QED BY <1>1 DEF Cleared, ClearedRows

LEMMA RequestCleared ==
    ASSUME UploadInv, Alone, Cleared, NEW r \in Request, RequestStep(r)
    PROVE  Cleared'
<1> USE DEF At
<1>0. /\ r \in Process /\ Shapes /\ ClearedBy(r) /\ ~Idle(r)
      /\ \A q \in Process : q # r => proc'[q].pc = "idle"
      /\ upload = "EXPIRED" => ~object
  BY RequestMoves, OthersIdle DEF UploadInv, Cleared, ClearedRows, Process
<1>00. upload \in Open /\ proc[r].pc \notin {"verifying", "refusing", "rejecting"} => ~object
  BY <1>0, NoObjectYet
<1> SUFFICES ClearedBy(r)' /\ ClearedRows'
  BY <1>0, ClearedStep
<1>1. CASE SignMark(r)
  <2>1. /\ proc'[r].pc = "idle" /\ upload' = "UPLOADING" /\ object' = object
        /\ proc[r].pc = "signing"
    BY <1>0, <1>1, WentHome DEF SignMark, bucket
  <2>2. ~object
    BY <1>0, <1>00, <2>1 DEF ClearedBy
  <2> QED BY <2>1, <2>2 DEF ClearedBy, ClearedRows
<1>2. CASE ProviderComplete(r)
  <2>1. PICK pc \in {"verifying", "refusing"} : Goto(r, pc)
    BY <1>2 DEF ProviderComplete
  <2>2. proc'[r].pc \in {"verifying", "refusing"}
    BY <1>0, <2>1, Went DEF Step
  <2>3. upload \in Open /\ upload' = upload
    BY <1>0, <1>2 DEF ProviderComplete, ClearedBy, uploadRows
  <2> QED BY <1>0, <2>2, <2>3 DEF ClearedBy, ClearedRows, Open
<1>3. CASE MarkVerifying(r)
  <2>1. proc'[r].pc = "checking"
    BY <1>0, <1>3, Went DEF MarkVerifying, Step
  <2> QED BY <1>3, <2>1 DEF MarkVerifying, ClearedBy, ClearedRows, Open
<1>4. CASE CheckObject(r)
  <2>1. proc'[r].pc = "storing" /\ UNCHANGED <<upload, object>> /\ proc[r].pc = "checking"
    BY <1>0, <1>4, Went DEF CheckObject, Step, uploadRows, bucket
  <2> QED BY <1>0, <1>00, <2>1 DEF ClearedBy, ClearedRows
<1>5. CASE StoreGraph(r)
  <2>1. upload' \in {"ACTIVE", "VERIFYING"}
    BY <1>5 DEF StoreGraph
  <2>2. proc'[r].pc \in {"idle", "enqueueing", "rejecting"}
    BY <1>0, <1>5, Went, WentHome DEF StoreGraph, Step
  <2> QED BY <2>1, <2>2 DEF ClearedBy, ClearedRows, Open
<1>6. CASE Enqueue(r)
  <2>1. /\ proc'[r].pc \in {"idle", "failing"} /\ UNCHANGED <<upload, object>>
        /\ proc[r].pc = "enqueueing"
    BY <1>0, <1>6, Went, WentHome DEF Enqueue, Step, uploadRows, bucket
  <2> QED BY <1>0, <1>00, <2>1 DEF ClearedBy, ClearedRows
<1>7. CASE Fail(r)
  <2>1. /\ proc'[r].pc = IF proc[r].pc = "enqueueing" THEN "failing" ELSE "rejecting"
        /\ UNCHANGED <<upload, object>>
    BY <1>0, <1>7, Went DEF Fail, Step, uploadRows, bucket
  <2> QED BY <1>0, <1>00, <2>1 DEF ClearedBy, ClearedRows
<1>8. CASE MarkRejected(r)
  <2>1. proc'[r].pc \in {"deleting", "idle"}
    BY <1>0, <1>8, Went, WentHome DEF MarkRejected, Step
  <2> QED BY <1>8, <2>1 DEF MarkRejected, ClearedBy, ClearedRows, Open
<1>9. CASE DeleteRejected(r)
  <2>1. proc'[r].pc = "idle" /\ upload' = upload /\ proc[r].pc = "deleting"
    BY <1>0, <1>9, WentHome DEF DeleteRejected, uploadRows
  <2>2. object' => object
    BY <1>9, Deleting DEF DeleteRejected
  <2> QED BY <1>0, <1>00, <2>1, <2>2 DEF ClearedBy, ClearedRows
<1>10. CASE FindVerifying(r)
  <2>1. /\ proc'[r].pc \in {"failed", "idle"} /\ UNCHANGED <<upload, object>>
        /\ proc[r].pc = "failing"
    BY <1>0, <1>10, Went, WentHome DEF FindVerifying, Step, uploadRows, bucket
  <2> QED BY <1>0, <1>00, <2>1 DEF ClearedBy, ClearedRows
<1>11. CASE RejectFailed(r)
  <2>1. /\ proc'[r].pc = "idle" /\ object' = object /\ proc[r].pc = "failed"
        /\ upload' = IF upload = "VERIFYING" THEN "REJECTED" ELSE upload
    BY <1>0, <1>11, WentHome DEF RejectFailed, Failed, bucket
  <2> QED BY <1>0, <1>00, <2>1 DEF ClearedBy, ClearedRows, Open
<1> QED BY <1>1, <1>2, <1>3, <1>4, <1>5, <1>6, <1>7, <1>8, <1>9, <1>10, <1>11 DEF RequestStep

LEMMA EndingCleared ==
    ASSUME UploadInv, Alone, Cleared, Swept', NEW p \in Process, Ending(p)
    PROVE  Cleared'
<1> USE DEF At
<1>0. /\ Shapes /\ ClearedBy(p) /\ ~Idle(p)
      /\ \A q \in Process : q # p => proc'[q].pc = "idle"
      /\ upload = "EXPIRED" => ~object
  BY EndingMoves, OthersIdle DEF UploadInv, Cleared, ClearedRows
<1>00. upload \in Open /\ proc[p].pc \notin {"verifying", "refusing", "rejecting"} => ~object
  BY <1>0, NoObjectYet
<1> SUFFICES ClearedBy(p)' /\ ClearedRows'
  BY <1>0, ClearedStep
<1>1. CASE AbortMultipart(p)
  <2>1. proc'[p].pc = IF proc[p].read = "REJECTED" THEN "erasing"
                      ELSE IF proc[p].read = "VERIFYING" /\ p \in Cleaner THEN "discarding"
                      ELSE "expiring"
    BY <1>0, <1>1, Went DEF AbortMultipart, Step
  <2>2. proc[p].pc = "aborting" /\ UNCHANGED <<upload, object>>
    BY <1>1 DEF AbortMultipart, uploadRows
  <2>3. proc[p].read \in SessionStatus
    BY <1>0 DEF Shapes
  <2>4. proc'[p].pc = "expiring" => ~object
    BY <1>0, <2>1, <2>2, <2>3 DEF ClearedBy, SessionStatus
  <2>5. proc'[p].pc \in {"erasing", "discarding", "expiring"}
    BY <2>1
  <2> QED BY <1>0, <1>00, <2>2, <2>4, <2>5 DEF ClearedBy, ClearedRows
<1>2. CASE Erase(p)
  <2>1. proc'[p].pc = "expiring" /\ upload' = upload
    BY <1>0, <1>2, Went DEF Erase, Step, uploadRows
  <2>2. ~Suffer({"undeleted"})
    <3>1. ASSUME Suffer({"undeleted"}) PROVE FALSE
      BY <1>0, <3>1, Recorded DEF Swept, Among
    <3> QED BY <3>1
  <2>3. ~object'
    BY <1>2, <2>2 DEF Erase, DeleteOrNot
  <2> QED BY <2>1, <2>3 DEF ClearedBy, ClearedRows
<1>3. CASE MarkExpired(p)
  BY <1>0, <1>3, WentHome DEF MarkExpired, ClearedBy, ClearedRows, bucket, Open
<1> QED BY <1>1, <1>2, <1>3 DEF Ending

LEMMA BeginCleared ==
    ASSUME UploadInv, Alone, Cleared, Swept', NEW p \in Process,
           NEW pc \in {"signing", "completing", "aborting"},
           NEW other, Begin(p, pc, other), UNCHANGED <<uploadRows, bucket>>,
           pc \in {"signing", "completing"} => upload \in Open,
           pc = "aborting" => upload # "ACTIVE" /\ (upload = "VERIFYING" => p \in Cleaner)
    PROVE  Cleared'
<1>1. Apart'
  BY DEF Swept, Apart, Among
<1>2. /\ \A q \in Process : Idle(q)
      /\ \A q \in Process : q # p => proc'[q].pc = "idle"
      /\ proc'[p].pc = pc /\ proc'[p].read = upload
  BY <1>1, BeginAlone DEF Idle
<1>3. UNCHANGED <<upload, object>>
  BY DEF uploadRows, bucket
<1>4. (upload \in Open => ~object) /\ (upload = "EXPIRED" => ~object)
  BY <1>2 DEF Cleared, ClearedRows, Idle
<1>5. ClearedBy(p)'
  BY <1>2, <1>3, <1>4 DEF ClearedBy, Open
<1>6. ClearedRows'
  BY <1>3, <1>4 DEF ClearedRows
<1> QED BY <1>2, <1>5, <1>6, ClearedStep

LEMMA CleanCleared ==
    ASSUME UploadInv, Alone, Cleared, Swept', NEW c \in Cleaner, CleanStep(c)
    PROVE  Cleared'
<1>0. c \in Process
  BY DEF Process
<1>1. CASE CleanRead(c)
  BY <1>0, <1>1, BeginCleared DEF CleanRead
<1>2. CASE RejectVersions(c)
  <2>0. Shapes
    BY DEF UploadInv
  <2>1. /\ \A q \in Process : q # c => proc'[q].pc = "idle"
        /\ proc'[c].pc = "erasing" /\ ~Idle(c)
    BY <1>0, <1>2, <2>0, DiscardMoves, OthersIdle
  <2>2. upload' = upload /\ object' = object /\ proc[c].pc = "discarding"
    BY <1>2 DEF RejectVersions, At, bucket
  <2>3. (upload \in Open => ~object) /\ (upload = "EXPIRED" => ~object)
    BY <1>0, <2>1, <2>2, NoObjectYet DEF Cleared, ClearedRows
  <2>4. ClearedBy(c)' /\ ClearedRows'
    BY <2>1, <2>2, <2>3 DEF ClearedBy, ClearedRows
  <2> QED BY <1>0, <2>1, <2>4, ClearedStep
<1>3. CASE Ending(c)
  BY <1>0, <1>3, EndingCleared
<1> QED BY <1>1, <1>2, <1>3 DEF CleanStep

\* The scan leaves the object alone, and sets the status of a session that is
\* VERIFYING only.
LEMMA ScanCleared ==
    ASSUME Cleared, UNCHANGED <<proc, object>>,
           upload' = upload \/ (upload = "VERIFYING" /\ upload' \in {"ACTIVE", "REJECTED"})
    PROVE  Cleared'
<1>1. ClearedRows'
  BY DEF Cleared, ClearedRows, Open
<1>2. ASSUME NEW p \in Process
      PROVE  ClearedBy(p)'
  <2>1. ClearedBy(p)
    BY DEF Cleared
  <2> QED BY <2>1 DEF ClearedBy, Open
<1> QED BY <1>1, <1>2 DEF Cleared

LEMMA ClearedFirst == UploadInit => ClearedInv
BY DEF UploadInit, ClearedInv, Cleared, ClearedRows, ClearedBy

LEMMA ClearedNext ==
    UploadInv /\ AloneInv /\ ClearedInv /\ [UploadNext]_uploadVars => ClearedInv'
<1> SUFFICES ASSUME UploadInv, AloneInv, ClearedInv, [UploadNext]_uploadVars, Swept'
             PROVE  Cleared'
  BY DEF ClearedInv
<1>0. Alone /\ Cleared /\ Shapes
  BY MishapsKept DEF AloneInv, ClearedInv, Swept, Apart, Among, UploadInv
<1>1. ASSUME NEW r \in Request, SignRead(r) \/ CompleteRead(r) \/ AbortRead(r)
      PROVE  Cleared'
  <2>1. r \in Process
    BY DEF Process
  <2>2. CASE SignRead(r)
    BY <1>0, <2>1, <2>2, BeginCleared DEF SignRead
  <2>3. CASE CompleteRead(r)
    BY <1>0, <2>1, <2>3, BeginCleared DEF CompleteRead
  <2>4. CASE AbortRead(r)
    <3>1. IfSo("aborted", upload = "VERIFYING") \subseteq mishaps'
      BY <1>0, <2>4, Recorded DEF AbortRead, Begin
    <3>2. upload # "VERIFYING"
      BY <3>1 DEF IfSo, Swept, Among
    <3> QED BY <1>0, <2>1, <2>4, <3>2, BeginCleared DEF AbortRead
  <2> QED BY <1>1, <2>2, <2>3, <2>4
<1>2. ASSUME NEW r \in Request, RequestStep(r) \/ Ending(r)
      PROVE  Cleared'
  BY <1>0, <1>2, RequestCleared, EndingCleared DEF Process
<1>3. ASSUME NEW c \in Cleaner, CleanStep(c)
      PROVE  Cleared'
  BY <1>0, <1>3, CleanCleared
<1>4. ASSUME NEW w \in Worker, ScanStep(w)
      PROVE  Cleared'
  <2>1. UNCHANGED <<proc, object>>
    BY <1>4 DEF ScanStep, TakeJob, FindVersion, ScanObject, Recheck, StoreVerdict, ScanFails,
                ScanFindVerifying, ScanRejectFailed, bucket
  <2>2. upload' = upload \/ (upload = "VERIFYING" /\ upload' \in {"ACTIVE", "REJECTED"})
    BY <1>4 DEF ScanStep, TakeJob, FindVersion, ScanObject, Recheck, StoreVerdict, ScanFails,
                ScanFindVerifying, ScanRejectFailed, Failed, uploadRows
  <2> QED BY <1>0, <2>1, <2>2, ScanCleared
<1>5. CASE Stall \/ PassExpiry \/ UNCHANGED uploadVars
  <2>1. UNCHANGED <<upload, object, proc>>
    BY <1>5 DEF Stall, PassExpiry, uploadVars, uploadRows, bucket
  <2> QED BY <1>0, <2>1, ScanCleared
<1>6. ASSUME NEW p \in Process, Die(p)
      PROVE  FALSE
  BY <1>0, <1>6, Recorded DEF Die, Swept, Among
<1> QED BY <1>1, <1>2, <1>3, <1>4, <1>5, <1>6 DEF UploadNext

\* An upload that ended expired has no object without a version that can be
\* downloaded, however often the scan stalls or fails and however many
\* requests, cleanups and workers there are, unless a delete failed, a request
\* died, a verification was aborted or requests and cleanups overlapped
\* (abortUploadSession and expireUploads, which mark the session last).
THEOREM NothingLeftBehindHolds == UploadSpec => []NothingLeftBehind
<1>1. ClearedInv => NothingLeftBehind
  BY DEF ClearedInv, Cleared, ClearedRows, Swept, NothingLeftBehind
<1> QED BY <1>1, UploadInvFirst, UploadInvNext, AloneFirst, AloneNext, ClearedFirst,
           ClearedNext, PTL DEF UploadSpec

=============================================================================
