---------------------------- MODULE DriveUpload ----------------------------
(***************************************************************************)
(* One upload of the drive of apps/api, from its session to its file       *)
(* version: the requests that sign, complete and abort it (DriveService),  *)
(* the malware scan (FileScanService and its BullMQ job) and the daily     *)
(* cleanup (DriveCleanupService), over PostgreSQL and an object store.     *)
(*                                                                         *)
(* Uploads share nothing but sibling names: a name that is taken is one of *)
(* the ways StoreGraph fails.  Every await is a place where others step    *)
(* in.  mishaps records which of the things that should be rare have       *)
(* happened; no code reads it, and the properties say which of them they   *)
(* do not survive.                                                         *)
(***************************************************************************)
EXTENDS Mishaps

CONSTANTS
    Request,    \* concurrent requests
    Cleaner,    \* processes that run the daily cleanup
    Worker,     \* workers of the scan queue
    None,       \* no worker
    Attempts,   \* attempts of a scan job
    MaxStalls,  \* BullMQ's maxStalledCount
    Allowed,    \* the mishaps that may happen
    MaxMishaps  \* bound on how many kinds of them do

Mishap == {"overlap", "race", "undeleted", "death", "aborted", "stall", "late job",
           "lost commit"}

ASSUME UploadAssumption ==
    /\ Attempts \in Nat \ {0} /\ MaxStalls \in Nat /\ MaxMishaps \in Nat
    /\ Allowed \subseteq Mishap /\ None \notin Worker
    /\ Request \cap Cleaner = {}

VARIABLES
    upload,   \* status of the upload_sessions row
    due,      \* has expiresAt passed?
    parts,    \* the multipart upload, at the object store
    object,   \* is the object in the bucket?
    version,  \* status of the file_versions row
    content,  \* what was uploaded, or that its kind is exempt from scanning
    proc,     \* where requests and cleanups are, and the status they read
    job,      \* the scan job
    scan,     \* where workers are, and the verdict they bring
    mishaps

uploadRows == <<upload, version>>
bucket == <<parts, object>>
queue == <<job, scan>>
uploadVars == <<uploadRows, bucket, due, content, proc, queue, mishaps>>

-----------------------------------------------------------------------------
Process == Request \cup Cleaner

SessionStatus == {"CREATED", "UPLOADING", "VERIFYING", "ACTIVE", "REJECTED", "EXPIRED"}
Content == {"clean", "infected", "malformed", "exempt"}

VersionStatus == {"none", "VERIFYING", "ACTIVE", "REJECTED"}

Step ==
    {"idle", "signing", "completing", "verifying", "checking", "storing", "enqueueing",
     "failing", "failed", "rejecting", "refusing", "deleting", "aborting",
     "discarding", "erasing", "expiring"}

Job == [state : {"none", "waiting", "active", "done", "failed"},
        made : 0 .. Attempts, stalls : 0 .. MaxStalls, owner : Worker \cup {None}]

Scan == [pc : {"idle", "finding", "scanning", "rechecking", "storing", "unheard", "failing", "failed"},
         clean : BOOLEAN]

NoScan == [pc |-> "idle", clean |-> FALSE]

Open == {"CREATED", "UPLOADING"}

Idle(p) == proc[p].pc = "idle"
At(p, pc) == proc[p].pc = pc
Goto(p, pc) == proc' = [proc EXCEPT ![p].pc = pc]
Done(p) == proc' = [proc EXCEPT ![p] = [pc |-> "idle", read |-> "CREATED"]]

Suffer(kinds) ==
    /\ Recordable(kinds, mishaps, Allowed, MaxMishaps)
    /\ mishaps' = mishaps \cup kinds

\* A request or a cleanup begins.
Begin(p, pc, other) ==
    /\ Idle(p)
    /\ proc' = [proc EXCEPT ![p] = [pc |-> pc, read |-> upload]]
    /\ Suffer(other
         \cup IfSo("overlap", p \in Request /\ \E q \in Request : ~Idle(q))
         \cup IfSo("race", IF p \in Request THEN \E q \in Cleaner : ~Idle(q)
                         ELSE \/ \E q \in Process : ~Idle(q)
                              \/ \E w \in Worker : scan[w].pc # "idle"))

-----------------------------------------------------------------------------
UploadInit ==
    /\ upload = "CREATED" /\ due = FALSE
    /\ parts = "open" /\ object = FALSE
    /\ version = "none"
    /\ content \in Content
    /\ proc = [p \in Process |-> [pc |-> "idle", read |-> "CREATED"]]
    /\ job = [state |-> "none", made |-> 0, stalls |-> 0, owner |-> None]
    /\ scan = [w \in Worker |-> NoScan]
    /\ mishaps = {}

-----------------------------------------------------------------------------
(* signUploadParts and completeUploadSession *)

SignRead(r) ==
    /\ upload \in Open /\ ~due
    /\ Begin(r, "signing", {})
    /\ UNCHANGED <<uploadRows, bucket, due, content, queue>>

\* The update names the row by its id alone.
SignMark(r) ==
    /\ At(r, "signing")
    /\ upload' = "UPLOADING"
    /\ Done(r)
    /\ UNCHANGED <<version, bucket, due, content, queue, mishaps>>

\* Nothing here looks at expiresAt.
CompleteRead(r) ==
    /\ upload \in Open
    /\ Begin(r, "completing", {})
    /\ UNCHANGED <<uploadRows, bucket, due, content, queue>>

\* An upload that was completed or aborted is gone; the answer may be lost.
ProviderComplete(r) ==
    /\ At(r, "completing")
    /\ \/ /\ parts = "open"
          /\ parts' = "completed" /\ object' = TRUE
          /\ \E pc \in {"verifying", "refusing"} : Goto(r, pc)
       \/ /\ Goto(r, "refusing")
          /\ UNCHANGED bucket
    /\ UNCHANGED <<uploadRows, due, content, queue, mishaps>>

MarkVerifying(r) ==
    /\ At(r, "verifying")
    /\ upload' = "VERIFYING"
    /\ Goto(r, "checking")
    /\ UNCHANGED <<version, bucket, due, content, queue, mishaps>>

\* Size, content type and magic bytes.  (CheckSkipped: not compared.)
CheckSkipped(r) ==
    /\ At(r, "checking")
    /\ object
    /\ Goto(r, "storing")
    /\ UNCHANGED <<uploadRows, bucket, due, content, queue, mishaps>>
CheckObject(r) ==
    /\ At(r, "checking")
    /\ object /\ content # "malformed"
    /\ Goto(r, "storing")
    /\ UNCHANGED <<uploadRows, bucket, due, content, queue, mishaps>>

\* One transaction.  The object key is unique.  When the answer to the commit
\* is lost, the catch block knows of no version.
StoreGraph(r) ==
    /\ At(r, "storing")
    /\ version = "none"
    /\ LET initial == IF content = "exempt" THEN "ACTIVE" ELSE "VERIFYING" IN
         /\ version' = initial
         /\ upload' = initial
    /\ \/ /\ IF content = "exempt" THEN Done(r) ELSE Goto(r, "enqueueing")
          /\ UNCHANGED mishaps
       \/ Goto(r, "rejecting") /\ Suffer({"lost commit"})
    /\ UNCHANGED <<bucket, due, content, queue>>

\* queue.add; its answer may be lost.
Enqueue(r) ==
    /\ At(r, "enqueueing")
    /\ \/ Done(r) /\ UNCHANGED mishaps
       \/ Goto(r, "failing") /\ Suffer({"late job"})
    /\ job' = [job EXCEPT !.state = "waiting"]
    /\ UNCHANGED <<uploadRows, bucket, due, content, scan>>

\* A statement throws: to the catch block.
Fail(r) ==
    /\ \/ At(r, "verifying") \/ At(r, "checking") \/ At(r, "storing")
       \/ At(r, "enqueueing")
    /\ Goto(r, IF At(r, "enqueueing") THEN "failing" ELSE "rejecting")
    /\ UNCHANGED <<uploadRows, bucket, due, content, queue, mishaps>>

MarkRejected(r) ==
    /\ At(r, "rejecting") \/ At(r, "refusing")
    /\ upload' = "REJECTED"
    /\ IF At(r, "rejecting") THEN Goto(r, "deleting") ELSE Done(r)
    /\ UNCHANGED <<version, bucket, due, content, queue, mishaps>>

\* deleteObject(...).catch(() => undefined)
DeleteOrNot ==
    \/ object' = FALSE /\ UNCHANGED mishaps
    \/ UNCHANGED object /\ Suffer({"undeleted"})

DeleteRejected(r) ==
    /\ At(r, "deleting")
    /\ DeleteOrNot
    /\ Done(r)
    /\ UNCHANGED <<uploadRows, parts, due, content, queue>>

\* FileScanService.markFailed: what it reads, and rejectFailedScan.
Failed == version' = "REJECTED" /\ upload' = IF upload = "VERIFYING" THEN "REJECTED" ELSE upload

FindVerifying(r) ==
    /\ At(r, "failing")
    /\ IF version = "VERIFYING" THEN Goto(r, "failed") ELSE Done(r)
    /\ UNCHANGED <<uploadRows, bucket, due, content, queue, mishaps>>

RejectFailed(r) ==
    /\ At(r, "failed")
    /\ Failed
    /\ Done(r)
    /\ UNCHANGED <<bucket, due, content, queue, mishaps>>

-----------------------------------------------------------------------------
(* abortUploadSession and expireUploads *)

AbortRead(r) ==
    /\ upload # "ACTIVE"
    /\ Begin(r, "aborting", IfSo("aborted", upload = "VERIFYING"))
    /\ UNCHANGED <<uploadRows, bucket, due, content, queue>>

\* (CleanSkips: it does not select VERIFYING.)
CleanSkips(c) ==
    /\ due /\ upload \in Open \cup {"REJECTED"}
    /\ Begin(c, "aborting", {})
    /\ UNCHANGED <<uploadRows, bucket, due, content, queue>>
CleanRead(c) ==
    /\ due /\ upload \notin {"ACTIVE", "EXPIRED"}
    /\ Begin(c, "aborting", {})
    /\ UNCHANGED <<uploadRows, bucket, due, content, queue>>

\* Errors are ignored.  (AbortKeepsObject: a rejected upload's object is not
\* erased.)
AbortKeepsObject(p) ==
    /\ At(p, "aborting")
    /\ \/ parts = "open" /\ parts' = "aborted"
       \/ UNCHANGED parts
    /\ Goto(p, IF proc[p].read = "VERIFYING" /\ p \in Cleaner THEN "discarding" ELSE "expiring")
    /\ UNCHANGED <<uploadRows, object, due, content, queue, mishaps>>
AbortMultipart(p) ==
    /\ At(p, "aborting")
    /\ \/ parts = "open" /\ parts' = "aborted"
       \/ UNCHANGED parts
    /\ Goto(p, IF proc[p].read = "REJECTED" THEN "erasing"
               ELSE IF proc[p].read = "VERIFYING" /\ p \in Cleaner THEN "discarding"
               ELSE "expiring")
    /\ UNCHANGED <<uploadRows, object, due, content, queue, mishaps>>

RejectVersions(c) ==
    /\ At(c, "discarding")
    /\ version' = IF version = "VERIFYING" THEN "REJECTED" ELSE version
    /\ Goto(c, "erasing")
    /\ UNCHANGED <<upload, bucket, due, content, queue, mishaps>>

Erase(p) ==
    /\ At(p, "erasing")
    /\ DeleteOrNot
    /\ Goto(p, "expiring")
    /\ UNCHANGED <<uploadRows, parts, due, content, queue>>

MarkExpired(p) ==
    /\ At(p, "expiring")
    /\ upload' = "EXPIRED"
    /\ Done(p)
    /\ UNCHANGED <<version, bucket, due, content, queue, mishaps>>

-----------------------------------------------------------------------------
(* The scan job *)

TakeJob(w) ==
    /\ scan[w].pc = "idle" /\ job.state = "waiting"
    /\ job' = [job EXCEPT !.state = "active", !.owner = w]
    /\ scan' = [scan EXCEPT ![w].pc = "finding"]
    /\ Suffer(IfSo("race", \E c \in Cleaner : ~Idle(c)))
    /\ UNCHANGED <<uploadRows, bucket, due, content, proc>>

\* Only the worker that holds the job's lock can end it.  (EndJobHeld: the
\* lock is not given back.)
EndJobHeld(w) ==
    /\ scan' = [scan EXCEPT ![w] = NoScan]
    /\ job' = IF job.owner = w THEN [job EXCEPT !.state = "done"] ELSE job
EndJob(w) ==
    /\ scan' = [scan EXCEPT ![w] = NoScan]
    /\ job' = IF job.owner = w THEN [job EXCEPT !.state = "done", !.owner = None] ELSE job

FindVersion(w) ==
    /\ scan[w].pc = "finding"
    /\ IF version = "VERIFYING"
         THEN scan' = [scan EXCEPT ![w].pc = "scanning"] /\ UNCHANGED job
         ELSE EndJob(w)
    /\ UNCHANGED <<uploadRows, bucket, due, content, proc, mishaps>>

ScanObject(w) ==
    /\ scan[w].pc = "scanning"
    /\ object
    /\ scan' = [scan EXCEPT ![w] = [pc |-> "rechecking", clean |-> content # "infected"]]
    /\ UNCHANGED <<uploadRows, bucket, due, content, proc, job, mishaps>>

Recheck(w) ==
    /\ scan[w].pc = "rechecking"
    /\ IF version = "VERIFYING"
         THEN scan' = [scan EXCEPT ![w].pc = "storing"] /\ UNCHANGED job
         ELSE EndJob(w)
    /\ UNCHANGED <<uploadRows, bucket, due, content, proc, mishaps>>

\* completeScan: the version whatever its status, the session if VERIFYING.
\* Its answer may be lost.  (StoreVersionOnly: the session is left alone.)
Answered(w) ==
    \/ EndJob(w)
    \/ scan' = [scan EXCEPT ![w].pc = "unheard"] /\ UNCHANGED job
StoreVersionOnly(w) ==
    /\ scan[w].pc = "storing"
    /\ version' = IF scan[w].clean THEN "ACTIVE" ELSE "REJECTED"
    /\ Answered(w)
    /\ UNCHANGED <<upload, bucket, due, content, proc, mishaps>>
StoreVerdict(w) ==
    /\ scan[w].pc = "storing"
    /\ LET verdict == IF scan[w].clean THEN "ACTIVE" ELSE "REJECTED" IN
         /\ version' = verdict
         /\ upload' = IF upload = "VERIFYING" THEN verdict ELSE upload
    /\ Answered(w)
    /\ UNCHANGED <<bucket, due, content, proc, mishaps>>

\* process() throws.  After the last attempt, onFailed.
ScanFails(w) ==
    /\ scan[w].pc \in {"finding", "scanning", "rechecking", "storing", "unheard"}
    /\ IF job.owner # w
         THEN scan' = [scan EXCEPT ![w] = NoScan] /\ UNCHANGED job
         ELSE LET last == job.made + 1 = Attempts IN
              /\ job' = [job EXCEPT !.made = job.made + 1, !.owner = None,
                                    !.state = IF last THEN "failed" ELSE "waiting"]
              /\ scan' = [scan EXCEPT ![w] =
                            IF last THEN [pc |-> "failing", clean |-> FALSE] ELSE NoScan]
    /\ UNCHANGED <<uploadRows, bucket, due, content, proc, mishaps>>

\* markFailed.  (ScanFindAny: whatever the version's status.)
ScanFindAny(w) ==
    /\ scan[w].pc = "failing"
    /\ scan' = [scan EXCEPT ![w].pc = "failed"]
    /\ UNCHANGED <<uploadRows, bucket, due, content, proc, job, mishaps>>
ScanFindVerifying(w) ==
    /\ scan[w].pc = "failing"
    /\ scan' = [scan EXCEPT ![w] = IF version = "VERIFYING"
                                     THEN [pc |-> "failed", clean |-> FALSE] ELSE NoScan]
    /\ UNCHANGED <<uploadRows, bucket, due, content, proc, job, mishaps>>

ScanRejectFailed(w) ==
    /\ scan[w].pc = "failed"
    /\ Failed
    /\ scan' = [scan EXCEPT ![w] = NoScan]
    /\ UNCHANGED <<bucket, due, content, proc, job, mishaps>>

\* The lock of an active job runs out, with its worker alive or dead.  A job
\* that has stalled too often fails with attempts left: onFailed returns.
Stall ==
    /\ job.state = "active"
    /\ Suffer({"stall"})
    /\ job' = [job EXCEPT !.owner = None,
                          !.state = IF job.stalls < MaxStalls THEN "waiting" ELSE "failed",
                          !.stalls = IF job.stalls < MaxStalls THEN job.stalls + 1 ELSE job.stalls]
    /\ \/ UNCHANGED scan
       \/ scan' = [scan EXCEPT ![job.owner] = NoScan]
    /\ UNCHANGED <<uploadRows, bucket, due, content, proc>>

-----------------------------------------------------------------------------
\* A process dies, or a statement outside the try block throws.  At most once.
Die(p) ==
    /\ ~Idle(p) /\ "death" \notin mishaps
    /\ Suffer({"death"})
    /\ Done(p)
    /\ UNCHANGED <<uploadRows, bucket, due, content, queue>>

PassExpiry ==
    /\ ~due
    /\ due' = TRUE
    /\ UNCHANGED <<uploadRows, bucket, content, proc, queue, mishaps>>

RequestStep(r) ==
    \/ SignMark(r) \/ ProviderComplete(r) \/ MarkVerifying(r) \/ CheckObject(r)
    \/ StoreGraph(r) \/ Enqueue(r) \/ Fail(r) \/ MarkRejected(r) \/ DeleteRejected(r)
    \/ FindVerifying(r) \/ RejectFailed(r)

Ending(p) == AbortMultipart(p) \/ Erase(p) \/ MarkExpired(p)

CleanStep(c) == CleanRead(c) \/ RejectVersions(c) \/ Ending(c)

ScanStep(w) ==
    \/ TakeJob(w) \/ FindVersion(w) \/ ScanObject(w) \/ Recheck(w) \/ StoreVerdict(w)
    \/ ScanFails(w) \/ ScanFindVerifying(w) \/ ScanRejectFailed(w)

UploadNext ==
    \/ \E r \in Request : SignRead(r) \/ CompleteRead(r) \/ AbortRead(r)
    \/ \E r \in Request : RequestStep(r) \/ Ending(r)
    \/ \E c \in Cleaner : CleanStep(c)
    \/ \E w \in Worker : ScanStep(w)
    \/ Stall
    \/ \E p \in Process : Die(p)
    \/ PassExpiry

\* What has begun goes on, workers take jobs, the cleanup runs every day, and
\* a day passes.
UploadFairness ==
    /\ \A r \in Request : WF_uploadVars(RequestStep(r) \/ Ending(r))
    /\ \A c \in Cleaner : WF_uploadVars(CleanStep(c))
    /\ \A w \in Worker : WF_uploadVars(ScanStep(w))
    /\ WF_uploadVars(PassExpiry)

UploadSpec == UploadInit /\ [][UploadNext]_uploadVars /\ UploadFairness
-----------------------------------------------------------------------------
\* Rows, object, handlers and job keep their shapes; a job runs under one lock,
\* and a version is stored only for a multipart upload that was completed.
UploadTypeOK ==
    /\ upload \in SessionStatus /\ version \in VersionStatus
    /\ due \in BOOLEAN /\ object \in BOOLEAN
    /\ parts \in {"open", "completed", "aborted"}
    /\ content \in Content
    /\ proc \in [Process -> [pc : Step, read : SessionStatus]]
    /\ job \in Job /\ scan \in [Worker -> Scan]
    /\ mishaps \subseteq Mishap
    /\ job.state = "active" <=> job.owner # None
    /\ object \/ version # "none" => parts = "completed"

\* Whatever races, fails or is retried, a version can be downloaded only if its
\* file passed the checks of its format and is exempt from scanning or clean
\* (docs: a hit, a timeout or an error of the provider fails closed).
OnlyCleanPublished ==
    version = "ACTIVE" =>
        content \in {"clean", "exempt"}

\* The object of a version that can be downloaded is there, unless requests for
\* the upload overlapped, one of them or the scan overlapped with the cleanup,
\* a verdict was replaced (VerdictStands), or the request that published the
\* version did not hear that it was stored, and took the upload back.
PublishedUnlessRaced ==
    version = "ACTIVE" /\ ~object =>
        Among({"overlap", "race", "stall", "late job", "lost commit"}, mishaps)

\* A version's verdict, once stored, stands, unless the scan ran alongside the
\* cleanup, a stalled run of itself, or the request that believed it not queued.
VerdictStands ==
    [][(version \in {"ACTIVE", "REJECTED"}) =>
         (version' = version \/ Among({"race", "stall", "late job"}, mishaps))]_uploadVars

\* Everything the upload had under way is over.
Quiet ==
    /\ \A p \in Process : Idle(p)
    /\ \A w \in Worker : scan[w].pc = "idle"
    /\ job.state \in {"none", "done", "failed"}

\* When an upload is over and expired, its object is gone unless it is the
\* object of a version that can be downloaded: what stays behind stays for
\* ever, and takes a delete that failed, a death inside a request, an abort of
\* an upload that was being verified, or overlapping requests or cleanups.
NothingLeftBehind ==
    Quiet /\ upload = "EXPIRED" /\ object /\ version # "ACTIVE" =>
        Among({"undeleted", "death", "aborted", "overlap", "race"}, mishaps)

\* A version does not stay in VERIFYING: the scan, the error path or, when the
\* job is lost, the cleanup decides it, unless the session was aborted while it
\* was being verified, overlapping requests or a cleanup reset its status, or
\* the request that stored it did not hear so: the session it rejects is one
\* whose versions the cleanup leaves alone.
VersionDecided ==
    version = "VERIFYING" ~>
        version # "VERIFYING" \/ Among({"aborted", "overlap", "race", "lost commit"}, mishaps)

\* The object of a version that can be downloaded is there: a completed upload
\* cannot be aborted, says abortUploadSession, and docs/developer/api/modules/
\* agent/drive.md calls the object immutable and the file's version stable.
PublishedKept == version = "ACTIVE" => object
=============================================================================
