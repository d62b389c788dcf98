--------------------------- MODULE DocumentQueue ---------------------------
(***************************************************************************)
(* Asynchronous ingestion of the documents of one case:                    *)
(*                                                                         *)
(*  - POST documents/{id}/enqueue-processing  publishes a job to SQS;      *)
(*  - handlers/worker.py takes a batch of messages, runs process_job of    *)
(*    services/document_worker.py for each in its own transaction and      *)
(*    answers the messages that failed (batchItemFailures);                *)
(*  - POST documents/{id}/process reprocesses a document at once;          *)
(*  - PATCH documents/{id} sets a status by hand, DELETE cases/{id}        *)
(*    archives the case.                                                   *)
(*                                                                         *)
(* A transaction is cut where it waits for a lock or reads what another    *)
(* may change (READ COMMITTED); what it writes is visible at its commit.   *)
(* SQS is external: it delivers at least once, and a message received      *)
(* MaxReceive times without an acknowledgement goes to the dead-letter     *)
(* queue.                                                                  *)
(***************************************************************************)
EXTENDS Naturals, Sequences, FiniteSets, SequencesExt

CONSTANTS
  Messages,    \* SQS messages
  JobOf,       \* the job_id each message carries
  DocOf,       \* the document of each job
  Attempt,     \* DocumentProcessingJob.attempt of each message
  Workers,     \* concurrent executions of document_processing_worker
  Users,       \* concurrent calls of process_document
  MaxAttempts, \* DOCUMENT_PROCESSING_MAX_ATTEMPTS
  MaxReceive,  \* RedrivePolicy.maxReceiveCount
  BatchSize,   \* batchSize of the event source
  Duplicates,  \* TRUE: SQS may deliver a message again while or after it is held
  Patches,     \* statuses that users set by hand
  None

Jobs == {JobOf[m] : m \in Messages}
Docs == {DocOf[j] : j \in Jobs}
Txs == Workers \cup Users
ExecStatus == {"queued", "running", "retrying", "completed", "failed", "skipped"}

ASSUME QueueAssumption ==
  /\ Workers \cap Users = {} /\ None \notin Txs
  /\ IsFiniteSet(Messages) /\ JobOf \in [Messages -> Jobs] /\ DocOf \in [Jobs -> Docs]
  /\ MaxAttempts \in Nat /\ MaxReceive \in Nat \ {0} /\ BatchSize \in Nat \ {0}
  /\ None \notin [status : ExecStatus, attempt : Nat] /\ None \notin Docs
  /\ Duplicates \in BOOLEAN /\ Attempt \in [Messages -> Nat \ {0}]

\* DOC_STATUS_REV: the words of the API for those of the column
DocStatus == {"pending_upload", "processed", "failed"}

ASSUME PatchAssumption == Patches \subseteq DocStatus

OcrStatus == {"pending", "done", "failed"}

\* What a text that OCR returns can hold; chunk_text makes no chunk of a blank one.
Texts == {"words", "blank"}

VARIABLES
  exec,      \* agent_executions of each job (None: no row), as committed
  chunks,    \* chunk sets stored for each document, by who stored them
  ocr,       \* documents.ocr_status
  patched,   \* history: documents whose status a PATCH set last
  text,      \* history: the last text ingested of each document
  emptied,   \* history: documents that lost their chunks to a blank text
  archived,  \* cases.deleted_at IS NOT NULL
  msg,       \* where SQS has each message
  receives,  \* its ApproximateReceiveCount
  got, batch, failures,  \* per worker: batch, records still to do, failures
  pc,        \* control state of each transaction
  snap,      \* per worker: the execution get_by_job_id returned
  target,    \* per user: the document to reprocess
  seen,      \* per transaction: the chunk sets its DELETE removed
  docLock,   \* pg_advisory_xact_lock of each document
  rowLock    \* who holds the row (or the new unique key) of each execution

docVars == <<chunks, ocr, text, emptied, patched>>
sqsVars == <<msg, receives, got>>
recVars == <<batch, failures, snap>>
lockVars == <<docLock, rowLock>>
vars == <<exec, docVars, archived, sqsVars, recVars, pc, target, seen, lockVars>>

Init ==
  /\ exec = [j \in Jobs |-> None]
  /\ chunks = [d \in Docs |-> {}] /\ ocr = [d \in Docs |-> "pending"]
  /\ text = [d \in Docs |-> "none"] /\ emptied = {}
  /\ patched = {} /\ archived = FALSE
  /\ msg = [m \in Messages |-> "unsent"] /\ receives = [m \in Messages |-> 0]
  /\ got = [w \in Workers |-> {}] /\ batch = [w \in Workers |-> <<>>]
  /\ failures = [w \in Workers |-> {}] /\ snap = [w \in Workers |-> None]
  /\ pc = [t \in Txs |-> "idle"] /\ target = [u \in Users |-> None]
  /\ seen = [t \in Txs |-> {}]
  /\ docLock = [d \in Docs |-> None] /\ rowLock = [j \in Jobs |-> None]

-----------------------------------------------------------------------------
(* SQS (external) and the endpoint that publishes *)

\* enqueue_processing: refuses the document of an archived case; the message
\* is in the queue whatever becomes of the rest of the request.
Enqueue(m) ==
  /\ msg[m] = "unsent" /\ ~archived
  /\ msg' = [msg EXCEPT ![m] = "queued"]
  /\ UNCHANGED <<exec, docVars, archived, receives, got, recVars, pc, target,
                 seen, lockVars>>

Deliverable(m) ==
  /\ receives[m] < MaxReceive
  /\ \/ msg[m] = "queued"
     \/ Duplicates /\ msg[m] \in {"held", "done"}

Receive(w, S) ==
  /\ pc[w] = "idle" /\ S # {} /\ Cardinality(S) <= BatchSize
  /\ \A m \in S : Deliverable(m)
  /\ msg' = [m \in Messages |-> IF m \in S /\ msg[m] = "queued"
                                THEN "held" ELSE msg[m]]
  /\ receives' = [m \in Messages |-> IF m \in S THEN receives[m] + 1
                                     ELSE receives[m]]
  /\ got' = [got EXCEPT ![w] = S]
  /\ \E order \in SetToSeqs(S) : batch' = [batch EXCEPT ![w] = order]
  /\ pc' = [pc EXCEPT ![w] = "record"]
  /\ UNCHANGED <<exec, docVars, archived, failures, snap, target, seen, lockVars>>

\* Messages of S become visible again, unless another delivery was acknowledged.
Returned(S) == [m \in Messages |-> IF m \in S /\ msg[m] = "held"
                                   THEN "queued" ELSE msg[m]]

DeadLetter(m) ==
  /\ msg[m] = "queued" /\ receives[m] = MaxReceive
  /\ msg' = [msg EXCEPT ![m] = "dlq"]
  /\ UNCHANGED <<exec, docVars, archived, receives, got, recVars, pc, target,
                 seen, lockVars>>

-----------------------------------------------------------------------------
(* How a transaction ends *)

Cur(w) == Head(batch[w])
JobAt(w) == JobOf[Cur(w)]
DocAt(t) == IF t \in Workers THEN DocOf[JobAt(t)] ELSE target[t]

\* mutant: pg_advisory_lock, held by the session beyond a rollback
RolledBackLock_Session(t) == docLock
RolledBackLock(t) == [d \in Docs |-> IF docLock[d] = t THEN None ELSE docLock[d]]

ReleaseRows(t) ==
  rowLock' = [j \in Jobs |-> IF rowLock[j] = t THEN None ELSE rowLock[j]]

\* What the execution found decides.  A failed one is retried by a message of
\* a higher attempt only; a queued or skipped one just goes on.
Admission_SameAttempt(e, a) ==  \* mutant: off by one in can_retry_attempt
  IF e = None THEN "new"
  ELSE IF e.status \in {"completed", "running", "retrying"} THEN "answered"
  ELSE IF e.status # "failed" THEN "again"
  ELSE IF e.attempt <= a /\ a <= MaxAttempts THEN "retry" ELSE "answered"

Admission(e, a) ==
  IF e = None THEN "new"
  ELSE IF e.status \in {"completed", "running", "retrying"} THEN "answered"
  ELSE IF e.status # "failed" THEN "again"
  ELSE IF e.attempt < a /\ a <= MaxAttempts THEN "retry" ELSE "answered"

NextRecord(w) ==
  /\ batch' = [batch EXCEPT ![w] = Tail(@)]
  /\ snap' = [snap EXCEPT ![w] = None]
  /\ seen' = [seen EXCEPT ![w] = {}]
  /\ pc' = [pc EXCEPT ![w] = "record"]

\* create_queued, mark_retrying and mark_running write the attempt of the job;
\* an execution merely gone on with keeps its own until it runs.
AttemptNow(w) ==
  IF pc[w] \notin {"running", "cleared"}
     /\ Admission(snap[w], Attempt[Cur(w)]) = "again"
  THEN exec[JobAt(w)].attempt ELSE Attempt[Cur(w)]

\* The transaction of w commits with its execution in status s.
CommitRecord(w, s) ==
  /\ rowLock[JobAt(w)] \in {None, w}
  /\ exec' = [exec EXCEPT ![JobAt(w)] = [status |-> s, attempt |-> AttemptNow(w)]]
  /\ docLock' = [d \in Docs |-> IF docLock[d] = w THEN None ELSE docLock[d]]
  /\ ReleaseRows(w) /\ NextRecord(w)
  /\ UNCHANGED <<archived, sqsVars, failures, target>>

\* tenant_tx rolls back; worker.py reports the message.
FailedRecord(w) ==
  /\ failures' = [failures EXCEPT ![w] = @ \cup {Cur(w)}]
  /\ docLock' = RolledBackLock(w) /\ ReleaseRows(w) /\ NextRecord(w)
  /\ UNCHANGED <<exec, docVars, archived, sqsVars, target>>

-----------------------------------------------------------------------------
(* process_job *)

\* get_by_job_id: duplicate_completed, job_already_running and
\* retry_not_allowed are answered, and so acknowledged, without a write.
Lookup(w) ==
  /\ pc[w] = "record" /\ batch[w] # <<>>
  /\ IF Admission(exec[JobAt(w)], Attempt[Cur(w)]) = "answered"
     THEN NextRecord(w)
     ELSE /\ snap' = [snap EXCEPT ![w] = exec[JobAt(w)]]
          /\ pc' = [pc EXCEPT ![w] = "admitted"]
          /\ UNCHANGED <<batch, seen>>
  /\ UNCHANGED <<exec, docVars, archived, sqsVars, failures, target, lockVars>>

Taken(w) == snap[w] = None /\ exec[JobAt(w)] # None

\* create_queued (its unique key waits for a concurrent insert, then fails if
\* that one committed), mark_retrying, or nothing for an execution gone on with.
Claim(w) ==
  /\ pc[w] = "admitted" /\ rowLock[JobAt(w)] = None
  /\ ~Taken(w) /\ Attempt[Cur(w)] <= MaxAttempts
  /\ rowLock' = IF Admission(snap[w], Attempt[Cur(w)]) = "again" THEN rowLock
                ELSE [rowLock EXCEPT ![JobAt(w)] = w]
  /\ pc' = [pc EXCEPT ![w] = "claimed"]
  /\ UNCHANGED <<exec, docVars, archived, sqsVars, recVars, target, seen, docLock>>

\* The IntegrityError of a job_id inserted meanwhile is an infra error.
UniqueViolation(w) ==
  /\ pc[w] = "admitted" /\ rowLock[JobAt(w)] = None /\ Taken(w)
  /\ FailedRecord(w)

AttemptsExceeded(w) ==
  /\ pc[w] = "admitted" /\ rowLock[JobAt(w)] = None
  /\ ~Taken(w) /\ Attempt[Cur(w)] > MaxAttempts
  /\ CommitRecord(w, "failed")
  /\ UNCHANGED docVars

LockFree_Always(d) == TRUE  \* mutant: no advisory lock (before PROC-02)
LockFree(d) == docLock[d] = None

\* pg_advisory_xact_lock on the document, the same for worker and endpoint
LockDoc(t) ==
  /\ pc[t] = "claimed" /\ LockFree(DocAt(t))
  /\ docLock' = [docLock EXCEPT ![DocAt(t)] = t]
  /\ pc' = [pc EXCEPT ![t] = IF t \in Workers THEN "locked" ELSE "running"]
  /\ UNCHANGED <<exec, docVars, archived, sqsVars, recVars, target, seen, rowLock>>

\* mutant: mark_running commits before the ingestion
StartedExec_Committed(w) ==
  [exec EXCEPT ![JobAt(w)] = [status |-> "running", attempt |-> Attempt[Cur(w)]]]
\* mark_running is part of the transaction: nobody sees it
StartedExec(w) == exec

\* The checks after the lock: case_not_found is a deterministic failure, and a
\* document that has chunks is not ingested twice.
CheckDocument(w) ==
  /\ pc[w] = "locked" /\ w \in Workers
  /\ IF archived THEN CommitRecord(w, "failed")
     ELSE IF chunks[DocAt(w)] # {} THEN CommitRecord(w, "skipped")
     ELSE /\ rowLock[JobAt(w)] \in {None, w}
          /\ rowLock' = [rowLock EXCEPT ![JobAt(w)] = w]
          /\ exec' = StartedExec(w)
          /\ pc' = [pc EXCEPT ![w] = "running"]
          /\ UNCHANGED <<archived, sqsVars, recVars, target, seen, docLock>>
  /\ UNCHANGED docVars

\* ingest_document up to its DELETEs, which see the committed chunks.
ClearChunks(t) ==
  /\ pc[t] = "running" /\ ~archived
  /\ seen' = [seen EXCEPT ![t] = chunks[DocAt(t)]]
  /\ pc' = [pc EXCEPT ![t] = "cleared"]
  /\ UNCHANGED <<exec, docVars, archived, sqsVars, recVars, target, lockVars>>

\* ... DocumentNotFound when the case was archived meanwhile
DocumentGone(w) ==
  /\ pc[w] = "running" /\ w \in Workers /\ archived
  /\ CommitRecord(w, "failed")
  /\ UNCHANGED docVars

\* The chunks of the text read replace those deleted.
Stored(t, read) ==
  (chunks[DocAt(t)] \ seen[t]) \cup (IF read = "blank" THEN {} ELSE {t})

\* OCR gives a text (an empty one is OcrFailed, one of spaces only is not), and
\* the document is done with the chunks of it, or with none.
Ingest(t, read) ==
  /\ chunks' = [chunks EXCEPT ![DocAt(t)] = Stored(t, read)]
  /\ ocr' = [ocr EXCEPT ![DocAt(t)] = "done"] /\ patched' = patched \ {DocAt(t)}
  /\ text' = [text EXCEPT ![DocAt(t)] = read]
  /\ emptied' = emptied \cup {d \in {DocAt(t)} : read = "blank" /\ chunks[d] # {}}

JobIngested(w) ==
  /\ pc[w] = "cleared" /\ w \in Workers
  /\ \E read \in Texts : Ingest(w, read)
  /\ CommitRecord(w, "completed")

\* OcrFailed: the worker keeps the transaction, so the deletions and the
\* status 'failed' of the document commit with the failed execution.
JobOcrFailed(w) ==
  /\ pc[w] = "cleared" /\ w \in Workers
  /\ chunks' = [chunks EXCEPT ![DocAt(w)] = @ \ seen[w]]
  /\ ocr' = [ocr EXCEPT ![DocAt(w)] = "failed"] /\ patched' = patched \ {DocAt(w)}
  /\ UNCHANGED <<text, emptied>>
  /\ CommitRecord(w, "failed")

\* Any other exception of the record (database, embeddings, a bad body).
JobRaises(w) ==
  /\ pc[w] # "idle" /\ w \in Workers /\ batch[w] # <<>>
  /\ FailedRecord(w)

-----------------------------------------------------------------------------
(* worker.py: the answer to the event source, or no answer at all *)

Respond(w) ==
  /\ pc[w] = "record" /\ batch[w] = <<>>
  /\ msg' = [m \in Messages |->
               IF m \in got[w] \ failures[w] THEN "done"
               ELSE Returned(failures[w])[m]]
  /\ got' = [got EXCEPT ![w] = {}] /\ failures' = [failures EXCEPT ![w] = {}]
  /\ pc' = [pc EXCEPT ![w] = "idle"]
  /\ UNCHANGED <<exec, docVars, archived, receives, batch, snap, target, seen,
                 lockVars>>

\* The Lambda times out or dies: the open transaction rolls back, the whole
\* batch is delivered again, records already committed included.
WorkerDies(w) ==
  /\ pc[w] # "idle"
  /\ msg' = Returned(got[w])
  /\ got' = [got EXCEPT ![w] = {}] /\ failures' = [failures EXCEPT ![w] = {}]
  /\ batch' = [batch EXCEPT ![w] = <<>>] /\ snap' = [snap EXCEPT ![w] = None]
  /\ seen' = [seen EXCEPT ![w] = {}] /\ pc' = [pc EXCEPT ![w] = "idle"]
  /\ docLock' = RolledBackLock(w) /\ ReleaseRows(w)
  /\ UNCHANGED <<exec, docVars, archived, receives, target>>

-----------------------------------------------------------------------------
(* The other writers *)

Reprocess(u, d) ==
  /\ pc[u] = "idle"
  /\ target' = [target EXCEPT ![u] = d] /\ pc' = [pc EXCEPT ![u] = "claimed"]
  /\ UNCHANGED <<exec, docVars, archived, sqsVars, recVars, seen, lockVars>>

\* Both ways a process_document ends give its lock back.
UserEnds(u) ==
  /\ target' = [target EXCEPT ![u] = None] /\ seen' = [seen EXCEPT ![u] = {}]
  /\ pc' = [pc EXCEPT ![u] = "idle"]
  /\ docLock' = RolledBackLock(u)
  /\ UNCHANGED <<exec, archived, sqsVars, recVars, rowLock>>

UserIngested(u) ==
  /\ pc[u] = "cleared"
  /\ \E read \in Texts : Ingest(u, read)
  /\ UserEnds(u)

\* mutant: OcrFailed answered inside the transaction, as the worker does
KeptOnFailure_Deleted(u) == [chunks EXCEPT ![target[u]] = @ \ seen[u]]
KeptOnFailure(u) == chunks

\* 404, 502 (OCR) and 500 leave tenant_tx by an exception: all is rolled back.
UserFails(u) ==
  /\ pc[u] # "idle"
  /\ chunks' = IF pc[u] = "cleared" THEN KeptOnFailure(u) ELSE chunks
  /\ UNCHANGED <<ocr, text, emptied, patched>>
  /\ UserEnds(u)

OcrOf(s) == CASE s = "pending_upload" -> "pending" [] s = "processed" -> "done"
              [] OTHER -> s

\* update_document: any writer sets the status of a document by hand.
PatchStatus(d, s) ==
  /\ ~archived
  /\ ocr' = [ocr EXCEPT ![d] = OcrOf(s)] /\ patched' = patched \cup {d}
  /\ UNCHANGED <<exec, chunks, text, emptied, archived, sqsVars, recVars, pc, target,
                 seen, lockVars>>

Archive ==
  /\ ~archived /\ archived' = TRUE
  /\ UNCHANGED <<exec, docVars, sqsVars, recVars, pc, target, seen, lockVars>>

-----------------------------------------------------------------------------
Record(w) ==
  \/ Lookup(w) \/ Claim(w) \/ UniqueViolation(w) \/ AttemptsExceeded(w)
  \/ LockDoc(w) \/ CheckDocument(w) \/ ClearChunks(w) \/ DocumentGone(w)
  \/ JobIngested(w) \/ JobOcrFailed(w) \/ Respond(w)

Endpoint(u) == LockDoc(u) \/ ClearChunks(u) \/ UserIngested(u) \/ UserFails(u)

Next ==
  \/ \E m \in Messages : Enqueue(m) \/ DeadLetter(m)
  \/ \E w \in Workers : \/ \E S \in SUBSET Messages : Receive(w, S)
                        \/ Record(w) \/ JobRaises(w) \/ WorkerDies(w)
  \/ \E u \in Users : (\E d \in Docs : Reprocess(u, d)) \/ Endpoint(u)
  \/ \E d \in Docs, s \in Patches : PatchStatus(d, s)
  \/ Archive

Spec == Init /\ [][Next]_vars

\* A Lambda invocation runs to its end or its timeout; the event source polls
\* and redrives as long as it is enabled; waiters of a PostgreSQL lock queue up.
Fairness ==
  /\ \A t \in Txs : SF_vars(LockDoc(t))
  /\ \A w \in Workers : WF_vars(Record(w))
                       /\ WF_vars(\E S \in SUBSET Messages : Receive(w, S))
  /\ \A u \in Users : WF_vars(Endpoint(u))
  /\ \A m \in Messages : WF_vars(DeadLetter(m))

FairSpec == Spec /\ Fairness

-----------------------------------------------------------------------------
(* Properties *)

TypeOK ==
  /\ exec \in [Jobs -> [status : ExecStatus, attempt : Nat] \cup {None}]
  /\ chunks \in [Docs -> SUBSET Txs] /\ ocr \in [Docs -> OcrStatus]
  /\ text \in [Docs -> Texts \cup {"none"}] /\ emptied \subseteq Docs
  /\ patched \subseteq Docs /\ archived \in BOOLEAN
  /\ msg \in [Messages -> {"unsent", "queued", "held", "done", "dlq"}]
  /\ receives \in [Messages -> 0..MaxReceive]
  /\ got \in [Workers -> SUBSET Messages]
  /\ failures \in [Workers -> SUBSET Messages]
  /\ batch \in [Workers -> Seq(Messages)]
  /\ snap \in [Workers -> [status : ExecStatus, attempt : Nat] \cup {None}]
  /\ pc \in [Txs -> {"idle", "record", "admitted", "claimed", "locked",
                     "running", "cleared"}]
  /\ target \in [Users -> Docs \cup {None}]
  /\ seen \in [Txs -> SUBSET Txs]
  /\ docLock \in [Docs -> Txs \cup {None}]
  /\ rowLock \in [Jobs -> Workers \cup {None}]

Settled == {"completed", "failed", "skipped"}

\* worker.py:3-6: a message leaves the queue only when its job has a committed
\* outcome; above all a duplicate that finds the job running (and acknowledges)
\* never takes the job of an execution that then dies with it.
AckedIsSettled ==
  \A m \in Messages : msg[m] = "done" =>
    exec[JobOf[m]] # None /\ exec[JobOf[m]].status \in Settled

\* PROC-02 (documents.py:137): worker and endpoint in any order never leave two
\* sets of chunks for a document.
OneGeneration == \A d \in Docs : Cardinality(chunks[d]) <= 1

\* A document has chunks exactly when the last text ingested of it had words.
ChunksOfLastText == \A d \in Docs : chunks[d] # {} <=> text[d] = "words"

\* A job reported completed has had its document ingested; one skipped because
\* the document had chunks finds them, unless a blank text took their place.
JobReports ==
  \A j \in Jobs : exec[j] # None =>
    /\ exec[j].status \in {"completed", "skipped"} => text[DocOf[j]] # "none"
    /\ exec[j].status = "skipped" => chunks[DocOf[j]] # {} \/ DocOf[j] \in emptied

\* The status of a document is 'done' when it has chunks, and otherwise only
\* after a blank text, unless it was set by hand since.
StatusReports ==
  \A d \in Docs \ patched :
    /\ chunks[d] # {} => ocr[d] = "done"
    /\ ocr[d] = "done" => chunks[d] # {} \/ text[d] = "blank"

\* ingest_document (document_ingestion.py:38-59): whatever fails in whatever later
\* attempt, the chunks stored are those of the last text ingested, and what the
\* rows of the job and of the document report agrees with them.  'done' does not
\* say that there are chunks: a text of spaces only leaves none.
ReportsAreTrue == ChunksOfLastText /\ JobReports /\ StatusReports

\* The messages of a job all carry one attempt: so does every job the endpoint
\* publishes (documents.py:185 takes the default attempt of the schema).
OneAttempt(j) ==
  \A m, n \in Messages : JobOf[m] = j /\ JobOf[n] = j => Attempt[m] = Attempt[n]

\* "idempotencia por (organization_id, job_id)" (agent_executions.py:1): no
\* redelivery, duplicate or death rewrites the outcome of a job that completed
\* or failed, and a redelivered message is not taken for a retry.  (A document
\* that a blank text emptied is excepted: two deliveries that both found the job
\* skipped then both ingest, and the last one's outcome stands.)
OutcomeIsFinal ==
  [][\A j \in Jobs : exec[j] # None /\ exec[j].status \in {"completed", "failed"}
                      /\ OneAttempt(j) /\ DocOf[j] \notin emptied
                      => exec'[j] = exec[j]]_vars

\* "se ja ha chunks (double-check apos o lock), pula" (document_worker.py:8): the
\* chunks of a document are replaced only by the reprocess call that is at it, and
\* only by those of the text it read.
IngestedOnce ==
  [][\A d \in Docs : chunks[d] # {} /\ chunks'[d] # chunks[d] =>
       \E u \in Users : /\ pc[u] = "cleared" /\ target[u] = d
                        /\ chunks'[d] = IF text'[d] = "blank" THEN {} ELSE {u}]_vars

\* worker.py:6 "a SQS reentrega ate esgotar o maxReceiveCount -> DLQ": a
\* published message does not stay in the queue for ever.
MessageSettles ==
  \A m \in Messages : msg[m] = "queued" ~> msg[m] \in {"done", "dlq"}
=============================================================================
