------------------------ MODULE DocumentQueueProofs ------------------------
(***************************************************************************)
(* Theorems of DocumentQueue.  The advisory lock of a document separates   *)
(* whoever is between the lock and its commit; so the chunks that a DELETE *)
(* removed are still all there are, and those of a job that found none are *)
(* the first.  A row of agent_executions only ever shows a settled status. *)
(***************************************************************************)
EXTENDS DocumentQueue, FiniteSetTheorems, SequenceTheorems, TLAPS

Inside == {"locked", "running", "cleared"}   \* between the lock and the commit
Working == {"admitted", "claimed"} \cup Inside

\* A worker at work has a record; a user at work has a document; the lock of that
\* document is theirs from LockDoc on.
ControlInv ==
  /\ \A w \in Workers : pc[w] \in Working => batch[w] # <<>>
  /\ \A u \in Users : /\ pc[u] \in {"idle", "claimed", "running", "cleared"}
                      /\ pc[u] # "idle" => target[u] \in Docs
  /\ \A t \in Txs : pc[t] \in Inside => docLock[DocAt(t)] = t

\* What a DELETE saw is what is stored; a worker only ingests what has no chunks.
ChunkInv ==
  /\ \A d \in Docs : chunks[d] = {} \/ \E t \in Txs : chunks[d] = {t}
  /\ \A t \in Txs : pc[t] = "cleared" => seen[t] = chunks[DocAt(t)]
  /\ \A w \in Workers : pc[w] \in {"running", "cleared"} => chunks[DocAt(w)] = {}
  /\ ReportsAreTrue

\* A record leaves the batch of its worker as a failure or with a settled row, and
\* a row that was found is still there.
ExecInv ==
  /\ \A j \in Jobs : exec[j] # None => exec[j].status \in Settled
  /\ AckedIsSettled
  /\ \A w \in Workers : \A m \in got[w] \ failures[w] :
       exec[JobOf[m]] # None \/ \E i \in 1..Len(batch[w]) : batch[w][i] = m
  /\ \A w \in Workers : pc[w] \in Working /\ snap[w] # None => exec[JobAt(w)] # None
-----------------------------------------------------------------------------
\* The shape of the state, with no more of TypeOK than most steps need.
Shape ==
  /\ pc = [t \in Txs |-> pc[t]] /\ seen = [t \in Txs |-> seen[t]]
  /\ batch = [w \in Workers |-> batch[w]] /\ snap = [w \in Workers |-> snap[w]]
  /\ target = [u \in Users |-> target[u]]
  /\ got = [w \in Workers |-> got[w]] /\ failures = [w \in Workers |-> failures[w]]
  /\ chunks = [d \in Docs |-> chunks[d]] /\ ocr = [d \in Docs |-> ocr[d]]
  /\ text = [d \in Docs |-> text[d]]
  /\ docLock = [d \in Docs |-> docLock[d]]
  /\ exec = [j \in Jobs |-> exec[j]] /\ rowLock = [j \in Jobs |-> rowLock[j]]

\* TypeOK gives every function its domain.
LEMMA ShapeOfType == TypeOK => Shape
BY DEF TypeOK, Shape

\* The record a worker is at, and the document of whoever is at work.
LEMMA Located ==
  ASSUME TypeOK, ControlInv
  PROVE  /\ \A w \in Workers : batch[w] # <<>> =>
              /\ Cur(w) \in Messages /\ JobAt(w) \in Jobs /\ DocAt(w) \in Docs
              /\ Tail(batch[w]) \in Seq(Messages)
         /\ \A t \in Txs : pc[t] \in Working => DocAt(t) \in Docs
<1>1. ASSUME NEW w \in Workers, batch[w] # <<>>
      PROVE /\ Cur(w) \in Messages /\ JobAt(w) \in Jobs /\ DocAt(w) \in Docs
            /\ Tail(batch[w]) \in Seq(Messages)
  <2>1. batch[w] \in Seq(Messages)
    BY DEF TypeOK
  <2>2. Cur(w) \in Messages /\ Tail(batch[w]) \in Seq(Messages)
    BY <1>1, <2>1, HeadTailProperties DEF Cur
  <2> QED
    BY <2>2, QueueAssumption DEF JobAt, DocAt
<1>2. ASSUME NEW t \in Txs, pc[t] \in Working PROVE DocAt(t) \in Docs
  <2>1. CASE t \in Workers
    BY <1>1, <1>2, <2>1 DEF ControlInv
  <2>2. CASE t \in Users
    <3>1. pc[t] # "idle"
      BY <1>2 DEF Working, Inside
    <3>2. target[t] \in Docs
      BY <2>2, <3>1 DEF ControlInv
    <3> QED
      BY <2>2, <3>2, QueueAssumption DEF DocAt
  <2> QED
    BY <2>1, <2>2 DEF Txs
<1> QED
  BY <1>1, <1>2

\* What a step of x leaves to the others.
Untouched(x) ==
  \A t \in Txs \ {x} :
    /\ pc'[t] = pc[t] /\ seen'[t] = seen[t] /\ DocAt(t)' = DocAt(t)
    /\ t \in Workers => /\ batch'[t] = batch[t] /\ snap'[t] = snap[t]
                        /\ got'[t] = got[t] /\ failures'[t] = failures[t]
    /\ \A d \in Docs : docLock[d] = t => docLock'[d] = t
    /\ \A j \in Jobs : rowLock[j] = t => rowLock'[j] = t

StepOf(x) ==
  \/ x \in Workers /\ (\/ \E S \in SUBSET Messages : Receive(x, S)
                       \/ Record(x) \/ JobRaises(x) \/ WorkerDies(x))
  \/ x \in Users /\ ((\E d \in Docs : Reprocess(x, d)) \/ Endpoint(x))

\* A step of one transaction leaves what the others hold.
LEMMA Frames ==
  ASSUME TypeOK, NEW x \in Txs, StepOf(x) PROVE Untouched(x)
<1> USE QueueAssumption
<1>0. Shape
  BY ShapeOfType
<1> USE <1>0 DEF Shape, Untouched, Txs, DocAt, JobAt, Cur, docVars, sqsVars, recVars, lockVars
<1>1. ASSUME x \in Workers, NEW S \in SUBSET Messages, Receive(x, S) PROVE Untouched(x)
  BY <1>1 DEF Receive
<1>2. CASE x \in Workers /\ Lookup(x)
  BY <1>2 DEF Lookup, NextRecord
<1>3. CASE x \in Workers /\ Claim(x)
  BY <1>3 DEF Claim
<1>4. CASE x \in Workers /\ (UniqueViolation(x) \/ JobRaises(x))
  <2>1. FailedRecord(x)
    BY <1>4 DEF UniqueViolation, JobRaises
  <2> QED
    BY <1>4, <2>1 DEF FailedRecord, NextRecord, RolledBackLock, ReleaseRows
<1>5. ASSUME x \in Workers, NEW s, CommitRecord(x, s) PROVE Untouched(x)
  BY <1>5 DEF CommitRecord, NextRecord, ReleaseRows
<1>6. CASE x \in Workers /\ (\/ AttemptsExceeded(x) \/ DocumentGone(x)
                             \/ JobIngested(x) \/ JobOcrFailed(x))
  BY <1>5, <1>6 DEF AttemptsExceeded, DocumentGone, JobIngested, JobOcrFailed
<1>7. CASE LockDoc(x)
  BY <1>7 DEF LockDoc, LockFree
<1>8. CASE x \in Workers /\ CheckDocument(x)
  <2>1. CASE \E s : CommitRecord(x, s)
    BY <1>5, <1>8, <2>1
  <2>2. CASE ~\E s : CommitRecord(x, s)
    <3>1. /\ rowLock[JobAt(x)] \in {None, x} /\ rowLock' = [rowLock EXCEPT ![JobAt(x)] = x]
          /\ pc' = [pc EXCEPT ![x] = "running"]
          /\ UNCHANGED <<sqsVars, recVars, target, seen, docLock>>
      BY <1>8, <2>2 DEF CheckDocument
    <3>2. \A t \in Txs \ {x} : \A j \in Jobs : rowLock[j] = t => rowLock'[j] = t
      BY <3>1
    <3>3. \A t \in Txs \ {x} : pc'[t] = pc[t]
      BY <3>1
    <3> QED
      BY <3>1, <3>2, <3>3
  <2> QED
    BY <2>1, <2>2
<1>9. CASE ClearChunks(x)
  BY <1>9 DEF ClearChunks
<1>10. CASE x \in Workers /\ Respond(x)
  BY <1>10 DEF Respond
<1>11. CASE x \in Workers /\ WorkerDies(x)
  BY <1>11 DEF WorkerDies, RolledBackLock, ReleaseRows
<1>12. ASSUME x \in Users, NEW d \in Docs, Reprocess(x, d) PROVE Untouched(x)
  BY <1>12 DEF Reprocess
<1>13. CASE x \in Users /\ (UserIngested(x) \/ UserFails(x))
  BY <1>13 DEF UserIngested, UserFails, UserEnds, RolledBackLock
<1> QED
  BY <1>1, <1>2, <1>3, <1>4, <1>6, <1>7, <1>8, <1>9, <1>10, <1>11, <1>12, <1>13
     DEF StepOf, Record, Endpoint

\* The steps that are nobody's transaction.
Aside ==
  \/ \E m \in Messages : Enqueue(m) \/ DeadLetter(m)
  \/ \E d \in Docs, s \in Patches : PatchStatus(d, s)
  \/ Archive
  \/ UNCHANGED vars

\* Every step is one of those, or of one transaction.
LEMMA Steps == [Next]_vars => Aside \/ \E x \in Txs : StepOf(x)
BY DEF Next, Aside, StepOf, Txs

\* What a step of x owes to ControlInv.
OwnControl(x) ==
  /\ x \in Workers /\ pc'[x] \in Working => batch'[x] # <<>>
  /\ x \in Users => /\ pc'[x] \in {"idle", "claimed", "running", "cleared"}
                    /\ pc'[x] # "idle" => target'[x] \in Docs
  /\ pc'[x] \in Inside => docLock'[DocAt(x)'] = x

\* ... and does.
LEMMA OwnControlStep ==
  ASSUME TypeOK, ControlInv, NEW x \in Txs, StepOf(x) PROVE OwnControl(x)
<1> USE QueueAssumption
<1>0. Shape
  BY ShapeOfType
<1>a. pc[x] \in Working => DocAt(x) \in Docs
  BY Located
<1> USE <1>0, <1>a DEF Shape, OwnControl, ControlInv, Working, Inside, Txs, DocAt, JobAt,
        Cur, docVars, sqsVars, recVars, lockVars
<1>1. ASSUME x \in Workers, NEW S \in SUBSET Messages, Receive(x, S) PROVE OwnControl(x)
  BY <1>1 DEF Receive
<1>2. CASE x \in Workers /\ Lookup(x)
  BY <1>2 DEF Lookup, NextRecord
<1>3. CASE x \in Workers /\ Claim(x)
  BY <1>3 DEF Claim
<1>4. CASE x \in Workers /\ (UniqueViolation(x) \/ JobRaises(x))
  <2>1. FailedRecord(x)
    BY <1>4 DEF UniqueViolation, JobRaises
  <2> QED
    BY <1>4, <2>1 DEF FailedRecord, NextRecord
<1>5. ASSUME x \in Workers, NEW s, CommitRecord(x, s) PROVE OwnControl(x)
  BY <1>5 DEF CommitRecord, NextRecord
<1>6. CASE x \in Workers /\ (\/ AttemptsExceeded(x) \/ DocumentGone(x)
                             \/ JobIngested(x) \/ JobOcrFailed(x))
  BY <1>5, <1>6 DEF AttemptsExceeded, DocumentGone, JobIngested, JobOcrFailed
<1>7. CASE LockDoc(x)
  BY <1>7 DEF LockDoc, LockFree
<1>8. CASE x \in Workers /\ CheckDocument(x)
  BY <1>8, <1>5 DEF CheckDocument
<1>9. CASE ClearChunks(x)
  BY <1>9 DEF ClearChunks
<1>10. CASE x \in Workers /\ (Respond(x) \/ WorkerDies(x))
  BY <1>10 DEF Respond, WorkerDies
<1>11. ASSUME x \in Users, NEW d \in Docs, Reprocess(x, d) PROVE OwnControl(x)
  BY <1>11 DEF Reprocess
<1>12. CASE x \in Users /\ (UserIngested(x) \/ UserFails(x))
  BY <1>12 DEF UserIngested, UserFails, UserEnds
<1> QED
  BY <1>1, <1>2, <1>3, <1>4, <1>6, <1>7, <1>8, <1>9, <1>10, <1>11, <1>12
     DEF StepOf, Record, Endpoint

\* The lock of a document stays with whoever is inside.
LEMMA ControlStep ==
  ASSUME TypeOK, ControlInv, [Next]_vars PROVE ControlInv'
<1>1. CASE Aside
  <2>1. UNCHANGED <<pc, batch, target, docLock>>
    BY <1>1 DEF Aside, Enqueue, DeadLetter, PatchStatus, Archive, vars, recVars, lockVars
  <2> QED
    BY <2>1 DEF ControlInv, DocAt, JobAt, Cur
<1>2. ASSUME NEW x \in Txs, StepOf(x) PROVE ControlInv'
  <2>1. Untouched(x) /\ OwnControl(x)
    BY <1>2, Frames, OwnControlStep
  <2>2. \A u \in Users \ {x} : target'[u] = target[u]
    BY <2>1, QueueAssumption DEF Untouched, DocAt, Txs
  <2>3. ASSUME NEW t \in Txs, pc'[t] \in Inside PROVE docLock'[DocAt(t)'] = t
    BY <2>1, <2>3, Located DEF Untouched, OwnControl, ControlInv, Working
  <2>4. \A w \in Workers : pc'[w] \in Working => batch'[w] # <<>>
    BY <2>1 DEF Untouched, OwnControl, ControlInv, Txs
  <2>5. \A u \in Users : /\ pc'[u] \in {"idle", "claimed", "running", "cleared"}
                         /\ pc'[u] # "idle" => target'[u] \in Docs
    <3>1. \A u \in Users \ {x} : pc'[u] = pc[u]
      BY <2>1 DEF Untouched, Txs
    <3>2. ASSUME NEW u \in Users, u # x
          PROVE /\ pc'[u] \in {"idle", "claimed", "running", "cleared"}
                /\ pc'[u] # "idle" => target'[u] \in Docs
      BY <2>2, <3>1, <3>2 DEF ControlInv
    <3>3. x \in Users => /\ pc'[x] \in {"idle", "claimed", "running", "cleared"}
                         /\ pc'[x] # "idle" => target'[x] \in Docs
      BY <2>1 DEF OwnControl
    <3> QED
      BY <3>2, <3>3
  <2> QED
    BY <2>3, <2>4, <2>5 DEF ControlInv
<1> QED
  BY <1>1, <1>2, Steps

-----------------------------------------------------------------------------
(* What a step writes *)

\* A row is written by the commit of the worker that is at its job.
ExecEffect(x) ==
  \/ exec' = exec
  \/ /\ x \in Workers /\ pc[x] \in Working /\ rowLock[JobAt(x)] \in {None, x}
     /\ pc'[x] = "record"
     /\ \E s \in Settled :
          /\ exec' = [exec EXCEPT ![JobAt(x)] = [status |-> s, attempt |-> AttemptNow(x)]]
          /\ s = "completed" => JobIngested(x)
          /\ s = "skipped" => pc[x] = "locked" /\ ~archived /\ chunks[DocAt(x)] # {}
          /\ s = "failed" => \/ AttemptsExceeded(x)
                             \/ archived /\ pc[x] \in {"locked", "running"}
                             \/ pc[x] = "cleared"

\* No other step writes agent_executions.
LEMMA ExecEffects ==
  ASSUME TypeOK, NEW x \in Txs, StepOf(x) PROVE ExecEffect(x)
<1> USE QueueAssumption
<1>0. Shape
  BY ShapeOfType
<1>1. CASE x \in Workers /\ AttemptsExceeded(x)
  BY <1>0, <1>1 DEF AttemptsExceeded, CommitRecord, NextRecord, ExecEffect, Working, Settled,
     Shape, Txs
<1>2. CASE x \in Workers /\ CheckDocument(x)
  BY <1>0, <1>2 DEF CheckDocument, StartedExec, CommitRecord, NextRecord, ExecEffect, Working,
     Inside, Settled, Shape, Txs
<1>3. CASE x \in Workers /\ DocumentGone(x)
  BY <1>0, <1>3 DEF DocumentGone, CommitRecord, NextRecord, ExecEffect, Working, Inside,
     Settled, Shape, Txs
<1>4. CASE x \in Workers /\ JobIngested(x)
  BY <1>0, <1>4 DEF JobIngested, CommitRecord, NextRecord, ExecEffect, Working, Inside,
     Settled, Shape, Txs
<1>5. CASE x \in Workers /\ JobOcrFailed(x)
  BY <1>0, <1>5 DEF JobOcrFailed, CommitRecord, NextRecord, ExecEffect, Working, Inside,
     Settled, Shape, Txs
<1>6. CASE exec' = exec
  BY <1>6 DEF ExecEffect
<1> QED
  BY <1>1, <1>2, <1>3, <1>4, <1>5, <1>6
     DEF StepOf, Record, Endpoint, Receive, Lookup, Claim, UniqueViolation, JobRaises,
         FailedRecord, LockDoc, ClearChunks, Respond, WorkerDies, Reprocess, UserIngested,
         UserFails, UserEnds

\* What the commit of x made of a text that it read.
Read(x, read) ==
  /\ chunks' = [chunks EXCEPT ![DocAt(x)] = IF read = "blank" THEN {} ELSE {x}]
  /\ ocr' = [ocr EXCEPT ![DocAt(x)] = "done"] /\ text' = [text EXCEPT ![DocAt(x)] = read]
  /\ emptied' = emptied \cup {d \in {DocAt(x)} : read = "blank" /\ chunks[d] # {}}

\* Chunks are written at a commit, by whoever holds the lock of the document.
ChunkEffect(x) ==
  \/ UNCHANGED docVars
  \/ /\ pc[x] = "cleared" /\ pc'[x] \notin Inside /\ patched' = patched \ {DocAt(x)}
     /\ \/ /\ x \in Workers /\ UNCHANGED <<chunks, text, emptied>>
           /\ ocr' = [ocr EXCEPT ![DocAt(x)] = "failed"]
        \/ \E read \in Texts : Read(x, read)

\* No other step writes chunks or the status of a document.
LEMMA ChunkEffects ==
  ASSUME TypeOK, ControlInv, ChunkInv, NEW x \in Txs, StepOf(x)
  PROVE ChunkEffect(x)
<1> USE QueueAssumption
<1>0. Shape
  BY ShapeOfType
<1>1. pc[x] = "cleared" => DocAt(x) \in Docs /\ seen[x] = chunks[DocAt(x)]
  BY Located DEF ChunkInv, Working, Inside
<1>2. CASE x \in Workers /\ JobIngested(x)
  <2>1. PICK read \in Texts : Ingest(x, read)
    BY <1>2 DEF JobIngested
  <2>2. Read(x, read) /\ patched' = patched \ {DocAt(x)}
    BY <1>1, <1>2, <2>1 DEF JobIngested, Ingest, Stored, Read
  <2> QED
    BY <1>0, <1>2, <2>2 DEF JobIngested, CommitRecord, NextRecord, ChunkEffect, Inside, Shape
<1>3. CASE x \in Workers /\ JobOcrFailed(x)
  <2>1. chunks[DocAt(x)] = {}
    BY <1>3 DEF JobOcrFailed, ChunkInv
  <2> QED
    BY <1>0, <1>1, <1>3, <2>1 DEF JobOcrFailed, CommitRecord, NextRecord, ChunkEffect, Inside,
       Shape
<1>4. CASE x \in Users /\ UserIngested(x)
  <2>1. PICK read \in Texts : Ingest(x, read)
    BY <1>4 DEF UserIngested
  <2>2. Read(x, read) /\ patched' = patched \ {DocAt(x)}
    BY <1>1, <1>4, <2>1 DEF UserIngested, Ingest, Stored, Read
  <2> QED
    BY <1>0, <1>4, <2>2 DEF UserIngested, UserEnds, ChunkEffect, Inside, Shape
<1>5. CASE UNCHANGED docVars
  BY <1>5 DEF ChunkEffect
<1>6. CASE x \in Workers /\ (AttemptsExceeded(x) \/ CheckDocument(x) \/ DocumentGone(x))
  BY <1>6 DEF AttemptsExceeded, CheckDocument, DocumentGone, ChunkEffect
<1>7. CASE x \in Users /\ UserFails(x)
  BY <1>7 DEF UserFails, KeptOnFailure, ChunkEffect, docVars
<1> QED
  BY <1>2, <1>3, <1>4, <1>5, <1>6, <1>7
     DEF StepOf, Record, Endpoint, Receive, Lookup, Claim, UniqueViolation, JobRaises,
         FailedRecord, LockDoc, ClearChunks, Respond, WorkerDies, Reprocess

-----------------------------------------------------------------------------
(* Each part of the invariant is kept *)

\* Whoever is inside writes alone, so what was seen stays what is stored.
LEMMA ChunkStep ==
  ASSUME TypeOK, ControlInv, ChunkInv, [Next]_vars PROVE ChunkInv'
<1> USE QueueAssumption
<1>0. Shape
  BY ShapeOfType
<1>1. CASE Aside
  <2>1. UNCHANGED <<pc, batch, target, seen, chunks, text, emptied, exec>>
    BY <1>1 DEF Aside, Enqueue, DeadLetter, PatchStatus, Archive, vars, recVars, docVars
  <2>2. StatusReports'
    <3>1. ASSUME NEW d \in Docs, NEW s \in Patches, PatchStatus(d, s)
          PROVE StatusReports'
      BY <1>0, <3>1 DEF PatchStatus, ChunkInv, ReportsAreTrue, StatusReports, Shape
    <3>2. CASE UNCHANGED docVars
      BY <3>2 DEF ChunkInv, ReportsAreTrue, StatusReports, docVars
    <3> QED
      BY <1>1, <3>1, <3>2 DEF Aside, Enqueue, DeadLetter, Archive, vars
  <2> QED
    BY <2>1, <2>2 DEF ChunkInv, ReportsAreTrue, ChunksOfLastText, JobReports, DocAt, JobAt, Cur
<1>2. ASSUME NEW x \in Txs, StepOf(x) PROVE ChunkInv'
  <2>1. Untouched(x) /\ ExecEffect(x) /\ ChunkEffect(x)
    BY <1>2, Frames, ExecEffects, ChunkEffects
  <2>2. pc[x] \in Working => DocAt(x) \in Docs
    BY Located
  <2>moved. \A d \in Docs : chunks'[d] = chunks[d] \/ chunks'[d] = {x} \/ chunks'[d] = {}
    <3>1. ASSUME NEW read, Read(x, read)
          PROVE \A d \in Docs : chunks'[d] = chunks[d] \/ chunks'[d] = {x} \/ chunks'[d] = {}
      BY <1>0, <3>1 DEF Read, Shape
    <3> QED
      BY <2>1, <3>1 DEF ChunkEffect, docVars
  <2>3. \A d \in Docs : chunks'[d] = {} \/ \E t \in Txs : chunks'[d] = {t}
    BY <2>moved DEF ChunkInv
  \* the others hold other locks
  <2>4. ASSUME NEW t \in Txs \ {x}, pc[t] \in Inside
        PROVE chunks'[DocAt(t)'] = chunks[DocAt(t)]
    <3>1. DocAt(t) \in Docs /\ docLock[DocAt(t)] = t /\ DocAt(t)' = DocAt(t)
      BY <2>1, <2>4, Located DEF ControlInv, Untouched, Working
    <3>2. pc[x] = "cleared" => docLock[DocAt(x)] = x
      BY DEF ControlInv, Inside
    <3> QED
      BY <1>0, <2>1, <3>1, <3>2 DEF ChunkEffect, Read, Shape, docVars
  <2>5. \A t \in Txs : pc'[t] = "cleared" => seen'[t] = chunks'[DocAt(t)']
    <3>1. \A t \in Txs \ {x} : pc'[t] = "cleared" => seen'[t] = chunks'[DocAt(t)']
      BY <2>1, <2>4 DEF ChunkInv, Untouched, Inside
    <3>2. ASSUME pc'[x] = "cleared" PROVE seen'[x] = chunks'[DocAt(x)']
      <4>1. ClearChunks(x)
        BY <1>0, <1>2, <3>2
           DEF Shape, StepOf, Record, Endpoint, Receive, Lookup, Claim, UniqueViolation,
               JobRaises, FailedRecord, NextRecord, AttemptsExceeded, CommitRecord, LockDoc,
               CheckDocument, DocumentGone, JobIngested, JobOcrFailed, Respond, WorkerDies,
               Reprocess, UserIngested, UserFails, UserEnds
      <4> QED
        BY <1>0, <4>1 DEF ClearChunks, Shape, DocAt, JobAt, Cur, docVars, recVars
    <3> QED
      BY <3>1, <3>2
  <2>6. \A w \in Workers : pc'[w] \in {"running", "cleared"} => chunks'[DocAt(w)'] = {}
    <3>1. \A w \in Workers \ {x} :
            pc'[w] \in {"running", "cleared"} => chunks'[DocAt(w)'] = {}
      BY <2>1, <2>4 DEF ChunkInv, Untouched, Inside, Txs
    <3>2. ASSUME x \in Workers, pc'[x] \in {"running", "cleared"}
          PROVE chunks'[DocAt(x)'] = {}
      <4>1. CheckDocument(x) \/ ClearChunks(x)
        BY <1>0, <1>2, <3>2
           DEF Shape, StepOf, Record, Endpoint, Receive, Lookup, Claim, UniqueViolation,
               JobRaises, FailedRecord, NextRecord, AttemptsExceeded, CommitRecord, LockDoc,
               CheckDocument, DocumentGone, JobIngested, JobOcrFailed, Respond, WorkerDies
      <4>2. CASE CheckDocument(x)
        BY <1>0, <3>2, <4>2
           DEF CheckDocument, CommitRecord, NextRecord, Shape, DocAt, JobAt, Cur, recVars,
               docVars
      <4>3. CASE ClearChunks(x)
        BY <1>0, <3>2, <4>3
           DEF ClearChunks, ChunkInv, Shape, DocAt, JobAt, Cur, docVars, recVars
      <4> QED
        BY <4>1, <4>2, <4>3
    <3> QED
      BY <3>1, <3>2
  <2>7. ChunksOfLastText'
    <3>1. CASE UNCHANGED <<chunks, text>>
      BY <3>1 DEF ChunkInv, ReportsAreTrue, ChunksOfLastText
    <3>2. ASSUME NEW read \in Texts, Read(x, read) PROVE ChunksOfLastText'
      BY <1>0, <3>2 DEF Read, Texts, ChunkInv, ReportsAreTrue, ChunksOfLastText, Shape
    <3> QED
      BY <2>1, <3>1, <3>2 DEF ChunkEffect, docVars
  <2>8. \A d \in Docs : /\ text[d] # "none" => text'[d] # "none"
                        /\ chunks[d] # {} => chunks'[d] # {} \/ d \in emptied'
                        /\ d \in emptied => d \in emptied'
    <3>1. ASSUME NEW read \in Texts, Read(x, read), NEW d \in Docs
          PROVE  /\ text[d] # "none" => text'[d] # "none"
                 /\ chunks[d] # {} => chunks'[d] # {} \/ d \in emptied'
                 /\ d \in emptied => d \in emptied'
      BY <1>0, <3>1 DEF Read, Texts, Shape
    <3> QED
      BY <2>1, <3>1 DEF ChunkEffect, docVars
  <2>9. JobReports'
    <3>1. ASSUME x \in Workers, JobIngested(x) PROVE text'[DocAt(x)] # "none"
      <4>1. DocAt(x) \in Docs
        BY <2>2, <3>1 DEF JobIngested, Working, Inside
      <4> QED
        BY <1>0, <3>1, <4>1 DEF JobIngested, Ingest, Texts, Shape
    <3>2. ASSUME NEW j \in Jobs, exec'[j] # None, exec'[j].status \in {"completed", "skipped"},
                 exec'[j] # exec[j]
          PROVE  /\ text'[DocOf[j]] # "none"
                 /\ exec'[j].status = "skipped" =>
                      chunks'[DocOf[j]] # {} \/ DocOf[j] \in emptied'
      <4>1. /\ x \in Workers /\ j = JobAt(x) /\ pc[x] \in Working
            /\ \/ JobIngested(x) /\ exec'[j].status = "completed"
               \/ exec'[j].status = "skipped" /\ chunks[DocAt(x)] # {}
        <5>1. PICK s \in Settled :
                /\ x \in Workers /\ pc[x] \in Working
                /\ exec' = [exec EXCEPT ![JobAt(x)] = [status |-> s, attempt |-> AttemptNow(x)]]
                /\ s = "completed" => JobIngested(x)
                /\ s = "skipped" => chunks[DocAt(x)] # {}
          BY <2>1, <3>2 DEF ExecEffect
        <5>2. j = JobAt(x) /\ exec'[j].status = s
          BY <1>0, <3>2, <5>1 DEF Shape
        <5> QED
          BY <3>2, <5>1, <5>2
      <4>2. DocAt(x) = DocOf[j] /\ DocAt(x) \in Docs
        BY <2>2, <4>1 DEF DocAt
      <4>3. chunks[DocAt(x)] # {} => text[DocAt(x)] # "none"
        BY <4>2 DEF ChunkInv, ReportsAreTrue, ChunksOfLastText
      <4>4. text'[DocAt(x)] # "none"
        BY <2>8, <3>1, <4>1, <4>2, <4>3
      <4>5. exec'[j].status = "skipped" => chunks'[DocAt(x)] # {} \/ DocAt(x) \in emptied'
        BY <2>8, <4>1, <4>2
      <4> QED
        BY <4>2, <4>4, <4>5
    <3>3. ASSUME NEW j \in Jobs, exec'[j] # None, exec'[j] = exec[j]
          PROVE  /\ exec'[j].status \in {"completed", "skipped"} => text'[DocOf[j]] # "none"
                 /\ exec'[j].status = "skipped" =>
                      chunks'[DocOf[j]] # {} \/ DocOf[j] \in emptied'
      <4>1. DocOf[j] \in Docs
        OBVIOUS
      <4> QED
        BY <2>8, <3>3, <4>1 DEF ChunkInv, ReportsAreTrue, JobReports
    <3> QED
      BY <3>2, <3>3 DEF JobReports
  <2>10. StatusReports'
    <3>1. CASE UNCHANGED docVars
      BY <3>1 DEF ChunkInv, ReportsAreTrue, StatusReports, docVars
    \* a worker at a document that has no chunks
    <3>2. CASE /\ pc[x] = "cleared" /\ x \in Workers /\ UNCHANGED <<chunks, text, emptied>>
               /\ ocr' = [ocr EXCEPT ![DocAt(x)] = "failed"] /\ patched' = patched \ {DocAt(x)}
      BY <1>0, <3>2 DEF ChunkInv, ReportsAreTrue, StatusReports, Shape
    <3>3. ASSUME NEW read \in Texts, Read(x, read), patched' = patched \ {DocAt(x)}
          PROVE StatusReports'
      BY <1>0, <3>3 DEF Read, Texts, ChunkInv, ReportsAreTrue, StatusReports, Shape
    <3> QED
      BY <2>1, <3>1, <3>2, <3>3 DEF ChunkEffect
  <2> QED
    BY <2>3, <2>5, <2>6, <2>7, <2>9, <2>10 DEF ChunkInv, ReportsAreTrue
<1> QED
  BY <1>1, <1>2, Steps

\* Receive hands over the whole set it took.
LEMMA WholeBatch ==
  ASSUME NEW S \in SUBSET Messages, NEW order \in SetToSeqs(S)
  PROVE  order \in Seq(Messages) /\ \A m \in S : \E i \in 1..Len(order) : order[i] = m
<1>1. IsFiniteSet(S) /\ Cardinality(S) \in Nat
  BY QueueAssumption, FS_Subset, FS_CardinalityType
<1> DEFINE n == Cardinality(S)
<1>2. /\ order \in [1..n -> S]
      /\ \A i, j \in 1..n : i # j => order[i] # order[j]
  BY DEF SetToSeqs
<1>3. order \in Seq(Messages) /\ Len(order) = n
  <2>1. order \in [1..n -> Messages]
    BY <1>2
  <2> QED
    BY <1>1, <2>1, SeqDef
<1>4. order \in Surjection(1..n, S)
  <2>1. order \in Injection(1..n, S)
    BY <1>2 DEF Injection, IsInjective
  <2>2. IsFiniteSet(1..n) /\ Cardinality(1..n) = n
    BY <1>1, FS_Interval
  <2> QED
    BY <1>1, <2>1, <2>2, FS_Injection
<1> QED
  BY <1>3, <1>4 DEF Surjection

\* The attempt a commit writes is a number.
LEMMA AttemptIsNat ==
  ASSUME TypeOK, ControlInv, ExecInv, NEW x \in Workers, pc[x] \in Working
  PROVE  AttemptNow(x) \in Nat
<1>1. Cur(x) \in Messages /\ JobAt(x) \in Jobs
  BY Located DEF ControlInv
<1>2. exec[JobAt(x)] # None => exec[JobAt(x)].attempt \in Nat
  BY <1>1 DEF TypeOK
<1>3. Attempt[Cur(x)] \in Nat
  BY <1>1, QueueAssumption
<1>4. snap[x] # None => exec[JobAt(x)] # None
  BY DEF ExecInv
<1> QED
  BY <1>2, <1>3, <1>4 DEF AttemptNow, Admission

\* Types are kept.
LEMMA TypeStep ==
  ASSUME TypeOK, ControlInv, ExecInv, [Next]_vars PROVE TypeOK'
<1> USE QueueAssumption
<1>0. Shape
  BY ShapeOfType
<1>1. CASE Aside
  <2>1. UNCHANGED <<exec, chunks, text, emptied, got, batch, failures, snap, pc, target, seen,
                    docLock, rowLock>>
    BY <1>1 DEF Aside, Enqueue, DeadLetter, PatchStatus, Archive, vars, docVars, sqsVars,
       recVars, lockVars
  <2>2. /\ msg' \in [Messages -> {"unsent", "queued", "held", "done", "dlq"}]
        /\ receives' \in [Messages -> 0..MaxReceive]
    <3>1. CASE UNCHANGED <<msg, receives>>
      BY <3>1 DEF TypeOK
    <3>2. ASSUME NEW m \in Messages, Enqueue(m) \/ DeadLetter(m)
          PROVE  /\ msg' \in [Messages -> {"unsent", "queued", "held", "done", "dlq"}]
                 /\ receives' = receives
      BY <3>2 DEF Enqueue, DeadLetter, TypeOK
    <3> QED
      BY <1>1, <3>1, <3>2 DEF Aside, PatchStatus, Archive, vars, sqsVars, TypeOK
  <2>3. ocr' \in [Docs -> OcrStatus] /\ patched' \subseteq Docs /\ archived' \in BOOLEAN
    <3>1. \A s \in Patches : OcrOf(s) \in OcrStatus
      BY PatchAssumption DEF OcrOf, OcrStatus, DocStatus
    <3>2. ASSUME NEW d \in Docs, NEW s \in Patches, PatchStatus(d, s)
          PROVE ocr' \in [Docs -> OcrStatus] /\ patched' \subseteq Docs /\ archived' = archived
      BY <3>1, <3>2 DEF PatchStatus, TypeOK
    <3>3. ASSUME ~(\E d \in Docs, s \in Patches : PatchStatus(d, s))
          PROVE UNCHANGED <<ocr, patched>> /\ archived' \in {archived, TRUE}
      BY <1>1, <3>3 DEF Aside, Enqueue, DeadLetter, Archive, vars, docVars
    <3> QED
      BY <3>2, <3>3 DEF TypeOK
  <2> QED
    BY <2>1, <2>2, <2>3 DEF TypeOK
<1>2. ASSUME NEW x \in Txs, StepOf(x) PROVE TypeOK'
  <2>1. ExecEffect(x)
    BY <1>2, ExecEffects
  <2>2. x \in Workers /\ batch[x] # <<>> =>
          Cur(x) \in Messages /\ JobAt(x) \in Jobs /\ Tail(batch[x]) \in Seq(Messages)
    BY Located
  <2>3. exec' \in [Jobs -> [status : ExecStatus, attempt : Nat] \cup {None}]
    <3>1. CASE exec' = exec
      BY <3>1 DEF TypeOK
    <3>2. CASE exec' # exec
      <4>1. PICK s \in Settled :
              /\ x \in Workers /\ pc[x] \in Working
              /\ exec' = [exec EXCEPT ![JobAt(x)] = [status |-> s, attempt |-> AttemptNow(x)]]
        BY <2>1, <3>2 DEF ExecEffect
      <4>2. Cur(x) \in Messages /\ JobAt(x) \in Jobs
        BY <2>2, <4>1 DEF ControlInv
      <4>3. AttemptNow(x) \in Nat
        BY <4>1, AttemptIsNat
      <4> QED
        BY <4>1, <4>2, <4>3 DEF TypeOK, Settled, ExecStatus
    <3> QED
      BY <3>1, <3>2
  <2>4. x \in Workers /\ pc[x] \in Working => batch[x] # <<>>
    BY DEF ControlInv
  <2>5. ASSUME x \in Workers, batch[x] # <<>>, NextRecord(x)
        PROVE /\ batch' \in [Workers -> Seq(Messages)]
              /\ snap' \in [Workers -> [status : ExecStatus, attempt : Nat] \cup {None}]
              /\ seen' \in [Txs -> SUBSET Txs]
              /\ pc' \in [Txs -> {"idle", "record", "admitted", "claimed", "locked",
                                  "running", "cleared"}]
    BY <2>2, <2>5 DEF NextRecord, TypeOK, Txs
  <2>6. /\ RolledBackLock(x) \in [Docs -> Txs \cup {None}]
        /\ [d \in Docs |-> IF docLock[d] = x THEN None ELSE docLock[d]]
             \in [Docs -> Txs \cup {None}]
        /\ ReleaseRows(x) => rowLock' \in [Jobs -> Workers \cup {None}]
    BY DEF RolledBackLock, ReleaseRows, TypeOK
  <2> DEFINE Written == /\ chunks' \in [Docs -> SUBSET Txs]
                        /\ ocr' \in [Docs -> OcrStatus]
                        /\ text' \in [Docs -> Texts \cup {"none"}]
                        /\ emptied' \subseteq Docs /\ patched' \subseteq Docs
  <2>stored. pc[x] \in Working => /\ \A read \in Texts : Stored(x, read) \in SUBSET Txs
                             /\ chunks[DocAt(x)] \ seen[x] \in SUBSET Txs
    <3>1. pc[x] \in Working => chunks[DocAt(x)] \in SUBSET Txs
      BY Located DEF TypeOK
    <3> QED
      BY <3>1 DEF Stored
  <2>ingest. ASSUME NEW read \in Texts, Ingest(x, read), pc[x] \in Working PROVE Written
    <3>1. DocAt(x) \in Docs /\ Stored(x, read) \in SUBSET Txs
      BY <2>stored, <2>ingest, Located
    <3> QED
      BY <2>ingest, <3>1 DEF Ingest, OcrStatus, TypeOK
  <2>7. ASSUME x \in Workers, NEW s, pc[x] \in Working, CommitRecord(x, s), Written
        PROVE TypeOK'
    BY <2>3, <2>4, <2>5, <2>6, <2>7 DEF CommitRecord, TypeOK, sqsVars
  <2>8. ASSUME x \in Workers, batch[x] # <<>>, FailedRecord(x) PROVE TypeOK'
    <3>1. Cur(x) \in Messages
      BY <2>2, <2>8
    <3>2. failures' \in [Workers -> SUBSET Messages]
      BY <2>8, <3>1 DEF FailedRecord, TypeOK
    <3> QED
      BY <2>5, <2>6, <2>8, <3>2 DEF FailedRecord, TypeOK, docVars, sqsVars
  <2>9. ASSUME x \in Workers, NEW S \in SUBSET Messages, Receive(x, S) PROVE TypeOK'
    <3>1. batch' \in [Workers -> Seq(Messages)]
      <4>1. PICK order \in SetToSeqs(S) : batch' = [batch EXCEPT ![x] = order]
        BY <2>9 DEF Receive
      <4>2. order \in Seq(Messages)
        BY <4>1, WholeBatch
      <4> QED
        BY <4>1, <4>2 DEF TypeOK
    <3>2. receives' \in [Messages -> 0..MaxReceive]
      BY <2>9 DEF Receive, Deliverable, TypeOK
    <3>3. msg' \in [Messages -> {"unsent", "queued", "held", "done", "dlq"}]
      BY <2>9 DEF Receive, TypeOK
    <3>4. got' \in [Workers -> SUBSET Messages] /\ pc' \in [Txs -> {"idle", "record", "admitted",
            "claimed", "locked", "running", "cleared"}]
      BY <2>9 DEF Receive, TypeOK, Txs
    <3> QED
      BY <2>9, <3>1, <3>2, <3>3, <3>4 DEF Receive, TypeOK, docVars, lockVars
  <2>10. CASE x \in Workers /\ Lookup(x)
    <3>1. CASE NextRecord(x)
      BY <2>5, <2>10, <3>1 DEF Lookup, TypeOK, docVars, sqsVars, lockVars
    <3>2. CASE ~NextRecord(x)
      <4>1. exec[JobAt(x)] \in [status : ExecStatus, attempt : Nat] \cup {None}
        BY <2>2, <2>10 DEF Lookup, TypeOK
      <4> QED
        BY <2>10, <3>2, <4>1 DEF Lookup, TypeOK, docVars, sqsVars, lockVars, Txs
    <3> QED
      BY <3>1, <3>2
  <2>11. CASE x \in Workers /\ Claim(x)
    BY <2>11 DEF Claim, TypeOK, docVars, sqsVars, recVars, Txs
  <2>12. CASE x \in Workers /\ (UniqueViolation(x) \/ JobRaises(x))
    BY <2>4, <2>8, <2>12 DEF UniqueViolation, JobRaises, Working
  <2>13. CASE x \in Workers /\ (AttemptsExceeded(x) \/ DocumentGone(x))
    <3>1. CommitRecord(x, "failed") /\ pc[x] \in Working /\ Written
      BY <2>13 DEF AttemptsExceeded, DocumentGone, Working, Inside, TypeOK, docVars
    <3> QED
      BY <2>7, <2>13, <3>1
  <2>14. CASE LockDoc(x)
    BY <2>14 DEF LockDoc, TypeOK, docVars, sqsVars, recVars, Txs
  <2>15. CASE x \in Workers /\ CheckDocument(x)
    <3>1. pc[x] \in Working /\ Written
      BY <2>15 DEF CheckDocument, Working, Inside, TypeOK, docVars
    <3>2. CASE \E s : CommitRecord(x, s)
      BY <2>7, <2>15, <3>1, <3>2
    <3>3. CASE ~\E s : CommitRecord(x, s)
      <4>1. /\ rowLock' = [rowLock EXCEPT ![JobAt(x)] = x]
            /\ pc' = [pc EXCEPT ![x] = "running"]
            /\ UNCHANGED <<archived, sqsVars, recVars, target, seen, docLock>>
        BY <2>15, <3>3 DEF CheckDocument
      <4> QED
        BY <2>3, <2>15, <3>1, <4>1 DEF TypeOK, sqsVars, recVars, Txs
    <3> QED
      BY <3>2, <3>3
  <2>16. CASE ClearChunks(x)
    <3>1. DocAt(x) \in Docs
      BY <2>16, Located DEF ClearChunks, Working, Inside
    <3> QED
      BY <2>16, <3>1 DEF ClearChunks, TypeOK, docVars, sqsVars, recVars, lockVars
  <2>17. CASE x \in Workers /\ (JobIngested(x) \/ JobOcrFailed(x))
    <3>1. pc[x] \in Working
      BY <2>17 DEF JobIngested, JobOcrFailed, Working, Inside
    <3>2. Written
      <4>1. CASE JobIngested(x)
        BY <2>ingest, <3>1, <4>1 DEF JobIngested
      <4>2. CASE JobOcrFailed(x)
        BY <2>stored, <3>1, <4>2 DEF JobOcrFailed, OcrStatus, TypeOK
      <4> QED
        BY <2>17, <4>1, <4>2
    <3> QED
      BY <2>7, <2>17, <3>1, <3>2 DEF JobIngested, JobOcrFailed
  <2>18. CASE x \in Workers /\ Respond(x)
    BY <2>18 DEF Respond, Returned, TypeOK, docVars, lockVars, Txs
  <2>19. CASE x \in Workers /\ WorkerDies(x)
    <3>1. msg' \in [Messages -> {"unsent", "queued", "held", "done", "dlq"}]
      BY <2>19 DEF WorkerDies, Returned, TypeOK
    <3>2. batch' \in [Workers -> Seq(Messages)]
      BY <2>19, EmptySeq DEF WorkerDies, TypeOK
    <3> QED
      BY <2>6, <2>19, <3>1, <3>2 DEF WorkerDies, TypeOK, docVars, Txs
  <2>20. ASSUME x \in Users, NEW d \in Docs, Reprocess(x, d) PROVE TypeOK'
    BY <2>20 DEF Reprocess, TypeOK, docVars, sqsVars, recVars, lockVars, Txs
  <2>21. CASE x \in Users /\ (UserIngested(x) \/ UserFails(x))
    <3>1. Written
      <4>1. CASE UserIngested(x)
        BY <2>ingest, <4>1 DEF UserIngested, Working, Inside
      <4>2. CASE UserFails(x)
        BY <2>21, <4>2 DEF UserFails, KeptOnFailure, TypeOK
      <4> QED
        BY <2>21, <4>1, <4>2
    <3>2. UserEnds(x)
      BY <2>21 DEF UserIngested, UserFails
    <3> QED
      BY <2>6, <2>21, <3>1, <3>2 DEF UserEnds, TypeOK, sqsVars, recVars, Txs
  <2> QED
    BY <1>2, <2>9, <2>10, <2>11, <2>12, <2>13, <2>14, <2>15, <2>16, <2>17, <2>18, <2>19, <2>20,
       <2>21 DEF StepOf, Record, Endpoint
<1> QED
  BY <1>1, <1>2, Steps

\* The record after the head is still in the tail.
LEMMA TailHas ==
  ASSUME NEW s \in Seq(Messages), s # <<>>, NEW i \in 1..Len(s), s[i] # Head(s)
  PROVE  \E k \in 1..Len(Tail(s)) : Tail(s)[k] = s[i]
<1>1. i # 1
  OBVIOUS
<1>2. i - 1 \in 1..Len(Tail(s)) /\ Tail(s)[i - 1] = s[i]
  BY <1>1, HeadTailProperties
<1> QED
  BY <1>2

\* A record done with leaves a settled row or a failure.
LEMMA ExecStep ==
  ASSUME TypeOK, ControlInv, ExecInv, [Next]_vars PROVE ExecInv'
<1> USE QueueAssumption
<1>0. Shape
  BY ShapeOfType
<1>1. CASE Aside
  <2>1. UNCHANGED <<exec, got, batch, failures, snap, pc>>
    BY <1>1 DEF Aside, Enqueue, DeadLetter, PatchStatus, Archive, vars, sqsVars, recVars
  <2>2. \A m \in Messages : msg'[m] = "done" => msg[m] = "done"
    BY <1>1 DEF Aside, Enqueue, DeadLetter, PatchStatus, Archive, vars, sqsVars, TypeOK
  <2> QED
    BY <2>1, <2>2 DEF ExecInv, AckedIsSettled, JobAt, Cur
<1>2. ASSUME NEW x \in Txs, StepOf(x) PROVE ExecInv'
  <2>1. Untouched(x) /\ ExecEffect(x)
    BY <1>2, Frames, ExecEffects
  \* a row that is there stays
  <2>2. \A j \in Jobs :
          /\ exec'[j] # None => exec'[j].status \in Settled
          /\ exec[j] # None => exec'[j] # None
    <3>1. CASE exec' = exec
      BY <3>1 DEF ExecInv
    <3>2. CASE exec' # exec
      <4>1. PICK s \in Settled :
              /\ x \in Workers /\ pc[x] \in Working
              /\ exec' = [exec EXCEPT ![JobAt(x)] = [status |-> s, attempt |-> AttemptNow(x)]]
        BY <2>1, <3>2 DEF ExecEffect
      <4>2. [status |-> s, attempt |-> AttemptNow(x)] \in [status : ExecStatus, attempt : Nat]
        BY <4>1, AttemptIsNat DEF Settled, ExecStatus
      <4>3. [status |-> s, attempt |-> AttemptNow(x)] # None
        BY <4>2
      <4> QED
        BY <1>0, <4>1, <4>3 DEF ExecInv, Shape
    <3> QED
      BY <3>1, <3>2
  \* an execution that commits leaves the row of its job
  <2>3. ASSUME x \in Workers, NEW s \in Settled, CommitRecord(x, s), pc[x] \in Working
        PROVE  exec'[JobAt(x)] # None
    <3>1. JobAt(x) \in Jobs
      BY <2>3, Located DEF ControlInv
    <3>2. [status |-> s, attempt |-> AttemptNow(x)] \in [status : ExecStatus, attempt : Nat]
      BY <2>3, AttemptIsNat DEF Settled, ExecStatus
    <3> QED
      BY <1>0, <2>3, <3>1, <3>2 DEF CommitRecord, Shape
  <2>4. AckedIsSettled'
    <3>1. ASSUME NEW m \in Messages, msg'[m] = "done", msg[m] # "done" PROVE exec[JobOf[m]] # None
      <4>1. x \in Workers /\ Respond(x)
        BY <1>2, <3>1
           DEF StepOf, Record, Endpoint, Receive, Lookup, Claim, UniqueViolation, JobRaises,
               FailedRecord, AttemptsExceeded, CommitRecord, LockDoc, CheckDocument,
               DocumentGone, ClearChunks, JobIngested, JobOcrFailed, WorkerDies, Returned,
               Reprocess, UserIngested, UserFails, UserEnds, sqsVars, TypeOK
      <4>2. m \in got[x] \ failures[x] /\ batch[x] = <<>>
        BY <3>1, <4>1 DEF Respond, Returned, TypeOK
      <4>3. ~\E i \in 1..Len(batch[x]) : batch[x][i] = m
        BY <4>2, EmptySeq
      <4> QED
        BY <4>1, <4>2, <4>3 DEF ExecInv
    <3>2. \A m \in Messages : JobOf[m] \in Jobs
      OBVIOUS
    <3> QED
      BY <2>2, <3>1, <3>2 DEF ExecInv, AckedIsSettled
  <2>5. \A w \in Workers : \A m \in got'[w] \ failures'[w] :
          exec'[JobOf[m]] # None \/ \E i \in 1..Len(batch'[w]) : batch'[w][i] = m
    <3> DEFINE Accounted == \A m \in got'[x] \ failures'[x] :
                   exec'[JobOf[m]] # None \/ \E i \in 1..Len(batch'[x]) : batch'[x][i] = m
    <3> HIDE DEF Accounted
    <3>1. \A m \in Messages : JobOf[m] \in Jobs
      OBVIOUS
    <3>2. \A w \in Workers : got[w] \subseteq Messages
      BY DEF TypeOK
    <3>3. ASSUME NEW w \in Workers, w # x, NEW m \in got'[w] \ failures'[w]
          PROVE exec'[JobOf[m]] # None \/ \E i \in 1..Len(batch'[w]) : batch'[w][i] = m
      <4>1. got'[w] = got[w] /\ failures'[w] = failures[w] /\ batch'[w] = batch[w]
        BY <2>1, <3>3 DEF Untouched, Txs
      <4> QED
        BY <2>2, <3>1, <3>2, <3>3, <4>1 DEF ExecInv
    <3>4. ASSUME x \in Workers, got'[x] = got[x], failures'[x] = failures[x],
                 batch'[x] = batch[x]
          PROVE Accounted
      <4> SUFFICES ASSUME NEW m \in got'[x] \ failures'[x]
                   PROVE  exec'[JobOf[m]] # None \/ \E i \in 1..Len(batch'[x]) : batch'[x][i] = m
        BY DEF Accounted
      <4> QED
        BY <2>2, <3>1, <3>2, <3>4 DEF ExecInv
    \* the head is done with when its row is there or it has failed
    <3>5. ASSUME x \in Workers, got'[x] = got[x], batch[x] # <<>>, batch'[x] = Tail(batch[x]),
                 failures[x] \subseteq failures'[x],
                 exec'[JobAt(x)] # None \/ Cur(x) \in failures'[x]
          PROVE Accounted
      <4> SUFFICES ASSUME NEW m \in got[x], m \notin failures'[x], exec'[JobOf[m]] = None
                   PROVE \E i \in 1..Len(batch'[x]) : batch'[x][i] = m
        BY <3>5 DEF Accounted
      <4>1. m # Cur(x)
        BY <3>5 DEF JobAt
      <4>2. PICK i \in 1..Len(batch[x]) : batch[x][i] = m
        BY <2>2, <3>1, <3>2, <3>5 DEF ExecInv
      <4>3. batch[x] \in Seq(Messages)
        BY <3>5 DEF TypeOK
      <4>4. \E k \in 1..Len(Tail(batch[x])) : Tail(batch[x])[k] = batch[x][i]
        BY <3>5, <4>1, <4>2, <4>3, TailHas DEF Cur
      <4> QED
        BY <3>5, <4>2, <4>4
    <3>6. ASSUME x \in Workers, NEW s \in Settled, CommitRecord(x, s), pc[x] \in Working
          PROVE Accounted
      <4>1. batch[x] # <<>>
        BY <3>6 DEF ControlInv
      <4> QED
        BY <1>0, <2>3, <3>5, <3>6, <4>1 DEF CommitRecord, NextRecord, sqsVars, Shape
    <3>7. ASSUME x \in Workers, FailedRecord(x), batch[x] # <<>> PROVE Accounted
      BY <1>0, <3>5, <3>7 DEF FailedRecord, NextRecord, sqsVars, Shape
    <3>8. ASSUME x \in Workers, NEW S \in SUBSET Messages, Receive(x, S) PROVE Accounted
      <4>1. PICK order \in SetToSeqs(S) : batch' = [batch EXCEPT ![x] = order]
        BY <3>8 DEF Receive
      <4>2. got'[x] = S /\ batch'[x] = order
        BY <1>0, <3>8, <4>1 DEF Receive, Shape
      <4> QED
        BY <4>1, <4>2, WholeBatch DEF Accounted
    <3>9. ASSUME x \in Workers, Lookup(x) PROVE Accounted
      <4>1. CASE NextRecord(x)
        <5>1. exec[JobAt(x)] # None
          BY <3>9, <4>1, <1>0 DEF Lookup, NextRecord, Admission, Shape, Txs
        <5> QED
          BY <1>0, <3>5, <3>9, <4>1, <5>1 DEF Lookup, NextRecord, sqsVars, Shape
      <4>2. CASE ~NextRecord(x)
        BY <3>4, <3>9, <4>2 DEF Lookup, sqsVars
      <4> QED
        BY <4>1, <4>2
    <3>10. ASSUME x \in Workers, (UniqueViolation(x) \/ JobRaises(x)) PROVE Accounted
      BY <3>7, <3>10 DEF UniqueViolation, JobRaises, ControlInv, Working
    <3>11. ASSUME x \in Workers, \/ AttemptsExceeded(x) \/ DocumentGone(x)
                               \/ JobIngested(x) \/ JobOcrFailed(x)
           PROVE  Accounted
      BY <3>6, <3>11 DEF AttemptsExceeded, DocumentGone, JobIngested, JobOcrFailed, Working,
         Inside, Settled
    <3>12. ASSUME x \in Workers, CheckDocument(x) PROVE Accounted
      <4>1. CASE \E s \in Settled : CommitRecord(x, s)
        BY <3>6, <3>12, <4>1 DEF CheckDocument, Working, Inside
      <4>2. CASE ~\E s \in Settled : CommitRecord(x, s)
        BY <3>4, <3>12, <4>2 DEF CheckDocument, Settled, sqsVars, recVars
      <4> QED
        BY <4>1, <4>2
    <3>13. ASSUME x \in Workers, (Claim(x) \/ LockDoc(x) \/ ClearChunks(x)) PROVE Accounted
      BY <3>4, <3>13 DEF Claim, LockDoc, ClearChunks, sqsVars, recVars
    <3>14. ASSUME x \in Workers, (Respond(x) \/ WorkerDies(x)) PROVE Accounted
      <4>1. got'[x] = {}
        BY <1>0, <3>14 DEF Respond, WorkerDies, Shape
      <4> QED
        BY <4>1 DEF Accounted
    <3>15. x \in Workers => Accounted
      BY <1>2, <3>8, <3>9, <3>10, <3>11, <3>12, <3>13, <3>14, QueueAssumption
         DEF StepOf, Record
    <3> QED
      BY <3>3, <3>15 DEF Accounted
  <2>6. \A w \in Workers : pc'[w] \in Working /\ snap'[w] # None => exec'[JobAt(w)'] # None
    <3>1. ASSUME NEW w \in Workers, w # x, pc'[w] \in Working, snap'[w] # None
          PROVE exec'[JobAt(w)'] # None
      <4>1. /\ pc'[w] = pc[w] /\ snap'[w] = snap[w] /\ batch'[w] = batch[w]
        BY <2>1, <3>1 DEF Untouched, Txs
      <4>2. JobAt(w)' = JobAt(w) /\ JobAt(w) \in Jobs
        BY <3>1, <4>1, Located DEF JobAt, Cur, ControlInv
      <4> QED
        BY <2>2, <3>1, <4>1, <4>2 DEF ExecInv
    <3>2. ASSUME x \in Workers, pc'[x] \in Working, snap'[x] # None
          PROVE exec'[JobAt(x)'] # None
      <4>1. CASE Lookup(x)
        <5>1. snap'[x] = exec[JobAt(x)] /\ batch' = batch /\ exec' = exec
          BY <1>0, <3>2, <4>1 DEF Lookup, NextRecord, Working, Inside, Shape, Txs
        <5> QED
          BY <3>2, <5>1 DEF JobAt, Cur
      <4>2. CASE Claim(x) \/ LockDoc(x) \/ ClearChunks(x) \/ CheckDocument(x)
        <5>1. snap' = snap /\ batch' = batch /\ exec' = exec /\ pc[x] \in Working
          BY <1>0, <3>2, <4>2
             DEF Claim, LockDoc, ClearChunks, CheckDocument, StartedExec, CommitRecord,
                 NextRecord, recVars, Working, Inside, Shape
        <5> QED
          BY <3>2, <5>1 DEF ExecInv, JobAt, Cur
      <4>3. Lookup(x) \/ Claim(x) \/ LockDoc(x) \/ ClearChunks(x) \/ CheckDocument(x)
        BY <1>0, <1>2, <3>2
           DEF StepOf, Record, Receive, UniqueViolation, JobRaises, FailedRecord,
               AttemptsExceeded, DocumentGone, JobIngested, JobOcrFailed, CommitRecord,
               NextRecord, Respond, WorkerDies, Working, Inside, Shape, Txs
      <4> QED
        BY <4>1, <4>2, <4>3
    <3> QED
      BY <3>1, <3>2
  <2> QED
    BY <2>2, <2>4, <2>5, <2>6 DEF ExecInv
<1> QED
  BY <1>1, <1>2, Steps

-----------------------------------------------------------------------------
(* Jobs published at one attempt, of documents that no blank text emptied *)

\* The jobs whose outcome does not change.
Steady(j) == OneAttempt(j) /\ DocOf[j] \notin emptied

\* An execution without a row holds the key of the one it inserts; one that found
\* a row is only going on with a skipped job, which ends skipped again or, once
\* the case is archived, failed.
OutcomeInv ==
  /\ \A m \in Messages : Steady(JobOf[m]) /\ exec[JobOf[m]] # None =>
       /\ exec[JobOf[m]].attempt = Attempt[m]
       /\ exec[JobOf[m]].status = "skipped" => Attempt[m] <= MaxAttempts
  /\ \A w \in Workers : pc[w] \in Working \ {"admitted"} =>
       /\ Attempt[Cur(w)] <= MaxAttempts
       /\ snap[w] = None => exec[JobAt(w)] = None /\ rowLock[JobAt(w)] = w
  /\ \A w \in Workers : pc[w] \in Working /\ snap[w] # None /\ Steady(JobAt(w)) =>
       /\ pc[w] \notin {"running", "cleared"} /\ snap[w].status = "skipped"
       /\ exec[JobAt(w)].status = "skipped" \/ (archived /\ exec[JobAt(w)].status = "failed")

\* What a commit writes over the row of such a job.
LEMMA Rewritten ==
  ASSUME TypeOK, ControlInv, ChunkInv, ExecInv, OutcomeInv, NEW x \in Txs, StepOf(x),
         NEW j \in Jobs, Steady(j), exec'[j] # exec[j]
  PROVE  /\ x \in Workers /\ j = JobAt(x) /\ pc[x] \in Working
         /\ exec'[j].attempt = Attempt[Cur(x)]
         /\ exec'[j].status = "skipped" => Attempt[Cur(x)] <= MaxAttempts
         /\ exec[j] # None => /\ exec[j].status = "skipped"
                              /\ archived /\ exec'[j].status = "failed"
<1> USE QueueAssumption
<1>0. Shape
  BY ShapeOfType
<1>1. PICK s \in Settled :
        /\ x \in Workers /\ pc[x] \in Working /\ rowLock[JobAt(x)] \in {None, x}
        /\ exec' = [exec EXCEPT ![JobAt(x)] = [status |-> s, attempt |-> AttemptNow(x)]]
        /\ s = "completed" => JobIngested(x)
        /\ s = "skipped" => pc[x] = "locked" /\ ~archived /\ chunks[DocAt(x)] # {}
        /\ s = "failed" => \/ AttemptsExceeded(x)
                           \/ archived /\ pc[x] \in {"locked", "running"}
                           \/ pc[x] = "cleared"
  BY ExecEffects DEF ExecEffect
<1>2. j = JobAt(x) /\ exec'[j] = [status |-> s, attempt |-> AttemptNow(x)]
  BY <1>0, <1>1 DEF Shape
<1>3. Cur(x) \in Messages /\ JobOf[Cur(x)] = j
  BY <1>1, <1>2, Located DEF ControlInv, JobAt
<1>4. CASE snap[x] = None
  <2>1. exec[j] = None
    <3>1. CASE pc[x] = "admitted"
      <4>1. AttemptsExceeded(x)
        BY <1>1, <3>1 DEF JobIngested, Settled
      <4> QED
        BY <1>2, <1>4, <4>1 DEF AttemptsExceeded, Taken
    <3>2. CASE pc[x] # "admitted"
      BY <1>1, <1>2, <1>4, <3>2 DEF OutcomeInv
    <3> QED
      BY <3>1, <3>2
  <2>2. AttemptNow(x) = Attempt[Cur(x)]
    BY <1>4 DEF AttemptNow, Admission
  <2>3. s = "skipped" => Attempt[Cur(x)] <= MaxAttempts
    BY <1>1 DEF OutcomeInv, Working, Inside
  <2> QED
    BY <1>1, <1>2, <2>1, <2>2, <2>3
<1>5. CASE snap[x] # None
  <2>1. /\ pc[x] \notin {"running", "cleared"} /\ snap[x].status = "skipped"
        /\ exec[j].status = "skipped" \/ (archived /\ exec[j].status = "failed")
    BY <1>1, <1>2, <1>5 DEF OutcomeInv
  <2>2. exec[j] # None
    BY <1>1, <1>2, <1>5 DEF ExecInv
  <2>3. /\ exec[j].attempt = Attempt[Cur(x)]
        /\ exec[j].status = "skipped" => Attempt[Cur(x)] <= MaxAttempts
    BY <1>3, <2>2 DEF OutcomeInv
  <2>4. AttemptNow(x) = exec[j].attempt
    BY <1>2, <1>5, <2>1 DEF AttemptNow, Admission
  <2>5. exec[j] \in [status : ExecStatus, attempt : Nat]
    BY <2>2 DEF TypeOK
  <2>6. s # exec[j].status
    <3>1. exec[j] = [status |-> exec[j].status, attempt |-> exec[j].attempt]
      BY <2>5
    <3> QED
      BY <1>2, <2>4, <3>1
  <2>7. s \in {"skipped", "failed"}
    BY <1>1, <2>1 DEF JobIngested, Settled
  <2>8. CASE s = "failed"
    <3>1. exec[j].status = "skipped"
      BY <2>1, <2>6, <2>8
    <3>2. ~AttemptsExceeded(x)
      <4>1. Attempt[Cur(x)] \in Nat /\ Attempt[Cur(x)] <= MaxAttempts
        BY <1>3, <2>3, <3>1
      <4> QED
        BY <4>1 DEF AttemptsExceeded
    <3> QED
      BY <1>1, <1>2, <2>1, <2>3, <2>4, <2>8, <3>1, <3>2
  <2>9. CASE s = "skipped"
    BY <1>1, <2>1, <2>6, <2>9
  <2> QED
    BY <2>7, <2>8, <2>9
<1> QED
  BY <1>4, <1>5

\* Executions of one attempt keep agreeing with the row of their job.
LEMMA OutcomeStep ==
  ASSUME TypeOK, ControlInv, ChunkInv, ExecInv, OutcomeInv, [Next]_vars PROVE OutcomeInv'
<1> USE QueueAssumption
<1>0. Shape
  BY ShapeOfType
<1>1. CASE Aside
  <2>1. UNCHANGED <<exec, batch, snap, pc, rowLock, emptied>> /\ (archived => archived')
    BY <1>1 DEF Aside, Enqueue, DeadLetter, PatchStatus, Archive, vars, docVars, recVars,
       lockVars
  <2> QED
    BY <2>1 DEF OutcomeInv, Steady, JobAt, Cur
<1>2. ASSUME NEW x \in Txs, StepOf(x) PROVE OutcomeInv'
  <2>1. Untouched(x) /\ archived' = archived
    BY <1>2, Frames
       DEF StepOf, Record, Endpoint, Receive, Lookup, Claim, UniqueViolation, JobRaises,
           FailedRecord, AttemptsExceeded, CommitRecord, LockDoc, CheckDocument, ClearChunks,
           DocumentGone, JobIngested, JobOcrFailed, Respond, WorkerDies, Reprocess,
           UserIngested, UserFails, UserEnds
  <2>kept. emptied \subseteq emptied'
    BY <1>2, ChunkEffects DEF ChunkEffect, Read, docVars
  <2>2. ASSUME NEW m \in Messages, OneAttempt(JobOf[m]),
               DocOf[JobOf[m]] \notin emptied', exec'[JobOf[m]] # None
        PROVE  /\ exec'[JobOf[m]].attempt = Attempt[m]
               /\ exec'[JobOf[m]].status = "skipped" => Attempt[m] <= MaxAttempts
    <3>1. JobOf[m] \in Jobs /\ Steady(JobOf[m])
      BY <2>2, <2>kept DEF Steady
    <3>2. CASE exec'[JobOf[m]] = exec[JobOf[m]]
      BY <2>2, <3>1, <3>2 DEF OutcomeInv
    <3>3. CASE exec'[JobOf[m]] # exec[JobOf[m]]
      <4>1. /\ x \in Workers /\ JobOf[m] = JobAt(x) /\ pc[x] \in Working
            /\ exec'[JobOf[m]].attempt = Attempt[Cur(x)]
            /\ exec'[JobOf[m]].status = "skipped" => Attempt[Cur(x)] <= MaxAttempts
        BY <1>2, <2>2, <3>1, <3>3, Rewritten
      <4>2. Cur(x) \in Messages
        BY <4>1, Located DEF ControlInv
      <4>3. Attempt[Cur(x)] = Attempt[m]
        BY <3>1, <4>1, <4>2 DEF Steady, OneAttempt, JobAt
      <4> QED
        BY <4>1, <4>3
    <3> QED
      BY <3>2, <3>3
  \* the others keep their rows locked, and find theirs as they were
  <2>3. ASSUME NEW w \in Workers, w # x
        PROVE  /\ pc'[w] = pc[w] /\ snap'[w] = snap[w]
               /\ Cur(w)' = Cur(w) /\ JobAt(w)' = JobAt(w)
               /\ pc[w] \in Working => JobAt(w) \in Jobs
    BY <2>1, <2>3, Located DEF Untouched, Txs, Cur, JobAt, ControlInv
  <2>4. ASSUME NEW w \in Workers, pc'[w] \in Working \ {"admitted"}
        PROVE  /\ Attempt[Cur(w)'] <= MaxAttempts
               /\ snap'[w] = None => exec'[JobAt(w)'] = None /\ rowLock'[JobAt(w)'] = w
    <3>1. CASE w # x
      <4>1. snap[w] = None => exec'[JobAt(w)] = exec[JobAt(w)]
        <5>1. ASSUME snap[w] = None, exec' # exec PROVE JobAt(x) # JobAt(w)
          <6>1. x \in Workers /\ rowLock[JobAt(x)] \in {None, x}
            BY <1>2, <5>1, ExecEffects DEF ExecEffect
          <6>2. rowLock[JobAt(w)] = w
            BY <2>3, <2>4, <3>1, <5>1 DEF OutcomeInv
          <6> QED
            BY <3>1, <6>1, <6>2 DEF Txs
        <5>2. CASE exec' # exec
          <6>1. PICK e : exec' = [exec EXCEPT ![JobAt(x)] = e]
            BY <1>2, <5>2, ExecEffects DEF ExecEffect
          <6> QED
            BY <1>0, <2>3, <2>4, <3>1, <5>1, <5>2, <6>1 DEF Shape
        <5> QED
          BY <5>2
      <4> QED
        BY <2>1, <2>3, <2>4, <3>1, <4>1 DEF OutcomeInv, Untouched, Txs
    <3>2. CASE w = x
      <4>1. CASE Claim(x)
        <5>1. JobAt(x) \in Jobs
          BY <3>2, <4>1, Located DEF Claim, ControlInv, Working
        <5>2. batch' = batch /\ snap' = snap /\ exec' = exec /\ Attempt[Cur(x)] <= MaxAttempts
          BY <4>1 DEF Claim, recVars
        <5>3. snap[x] = None => exec[JobAt(x)] = None /\ rowLock'[JobAt(x)] = x
          BY <1>0, <4>1, <5>1 DEF Claim, Taken, Admission, Shape
        <5> QED
          BY <3>2, <5>2, <5>3 DEF Cur, JobAt
      <4>2. CASE LockDoc(x) \/ ClearChunks(x) \/ CheckDocument(x)
        <5>1. /\ pc[x] \in Working \ {"admitted"}
              /\ batch' = batch /\ snap' = snap /\ exec' = exec
              /\ rowLock' = rowLock \/ rowLock' = [rowLock EXCEPT ![JobAt(x)] = x]
          BY <1>0, <2>4, <3>2, <4>2
             DEF LockDoc, ClearChunks, CheckDocument, StartedExec, CommitRecord, NextRecord,
                 recVars, lockVars, Working, Inside, Shape, Txs
        <5>2. JobAt(x) \in Jobs
          BY <3>2, <5>1, Located DEF ControlInv
        <5> QED
          BY <1>0, <3>2, <5>1, <5>2 DEF OutcomeInv, Cur, JobAt, Shape
      <4>3. Claim(x) \/ LockDoc(x) \/ ClearChunks(x) \/ CheckDocument(x)
        BY <1>0, <1>2, <2>4, <3>2
           DEF StepOf, Record, Receive, Lookup, UniqueViolation, JobRaises, FailedRecord,
               AttemptsExceeded, DocumentGone, JobIngested, JobOcrFailed, CommitRecord,
               NextRecord, Respond, WorkerDies, Working, Inside, Shape, Txs
      <4> QED
        BY <4>1, <4>2, <4>3
    <3> QED
      BY <3>1, <3>2
  <2>5. ASSUME NEW w \in Workers, pc'[w] \in Working, snap'[w] # None,
               OneAttempt(JobAt(w)'), DocOf[JobAt(w)'] \notin emptied'
        PROVE  /\ pc'[w] \notin {"running", "cleared"} /\ snap'[w].status = "skipped"
               /\ \/ exec'[JobAt(w)'].status = "skipped"
                  \/ archived' /\ exec'[JobAt(w)'].status = "failed"
    <3>0. ASSUME JobAt(w)' = JobAt(w) PROVE Steady(JobAt(w))
      BY <2>5, <2>kept, <3>0 DEF Steady
    <3>1. CASE w # x
      <4>1. exec'[JobAt(w)] = exec[JobAt(w)] \/ (archived /\ exec'[JobAt(w)].status = "failed")
        <5>1. exec[JobAt(w)] # None
          BY <2>3, <2>5, <3>1 DEF ExecInv
        <5> QED
          BY <1>2, <2>3, <2>5, <3>0, <3>1, <5>1, Rewritten
      <4> QED
        BY <2>1, <2>3, <2>5, <3>0, <3>1, <4>1 DEF OutcomeInv
    <3>2. CASE w = x
      <4>1. CASE Lookup(x)
        <5>1. /\ snap'[x] = exec[JobAt(x)] /\ pc'[x] = "admitted"
              /\ batch' = batch /\ exec' = exec /\ batch[x] # <<>>
              /\ Admission(exec[JobAt(x)], Attempt[Cur(x)]) # "answered"
          BY <1>0, <2>5, <3>2, <4>1 DEF Lookup, NextRecord, Working, Inside, Shape, Txs
        <5>2. /\ Cur(x) \in Messages /\ JobAt(x) = JobOf[Cur(x)] /\ JobAt(x) \in Jobs
              /\ JobAt(x)' = JobAt(x)
          BY <3>2, <5>1, Located DEF JobAt, Cur
        <5>3. exec[JobAt(x)].attempt = Attempt[Cur(x)] /\ exec[JobAt(x)].status \in Settled
          BY <2>5, <3>0, <3>2, <5>1, <5>2 DEF OutcomeInv, ExecInv
        <5>4. exec[JobAt(x)].status = "skipped"
          <6>1. Attempt[Cur(x)] \in Nat /\ exec[JobAt(x)] # None
            BY <2>5, <3>2, <5>1, <5>2
          <6> QED
            BY <5>1, <5>3, <6>1 DEF Admission, Settled
        <5> QED
          BY <3>2, <5>1, <5>2, <5>4
      <4>2. CASE Claim(x) \/ LockDoc(x) \/ ClearChunks(x) \/ CheckDocument(x)
        <5>1. /\ pc[x] \in Working /\ batch' = batch /\ snap' = snap /\ exec' = exec
          BY <1>0, <2>5, <3>2, <4>2
             DEF Claim, LockDoc, ClearChunks, CheckDocument, StartedExec, CommitRecord,
                 NextRecord, recVars, Working, Inside, Shape, Txs
        <5>here. JobAt(x)' = JobAt(x)
          BY <5>1 DEF JobAt, Cur
        <5>2. /\ pc[x] \notin {"running", "cleared"} /\ snap[x].status = "skipped"
              /\ \/ exec[JobAt(x)].status = "skipped"
                 \/ archived /\ exec[JobAt(x)].status = "failed"
          BY <2>5, <3>0, <3>2, <5>1, <5>here DEF OutcomeInv
        \* a skipped job has its chunks, so the check after the lock ends it
        <5>3. pc'[x] \notin {"running", "cleared"}
          <6>1. CASE CheckDocument(x)
            <7>1. JobAt(x) \in Jobs /\ exec[JobAt(x)] # None /\ DocAt(x) = DocOf[JobAt(x)]
              BY <2>5, <3>2, <5>1, Located DEF ControlInv, ExecInv, DocAt
            <7>2. exec[JobAt(x)].status = "skipped" => chunks[DocAt(x)] # {}
              BY <3>0, <3>2, <5>here, <7>1 DEF ChunkInv, ReportsAreTrue, JobReports, Steady
            <7> QED
              BY <1>0, <5>2, <6>1, <7>2 DEF CheckDocument, CommitRecord, NextRecord, Shape
          <6>2. CASE Claim(x) \/ LockDoc(x)
            BY <1>0, <3>2, <6>2 DEF Claim, LockDoc, Shape, Txs
          <6> QED
            BY <4>2, <5>2, <6>1, <6>2 DEF ClearChunks
        <5> QED
          BY <2>1, <3>2, <5>1, <5>2, <5>3 DEF JobAt, Cur
      <4>3. Lookup(x) \/ Claim(x) \/ LockDoc(x) \/ ClearChunks(x) \/ CheckDocument(x)
        BY <1>0, <1>2, <2>5, <3>2
           DEF StepOf, Record, Receive, UniqueViolation, JobRaises, FailedRecord,
               AttemptsExceeded, DocumentGone, JobIngested, JobOcrFailed, CommitRecord,
               NextRecord, Respond, WorkerDies, Working, Inside, Shape, Txs
      <4> QED
        BY <4>1, <4>2, <4>3
    <3> QED
      BY <3>1, <3>2
  <2> QED
    BY <2>2, <2>4, <2>5 DEF OutcomeInv, Steady
<1> QED
  BY <1>1, <1>2, Steps

-----------------------------------------------------------------------------
\* The inductive invariant.
IInv == TypeOK /\ ControlInv /\ ChunkInv /\ ExecInv /\ OutcomeInv

\* The inductive invariant: locks separate whoever is inside, what a DELETE saw is
\* what is stored, and rows only show settled outcomes.
THEOREM QueueInvariance == Spec => []IInv
<1>1. Init => IInv
  <2> SUFFICES ASSUME Init PROVE IInv
    OBVIOUS
  <2>1. TypeOK
    <3>1. batch \in [Workers -> Seq(Messages)]
      <4>1. <<>> \in Seq(Messages)
        BY EmptySeq
      <4> QED
        BY <4>1 DEF Init
    <3>2. 0 \in 0..MaxReceive
      BY QueueAssumption
    <3> QED
      BY <3>1, <3>2 DEF Init, TypeOK, OcrStatus
  <2>2. ControlInv /\ ChunkInv
    BY QueueAssumption DEF Init, ControlInv, ChunkInv, Working, Inside, Txs, ReportsAreTrue,
       ChunksOfLastText, JobReports, StatusReports, Texts
  <2>3. ExecInv /\ OutcomeInv
    BY QueueAssumption DEF Init, ExecInv, OutcomeInv, AckedIsSettled, Working, Inside, Txs
  <2> QED
    BY <2>1, <2>2, <2>3 DEF IInv
<1>2. IInv /\ [Next]_vars => IInv'
  BY TypeStep, ControlStep, ChunkStep, ExecStep, OutcomeStep DEF IInv
<1> QED
  BY <1>1, <1>2, PTL DEF Spec

\* worker.py:3-6: an acknowledged job has a settled outcome, for any number of
\* workers, batches, duplicates and deaths.
THEOREM NoJobIsLost == Spec => []AckedIsSettled
<1>1. IInv => AckedIsSettled
  BY DEF IInv, ExecInv
<1> QED
  BY <1>1, QueueInvariance, PTL

\* PROC-02: never two sets of chunks for a document.
THEOREM OneSetOfChunks == Spec => []OneGeneration
<1>1. IInv => OneGeneration
  <2> SUFFICES ASSUME IInv, NEW d \in Docs PROVE Cardinality(chunks[d]) <= 1
    BY DEF OneGeneration
  <2>1. chunks[d] = {} \/ \E t \in Txs : chunks[d] = {t}
    BY DEF IInv, ChunkInv
  <2>2. ASSUME NEW t \in Txs, chunks[d] = {t} PROVE Cardinality(chunks[d]) <= 1
    <3>1. Cardinality({t}) = 1
      BY FS_Singleton
    <3> QED
      BY <2>2, <3>1
  <2> QED
    BY <2>1, <2>2, FS_EmptySet
<1> QED
  BY <1>1, QueueInvariance, PTL

\* The chunks stored are those of the last text ingested, and the rows of the job and
\* of the document report what was made of it.
THEOREM ReportsHold == Spec => []ReportsAreTrue
<1>1. IInv => ReportsAreTrue
  BY DEF IInv, ChunkInv
<1> QED
  BY <1>1, QueueInvariance, PTL

\* A worker never ingests a document that has chunks.
THEOREM WorkersIngestOnce == Spec => IngestedOnce
<1> DEFINE Replaced(d) ==
      \E u \in Users : /\ pc[u] = "cleared" /\ target[u] = d
                       /\ chunks'[d] = IF text'[d] = "blank" THEN {} ELSE {u}
<1>1. ASSUME IInv, [Next]_vars
      PROVE  \A d \in Docs : chunks[d] # {} /\ chunks'[d] # chunks[d] => Replaced(d)
  <2>0. Shape
    BY <1>1, ShapeOfType DEF IInv
  <2>1. CASE Aside
    <3>1. chunks' = chunks
      BY <2>1 DEF Aside, Enqueue, DeadLetter, PatchStatus, Archive, vars, docVars
    <3> QED
      BY <3>1
  <2>2. ASSUME NEW x \in Txs, StepOf(x), NEW d \in Docs, chunks[d] # {}, chunks'[d] # chunks[d]
        PROVE  Replaced(d)
    <3>1. ChunkEffect(x)
      BY <1>1, <2>2, ChunkEffects DEF IInv
    <3>2. pc[x] = "cleared" /\ \E read \in Texts : Read(x, read)
      BY <2>2, <3>1 DEF ChunkEffect, docVars
    <3>3. PICK read \in Texts : Read(x, read)
      BY <3>2
    <3>4. /\ d = DocAt(x) /\ text'[d] = read
          /\ chunks'[d] = IF read = "blank" THEN {} ELSE {x}
      BY <2>0, <2>2, <3>3 DEF Read, Shape
    <3>5. x \notin Workers
      BY <1>1, <2>2, <3>2, <3>4 DEF IInv, ChunkInv
    <3>6. x \in Users /\ target[x] = d
      BY <3>4, <3>5 DEF Txs, DocAt
    <3> QED
      BY <3>2, <3>4, <3>6
  <2> QED
    BY <1>1, <2>1, <2>2, Steps
<1> QED
  BY <1>1, QueueInvariance, PTL DEF Spec, IngestedOnce

\* agent_executions.py:1: whatever is redelivered or duplicated, what a job published
\* at one attempt came to is final, unless a blank text emptied its document.
THEOREM OutcomesStay == Spec => OutcomeIsFinal
<1>1. ASSUME IInv, [Next]_vars
      PROVE  \A j \in Jobs : exec[j] # None /\ exec[j].status \in {"completed", "failed"}
                               /\ OneAttempt(j) /\ DocOf[j] \notin emptied
                               => exec'[j] = exec[j]
  <2>1. CASE Aside
    <3>1. exec' = exec
      BY <2>1 DEF Aside, Enqueue, DeadLetter, PatchStatus, Archive, vars
    <3> QED
      BY <3>1
  <2>2. ASSUME NEW x \in Txs, StepOf(x), NEW j \in Jobs, exec[j] # None, Steady(j),
               exec[j].status \in {"completed", "failed"}
        PROVE  exec'[j] = exec[j]
    BY <1>1, <2>2, Rewritten DEF IInv
  <2> QED
    BY <1>1, <2>1, <2>2, Steps DEF Steady
<1> QED
  BY <1>1, QueueInvariance, PTL DEF Spec, OutcomeIsFinal
=============================================================================
