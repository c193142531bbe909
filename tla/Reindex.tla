------------------------------ MODULE Reindex ------------------------------
(***************************************************************************)
(* Filling a vector cluster from the signals table: the dispatcher fans    *)
(* the segments of the table out, workers scan them, copy the vectors that *)
(* are cached in the rows and compute the others from the raw mails, which *)
(* the retention of the account's plan keeps or lets expire.               *)
(*                                                                         *)
(* A row is a threaded mail, a mail that was held back before it had a     *)
(* thread or a vector, or a signal of another type.                        *)
(***************************************************************************)
EXTENDS Naturals, FiniteSets

CONSTANTS
  Signals, Segments, Threads, None, Lambdas,
  MaxReceives,   \* of one segment's message before it is a dead letter
  MaxFaults, MaxMoves

VARIABLES
  segmentOf,     \* the segment DynamoDB scans a row in
  kind, thread, cached,   \* the rows
  plan,          \* "free", "paid" or "premium"
  object,        \* copies of the raw mail in S3: "emails", "saved"
  tagged,        \* raw mails tagged to expire after a year
  age,           \* of the mails: 0, 1 past a year, 2 past LIFECYCLE_EXPIRY_DAYS
  vectors,       \* <<signal, thread>> in the target cluster
  message,       \* the segment's message: "none", "queued", "held", "done" or "dead"
  receives,
  task,
  stale,         \* history: vectors written from a row read before its mail moved, or not removed
  removed,       \* history: vectors removed with their thread's
  kept,          \* history: mails whose plan's retention was applied
  faults, moves

vars == <<segmentOf, kind, thread, cached, plan, object, tagged, age, vectors, message, receives,
          task, stale, removed, kept, faults, moves>>

rows == <<segmentOf, kind, plan>>
bucket == <<object, tagged, age, kept>>
progress == <<message, receives>>

Fault == faults < MaxFaults /\ faults' = faults + 1

Free == [pc |-> "free", segment |-> None, todo |-> {}, page |-> {}, row |-> None,
         failed |-> {}]

Init ==
  /\ segmentOf \in [Signals -> Segments]
  /\ kind \in [Signals -> {"mail", "held", "other"}]
  /\ thread \in [Signals -> Threads \union {None}]
  /\ \A s \in Signals : (thread[s] = None) <=> (kind[s] = "held")
  /\ cached \in [Signals -> BOOLEAN]
  /\ \A s \in Signals : cached[s] => kind[s] = "mail"
  /\ plan \in {"free", "paid", "premium"}
  /\ object = [s \in Signals |-> IF kind[s] = "other" THEN {} ELSE {"emails"}]
  /\ tagged = {} /\ age = 0 /\ kept = {}
  /\ vectors = {} /\ stale = {} /\ removed = {}
  /\ message = [g \in Segments |-> "none"] /\ receives = [g \in Segments |-> 0]
  /\ task = [l \in Lambdas |-> Free]
  /\ faults = 0 /\ moves = 0

-----------------------------------------------------------------------------
(* Retention of the raw mails. *)

S3Tag == plan = "free"
CopyToSaved == plan = "premium"

\* applyPlanRetention, for a mail that has been processed; a failure is logged.
ApplyPlanRetention(s) ==
  /\ kept' = kept \union {s}
  /\ tagged' = IF S3Tag THEN tagged \union {s} ELSE tagged
  /\ object' = IF CopyToSaved THEN [object EXCEPT ![s] = @ \union {"saved"}] ELSE object

AttemptRetention(s) ==
  /\ kind[s] = "mail" /\ age = 0 /\ s \notin kept
  /\ \/ ApplyPlanRetention(s) /\ UNCHANGED faults
     \/ Fault /\ UNCHANGED <<kept, tagged, object>>
  /\ UNCHANGED <<rows, thread, cached, age, vectors, progress, task, stale, removed, moves>>

\* The lifecycle rules of the bucket: they act some time after the age is reached.
Age ==
  /\ age < 2 /\ age' = age + 1
  /\ UNCHANGED <<rows, thread, cached, object, tagged, kept, vectors, progress, task, stale, removed,
                 faults, moves>>

Expire(s) ==
  /\ "emails" \in object[s]
  /\ age = 2 \/ (age = 1 /\ s \in tagged)
  /\ object' = [object EXCEPT ![s] = @ \ {"emails"}]
  /\ UNCHANGED <<rows, thread, cached, tagged, age, kept, vectors, progress, task, stale, removed,
                 faults, moves>>

\* effectiveEmailKey: past the horizon, the copy under saved/.
EffectiveKey(s) == IF age = 2 THEN "saved" ELSE "emails"

-----------------------------------------------------------------------------
(* The dispatcher: the results of the sends are not looked at. *)

\* POST reindex; one job at a time.
Requested == \A g \in Segments : message[g] = "none"

Dispatch ==
  /\ Requested
  /\ \E lost \in SUBSET Segments :
       /\ IF lost = {} THEN UNCHANGED faults ELSE Fault
       /\ message' = [g \in Segments |-> IF g \in lost THEN "none" ELSE "queued"]
  /\ UNCHANGED <<rows, thread, cached, bucket, vectors, receives, task, stale, removed, moves>>

-----------------------------------------------------------------------------
(* The worker. *)

Receive(l, g) ==
  /\ task[l].pc = "free" /\ message[g] = "queued" /\ receives[g] < MaxReceives
  /\ message' = [message EXCEPT ![g] = "held"]
  /\ receives' = [receives EXCEPT ![g] = @ + 1]
  /\ task' = [task EXCEPT ![l] = [Free EXCEPT !.pc = "scan", !.segment = g,
                                              !.todo = {s \in Signals : segmentOf[s] = g}]]
  /\ UNCHANGED <<rows, thread, cached, bucket, vectors, stale, removed, faults, moves>>

\* What the next delivery finds: the message again, or it among the dead letters.
Returned(g) == [message EXCEPT ![g] = IF receives[g] < MaxReceives THEN "queued" ELSE "dead"]

\* A page of the scan: the rows as they are now.
ScanPage(l) ==
  /\ task[l].pc = "scan" /\ task[l].todo # {} /\ task[l].page = {}
  /\ \E page \in SUBSET task[l].todo \ {{}} :
       task' = [task EXCEPT ![l].page = {[signal |-> s, thread |-> thread[s], cached |-> cached[s]] :
                                            s \in page},
                            ![l].todo = @ \ page]
  /\ UNCHANGED <<rows, thread, cached, bucket, vectors, progress, stale, removed, faults, moves>>

\* The scan fails, or the lambda runs out of time.
ScanFails(l) ==
  /\ task[l].pc # "free" /\ Fault
  /\ message' = Returned(task[l].segment)
  /\ task' = [task EXCEPT ![l] = Free]
  /\ UNCHANGED <<rows, thread, cached, bucket, vectors, receives, stale, removed, moves>>

\* generateEmbeddingFromS3 finds the raw mail; the rest of it may fail as well.
Readable(s) == EffectiveKey(s) \in object[s]

\* processSignal: the cached vector, or one computed from the raw mail; a row without a raw
\* mail fails.
Take(l) ==
  /\ task[l].pc = "scan"
  /\ \E r \in task[l].page :
       \/ /\ r.cached
          /\ task' = [task EXCEPT ![l].page = @ \ {r}, ![l].row = r, ![l].pc = "upsert"]
          /\ UNCHANGED faults
       \/ /\ ~r.cached /\ Readable(r.signal)
          /\ task' = [task EXCEPT ![l].page = @ \ {r}, ![l].row = r, ![l].pc = "cache"]
          /\ UNCHANGED faults
       \/ /\ ~r.cached /\ ~Readable(r.signal)
          /\ task' = [task EXCEPT ![l].page = @ \ {r}, ![l].failed = @ \union {r.signal}]
          /\ UNCHANGED faults
       \/ /\ ~r.cached /\ Fault
          /\ task' = [task EXCEPT ![l].page = @ \ {r}, ![l].failed = @ \union {r.signal}]
  /\ UNCHANGED <<rows, thread, cached, bucket, vectors, progress, stale, removed, moves>>

Failed(l) == task' = [task EXCEPT ![l].pc = "scan", ![l].row = None,
                                  ![l].failed = @ \union {task[l].row.signal}]

\* addEmbeddingToCache: a row that never had a vector has no map to set it in.
AddEmbeddingToCache(s) == kind[s] = "mail" /\ cached' = [cached EXCEPT ![s] = TRUE]

AddToCache(l) ==
  /\ task[l].pc = "cache"
  /\ LET s == task[l].row.signal IN
       \/ /\ AddEmbeddingToCache(s)
          /\ task' = [task EXCEPT ![l].pc = "upsert"]
          /\ UNCHANGED faults
       \/ kind[s] # "mail" /\ Failed(l) /\ UNCHANGED <<cached, faults>>
       \/ Fault /\ Failed(l) /\ UNCHANGED cached
  /\ UNCHANGED <<rows, thread, bucket, vectors, progress, stale, removed, moves>>

\* upsertEmbedding, under the thread of the row as it was read.
Indexed(s, t) == vectors \union {<<s, t>>}

Upsert(l) ==
  /\ task[l].pc = "upsert"
  /\ LET r == task[l].row IN
       \/ /\ vectors' = Indexed(r.signal, r.thread)
          /\ stale' = IF r.thread = thread[r.signal] THEN stale
                      ELSE stale \union {<<r.signal, r.thread>>}
          /\ task' = [task EXCEPT ![l].pc = "scan", ![l].row = None]
          /\ UNCHANGED faults
       \/ Fault /\ Failed(l) /\ UNCHANGED <<vectors, stale>>
  /\ UNCHANGED <<rows, thread, cached, bucket, progress, removed, moves>>

\* What becomes of the message of a segment that was scanned to its end.
Outcome(l) ==
  IF task[l].failed = {} THEN "done"
  ELSE Returned(task[l].segment)[task[l].segment]

SegmentEnds(l) ==
  /\ task[l].pc = "scan" /\ task[l].todo = {} /\ task[l].page = {}
  /\ message' = [message EXCEPT ![task[l].segment] = Outcome(l)]
  /\ task' = [task EXCEPT ![l] = Free]
  /\ UNCHANGED <<rows, thread, cached, bucket, vectors, receives, stale, removed, faults, moves>>

-----------------------------------------------------------------------------
(* A mail is reprocessed into another thread while this goes on.  The thread it empties loses
   its vectors first. *)

Empties(s) == \A r \in Signals \ {s} : thread[r] # thread[s]

\* Mutant: the vectors of a thread that is emptied stay.
KeepVectors(s) == {}
\* deleteEmbeddingsForThread; its failure is logged.
VectorsOf(s) == IF Empties(s) THEN {v \in vectors : v[2] = thread[s]} ELSE {}

Reprocess(s) ==
  /\ moves < MaxMoves /\ moves' = moves + 1
  /\ kind[s] = "mail"
  /\ \E t \in Threads \ {thread[s]} :
       /\ thread' = [thread EXCEPT ![s] = t]
       /\ \/ /\ removed' = (removed \union VectorsOf(s)) \ {<<s, t>>}
             /\ vectors' = (vectors \ VectorsOf(s)) \union {<<s, t>>}
             /\ UNCHANGED <<stale, faults>>
          \/ /\ Fault
             /\ vectors' = Indexed(s, t) /\ stale' = stale \union VectorsOf(s)
             /\ UNCHANGED removed
  /\ cached' = [cached EXCEPT ![s] = TRUE]
  /\ UNCHANGED <<rows, bucket, progress, task>>

-----------------------------------------------------------------------------
Next ==
  \/ Dispatch \/ Age
  \/ \E s \in Signals : AttemptRetention(s) \/ Expire(s) \/ Reprocess(s)
  \/ \E l \in Lambdas :
       \/ \E g \in Segments : Receive(l, g)
       \/ ScanPage(l) \/ ScanFails(l) \/ Take(l) \/ AddToCache(l) \/ Upsert(l) \/ SegmentEnds(l)

Spec == Init /\ [][Next]_vars

-----------------------------------------------------------------------------
TypeOK ==
  /\ thread \in [Signals -> Threads \union {None}]
  /\ cached \in [Signals -> BOOLEAN]
  /\ object \in [Signals -> SUBSET {"emails", "saved"}]
  /\ vectors \subseteq Signals \X (Threads \union {None})
  /\ message \in [Segments -> {"none", "queued", "held", "done", "dead"}]

\* A segment is reported done only when each of its rows has its vector in the cluster: a row
\* that failed, of whatever kind, keeps the message, though the scan goes on past it.
DoneMeansCopied ==
  \A s \in Signals : message[segmentOf[s]] = "done" =>
    \E t \in Threads : <<s, t>> \in vectors \union removed

\* A thread that holds no mail any more attracts no new ones: it has vectors only when a worker
\* wrote one from a row it had read before the mail moved away, or their removal failed.
EmptiedIsUnmatched ==
  \A v \in vectors : v \in stale \/ \E s \in Signals : thread[s] = v[2]

\* The raw mail of a plan that keeps it can be read under the key readers use, before and
\* after the lifecycle rule removes the first copy.
SavedIsReadable ==
  \A s \in kept : CopyToSaved => Readable(s)
=============================================================================
