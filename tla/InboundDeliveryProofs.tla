------------------------ MODULE InboundDeliveryProofs ------------------------
(***************************************************************************)
(* Proofs about what SQS does to the inbound pipeline: which worker holds  *)
(* which message, what is left to a retry, what is counted, and, when a    *)
(* mail is worked on by one worker at a time, that the pipeline implements *)
(* MailIntake; and how many threads it may leave without a signal.  They   *)
(* rest on the invariant of InboundProofs.                                 *)
(***************************************************************************)
EXTENDS InboundProofs, FiniteSetTheorems

-----------------------------------------------------------------------------
(* The statistics: a mail is counted once for each key of one of its        *)
(* messages.                                                                *)

CountedFor(e) == {m \in statKeys : carries[m] = e}

TallyInv == \A e \in Mails : tally[e] = Cardinality(CountedFor(e))

\* A message is counted by one step only, and no message ever changes its mail.
LEMMA OnlyCountCounts ==
  ASSUME [Next]_vars
  PROVE  /\ carries' = carries
         /\ \/ UNCHANGED <<statKeys, tally>>
            \/ \E w \in Workers : Count(w)
<1>1. ASSUME NEW w \in Workers, Fresh(w)
      PROVE  UNCHANGED <<carries, statKeys, tally>>
  BY <1>1
     DEF Fresh, AbsorbBounce, RejectSpoofed, BlockSender, BlockByRule, Quarantine,
         Withhold, Admit, SaveThread, SaveSignal, queueVars, tableVars
<1>2. ASSUME NEW w \in Workers, Process(w), ~Count(w)
      PROVE  UNCHANGED <<carries, statKeys, tally>>
  BY <1>1, <1>2
     DEF Process, DedupSkip, Resume, RefuseResume, StartFresh, CountNothing,
         Calendar, UpsertVector, DispatchSideEffects, Ack, queueVars, tableVars
<1>3. ASSUME NEW w \in Workers, Count(w)
      PROVE  UNCHANGED carries
  BY <1>3 DEF Count, queueVars
<1>4. QED
  BY <1>2, <1>3 DEF Next, Receive, Redeliver, Abandon, vars, queueVars, tableVars

LEMMA NextTally == TypeOK /\ TallyInv /\ [Next]_vars => TallyInv'
<1> SUFFICES ASSUME TypeOK, TallyInv, [Next]_vars PROVE TallyInv'
  OBVIOUS
<1>1. CASE UNCHANGED <<statKeys, tally>>
  BY <1>1, OnlyCountCounts DEF TallyInv, CountedFor
<1>2. ASSUME NEW w \in Workers, Count(w)
      PROVE  TallyInv'
  <2>1. msg[w] \in Messages /\ MailAt(w) \in Mails
    BY <1>2, BusyWorker DEF Count
  <2>2. SUFFICES ASSUME NEW e \in Mails
                 PROVE  tally'[e] = Cardinality(CountedFor(e)')
    BY DEF TallyInv
  <2>3. carries' = carries /\ tally[e] = Cardinality(CountedFor(e))
    BY OnlyCountCounts DEF TallyInv
  <2>4. CASE e = MailAt(w)
    <3>1. /\ CountedFor(e)' = CountedFor(e) \union {msg[w]}
          /\ msg[w] \notin CountedFor(e)
          /\ tally'[e] = tally[e] + 1
      BY <1>2, <2>1, <2>3, <2>4 DEF Count, KeyIsNew, CountedFor, MailAt, TypeOK
    <3>2. IsFiniteSet(CountedFor(e))
      BY FS_Subset, InboundAssumption DEF CountedFor, TypeOK
    <3>3. QED
      BY <2>3, <3>1, <3>2, FS_AddElement
  <2>5. CASE e # MailAt(w)
    <3>1. CountedFor(e)' = CountedFor(e) /\ tally'[e] = tally[e]
      BY <1>2, <2>1, <2>3, <2>5 DEF Count, CountedFor, MailAt, TypeOK
    <3>2. QED
      BY <2>3, <3>1
  <2>6. QED
    BY <2>4, <2>5
<1>3. QED
  BY <1>1, <1>2, OnlyCountCounts

\* However its messages are retried or doubled, the dashboard counts a mail at
\* most once per message that carried it.
THEOREM CountedOncePerMessage == Spec => []StatsOncePerMessage
<1>1. Init => TallyInv
  <2>1. {m \in {} : TRUE} = {} /\ Cardinality({}) = 0
    BY FS_EmptySet
  <2>2. Init => \A e \in Mails : CountedFor(e) = {}
    BY DEF Init, CountedFor
  <2>3. QED
    BY <2>1, <2>2 DEF Init, TallyInv
<1>2. TypeOK /\ TallyInv => StatsOncePerMessage
  <2>1. ASSUME TypeOK, TallyInv, NEW e \in Mails
        PROVE  tally[e] <= Cardinality(CarriersOf(e))
    <3>1. IsFiniteSet(CarriersOf(e)) /\ CountedFor(e) \subseteq CarriersOf(e)
      BY <2>1, FS_Subset, InboundAssumption DEF CarriersOf, CountedFor, TypeOK
    <3>2. QED
      BY <2>1, <3>1, FS_Subset DEF TallyInv
  <2>2. QED
    BY <2>1 DEF StatsOncePerMessage
<1>3. QED
  BY <1>1, <1>2, NextTally, TypeCorrect, PTL DEF Spec

-----------------------------------------------------------------------------
(* The queue without duplicates: a message is in flight with at most one    *)
(* worker, and whoever holds a message holds one that is in flight.         *)

HolderInv ==
  \A w \in Workers : msg[w] # NoMessage =>
    /\ visibility[msg[w]] = "hidden"
    /\ \A v \in Workers : msg[v] = msg[w] => v = w

\* The message will still release the side effects of its mail's signal: it is
\* back in the queue and the next receipt is a retry; or a worker has it and
\* is a retry about to look the signal up, or holds that very signal and is on
\* its way to the dispatch.
BringsHome(w) ==
  \/ pc[w] = "lookup" /\ retry[w]
  \/ pc[w] \in {"count", "calendar", "index"} /\ sig[w] = SavedSignal(w)

Outstanding(m) ==
  \/ visibility[m] = "visible" /\ received[m]
  \/ \E w \in Workers : msg[w] = m /\ BringsHome(w)

Owed(e) == signals[e].status = "active" /\ signals[e] \notin dispatched

RetryInv == \A e \in Mails : Owed(e) => \E m \in CarriersOf(e) : Outstanding(m)

DeliveryInv == SafetyInv /\ (duplicates = 0 => HolderInv /\ RetryInv)

\* A worker that gives its message back, or has it deleted, holds none.
LEMMA ForgetHolder ==
  ASSUME TypeOK, HolderInv, NEW w \in Workers, pc[w] # "idle", Forget(w),
         \A m \in Messages \ {msg[w]} : visibility'[m] = visibility[m]
  PROVE  HolderInv'
BY InboundAssumption DEF TypeOK, HolderInv, Forget

LEMMA ReturnedToQueue ==
  ASSUME TypeOK, HolderInv, NEW w \in Workers, pc[w] # "idle", ReturnToQueue(w)
  PROVE  /\ visibility'[msg[w]] = "visible" /\ received[msg[w]]
         /\ \A m \in Messages \ {msg[w]} : visibility'[m] = visibility[m]
BY InboundAssumption DEF TypeOK, HolderInv, ReturnToQueue

\* The steps of the handler that leave the queue and everybody's message alone.
StaysHeld(w) ==
  /\ Process(w)
  /\ ~ (Ack(w) \/ RefuseResume(w))

LEMMA HandlerHolds ==
  ASSUME NEW w \in Workers, StaysHeld(w)
  PROVE  UNCHANGED <<queueVars, msg>>
<1>1. Fresh(w) => UNCHANGED <<queueVars, msg>>
  BY DEF Fresh, AbsorbBounce, RejectSpoofed, BlockSender, BlockByRule, Quarantine,
         Withhold, Admit, SaveThread, SaveSignal
<1>2. QED
  BY <1>1
     DEF StaysHeld, Process, DedupSkip, Resume, StartFresh, Count, CountNothing,
         Calendar, UpsertVector, DispatchSideEffects

LEMMA NextHolder ==
  ASSUME TypeOK, HolderInv, [Next]_vars, duplicates' = duplicates
  PROVE  HolderInv'
<1>1. ASSUME NEW w \in Workers, NEW m \in Messages, Receive(w, m)
      PROVE  HolderInv'
  BY <1>1, InboundAssumption DEF TypeOK, HolderInv, Receive
<1>2. ASSUME NEW m \in Messages, Redeliver(m)
      PROVE  FALSE
  BY <1>2 DEF TypeOK, Redeliver
<1>3. ASSUME NEW w \in Workers, Abandon(w) \/ RefuseResume(w)
      PROVE  HolderInv'
  BY <1>3, ForgetHolder, ReturnedToQueue DEF Abandon, RefuseResume
<1>4. ASSUME NEW w \in Workers, Ack(w)
      PROVE  HolderInv'
  <2>1. \A m \in Messages \ {msg[w]} : visibility'[m] = visibility[m]
    BY <1>4 DEF Ack, TypeOK
  <2>2. QED
    BY <1>4, <2>1, ForgetHolder DEF Ack
<1>5. ASSUME UNCHANGED <<queueVars, msg>>
      PROVE  HolderInv'
  BY <1>5 DEF HolderInv, queueVars
<1>6. QED
  BY <1>1, <1>2, <1>3, <1>4, <1>5, HandlerHolds
     DEF Next, StaysHeld, vars, workerVars

\* Only a worker with a message processes it or is abandoned.
LEMMA OnlyTheBusyWork ==
  ASSUME NEW w \in Workers, Process(w) \/ Abandon(w)
  PROVE  pc[w] # "idle"
BY DEF Abandon, Process, Fresh, DedupSkip, Resume, RefuseResume, StartFresh,
       Count, CountNothing, Calendar, UpsertVector, DispatchSideEffects, Ack,
       AbsorbBounce, RejectSpoofed, BlockSender, BlockByRule, Quarantine,
       Withhold, Admit, SaveThread, SaveSignal

\* A signal row changes only when it is saved.
LEMMA OnlySavesChangeSignals ==
  ASSUME TypeOK, [Next]_vars, NEW e \in Mails
  PROVE  \/ signals'[e] = signals[e]
         \/ \E w \in Workers : SaveSignal(w) /\ MailAt(w) = e
<1>1. ASSUME NEW w \in Workers, SaveSignal(w), MailAt(w) # e
      PROVE  signals'[e] = signals[e]
  BY <1>1 DEF SaveSignal, TypeOK
<1>2. ASSUME NEW w \in Workers, Fresh(w), ~SaveSignal(w)
      PROVE  signals' = signals
  BY <1>2
     DEF Fresh, AbsorbBounce, RejectSpoofed, BlockSender, BlockByRule,
         Quarantine, Withhold, Admit, SaveThread, tableVars
<1>3. QED
  BY <1>1, <1>2
     DEF Next, Receive, Redeliver, Abandon, Process, DedupSkip, Resume,
         RefuseResume, StartFresh, Count, CountNothing, Calendar, UpsertVector,
         DispatchSideEffects, Ack, vars, tableVars

\* What has been dispatched stays dispatched, and only a dispatch adds to it.
LEMMA DispatchesStay ==
  ASSUME [Next]_vars
  PROVE  /\ dispatched \subseteq dispatched'
         /\ dispatched' = dispatched \/ \E w \in Workers : DispatchSideEffects(w)
<1>1. ASSUME NEW w \in Workers, Fresh(w)
      PROVE  dispatched' = dispatched
  BY <1>1
     DEF Fresh, AbsorbBounce, RejectSpoofed, BlockSender, BlockByRule,
         Quarantine, Withhold, Admit, SaveThread, SaveSignal
<1>2. QED
  BY <1>1
     DEF Next, Receive, Redeliver, Abandon, Process, DedupSkip, Resume,
         RefuseResume, StartFresh, Count, CountNothing, Calendar, UpsertVector,
         DispatchSideEffects, Ack, vars

\* What happens to the worker that owes the dispatch.
LEMMA OwingWorker ==
  ASSUME SafetyInv, HolderInv, NEW w \in Workers, BringsHome(w),
         NEW m \in Messages, msg[w] = m,
         Process(w) \/ Abandon(w),
         SavedSignal(w).status = "active", SavedSignal(w) \notin dispatched'
  PROVE  Outstanding(m)'
<1>1. /\ msg[w] \in Messages /\ MailAt(w) \in Mails
      /\ TypeOK
      /\ visibility[msg[w]] = "hidden"
  BY BusyWorker, InboundAssumption DEF SafetyInv, TypeOK, BringsHome, HolderInv
<1>2. ASSUME Abandon(w) \/ RefuseResume(w)
      PROVE  Outstanding(m)'
  <2>1. /\ pc[w] # "idle"
        /\ ReturnToQueue(w)
        /\ received' = received
    BY <1>2 DEF Abandon, RefuseResume
  <2>2. QED
    BY <1>1, <2>1, ReturnedToQueue DEF Outstanding
<1>3. SavedSignal(w) # NoSignal
  BY DEF NoSignal
<1>4. CASE Resume(w)
  BY <1>1, <1>4
     DEF Resume, Goto, Outstanding, BringsHome, SavedSignal, MailAt, TypeOK,
         queueVars, tableVars
<1>5. CASE Count(w) \/ CountNothing(w)
  <2>1. sig[w] = SavedSignal(w)
    BY <1>5 DEF BringsHome, Count, CountNothing
  <2>2. /\ pc'[w] = "calendar"
        /\ UNCHANGED <<msg, sig, carries, signals>>
    BY <1>1, <1>5, <2>1
       DEF Count, CountNothing, AfterCount, Goto, TypeOK, queueVars, tableVars
  <2>3. QED
    BY <2>1, <2>2 DEF Outstanding, BringsHome, SavedSignal, MailAt
<1>6. CASE Calendar(w)
  <2>1. /\ sig[w] = SavedSignal(w)
        /\ pc'[w] = "index"
        /\ UNCHANGED <<msg, sig, carries, signals>>
    BY <1>1, <1>6 DEF BringsHome, Calendar, Goto, TypeOK, queueVars
  <2>2. QED
    BY <2>1 DEF Outstanding, BringsHome, SavedSignal, MailAt
<1>7. CASE \E c \in Clusters : UpsertVector(w, c)
  BY <1>7
     DEF BringsHome, UpsertVector, Outstanding, SavedSignal, MailAt, queueVars
<1>8. CASE DispatchSideEffects(w)
  BY <1>8 DEF BringsHome, DispatchSideEffects
<1>9. CASE DedupSkip(w) \/ StartFresh(w) \/ Ack(w)
  BY <1>9, <1>3 DEF BringsHome, DedupSkip, StartFresh, Ack
<1>10. CASE Fresh(w)
  BY <1>10
     DEF BringsHome, Fresh, AbsorbBounce, RejectSpoofed, BlockSender, BlockByRule,
         Quarantine, Withhold, Admit, SaveThread, SaveSignal
<1>11. QED
  BY <1>2, <1>4, <1>5, <1>6, <1>7, <1>8, <1>9, <1>10 DEF Process

\* A step of one worker leaves the other workers' memory alone.
LEMMA OthersRemember ==
  ASSUME TypeOK, NEW w \in Workers, Process(w) \/ Abandon(w)
  PROVE  \A v \in Workers \ {w} :
           /\ msg'[v] = msg[v] /\ pc'[v] = pc[v]
           /\ retry'[v] = retry[v] /\ sig'[v] = sig[v]
<1>1. Fresh(w) => \A v \in Workers \ {w} :
           /\ msg'[v] = msg[v] /\ pc'[v] = pc[v]
           /\ retry'[v] = retry[v] /\ sig'[v] = sig[v]
  BY DEF Fresh, AbsorbBounce, RejectSpoofed, BlockSender, BlockByRule, Quarantine,
         Withhold, Admit, SaveThread, SaveSignal, Goto, TypeOK
<1>2. QED
  BY <1>1
     DEF Process, Abandon, DedupSkip, Resume, RefuseResume, StartFresh, Count,
         CountNothing, AfterCount, Calendar, UpsertVector, DispatchSideEffects, Ack,
         Forget, Goto, TypeOK

LEMMA NextRetry ==
  ASSUME SafetyInv, HolderInv, RetryInv, [Next]_vars, duplicates' = duplicates
  PROVE  RetryInv'
<1>0. TypeOK /\ carries' = carries
  BY OnlyCountCounts DEF SafetyInv
<1> SUFFICES ASSUME NEW e \in Mails, Owed(e)'
             PROVE  \E m \in CarriersOf(e) : Outstanding(m)'
  BY <1>0 DEF RetryInv, CarriersOf
<1>1. ASSUME NEW w \in Workers, SaveSignal(w), MailAt(w) = e
      PROVE  \E m \in CarriersOf(e) : Outstanding(m)'
  <2>1. msg[w] \in CarriersOf(e)
    BY <1>0, <1>1, BusyWorker DEF SaveSignal, CarriersOf, MailAt
  <2>2. PICK m \in CarriersOf(e) : msg[w] = m
    BY <2>1
  <2>3. msg'[w] = m /\ pc'[w] = "count" /\ sig'[w] = SavedSignal(w)'
    BY <1>0, <1>1, <2>2
       DEF SaveSignal, Goto, TypeOK, SavedSignal, MailAt, queueVars
  <2>4. QED
    BY <2>3 DEF Outstanding, BringsHome
<1>2. ASSUME signals'[e] = signals[e]
      PROVE  \E m \in CarriersOf(e) : Outstanding(m)'
  <2>1. signals[e].status = "active" /\ signals[e] \notin dispatched'
    BY <1>2 DEF Owed
  <2>2. signals[e] \notin dispatched
    BY <2>1, DispatchesStay
  <2>3. PICK m \in CarriersOf(e) : Outstanding(m)
    BY <2>1, <2>2 DEF RetryInv, Owed
  <2>4. m \in Messages /\ carries[m] = e
    BY DEF CarriersOf
  <2> SUFFICES Outstanding(m)'
    OBVIOUS
  <2>5. \A w \in Workers : pc[w] # "idle" /\ visibility[m] = "visible" => msg[w] # m
    BY <1>0, InboundAssumption DEF HolderInv, TypeOK
  <2>6. received \in [Messages -> BOOLEAN]
    BY <1>0 DEF TypeOK
  <2>7. ASSUME NEW w \in Workers, NEW n \in Messages, Receive(w, n)
        PROVE  Outstanding(m)'
    <3>1. CASE visibility[m] = "visible" /\ received[m] /\ n = m
      <4>1. pc'[w] = "lookup" /\ retry'[w] /\ msg'[w] = m
        BY <1>0, <2>7, <3>1 DEF Receive, Goto, TypeOK
      <4>2. QED
        BY <4>1 DEF Outstanding, BringsHome
    <3>2. CASE ~(visibility[m] = "visible" /\ received[m] /\ n = m)
      <4>1. (visibility[m] = "visible" /\ received[m]) => Outstanding(m)'
        BY <1>0, <2>7, <3>2 DEF Receive, TypeOK, Outstanding
      <4>2. ASSUME NEW v \in Workers, msg[v] = m, BringsHome(v)
            PROVE  Outstanding(m)'
        <5>1. v # w
          BY <2>7, <4>2 DEF Receive, BringsHome
        <5>2. /\ msg'[v] = m /\ pc'[v] = pc[v]
              /\ retry'[v] = retry[v] /\ sig'[v] = sig[v]
          BY <1>0, <2>7, <4>2, <5>1 DEF Receive, Goto, TypeOK
        <5>3. QED
          BY <1>0, <1>2, <2>4, <4>2, <5>2
             DEF Outstanding, BringsHome, SavedSignal, MailAt
      <4>3. QED
        BY <2>3, <4>1, <4>2 DEF Outstanding
    <3>3. QED
      BY <3>1, <3>2
  <2>8. ASSUME NEW w \in Workers, Process(w) \/ Abandon(w)
        PROVE  Outstanding(m)'
    <3>1. CASE msg[w] = m /\ BringsHome(w)
      BY <2>1, <2>4, <2>8, <3>1, OwingWorker DEF SavedSignal, MailAt
    <3>2. CASE ~(msg[w] = m /\ BringsHome(w))
      <4>1. pc[w] # "idle"
        BY <2>8, OnlyTheBusyWork
      <4>2. visibility[m] = "visible" =>
              visibility'[m] = "visible" /\ received'[m] = received[m]
        BY <1>0, <2>4, <2>5, <2>8, <4>1, HandlerHolds, ReturnedToQueue
           DEF StaysHeld, Abandon, RefuseResume, Ack, queueVars, TypeOK
      <4>3. (visibility[m] = "visible" /\ received[m]) => Outstanding(m)'
        BY <4>2 DEF Outstanding
      <4>4. ASSUME NEW v \in Workers, msg[v] = m, BringsHome(v)
            PROVE  Outstanding(m)'
        <5>1. v # w
          BY <3>2, <4>4
        <5>2. /\ msg'[v] = m /\ pc'[v] = pc[v]
              /\ retry'[v] = retry[v] /\ sig'[v] = sig[v]
          BY <1>0, <2>8, <4>4, <5>1, OthersRemember
        <5>3. QED
          BY <1>0, <1>2, <2>4, <4>4, <5>2
             DEF Outstanding, BringsHome, SavedSignal, MailAt
      <4>5. QED
        BY <2>3, <4>3, <4>4 DEF Outstanding
    <3>3. QED
      BY <3>1, <3>2
  <2>9. ASSUME NEW n \in Messages, Redeliver(n)
        PROVE  FALSE
    BY <1>0, <2>9 DEF TypeOK, Redeliver
  <2>10. CASE UNCHANGED vars
    BY <2>3, <2>10
       DEF vars, queueVars, workerVars, tableVars, Outstanding, BringsHome,
           SavedSignal, MailAt
  <2>11. QED
    BY <2>7, <2>8, <2>9, <2>10 DEF Next
<1>3. QED
  BY <1>0, <1>1, <1>2, OnlySavesChangeSignals

LEMMA Delivery == Spec => []DeliveryInv
<1>1. Init => DeliveryInv
  BY InitSafety
     DEF Init, DeliveryInv, HolderInv, RetryInv, Owed, NoSignal
<1>2. DeliveryInv /\ [Next]_vars => DeliveryInv'
  <2>1. ASSUME SafetyInv, [Next]_vars
        PROVE  duplicates' = duplicates \/ duplicates' # 0
    <3>1. ASSUME NEW w \in Workers, Process(w)
          PROVE  duplicates' = duplicates
      BY <3>1, HandlerHolds DEF StaysHeld, Ack, RefuseResume, queueVars
    <3>2. ASSUME NEW m \in Messages, Redeliver(m)
          PROVE  duplicates' # 0
      BY <2>1, <3>2 DEF SafetyInv, TypeOK, Redeliver
    <3>3. QED
      BY <2>1, <3>1, <3>2 DEF Next, Receive, Abandon, vars, queueVars
  <2>2. QED
    BY <2>1, NextSafety, NextHolder, NextRetry DEF DeliveryInv, SafetyInv
<1>3. QED
  BY <1>1, <1>2, PTL DEF Spec

\* Without duplicate deliveries, an active signal nobody dispatched is owed to a
\* message SQS still has, in whatever order the attempts fail.
THEOREM SideEffectsAreOwed == Spec => []NoLostSideEffects
<1>1. DeliveryInv => NoLostSideEffects
  <2>1. SUFFICES ASSUME DeliveryInv, duplicates = 0, NEW e \in Mails,
                        \A m \in CarriersOf(e) : visibility[m] = "deleted"
                 PROVE  ~Owed(e)
    BY DEF NoLostSideEffects, Owed
  <2>2. ASSUME NEW m \in CarriersOf(e), Outstanding(m)
        PROVE  FALSE
    <3>1. m \in Messages /\ visibility[m] = "deleted"
      BY <2>1 DEF CarriersOf
    <3>2. QED
      BY <2>1, <2>2, <3>1, InboundAssumption
         DEF DeliveryInv, HolderInv, Outstanding
  <2>3. QED
    BY <2>1, <2>2 DEF DeliveryInv, RetryInv
<1>2. QED
  BY <1>1, Delivery, PTL

-----------------------------------------------------------------------------
(* One worker at a time on a mail: what the worker knows of the mail's row. *)

OneAtATime ==
  \A v, w \in Workers :
    (pc[v] # "idle" /\ pc[w] # "idle" /\ MailAt(v) = MailAt(w)) => v = w

BeforeSave == {"match", "saveThread", "saveSignal"}
AfterSave == {"count", "calendar", "index"}

\* Until the save the mail has no row, and the signal built for it is decided;
\* from the save on, the row is the signal the worker holds.
RowInv(w) ==
  /\ pc[w] \in BeforeSave => SavedSignal(w) = NoSignal
  /\ pc[w] \in {"saveThread", "saveSignal"} => sig[w].status # "none"
  /\ pc[w] \in AfterSave => SavedSignal(w) = sig[w]

\* The worker is about to save an active signal.
Saving(w) == pc[w] \in {"saveThread", "saveSignal"} /\ sig[w].status = "active"
Stored(e) == signals[e].status = "active"

\* No id is used twice: whoever has one, a row or a signal about to be saved, got
\* it from nextId and shares it with nobody.
IdInv ==
  /\ \A e \in Mails : Stored(e) => signals[e].id < nextId
  /\ \A w \in Workers : Saving(w) => sig[w].id < nextId
  /\ \A e, f \in Mails :
       Stored(e) /\ Stored(f) /\ signals[e].id = signals[f].id => e = f
  /\ \A e \in Mails, w \in Workers :
       Stored(e) /\ Saving(w) => signals[e].id # sig[w].id
  /\ \A v, w \in Workers :
       Saving(v) /\ Saving(w) /\ sig[v].id = sig[w].id => v = w

\* Vectors and dispatches are of stored signals, which have a vector each.
IndexInv ==
  /\ \A c \in Clusters, r \in Nat \X Nat :
       r \in vectors[c] => \E e \in Mails : Stored(e) /\ r = VectorRow(signals[e])
  /\ \A s \in dispatched : \E e \in Mails : Stored(e) /\ s = signals[e]
  /\ \A w \in Workers : sig[w].status = "active" => sig[w].embedded # {}
  /\ \A e \in Mails : Stored(e) => signals[e].embedded # {}

OrderInv == (\A w \in Workers : RowInv(w)) /\ IdInv /\ IndexInv

\* A step that saves, indexes and dispatches nothing and draws no id, whatever it
\* does to one worker's memory within what the code may do to it.
Quiet(w) ==
  /\ UNCHANGED <<carries, signals, vectors, dispatched, nextId>>
  /\ \A v \in Workers \ {w} : msg'[v] = msg[v] /\ pc'[v] = pc[v] /\ sig'[v] = sig[v]
  /\ pc'[w] \in BeforeSave => msg'[w] = msg[w] /\ SavedSignal(w) = NoSignal
  /\ pc'[w] \in AfterSave => msg'[w] = msg[w] /\ SavedSignal(w) = sig'[w]
  /\ pc'[w] \in {"saveThread", "saveSignal"} => sig'[w].status # "none"
  /\ sig'[w].status = "active" =>
       sig'[w] = sig[w] \/ (pc'[w] \in AfterSave /\ MailAt(w) \in Mails)
  /\ Saving(w)' => sig'[w] = sig[w] /\ Saving(w)

LEMMA QuietOrder ==
  ASSUME OrderInv, NEW w \in Workers, Quiet(w)
  PROVE  OrderInv'
<1>1. \A v \in Workers : RowInv(v)'
  BY DEF OrderInv, Quiet, RowInv, SavedSignal, MailAt, BeforeSave, AfterSave
<1>2. \A v \in Workers : Saving(v)' => Saving(v) /\ sig'[v] = sig[v]
  BY DEF Quiet, Saving
<1>3. IdInv'
  BY <1>2 DEF OrderInv, Quiet, IdInv, Stored
<1>4. \A v \in Workers : sig'[v].status = "active" => sig'[v].embedded # {}
  BY DEF OrderInv, IndexInv, Quiet, Stored, SavedSignal
<1>5. IndexInv'
  BY <1>4 DEF OrderInv, IndexInv, Quiet, Stored
<1>6. QED
  BY <1>1, <1>3, <1>5 DEF OrderInv

\* Every step of a worker but Admit, SaveSignal, UpsertVector and
\* DispatchSideEffects is quiet.
LEMMA QuietSteps ==
  ASSUME SafetyInv, \A v \in Workers : RowInv(v), NEW w \in Workers,
         \/ \E m \in Messages : Receive(w, m)
         \/ Abandon(w)
         \/ /\ Process(w)
            /\ ~SaveSignal(w) /\ ~DispatchSideEffects(w)
            /\ \A c \in Clusters : ~UpsertVector(w, c)
            /\ \A match \in threads \union {0}, embedded \in SUBSET Clusters :
                 ~Admit(w, match, embedded)
  PROVE  Quiet(w)
<1>1. TypeOK /\ RowInv(w) /\ WorkerInv(w)
  BY DEF SafetyInv
<1>2. CASE \E m \in Messages : Receive(w, m)
  <2>1. pc'[w] = "lookup"
    BY <1>1, <1>2 DEF Receive, Goto, TypeOK
  <2>2. QED
    BY <1>1, <1>2, <2>1
       DEF Quiet, Receive, Goto, TypeOK, BeforeSave, AfterSave, Saving, tableVars
<1>3. CASE Abandon(w) \/ RefuseResume(w) \/ Ack(w)
  <2>1. /\ Forget(w)
        /\ UNCHANGED <<carries, signals, vectors, dispatched, nextId>>
    BY <1>3 DEF Abandon, RefuseResume, Ack, tableVars
  <2>2. pc'[w] = "idle" /\ sig'[w] = NoSignal
    BY <1>1, <2>1 DEF Forget, Goto, TypeOK
  <2>3. QED
    BY <1>1, <2>1, <2>2
       DEF Quiet, Forget, Goto, TypeOK, BeforeSave, AfterSave, Saving, NoSignal
<1>4. CASE DedupSkip(w) \/ StartFresh(w) \/ AbsorbBounce(w)
  <2>1. /\ UNCHANGED <<carries, signals, vectors, dispatched, nextId, msg, sig>>
        /\ pc'[w] \in {"deduped", "ok"} \/ (pc'[w] = "match" /\ SavedSignal(w) = NoSignal)
        /\ \A v \in Workers \ {w} : pc'[v] = pc[v]
    BY <1>1, <1>4
       DEF DedupSkip, StartFresh, AbsorbBounce, Goto, TypeOK, queueVars, tableVars
  <2>2. QED
    BY <2>1 DEF Quiet, BeforeSave, AfterSave, Saving
<1>5. CASE Resume(w)
  <2>1. /\ UNCHANGED <<carries, signals, vectors, dispatched, nextId, msg>>
        /\ pc'[w] = "index" /\ sig'[w] = SavedSignal(w) /\ MailAt(w) \in Mails
        /\ \A v \in Workers \ {w} : pc'[v] = pc[v] /\ sig'[v] = sig[v]
    BY <1>1, <1>5, BusyWorker DEF Resume, Goto, TypeOK, queueVars, tableVars
  <2>2. QED
    BY <2>1 DEF Quiet, BeforeSave, AfterSave, Saving
<1>6. ASSUME NEW status \in {"blocked", "quarantined"}, Withhold(w, status)
      PROVE  Quiet(w)
  <2>1. /\ UNCHANGED <<carries, signals, vectors, dispatched, nextId, msg>>
        /\ pc[w] = "match" /\ pc'[w] = "saveSignal"
        /\ sig'[w].status \notin {"none", "active"}
        /\ \A v \in Workers \ {w} : pc'[v] = pc[v] /\ sig'[v] = sig[v]
    BY <1>1, <1>6 DEF Withhold, Withheld, Goto, TypeOK, queueVars, tableVars
  <2>2. QED
    BY <1>1, <2>1 DEF Quiet, RowInv, BeforeSave, AfterSave, Saving
<1>7. CASE SaveThread(w)
  <2>1. /\ UNCHANGED <<carries, signals, vectors, dispatched, nextId, msg, sig>>
        /\ pc[w] = "saveThread" /\ pc'[w] = "saveSignal"
        /\ \A v \in Workers \ {w} : pc'[v] = pc[v]
    BY <1>1, <1>7 DEF SaveThread, Goto, TypeOK, queueVars
  <2>2. QED
    BY <1>1, <2>1 DEF Quiet, RowInv, BeforeSave, AfterSave, Saving
<1>8. CASE Count(w) \/ CountNothing(w) \/ Calendar(w)
  <2>1. /\ UNCHANGED <<carries, signals, vectors, dispatched, nextId, msg, sig>>
        /\ pc[w] \in AfterSave /\ pc'[w] \in {"calendar", "index", "ok"}
        /\ \A v \in Workers \ {w} : pc'[v] = pc[v]
    BY <1>1, <1>8
       DEF Count, CountNothing, AfterCount, Calendar, Goto, TypeOK, AfterSave,
           queueVars, tableVars
  <2>2. QED
    BY <1>1, <2>1 DEF Quiet, RowInv, BeforeSave, AfterSave, Saving
<1>9. QED
  BY <1>2, <1>3, <1>4, <1>5, <1>6, <1>7, <1>8
     DEF Process, Fresh, RejectSpoofed, BlockSender, BlockByRule, Quarantine

LEMMA AdmitOrder ==
  ASSUME SafetyInv, OrderInv, NEW w \in Workers, NEW match \in threads \union {0},
         NEW embedded \in SUBSET Clusters, Admit(w, match, embedded)
  PROVE  OrderInv'
<1>1. TypeOK /\ RowInv(w)
  BY DEF SafetyInv, OrderInv
<1>2. /\ UNCHANGED <<carries, signals, vectors, dispatched, msg>>
      /\ pc[w] = "match" /\ pc'[w] = "saveThread"
      /\ sig'[w].id = nextId /\ nextId' = nextId + 1 /\ nextId \in Nat
      /\ sig'[w].status = "active" /\ sig'[w].embedded # {}
      /\ \A v \in Workers \ {w} : pc'[v] = pc[v] /\ sig'[v] = sig[v]
  BY <1>1 DEF Admit, Threaded, Goto, TypeOK, queueVars, tableVars
<1>3. \A v \in Workers : RowInv(v)'
  BY <1>2 DEF OrderInv, RowInv, SavedSignal, MailAt, BeforeSave, AfterSave
<1>4. \A v \in Workers \ {w} : Saving(v)' => Saving(v) /\ sig'[v] = sig[v]
  BY <1>2 DEF Saving
<1>5. (\A e \in Mails : signals[e].id \in Nat) /\ (\A v \in Workers : sig[v].id \in Nat)
  BY <1>1 DEF TypeOK, Signal
<1>6. IdInv'
  BY <1>2, <1>4, <1>5 DEF OrderInv, IdInv, Stored
<1>7. IndexInv'
  BY <1>2 DEF OrderInv, IndexInv, Stored
<1>8. QED
  BY <1>3, <1>6, <1>7 DEF OrderInv

\* The save: the row was empty, so no vector or dispatch was of it.
LEMMA SaveOrder ==
  ASSUME SafetyInv, OrderInv, OneAtATime, NEW w \in Workers, SaveSignal(w)
  PROVE  OrderInv'
<1>1. TypeOK /\ RowInv(w) /\ WorkerInv(w) /\ MailAt(w) \in Mails
  BY BusyWorker DEF SafetyInv, OrderInv, SaveSignal
<1>2. /\ UNCHANGED <<carries, vectors, dispatched, msg, sig, nextId>>
      /\ pc[w] = "saveSignal" /\ pc'[w] = "count"
      /\ signals' = [signals EXCEPT ![MailAt(w)] = sig[w]]
      /\ \A v \in Workers \ {w} : pc'[v] = pc[v]
  BY <1>1 DEF SaveSignal, Goto, TypeOK, queueVars
<1>3. /\ signals'[MailAt(w)] = sig[w]
      /\ \A e \in Mails \ {MailAt(w)} : signals'[e] = signals[e]
  BY <1>1, <1>2 DEF TypeOK
<1>4. ~Stored(MailAt(w))
  BY <1>1, <1>2 DEF RowInv, BeforeSave, SavedSignal, Stored, NoSignal
<1>5. ASSUME NEW v \in Workers
      PROVE  RowInv(v)'
  <2>1. CASE v = w
    BY <1>2, <1>3, <2>1 DEF RowInv, BeforeSave, SavedSignal, MailAt
  <2>2. CASE v # w /\ pc[v] \in BeforeSave \union AfterSave
    <3>1. MailAt(v) # MailAt(w) /\ MailAt(v) \in Mails
      BY <1>1, <1>2, <2>2, BusyWorker DEF OneAtATime, BeforeSave, AfterSave
    <3>2. SavedSignal(v)' = SavedSignal(v) /\ RowInv(v)
      BY <1>2, <1>3, <3>1 DEF SavedSignal, MailAt, OrderInv
    <3>3. QED
      BY <1>2, <2>2, <3>2 DEF RowInv
  <2>3. CASE v # w /\ pc[v] \notin BeforeSave \union AfterSave
    BY <1>2, <2>3 DEF RowInv, BeforeSave
  <2>4. QED
    BY <2>1, <2>2, <2>3
<1>6. /\ \A v \in Workers : Saving(v)' => v # w /\ Saving(v)
      /\ \A e \in Mails : Stored(e)' =>
           \/ e # MailAt(w) /\ Stored(e)
           \/ e = MailAt(w) /\ Saving(w)
  BY <1>2, <1>3 DEF Saving, Stored
<1>7. IdInv'
  BY <1>2, <1>3, <1>6 DEF OrderInv, IdInv
<1>8. \A e \in Mails : Stored(e) => Stored(e)' /\ signals'[e] = signals[e]
  BY <1>3, <1>4 DEF Stored
<1>9. IndexInv'
  BY <1>2, <1>3, <1>6, <1>8 DEF OrderInv, IndexInv, VectorRow, Saving
<1>10. QED
  BY <1>5, <1>7, <1>9 DEF OrderInv

LEMMA UpsertOrder ==
  ASSUME SafetyInv, OrderInv, NEW w \in Workers, NEW c \in Clusters, UpsertVector(w, c)
  PROVE  OrderInv'
<1>1. TypeOK /\ RowInv(w) /\ WorkerInv(w) /\ MailAt(w) \in Mails
  BY BusyWorker DEF SafetyInv, OrderInv, UpsertVector
<1>2. /\ UNCHANGED <<carries, signals, dispatched, msg, sig, pc, nextId>>
      /\ \A d \in Clusters : vectors'[d] \subseteq vectors[d] \union {VectorRow(sig[w])}
  BY <1>1 DEF UpsertVector, TypeOK, queueVars
<1>3. sig[w] = signals[MailAt(w)] /\ Stored(MailAt(w))
  BY <1>1 DEF UpsertVector, RowInv, AfterSave, SavedSignal, WorkerInv, Stored
<1>4. IndexInv'
  BY <1>1, <1>2, <1>3 DEF OrderInv, IndexInv, Stored
<1>5. QED
  BY <1>2, <1>4 DEF OrderInv, RowInv, SavedSignal, MailAt, IdInv, Saving, Stored

LEMMA DispatchOrder ==
  ASSUME SafetyInv, OrderInv, NEW w \in Workers, DispatchSideEffects(w)
  PROVE  OrderInv'
<1>1. TypeOK /\ RowInv(w) /\ WorkerInv(w) /\ MailAt(w) \in Mails
  BY BusyWorker DEF SafetyInv, OrderInv, DispatchSideEffects
<1>2. /\ UNCHANGED <<carries, signals, vectors, msg, sig, nextId>>
      /\ dispatched' = dispatched \union {sig[w]}
      /\ pc'[w] = "ok"
      /\ \A v \in Workers \ {w} : pc'[v] = pc[v]
  BY <1>1 DEF DispatchSideEffects, Goto, TypeOK, queueVars, tableVars
<1>3. sig[w] = signals[MailAt(w)] /\ Stored(MailAt(w))
  BY <1>1 DEF DispatchSideEffects, RowInv, AfterSave, SavedSignal, WorkerInv, Stored
<1>4. IndexInv'
  BY <1>1, <1>2, <1>3 DEF OrderInv, IndexInv, Stored
<1>5. \A v \in Workers : RowInv(v)'
  BY <1>2 DEF OrderInv, RowInv, SavedSignal, MailAt, BeforeSave, AfterSave
<1>6. IdInv'
  BY <1>2 DEF OrderInv, IdInv, Saving, Stored
<1>7. QED
  BY <1>4, <1>5, <1>6 DEF OrderInv

LEMMA InitOrder == Init => OrderInv
BY DEF Init, OrderInv, RowInv, IdInv, IndexInv, Stored, Saving, NoSignal,
       BeforeSave, AfterSave

LEMMA NextOrder ==
  ASSUME SafetyInv, OrderInv, OneAtATime, [Next]_vars
  PROVE  OrderInv'
<1>1. ASSUME UNCHANGED <<carries, signals, vectors, dispatched, msg, sig, pc, nextId>>
      PROVE  OrderInv'
  BY <1>1
     DEF OrderInv, RowInv, SavedSignal, MailAt, IdInv, IndexInv, Saving, Stored
<1>2. ASSUME NEW w \in Workers,
             (\E m \in Messages : Receive(w, m)) \/ Process(w) \/ Abandon(w)
      PROVE  OrderInv'
  BY <1>2, QuietSteps, QuietOrder, AdmitOrder, SaveOrder, UpsertOrder, DispatchOrder
     DEF OrderInv
<1>3. QED
  BY <1>1, <1>2
     DEF Next, Redeliver, vars, queueVars, workerVars, tableVars

\* When every mail comes in one message, in flight once at a time, it is worked on
\* by one worker at a time.
LEMMA OneMessageOneWorker ==
  ASSUME SafetyInv, HolderInv, OneMessagePerMail
  PROVE  OneAtATime
<1>1. SUFFICES ASSUME NEW v \in Workers, NEW w \in Workers,
                      pc[v] # "idle", pc[w] # "idle", MailAt(v) = MailAt(w)
               PROVE  v = w
  BY DEF OneAtATime
<1>2. /\ msg[v] \in Messages /\ msg[w] \in Messages /\ MailAt(w) \in Mails
      /\ msg[w] # NoMessage
  BY <1>1, BusyWorker, InboundAssumption DEF SafetyInv
<1>3. msg[v] = msg[w]
  <2>1. msg[v] \in CarriersOf(MailAt(w)) /\ msg[w] \in CarriersOf(MailAt(w))
    BY <1>1, <1>2 DEF CarriersOf, MailAt
  <2>2. /\ IsFiniteSet(CarriersOf(MailAt(w)))
        /\ Cardinality(CarriersOf(MailAt(w))) <= 1
    BY <1>2, FS_Subset, InboundAssumption DEF CarriersOf, OneMessagePerMail
  <2>3. IsFiniteSet({msg[v], msg[w]}) /\ {msg[v], msg[w]} \in SUBSET CarriersOf(MailAt(w))
    BY <2>1, <2>2, FS_Subset
  <2>4. Cardinality({msg[v], msg[w]}) <= 1
    BY <2>2, <2>3, FS_Subset, FS_CardinalityType
  <2>5. ASSUME msg[v] # msg[w]
        PROVE  Cardinality({msg[v]} \union {msg[w]}) = 2
    <3>1. IsFiniteSet({msg[v]}) /\ Cardinality({msg[v]}) = 1
      BY FS_Singleton
    <3>2. QED
      BY <2>5, <3>1, FS_AddElement
  <2>6. {msg[v], msg[w]} = {msg[v]} \union {msg[w]}
    OBVIOUS
  <2>7. QED
    BY <2>4, <2>5, <2>6
<1>4. QED
  BY <1>2, <1>3 DEF HolderInv

SoleDelivery == OneMessagePerMail /\ duplicates = 0

LEMMA SoleOrder == Spec => [](SoleDelivery => OneAtATime /\ OrderInv)
<1>1. DeliveryInv /\ SoleDelivery => OneAtATime
  BY OneMessageOneWorker DEF DeliveryInv, SoleDelivery
<1>2. Init => (SoleDelivery => OrderInv)
  BY InitOrder
<1>3. DeliveryInv /\ (SoleDelivery => OrderInv) /\ [Next]_vars
        => (SoleDelivery => OrderInv)'
  <2>1. SUFFICES ASSUME DeliveryInv, SoleDelivery => OrderInv, [Next]_vars, SoleDelivery'
                 PROVE  OrderInv'
    OBVIOUS
  <2>2. duplicates = 0
    <3>1. ASSUME NEW w \in Workers, Process(w)
          PROVE  duplicates' = duplicates
      BY <3>1, HandlerHolds DEF StaysHeld, Ack, RefuseResume, queueVars
    <3>2. ASSUME NEW m \in Messages, Redeliver(m)
          PROVE  duplicates' # 0
      BY <2>1, <3>2 DEF DeliveryInv, SafetyInv, TypeOK, Redeliver
    <3>3. QED
      BY <2>1, <3>1, <3>2 DEF Next, Receive, Abandon, vars, queueVars, SoleDelivery
  <2>3. SoleDelivery
    BY <2>1, <2>2, OnlyCountCounts DEF SoleDelivery, OneMessagePerMail, CarriersOf
  <2>4. QED
    BY <1>1, <2>1, <2>3, NextOrder DEF DeliveryInv
<1>4. QED
  BY <1>1, <1>2, <1>3, Delivery, PTL DEF Spec

\* What a mail leaves in the statistics and among the side effects agrees with its
\* signal row, whatever fails between the four writes; and in the vector index, for
\* mails of one message each that is not delivered again in flight.
THEOREM WritesAlwaysAgree == Spec => []WritesAgree
<1>1. SafetyInv /\ (SoleDelivery => OneAtATime /\ OrderInv) => VectorsHaveSignals
  <2>1. ASSUME SafetyInv, OrderInv, NEW c \in Clusters
        PROVE  vectors[c] \subseteq {VectorRow(signals[e]) : e \in Mails}
    BY <2>1 DEF SafetyInv, TypeOK, OrderInv, IndexInv
  <2>2. QED
    BY <2>1 DEF VectorsHaveSignals, SoleDelivery
<1>2. SafetyInv => OnlyActiveDispatched
  BY DEF SafetyInv, TableInv
<1>3. VectorsHaveSignals /\ StatsOncePerMessage /\ OnlyActiveDispatched => WritesAgree
  BY DEF WritesAgree
<1>4. QED
  BY <1>1, <1>2, <1>3, Safety, SoleOrder, CountedOncePerMessage, PTL

-----------------------------------------------------------------------------
(* The refinement.  While a mail is worked on by one worker at a time, each  *)
(* step decides one mail, makes one searchable, releases one, or is none of *)
(* the intake's business.                                                   *)

\* The mail is decided when its signal is saved, and is nothing else yet.
LEMMA SaveDecides ==
  ASSUME SafetyInv, OrderInv, NEW w \in Workers, SaveSignal(w),
         NEW e \in Mails, MailAt(w) = e
  PROVE  Intake!Decide(e)
<1>1. TypeOK /\ RowInv(w) /\ msg[w] \in Messages
  BY BusyWorker DEF SafetyInv, OrderInv, SaveSignal
<1>2. /\ UNCHANGED <<vectors, dispatched>>
      /\ pc[w] = "saveSignal"
      /\ signals' = [signals EXCEPT ![e] = sig[w]]
      /\ signals'[e] = sig[w]
      /\ \A f \in Mails \ {e} : signals'[f] = signals[f]
  BY <1>1 DEF SaveSignal, TypeOK
<1>3. signals[e] = NoSignal /\ sig[w] \in Signal \ {NoSignal}
  BY <1>1, <1>2 DEF RowInv, BeforeSave, SavedSignal, TypeOK, NoSignal
<1>4. ~Searchable(e) /\ signals[e] \notin dispatched
  BY <1>3 DEF Searchable, NoSignal, SafetyInv, TableInv, OnlyActiveDispatched
<1>5. ASSUME Stored(e)'
      PROVE  ~Searchable(e)' /\ sig[w] \notin dispatched
  <2>1. Saving(w) /\ sig[w].embedded # {} /\ sig[w].embedded \subseteq Clusters
    BY <1>1, <1>2, <1>5 DEF Saving, Stored, OrderInv, IndexInv, TypeOK, Signal
  <2>2. \A f \in Mails : Stored(f) => signals[f].id # sig[w].id
    BY <2>1 DEF OrderInv, IdInv
  <2>3. \A c \in Clusters : VectorRow(sig[w]) \notin vectors[c]
    BY <1>1, <2>2 DEF OrderInv, IndexInv, VectorRow, TypeOK
  <2>4. QED
    BY <1>2, <2>1, <2>2, <2>3 DEF Searchable, OrderInv, IndexInv
<1>6. ASSUME ~Stored(e)'
      PROVE  ~Searchable(e)' /\ sig[w] \notin dispatched
  BY <1>2, <1>6 DEF Stored, Searchable, SafetyInv, TableInv, OnlyActiveDispatched
<1>7. \A f \in Mails \ {e} : Searchable(f)' <=> Searchable(f)
  BY <1>2 DEF Searchable
<1>8. /\ {f \in Mails : Searchable(f)}' = {f \in Mails : Searchable(f)}
      /\ {f \in Mails : signals[f] \in dispatched}' = {f \in Mails : signals[f] \in dispatched}
  BY <1>2, <1>4, <1>5, <1>6, <1>7
<1>9. QED
  BY <1>1, <1>2, <1>3, <1>8 DEF Intake!Decide

\* The upsert of the last missing vector makes its mail searchable, and no other.
LEMMA UpsertIndexes ==
  ASSUME SafetyInv, OrderInv, NEW w \in Workers, NEW c \in Clusters, UpsertVector(w, c),
         NEW e \in Mails, MailAt(w) = e
  PROVE  Intake!Index(e) \/ UNCHANGED Intake!vars
<1>1. TypeOK /\ RowInv(w) /\ WorkerInv(w) /\ msg[w] \in Messages
  BY BusyWorker DEF SafetyInv, OrderInv, UpsertVector
<1>2. /\ UNCHANGED <<signals, dispatched>>
      /\ sig[w] = signals[e] /\ Stored(e) /\ signals[e] \in Signal
      /\ \A d \in Clusters : /\ vectors[d] \subseteq vectors'[d]
                             /\ vectors'[d] \subseteq vectors[d] \union {VectorRow(signals[e])}
  BY <1>1
     DEF UpsertVector, TypeOK, RowInv, AfterSave, SavedSignal, WorkerInv, Stored
<1>3. \A f \in Mails \ {e} : Stored(f) => VectorRow(signals[f]) # VectorRow(signals[e])
  BY <1>1, <1>2 DEF OrderInv, IdInv, VectorRow
<1>4. \A f \in Mails : signals[f].embedded \subseteq Clusters
  BY <1>1 DEF TypeOK, Signal
<1>5. \A f \in Mails \ {e} : Searchable(f)' <=> Searchable(f)
  BY <1>2, <1>3, <1>4 DEF Searchable, Stored
<1>6. Searchable(e) => Searchable(e)'
  BY <1>2, <1>4 DEF Searchable
<1>7. {f \in Mails : signals[f] \in dispatched}' = {f \in Mails : signals[f] \in dispatched}
  BY <1>2
<1>8. CASE Searchable(e)' <=> Searchable(e)
  BY <1>2, <1>5, <1>7, <1>8 DEF Intake!vars
<1>9. CASE Searchable(e)' /\ ~Searchable(e)
  <2>1. {f \in Mails : Searchable(f)}' = {f \in Mails : Searchable(f)} \union {e}
    BY <1>1, <1>5, <1>9
  <2>2. QED
    BY <1>1, <1>2, <1>7, <1>9, <2>1 DEF Intake!Index, Stored
<1>10. QED
  BY <1>6, <1>8, <1>9

\* The dispatch releases its mail, and no other, unless it had been released.
LEMMA DispatchReleases ==
  ASSUME SafetyInv, OrderInv, NEW w \in Workers, DispatchSideEffects(w),
         NEW e \in Mails, MailAt(w) = e
  PROVE  Intake!Release(e) \/ UNCHANGED Intake!vars
<1>1. TypeOK /\ RowInv(w) /\ WorkerInv(w) /\ msg[w] \in Messages
  BY BusyWorker DEF SafetyInv, OrderInv, DispatchSideEffects
<1>2. /\ UNCHANGED <<signals, vectors>>
      /\ dispatched' = dispatched \union {signals[e]}
      /\ sig[w] = signals[e] /\ Stored(e)
  BY <1>1
     DEF DispatchSideEffects, RowInv, AfterSave, SavedSignal, WorkerInv, Stored,
         tableVars
<1>3. Searchable(e)
  BY <1>1, <1>2 DEF DispatchSideEffects, AllUpserted, WorkerInv, Searchable, Stored
<1>4. \A f \in Mails \ {e} : signals[f] # signals[e]
  BY <1>1, <1>2 DEF OrderInv, IdInv, Stored
<1>5. {f \in Mails : Searchable(f)}' = {f \in Mails : Searchable(f)}
  BY <1>2 DEF Searchable
<1>6. {f \in Mails : signals[f] \in dispatched}'
        = {f \in Mails : signals[f] \in dispatched} \union {e}
  BY <1>1, <1>2, <1>4
<1>7. CASE signals[e] \in dispatched
  BY <1>1, <1>2, <1>5, <1>6, <1>7 DEF Intake!vars
<1>8. CASE signals[e] \notin dispatched
  BY <1>1, <1>2, <1>3, <1>5, <1>6, <1>8 DEF Intake!Release
<1>9. QED
  BY <1>7, <1>8

\* While each mail is worked on by one worker at a time, the pipeline decides a
\* mail once and releases its side effects only when it is searchable.
THEOREM IntakeImplemented == Spec /\ []OneAtATime => Intake!Spec
<1>1. Init => Intake!Init
  BY DEF Init, Intake!Init, Searchable, NoSignal
<1>2. SafetyInv /\ OrderInv /\ [Next]_vars => [Intake!Next]_(Intake!vars)
  <2> SUFFICES ASSUME SafetyInv, OrderInv, [Next]_vars
               PROVE  Intake!Next \/ UNCHANGED Intake!vars
    BY DEF Intake!vars
  <2>1. ASSUME UNCHANGED <<signals, vectors, dispatched>>
        PROVE  UNCHANGED Intake!vars
    BY <2>1 DEF Intake!vars, Searchable
  <2>2. ASSUME NEW w \in Workers, NEW match \in threads \union {0},
               NEW embedded \in SUBSET Clusters, Admit(w, match, embedded)
        PROVE  UNCHANGED <<signals, vectors, dispatched>>
    BY <2>2 DEF Admit, tableVars
  <2>3. ASSUME NEW w \in Workers,
               (\E m \in Messages : Receive(w, m)) \/ Process(w) \/ Abandon(w)
        PROVE  \/ UNCHANGED <<signals, vectors, dispatched>>
               \/ SaveSignal(w)
               \/ \E c \in Clusters : UpsertVector(w, c)
               \/ DispatchSideEffects(w)
    BY <2>2, <2>3, QuietSteps DEF Quiet, OrderInv
  <2>4. ASSUME NEW w \in Workers, pc[w] # "idle"
        PROVE  MailAt(w) \in Mails
    BY <2>4, BusyWorker DEF SafetyInv
  <2>5. ASSUME NEW w \in Workers,
               (\E m \in Messages : Receive(w, m)) \/ Process(w) \/ Abandon(w)
        PROVE  Intake!Next \/ UNCHANGED Intake!vars
    <3>1. CASE SaveSignal(w)
      BY <2>4, <3>1, SaveDecides DEF Intake!Next, SaveSignal
    <3>2. CASE \E c \in Clusters : UpsertVector(w, c)
      BY <2>4, <3>2, UpsertIndexes DEF Intake!Next, UpsertVector
    <3>3. CASE DispatchSideEffects(w)
      BY <2>4, <3>3, DispatchReleases DEF Intake!Next, DispatchSideEffects
    <3>4. QED
      BY <2>1, <2>3, <2>5, <3>1, <3>2, <3>3
  <2>6. QED
    BY <2>1, <2>5 DEF Next, Redeliver, vars, tableVars
<1>3. QED
  BY <1>1, <1>2, InitOrder, NextOrder, Safety, PTL DEF Spec, Intake!Spec

-----------------------------------------------------------------------------
(* Vacant threads.  A thread row is left without a signal when the worker   *)
(* that saved it gives up, or when another attempt at the same mail puts    *)
(* its own signal over the first; and a mail is attempted anew, once its    *)
(* signal is stored, by those only that had looked it up before.            *)

Fetched == {carries[m] : m \in Messages}
Busy == {w \in Workers : pc[w] # "idle"}

\* Nobody has the mail in hand, and the queue has nothing of it to hand out.
Untouched(e) ==
  /\ \A m \in CarriersOf(e) : visibility[m] # "visible"
  /\ \A w \in Busy : MailAt(w) # e

\* The mails that are decided, or will not be; the deliveries and the workers
\* that may still store a signal.
Settled == {e \in Fetched : signals[e] # NoSignal \/ Untouched(e)}
Waiting ==
  {m \in Messages : visibility[m] = "visible" /\ signals[carries[m]] = NoSignal}
Writers ==
  {w \in Busy : \/ pc[w] \in {"match", "saveThread", "saveSignal"}
                \/ SavedSignal(w) = NoSignal}

\* The vacant threads that no worker is about to give a signal to.
Lone == VacantThreads \ {sig[w].thread : w \in InProgress}

Bounded == IsFiniteSet(Busy) /\ IsFiniteSet(threads)

VacancyInv ==
  /\ Bounded
  /\ \A w \in Workers : pc[w] = "saveSignal" => sig[w].status # "none"
  /\ Cardinality(Lone) + Cardinality(Writers) + Cardinality(Waiting)
       + Cardinality(Settled)
       <= faults + duplicates + Cardinality(Messages)

\* The values of a function on a finite set, and the members of two finite sets,
\* are no more than what they come from.
LEMMA ImageSize ==
  ASSUME NEW S, IsFiniteSet(S), NEW f
  PROVE  /\ IsFiniteSet({f[x] : x \in S})
         /\ Cardinality({f[x] : x \in S}) <= Cardinality(S)
<1> DEFINE T == {f[x] : x \in S}
           g == [x \in S |-> f[x]]
<1>1. g \in Surjection(S, T)
  BY DEF Surjection
<1>2. QED
  BY <1>1, FS_Surjection

LEMMA UnionSize ==
  ASSUME NEW S, NEW T, IsFiniteSet(S), IsFiniteSet(T)
  PROVE  /\ IsFiniteSet(S \union T)
         /\ Cardinality(S \union T) <= Cardinality(S) + Cardinality(T)
<1>1. IsFiniteSet(S \cap T)
  <2>1. S \cap T \in SUBSET S
    OBVIOUS
  <2>2. QED
    BY <2>1, FS_Subset
<1>2. /\ Cardinality(S) \in Nat /\ Cardinality(T) \in Nat
      /\ Cardinality(S \cap T) \in Nat
  BY <1>1, FS_CardinalityType
<1>3. /\ IsFiniteSet(S \union T)
      /\ Cardinality(S \union T) = Cardinality(S) + Cardinality(T) - Cardinality(S \cap T)
  BY FS_Union
<1>4. QED
  BY <1>2, <1>3

\* The sets that are counted are finite.
LEMMA CountedSets ==
  ASSUME TypeOK, Bounded
  PROVE  /\ IsFiniteSet(Lone) /\ Cardinality(Lone) \in Nat
         /\ IsFiniteSet(Writers) /\ Cardinality(Writers) \in Nat
         /\ IsFiniteSet(Waiting) /\ Cardinality(Waiting) \in Nat
         /\ IsFiniteSet(Settled) /\ Cardinality(Settled) \in Nat
         /\ IsFiniteSet(Fetched) /\ Cardinality(Fetched) \in Nat
         /\ IsFiniteSet(InProgress) /\ Cardinality(InProgress) \in Nat
         /\ IsFiniteSet(VacantThreads) /\ Cardinality(VacantThreads) \in Nat
<1>1. IsFiniteSet(Fetched)
  BY ImageSize, InboundAssumption DEF Fetched
<1>2. /\ VacantThreads \subseteq threads /\ Lone \subseteq threads
      /\ Writers \subseteq Busy /\ InProgress \subseteq Busy
      /\ Waiting \subseteq Messages /\ Settled \subseteq Fetched
  BY DEF VacantThreads, Lone, Writers, InProgress, Busy, Waiting, Settled
<1>3. /\ IsFiniteSet(Lone) /\ IsFiniteSet(Writers) /\ IsFiniteSet(Waiting)
      /\ IsFiniteSet(Settled) /\ IsFiniteSet(InProgress) /\ IsFiniteSet(VacantThreads)
  BY <1>1, <1>2, FS_Subset, InboundAssumption DEF Bounded
<1>4. QED
  BY <1>1, <1>3, FS_CardinalityType

\* A set that loses elements at most, gains one at most, or loses one at least.
LEMMA GainsNone ==
  ASSUME NEW C, NEW D, IsFiniteSet(C), D \subseteq C
  PROVE  Cardinality(D) \in Nat /\ Cardinality(D) <= Cardinality(C)
BY FS_Subset, FS_CardinalityType

LEMMA GainsOne ==
  ASSUME NEW C, NEW D, NEW x, IsFiniteSet(C), D \ {x} \subseteq C
  PROVE  Cardinality(D) \in Nat /\ Cardinality(D) <= Cardinality(C) + 1
<1>1. /\ IsFiniteSet(C \union {x})
      /\ Cardinality(C \union {x}) <= Cardinality(C) + 1
  <2>1. Cardinality(C) \in Nat
    BY FS_CardinalityType
  <2>2. /\ IsFiniteSet(C \union {x})
        /\ Cardinality(C \union {x}) = IF x \in C THEN Cardinality(C) ELSE Cardinality(C) + 1
    BY FS_AddElement
  <2>3. QED
    BY <2>1, <2>2
<1>2. D \subseteq C \union {x}
  OBVIOUS
<1>3. /\ Cardinality(C) \in Nat /\ Cardinality(C \union {x}) \in Nat
      /\ Cardinality(D) \in Nat /\ Cardinality(D) <= Cardinality(C \union {x})
  BY <1>1, <1>2, GainsNone, FS_CardinalityType
<1>4. QED
  BY <1>1, <1>3

LEMMA LosesOne ==
  ASSUME NEW C, NEW D, NEW x \in C, IsFiniteSet(C), D \subseteq C \ {x}
  PROVE  Cardinality(D) \in Nat /\ Cardinality(D) <= Cardinality(C) - 1
<1>1. IsFiniteSet(C \ {x}) /\ Cardinality(C \ {x}) = Cardinality(C) - 1
  BY FS_RemoveElement
<1>2. QED
  BY <1>1, GainsNone

\* Together the settled mails and those of the deliveries and the workers that
\* may still store a signal are all there are.
LEMMA EveryMailCounts ==
  ASSUME TypeOK, Bounded
  PROVE  Cardinality(Fetched)
           <= Cardinality(Writers) + Cardinality(Waiting) + Cardinality(Settled)
<1> DEFINE mailOf == [w \in Workers |-> MailAt(w)]
           A == {mailOf[w] : w \in Writers}
           B == {carries[m] : m \in Waiting}
<1>1. Fetched \subseteq (A \union B) \union Settled
  <2> SUFFICES ASSUME NEW e \in Fetched, e \notin Settled
               PROVE  e \in A \union B
    OBVIOUS
  <2>1. signals[e] = NoSignal /\ ~Untouched(e)
    BY DEF Settled
  <2>2. CASE \E m \in CarriersOf(e) : visibility[m] = "visible"
    BY <2>1, <2>2 DEF Waiting, CarriersOf
  <2>3. CASE \E w \in Busy : MailAt(w) = e
    BY <2>1, <2>3 DEF Writers, Busy, SavedSignal
  <2>4. QED
    BY <2>1, <2>2, <2>3 DEF Untouched
<1>2. /\ IsFiniteSet(A) /\ Cardinality(A) <= Cardinality(Writers)
      /\ IsFiniteSet(B) /\ Cardinality(B) <= Cardinality(Waiting)
  <2> HIDE DEF mailOf
  <2> QED
    BY CountedSets, ImageSize
<1> HIDE DEF A, B
<1>3. /\ IsFiniteSet(A \union B)
      /\ Cardinality(A \union B) <= Cardinality(A) + Cardinality(B)
  BY <1>2, UnionSize
<1>4. /\ IsFiniteSet((A \union B) \union Settled)
      /\ Cardinality((A \union B) \union Settled)
           <= Cardinality(A \union B) + Cardinality(Settled)
  BY <1>3, CountedSets, UnionSize
<1>5. Cardinality(Fetched) <= Cardinality((A \union B) \union Settled)
  BY <1>1, <1>4, FS_Subset
<1>6. /\ Cardinality(A) \in Nat /\ Cardinality(B) \in Nat
      /\ Cardinality(A \union B) \in Nat
      /\ Cardinality((A \union B) \union Settled) \in Nat
  BY <1>2, <1>3, <1>4, FS_CardinalityType
<1>7. QED
  BY <1>2, <1>3, <1>4, <1>5, <1>6, CountedSets

\* The threads vacant for now are those of workers about to save a signal; the
\* lone ones had a cause each.
LEMMA VacancyBound == TypeOK /\ VacancyInv => VacantThreadsNeedFaults
<1> SUFFICES ASSUME TypeOK, VacancyInv PROVE VacantThreadsNeedFaults
  OBVIOUS
<1> DEFINE threadOf == [w \in Workers |-> sig[w].thread]
           T == {threadOf[w] : w \in InProgress}
<1>0. Bounded
  BY DEF VacancyInv
<1>1. VacantThreads \subseteq Lone \union T
  BY DEF Lone, InProgress
<1>2. IsFiniteSet(T) /\ Cardinality(T) <= Cardinality(InProgress)
  <2> HIDE DEF threadOf
  <2> QED
    BY <1>0, CountedSets, ImageSize
<1> HIDE DEF T
<1>3. /\ IsFiniteSet(Lone \union T)
      /\ Cardinality(Lone \union T) <= Cardinality(Lone) + Cardinality(T)
  BY <1>0, <1>2, CountedSets, UnionSize
<1>4. Cardinality(VacantThreads) <= Cardinality(Lone \union T)
  BY <1>1, <1>3, FS_Subset
<1>5. Cardinality(VacantThreads) <= Cardinality(Lone) + Cardinality(InProgress)
  BY <1>0, <1>2, <1>3, <1>4, CountedSets, FS_CardinalityType
<1>6. /\ Cardinality(Messages) \in Nat /\ faults \in Nat /\ duplicates \in Nat
  BY FS_CardinalityType, InboundAssumption DEF TypeOK
<1>7. Cardinality(Lone) + Cardinality(Fetched)
        <= faults + duplicates + Cardinality(Messages)
  BY <1>0, <1>6, CountedSets, EveryMailCounts DEF VacancyInv
<1>8. Fetched = {carries[m] : m \in Messages}
  BY DEF Fetched
<1> HIDE DEF threadOf
<1>9. QED
  BY <1>0, <1>5, <1>6, <1>7, <1>8, CountedSets DEF VacantThreadsNeedFaults

-----------------------------------------------------------------------------
(* The steps.                                                               *)

\* A worker goes on with its mail: what it keeps to itself adds no vacant thread
\* that nobody minds, and nobody who may store a signal.
LEMMA GoesOn ==
  ASSUME TypeOK, TypeOK', VacancyInv, NEW w \in Workers,
         pc[w] \notin {"idle", "saveSignal"}, pc'[w] # "idle",
         UNCHANGED <<carries, visibility, duplicates, msg, signals, faults>>,
         \A v \in Workers \ {w} : pc'[v] = pc[v] /\ sig'[v] = sig[v],
         pc'[w] \in {"match", "saveThread", "saveSignal"} => w \in Writers,
         pc'[w] = "saveSignal" => sig'[w].status # "none",
         \/ threads' = threads
         \/ pc'[w] = "saveSignal" /\ threads' = threads \union {sig'[w].thread}
  PROVE  VacancyInv'
<1>1. Busy' = Busy
  BY DEF Busy
<1>2. Bounded'
  BY <1>1, FS_AddElement DEF VacancyInv, Bounded
<1>3. Lone' \subseteq Lone
  <2>1. \A v \in InProgress : v \in InProgress' /\ sig'[v] = sig[v]
    BY DEF InProgress
  <2>2. ASSUME NEW t \in Lone'
        PROVE  t \in threads
    BY <2>2 DEF Lone, VacantThreads, InProgress
  <2>3. QED
    BY <2>1, <2>2 DEF Lone, VacantThreads
<1>4. Writers' \subseteq Writers
  <2> SUFFICES ASSUME NEW v \in Writers' PROVE v \in Writers
    OBVIOUS
  <2>1. CASE v = w
    <3>1. SavedSignal(w)' = SavedSignal(w)
      BY DEF SavedSignal, MailAt
    <3>2. QED
      BY <2>1, <3>1 DEF Writers, Busy
  <2>2. CASE v # w
    <3>1. SavedSignal(v)' = SavedSignal(v) /\ pc'[v] = pc[v]
      BY <2>2 DEF SavedSignal, MailAt, Writers, Busy
    <3>2. QED
      BY <2>2, <3>1 DEF Writers, Busy
  <2>3. QED
    BY <2>1, <2>2
<1>5. Waiting' = Waiting
  BY DEF Waiting
<1>6. Settled' = Settled
  BY <1>1 DEF Settled, Fetched, Untouched, CarriersOf, MailAt
<1>7. Cardinality(Lone') \in Nat /\ Cardinality(Lone') <= Cardinality(Lone)
  BY <1>3, CountedSets, GainsNone DEF VacancyInv
<1>8. Cardinality(Writers') \in Nat /\ Cardinality(Writers') <= Cardinality(Writers)
  BY <1>4, CountedSets, GainsNone DEF VacancyInv
<1>9. \A v \in Workers : pc'[v] = "saveSignal" => sig'[v].status # "none"
  BY DEF VacancyInv
<1>10. Cardinality(Messages) \in Nat /\ faults \in Nat /\ duplicates \in Nat
  BY FS_CardinalityType, InboundAssumption DEF TypeOK
<1>11. /\ Cardinality(Lone) \in Nat /\ Cardinality(Writers) \in Nat
       /\ Cardinality(Waiting) \in Nat /\ Cardinality(Settled) \in Nat
  BY CountedSets DEF VacancyInv
<1>12. Cardinality(Lone') + Cardinality(Writers') + Cardinality(Waiting')
         + Cardinality(Settled') <= faults' + duplicates' + Cardinality(Messages)
  BY <1>5, <1>6, <1>7, <1>8, <1>10, <1>11 DEF VacancyInv
<1>13. QED
  BY <1>2, <1>9, <1>12 DEF VacancyInv

\* A worker stops, and its message goes back, or is deleted: the mail is as likely
\* to be decided as it was, and if the worker was about to save the signal of a
\* thread, that was a fault.
LEMMA Leaves ==
  ASSUME TypeOK, TypeOK', VacancyInv, NEW w \in Workers, pc[w] # "idle", Forget(w),
         UNCHANGED <<carries, signals, threads, duplicates>>,
         \A m \in Messages \ {msg[w]} : visibility'[m] = visibility[m],
         faults' = faults + 1 \/ (faults' = faults /\ pc[w] # "saveSignal")
  PROVE  VacancyInv'
<1>0. /\ msg[w] \in Messages /\ MailAt(w) \in Mails
      /\ w \in Busy /\ MailAt(w) \in Fetched
  BY BusyWorker DEF Busy, MailAt, Fetched
<1>1. /\ Busy' = Busy \ {w}
      /\ \A v \in Workers \ {w} : pc'[v] = pc[v] /\ sig'[v] = sig[v] /\ msg'[v] = msg[v]
  BY DEF Busy, Forget, Goto, TypeOK
<1>2. Bounded'
  BY <1>1, FS_RemoveElement DEF VacancyInv, Bounded
<1>3. InProgress' = InProgress \ {w} /\ \A v \in InProgress' : sig'[v] = sig[v]
  BY <1>1 DEF InProgress, Busy
<1>4. \A e \in Fetched \ {MailAt(w)} : Untouched(e)' => Untouched(e)
  <2> SUFFICES ASSUME NEW e \in Fetched \ {MailAt(w)}, Untouched(e)'
               PROVE  Untouched(e)
    OBVIOUS
  <2>1. ASSUME NEW m \in CarriersOf(e)
        PROVE  visibility[m] # "visible"
    BY <1>0 DEF Untouched, CarriersOf, MailAt
  <2>2. ASSUME NEW v \in Busy
        PROVE  MailAt(v) # e
    BY <1>1, <2>2 DEF Untouched, MailAt, Busy
  <2>3. QED
    BY <2>1, <2>2 DEF Untouched
<1>5. Fetched' = Fetched
  BY DEF Fetched
<1>6. /\ Cardinality(Lone') \in Nat
      /\ Cardinality(Lone') + faults <= Cardinality(Lone) + faults'
  <2>0. Cardinality(Lone) \in Nat /\ IsFiniteSet(Lone) /\ faults \in Nat
    BY CountedSets DEF VacancyInv, TypeOK
  <2>1. VacantThreads' = VacantThreads
    BY DEF VacantThreads
  <2>2. CASE pc[w] = "saveSignal"
    <3>1. Lone' \ {sig[w].thread} \subseteq Lone
      BY <1>3, <2>1 DEF Lone
    <3>2. Cardinality(Lone') \in Nat /\ Cardinality(Lone') <= Cardinality(Lone) + 1
      BY <2>0, <3>1, GainsOne
    <3>3. QED
      BY <2>0, <2>2, <3>2
  <2>3. CASE pc[w] # "saveSignal"
    <3>1. InProgress' = InProgress
      BY <1>3, <2>3 DEF InProgress
    <3>2. Lone' \subseteq Lone
      BY <1>3, <2>1, <3>1 DEF Lone
    <3>3. Cardinality(Lone') \in Nat /\ Cardinality(Lone') <= Cardinality(Lone)
      BY <2>0, <3>2, GainsNone
    <3>4. QED
      BY <2>0, <3>3
  <2>4. QED
    BY <2>2, <2>3
<1>7. /\ IsFiniteSet(Writers) /\ Cardinality(Writers) \in Nat
      /\ IsFiniteSet(Waiting) /\ Cardinality(Waiting) \in Nat
      /\ IsFiniteSet(Settled) /\ Cardinality(Settled) \in Nat
  BY CountedSets DEF VacancyInv
<1>8. Writers' \subseteq Writers \ {w}
  <2> SUFFICES ASSUME NEW v \in Writers' PROVE v \in Writers \ {w}
    OBVIOUS
  <2>1. v # w /\ v \in Busy
    BY <1>1 DEF Writers
  <2>2. SavedSignal(v)' = SavedSignal(v) /\ pc'[v] = pc[v]
    BY <1>1, <2>1 DEF SavedSignal, MailAt, Busy
  <2>3. QED
    BY <2>1, <2>2 DEF Writers
<1>9. Waiting' \ {msg[w]} \subseteq Waiting
  BY DEF Waiting
<1>10. /\ Cardinality(Writers') \in Nat /\ Cardinality(Waiting') \in Nat
       /\ Cardinality(Settled') \in Nat
       /\ Cardinality(Writers') + Cardinality(Waiting') + Cardinality(Settled')
            <= Cardinality(Writers) + Cardinality(Waiting) + Cardinality(Settled)
  <2>1. CASE SavedSignal(w) # NoSignal
    <3>1. Writers' \subseteq Writers
      BY <1>8
    <3>2. msg[w] \notin Waiting'
      BY <1>0, <2>1 DEF Waiting, SavedSignal, MailAt
    <3>3. Waiting' \subseteq Waiting
      BY <1>9, <3>2
    <3>4. Settled' \subseteq Settled
      BY <1>4, <1>5, <2>1 DEF Settled, SavedSignal
    <3>5. /\ Cardinality(Writers') \in Nat /\ Cardinality(Writers') <= Cardinality(Writers)
          /\ Cardinality(Waiting') \in Nat /\ Cardinality(Waiting') <= Cardinality(Waiting)
          /\ Cardinality(Settled') \in Nat /\ Cardinality(Settled') <= Cardinality(Settled)
      BY <1>7, <3>1, <3>3, <3>4, GainsNone
    <3>6. QED
      BY <1>7, <3>5
  <2>2. CASE SavedSignal(w) = NoSignal /\ msg[w] \in Waiting'
    <3>1. Cardinality(Writers') \in Nat /\ Cardinality(Writers') <= Cardinality(Writers) - 1
      <4>1. w \in Writers
        BY <1>0, <2>2 DEF Writers
      <4>2. QED
        BY <1>7, <1>8, <4>1, LosesOne
    <3>2. Cardinality(Waiting') \in Nat /\ Cardinality(Waiting') <= Cardinality(Waiting) + 1
      BY <1>7, <1>9, GainsOne
    <3>3. Settled' \subseteq Settled
      <4>1. \A e \in Fetched : Untouched(e)' => e # MailAt(w)
        BY <1>0, <2>2 DEF Untouched, Waiting, CarriersOf, MailAt
      <4>2. QED
        BY <1>4, <1>5, <4>1 DEF Settled
    <3>4. Cardinality(Settled') \in Nat /\ Cardinality(Settled') <= Cardinality(Settled)
      BY <1>7, <3>3, GainsNone
    <3>5. QED
      BY <1>7, <3>1, <3>2, <3>4
  <2>3. CASE SavedSignal(w) = NoSignal /\ msg[w] \notin Waiting'
    <3>1. Cardinality(Writers') \in Nat /\ Cardinality(Writers') <= Cardinality(Writers) - 1
      <4>1. w \in Writers
        BY <1>0, <2>3 DEF Writers
      <4>2. QED
        BY <1>7, <1>8, <4>1, LosesOne
    <3>2. Waiting' \subseteq Waiting
      BY <1>9, <2>3
    <3>3. Cardinality(Waiting') \in Nat /\ Cardinality(Waiting') <= Cardinality(Waiting)
      BY <1>7, <3>2, GainsNone
    <3>4. Settled' \ {MailAt(w)} \subseteq Settled
      BY <1>4, <1>5 DEF Settled
    <3>5. Cardinality(Settled') \in Nat /\ Cardinality(Settled') <= Cardinality(Settled) + 1
      BY <1>7, <3>4, GainsOne
    <3>6. QED
      BY <1>7, <3>1, <3>3, <3>5
  <2>4. QED
    BY <2>1, <2>2, <2>3
<1>11. /\ Cardinality(Messages) \in Nat /\ faults \in Nat /\ duplicates \in Nat
       /\ faults' \in Nat /\ Cardinality(Lone) \in Nat
  BY CountedSets, FS_CardinalityType, InboundAssumption DEF TypeOK, VacancyInv
<1>12. Cardinality(Lone') + Cardinality(Writers') + Cardinality(Waiting')
         + Cardinality(Settled') <= faults' + duplicates' + Cardinality(Messages)
  BY <1>6, <1>7, <1>10, <1>11 DEF VacancyInv
<1>13. \A v \in Workers : pc'[v] = "saveSignal" => sig'[v].status # "none"
  BY <1>1 DEF VacancyInv, Busy
<1>14. QED
  BY <1>2, <1>12, <1>13 DEF VacancyInv

\* A worker stores the signal of its mail.  Its thread is not vacant any more; if
\* the mail had a signal, that one's thread may be, and the worker was the second
\* to write; else the mail is settled.
LEMMA Stores ==
  ASSUME SafetyInv, TypeOK', VacancyInv, NEW w \in Workers, SaveSignal(w)
  PROVE  VacancyInv'
<1> DEFINE e == MailAt(w)
           t == sig[w].thread
           old == signals[e].thread
<1>0. /\ TypeOK /\ msg[w] \in Messages /\ e \in Mails /\ e \in Fetched
      /\ w \in Busy /\ w \in InProgress /\ sig[w] # NoSignal
  BY BusyWorker DEF SafetyInv, SaveSignal, Busy, MailAt, Fetched, InProgress,
                    VacancyInv, NoSignal
<1>1. /\ UNCHANGED <<carries, visibility, msg, sig, threads, faults, duplicates>>
      /\ pc' = [pc EXCEPT ![w] = "count"]
      /\ signals' = [signals EXCEPT ![e] = sig[w]]
  BY DEF SaveSignal, Goto, queueVars
<1>2. /\ pc'[w] = "count"
      /\ \A v \in Workers \ {w} : pc'[v] = pc[v]
      /\ signals'[e] = sig[w]
      /\ \A f \in Mails \ {e} : signals'[f] = signals[f]
  BY <1>0, <1>1 DEF TypeOK
<1>3. Busy' = Busy /\ InProgress' = InProgress \ {w} /\ Bounded'
  BY <1>0, <1>1, <1>2 DEF Busy, InProgress, Bounded, VacancyInv
<1>4. /\ IsFiniteSet(Lone) /\ Cardinality(Lone) \in Nat
      /\ IsFiniteSet(Writers) /\ Cardinality(Writers) \in Nat
      /\ IsFiniteSet(Waiting) /\ Cardinality(Waiting) \in Nat
      /\ IsFiniteSet(Settled) /\ Cardinality(Settled) \in Nat
  BY <1>0, CountedSets DEF VacancyInv
<1>5. Lone' \ {old} \subseteq Lone
  <2> SUFFICES ASSUME NEW x \in Lone', x # old
               PROVE  x \in Lone
    OBVIOUS
  <2>1. /\ x \in threads
        /\ \A f \in Mails : signals'[f].thread # x
        /\ \A v \in InProgress \ {w} : sig[v].thread # x
    BY <1>1, <1>3 DEF Lone, VacantThreads
  <2>2. t # x
    BY <1>0, <1>2, <2>1
  <2>3. \A f \in Mails : signals[f].thread # x
    BY <1>2, <2>1
  <2> HIDE DEF t
  <2>4. QED
    BY <1>0, <2>1, <2>2, <2>3 DEF Lone, VacantThreads, t
<1>6. Writers \in SUBSET Busy /\ w \in Writers
  BY <1>0 DEF Writers, SaveSignal
<1>7. Writers' \subseteq Writers \ {w}
  <2> SUFFICES ASSUME NEW v \in Writers' PROVE v \in Writers /\ v # w
    OBVIOUS
  <2>1. v \in Busy /\ msg[v] \in Messages /\ MailAt(v) \in Mails /\ MailAt(v)' = MailAt(v)
    BY <1>0, <1>1, <1>3, BusyWorker DEF Writers, Busy, MailAt
  <2>2. v # w
    BY <1>0, <1>2, <2>1 DEF Writers, SavedSignal
  <2>3. SavedSignal(v)' = NoSignal => SavedSignal(v) = NoSignal
    BY <1>0, <1>2, <2>1 DEF SavedSignal
  <2>4. QED
    BY <1>2, <2>1, <2>2, <2>3 DEF Writers, Busy
<1>8. Waiting' \subseteq Waiting
  BY <1>0, <1>1, <1>2 DEF Waiting, TypeOK
<1>9. Settled' \ {e} \subseteq Settled
  <2>1. \A f \in Fetched : f \in Mails
    BY <1>0 DEF Fetched, TypeOK
  <2>2. Fetched' = Fetched /\ \A f \in Fetched : Untouched(f)' => Untouched(f)
    BY <1>1, <1>3 DEF Fetched, Untouched, CarriersOf, MailAt
  <2> HIDE DEF e
  <2>3. QED
    BY <1>2, <2>1, <2>2 DEF Settled
<1> HIDE DEF e, t, old
<1>10. /\ Cardinality(Writers') \in Nat /\ Cardinality(Writers') <= Cardinality(Writers) - 1
       /\ Cardinality(Waiting') \in Nat /\ Cardinality(Waiting') <= Cardinality(Waiting)
  BY <1>4, <1>6, <1>7, <1>8, GainsNone, LosesOne
<1>11. /\ Cardinality(Lone') \in Nat /\ Cardinality(Settled') \in Nat
       /\ Cardinality(Lone') + Cardinality(Settled')
            <= Cardinality(Lone) + Cardinality(Settled) + 1
  <2>1. CASE signals[e] = NoSignal
    <3>1. old \notin Lone'
      BY <1>0, <1>1, <2>1 DEF old, Lone, VacantThreads, NoSignal, SafetyInv, TableInv
    <3>2. Lone' \subseteq Lone
      BY <1>5, <3>1
    <3>3. Cardinality(Lone') \in Nat /\ Cardinality(Lone') <= Cardinality(Lone)
      BY <1>4, <3>2, GainsNone
    <3>4. Cardinality(Settled') \in Nat /\ Cardinality(Settled') <= Cardinality(Settled) + 1
      BY <1>4, <1>9, GainsOne
    <3>5. QED
      BY <1>4, <3>3, <3>4
  <2>2. CASE signals[e] # NoSignal
    <3>1. Settled' \subseteq Settled
      BY <1>0, <1>9, <2>2 DEF Settled
    <3>2. Cardinality(Settled') \in Nat /\ Cardinality(Settled') <= Cardinality(Settled)
      BY <1>4, <3>1, GainsNone
    <3>3. Cardinality(Lone') \in Nat /\ Cardinality(Lone') <= Cardinality(Lone) + 1
      BY <1>4, <1>5, GainsOne
    <3>4. QED
      BY <1>4, <3>2, <3>3
  <2>3. QED
    BY <2>1, <2>2
<1>12. Cardinality(Messages) \in Nat /\ faults \in Nat /\ duplicates \in Nat
  BY <1>0, FS_CardinalityType, InboundAssumption DEF TypeOK
<1>13. Cardinality(Lone') + Cardinality(Writers') + Cardinality(Waiting')
         + Cardinality(Settled') <= faults' + duplicates' + Cardinality(Messages)
  BY <1>1, <1>4, <1>10, <1>11, <1>12 DEF VacancyInv
<1>14. \A v \in Workers : pc'[v] = "saveSignal" => sig'[v].status # "none"
  BY <1>1, <1>2 DEF VacancyInv
<1>15. QED
  BY <1>3, <1>13, <1>14 DEF VacancyInv

\* A waiting message is received, and its mail still counts once.
LEMMA Received ==
  ASSUME TypeOK, TypeOK', VacancyInv, NEW w \in Workers, NEW m \in Messages,
         Receive(w, m)
  PROVE  VacancyInv'
<1>1. /\ pc[w] = "idle" /\ pc'[w] = "lookup" /\ msg'[w] = m
      /\ \A v \in Workers \ {w} : pc'[v] = pc[v] /\ msg'[v] = msg[v]
      /\ visibility[m] = "visible" /\ visibility'[m] = "hidden"
      /\ \A n \in Messages \ {m} : visibility'[n] = visibility[n]
      /\ UNCHANGED <<carries, sig, threads, signals, faults, duplicates>>
  BY DEF Receive, Goto, TypeOK, tableVars
<1>2. Busy' = Busy \union {w} /\ w \notin Busy /\ InProgress' = InProgress
  BY <1>1 DEF Busy, InProgress
<1>3. Bounded'
  BY <1>1, <1>2, FS_AddElement DEF Bounded, VacancyInv
<1>4. /\ IsFiniteSet(Lone) /\ Cardinality(Lone) \in Nat
      /\ IsFiniteSet(Writers) /\ Cardinality(Writers) \in Nat
      /\ IsFiniteSet(Waiting) /\ Cardinality(Waiting) \in Nat
      /\ IsFiniteSet(Settled) /\ Cardinality(Settled) \in Nat
  BY CountedSets DEF VacancyInv
<1>5. Lone' = Lone
  BY <1>1, <1>2 DEF Lone, VacantThreads
<1>6. Settled' \subseteq Settled
  <2> SUFFICES ASSUME NEW e \in Settled', signals[e] = NoSignal
               PROVE  Untouched(e)
    BY <1>1 DEF Settled, Fetched
  <2>1. Untouched(e)' /\ carries[m] # e
    BY <1>1, <1>2 DEF Settled, Untouched, MailAt
  <2>2. \A v \in Busy : MailAt(v)' = MailAt(v)
    BY <1>1, <1>2 DEF MailAt, Busy
  <2>3. QED
    BY <1>1, <1>2, <2>1, <2>2 DEF Untouched, CarriersOf
<1>7. \A v \in Busy : v \in Writers' => v \in Writers
  <2>1. \A v \in Busy : pc'[v] = pc[v] /\ SavedSignal(v)' = SavedSignal(v)
    BY <1>1, <1>2 DEF SavedSignal, MailAt, Busy
  <2>2. QED
    BY <2>1 DEF Writers
<1>8. Writers' \ {w} \subseteq Writers /\ Waiting' \subseteq Waiting \ {m}
  BY <1>1, <1>2, <1>7 DEF Writers, Waiting
<1>9. /\ Cardinality(Writers') \in Nat /\ Cardinality(Waiting') \in Nat
      /\ Cardinality(Writers') + Cardinality(Waiting')
           <= Cardinality(Writers) + Cardinality(Waiting)
  <2>1. CASE signals[carries[m]] = NoSignal
    <3>1. m \in Waiting
      BY <1>1, <2>1 DEF Waiting
    <3>2. Cardinality(Waiting') \in Nat /\ Cardinality(Waiting') <= Cardinality(Waiting) - 1
      BY <1>4, <1>8, <3>1, LosesOne
    <3>3. Cardinality(Writers') \in Nat /\ Cardinality(Writers') <= Cardinality(Writers) + 1
      BY <1>4, <1>8, GainsOne
    <3>4. QED
      BY <1>4, <3>2, <3>3
  <2>2. CASE signals[carries[m]] # NoSignal
    <3>1. w \notin Writers'
      BY <1>1, <2>2 DEF Writers, SavedSignal, MailAt
    <3>2. Writers' \subseteq Writers /\ Waiting' \subseteq Waiting
      BY <1>8, <3>1
    <3>3. /\ Cardinality(Writers') \in Nat /\ Cardinality(Writers') <= Cardinality(Writers)
          /\ Cardinality(Waiting') \in Nat /\ Cardinality(Waiting') <= Cardinality(Waiting)
      BY <1>4, <3>2, GainsNone
    <3>4. QED
      BY <1>4, <3>3
  <2>3. QED
    BY <2>1, <2>2
<1>10. Cardinality(Settled') \in Nat /\ Cardinality(Settled') <= Cardinality(Settled)
  BY <1>4, <1>6, GainsNone
<1>11. Cardinality(Messages) \in Nat /\ faults \in Nat /\ duplicates \in Nat
  BY FS_CardinalityType, InboundAssumption DEF TypeOK
<1>12. Cardinality(Lone') + Cardinality(Writers') + Cardinality(Waiting')
         + Cardinality(Settled') <= faults' + duplicates' + Cardinality(Messages)
  BY <1>1, <1>4, <1>5, <1>9, <1>10, <1>11 DEF VacancyInv
<1>13. \A v \in Workers : pc'[v] = "saveSignal" => sig'[v].status # "none"
  BY <1>1 DEF VacancyInv
<1>14. QED
  BY <1>3, <1>12, <1>13 DEF VacancyInv

\* A message becomes visible while it is in flight, at the price of a duplicate.
LEMMA Redelivered ==
  ASSUME TypeOK, VacancyInv, NEW m \in Messages, Redeliver(m)
  PROVE  VacancyInv'
<1>1. /\ UNCHANGED <<carries, pc, msg, sig, threads, signals, faults>>
      /\ duplicates' = duplicates + 1
      /\ visibility[m] = "hidden" /\ visibility'[m] = "visible"
      /\ \A n \in Messages \ {m} : visibility'[n] = visibility[n]
  BY DEF Redeliver, TypeOK, workerVars, tableVars
<1>2. /\ Busy' = Busy /\ Bounded' /\ Lone' = Lone
  BY <1>1 DEF Busy, Bounded, VacancyInv, Lone, VacantThreads, InProgress
<1>3. Writers' = Writers
  BY <1>1, <1>2 DEF Writers, SavedSignal, MailAt
<1>4. Waiting' \ {m} \subseteq Waiting
  BY <1>1 DEF Waiting
<1>5. Settled' \subseteq Settled
  <2>1. \A e \in Fetched : Untouched(e)' => Untouched(e)
    BY <1>1, <1>2 DEF Untouched, CarriersOf, MailAt
  <2>2. QED
    BY <1>1, <2>1 DEF Settled, Fetched
<1>6. /\ IsFiniteSet(Lone) /\ Cardinality(Lone) \in Nat
      /\ IsFiniteSet(Writers) /\ Cardinality(Writers) \in Nat
      /\ IsFiniteSet(Waiting) /\ Cardinality(Waiting) \in Nat
      /\ IsFiniteSet(Settled) /\ Cardinality(Settled) \in Nat
  BY CountedSets DEF VacancyInv
<1>7. Cardinality(Waiting') \in Nat /\ Cardinality(Waiting') <= Cardinality(Waiting) + 1
  BY <1>4, <1>6, GainsOne
<1>8. Cardinality(Settled') \in Nat /\ Cardinality(Settled') <= Cardinality(Settled)
  BY <1>5, <1>6, GainsNone
<1>9. Cardinality(Messages) \in Nat /\ faults \in Nat /\ duplicates \in Nat
  BY FS_CardinalityType, InboundAssumption DEF TypeOK
<1>10. Cardinality(Lone') + Cardinality(Writers') + Cardinality(Waiting')
         + Cardinality(Settled') <= faults' + duplicates' + Cardinality(Messages)
  BY <1>1, <1>2, <1>3, <1>6, <1>7, <1>8, <1>9 DEF VacancyInv
<1>11. \A v \in Workers : pc'[v] = "saveSignal" => sig'[v].status # "none"
  BY <1>1 DEF VacancyInv
<1>12. QED
  BY <1>2, <1>10, <1>11 DEF VacancyInv

LEMMA NextVacancy == SafetyInv /\ VacancyInv /\ [Next]_vars => VacancyInv'
<1> SUFFICES ASSUME SafetyInv, VacancyInv, [Next]_vars PROVE VacancyInv'
  OBVIOUS
<1>0. TypeOK /\ TypeOK'
  BY NextType DEF SafetyInv
<1>1. ASSUME NEW w \in Workers, Abandon(w)
      PROVE  VacancyInv'
  <2>1. \A m \in Messages \ {msg[w]} : visibility'[m] = visibility[m]
    BY <1>0, <1>1 DEF Abandon, ReturnToQueue, TypeOK
  <2>2. QED
    BY <1>0, <1>1, <2>1, Leaves DEF Abandon, tableVars
<1>2. ASSUME NEW w \in Workers, RefuseResume(w) \/ Ack(w)
      PROVE  VacancyInv'
  <2>1. \A m \in Messages \ {msg[w]} : visibility'[m] = visibility[m]
    BY <1>0, <1>2 DEF RefuseResume, Ack, ReturnToQueue, TypeOK
  <2>2. pc[w] \notin {"idle", "saveSignal"}
    BY <1>2 DEF RefuseResume, Ack
  <2>3. QED
    BY <1>0, <1>2, <2>1, <2>2, Leaves DEF RefuseResume, Ack, tableVars
<1>3. ASSUME NEW w \in Workers, DedupSkip(w) \/ Resume(w) \/ Count(w) \/ CountNothing(w)
                                 \/ Calendar(w) \/ DispatchSideEffects(w) \/ AbsorbBounce(w)
                                 \/ \E c \in Clusters : UpsertVector(w, c)
      PROVE  VacancyInv'
  <2>1. /\ pc[w] \notin {"idle", "saveSignal"}
        /\ pc'[w] \notin {"idle", "match", "saveThread", "saveSignal"}
        /\ UNCHANGED <<queueVars, msg, signals, threads, faults>>
        /\ \A v \in Workers \ {w} : pc'[v] = pc[v] /\ sig'[v] = sig[v]
    BY <1>0, <1>3
       DEF DedupSkip, Resume, Count, CountNothing, AfterCount, Calendar,
           DispatchSideEffects, AbsorbBounce, UpsertVector, Goto, TypeOK, tableVars
  <2>2. QED
    BY <1>0, <2>1, GoesOn DEF queueVars
<1>4. ASSUME NEW w \in Workers, StartFresh(w)
      PROVE  VacancyInv'
  <2>1. w \in Writers
    BY <1>4 DEF StartFresh, Writers, Busy
  <2>2. /\ pc[w] = "lookup" /\ pc'[w] = "match"
        /\ \A v \in Workers \ {w} : pc'[v] = pc[v] /\ sig'[v] = sig[v]
        /\ UNCHANGED <<carries, visibility, duplicates, msg, signals, faults, threads>>
    BY <1>0, <1>4 DEF StartFresh, Goto, TypeOK, queueVars, tableVars
  <2>3. QED
    BY <1>0, <2>1, <2>2, GoesOn
<1>5. ASSUME NEW w \in Workers, NEW status \in {"blocked", "quarantined"},
             Withhold(w, status)
      PROVE  VacancyInv'
  <2>1. w \in Writers
    BY <1>5 DEF Withhold, Writers, Busy
  <2>2. /\ pc[w] = "match" /\ pc'[w] = "saveSignal" /\ sig'[w].status # "none"
        /\ \A v \in Workers \ {w} : pc'[v] = pc[v] /\ sig'[v] = sig[v]
        /\ UNCHANGED <<carries, visibility, duplicates, msg, signals, faults, threads>>
    BY <1>0, <1>5 DEF Withhold, Withheld, Goto, TypeOK, queueVars, tableVars
  <2>3. QED
    BY <1>0, <2>1, <2>2, GoesOn
<1>6. ASSUME NEW w \in Workers, NEW match \in threads \union {0},
             NEW embedded \in SUBSET Clusters, Admit(w, match, embedded)
      PROVE  VacancyInv'
  <2>1. w \in Writers
    BY <1>6 DEF Admit, Writers, Busy
  <2>2. /\ pc[w] = "match" /\ pc'[w] = "saveThread"
        /\ \A v \in Workers \ {w} : pc'[v] = pc[v] /\ sig'[v] = sig[v]
        /\ UNCHANGED <<carries, visibility, duplicates, msg, signals, faults, threads>>
    BY <1>0, <1>6 DEF Admit, Goto, TypeOK, queueVars, tableVars
  <2>3. QED
    BY <1>0, <2>1, <2>2, GoesOn
<1>7. ASSUME NEW w \in Workers, SaveThread(w)
      PROVE  VacancyInv'
  <2>1. w \in Writers /\ sig[w].status # "none"
    BY <1>7 DEF SaveThread, Writers, Busy, SafetyInv, WorkerInv
  <2>2. /\ pc[w] = "saveThread" /\ pc'[w] = "saveSignal" /\ sig' = sig
        /\ \A v \in Workers \ {w} : pc'[v] = pc[v]
        /\ UNCHANGED <<carries, visibility, duplicates, msg, signals, faults>>
        /\ threads' = threads \union {sig'[w].thread}
    BY <1>0, <1>7 DEF SaveThread, Goto, TypeOK, queueVars
  <2>3. QED
    BY <1>0, <2>1, <2>2, GoesOn
<1>8. ASSUME NEW w \in Workers, Fresh(w)
      PROVE  VacancyInv'
  BY <1>0, <1>3, <1>5, <1>6, <1>7, <1>8, Stores
     DEF Fresh, RejectSpoofed, BlockSender, BlockByRule, Quarantine
<1>9. ASSUME NEW w \in Workers, Process(w)
      PROVE  VacancyInv'
  BY <1>2, <1>3, <1>4, <1>8, <1>9 DEF Process
<1>10. ASSUME UNCHANGED vars
       PROVE  VacancyInv'
  BY <1>10
     DEF vars, queueVars, workerVars, tableVars, VacancyInv, Bounded, Busy, Lone,
         VacantThreads, InProgress, Writers, SavedSignal, MailAt, Waiting, Settled,
         Fetched, Untouched, CarriersOf
<1>11. QED
  BY <1>0, <1>1, <1>9, <1>10, Received, Redelivered DEF Next

LEMMA InitVacancy == Init => VacancyInv
<1> SUFFICES ASSUME Init PROVE VacancyInv
  OBVIOUS
<1>0. TypeOK
  BY InitType
<1>1. Busy = {} /\ threads = {} /\ \A w \in Workers : pc[w] # "saveSignal"
  BY DEF Init, Busy
<1>2. Bounded
  BY <1>1, FS_EmptySet DEF Bounded
<1>3. Lone = {} /\ Writers = {}
  BY <1>1 DEF Lone, VacantThreads, Writers
<1>4. Settled = {}
  BY <1>0, <1>1 DEF Settled, Fetched, Untouched, CarriersOf, Init, TypeOK
<1>5. Waiting \subseteq Messages
  BY DEF Waiting
<1>6. /\ Cardinality(Lone) = 0 /\ Cardinality(Writers) = 0 /\ Cardinality(Settled) = 0
      /\ Cardinality(Waiting) \in Nat /\ Cardinality(Waiting) <= Cardinality(Messages)
      /\ Cardinality(Messages) \in Nat
  BY <1>3, <1>4, <1>5, FS_EmptySet, GainsNone, FS_CardinalityType, InboundAssumption
<1>7. faults = 0 /\ duplicates = 0
  BY DEF Init
<1>8. QED
  BY <1>1, <1>2, <1>6, <1>7 DEF VacancyInv

\* Thread rows without a signal are no more than the attempts that were given up
\* or doubled, those still under way, and the messages that repeat a mail.
THEOREM VacantThreadsHaveCauses == Spec => []VacantThreadsNeedFaults
<1>1. SafetyInv => TypeOK
  BY DEF SafetyInv
<1>2. QED
  BY <1>1, Safety, InitVacancy, NextVacancy, VacancyBound, PTL DEF Spec
=============================================================================
