--------------------------- MODULE InboundProofs ---------------------------
(***************************************************************************)
(* Proofs about InboundPipeline, for any mails, messages, workers and      *)
(* clusters, and any number of faults and duplicate deliveries.            *)
(***************************************************************************)
EXTENDS InboundPipeline, TLAPS

-----------------------------------------------------------------------------
(* Type correctness.                                                        *)

\* The signal a worker holds, or builds, is a signal.
LEMMA BuiltSignals ==
  ASSUME nextId \in Nat \ {0}
  PROVE  /\ NoSignal \in Signal
         /\ \A status \in Statuses : Withheld(status) \in Signal
         /\ \A match \in Nat, embedded \in SUBSET Clusters : Threaded(match, embedded) \in Signal
BY DEF NoSignal, Signal, Statuses, Withheld, Threaded

\* A busy worker's message is a message, and its mail is a mail.
LEMMA BusyWorker ==
  ASSUME TypeOK, NEW w \in Workers, pc[w] # "idle"
  PROVE  msg[w] \in Messages /\ MailAt(w) \in Mails
BY InboundAssumption DEF TypeOK, MailAt

\* A worker that stops working leaves the workers' memory well formed.
LEMMA ForgetType ==
  ASSUME TypeOK, NEW w \in Workers, Forget(w)
  PROVE  /\ pc' \in [Workers -> Labels]
         /\ msg' \in [Workers -> Messages \union {NoMessage}]
         /\ retry' \in [Workers -> BOOLEAN]
         /\ sig' \in [Workers -> Signal]
         /\ upserted' \in [Workers -> SUBSET Clusters]
         /\ \A v \in Workers : pc'[v] = "idle" <=> msg'[v] = NoMessage
         /\ \A v \in Workers : msg'[v] # NoMessage => received[msg'[v]]
BY DEF TypeOK, Forget, Goto, Labels, NoSignal, Signal, Statuses

LEMMA ReturnType ==
  ASSUME TypeOK, NEW w \in Workers, pc[w] # "idle", ReturnToQueue(w)
  PROVE  visibility' \in [Messages -> {"visible", "hidden", "deleted"}]
BY DEF TypeOK, ReturnToQueue

LEMMA InitType == Init => TypeOK
BY InboundAssumption
   DEF Init, TypeOK, Labels, NoSignal, Signal, Statuses

LEMMA NextType == TypeOK /\ [Next]_vars => TypeOK'
<1> SUFFICES ASSUME TypeOK, [Next]_vars PROVE TypeOK'
  OBVIOUS
<1> USE InboundAssumption
<1>1. ASSUME NEW w \in Workers, NEW m \in Messages, Receive(w, m)
      PROVE  TypeOK'
  BY <1>1 DEF TypeOK, Receive, Goto, Labels, tableVars
<1>2. ASSUME NEW m \in Messages, Redeliver(m)
      PROVE  TypeOK'
  BY <1>2 DEF TypeOK, Redeliver, workerVars, tableVars
<1>3. ASSUME NEW w \in Workers, Abandon(w)
      PROVE  TypeOK'
  BY <1>3, ForgetType, ReturnType DEF TypeOK, Abandon, tableVars
<1>4. ASSUME NEW w \in Workers, RefuseResume(w)
      PROVE  TypeOK'
  BY <1>4, ForgetType, ReturnType DEF TypeOK, RefuseResume, tableVars
<1>5. ASSUME NEW w \in Workers, Ack(w)
      PROVE  TypeOK'
  BY <1>5, ForgetType DEF TypeOK, Ack, tableVars
<1>6. ASSUME NEW w \in Workers, DedupSkip(w) \/ StartFresh(w) \/ AbsorbBounce(w)
      PROVE  TypeOK'
  <2>1. CASE DedupSkip(w)
    BY <2>1 DEF TypeOK, DedupSkip, Goto, Labels, queueVars, tableVars
  <2>2. CASE StartFresh(w)
    BY <2>2 DEF TypeOK, StartFresh, Goto, Labels, queueVars, tableVars
  <2>3. CASE AbsorbBounce(w)
    BY <2>3 DEF TypeOK, AbsorbBounce, Goto, Labels, queueVars, tableVars
  <2>4. QED
    BY <1>6, <2>1, <2>2, <2>3
<1>7. ASSUME NEW w \in Workers, Resume(w)
      PROVE  TypeOK'
  <2>1. SavedSignal(w) \in Signal
    BY <1>7, BusyWorker DEF TypeOK, Resume, SavedSignal
  <2>2. QED
    BY <1>7, <2>1 DEF TypeOK, Resume, Goto, Labels, queueVars, tableVars
<1>8. ASSUME NEW w \in Workers, NEW status \in Statuses, Withhold(w, status)
      PROVE  TypeOK'
  <2>1. Withheld(status) \in Signal
    BY BuiltSignals DEF TypeOK
  <2>2. QED
    BY <1>8, <2>1 DEF TypeOK, Withhold, Goto, Labels, queueVars, tableVars
<1>9. ASSUME NEW w \in Workers, NEW match \in threads \union {0},
             NEW embedded \in SUBSET Clusters, Admit(w, match, embedded)
      PROVE  TypeOK'
  <2>1. Threaded(match, embedded) \in Signal
    BY BuiltSignals DEF TypeOK
  <2>2. QED
    BY <1>9, <2>1 DEF TypeOK, Admit, Goto, Labels, queueVars, tableVars
<1>10. ASSUME NEW w \in Workers, SaveThread(w)
       PROVE  TypeOK'
  <2>1. sig[w].thread \in Nat
    BY DEF TypeOK, Signal
  <2>2. QED
    BY <1>10, <2>1 DEF TypeOK, SaveThread, Goto, Labels, queueVars
<1>11. ASSUME NEW w \in Workers, SaveSignal(w)
       PROVE  TypeOK'
  <2>1. MailAt(w) \in Mails
    BY <1>11, BusyWorker DEF SaveSignal
  <2>2. signals' \in [Mails -> Signal]
    BY <1>11, <2>1 DEF TypeOK, SaveSignal
  <2>3. QED
    BY <1>11, <2>2 DEF TypeOK, SaveSignal, Goto, Labels, queueVars
<1>12. ASSUME NEW w \in Workers, Count(w)
       PROVE  TypeOK'
  <2>1. msg[w] \in Messages /\ MailAt(w) \in Mails
    BY <1>12, BusyWorker DEF Count
  <2>2. tally' \in [Mails -> Nat] /\ statKeys' \subseteq Messages
    BY <1>12, <2>1 DEF TypeOK, Count
  <2>3. QED
    BY <1>12, <2>2 DEF TypeOK, Count, AfterCount, Goto, Labels, queueVars
<1>13. ASSUME NEW w \in Workers, CountNothing(w)
       PROVE  TypeOK'
  BY <1>13 DEF TypeOK, CountNothing, AfterCount, Goto, Labels, queueVars, tableVars
<1>14. ASSUME NEW w \in Workers, Calendar(w)
       PROVE  TypeOK'
  BY <1>14 DEF TypeOK, Calendar, Goto, Labels, queueVars
<1>15. ASSUME NEW w \in Workers, NEW c \in Clusters, UpsertVector(w, c)
       PROVE  TypeOK'
  <2>1. VectorRow(sig[w]) \in Nat \X Nat
    BY DEF TypeOK, Signal, VectorRow
  <2>2. vectors' \in [Clusters -> SUBSET (Nat \X Nat)]
    BY <1>15, <2>1 DEF TypeOK, UpsertVector
  <2>3. upserted' \in [Workers -> SUBSET Clusters]
    BY <1>15 DEF TypeOK, UpsertVector
  <2>4. QED
    BY <1>15, <2>2, <2>3 DEF TypeOK, UpsertVector, queueVars
<1>16. ASSUME NEW w \in Workers, DispatchSideEffects(w)
       PROVE  TypeOK'
  BY <1>16 DEF TypeOK, DispatchSideEffects, Goto, Labels, queueVars, tableVars
<1>17. ASSUME UNCHANGED vars
       PROVE  TypeOK'
  BY <1>17 DEF TypeOK, vars, queueVars, workerVars, tableVars
<1>18. ASSUME NEW w \in Workers, Fresh(w)
       PROVE  TypeOK'
  <2>1. "blocked" \in Statuses /\ "quarantined" \in Statuses
    BY DEF Statuses
  <2>2. QED
    BY <1>18, <1>6, <1>8, <1>9, <1>10, <1>11, <2>1
       DEF Fresh, RejectSpoofed, BlockSender, BlockByRule, Quarantine
<1>19. ASSUME NEW w \in Workers, Process(w)
       PROVE  TypeOK'
  BY <1>19, <1>4, <1>5, <1>6, <1>7, <1>12, <1>13, <1>14, <1>15, <1>16, <1>18
     DEF Process
<1>20. QED
  BY <1>1, <1>2, <1>3, <1>17, <1>19 DEF Next

\* Every row and every worker's memory is well formed at all times.
THEOREM TypeCorrect == Spec => []TypeOK
BY InitType, NextType, PTL DEF Spec

-----------------------------------------------------------------------------
(* The safety invariant.  The three properties are not inductive: they rest *)
(* on what a worker knows about the tables at each step of the handler.     *)

\* A signal that names a thread is an active one.
Attached(s) == s.thread # 0 => s.status = "active"

\* The order of the steps, as one worker's memory shows it: upserts have been
\* made for the signal it holds, and only while it indexes or after; a signal
\* whose thread is to be saved is active and has one; before the save of the
\* signal its thread has been saved; and only active signals get to the steps that lead to
\* the dispatch.
WorkerInv(w) ==
  /\ pc[w] \notin {"index", "ok"} => upserted[w] = {}
  /\ \A c \in upserted[w] : VectorRow(sig[w]) \in vectors[c]
  /\ Attached(sig[w])
  /\ pc[w] = "saveThread" => sig[w].status = "active" /\ sig[w].thread # 0
  /\ (pc[w] = "saveSignal" /\ sig[w].thread # 0) => sig[w].thread \in threads
  /\ pc[w] \in {"calendar", "index"} => sig[w].status = "active"

TableInv ==
  /\ 0 \notin threads
  /\ \A e \in Mails : Attached(signals[e])
  /\ ThreadBeforeSignal
  /\ AuroraGate
  /\ OnlyActiveDispatched

SafetyInv ==
  /\ TypeOK
  /\ \A w \in Workers : WorkerInv(w)
  /\ TableInv

LEMMA InitSafety == Init => SafetyInv
BY InitType
   DEF Init, SafetyInv, WorkerInv, TableInv, Attached, ThreadBeforeSignal,
       AuroraGate, OnlyActiveDispatched, NoSignal

\* A worker that stops working keeps its invariant, and so do the others as long
\* as the tables are left alone.
LEMMA ForgetSafety ==
  ASSUME SafetyInv, NEW w \in Workers, Forget(w), UNCHANGED <<threads, vectors>>
  PROVE  \A v \in Workers : WorkerInv(v)'
BY DEF SafetyInv, TypeOK, Forget, Goto, NoSignal, WorkerInv, Attached, VectorRow

\* The other workers keep their invariant when a step changes one worker's
\* memory and takes nothing out of the tables.
LEMMA OtherWorkers ==
  ASSUME SafetyInv, NEW w \in Workers,
         \A v \in Workers \ {w} : /\ pc'[v] = pc[v]
                                  /\ sig'[v] = sig[v]
                                  /\ upserted'[v] = upserted[v],
         threads \subseteq threads',
         \A c \in Clusters : vectors[c] \subseteq vectors'[c]
  PROVE  \A v \in Workers \ {w} : WorkerInv(v)'
<1> SUFFICES ASSUME NEW v \in Workers \ {w} PROVE WorkerInv(v)'
  OBVIOUS
<1>1. WorkerInv(v) /\ upserted[v] \subseteq Clusters
  BY DEF SafetyInv, TypeOK
<1>2. QED
  BY <1>1 DEF WorkerInv, Attached, VectorRow

LEMMA SameTables ==
  ASSUME SafetyInv, UNCHANGED <<threads, signals, vectors, dispatched>>
  PROVE  TableInv'
BY DEF SafetyInv, TableInv, Attached, ThreadBeforeSignal, AuroraGate,
       OnlyActiveDispatched, VectorRow

LEMMA NextSafety == SafetyInv /\ [Next]_vars => SafetyInv'
<1> SUFFICES ASSUME SafetyInv, [Next]_vars
             PROVE  (\A v \in Workers : WorkerInv(v)') /\ TableInv'
  BY NextType DEF SafetyInv
<1> USE InboundAssumption
<1>0. TypeOK
  BY DEF SafetyInv
<1>1. ASSUME NEW w \in Workers, NEW m \in Messages, Receive(w, m)
      PROVE  (\A v \in Workers : WorkerInv(v)') /\ TableInv'
  BY <1>1, SameTables
     DEF Receive, Goto, tableVars, SafetyInv, TypeOK, WorkerInv, Attached, VectorRow
<1>2. ASSUME UNCHANGED <<pc, sig, upserted, tableVars, dispatched>>
      PROVE  (\A v \in Workers : WorkerInv(v)') /\ TableInv'
  BY <1>2, SameTables
     DEF tableVars, SafetyInv, WorkerInv, Attached, VectorRow
<1>3. ASSUME NEW w \in Workers, Forget(w), UNCHANGED <<tableVars, dispatched>>
      PROVE  (\A v \in Workers : WorkerInv(v)') /\ TableInv'
  BY <1>3, ForgetSafety, SameTables DEF tableVars
<1>4. ASSUME NEW w \in Workers,
             NEW label \in Labels \ {"saveThread", "saveSignal"},
             pc[w] \notin {"index", "ok"}, Goto(w, label),
             label \in {"calendar", "index"} => sig[w].status = "active",
             UNCHANGED <<sig, upserted, threads, signals, vectors, dispatched>>
      PROVE  (\A v \in Workers : WorkerInv(v)') /\ TableInv'
  BY <1>4, SameTables
     DEF Goto, SafetyInv, TypeOK, WorkerInv, Attached, VectorRow
<1>5. ASSUME NEW w \in Workers, Resume(w)
      PROVE  (\A v \in Workers : WorkerInv(v)') /\ TableInv'
  <2>1. MailAt(w) \in Mails
    BY <1>0, <1>5, BusyWorker DEF Resume
  <2>2. SavedSignal(w).thread \in threads /\ SavedSignal(w).status = "active"
    BY <1>5, <2>1 DEF Resume, CanResume, SavedSignal, SafetyInv, TableInv, Attached
  <2>3. WorkerInv(w)'
    BY <1>5, <2>2 DEF Resume, Goto, tableVars, SafetyInv, TypeOK, WorkerInv, Attached
  <2>4. \A v \in Workers \ {w} : WorkerInv(v)'
    BY <1>5, OtherWorkers DEF Resume, Goto, tableVars, SafetyInv, TypeOK
  <2>5. QED
    BY <1>5, <2>3, <2>4, SameTables DEF Resume, tableVars
<1>6. ASSUME NEW w \in Workers, NEW status \in Statuses, Withhold(w, status)
      PROVE  (\A v \in Workers : WorkerInv(v)') /\ TableInv'
  <2>1. WorkerInv(w)'
    BY <1>6 DEF Withhold, Withheld, Goto, SafetyInv, TypeOK, WorkerInv, Attached, VectorRow
  <2>2. \A v \in Workers \ {w} : WorkerInv(v)'
    BY <1>6, OtherWorkers DEF Withhold, Withheld, Goto, tableVars, SafetyInv, TypeOK
  <2>3. QED
    BY <1>6, <2>1, <2>2, SameTables DEF Withhold, tableVars
<1>7. ASSUME NEW w \in Workers, NEW match \in threads \union {0},
             NEW embedded \in SUBSET Clusters, Admit(w, match, embedded)
      PROVE  (\A v \in Workers : WorkerInv(v)') /\ TableInv'
  <2>1. WorkerInv(w)'
    BY <1>7 DEF Admit, Threaded, Goto, SafetyInv, TypeOK, WorkerInv, Attached, VectorRow
  <2>2. \A v \in Workers \ {w} : WorkerInv(v)'
    BY <1>7, OtherWorkers DEF Admit, Threaded, Goto, tableVars, SafetyInv, TypeOK
  <2>3. QED
    BY <1>7, <2>1, <2>2, SameTables DEF Admit, tableVars
<1>8. ASSUME NEW w \in Workers, SaveThread(w)
      PROVE  (\A v \in Workers : WorkerInv(v)') /\ TableInv'
  <2>1. sig[w].thread # 0
    BY <1>8 DEF SaveThread, SafetyInv, WorkerInv
  <2>2. WorkerInv(w)'
    BY <1>8 DEF SaveThread, Goto, SafetyInv, TypeOK, WorkerInv, Attached, VectorRow
  <2>3. \A v \in Workers \ {w} : WorkerInv(v)'
    BY <1>8, OtherWorkers DEF SaveThread, Goto, SafetyInv, TypeOK
  <2>4. TableInv'
    BY <1>8, <2>1
       DEF SaveThread, SafetyInv, TableInv, Attached, ThreadBeforeSignal,
           AuroraGate, OnlyActiveDispatched, VectorRow
  <2>5. QED
    BY <2>2, <2>3, <2>4
<1>9. ASSUME NEW w \in Workers, SaveSignal(w)
      PROVE  (\A v \in Workers : WorkerInv(v)') /\ TableInv'
  <2>1. MailAt(w) \in Mails
    BY <1>0, <1>9, BusyWorker DEF SaveSignal
  <2>2. Attached(sig[w]) /\ (sig[w].thread # 0 => sig[w].thread \in threads)
    BY <1>9 DEF SaveSignal, SafetyInv, WorkerInv
  <2>3. TableInv'
    BY <1>9, <2>1, <2>2
       DEF SaveSignal, SafetyInv, TypeOK, TableInv, Attached, ThreadBeforeSignal,
           AuroraGate, OnlyActiveDispatched, VectorRow
  <2>4. \A v \in Workers : WorkerInv(v)'
    BY <1>9 DEF SaveSignal, Goto, SafetyInv, TypeOK, WorkerInv, Attached, VectorRow
  <2>5. QED
    BY <2>3, <2>4
<1>10. ASSUME NEW w \in Workers, NEW c \in Clusters, UpsertVector(w, c)
       PROVE  (\A v \in Workers : WorkerInv(v)') /\ TableInv'
  <2>1. \A d \in Clusters : vectors[d] \subseteq vectors'[d]
    BY <1>10 DEF UpsertVector, SafetyInv, TypeOK
  <2>2. WorkerInv(w)'
    BY <1>10 DEF UpsertVector, SafetyInv, TypeOK, WorkerInv, Attached, VectorRow
  <2>3. \A v \in Workers \ {w} : WorkerInv(v)'
    BY <1>10, <2>1, OtherWorkers DEF UpsertVector, SafetyInv, TypeOK
  <2>4. TableInv'
    BY <1>10, <2>1
       DEF UpsertVector, SafetyInv, TypeOK, TableInv, Attached, ThreadBeforeSignal,
           AuroraGate, OnlyActiveDispatched, VectorRow, Signal
  <2>5. QED
    BY <2>2, <2>3, <2>4
<1>11. ASSUME NEW w \in Workers, DispatchSideEffects(w)
       PROVE  (\A v \in Workers : WorkerInv(v)') /\ TableInv'
  <2>1. sig[w].status = "active"
    BY <1>11 DEF DispatchSideEffects, SafetyInv, WorkerInv
  <2>2. \A c \in sig[w].embedded : VectorRow(sig[w]) \in vectors[c]
    BY <1>11 DEF DispatchSideEffects, AllUpserted, SafetyInv, WorkerInv
  <2>3. TableInv'
    BY <1>11, <2>1, <2>2
       DEF DispatchSideEffects, tableVars, SafetyInv, TableInv, Attached,
           ThreadBeforeSignal, AuroraGate, OnlyActiveDispatched, VectorRow
  <2>4. \A v \in Workers : WorkerInv(v)'
    BY <1>11
       DEF DispatchSideEffects, Goto, tableVars, SafetyInv, TypeOK, WorkerInv,
           Attached, VectorRow
  <2>5. QED
    BY <2>3, <2>4
<1>12. ASSUME NEW w \in Workers, Process(w)
       PROVE  (\A v \in Workers : WorkerInv(v)') /\ TableInv'
  <2>1. CASE DedupSkip(w) \/ StartFresh(w) \/ AbsorbBounce(w)
    BY <2>1, <1>4 DEF DedupSkip, StartFresh, AbsorbBounce, Labels, tableVars
  <2>2. CASE Count(w) \/ CountNothing(w)
    BY <2>2, <1>4 DEF Count, CountNothing, AfterCount, Labels, tableVars
  <2>3. CASE Calendar(w)
    <3>1. sig[w].status = "active"
      BY <2>3 DEF Calendar, SafetyInv, WorkerInv
    <3>2. QED
      BY <2>3, <3>1, <1>4 DEF Calendar, Labels
  <2>4. CASE RefuseResume(w) \/ Ack(w)
    BY <2>4, <1>3 DEF RefuseResume, Ack
  <2>5. CASE Fresh(w) /\ ~AbsorbBounce(w)
    <3>1. "blocked" \in Statuses /\ "quarantined" \in Statuses
      BY DEF Statuses
    <3>2. QED
      BY <2>5, <3>1, <1>6, <1>7, <1>8, <1>9
         DEF Fresh, RejectSpoofed, BlockSender, BlockByRule, Quarantine
  <2>6. QED
    BY <1>12, <1>5, <1>10, <1>11, <2>1, <2>2, <2>3, <2>4, <2>5 DEF Process
<1>13. QED
  <2>1. CASE \E m \in Messages : Redeliver(m)
    BY <2>1, <1>2 DEF Redeliver, workerVars
  <2>2. CASE \E w \in Workers : Abandon(w)
    BY <2>2, <1>3 DEF Abandon
  <2>3. CASE UNCHANGED vars
    BY <2>3, <1>2 DEF vars, workerVars
  <2>4. QED
    BY <1>1, <1>12, <2>1, <2>2, <2>3 DEF Next

LEMMA Safety == Spec => []SafetyInv
BY InitSafety, NextSafety, PTL DEF Spec

\* However attempts fail, resume and overlap, a saved signal's thread exists.
THEOREM ThreadAlwaysFirst == Spec => []ThreadBeforeSignal
<1>1. SafetyInv => ThreadBeforeSignal
  BY DEF SafetyInv, TableInv
<1>2. QED
  BY <1>1, Safety, PTL

\* However attempts fail, resume and overlap, side effects are dispatched for
\* active signals only, each with its row in every cluster it has a vector for.
THEOREM DispatchIsGated == Spec => [](AuroraGate /\ OnlyActiveDispatched)
<1>1. SafetyInv => AuroraGate /\ OnlyActiveDispatched
  BY DEF SafetyInv, TableInv
<1>2. QED
  BY <1>1, Safety, PTL
=============================================================================
