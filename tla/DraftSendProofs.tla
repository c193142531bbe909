-------------------------- MODULE DraftSendProofs --------------------------
(***************************************************************************)
(* Proofs about DraftSend, for any number of requests, workers, sends,     *)
(* edits, bounces, faults and duplicate deliveries.                        *)
(***************************************************************************)
EXTENDS DraftSend, FiniteSetTheorems, TLAPS

-----------------------------------------------------------------------------
(* The inductive invariant.                                                 *)

\* A send request that has not armed its send holds a token nobody else has, of
\* a send that has never been in the table.
RequestInv ==
  /\ \A r \in Requests :
       request[r].pc \in {"dispatch", "arm"} =>
         request[r].token \in 1..sends /\ fate[request[r].token] = "new"
  /\ \A r, q \in Requests :
       (/\ r # q
        /\ request[r].pc \in {"dispatch", "arm"}
        /\ request[q].pc \in {"dispatch", "arm"})
       => request[r].token # request[q].token

\* Only an armed send is live; the sends still to be requested are new.
FateInv ==
  /\ \A t \in Tokens : Live(t) => fate[t] = "armed"
  /\ \A t \in Tokens : t > sends => fate[t] = "new"

SafetyInv == TypeOK /\ RequestInv /\ FateInv

LEMMA InitSafety == Init => SafetyInv
<1> SUFFICES ASSUME Init PROVE SafetyInv
  OBVIOUS
<1> USE DraftSendAssumption
<1>1. TypeOK
  BY DEF Init, TypeOK, Row, Statuses, Draft, Pending, Idle, At, RequestSteps,
         WorkerSteps, Tokens
<1>2. RequestInv
  BY DEF Init, RequestInv, Idle, At
<1>3. FateInv
  BY DEF Init, FateInv, Live, Draft, Pending, Idle, At, Tokens
<1>4. QED
  BY <1>1, <1>2, <1>3 DEF SafetyInv

-----------------------------------------------------------------------------
(* Type correctness of a step.                                              *)

LEMMA TrackType ==
  ASSUME TypeOK, Track
  PROVE  fate' \in [Tokens -> {"new", "armed", "withdrawn"}]
BY DEF TypeOK, Track

LEMMA ApiType ==
  ASSUME SafetyInv, NEW r \in Requests, Api(r), Track
  PROVE  TypeOK'
<1> USE DraftSendAssumption DEF SafetyInv
<1>0. fate' \in [Tokens -> {"new", "armed", "withdrawn"}]
  BY TrackType
<1>1. CASE BeginSend(r)
  BY <1>0, <1>1 DEF TypeOK, BeginSend, Begin, At, RequestSteps, Tokens,
                    dataVars, sqsVars, mailVars
<1>2. CASE Dispatch(r) \/ AutoDispatch(r)
  BY SMTT(30), <1>0, <1>2 DEF TypeOK, Dispatch, AutoDispatch, Finish, Idle, At,
                    RequestSteps, dataVars, mailVars
<1>3. CASE Arm(r)
  <2>1. request[r].token \in Tokens
    BY <1>3 DEF Arm, RequestInv, TypeOK, Tokens
  <2>2. row' \in Row /\ row'.status = "pending_send" /\ row'.token \in Tokens
    BY <1>3, <2>1 DEF Arm, Update, Pending, TypeOK, Row, Statuses, Tokens
  <2>3. QED
    BY <1>0, <1>3, <2>2 DEF TypeOK, Arm, Finish, Idle, RequestSteps, sqsVars, mailVars
<1>4. CASE BeginEdit(r) \/ BeginTouch(r) \/ BeginUndo(r) \/ BeginDelete(r)
  BY <1>0, <1>4 DEF TypeOK, BeginEdit, BeginTouch, BeginUndo, BeginDelete, Begin, At,
                    RequestSteps, dataVars, sqsVars, mailVars
<1>5. CASE Edit(r)
  <2>1. edits + 1 \in 0..MaxEdits
    BY <1>5 DEF Edit, TypeOK
  <2>2. /\ row' \in Row
        /\ row'.status = row.status
        /\ row'.token = row.token
    BY <1>5, <2>1 DEF Edit, Update, TypeOK, Row
  <2>3. QED
    BY <1>0, <1>5, <2>1, <2>2
       DEF TypeOK, Edit, Finish, Idle, RequestSteps, sqsVars, mailVars
<1>6. CASE Undo(r)
  <2>1. row' \in Row /\ row'.status = "draft" /\ row'.token = 0
    BY <1>6 DEF Undo, Update, TypeOK, Row, Statuses
  <2>2. QED
    BY <1>0, <1>6, <2>1
       DEF TypeOK, Undo, Finish, Idle, RequestSteps, sqsVars, mailVars
<1>7. CASE Delete(r)
  BY <1>0, <1>7 DEF TypeOK, Delete, Finish, Idle, NoRow, Row, Statuses,
                    RequestSteps, sqsVars, mailVars
<1>8. CASE Drop(r)
  BY <1>0, <1>8 DEF TypeOK, Drop, Finish, Idle, RequestSteps, dataVars,
                    sqsVars, mailVars
<1>9. CASE Touch(r)
  <2>1. row' \in Row /\ (row' = row \/ row' = Ghost)
    BY <1>9 DEF Touch, TypeOK, Ghost, Row, Statuses
  <2>2. QED
    BY <1>0, <1>9, <2>1 DEF TypeOK, Touch, Finish, Idle, Ghost, RequestSteps,
                            sqsVars, mailVars
<1>10. QED
  BY <1>1, <1>2, <1>3, <1>4, <1>5, <1>6, <1>7, <1>8, <1>9 DEF Api

LEMMA WorkType ==
  ASSUME TypeOK, NEW w \in Workers, Work(w) \/ Abandon(w), Track
  PROVE  TypeOK'
<1>0. fate' \in [Tokens -> {"new", "armed", "withdrawn"}]
  BY TrackType
<1>1. CASE Check(w) \/ Reject(w)
  BY <1>0, <1>1 DEF TypeOK, Check, Reject, WorkerGoto, At, WorkerSteps, dataVars,
                    apiVars, sqsVars, mailVars
<1>2. CASE Send(w)
  <2> DEFINE u == worker[w].token
  <2>1. mails' = [mails EXCEPT ![u] = mails[u] + 1]
    BY <1>2 DEF Send
  <2>2. \A t \in Tokens : mails[t] + 1 \in Nat
    BY DEF TypeOK
  <2>3. mails' \in [Tokens -> Nat]
    BY <2>1, <2>2 DEF TypeOK
  <2>4. QED
    BY <1>0, <1>2, <2>3 DEF TypeOK, Send, WorkerGoto, At, WorkerSteps,
                            dataVars, apiVars, sqsVars
<1>3. CASE Park(w)
  <2>1. row' \in Row /\ row'.status = "draft" /\ row'.token = 0
    BY <1>3 DEF Park, Update, TypeOK, Row, Statuses
  <2>2. QED
    BY <1>0, <1>3, <2>1 DEF TypeOK, Park, WorkerGoto, At, WorkerSteps,
                            apiVars, sqsVars, mailVars
<1>4. CASE MarkSent(w)
  <2>1. row' \in Row /\ row'.status = "sent"
    BY <1>4 DEF MarkSent, Update, TypeOK, Row, Statuses
  <2>2. QED
    BY <1>0, <1>4, <2>1 DEF TypeOK, MarkSent, WorkerGoto, At, WorkerSteps,
                            apiVars, sqsVars, mailVars
<1>5. CASE UpdateRefused(w)
  BY <1>0, <1>5 DEF TypeOK, UpdateRefused, ReturnToQueue, Release, Idle,
                    WorkerSteps, dataVars, apiVars, mailVars
<1>6. CASE Ack(w)
  BY <1>0, <1>6 DEF TypeOK, Ack, Release, Idle, WorkerSteps, dataVars,
                    apiVars, mailVars
<1>7. CASE Abandon(w)
  <2>1. faults' \in Nat /\ lost' \in Nat
    BY <1>7 DEF Abandon, TypeOK
  <2>2. QED
    BY <1>0, <1>7, <2>1 DEF TypeOK, Abandon, ReturnToQueue, Release, Idle,
                            WorkerSteps, dataVars, apiVars, mailVars
<1>8. QED
  BY <1>1, <1>2, <1>3, <1>4, <1>5, <1>6, <1>7 DEF Work

LEMMA EnvironmentType ==
  ASSUME TypeOK, Track,
         \/ \E t \in Tokens : \/ DelayElapses(t) \/ Redeliver(t) \/ Reappear(t)
                              \/ Bounce(t) \/ Age(t)
         \/ \E w \in Workers, t \in Tokens : Receive(w, t)
         \/ Replicate
  PROVE  TypeOK'
<1>0. fate' \in [Tokens -> {"new", "armed", "withdrawn"}]
  BY TrackType
<1>1. ASSUME NEW t \in Tokens, DelayElapses(t) \/ Redeliver(t) \/ Reappear(t)
      PROVE  TypeOK'
  BY <1>0, <1>1 DEF TypeOK, DelayElapses, Redeliver, Reappear, dataVars,
                    apiVars, mailVars
<1>2. ASSUME NEW t \in Tokens, Bounce(t)
      PROVE  TypeOK'
  <2>1. row' \in Row /\ row'.status = "draft" /\ row'.token = 0
    BY <1>2 DEF Bounce, Update, TypeOK, Row, Statuses
  <2>2. bounces' \in 0..MaxBounces
    BY <1>2, DraftSendAssumption DEF TypeOK, Bounce
  <2>3. QED
    BY <1>0, <1>2, <2>1, <2>2 DEF TypeOK, Bounce, apiVars, sqsVars
<1>3. ASSUME NEW t \in Tokens, Age(t)
      PROVE  TypeOK'
  BY <1>0, <1>3 DEF TypeOK, Age, dataVars, apiVars, sqsVars, mailVars
<1>4. ASSUME NEW w \in Workers, NEW t \in Tokens, Receive(w, t)
      PROVE  TypeOK'
  BY <1>0, <1>4 DEF TypeOK, Receive, At, WorkerSteps, dataVars, apiVars, mailVars
<1>5. CASE Replicate
  BY <1>0, <1>5 DEF TypeOK, Replicate, Indexed, NoRow, Row, Statuses, apiVars,
                    sqsVars, mailVars
<1>6. QED
  BY <1>1, <1>2, <1>3, <1>4, <1>5

LEMMA NextType == SafetyInv /\ [Next]_vars => TypeOK'
<1> SUFFICES ASSUME SafetyInv, [Next]_vars PROVE TypeOK'
  OBVIOUS
<1>1. CASE UNCHANGED vars
  BY <1>1 DEF SafetyInv, TypeOK, vars, dataVars, apiVars, sqsVars, mailVars
<1>2. CASE Next
  BY <1>2, ApiType, WorkType, EnvironmentType DEF SafetyInv, Next, Step
<1>3. QED
  BY <1>1, <1>2

-----------------------------------------------------------------------------
(* The life of a send: new, armed, withdrawn, and never back.               *)

\* The table names a new token only through the write that arms it.
LEMMA RowTokens ==
  ASSUME SafetyInv, Next
  PROVE  \A t \in Tokens : row'.token = t =>
           \/ row.token = t
           \/ \E r \in Requests : Arm(r) /\ request[r].token = t
<1> SUFFICES ASSUME NEW t \in Tokens, row'.token = t, row.token # t
             PROVE  \E r \in Requests : Arm(r) /\ request[r].token = t
  OBVIOUS
<1>0. t # 0
  BY DEF Tokens
<1>a. row \in Row
  BY DEF SafetyInv, TypeOK
<1>1. ASSUME NEW r \in Requests, Api(r)
      PROVE  Arm(r) /\ request[r].token = t
  <2>1. CASE \/ BeginSend(r) \/ BeginEdit(r) \/ BeginTouch(r) \/ BeginUndo(r)
             \/ BeginDelete(r) \/ Dispatch(r) \/ AutoDispatch(r) \/ Drop(r)
    BY <2>1 DEF BeginSend, BeginEdit, BeginTouch, BeginUndo, BeginDelete, Begin, Dispatch,
                AutoDispatch, Drop, dataVars
  <2>2. CASE Arm(r)
    BY <2>2 DEF Arm, Update, Pending
  <2>3. CASE Edit(r) \/ Touch(r) \/ Undo(r) \/ Delete(r)
    <3>1. CASE Edit(r)
      BY <1>a, <3>1 DEF Edit, Update, Row
    <3>2. CASE Undo(r)
      BY <1>0, <1>a, <3>2 DEF Undo, Update, Row
    <3>3. CASE Delete(r)
      BY <1>0, <3>3 DEF Delete, NoRow
    <3>4. CASE Touch(r)
      BY <1>0, <3>4 DEF Touch, Ghost
    <3>5. QED
      BY <2>3, <3>1, <3>2, <3>3, <3>4
  <2>4. QED
    BY <1>1, <2>1, <2>2, <2>3 DEF Api
<1>2. ASSUME NEW w \in Workers, Work(w) \/ Abandon(w)
      PROVE  FALSE
  <2>1. CASE Park(w) \/ MarkSent(w)
    BY <1>0, <1>a, <2>1 DEF Park, MarkSent, Update, Row
  <2>2. CASE \/ Check(w) \/ Send(w) \/ Reject(w) \/ UpdateRefused(w) \/ Ack(w)
             \/ Abandon(w)
    BY <2>2 DEF Check, Send, Reject, UpdateRefused, Ack, Abandon, dataVars
  <2>3. QED
    BY <1>2, <2>1, <2>2 DEF Work
<1>3. ASSUME NEW u \in Tokens,
             \/ DelayElapses(u) \/ Redeliver(u) \/ Reappear(u)
             \/ Bounce(u) \/ Age(u)
      PROVE  FALSE
  <2>1. CASE Bounce(u)
    BY <1>0, <1>a, <2>1 DEF Bounce, Update, Row
  <2>2. CASE DelayElapses(u) \/ Redeliver(u) \/ Reappear(u) \/ Age(u)
    BY <2>2 DEF DelayElapses, Redeliver, Reappear, Age, dataVars
  <2>3. QED
    BY <1>3, <2>1, <2>2
<1>4. ASSUME NEW w \in Workers, NEW u \in Tokens, Receive(w, u)
      PROVE  FALSE
  BY <1>4 DEF Receive, dataVars
<1>5. ~Replicate
  BY DEF Replicate
<1>6. QED
  BY <1>1, <1>2, <1>3, <1>4, <1>5 DEF Next, Step

\* The GSI names only what it or the table named before.
LEMMA IndexTokens ==
  ASSUME Next
  PROVE  index' \in {index, row, NoRow}
BY DEF Next, Step, Api, BeginSend, BeginEdit, BeginTouch, BeginUndo, BeginDelete, Begin,
       Dispatch, AutoDispatch, Arm, Edit, Touch, Undo, Delete, Drop, Work, Check, Send,
       Reject, Park, MarkSent, UpdateRefused, Ack, Abandon, DelayElapses, Redeliver,
       Reappear, Bounce, Age, Receive, Replicate, Indexed, dataVars

\* A worker gets to the call of SES only by checking the send in the GSI.
LEMMA CheckedSends ==
  ASSUME SafetyInv, Next
  PROVE  \A w \in Workers, t \in Tokens :
           worker'[w] = At("send", t) => worker[w] = At("send", t) \/ index.token = t
<1> SUFFICES ASSUME NEW v \in Workers, NEW t \in Tokens,
                    worker'[v] = At("send", t), index.token # t
             PROVE  worker[v] = At("send", t)
  OBVIOUS
<1>0. worker \in [Workers -> [pc : WorkerSteps, token : Tokens \union {0}]]
  BY DEF SafetyInv, TypeOK
<1>1. CASE UNCHANGED worker
  BY <1>1
<1>2. ASSUME NEW w \in Workers, Check(w)
      PROVE  worker[v] = At("send", t)
  BY <1>0, <1>2 DEF Check, WorkerGoto, StillPending, At
<1>3. ASSUME NEW w \in Workers, Send(w) \/ Reject(w) \/ Park(w) \/ MarkSent(w)
      PROVE  worker[v] = At("send", t)
  BY <1>0, <1>3 DEF Send, Reject, Park, MarkSent, WorkerGoto, At
<1>4. ASSUME NEW w \in Workers, UpdateRefused(w) \/ Ack(w) \/ Abandon(w)
      PROVE  worker[v] = At("send", t)
  BY <1>0, <1>4 DEF UpdateRefused, Ack, Abandon, Release, Idle, At
<1>5. ASSUME NEW w \in Workers, NEW u \in Tokens, Receive(w, u)
      PROVE  worker[v] = At("send", t)
  BY <1>0, <1>5 DEF Receive, At
<1>6. QED
  <2>1. CASE \E r \in Requests : Api(r)
    BY <2>1, <1>1 DEF Api, BeginSend, BeginEdit, BeginTouch, BeginUndo, BeginDelete, Begin,
                      Dispatch, AutoDispatch, Arm, Edit, Touch, Undo, Delete, Drop
  <2>2. CASE \E u \in Tokens : \/ DelayElapses(u) \/ Redeliver(u) \/ Reappear(u)
                               \/ Bounce(u) \/ Age(u)
    BY <2>2, <1>1 DEF DelayElapses, Redeliver, Reappear, Bounce, Age
  <2>3. CASE Replicate
    BY <2>3, <1>1 DEF Replicate
  <2>4. QED
    BY <1>2, <1>3, <1>4, <1>5, <2>1, <2>2, <2>3 DEF Next, Step, Work

\* A request that is about to dispatch or to arm took its token just now, and it
\* is the next one, or held it before.
LEMMA RequestTokens ==
  ASSUME SafetyInv, Next
  PROVE  \A r \in Requests :
           request'[r].pc \in {"dispatch", "arm"} =>
             \/ /\ request[r].pc \in {"dispatch", "arm"}
                /\ ~Arm(r)
                /\ request'[r].token = request[r].token
             \/ BeginSend(r) /\ request'[r].token = sends + 1
<1> SUFFICES ASSUME NEW r \in Requests, request'[r].pc \in {"dispatch", "arm"}
             PROVE  \/ /\ request[r].pc \in {"dispatch", "arm"}
                       /\ ~Arm(r)
                       /\ request'[r].token = request[r].token
                    \/ BeginSend(r) /\ request'[r].token = sends + 1
  OBVIOUS
<1>0. request \in [Requests -> [pc : RequestSteps, token : Tokens \union {0}]]
  BY DEF SafetyInv, TypeOK
<1>1. ~Arm(r)
  BY <1>0 DEF Arm, Finish, Idle
<1>2. CASE UNCHANGED request
  BY <1>1, <1>2
<1>3. ASSUME NEW q \in Requests, BeginSend(q)
      PROVE  \/ request'[r] = request[r]
             \/ BeginSend(r) /\ request'[r].token = sends + 1
  BY <1>0, <1>3 DEF BeginSend, Begin, At
<1>4. ASSUME NEW q \in Requests, Dispatch(q)
      PROVE  /\ request[r].pc \in {"dispatch", "arm"}
             /\ request'[r].token = request[r].token
  BY <1>0, <1>4 DEF Dispatch, At
<1>5. ASSUME NEW q \in Requests,
             BeginEdit(q) \/ BeginTouch(q) \/ BeginUndo(q) \/ BeginDelete(q)
      PROVE  request'[r] = request[r]
  BY <1>0, <1>5 DEF BeginEdit, BeginTouch, BeginUndo, BeginDelete, Begin, At
<1>6. ASSUME NEW q \in Requests,
             \/ Arm(q) \/ AutoDispatch(q) \/ Edit(q) \/ Touch(q)
             \/ Undo(q) \/ Delete(q) \/ Drop(q)
      PROVE  request'[r] = request[r]
  BY <1>0, <1>6 DEF Arm, AutoDispatch, Edit, Touch, Undo, Delete, Drop, Finish, Idle
<1>7. CASE \E q \in Requests : Api(q)
  BY <1>1, <1>3, <1>4, <1>5, <1>6, <1>7 DEF Api
<1>8. CASE ~ \E q \in Requests : Api(q)
  BY <1>2, <1>8
     DEF Next, Step, Work, Check, Send, Reject, Park, MarkSent, UpdateRefused, Ack, Abandon,
         DelayElapses, Redeliver, Reappear, Bounce, Age, Receive, Replicate, apiVars
<1>9. QED
  BY <1>7, <1>8

LEMMA SendsGrow ==
  ASSUME Next
  PROVE  \/ sends' = sends /\ \A r \in Requests : ~BeginSend(r)
         \/ sends' = sends + 1 /\ \E r \in Requests : BeginSend(r)
<1>1. CASE \E r \in Requests : BeginSend(r)
  BY <1>1 DEF BeginSend
<1>2. CASE \A r \in Requests : ~BeginSend(r)
  BY <1>2
     DEF Next, Step, Api, BeginEdit, BeginTouch, BeginUndo, BeginDelete, Begin, Dispatch,
         AutoDispatch, Arm, Edit, Touch, Undo, Delete, Drop, Work, Check, Send, Reject, Park,
         MarkSent, UpdateRefused, Ack, Abandon, DelayElapses, Redeliver, Reappear,
         Bounce, Age, Receive, Replicate, apiVars
<1>3. QED
  BY <1>1, <1>2

LEMMA OneBeginSend ==
  ASSUME SafetyInv, NEW r \in Requests, NEW q \in Requests, r # q, BeginSend(r)
  PROVE  ~BeginSend(q)
BY DEF BeginSend, Begin, SafetyInv, TypeOK, At, Idle, RequestSteps

LEMMA NextSafety == SafetyInv /\ [Next]_vars => SafetyInv'
<1> SUFFICES ASSUME SafetyInv, [Next]_vars PROVE SafetyInv'
  OBVIOUS
<1> USE DraftSendAssumption
<1>1. TypeOK'
  BY NextType
<1>2. CASE UNCHANGED vars
  BY <1>1, <1>2
     DEF SafetyInv, RequestInv, FateInv, Live, vars, dataVars, apiVars
<1>3. CASE Next
  <2>0. TypeOK /\ sends \in Nat /\ MaxSends \in Nat /\ sends' \in Nat
    BY <1>1 DEF SafetyInv, TypeOK
  <2>1. \A t \in Tokens :
          fate'[t] = CASE fate[t] = "new" /\ row'.token = t -> "armed"
                       [] fate[t] = "armed" /\ ~Live(t)'    -> "withdrawn"
                       [] OTHER                             -> fate[t]
    BY <1>3 DEF Next, Track
  <2>2. ASSUME NEW t \in Tokens, row'.token = t, fate[t] # "armed"
        PROVE  \E r \in Requests :
                 Arm(r) /\ request[r].token = t /\ fate[t] = "new"
    <3>1. row.token # t
      BY <2>2 DEF SafetyInv, FateInv, Live
    <3>2. PICK r \in Requests : Arm(r) /\ request[r].token = t
      BY <1>3, <2>2, <3>1, RowTokens
    <3>3. QED
      BY <3>2 DEF Arm, SafetyInv, RequestInv
  <2>3. ASSUME NEW t \in Tokens, Live(t)', fate[t] # "armed"
        PROVE  fate[t] = "new" /\ row'.token = t
    <3>1. ~Live(t)
      BY <2>3 DEF SafetyInv, FateInv
    <3>2. index'.token # t
      BY <1>3, <3>1, IndexTokens DEF Live, NoRow, Tokens
    <3>3. \A w \in Workers : worker'[w] # At("send", t)
      BY <1>3, <3>1, CheckedSends DEF Live
    <3>4. row'.token = t
      BY <2>3, <3>2, <3>3 DEF Live, At
    <3>5. QED
      BY <2>2, <2>3, <3>4
  <2>4. \A t \in Tokens : Live(t)' => fate'[t] = "armed"
    BY <2>1, <2>3
  <2>5. \A t \in Tokens : t > sends' => fate'[t] = "new"
    <3> SUFFICES ASSUME NEW t \in Tokens, t > sends' PROVE fate'[t] = "new"
      OBVIOUS
    <3>1. t > sends
      BY <1>3, <2>0, SendsGrow DEF Tokens
    <3>2. fate[t] = "new"
      BY <3>1 DEF SafetyInv, FateInv
    <3>3. row'.token # t
      <4> SUFFICES ASSUME row'.token = t PROVE FALSE
        OBVIOUS
      <4>1. PICK r \in Requests : Arm(r) /\ request[r].token = t
        BY <2>2, <3>2
      <4>2. t \in 1..sends
        BY <4>1 DEF Arm, SafetyInv, RequestInv
      <4>3. QED
        BY <2>0, <3>1, <4>2 DEF Tokens
    <3>4. QED
      BY <2>1, <3>2, <3>3
  <2>6. ASSUME NEW r \in Requests, request'[r].pc \in {"dispatch", "arm"}
        PROVE  request'[r].token \in 1..sends' /\ fate'[request'[r].token] = "new"
    <3>1. CASE /\ request[r].pc \in {"dispatch", "arm"}
               /\ ~Arm(r)
               /\ request'[r].token = request[r].token
      <4> DEFINE t == request[r].token
      <4>1. t \in 1..sends /\ t \in Tokens /\ fate[t] = "new"
        BY <2>0, <3>1 DEF SafetyInv, RequestInv, TypeOK, Tokens
      <4>2. row'.token # t
        <5> SUFFICES ASSUME row'.token = t PROVE FALSE
          OBVIOUS
        <5>1. PICK q \in Requests : Arm(q) /\ request[q].token = t
          BY <2>2, <4>1
        <5>2. q # r
          BY <3>1, <5>1
        <5>3. QED
          BY <3>1, <5>1, <5>2 DEF Arm, SafetyInv, RequestInv
      <4>3. fate'[t] = "new"
        BY <2>1, <4>1, <4>2
      <4>4. t \in 1..sends'
        BY <1>3, <2>0, <4>1, SendsGrow
      <4>5. QED
        BY <3>1, <4>3, <4>4
    <3>2. CASE BeginSend(r) /\ request'[r].token = sends + 1
      <4>1. sends' = sends + 1 /\ sends + 1 \in Tokens
        BY <2>0, <3>2 DEF BeginSend, Tokens
      <4>2. fate[sends + 1] = "new"
        BY <2>0, <4>1 DEF SafetyInv, FateInv
      <4>3. row' = row
        BY <3>2 DEF BeginSend, Begin, dataVars
      <4>4. row'.token # sends + 1
        BY <4>1, <4>2, <4>3 DEF SafetyInv, FateInv, Live
      <4>5. fate'[sends + 1] = "new"
        BY <2>1, <4>1, <4>2, <4>4
      <4>6. QED
        BY <2>0, <3>2, <4>1, <4>5
    <3>3. QED
      BY <1>3, <2>6, <3>1, <3>2, RequestTokens
  <2>7. ASSUME NEW r \in Requests, NEW q \in Requests, r # q,
               request'[r].pc \in {"dispatch", "arm"},
               request'[q].pc \in {"dispatch", "arm"}
        PROVE  request'[r].token # request'[q].token
    <3>1. \A p \in Requests : request[p].pc \in {"dispatch", "arm"} =>
            request[p].token \in 1..sends
      BY DEF SafetyInv, RequestInv
    <3>2. ~(BeginSend(r) /\ BeginSend(q))
      BY <2>7, OneBeginSend
    <3>3. CASE BeginSend(r) /\ request'[r].token = sends + 1
      BY <1>3, <2>0, <2>7, <3>1, <3>2, <3>3, RequestTokens
    <3>4. CASE BeginSend(q) /\ request'[q].token = sends + 1
      BY <1>3, <2>0, <2>7, <3>1, <3>2, <3>4, RequestTokens
    <3>5. QED
      BY <1>3, <2>7, <3>3, <3>4, RequestTokens DEF SafetyInv, RequestInv
  <2>8. QED
    BY <1>1, <2>4, <2>5, <2>6, <2>7 DEF SafetyInv, RequestInv, FateInv
<1>4. QED
  BY <1>2, <1>3

LEMMA Safety == Spec => []SafetyInv
BY InitSafety, NextSafety, PTL DEF Spec

\* Rows, requests and workers are well formed at all times; a draft carries no
\* token and a pending row carries one.
THEOREM TypeCorrect == Spec => []TypeOK
<1>1. SafetyInv => TypeOK
  BY DEF SafetyInv
<1>2. QED
  BY <1>1, Safety, PTL

-----------------------------------------------------------------------------
(* Action properties.                                                       *)

LEMMA MailStep ==
  ASSUME SafetyInv, [Next]_vars, NEW t \in Tokens, mails'[t] # mails[t]
  PROVE  fate[t] = "armed"
<1>1. PICK w \in Workers : Send(w)
  BY DEF Next, Step, Api, BeginSend, BeginEdit, BeginTouch, BeginUndo, BeginDelete, Begin,
         Dispatch, AutoDispatch, Arm, Edit, Touch, Undo, Delete, Drop, Work, Check, Reject, Park,
         MarkSent, UpdateRefused, Ack, Abandon, DelayElapses, Redeliver, Reappear,
         Bounce, Age, Receive, Replicate, vars, mailVars
<1>2. worker[w] \in [pc : WorkerSteps, token : Tokens \union {0}]
      /\ mails \in [Tokens -> Nat]
  BY DEF SafetyInv, TypeOK
<1>3. worker[w].token = t
  BY <1>1, <1>2 DEF Send
<1>4. worker[w] = At("send", t)
  BY <1>1, <1>2, <1>3 DEF Send, At
<1>5. QED
  BY <1>4 DEF SafetyInv, FateInv, Live

\* SES is called only for a send that was armed and not withdrawn since: an undo
\* that has left the table and the GSI before the worker looked is final.
THEOREM OnlyArmedSends == Spec => OnlyArmedSendsMail
<1>1. SafetyInv /\ [Next]_vars =>
        [\A t \in Tokens : mails'[t] # mails[t] => fate[t] = "armed"]_vars
  BY MailStep
<1>2. QED
  BY <1>1, Safety, PTL DEF Spec, OnlyArmedSendsMail

LEMMA RowStep ==
  ASSUME [Next]_vars, Exists(row')
  PROVE  Exists(row)
<1>1. CASE UNCHANGED row
  BY <1>1
<1>2. CASE \E new : Update(new)
  BY <1>2 DEF Update
<1>3. CASE row' \in {NoRow, Ghost}
  BY <1>3 DEF Exists, NoRow, Ghost
<1>4. UNCHANGED row \/ (\E new : Update(new)) \/ row' \in {NoRow, Ghost}
  BY DEF Next, Step, Api, BeginSend, BeginEdit, BeginTouch, BeginUndo, BeginDelete, Begin,
         Dispatch, AutoDispatch, Arm, Edit, Touch, Undo, Delete, Drop, Work, Check, Send,
         Reject, Park, MarkSent, UpdateRefused, Ack, Abandon, DelayElapses, Redeliver,
         Reappear, Bounce, Age, Receive, Replicate, vars, dataVars
<1>5. QED
  BY <1>1, <1>2, <1>3, <1>4

\* No late update of a request, a worker or a bounce brings a deleted draft back.
THEOREM NoResurrection == Spec => DeletedStaysDeleted
<1>1. [Next]_vars => [Exists(row') => Exists(row)]_vars
  BY RowStep
<1>2. QED
  BY <1>1, PTL DEF Spec, DeletedStaysDeleted

-----------------------------------------------------------------------------
(* How often a send mails.  A delivery of its message is worth one mail    *)
(* while it waits, and while a worker has it and may still call SES or     *)
(* give the message back.  Nobody mails a send that has left the table and *)
(* the GSI: it is never pending again.                                     *)

PendingFor(r, t) == r.status = "pending_send" /\ r.token = t
Over(t) == fate[t] # "new" /\ ~PendingFor(row, t)
Dead(t) == Over(t) /\ ~PendingFor(index, t)

Carries(w, t) ==
  /\ worker[w].token = t
  /\ \/ worker[w].pc = "read" /\ ~Dead(t)
     \/ worker[w].pc = "send"
     \/ worker[w].pc = "done" /\ ~Over(t)
Carriers(t) == {w \in Workers : Carries(w, t)}

Credit(w, t) == IF Carries(w, t) THEN 1 ELSE 0
Waiting(t) ==
  IF \/ queue[t] \in {"none", "delayed", "returned"} /\ ~Over(t)
     \/ queue[t] = "visible" /\ ~Dead(t)
  THEN 1 ELSE 0

MailInv(t) ==
  /\ IsFiniteSet(Carriers(t))
  /\ mails[t] + Cardinality(Carriers(t)) + Waiting(t) <= 1 + lost + duplicates

\* A token is dispatched once, by the one request that took it, and no worker has
\* its message before.
Dispatching(r) == request[r].pc \in {"auto", "dispatch"}

DispatchInv ==
  /\ \A r \in Requests :
       Dispatching(r) =>
         request[r].token \in 1..sends /\ queue[request[r].token] = "none"
  /\ \A r, q \in Requests :
       r # q /\ Dispatching(r) /\ Dispatching(q) => request[r].token # request[q].token
  /\ \A t \in Tokens : t > sends => queue[t] = "none"

\* A worker that has called SES checked a send that was armed.
HandlingInv ==
  \A w \in Workers, t \in Tokens :
    /\ worker[w].token = t => worker[w].pc # "idle" /\ queue[t] # "none"
    /\ worker[w].token = t /\ worker[w].pc = "mark" => fate[t] # "new"

DeliveryInv ==
  SafetyInv /\ DispatchInv /\ HandlingInv /\ \A t \in Tokens : MailInv(t)

LEMMA InitDelivery == Init => DeliveryInv
<1> SUFFICES ASSUME Init PROVE DeliveryInv
  OBVIOUS
<1>1. DispatchInv
  BY DraftSendAssumption DEF Init, DispatchInv, Dispatching, Idle, At, Tokens
<1>2. HandlingInv
  BY DEF Init, HandlingInv, Idle, Tokens
<1>3. ASSUME NEW t \in Tokens
      PROVE  MailInv(t)
  <2>1. Carriers(t) = {}
    BY DEF Init, Carriers, Carries, Idle, Tokens
  <2>2. mails[t] = 0 /\ lost = 0 /\ duplicates = 0 /\ Waiting(t) \in {0, 1}
    BY DEF Init, Waiting
  <2>3. QED
    BY <2>1, <2>2, FS_EmptySet DEF MailInv
<1>4. QED
  BY <1>1, <1>2, <1>3, InitSafety DEF DeliveryInv

\* What a step may write to the row: a pending state comes from an Arm alone.
LEMMA RowChange ==
  ASSUME SafetyInv, Next
  PROVE  \/ row'.status # "pending_send"
         \/ row'.status = row.status /\ row'.token = row.token
         \/ \E r \in Requests : Arm(r) /\ row'.token = request[r].token
<1>0. row \in Row
  BY DEF SafetyInv, TypeOK
<1>1. ASSUME NEW r \in Requests, Api(r), ~Arm(r)
      PROVE  row'.status # "pending_send" \/ (row'.status = row.status /\ row'.token = row.token)
  <2>1. CASE Edit(r)
    BY <1>0, <2>1 DEF Edit, Update, Row
  <2>2. CASE Undo(r)
    BY <1>0, <2>2 DEF Undo, Update, Row
  <2>3. CASE Delete(r) \/ Touch(r)
    BY <2>3 DEF Delete, Touch, NoRow, Ghost
  <2>4. CASE row' = row
    BY <2>4
  <2>5. QED
    BY <1>1, <2>1, <2>2, <2>3, <2>4
       DEF Api, BeginSend, BeginEdit, BeginTouch, BeginUndo, BeginDelete, Begin,
           Dispatch, AutoDispatch, Drop, dataVars
<1>2. ASSUME NEW r \in Requests, Arm(r)
      PROVE  row'.token = request[r].token
  BY <1>2 DEF Arm, Update, Pending
<1>3. ASSUME NEW w \in Workers, Work(w) \/ Abandon(w)
      PROVE  row'.status # "pending_send" \/ (row'.status = row.status /\ row'.token = row.token)
  <2>1. CASE Park(w) \/ MarkSent(w)
    BY <1>0, <2>1 DEF Park, MarkSent, Update, Row
  <2>2. QED
    BY <1>3, <2>1
       DEF Work, Check, Send, Reject, UpdateRefused, Ack, Abandon, dataVars
<1>4. ASSUME NEW u \in Tokens, Bounce(u)
      PROVE  row'.status # "pending_send"
  BY <1>0, <1>4 DEF Bounce, Update, Row
<1>5. CASE row' = row
  BY <1>5
<1>6. QED
  BY <1>1, <1>2, <1>3, <1>4, <1>5
     DEF Next, Step, DelayElapses, Redeliver, Reappear, Age, Receive, Replicate, dataVars

\* What is over stays over, and what the GSI has seen of it too.
LEMMA OverStays ==
  ASSUME SafetyInv, Next, NEW t \in Tokens
  PROVE  /\ fate[t] # "new" => fate'[t] # "new"
         /\ Over(t) => Over(t)'
         /\ Dead(t) => Dead(t)'
<1>1. fate[t] # "new" => fate'[t] # "new"
  BY DEF Next, Track, SafetyInv, TypeOK
<1>2. ASSUME NEW r \in Requests, Arm(r), request[r].token = t
      PROVE  fate[t] = "new"
  BY <1>2 DEF Arm, SafetyInv, RequestInv
<1>3. Over(t) => Over(t)'
  BY <1>1, <1>2, RowChange DEF Over, PendingFor
<1>4. Dead(t) => Dead(t)'
  BY <1>3, IndexTokens DEF Dead, Over, PendingFor, NoRow
<1>5. QED
  BY <1>1, <1>3, <1>4

\* Where the GSI has caught up, what is over is dead.
LEMMA OverIsDead ==
  ASSUME NEW t \in Tokens, CaughtUp, Over(t)
  PROVE  Dead(t)
BY DEF CaughtUp, Indexed, Over, Dead, PendingFor, NoRow

LEMMA OneMoves ==
  ASSUME NEW C, NEW D, NEW w, IsFiniteSet(C), D \ {w} \subseteq C
  PROVE  /\ IsFiniteSet(D) /\ Cardinality(C) \in Nat /\ Cardinality(D) \in Nat
         /\ Cardinality(D) + (IF w \in C THEN 1 ELSE 0)
              <= Cardinality(C) + (IF w \in D THEN 1 ELSE 0)
<1>1. /\ IsFiniteSet(C \ {w})
      /\ Cardinality(C \ {w}) = IF w \in C THEN Cardinality(C) - 1 ELSE Cardinality(C)
  BY FS_RemoveElement
<1>2. /\ IsFiniteSet(D \ {w})
      /\ Cardinality(D \ {w}) <= Cardinality(C \ {w})
  <2>1. D \ {w} \subseteq C \ {w}
    OBVIOUS
  <2>2. QED
    BY <1>1, <2>1, FS_Subset
<1>3. IsFiniteSet(D)
  <2>1. IsFiniteSet((D \ {w}) \union {w})
    BY <1>2, FS_AddElement
  <2>2. D \subseteq (D \ {w}) \union {w}
    OBVIOUS
  <2>3. QED
    BY <2>1, <2>2, FS_Subset
<1>4. Cardinality(D \ {w}) = IF w \in D THEN Cardinality(D) - 1 ELSE Cardinality(D)
  BY <1>3, FS_RemoveElement
<1>5. Cardinality(C) \in Nat /\ Cardinality(D) \in Nat
  BY <1>3, FS_CardinalityType
<1>6. QED
  BY <1>1, <1>2, <1>3, <1>4, <1>5

\* A step of one worker pays for what it gains.
LEMMA Balance ==
  ASSUME DeliveryInv, TypeOK', Next, NEW t \in Tokens, NEW w \in Workers,
         \A v \in Workers \ {w} : worker'[v] = worker[v],
         mails'[t] + Credit(w, t)' + Waiting(t)' + lost + duplicates
           <= mails[t] + Credit(w, t) + Waiting(t) + lost' + duplicates'
  PROVE  MailInv(t)'
<1>1. IsFiniteSet(Carriers(t)) /\ MailInv(t)
  BY DEF DeliveryInv, MailInv
<1>2. Carriers(t)' \ {w} \subseteq Carriers(t)
  BY OverStays DEF Carriers, Carries, DeliveryInv
<1> DEFINE C == Carriers(t)
           D == Carriers(t)'
<1>3. /\ IsFiniteSet(D) /\ Cardinality(C) \in Nat /\ Cardinality(D) \in Nat
      /\ Cardinality(D) + (IF w \in C THEN 1 ELSE 0)
           <= Cardinality(C) + (IF w \in D THEN 1 ELSE 0)
  <2> HIDE DEF C, D
  <2>1. IsFiniteSet(C) /\ D \ {w} \subseteq C
    BY <1>1, <1>2 DEF C, D
  <2>2. QED
    BY <2>1, OneMoves
<1>4. /\ (IF w \in C THEN 1 ELSE 0) = Credit(w, t)
      /\ (IF w \in D THEN 1 ELSE 0) = Credit(w, t)'
  BY DEF Carriers, Credit
<1>5. /\ mails[t] \in Nat /\ mails'[t] \in Nat
      /\ {lost, lost', duplicates, duplicates'} \subseteq Nat
      /\ {Waiting(t), Waiting(t)', Credit(w, t), Credit(w, t)'} \subseteq Nat
  BY DEF DeliveryInv, SafetyInv, TypeOK, Waiting, Credit
<1>6. mails[t] + Cardinality(C) + Waiting(t) <= 1 + lost + duplicates
  BY <1>1 DEF MailInv
<1> HIDE DEF C, D
<1>7. mails'[t] + Cardinality(D) + Waiting(t)' <= 1 + lost' + duplicates'
  BY <1>3, <1>4, <1>5, <1>6
<1>8. QED
  BY <1>3, <1>7 DEF MailInv, D

\* A step of no worker.
LEMMA NoWorkerMoves ==
  ASSUME DeliveryInv, TypeOK', Next, NEW t \in Tokens, worker' = worker,
         mails'[t] = mails[t],
         Waiting(t)' + lost + duplicates <= Waiting(t) + lost' + duplicates'
  PROVE  MailInv(t)'
<1>1. IsFiniteSet(Carriers(t)) /\ MailInv(t)
  BY DEF DeliveryInv, MailInv
<1>2. Carriers(t)' \subseteq Carriers(t)
  BY OverStays DEF Carriers, Carries, DeliveryInv
<1>3. /\ IsFiniteSet(Carriers(t)')
      /\ Cardinality(Carriers(t)') <= Cardinality(Carriers(t))
  BY <1>1, <1>2, FS_Subset
<1>4. Cardinality(Carriers(t)) \in Nat /\ Cardinality(Carriers(t)') \in Nat
  BY <1>1, <1>3, FS_CardinalityType
<1>5. /\ mails[t] \in Nat
      /\ {lost, lost', duplicates, duplicates'} \subseteq Nat
      /\ {Waiting(t), Waiting(t)'} \subseteq Nat
  BY DEF DeliveryInv, SafetyInv, TypeOK, Waiting
<1>6. mails'[t] + Cardinality(Carriers(t)') + Waiting(t)' <= 1 + lost' + duplicates'
  BY <1>1, <1>3, <1>4, <1>5 DEF MailInv
<1>7. QED
  BY <1>3, <1>6 DEF MailInv

\* A step that leaves workers, mails and the queue alone.
LEMMA QuietStep ==
  ASSUME DeliveryInv, TypeOK', Next, NEW t \in Tokens,
         UNCHANGED <<worker, lost, duplicates>>, mails'[t] = mails[t],
         queue'[t] = queue[t] \/ (queue[t] = "none" /\ queue'[t] = "delayed")
  PROVE  MailInv(t)'
<1>1. Waiting(t)' <= Waiting(t) /\ {Waiting(t), Waiting(t)'} \subseteq Nat
  BY OverStays DEF Waiting, DeliveryInv
<1>2. lost \in Nat /\ duplicates \in Nat
  BY DEF DeliveryInv, SafetyInv, TypeOK
<1>3. QED
  BY <1>1, <1>2, NoWorkerMoves

LEMMA ApiMails ==
  ASSUME DeliveryInv, TypeOK', Next, NEW r \in Requests, Api(r), NEW t \in Tokens
  PROVE  MailInv(t)'
<1>1. UNCHANGED <<worker, mails, lost, duplicates>>
  BY DEF Api, BeginSend, BeginEdit, BeginTouch, BeginUndo, BeginDelete, Begin, Dispatch,
         AutoDispatch, Arm, Edit, Touch, Undo, Delete, Drop, sqsVars, mailVars
<1>2. CASE Dispatch(r) \/ AutoDispatch(r)
  <2>1. Dispatching(r) /\ queue' = [queue EXCEPT ![request[r].token] = "delayed"]
    BY <1>2 DEF Dispatch, AutoDispatch, Dispatching
  <2>2. queue[request[r].token] = "none"
    BY <2>1 DEF DeliveryInv, DispatchInv
  <2>3. QED
    BY <1>1, <2>1, <2>2, QuietStep DEF DeliveryInv, SafetyInv, TypeOK
<1>3. CASE ~(Dispatch(r) \/ AutoDispatch(r))
  <2>1. queue' = queue
    BY <1>3
       DEF Api, BeginSend, BeginEdit, BeginTouch, BeginUndo, BeginDelete, Begin, Arm,
           Edit, Touch, Undo, Delete, Drop, sqsVars
  <2>2. QED
    BY <1>1, <2>1, QuietStep
<1>4. QED
  BY <1>2, <1>3

LEMMA EnvironmentMails ==
  ASSUME DeliveryInv, TypeOK', Next, NEW t \in Tokens,
         \/ \E u \in Tokens : \/ DelayElapses(u) \/ Redeliver(u) \/ Reappear(u)
                              \/ Bounce(u) \/ Age(u)
         \/ Replicate
  PROVE  MailInv(t)'
<1>0. /\ queue \in [Tokens -> {"none", "delayed", "visible", "hidden", "returned", "gone"}]
      /\ {lost, lost', duplicates, duplicates'} \subseteq Nat
      /\ {Waiting(t), Waiting(t)'} \subseteq Nat /\ Waiting(t)' <= 1
  BY DEF DeliveryInv, SafetyInv, TypeOK, Waiting
<1>1. ASSUME NEW u \in Tokens, DelayElapses(u) \/ Reappear(u)
      PROVE  MailInv(t)'
  <2>1. /\ CaughtUp /\ UNCHANGED <<row, index, worker, mails, lost, duplicates>>
        /\ queue[u] \in {"delayed", "returned"}
        /\ queue' = [queue EXCEPT ![u] = "visible"]
    BY <1>1 DEF DelayElapses, Reappear, dataVars, mailVars
  <2>2. CASE u # t
    BY <1>0, <2>1, <2>2, QuietStep
  <2>3. CASE u = t
    <3>1. queue'[t] = "visible" /\ queue[t] \in {"delayed", "returned"}
      BY <1>0, <2>1, <2>3
    <3>2. Over(t) => Dead(t)'
      BY <2>1, OverIsDead, OverStays DEF DeliveryInv
    <3>3. Waiting(t)' <= Waiting(t)
      BY <3>1, <3>2 DEF Waiting
    <3>4. QED
      BY <1>0, <2>1, <3>3, NoWorkerMoves
  <2>4. QED
    BY <2>2, <2>3
<1>2. ASSUME NEW u \in Tokens, Redeliver(u)
      PROVE  MailInv(t)'
  <2>1. /\ UNCHANGED <<worker, mails, lost>> /\ duplicates' = duplicates + 1
        /\ \/ u = t /\ queue[t] = "hidden"
           \/ queue'[t] = queue[t]
    BY <1>0, <1>2 DEF Redeliver, mailVars
  <2>2. Waiting(t)' <= Waiting(t) + 1
    BY <1>0
  <2>3. QED
    BY <1>0, <2>1, <2>2, NoWorkerMoves
<1>3. CASE Replicate \/ \E u \in Tokens : Bounce(u) \/ Age(u)
  BY <1>3, QuietStep DEF Replicate, Bounce, Age, sqsVars, mailVars
<1>4. QED
  BY <1>1, <1>2, <1>3

LEMMA ReceiveMails ==
  ASSUME DeliveryInv, TypeOK', Next, NEW w \in Workers, NEW u \in Tokens, Receive(w, u),
         NEW t \in Tokens
  PROVE  MailInv(t)'
<1>1. /\ UNCHANGED <<mails, lost, duplicates>>
      /\ worker[w] = Idle /\ worker' = [worker EXCEPT ![w] = At("read", u)]
      /\ queue[u] = "visible" /\ queue' = [queue EXCEPT ![u] = "hidden"]
  BY DEF Receive, mailVars
<1>2. /\ worker'[w] = At("read", u) /\ \A v \in Workers \ {w} : worker'[v] = worker[v]
      /\ queue'[u] = "hidden" /\ (u # t => queue'[t] = queue[t])
  BY <1>1 DEF DeliveryInv, SafetyInv, TypeOK
<1>3. Credit(w, t) = 0
  BY <1>1 DEF Credit, Carries, Idle, Tokens
<1>4. Credit(w, t)' + Waiting(t)' <= Waiting(t)
  <2>1. CASE u # t
    <3>1. Credit(w, t)' = 0
      BY <1>2, <2>1 DEF Credit, Carries, At
    <3>2. Waiting(t)' <= Waiting(t) /\ Waiting(t)' \in Nat
      BY <1>2, <2>1, OverStays DEF Waiting, DeliveryInv
    <3>3. QED
      BY <3>1, <3>2
  <2>2. CASE u = t
    <3>1. Waiting(t)' = 0
      BY <1>2, <2>2 DEF Waiting
    <3>2. Dead(t) => Dead(t)'
      BY OverStays DEF DeliveryInv
    <3>3. Credit(w, t)' <= Waiting(t) /\ Credit(w, t)' \in Nat
      BY <1>1, <1>2, <2>2, <3>2 DEF Waiting, Credit, Carries, At
    <3>4. QED
      BY <3>1, <3>3
  <2>3. QED
    BY <2>1, <2>2
<1>5. /\ mails[t] \in Nat /\ lost \in Nat /\ duplicates \in Nat
      /\ {Credit(w, t)', Waiting(t)', Waiting(t)} \subseteq Nat
  BY DEF DeliveryInv, SafetyInv, TypeOK, Credit, Waiting
<1>6. mails'[t] + Credit(w, t)' + Waiting(t)' + lost + duplicates
        <= mails[t] + Credit(w, t) + Waiting(t) + lost' + duplicates'
  BY <1>1, <1>3, <1>4, <1>5
<1>7. QED
  BY <1>2, <1>6, Balance

\* A step of a worker that has another send leaves this one's account alone.
LEMMA OtherSend ==
  ASSUME DeliveryInv, TypeOK', Next, NEW w \in Workers, Work(w) \/ Abandon(w),
         NEW t \in Tokens, worker[w].token # t
  PROVE  MailInv(t)'
<1>0. /\ worker \in [Workers -> [pc : WorkerSteps, token : Tokens \union {0}]]
      /\ queue \in [Tokens -> {"none", "delayed", "visible", "hidden", "returned", "gone"}]
      /\ mails \in [Tokens -> Nat] /\ lost \in Nat /\ duplicates \in Nat
  BY DEF DeliveryInv, SafetyInv, TypeOK
<1>1. /\ \A v \in Workers \ {w} : worker'[v] = worker[v]
      /\ worker'[w].token # t
  BY <1>0
     DEF Work, Check, Send, Reject, Park, MarkSent, UpdateRefused, Ack, Abandon,
         WorkerGoto, Release, Idle, At, Tokens
<1>2. mails'[t] = mails[t] /\ queue'[t] = queue[t] /\ duplicates' = duplicates
  BY <1>0
     DEF Work, Check, Send, Reject, Park, MarkSent, UpdateRefused, Ack, Abandon,
         ReturnToQueue, sqsVars, mailVars
<1>3. lost' \in Nat /\ lost <= lost'
  BY <1>0
     DEF Work, Check, Send, Reject, Park, MarkSent, UpdateRefused, Ack, Abandon, sqsVars
<1>4. Credit(w, t) = 0 /\ Credit(w, t)' = 0
  BY <1>1 DEF Credit, Carries
<1>5. Waiting(t)' <= Waiting(t) /\ {Waiting(t), Waiting(t)'} \subseteq Nat
  BY <1>2, OverStays DEF Waiting, DeliveryInv
<1>6. QED
  BY <1>0, <1>1, <1>2, <1>3, <1>4, <1>5, Balance

LEMMA OwnSend ==
  ASSUME DeliveryInv, TypeOK', Next, NEW w \in Workers, Work(w) \/ Abandon(w),
         NEW t \in Tokens, worker[w].token = t
  PROVE  MailInv(t)'
<1>0. /\ worker \in [Workers -> [pc : WorkerSteps, token : Tokens \union {0}]]
      /\ queue \in [Tokens -> {"none", "delayed", "visible", "hidden", "returned", "gone"}]
      /\ mails \in [Tokens -> Nat] /\ lost \in Nat /\ duplicates \in Nat
  BY DEF DeliveryInv, SafetyInv, TypeOK
<1>1. \A v \in Workers \ {w} : worker'[v] = worker[v]
  BY <1>0
     DEF Work, Check, Send, Reject, Park, MarkSent, UpdateRefused, Ack, Abandon,
         WorkerGoto, Release
<1>2. /\ {Credit(w, t), Credit(w, t)'} \subseteq Nat
      /\ {Waiting(t), Waiting(t)'} \subseteq Nat /\ Waiting(t)' <= 1
      /\ queue'[t] = queue[t] => Waiting(t)' <= Waiting(t)
  BY OverStays DEF Credit, Waiting, DeliveryInv
<1>3. Over(t) => Over(t)'
  BY OverStays DEF DeliveryInv
<1>4. CASE Check(w)
  <2>1. /\ UNCHANGED <<mails, queue, lost, duplicates, row, index>>
        /\ worker[w].pc = "read"
        /\ worker'[w] = At(IF StillPending(t) THEN "send" ELSE "done", t)
    BY <1>0, <1>4 DEF Check, WorkerGoto, dataVars, sqsVars, mailVars
  <2>2. StillPending(t) => PendingFor(index, t)
    BY DEF StillPending, Shown, PendingFor
  <2>3. Credit(w, t)' <= Credit(w, t)
    BY <1>3, <2>1, <2>2 DEF Credit, Carries, At, Dead
  <2>4. QED
    BY <1>0, <1>1, <1>2, <2>1, <2>3, Balance
<1>5. CASE Send(w) \/ Reject(w)
  <2>1. /\ UNCHANGED <<queue, lost, duplicates>>
        /\ worker[w].pc = "send" /\ worker'[w] = At("mark", t)
        /\ mails'[t] \in {mails[t], mails[t] + 1}
    BY <1>0, <1>5 DEF Send, Reject, WorkerGoto, sqsVars, mailVars
  <2>2. Credit(w, t) = 1 /\ Credit(w, t)' = 0
    BY <2>1 DEF Credit, Carries, At
  <2>3. QED
    BY <1>0, <1>1, <1>2, <2>1, <2>2, Balance
<1>6. worker[w].pc \in {"send", "mark"} => fate[t] # "new"
  <2>1. worker[w].pc = "send" => worker[w] = At("send", t)
    BY <1>0 DEF At
  <2>2. QED
    BY <2>1 DEF DeliveryInv, SafetyInv, FateInv, Live, HandlingInv
<1>7. CASE Park(w) \/ MarkSent(w)
  <2>1. /\ UNCHANGED <<mails, queue, lost, duplicates>>
        /\ worker[w].pc \in {"send", "mark"} /\ worker'[w] = At("done", t)
        /\ row'.status \in {"draft", "sent"}
    BY <1>0, <1>7
       DEF Park, MarkSent, Update, WorkerGoto, sqsVars, mailVars, DeliveryInv,
           SafetyInv, TypeOK, Row
  <2>2. Over(t)'
    BY <1>6, <2>1, OverStays DEF Over, PendingFor, DeliveryInv
  <2>3. Credit(w, t)' = 0
    BY <2>1, <2>2 DEF Credit, Carries, At
  <2>4. QED
    BY <1>0, <1>1, <1>2, <2>1, <2>3, Balance
<1>8. CASE UpdateRefused(w)
  <2>1. /\ UNCHANGED <<row, mails, lost, duplicates>>
        /\ worker[w].pc \in {"send", "mark"} /\ worker'[w] = Idle /\ ~Exists(row)
        /\ queue'[t] \in {"gone", "returned"}
    BY <1>0, <1>8 DEF UpdateRefused, ReturnToQueue, Release, dataVars, mailVars
  <2>2. Over(t)'
    BY <1>3, <1>6, <2>1 DEF Over, PendingFor, Exists
  <2>3. Credit(w, t)' = 0 /\ Waiting(t)' = 0
    BY <2>1, <2>2 DEF Credit, Carries, Waiting, Idle, Tokens
  <2>4. QED
    BY <1>0, <1>1, <1>2, <2>1, <2>3, Balance
<1>9. CASE Abandon(w)
  <2>1. /\ UNCHANGED <<mails, duplicates>> /\ worker'[w] = Idle
        /\ worker[w].pc \in {"read", "send", "mark", "done"}
        /\ queue'[t] = IF queue[t] = "gone" THEN "gone" ELSE "returned"
        /\ lost' = lost + (IF worker[w].pc = "mark" THEN 1 ELSE 0)
    BY <1>0, <1>9
       DEF Abandon, ReturnToQueue, Release, mailVars, WorkerSteps, DeliveryInv, HandlingInv
  <2>2. Credit(w, t)' = 0
    BY <2>1 DEF Credit, Carries, Idle, Tokens
  <2>3. worker[w].pc \in {"read", "send", "done"} => Waiting(t)' <= Credit(w, t)
    BY <1>3, <2>1 DEF Waiting, Credit, Carries, Dead
  <2>4. CASE worker[w].pc = "mark"
    BY <1>0, <1>1, <1>2, <2>1, <2>2, <2>4, Balance
  <2>5. CASE worker[w].pc \in {"read", "send", "done"}
    BY <1>0, <1>1, <1>2, <2>1, <2>2, <2>3, <2>5, Balance
  <2>6. QED
    BY <2>1, <2>4, <2>5
<1>10. CASE Ack(w)
  <2>1. /\ UNCHANGED <<mails, lost, duplicates>> /\ worker'[w] = Idle
        /\ queue'[t] = "gone"
    BY <1>0, <1>10 DEF Ack, Release, mailVars
  <2>2. Credit(w, t)' = 0 /\ Waiting(t)' = 0
    BY <2>1 DEF Credit, Carries, Waiting, Idle, Tokens
  <2>3. QED
    BY <1>0, <1>1, <1>2, <2>1, <2>2, Balance
<1>11. QED
  BY <1>4, <1>5, <1>7, <1>8, <1>9, <1>10 DEF Work

LEMMA NextMails ==
  ASSUME DeliveryInv, TypeOK', Next
  PROVE  \A t \in Tokens : MailInv(t)'
<1> SUFFICES ASSUME NEW t \in Tokens PROVE MailInv(t)'
  OBVIOUS
<1>1. ASSUME NEW w \in Workers, Work(w) \/ Abandon(w)
      PROVE  MailInv(t)'
  BY <1>1, OwnSend, OtherSend
<1>2. QED
  BY <1>1, ApiMails, EnvironmentMails, ReceiveMails DEF Next, Step

LEMMA NextDispatch ==
  ASSUME DeliveryInv, TypeOK', Next
  PROVE  DispatchInv'
<1>0. /\ request \in [Requests -> [pc : RequestSteps, token : Tokens \union {0}]]
      /\ queue \in [Tokens -> {"none", "delayed", "visible", "hidden", "returned", "gone"}]
      /\ sends \in Nat /\ sends' \in Nat /\ DispatchInv
      /\ \A r \in Requests : Dispatching(r) => request[r].token \in Tokens
  BY DraftSendAssumption
     DEF DeliveryInv, SafetyInv, TypeOK, DispatchInv, Tokens
\* The queue of a token that was not dispatched changes by its dispatch alone.
<1>1. ASSUME NEW t \in Tokens, queue[t] = "none", queue'[t] # "none"
      PROVE  \E r \in Requests :
               /\ Dispatch(r) \/ AutoDispatch(r)
               /\ request[r].token = t
  <2>1. ASSUME NEW w \in Workers, Work(w) \/ Abandon(w)
        PROVE  FALSE
    <3>1. worker[w].token # t
      BY <1>1 DEF DeliveryInv, HandlingInv
    <3>2. queue'[t] = queue[t]
      BY <1>0, <2>1, <3>1
         DEF Work, Check, Send, Reject, Park, MarkSent, UpdateRefused, Ack, Abandon,
             ReturnToQueue, sqsVars
    <3>3. QED
      BY <1>1, <3>2
  <2>2. ASSUME NEW r \in Requests, Api(r), ~Dispatch(r), ~AutoDispatch(r)
        PROVE  queue' = queue
    BY <2>2
       DEF Api, BeginSend, BeginEdit, BeginTouch, BeginUndo, BeginDelete, Begin, Arm,
           Edit, Touch, Undo, Delete, Drop, sqsVars
  <2>3. ASSUME NEW r \in Requests, Dispatch(r) \/ AutoDispatch(r)
        PROVE  request[r].token = t
    BY <1>0, <1>1, <2>3 DEF Dispatch, AutoDispatch
  <2>4. ASSUME NEW u \in Tokens,
               \/ DelayElapses(u) \/ Redeliver(u) \/ Reappear(u) \/ Bounce(u) \/ Age(u)
               \/ \E w \in Workers : Receive(w, u)
        PROVE  queue'[t] = queue[t]
    BY <1>0, <1>1, <2>4
       DEF DelayElapses, Redeliver, Reappear, Bounce, Age, Receive, sqsVars
  <2>5. QED
    BY <1>1, <2>1, <2>2, <2>3, <2>4 DEF Next, Step, Replicate, sqsVars
\* A request that may dispatch could before, or has just begun.
<1>2. ASSUME NEW r \in Requests, Dispatching(r)'
      PROVE  \/ /\ Dispatching(r) /\ request'[r] = request[r]
                /\ ~Dispatch(r) /\ ~AutoDispatch(r)
             \/ /\ BeginSend(r) /\ request'[r].token = sends + 1 /\ sends' = sends + 1
                /\ queue' = queue
  <2>0. ~Dispatch(r) /\ ~AutoDispatch(r)
    BY <1>0, <1>2 DEF Dispatching, Dispatch, AutoDispatch, Finish, Idle, At
  <2>1. ASSUME NEW q \in Requests, Api(q), ~BeginSend(q)
        PROVE  request'[r] = request[r]
    BY <1>0, <1>2, <2>1
       DEF Dispatching, Api, BeginEdit, BeginTouch, BeginUndo, BeginDelete, Begin,
           Dispatch, AutoDispatch, Arm, Edit, Touch, Undo, Delete, Drop, Finish, Idle, At
  <2>2. ASSUME NEW q \in Requests, BeginSend(q)
        PROVE  \/ request'[r] = request[r]
               \/ /\ BeginSend(r) /\ request'[r].token = sends + 1 /\ sends' = sends + 1
                  /\ queue' = queue
    BY <1>0, <2>2 DEF BeginSend, Begin, At, sqsVars
  <2>3. (\A q \in Requests : ~Api(q)) => request' = request
    BY DEF Next, Step, Work, Check, Send, Reject, Park, MarkSent, UpdateRefused, Ack,
           Abandon, DelayElapses, Redeliver, Reappear, Bounce, Age, Receive, Replicate,
           apiVars
  <2>4. QED
    BY <1>2, <2>0, <2>1, <2>2, <2>3 DEF Dispatching
<1>3. sends <= sends'
  BY <1>0, SendsGrow
<1>4. ASSUME NEW r \in Requests, Dispatching(r)'
      PROVE  request'[r].token \in 1..sends' /\ queue'[request'[r].token] = "none"
  <2>1. CASE /\ Dispatching(r) /\ request'[r] = request[r]
             /\ ~Dispatch(r) /\ ~AutoDispatch(r)
    <3>1. ~ \E q \in Requests : /\ Dispatch(q) \/ AutoDispatch(q)
                                /\ request[q].token = request[r].token
      BY <1>0, <2>1 DEF DispatchInv, Dispatching, Dispatch, AutoDispatch
    <3>2. QED
      BY <1>0, <1>1, <1>3, <2>1, <3>1 DEF DispatchInv
  <2>2. CASE /\ BeginSend(r) /\ request'[r].token = sends + 1 /\ sends' = sends + 1
             /\ queue' = queue
    <3>1. sends + 1 \in Tokens
      BY <1>0, <2>2, DraftSendAssumption DEF BeginSend, Tokens
    <3>2. QED
      BY <1>0, <2>2, <3>1 DEF DispatchInv
  <2>3. QED
    BY <1>2, <1>4, <2>1, <2>2
<1>5. ASSUME NEW r \in Requests, NEW q \in Requests, r # q, Dispatching(r)', Dispatching(q)'
      PROVE  request'[r].token # request'[q].token
  <2>1. \A p \in Requests : Dispatching(p) => request[p].token \in 1..sends
    BY <1>0 DEF DispatchInv
  <2>2. ~(BeginSend(r) /\ BeginSend(q))
    BY <1>5, OneBeginSend DEF DeliveryInv
  <2>3. QED
    BY <1>0, <1>2, <1>5, <2>1, <2>2 DEF DispatchInv
<1>6. ASSUME NEW t \in Tokens, t > sends'
      PROVE  queue'[t] = "none"
  <2>1. t > sends
    BY <1>0, <1>3, <1>6 DEF Tokens
  <2>2. queue[t] = "none"
    BY <1>0, <2>1 DEF DispatchInv
  <2>3. ~ \E r \in Requests : Dispatching(r) /\ request[r].token = t
    BY <1>0, <2>1 DEF DispatchInv
  <2>4. QED
    BY <1>1, <2>2, <2>3 DEF Dispatching, Dispatch, AutoDispatch
<1>7. QED
  BY <1>4, <1>5, <1>6 DEF DispatchInv

LEMMA NextHandling ==
  ASSUME DeliveryInv, TypeOK', Next
  PROVE  HandlingInv'
<1>0. /\ worker \in [Workers -> [pc : WorkerSteps, token : Tokens \union {0}]]
      /\ queue \in [Tokens -> {"none", "delayed", "visible", "hidden", "returned", "gone"}]
      /\ HandlingInv
  BY DEF DeliveryInv, SafetyInv, TypeOK
<1>1. ASSUME NEW t \in Tokens, queue[t] # "none"
      PROVE  queue'[t] # "none"
  BY <1>0, <1>1
     DEF Next, Step, Api, BeginSend, BeginEdit, BeginTouch, BeginUndo, BeginDelete, Begin,
         Dispatch, AutoDispatch, Arm, Edit, Touch, Undo, Delete, Drop, Work, Check, Send,
         Reject, Park, MarkSent, UpdateRefused, Ack, Abandon, ReturnToQueue, DelayElapses,
         Redeliver, Reappear, Bounce, Age, Receive, Replicate, sqsVars
<1>2. ASSUME NEW w \in Workers, NEW t \in Tokens, worker'[w].token = t
      PROVE  /\ worker'[w].pc # "idle"
             /\ \/ worker[w].token = t
                \/ queue[t] = "visible" /\ worker'[w].pc = "read"
             /\ worker'[w].pc = "mark" =>
                  worker[w].token = t /\ worker[w].pc \in {"send", "mark"}
  <2>1. CASE worker' = worker
    BY <1>0, <1>2, <2>1 DEF HandlingInv
  <2>2. ASSUME NEW v \in Workers, Work(v)
        PROVE  /\ worker[w].token = t /\ worker'[w].pc # "idle"
               /\ worker'[w].pc = "mark" => worker[w].pc \in {"send", "mark"}
    BY <1>0, <1>2, <2>2
       DEF HandlingInv, Work, Check, Send, Reject, Park, MarkSent, UpdateRefused, Ack, WorkerGoto,
           Release, Idle, At, Tokens
  <2>3. ASSUME NEW v \in Workers, Abandon(v)
        PROVE  worker[w].token = t /\ worker'[w] = worker[w]
    BY <1>0, <1>2, <2>3 DEF Abandon, Release, Idle, Tokens
  <2>4. ASSUME NEW v \in Workers, NEW u \in Tokens, Receive(v, u)
        PROVE  \/ worker[w].token = t /\ worker'[w] = worker[w]
               \/ queue[t] = "visible" /\ worker'[w].pc = "read"
    BY <1>0, <1>2, <2>4 DEF Receive, At
  <2>5. CASE \E r \in Requests : Api(r)
    BY <2>1, <2>5 DEF Api, BeginSend, BeginEdit, BeginTouch, BeginUndo, BeginDelete, Begin,
                      Dispatch, AutoDispatch, Arm, Edit, Touch, Undo, Delete, Drop
  <2>6. CASE Replicate \/ \E u \in Tokens : \/ DelayElapses(u) \/ Redeliver(u)
                                            \/ Reappear(u) \/ Bounce(u) \/ Age(u)
    BY <2>1, <2>6 DEF Replicate, DelayElapses, Redeliver, Reappear, Bounce, Age
  <2>7. QED
    BY <1>0, <2>2, <2>3, <2>4, <2>5, <2>6 DEF Next, Step, HandlingInv
<1>3. ASSUME NEW w \in Workers, NEW t \in Tokens,
             worker[w].token = t, worker[w].pc \in {"send", "mark"}
      PROVE  fate'[t] # "new"
  <2>1. worker[w].pc = "send" => worker[w] = At("send", t)
    BY <1>0, <1>3 DEF At
  <2>2. fate[t] # "new"
    BY <1>3, <2>1 DEF DeliveryInv, SafetyInv, FateInv, Live, HandlingInv
  <2>3. QED
    BY <2>2, OverStays DEF DeliveryInv
<1>4. QED
  BY <1>0, <1>1, <1>2, <1>3 DEF HandlingInv

LEMMA NextDelivery == DeliveryInv /\ [Next]_vars => DeliveryInv'
<1> SUFFICES ASSUME DeliveryInv, [Next]_vars PROVE DeliveryInv'
  OBVIOUS
<1>1. SafetyInv' /\ TypeOK'
  BY NextSafety DEF DeliveryInv, SafetyInv
<1>2. CASE UNCHANGED vars
  BY <1>1, <1>2
     DEF DeliveryInv, DispatchInv, Dispatching, HandlingInv, MailInv, Carriers, Carries,
         Waiting, Over, Dead, PendingFor, vars, dataVars, apiVars, sqsVars, mailVars
<1>3. CASE Next
  BY <1>1, <1>3, NextMails, NextDispatch, NextHandling DEF DeliveryInv
<1>4. QED
  BY <1>2, <1>3

\* A second mail of a send is paid for: by a duplicate delivery, or by a run that
\* was lost between the call to SES and the sent status.  No other failure, undo,
\* late write or redelivery mails a send again.
THEOREM SecondMailNeedsFault == Spec => []DuplicateMailsNeedFaults
<1>1. DeliveryInv => DuplicateMailsNeedFaults
  <2> SUFFICES ASSUME DeliveryInv, NEW t \in Tokens
               PROVE  mails[t] <= 1 + lost + duplicates
    BY DEF DuplicateMailsNeedFaults
  <2>1. /\ MailInv(t) /\ mails[t] \in Nat /\ lost \in Nat /\ duplicates \in Nat
        /\ Waiting(t) \in Nat
    BY DEF DeliveryInv, SafetyInv, TypeOK, Waiting
  <2>2. Cardinality(Carriers(t)) \in Nat
    BY <2>1, FS_CardinalityType DEF MailInv
  <2>3. QED
    BY <2>1, <2>2 DEF MailInv
<1>2. QED
  BY <1>1, InitDelivery, NextDelivery, PTL DEF Spec
=============================================================================
