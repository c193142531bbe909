-------------------------- MODULE ExchangesProofs --------------------------
(***************************************************************************)
(* Proofs about Exchanges, for any platforms, mailboxes, runs, requests,   *)
(* batch and overlap, and any number of mails, failures and crashes.       *)
(***************************************************************************)
EXTENDS Exchanges, FiniteSetTheorems, TLAPS

-----------------------------------------------------------------------------
(* Positions, batches and rows.                                             *)

\* The positions are an initial segment of the naturals.
LEMMA PositionsAreNaturals ==
  /\ Positions \subseteq Nat
  /\ \A n \in Positions, u \in Nat : u <= n => u \in Positions
BY ExchangesAssumption DEF Positions

LEMMA UpToMails ==
  ASSUME NEW m \in Mailboxes, NEW n \in Positions
  PROVE  UpTo(m, n) \subseteq Mails
BY PositionsAreNaturals DEF UpTo, Mails

LEMMA IntervalSize ==
  ASSUME NEW a \in Int, NEW b \in Int, a <= b
  PROVE  IsFiniteSet(a..b) /\ Cardinality(a..b) = b - a + 1
<1>1. ~(a > b)
  OBVIOUS
<1>2. QED
  BY <1>1, FS_Interval

\* The batch above a position ends before the mailbox and the batch size do, and
\* has no gap.
LEMMA BatchEnd ==
  ASSUME NEW m \in Mailboxes, arrived[m] \in Nat, NEW n \in Nat, Above(m, n) # {}
  PROVE  /\ Cardinality(Above(m, n)) \in Nat
         /\ n + Cardinality(Above(m, n)) <= arrived[m]
         /\ UpTo(m, n + Cardinality(Above(m, n))) \subseteq UpTo(m, n) \union Above(m, n)
<1> DEFINE S == {v \in 1..arrived[m] : v > n /\ v <= n + Batch}
           top == IF arrived[m] <= n + Batch THEN arrived[m] ELSE n + Batch
           f == [v \in S |-> <<m, v>>]
<1>1. Batch \in Nat /\ top \in Nat /\ n + 1 \in Nat
  BY ExchangesAssumption
<1>2. n < arrived[m] /\ S = (n + 1)..top
  BY <1>1 DEF Above
<1>3. IsFiniteSet(S) /\ Cardinality(S) = top - n
  <2>1. n + 1 \in Int /\ top \in Int /\ n + 1 <= top
    BY <1>1, <1>2, ExchangesAssumption
  <2> HIDE DEF top
  <2>2. IsFiniteSet((n + 1)..top) /\ Cardinality((n + 1)..top) = top - (n + 1) + 1
    BY <2>1, IntervalSize
  <2>3. top - (n + 1) + 1 = top - n
    BY <1>1
  <2> HIDE DEF S
  <2>4. QED
    BY <1>2, <2>2, <2>3
<1>4. f \in Surjection(S, Above(m, n))
  BY DEF Above, Surjection
<1>5. /\ IsFiniteSet(Above(m, n))
      /\ Cardinality(Above(m, n)) <= top - n
  BY <1>3, <1>4, FS_Surjection
<1>6. Cardinality(Above(m, n)) \in Nat
  BY <1>5, FS_CardinalityType
<1>7. n + Cardinality(Above(m, n)) <= top
  BY <1>1, <1>2, <1>5, <1>6
<1> HIDE DEF f, S
<1>8. \A u \in 1..(n + Cardinality(Above(m, n))) :
        u <= n \/ (u \in 1..arrived[m] /\ u > n /\ u <= n + Batch)
  BY <1>1, <1>6, <1>7
<1>9. UpTo(m, n + Cardinality(Above(m, n))) \subseteq UpTo(m, n) \union Above(m, n)
  BY <1>8, <1>6 DEF UpTo, Above
<1>10. QED
  BY <1>1, <1>6, <1>7, <1>9

LEMMA FreshType ==
  ASSUME TypeOK, NEW m \in Mailboxes
  PROVE  Fresh(m) \in Cursors /\ Fresh(m).box = m /\ Fresh(m).pos = arrived[m]
BY ExchangesAssumption DEF TypeOK, Fresh, Cursors

LEMMA NoRowType ==
  /\ NoCursor \in Cursors /\ NoRow \in Rows
  /\ NoRow.cursor = NoCursor /\ NoRow.status = "active"
  /\ NoRow.failures = 0 /\ NoRow.push = FALSE /\ NoRow.kind = "none"
<1>1. 0 \in Positions /\ 0 \in 0..(MaxEvents + 1)
  BY ExchangesAssumption DEF Positions
<1>2. NoCursor \in Cursors
  BY <1>1, ExchangesAssumption DEF NoCursor, Cursors
<1> DEFINE new == NewRow("active", NoCursor)
<1>3. 0 \in 0..Strikes
  BY DEF Strikes
<1>4. /\ new \in Rows
      /\ new.cursor = NoCursor /\ new.status = "active"
      /\ new.failures = 0 /\ new.push = FALSE
  BY <1>2, <1>3, ExchangesAssumption DEF NewRow, Rows
<1>5. NoRow = [new EXCEPT !.kind = "none"]
  BY DEF NoRow
<1> HIDE DEF new
<1>6. QED
  BY <1>2, <1>4, <1>5 DEF Rows

LEMMA IdleRunType == IdleRun \in RunTypes
BY NoRowType DEF IdleRun, RunTypes

\* An update writes what it was given, and makes no row whole.
LEMMA UpsertType ==
  ASSUME NEW new \in Rows, Upsert(new)
  PROVE  /\ row' \in Rows
         /\ row'.status = new.status /\ row'.cursor = new.cursor
         /\ row'.failures = new.failures /\ row'.push = new.push
         /\ row'.kind = "full" => new.kind = "full"
BY DEF Upsert, Rows

LEMMA CountType ==
  ASSUME NEW n \in 0..Strikes
  PROVE  /\ Count(n) \in 0..Strikes /\ n <= Count(n)
         /\ \A k \in 0..Strikes : k <= n => Count(k) <= Count(n)
         /\ Count(n) >= Strikes => Count(n) = Strikes
BY DEF Count, Strikes

\* What a run keeps after its search.
LEMMA HoldingType ==
  ASSUME NEW r \in Runs, run \in [Runs -> RunTypes], NEW label \in {"enqueue", "fail"}
  PROVE  /\ Holding(r, label) \in RunTypes
         /\ Holding(r, label).pc = label
         /\ Holding(r, label).mode = run[r].mode
         /\ Holding(r, label).emx.cursor = NoCursor
         /\ Holding(r, label).emx.status = run[r].emx.status
         /\ Holding(r, label).emx.failures \in {0, run[r].emx.failures}
         /\ Holding(r, label).emx.push = FALSE
<1> DEFINE held == [NoRow EXCEPT !.status = run[r].emx.status,
                                 !.failures = IF label = "fail" THEN run[r].emx.failures
                                              ELSE 0]
<1>1. run[r] \in RunTypes /\ run[r].emx \in Rows
  BY DEF RunTypes
<1>2. /\ held \in Rows
      /\ held.cursor = NoCursor /\ held.push = FALSE
      /\ held.status = run[r].emx.status
      /\ held.failures \in {0, run[r].emx.failures}
  BY <1>1, NoRowType DEF Rows, Strikes
<1>3. Holding(r, label) = [run[r] EXCEPT !.pc = label, !.overlap = FALSE, !.emx = held]
  BY DEF Holding
<1> HIDE DEF held
<1>4. QED
  BY <1>1, <1>2, <1>3 DEF RunTypes

LEMMA StepType ==
  ASSUME NEW r \in Runs, run \in [Runs -> RunTypes], NEW new \in RunTypes, Step(r, new)
  PROVE  /\ run' \in [Runs -> RunTypes]
         /\ run'[r] = new
         /\ \A s \in Runs \ {r} : run'[s] = run[s]
BY DEF Step

-----------------------------------------------------------------------------
(* Type correctness.  A mailbox has been rebuilt at most once per event.    *)

TypeInv == TypeOK /\ \A m \in Mailboxes : epoch[m] <= events + 1

LEMMA EventType ==
  ASSUME events \in 0..MaxEvents, Event
  PROVE  events' \in 0..MaxEvents /\ events' = events + 1
BY ExchangesAssumption DEF Event

\* The row after an update, whether its failure was logged or not.
LEMMA TryUpsertType ==
  ASSUME TypeOK, NEW new \in Rows, TryUpsert(new)
  PROVE  /\ row' \in Rows
         /\ events' \in 0..MaxEvents /\ events <= events'
         /\ \/ row' = row
            \/ /\ row'.status = new.status /\ row'.cursor = new.cursor
               /\ row'.failures = new.failures /\ row'.push = new.push
               /\ row'.kind = "full" => new.kind = "full"
BY EventType, UpsertType, ExchangesAssumption DEF TypeOK, TryUpsert

LEMMA InitType == Init => TypeInv
<1> SUFFICES ASSUME Init PROVE TypeInv
  OBVIOUS
<1>1. arrived \in [Mailboxes -> Positions]
  BY PositionsAreNaturals, ExchangesAssumption DEF Init, Positions
<1>2. /\ epoch \in [Mailboxes -> 1..(MaxEvents + 1)]
      /\ \A m \in Mailboxes : epoch[m] = 1
      /\ events = 0 /\ events \in 0..MaxEvents
  BY ExchangesAssumption DEF Init
<1>3. Home \in Mailboxes /\ Fresh(Home) \in Cursors /\ 0 \in 0..Strikes
  BY <1>1, <1>2, ExchangesAssumption DEF Fresh, Cursors, Strikes
<1>4. row \in Rows /\ row.cursor.pos \in Positions
  <2>1. \A status \in {"active", "activation_failed"}, cursor \in Cursors :
          /\ NewRow(status, cursor) \in Rows
          /\ NewRow(status, cursor).cursor.pos \in Positions
    BY <1>3 DEF NewRow, Rows, Cursors
  <2>2. \/ row = NewRow("active", Fresh(Home))
        \/ row = NewRow("activation_failed", NoCursor)
    BY DEF Init
  <2>3. QED
    BY <1>3, <2>1, <2>2, NoRowType
<1>5. passed \subseteq Mails
  BY <1>3, <1>4, UpToMails DEF Init
<1>6. IdleRequest \in RequestTypes
  BY <1>3, NoRowType DEF IdleRequest, RequestTypes
<1>7. platform \in {"imap", "jmap", "gmail"} /\ supportsPush \in BOOLEAN
  BY ExchangesAssumption DEF Init
<1>8. /\ run \in [Runs -> RunTypes] /\ req \in [Requests -> RequestTypes]
      /\ subscribed \in BOOLEAN /\ recheck \in BOOLEAN /\ gone \in BOOLEAN
      /\ queued \subseteq Mails /\ lost \subseteq Mails /\ failed \in 0..Strikes
  BY <1>3, <1>6, IdleRunType DEF Init
<1>9. TypeOK
  BY <1>1, <1>2, <1>4, <1>5, <1>7, <1>8 DEF TypeOK
<1>10. \A m \in Mailboxes : epoch[m] <= events + 1
  BY <1>2
<1>11. QED
  BY <1>9, <1>10 DEF TypeInv

\* What a search finds, skips and sets as the next cursor.
LEMMA SearchType ==
  ASSUME TypeOK, NEW r \in Runs,
         SearchUids(r) \/ QueryChanges(r) \/ ListHistory(r) \/ Fallback(r)
  PROVE  \E new \in RunTypes :
           /\ Step(r, new)
           /\ new.pc = "enqueue"
           /\ new.mode = run[r].mode
           /\ new.emx.cursor = NoCursor /\ new.emx.push = FALSE
           /\ new.emx.status = run[r].emx.status
           /\ new.emx.failures \in {0, run[r].emx.failures}
           /\ UpTo(new.to.box, new.to.pos)
                \subseteq UpTo(run[r].emx.cursor.box, run[r].emx.cursor.pos)
                            \union new.found \union new.skip
           /\ platform = "gmail" =>
                \A mail \in new.skip : \E n \in Positions :
                  /\ n + HistoryPage < mail[2]
                  /\ UpTo(mail[1], n + HistoryPage) \ UpTo(mail[1], n) \subseteq new.found
<1> DEFINE emx == run[r].emx
           held == Holding(r, "enqueue")
           m == emx.config
<1>1. /\ run[r] \in RunTypes /\ emx \in Rows
      /\ emx.cursor \in Cursors /\ m \in Mailboxes /\ arrived[m] \in Positions
      /\ emx.cursor.pos \in Positions
  BY DEF TypeOK, RunTypes, Rows, Cursors
<1>2. arrived[m] \in Nat /\ emx.cursor.pos \in Nat
  BY <1>1, PositionsAreNaturals
<1>3. /\ held \in RunTypes /\ held.pc = "enqueue" /\ held.mode = run[r].mode
      /\ held.emx.cursor = NoCursor /\ held.emx.push = FALSE
      /\ held.emx.status = emx.status
      /\ held.emx.failures \in {0, emx.failures}
  BY HoldingType DEF TypeOK
<1>4. Fresh(m) \in Cursors /\ Fresh(m).box = m /\ Fresh(m).pos = arrived[m]
  BY <1>1, FreshType
<1>5. UpTo(m, arrived[m]) \subseteq Mails
  BY <1>1, UpToMails
<1>6. CASE SearchUids(r)
  <2> DEFINE from == Start(emx, run[r].overlap)
             found == Above(m, from)
             to == IF found = {} THEN emx.cursor
                   ELSE [Fresh(m) EXCEPT !.pos = from + Cardinality(found)]
             skip == IF emx.cursor.box = m THEN {} ELSE UpTo(m, from)
             new == [held EXCEPT !.found = found, !.to = to, !.skip = skip]
  <2>1. Step(r, new) /\ platform # "gmail"
    BY <1>6 DEF SearchUids
  <2>2. from \in Nat /\ from <= emx.cursor.pos
    BY <1>2, ExchangesAssumption DEF Start
  <2>3. found \subseteq UpTo(m, arrived[m])
    BY DEF Above, UpTo
  <2>4. from \in Positions
    BY <1>1, <2>2, PositionsAreNaturals
  <2>5. UpTo(m, from) \subseteq Mails
    BY <1>1, <2>4, UpToMails
  <2>6. UpTo(m, from) \subseteq UpTo(m, emx.cursor.pos)
    BY <1>2, <2>2 DEF UpTo
  <2>7. CASE found = {}
    <3>1. to = emx.cursor
      BY <2>7
    <3> HIDE DEF found, to, held, skip
    <3>2. new \in RunTypes /\ new.to = to
      BY <1>1, <1>3, <1>5, <2>3, <2>5, <3>1 DEF RunTypes, skip
    <3>3. QED
      BY <1>3, <2>1, <3>1, <3>2 DEF RunTypes
  <2>8. CASE found # {}
    <3>1. /\ from + Cardinality(found) \in Positions
          /\ UpTo(m, from + Cardinality(found)) \subseteq UpTo(m, from) \union found
      BY <1>1, <1>2, <2>2, <2>8, BatchEnd, PositionsAreNaturals
    <3>2. to \in Cursors /\ to.box = m /\ to.pos = from + Cardinality(found)
      BY <1>4, <2>8, <3>1 DEF Cursors
    <3>3. UpTo(m, from) \subseteq UpTo(emx.cursor.box, emx.cursor.pos) \union skip
      BY <2>6
    <3>4. skip \subseteq Mails
      BY <2>5
    <3> HIDE DEF found, to, held, skip, from
    <3>5. /\ new \in RunTypes /\ new.to = to /\ new.found = found /\ new.skip = skip
          /\ new.pc = held.pc /\ new.mode = held.mode /\ new.emx = held.emx
      BY <1>1, <1>3, <1>5, <2>3, <3>2, <3>4 DEF RunTypes
    <3>6. QED
      BY <1>3, <2>1, <3>1, <3>2, <3>3, <3>5
  <2>9. QED
    BY <2>7, <2>8
<1>7. CASE QueryChanges(r)
  <2> DEFINE found == UpTo(m, arrived[m]) \ UpTo(m, emx.cursor.pos)
             new == [held EXCEPT !.found = found, !.to = Fresh(m)]
  <2>1. Step(r, new) /\ emx.cursor.box = m /\ platform # "gmail"
    BY <1>7 DEF QueryChanges, Honoured
  <2>2. found \subseteq Mails
    BY <1>5
  <2>3. UpTo(m, arrived[m]) \subseteq UpTo(m, emx.cursor.pos) \union found
    OBVIOUS
  <2> HIDE DEF found, held
  <2>4. /\ new \in RunTypes /\ new.to = Fresh(m) /\ new.found = found
        /\ new.pc = held.pc /\ new.mode = held.mode /\ new.emx = held.emx
    BY <1>3, <1>4, <2>2 DEF RunTypes
  <2>5. QED
    BY <1>3, <1>4, <2>1, <2>3, <2>4
<1>8. CASE Fallback(r)
  <2> DEFINE skip == UpTo(m, arrived[m]) \ Newest(m)
             new == [held EXCEPT !.found = Newest(m), !.to = Fresh(m), !.skip = skip]
  <2>1. Step(r, new) /\ platform # "gmail"
    BY <1>8 DEF Fallback
  <2>2. Newest(m) \subseteq UpTo(m, arrived[m])
    BY DEF Newest, UpTo
  <2>3. skip \subseteq Mails /\ UpTo(m, arrived[m]) \subseteq Newest(m) \union skip
    BY <1>5
  <2> HIDE DEF skip, held
  <2>4. /\ new \in RunTypes /\ new.to = Fresh(m) /\ new.found = Newest(m)
        /\ new.skip = skip
        /\ new.pc = held.pc /\ new.mode = held.mode /\ new.emx = held.emx
    BY <1>3, <1>4, <1>5, <2>2, <2>3 DEF RunTypes
  <2>5. QED
    BY <1>3, <1>4, <2>1, <2>3, <2>4
<1>9. CASE ListHistory(r)
  <2> DEFINE from == emx.cursor.pos
             page == UpTo(m, from + HistoryPage)
             found == (UpTo(m, arrived[m]) \intersect page) \ UpTo(m, from)
             skip == UpTo(m, arrived[m]) \ page
             new == [held EXCEPT !.found = found, !.to = Fresh(m), !.skip = skip]
  <2>1. Step(r, new) /\ emx.cursor.box = m
    BY <1>9 DEF ListHistory, Honoured
  <2>2. found \subseteq Mails /\ skip \subseteq Mails
    BY <1>5
  <2>3. UpTo(m, arrived[m]) \subseteq UpTo(m, from) \union found \union skip
    OBVIOUS
  <2>4. ASSUME NEW mail \in skip
        PROVE  /\ mail[1] = m
               /\ from + HistoryPage < mail[2]
               /\ UpTo(mail[1], from + HistoryPage) \ UpTo(mail[1], from) \subseteq found
    <3>1. HistoryPage \in Nat
      BY ExchangesAssumption
    <3>2. PICK u \in 1..arrived[m] : mail = <<m, u>>
      BY DEF UpTo
    <3>3. from + HistoryPage < u
      BY <1>2, <3>1, <3>2 DEF UpTo
    <3>4. page \subseteq UpTo(m, arrived[m])
      BY <1>2, <3>1, <3>2, <3>3 DEF UpTo
    <3>5. QED
      BY <3>2, <3>3, <3>4
  <2> HIDE DEF found, skip, held
  <2>5. /\ new \in RunTypes /\ new.to = Fresh(m) /\ new.found = found
        /\ new.skip = skip
        /\ new.pc = held.pc /\ new.mode = held.mode /\ new.emx = held.emx
    BY <1>3, <1>4, <2>2 DEF RunTypes
  <2>6. \A mail \in new.skip : \E n \in Positions :
          /\ n + HistoryPage < mail[2]
          /\ UpTo(mail[1], n + HistoryPage) \ UpTo(mail[1], n) \subseteq new.found
    BY <1>1, <2>4, <2>5
  <2>7. QED
    BY <1>3, <1>4, <2>1, <2>3, <2>5, <2>6
<1>10. QED
  BY <1>6, <1>7, <1>8, <1>9

-----------------------------------------------------------------------------
(* The invariant.                                                           *)

\* A mail up to the cursor has been accounted for.
Accounted == queued \union passed \union lost
Covered(c) == UpTo(c.box, c.pos) \subseteq Accounted

\* What a run has read, found and will write: its cursor's mails are accounted
\* for, or it has found them and will queue them, or its cursor is set anew and
\* the mails are those it skips.
RunInv(r) ==
  /\ Covered(run[r].emx.cursor)
  /\ run[r].pc = "enqueue" =>
       UpTo(run[r].to.box, run[r].to.pos)
         \subseteq Accounted \union run[r].found \union run[r].skip
  /\ run[r].pc = "save" =>
       UpTo(run[r].to.box, run[r].to.pos) \subseteq Accounted \union run[r].skip
  /\ run[r].emx.status = "active"
  /\ run[r].emx.failures <= failed
  /\ (run[r].pc = "push" \/ run[r].mode = "push" \/ run[r].emx.push) => supportsPush

\* What a Gmail run leaves unread comes behind the page it has found, and has queued
\* by the time it saves the cursor.
PageInv(r) ==
  platform = "gmail" /\ ~supportsPush /\ run[r].pc \in {"enqueue", "save"} =>
    \A mail \in run[r].skip : \E n \in Positions :
      /\ n + HistoryPage < mail[2]
      /\ UpTo(mail[1], n + HistoryPage) \ UpTo(mail[1], n)
           \subseteq queued \union (IF run[r].pc = "enqueue" THEN run[r].found ELSE {})

\* A request carries the cursor of the mailbox it is about.
RequestInv(q) ==
  req[q].pc \in {"config", "timing", "reconnect"} => req[q].cursor.box = req[q].box

RowInv ==
  /\ row.failures <= failed
  /\ row.push => supportsPush
  /\ gone => row.kind # "full"

ExchangeInv ==
  /\ TypeInv
  /\ \A r \in Runs : RunInv(r) /\ PageInv(r)
  /\ \A q \in Requests : RequestInv(q)
  /\ RowInv
  /\ CursorFollowsQueue
  /\ LossesHaveCauses

-----------------------------------------------------------------------------
(* The steps of a run.                                                      *)

LEMMA NothingBeforeTheFirst ==
  ASSUME NEW m
  PROVE  UpTo(m, 0) = {}
BY DEF UpTo

LEMMA InitExchange == Init => ExchangeInv
<1> SUFFICES ASSUME Init PROVE ExchangeInv
  OBVIOUS
<1>1. TypeInv
  BY InitType
<1>2. /\ row.failures = 0 /\ row.push = FALSE /\ row.cursor.box = Home
      /\ ~gone /\ failed = 0 /\ lost = {}
  <2>1. \A status, cursor :
          /\ NewRow(status, cursor).failures = 0
          /\ NewRow(status, cursor).push = FALSE
          /\ NewRow(status, cursor).cursor = cursor
    BY DEF NewRow
  <2>2. \/ row = NewRow("active", Fresh(Home))
        \/ row = NewRow("activation_failed", NoCursor)
    BY DEF Init
  <2>3. Fresh(Home).box = Home /\ NoCursor.box = Home
    BY DEF Fresh, NoCursor
  <2>4. QED
    BY <2>1, <2>2, <2>3 DEF Init
<1>3. CursorFollowsQueue /\ LossesHaveCauses /\ RowInv
  BY <1>2 DEF Init, CursorFollowsQueue, LossesHaveCauses, RowInv
<1>4. ASSUME NEW r \in Runs
      PROVE  RunInv(r) /\ PageInv(r)
  BY <1>2, NoRowType, NothingBeforeTheFirst
     DEF Init, IdleRun, RunInv, PageInv, Covered, NoCursor
<1>5. ASSUME NEW q \in Requests
      PROVE  RequestInv(q)
  BY DEF Init, IdleRequest, RequestInv
<1>6. QED
  BY <1>1, <1>3, <1>4, <1>5 DEF ExchangeInv

\* A run that moves keeps the invariant when it keeps its own part, the row's,
\* and takes nothing out of the history.
LEMMA RunMoves ==
  ASSUME ExchangeInv, NEW r \in Runs, NEW new \in RunTypes, Step(r, new),
         UNCHANGED runFrame,
         subscribed' \in BOOLEAN, recheck' \in BOOLEAN,
         events' \in 0..MaxEvents, events <= events',
         queued \subseteq queued', queued' \subseteq Mails,
         passed' \subseteq Mails, lost' \subseteq Mails,
         Accounted \subseteq Accounted',
         failed' \in 0..Strikes, failed <= failed',
         LossesHaveCauses',
         RunInv(r)', PageInv(r)',
         row' \in Rows, RowInv', CursorFollowsQueue'
  PROVE  ExchangeInv'
<1>1. TypeInv'
  <2>1. run' \in [Runs -> RunTypes]
    BY StepType DEF ExchangeInv, TypeInv, TypeOK
  <2>2. TypeOK'
    BY <2>1 DEF ExchangeInv, TypeInv, TypeOK, runFrame, mailboxVars
  <2>3. \A m \in Mailboxes : epoch'[m] <= events' + 1
    BY ExchangesAssumption DEF ExchangeInv, TypeInv, TypeOK, runFrame, mailboxVars
  <2>4. QED
    BY <2>2, <2>3 DEF TypeInv
<1>2. ASSUME NEW s \in Runs \ {r}
      PROVE  RunInv(s)' /\ PageInv(s)'
  <2>1. /\ run'[s] = run[s] /\ RunInv(s) /\ PageInv(s)
        /\ supportsPush' = supportsPush /\ platform' = platform
    BY StepType DEF ExchangeInv, TypeInv, TypeOK, runFrame, mailboxVars
  <2>2. run[s].emx.failures <= failed'
    BY <2>1 DEF ExchangeInv, TypeInv, TypeOK, RunTypes, Rows, Strikes, RunInv
  <2>3. PageInv(s)'
    BY <2>1 DEF PageInv
  <2>4. QED
    BY <2>1, <2>2, <2>3 DEF RunInv, Covered
<1>3. \A q \in Requests : RequestInv(q)'
  BY DEF ExchangeInv, RequestInv, runFrame
<1>4. QED
  BY <1>1, <1>2, <1>3 DEF ExchangeInv

\* An idle run knows nothing that could be out of date.
LEMMA IdleRunInv ==
  ASSUME NEW r \in Runs, run' \in [Runs -> RunTypes], run'[r] = IdleRun, failed' \in Nat
  PROVE  RunInv(r)' /\ PageInv(r)'
BY NoRowType, NothingBeforeTheFirst DEF IdleRun, RunInv, PageInv, Covered, NoCursor

LEMMA Facts ==
  ASSUME ExchangeInv
  PROVE  /\ TypeOK /\ run \in [Runs -> RunTypes] /\ row \in Rows
         /\ failed \in 0..Strikes /\ failed \in Nat
         /\ events \in 0..MaxEvents /\ events \in Nat
         /\ RowInv /\ CursorFollowsQueue
         /\ LossesHaveCauses
BY ExchangesAssumption
   DEF ExchangeInv, TypeInv, TypeOK, Strikes

\* A page that was queued stays queued.
LEMMA LossesStay ==
  ASSUME LossesHaveCauses, lost' = lost, queued \subseteq queued',
         UNCHANGED <<platform, supportsPush>>
  PROVE  LossesHaveCauses'
BY DEF LossesHaveCauses, BehindPage

\* A run that ends, having changed no more than the row, within its invariant.
LEMMA RunEnds ==
  ASSUME ExchangeInv, NEW r \in Runs, Finish(r), UNCHANGED runFrame,
         UNCHANGED <<subscribed, recheck, queued>>,
         events' \in 0..MaxEvents, events <= events',
         passed \subseteq passed', passed' \subseteq Mails,
         lost \subseteq lost', lost' \subseteq Mails, LossesHaveCauses',
         failed' \in 0..Strikes, failed <= failed',
         row' \in Rows, RowInv', CursorFollowsQueue'
  PROVE  ExchangeInv'
<1>1. /\ Step(r, IdleRun) /\ IdleRun \in RunTypes
      /\ run' \in [Runs -> RunTypes] /\ run'[r] = IdleRun
  BY IdleRunType, StepType, Facts DEF Finish
<1>2. RunInv(r)' /\ PageInv(r)'
  BY <1>1, IdleRunInv DEF Strikes
<1>3. /\ Accounted \subseteq Accounted'
      /\ subscribed' \in BOOLEAN /\ recheck' \in BOOLEAN
      /\ queued \subseteq queued' /\ queued' \subseteq Mails
  BY Facts DEF Accounted, TypeOK
<1>4. QED
  BY <1>1, <1>2, <1>3, RunMoves

LEMMA SameRow ==
  ASSUME ExchangeInv, row' = row, UNCHANGED <<gone, supportsPush>>,
         Accounted \subseteq Accounted',
         failed' \in 0..Strikes, failed <= failed'
  PROVE  row' \in Rows /\ RowInv' /\ CursorFollowsQueue'
<1>1. row.failures <= failed'
  BY Facts DEF RowInv, Rows, Strikes
<1>2. QED
  BY <1>1, Facts DEF RowInv, CursorFollowsQueue, Accounted

\* The row after an update keeps its invariant when what is written does.
LEMMA UpdatedRow ==
  ASSUME ExchangeInv, NEW new \in Rows, Upsert(new) \/ TryUpsert(new),
         new.kind = row.kind,
         new.failures <= failed', new.push => supportsPush,
         UpTo(new.cursor.box, new.cursor.pos) \subseteq Accounted',
         UNCHANGED <<gone, supportsPush>>, Accounted \subseteq Accounted',
         failed' \in 0..Strikes, failed <= failed'
  PROVE  row' \in Rows /\ RowInv' /\ CursorFollowsQueue'
<1>1. CASE row' = row
  BY <1>1, SameRow
<1>2. CASE row' # row
  <2>1. Upsert(new)
    BY <1>2 DEF TryUpsert
  <2>2. /\ row' \in Rows /\ row'.cursor = new.cursor
        /\ row'.failures = new.failures /\ row'.push = new.push
        /\ row'.kind = "full" => row.kind = "full"
    BY <2>1, UpsertType
  <2>3. QED
    BY <2>2, Facts DEF RowInv, CursorFollowsQueue, Accounted
<1>3. QED
  BY <1>1, <1>2

\* emx_dispatch, and Gmail's webhook, start from the row as it is.
LEMMA StartInv ==
  ASSUME ExchangeInv, NEW r \in Runs,
         (\E overlap \in BOOLEAN : Dispatch(r, overlap)) \/ Notify(r)
  PROVE  ExchangeInv'
<1>1. PICK new \in RunTypes :
        /\ Step(r, new) /\ Dispatchable
        /\ new.emx = row
        /\ new.pc \in {"watch", "push", "search"} /\ new.mode \in {"poll", "webhook"}
        /\ new.pc = "push" => supportsPush
  <2>1. /\ IdleRun \in RunTypes /\ IdleRun.mode = "poll" /\ row \in Rows
        /\ row.push => supportsPush
    BY IdleRunType, Facts DEF IdleRun, RowInv
  <2>2. ASSUME NEW overlap \in BOOLEAN, Dispatch(r, overlap)
        PROVE  \E new \in RunTypes :
                 /\ Step(r, new) /\ Dispatchable
                 /\ new.emx = row
                 /\ new.pc \in {"watch", "push", "search"} /\ new.mode = "poll"
                 /\ new.pc = "push" => supportsPush
    <3> DEFINE label == CASE platform = "gmail" -> "watch"
                          [] platform # "gmail" /\ (supportsPush \/ row.push) -> "push"
                          [] OTHER -> "search"
               new == [IdleRun EXCEPT !.pc = label, !.emx = row, !.overlap = overlap]
    <3>1. /\ label \in {"watch", "push", "search"}
          /\ label = "push" => supportsPush
      BY <2>1
    <3>2. Step(r, new) /\ Dispatchable
      BY <2>2 DEF Dispatch
    <3> HIDE DEF label
    <3>3. /\ new \in RunTypes /\ new.emx = row /\ new.pc = label /\ new.mode = "poll"
      BY <2>1, <3>1 DEF RunTypes
    <3>4. QED
      BY <3>1, <3>2, <3>3
  <2>3. ASSUME Notify(r)
        PROVE  \E new \in RunTypes :
                 /\ Step(r, new) /\ Dispatchable
                 /\ new.emx = row /\ new.pc = "search" /\ new.mode = "webhook"
    <3> DEFINE new == [IdleRun EXCEPT !.pc = "search", !.emx = row, !.mode = "webhook"]
    <3>1. Step(r, new) /\ Dispatchable
      BY <2>3 DEF Notify
    <3>2. new \in RunTypes /\ new.emx = row /\ new.pc = "search" /\ new.mode = "webhook"
      BY <2>1 DEF RunTypes
    <3>3. QED
      BY <3>1, <3>2
  <2>4. QED
    BY <2>2, <2>3
<1>2. /\ UNCHANGED runFrame
      /\ UNCHANGED <<subscribed, row, queued, passed, lost, failed, events>>
      /\ recheck' \in BOOLEAN
  BY Facts DEF Dispatch, Notify, TypeOK
<1>3. run'[r] = new
  BY <1>1, StepType, Facts
<1>4. row' \in Rows /\ RowInv' /\ CursorFollowsQueue'
  BY <1>2, SameRow, Facts DEF runFrame, mailboxVars, Accounted
<1>5. RunInv(r)'
  BY <1>1, <1>2, <1>3, Facts
     DEF RunInv, RowInv, Covered, CursorFollowsQueue, Accounted, Dispatchable,
         runFrame, mailboxVars
<1>6. PageInv(r)' /\ LossesHaveCauses'
  BY <1>1, <1>2, <1>3, LossesStay, Facts DEF PageInv, runFrame, mailboxVars
<1>7. QED
  BY <1>1, <1>2, <1>4, <1>5, <1>6, RunMoves, Facts DEF TypeOK, Accounted

LEMMA RenewWatchInv ==
  ASSUME ExchangeInv, NEW r \in Runs, RenewWatch(r)
  PROVE  ExchangeInv'
<1>1. /\ Finish(r)
      /\ UNCHANGED <<runFrame, subscribed, recheck, queued, passed, lost, failed>>
  BY DEF RenewWatch
<1>2. PICK upd \in Rows :
        /\ TryUpsert(upd)
        /\ upd.kind = row.kind /\ upd.failures = row.failures
        /\ upd.push = row.push /\ upd.cursor = row.cursor
  <2> DEFINE upd == [row EXCEPT !.status = run[r].emx.status]
  <2>1. /\ upd \in Rows /\ upd.kind = row.kind /\ upd.failures = row.failures
        /\ upd.push = row.push /\ upd.cursor = row.cursor
    BY Facts DEF Rows, RunTypes
  <2>2. TryUpsert(upd)
    BY DEF RenewWatch
  <2>3. QED
    BY <2>1, <2>2
<1>3. events' \in 0..MaxEvents /\ events <= events'
  BY <1>2, TryUpsertType, Facts
<1>4. UNCHANGED <<gone, supportsPush>> /\ Accounted' = Accounted
  BY <1>1 DEF runFrame, mailboxVars, Accounted
<1>5. row' \in Rows /\ RowInv' /\ CursorFollowsQueue'
  <2>1. /\ upd.failures <= failed' /\ (upd.push => supportsPush)
        /\ UpTo(upd.cursor.box, upd.cursor.pos) \subseteq Accounted'
    BY <1>1, <1>2, <1>4, Facts DEF RowInv, CursorFollowsQueue, Accounted
  <2>2. QED
    BY <1>1, <1>2, <1>4, <2>1, UpdatedRow, Facts
<1>6. LossesHaveCauses'
  BY <1>1, LossesStay, Facts DEF runFrame, mailboxVars
<1>7. QED
  BY <1>1, <1>3, <1>5, <1>6, RunEnds, Facts DEF TypeOK

\* handlePushSubscription: whatever comes of it, the run goes on to search.
LEMMA PushInv ==
  ASSUME ExchangeInv, NEW r \in Runs, Push(r)
  PROVE  ExchangeInv'
<1> DEFINE emx == run[r].emx
<1>1. /\ UNCHANGED <<runFrame, recheck, queued, passed, lost, failed>>
      /\ run[r].pc = "push"
  BY DEF Push
<1>2. /\ run[r] \in RunTypes /\ emx \in Rows /\ RunInv(r) /\ supportsPush
  BY <1>1, Facts DEF ExchangeInv, RunTypes, RunInv
<1>3. PICK mode \in {"push", "poll"} : Step(r, [run[r] EXCEPT !.pc = "search", !.mode = mode])
  BY DEF Push
<1> DEFINE new == [run[r] EXCEPT !.pc = "search", !.mode = mode]
<1>4. new \in RunTypes /\ new.pc = "search" /\ new.mode = mode /\ new.emx = emx
  BY <1>2 DEF RunTypes
<1>5. run'[r] = new
  BY <1>3, <1>4, StepType, Facts
<1>6. RunInv(r)'
  BY <1>1, <1>2, <1>4, <1>5
     DEF RunInv, Covered, Accounted, runFrame, mailboxVars
<1>7. /\ subscribed' \in BOOLEAN
      /\ \/ \E upd \in Rows : /\ Upsert(upd) \/ TryUpsert(upd)
                              /\ upd.kind = row.kind /\ upd.cursor = row.cursor
                              /\ upd.failures \in {0, row.failures}
         \/ row' = row
      /\ events' \in 0..MaxEvents /\ events <= events'
  <2>1. /\ emx.status \in {"active", "activation_failed"}
        /\ row.failures \in 0..Strikes /\ 0 \in 0..Strikes
    BY <1>2, Facts DEF Rows, Strikes
  <2> DEFINE kept(upd) == /\ upd \in Rows /\ upd.kind = row.kind
                          /\ upd.cursor = row.cursor
                          /\ upd.failures \in {0, row.failures}
  <2>2. kept([row EXCEPT !.status = emx.status, !.push = TRUE, !.failures = 0])
    BY <2>1, Facts DEF Rows
  <2>3. kept([row EXCEPT !.status = emx.status, !.failures = 0])
    BY <2>1, Facts DEF Rows
  <2>4. kept([row EXCEPT !.status = emx.status, !.push = FALSE])
    BY <2>1, Facts DEF Rows
  <2>5. \/ \E upd \in Rows : kept(upd) /\ (Upsert(upd) \/ TryUpsert(upd))
        \/ row' = row
    BY <2>2, <2>3, <2>4 DEF Push
  <2>6. events' \in 0..MaxEvents /\ events <= events'
    BY <2>2, <2>3, <2>4, TryUpsertType, EventType, Facts DEF Push
  <2>7. subscribed' \in BOOLEAN
    BY Facts DEF Push, TypeOK
  <2>8. QED
    BY <2>5, <2>6, <2>7
<1>8. row' \in Rows /\ RowInv' /\ CursorFollowsQueue'
  <2>1. UNCHANGED <<gone, supportsPush>> /\ Accounted' = Accounted
    BY <1>1 DEF runFrame, mailboxVars, Accounted
  <2>2. CASE row' = row
    BY <1>1, <2>1, <2>2, SameRow, Facts
  <2>3. ASSUME NEW upd \in Rows, Upsert(upd) \/ TryUpsert(upd),
               upd.kind = row.kind, upd.cursor = row.cursor,
               upd.failures \in {0, row.failures}
        PROVE  row' \in Rows /\ RowInv' /\ CursorFollowsQueue'
    <3>1. /\ upd.failures <= failed'
          /\ UpTo(upd.cursor.box, upd.cursor.pos) \subseteq Accounted'
      BY <1>1, <2>1, <2>3, Facts DEF RowInv, CursorFollowsQueue, Accounted
    <3>2. QED
      BY <1>1, <1>2, <2>1, <2>3, <3>1, UpdatedRow, Facts
  <2>4. QED
    BY <1>7, <2>2, <2>3
<1>9. PageInv(r)' /\ LossesHaveCauses'
  BY <1>1, <1>4, <1>5, LossesStay, Facts DEF PageInv, runFrame, mailboxVars
<1>10. QED
  BY <1>1, <1>3, <1>4, <1>6, <1>7, <1>8, <1>9, RunMoves, Facts DEF TypeOK, Accounted

LEMMA SearchInv ==
  ASSUME ExchangeInv, NEW r \in Runs, Search(r)
  PROVE  ExchangeInv'
<1>1. /\ UNCHANGED <<runFrame, subscribed, row, recheck, queued, passed, lost, failed>>
      /\ run[r] \in RunTypes /\ RunInv(r)
  BY Facts DEF Search, ExchangeInv
<1>2. /\ UNCHANGED <<gone, supportsPush>> /\ Accounted' = Accounted
      /\ failed' \in 0..Strikes /\ failed <= failed'
  BY <1>1, Facts DEF runFrame, mailboxVars, Accounted
<1>3. row' \in Rows /\ RowInv' /\ CursorFollowsQueue'
  BY <1>1, <1>2, SameRow
<1>4. events' \in 0..MaxEvents /\ events <= events'
  BY Facts, EventType DEF Search
<1>5. UpTo(NoCursor.box, NoCursor.pos) = {} /\ LossesHaveCauses'
  BY <1>1, NothingBeforeTheFirst, LossesStay, Facts DEF NoCursor, runFrame, mailboxVars
<1>6. CASE SearchUids(r) \/ QueryChanges(r) \/ ListHistory(r) \/ Fallback(r)
  <2>1. PICK new \in RunTypes :
           /\ Step(r, new)
           /\ new.pc = "enqueue"
           /\ new.mode = run[r].mode
           /\ new.emx.cursor = NoCursor /\ new.emx.push = FALSE
           /\ new.emx.status = run[r].emx.status
           /\ new.emx.failures \in {0, run[r].emx.failures}
           /\ UpTo(new.to.box, new.to.pos)
                \subseteq UpTo(run[r].emx.cursor.box, run[r].emx.cursor.pos)
                            \union new.found \union new.skip
           /\ platform = "gmail" =>
                \A mail \in new.skip : \E n \in Positions :
                  /\ n + HistoryPage < mail[2]
                  /\ UpTo(mail[1], n + HistoryPage) \ UpTo(mail[1], n) \subseteq new.found
    BY <1>6, SearchType, Facts
  <2>2. run'[r] = new
    BY <2>1, StepType, Facts
  <2>3. RunInv(r)'
    BY <1>1, <1>2, <1>5, <2>1, <2>2, Facts DEF RunInv, Covered
  <2>4. platform' = platform /\ queued' = queued
    BY <1>1 DEF runFrame, mailboxVars
  <2>5. PageInv(r)'
    BY <2>1, <2>2, <2>4 DEF PageInv
  <2>6. QED
    BY <1>1, <1>2, <1>3, <1>4, <1>5, <2>1, <2>3, <2>5, RunMoves, Facts DEF TypeOK
<1>7. CASE GiveUp(r) /\ run[r].mode = "poll"
  <2>1. PICK new \in RunTypes :
           /\ Step(r, new)
           /\ new.pc = "fail"
           /\ new.mode = run[r].mode
           /\ new.emx.cursor = NoCursor /\ new.emx.push = FALSE
           /\ new.emx.status = run[r].emx.status
           /\ new.emx.failures \in {0, run[r].emx.failures}
    BY <1>7, HoldingType, Facts DEF GiveUp
  <2>2. run'[r] = new
    BY <2>1, StepType, Facts
  <2>3. RunInv(r)'
    BY <1>1, <1>2, <1>5, <2>1, <2>2, Facts DEF RunInv, Covered
  <2>4. PageInv(r)'
    BY <2>1, <2>2 DEF PageInv
  <2>5. QED
    BY <1>1, <1>2, <1>3, <1>4, <1>5, <2>1, <2>3, <2>4, RunMoves, Facts DEF TypeOK
<1>8. CASE GiveUp(r) /\ run[r].mode # "poll"
  <2>1. Finish(r)
    BY <1>8 DEF GiveUp
  <2>2. QED
    BY <1>1, <1>2, <1>3, <1>4, <1>5, <2>1, RunEnds, Facts DEF TypeOK
<1>9. QED
  BY <1>6, <1>7, <1>8 DEF Search

\* sendBatch: what was found is queued, or the run ends, or, in a push sync, the
\* rest is lost.
LEMMA EnqueueInv ==
  ASSUME ExchangeInv, NEW r \in Runs, Enqueue(r)
  PROVE  ExchangeInv'
<1>1. /\ UNCHANGED <<runFrame, subscribed, row, recheck, passed, failed>>
      /\ run[r] \in RunTypes /\ RunInv(r) /\ run[r].pc = "enqueue"
      /\ run[r].found \subseteq Mails
  BY Facts DEF Enqueue, ExchangeInv, RunTypes
<1>2. /\ queued \subseteq queued' /\ lost \subseteq lost'
      /\ queued' \subseteq Mails /\ lost' \subseteq Mails
      /\ events' \in 0..MaxEvents /\ events <= events'
  BY <1>1, Facts, EventType DEF Enqueue, TypeOK
<1>3. /\ UNCHANGED <<gone, supportsPush>> /\ Accounted \subseteq Accounted'
      /\ failed' \in 0..Strikes /\ failed <= failed'
  BY <1>1, <1>2, Facts DEF runFrame, mailboxVars, Accounted
<1>4. row' \in Rows /\ RowInv' /\ CursorFollowsQueue'
  BY <1>1, <1>3, SameRow
<1>5. LossesHaveCauses'
  <2>1. CASE lost' = lost
    BY <1>1, <1>2, <2>1, LossesStay, Facts DEF runFrame, mailboxVars
  <2>2. CASE lost' # lost
    BY <1>1, <1>3, <2>2 DEF Enqueue, RunInv, LossesHaveCauses
  <2>3. QED
    BY <2>1, <2>2
<1>6. CASE Finish(r)
  <2>1. run'[r] = IdleRun /\ run' \in [Runs -> RunTypes]
    BY <1>6, StepType, IdleRunType, Facts DEF Finish
  <2>2. RunInv(r)' /\ PageInv(r)'
    BY <1>3, <2>1, IdleRunInv DEF Strikes
  <2>3. QED
    BY <1>1, <1>2, <1>3, <1>4, <1>5, <1>6, <2>2, RunMoves, IdleRunType, Facts
       DEF Finish, TypeOK
<1>7. CASE /\ Step(r, [run[r] EXCEPT !.pc = "save"])
           /\ run[r].found \subseteq queued' \union lost'
           /\ run[r].found \subseteq queued' \/ supportsPush
  <2> DEFINE new == [run[r] EXCEPT !.pc = "save"]
  <2>1. /\ new \in RunTypes /\ new.pc = "save" /\ new.emx = run[r].emx
        /\ new.to = run[r].to /\ new.skip = run[r].skip /\ new.mode = run[r].mode
    BY <1>1 DEF RunTypes
  <2>2. run'[r] = new
    BY <1>7, <2>1, StepType, Facts
  <2>3. run[r].found \subseteq Accounted'
    BY <1>7 DEF Accounted
  <2>4. RunInv(r)'
    BY <1>1, <1>3, <2>1, <2>2, <2>3, Facts DEF RunInv, Covered
  <2>5. PageInv(r)'
    <3>1. platform' = platform /\ PageInv(r)
      BY <1>1 DEF ExchangeInv, runFrame, mailboxVars
    <3>2. QED
      BY <1>1, <1>2, <1>3, <1>7, <2>1, <2>2, <3>1 DEF PageInv
  <2>6. QED
    BY <1>1, <1>2, <1>3, <1>4, <1>5, <1>7, <2>1, <2>4, <2>5, RunMoves, Facts DEF TypeOK
<1>8. QED
  <2>1. run[r].mode = "push" => supportsPush
    BY <1>1 DEF RunInv
  <2>2. QED
    BY <1>6, <1>7, <2>1 DEF Enqueue

\* The cursor is moved; the mails it passes over were queued, are lost, or are
\* among those it skips.
\* What a run saves: the row as it is, with the run's status and cursor.
LEMMA SyncedType ==
  ASSUME ExchangeInv, NEW r \in Runs
  PROVE  /\ Synced(r) \in Rows
         /\ Synced(r).status = run[r].emx.status
         /\ Synced(r).kind = row.kind /\ Synced(r).push = row.push
         /\ Synced(r).failures \in {0, row.failures}
         /\ Synced(r).cursor \in {row.cursor, run[r].to}
<1> DEFINE cursor == IF platform = "imap" /\ run[r].found = {} THEN row.cursor
                     ELSE run[r].to
           failures == IF run[r].mode = "poll" THEN 0 ELSE row.failures
<1>1. /\ cursor \in Cursors /\ failures \in 0..Strikes
      /\ cursor \in {row.cursor, run[r].to} /\ failures \in {0, row.failures}
      /\ run[r].emx.status \in {"active", "activation_failed"}
  BY Facts DEF ExchangeInv, RunTypes, Rows, Strikes
<1>2. Synced(r) = [row EXCEPT !.status = run[r].emx.status, !.cursor = cursor,
                              !.failures = failures]
  BY DEF Synced
<1> HIDE DEF cursor, failures
<1>3. /\ Synced(r) \in Rows
      /\ Synced(r).status = run[r].emx.status
      /\ Synced(r).kind = row.kind /\ Synced(r).push = row.push
      /\ Synced(r).failures = failures /\ Synced(r).cursor = cursor
  BY <1>1, <1>2, Facts DEF Rows
<1>4. QED
  BY <1>1, <1>3

LEMMA SaveInv ==
  ASSUME ExchangeInv, NEW r \in Runs, Save(r)
  PROVE  ExchangeInv'
<1>1. /\ UNCHANGED <<runFrame, subscribed, recheck, queued, failed>>
      /\ run[r] \in RunTypes /\ RunInv(r) /\ run[r].pc = "save"
      /\ run[r].skip \subseteq Mails /\ Finish(r)
  BY Facts DEF Save, ExchangeInv, RunTypes
<1>2. /\ passed \subseteq passed' /\ passed' \subseteq Mails
      /\ lost \subseteq lost' /\ lost' \subseteq Mails
      /\ events' \in 0..MaxEvents /\ events <= events'
  BY <1>1, Facts, EventType DEF Save, TypeOK
<1>3. /\ UNCHANGED <<gone, supportsPush>> /\ Accounted \subseteq Accounted'
      /\ failed' \in 0..Strikes /\ failed <= failed'
  BY <1>1, <1>2, Facts DEF runFrame, mailboxVars, Accounted
<1>4. CASE row' = row /\ lost' = lost
  <2>1. LossesHaveCauses'
    BY <1>1, <1>4, LossesStay, Facts DEF runFrame, mailboxVars
  <2>2. QED
    BY <1>1, <1>2, <1>3, <1>4, <2>1, SameRow, RunEnds
<1>5. CASE /\ Upsert(Synced(r))
           /\ run[r].skip \subseteq passed' \union lost'
           /\ lost' = lost \/ (platform = "gmail" /\ lost' = lost \union run[r].skip)
  <2>0. LossesHaveCauses'
    <3>1. UNCHANGED <<platform, supportsPush, queued>> /\ PageInv(r)
      BY <1>1 DEF ExchangeInv, runFrame, mailboxVars
    <3>2. CASE lost' = lost
      BY <3>1, <3>2, LossesStay, Facts
    <3>3. CASE platform = "gmail" /\ lost' = lost \union run[r].skip
      <4>1. ~supportsPush => \A mail \in run[r].skip : BehindPage(mail[1], mail[2])
        BY <1>1, <3>1, <3>3 DEF PageInv, BehindPage
      <4>2. QED
        BY <3>1, <3>3, <4>1, Facts DEF LossesHaveCauses, BehindPage
    <3>4. QED
      BY <1>5, <3>2, <3>3
  <2>1. PICK upd \in Rows :
          /\ Upsert(upd)
          /\ upd.kind = row.kind /\ upd.push = row.push
          /\ upd.failures \in {0, row.failures}
          /\ upd.cursor \in {row.cursor, run[r].to}
    BY <1>5, SyncedType
  <2>2. UpTo(row.cursor.box, row.cursor.pos) \subseteq Accounted'
    BY <1>3, Facts DEF CursorFollowsQueue, Accounted
  <2>3. UpTo(run[r].to.box, run[r].to.pos) \subseteq Accounted'
    BY <1>1, <1>3, <1>5 DEF RunInv, Accounted
  <2>4. /\ upd.failures <= failed' /\ (upd.push => supportsPush)
        /\ UpTo(upd.cursor.box, upd.cursor.pos) \subseteq Accounted'
    BY <1>1, <2>1, <2>2, <2>3, Facts DEF RowInv
  <2>5. row' \in Rows /\ RowInv' /\ CursorFollowsQueue'
    BY <1>3, <2>1, <2>4, UpdatedRow
  <2>6. QED
    BY <1>1, <1>2, <1>3, <2>0, <2>5, RunEnds
<1>6. QED
  BY <1>4, <1>5 DEF Save

LEMMA FailureInv ==
  ASSUME ExchangeInv, NEW r \in Runs, HandleRenewalFailure(r)
  PROVE  ExchangeInv' /\ (row.status = "active" /\ row'.status = "activation_failed"
                            => failed' = Strikes)
<1>1. /\ UNCHANGED <<runFrame, subscribed, recheck, queued, passed, lost>>
      /\ Finish(r) /\ failed' = Count(failed)
      /\ run[r] \in RunTypes /\ RunInv(r) /\ run[r].emx.failures \in 0..Strikes
  BY Facts DEF HandleRenewalFailure, ExchangeInv, RunTypes, Rows
<1>2. /\ UNCHANGED <<gone, supportsPush>> /\ Accounted' = Accounted
      /\ failed' \in 0..Strikes /\ failed <= failed'
  BY <1>1, CountType, Facts DEF runFrame, mailboxVars, Accounted
<1> DEFINE failures == Count(run[r].emx.failures)
           status == IF failures >= Strikes THEN "activation_failed"
                     ELSE run[r].emx.status
<1>3. /\ failures \in 0..Strikes /\ failures <= failed'
      /\ failures >= Strikes => failed' = Strikes
  <2>1. run[r].emx.failures <= failed
    BY <1>1 DEF RunInv
  <2>2. failures \in 0..Strikes /\ failures <= Count(failed)
    BY <1>1, <2>1, CountType, Facts
  <2>3. QED
    BY <1>1, <1>2, <2>2 DEF Strikes
<1>4. status \in {"active", "activation_failed"}
  BY <1>1 DEF RunTypes, Rows
<1>5. PICK upd \in Rows :
        /\ TryUpsert(upd)
        /\ upd.kind = row.kind /\ upd.push = row.push /\ upd.cursor = row.cursor
        /\ upd.failures = failures /\ upd.status = status
  <2> DEFINE upd == [row EXCEPT !.failures = failures, !.status = status]
  <2>1. TryUpsert(upd)
    BY DEF HandleRenewalFailure
  <2> HIDE DEF failures, status
  <2>2. /\ upd \in Rows /\ upd.kind = row.kind /\ upd.push = row.push
        /\ upd.cursor = row.cursor /\ upd.failures = failures /\ upd.status = status
    BY <1>3, <1>4, Facts DEF Rows
  <2>3. QED
    BY <2>1, <2>2
<1> HIDE DEF failures
<1>6. events' \in 0..MaxEvents /\ events <= events'
  BY <1>5, TryUpsertType, Facts
<1>7. row' \in Rows /\ RowInv' /\ CursorFollowsQueue'
  <2>1. /\ upd.failures <= failed' /\ (upd.push => supportsPush)
        /\ UpTo(upd.cursor.box, upd.cursor.pos) \subseteq Accounted'
    BY <1>2, <1>3, <1>5, Facts DEF RowInv, CursorFollowsQueue, Accounted
  <2>2. QED
    BY <1>2, <1>5, <2>1, UpdatedRow
<1>8. ExchangeInv'
  <2>1. LossesHaveCauses'
    BY <1>1, LossesStay, Facts DEF runFrame, mailboxVars
  <2>2. QED
    BY <1>1, <1>2, <1>6, <1>7, <2>1, RunEnds, Facts DEF TypeOK
<1>9. row.status = "active" /\ row'.status = "activation_failed" => failed' = Strikes
  <2>1. row' = row \/ row'.status = status
    BY <1>5, UpsertType DEF TryUpsert
  <2>2. run[r].emx.status = "active"
    BY <1>1 DEF RunInv
  <2>3. QED
    BY <1>3, <2>1, <2>2
<1>10. QED
  BY <1>8, <1>9

LEMMA CrashInv ==
  ASSUME ExchangeInv, NEW r \in Runs, Crash(r)
  PROVE  ExchangeInv'
<1>1. /\ UNCHANGED <<runFrame, subscribed, row, recheck, queued, passed, lost, failed>>
      /\ Finish(r)
      /\ events' \in 0..MaxEvents /\ events <= events'
  BY Facts, EventType DEF Crash
<1>2. /\ UNCHANGED <<gone, supportsPush>> /\ Accounted' = Accounted
      /\ failed' \in 0..Strikes /\ failed <= failed'
  BY <1>1, Facts DEF runFrame, mailboxVars, Accounted
<1>3. LossesHaveCauses'
  BY <1>1, LossesStay, Facts DEF runFrame, mailboxVars
<1>4. QED
  BY <1>1, <1>2, <1>3, SameRow, RunEnds, Facts DEF TypeOK

-----------------------------------------------------------------------------
(* The steps of a request, and of the mailbox.                              *)

LEMMA RequestMoves ==
  ASSUME ExchangeInv, NEW q \in Requests, NEW new \in RequestTypes,
         req' = [req EXCEPT ![q] = new], UNCHANGED requestFrame,
         recheck' \in BOOLEAN, gone' \in BOOLEAN,
         events' \in 0..MaxEvents, events <= events',
         passed \subseteq passed', passed' \subseteq Mails,
         new.pc \in {"config", "timing", "reconnect"} => new.cursor.box = new.box,
         row' \in Rows, RowInv', CursorFollowsQueue'
  PROVE  ExchangeInv'
<1>1. req' \in [Requests -> RequestTypes] /\ req'[q] = new
      /\ \A p \in Requests \ {q} : req'[p] = req[p]
  BY DEF ExchangeInv, TypeInv, TypeOK
<1>2. UNCHANGED <<platform, supportsPush, arrived, epoch, subscribed, run, queued,
                  lost, failed>>
  BY DEF requestFrame, mailboxVars
<1>3. TypeInv'
  <2>1. TypeOK'
    BY <1>1, <1>2 DEF ExchangeInv, TypeInv, TypeOK
  <2>2. \A m \in Mailboxes : epoch'[m] <= events' + 1
    BY <1>2, ExchangesAssumption DEF ExchangeInv, TypeInv, TypeOK
  <2>3. QED
    BY <2>1, <2>2 DEF TypeInv
<1>4. \A r \in Runs : RunInv(r)' /\ PageInv(r)'
  BY <1>2 DEF ExchangeInv, RunInv, PageInv, Covered, Accounted
<1>5. \A p \in Requests : RequestInv(p)'
  BY <1>1 DEF ExchangeInv, RequestInv
<1>6. LossesHaveCauses'
  BY <1>2, LossesStay, Facts
<1>7. QED
  BY <1>3, <1>4, <1>5, <1>6 DEF ExchangeInv

\* What a request has when it goes on to its next write, or is answered.
LEMMA RequestType ==
  ASSUME ExchangeInv, NEW q \in Requests
  PROVE  /\ req[q] \in RequestTypes /\ RequestInv(q)
         /\ req[q].cursor \in Cursors /\ req[q].box \in Mailboxes
         /\ req[q].status \in {"active", "activation_failed"}
         /\ IdleRequest \in RequestTypes /\ IdleRequest.pc = "idle"
         /\ \A label \in {"timing", "reactivate", "trigger", "delete"} :
              /\ [req[q] EXCEPT !.pc = label] \in RequestTypes
              /\ [req[q] EXCEPT !.pc = label].pc = label
              /\ [req[q] EXCEPT !.pc = label].cursor = req[q].cursor
              /\ [req[q] EXCEPT !.pc = label].box = req[q].box
<1>1. req[q] \in RequestTypes /\ RequestInv(q)
  BY DEF ExchangeInv, TypeInv, TypeOK
<1>2. IdleRequest \in RequestTypes /\ IdleRequest.pc = "idle"
  BY NoRowType, ExchangesAssumption DEF IdleRequest, RequestTypes
<1>3. QED
  BY <1>1, <1>2 DEF RequestTypes

LEMMA GoMoves ==
  ASSUME ExchangeInv, NEW q \in Requests,
         NEW label \in {"timing", "reactivate", "trigger", "delete"}, Go(q, label)
  PROVE  req' = [req EXCEPT ![q] = [req[q] EXCEPT !.pc = label]]
BY DEF Go

\* A request that leaves the row and the history alone.
LEMMA QuietRequest ==
  ASSUME ExchangeInv, NEW q \in Requests,
         \/ \E m \in Mailboxes : Patch(q, m)
         \/ Activate(q) \/ TriggerDispatch(q) \/ Delete(q) \/ Abort(q)
  PROVE  ExchangeInv'
<1>1. /\ UNCHANGED <<requestFrame, row, passed, gone>>
      /\ recheck' \in BOOLEAN
      /\ events' \in 0..MaxEvents /\ events <= events'
  <2>1. /\ events \in 0..MaxEvents /\ recheck \in BOOLEAN
        /\ Event => events' \in 0..MaxEvents /\ events <= events'
    BY Facts, EventType DEF TypeOK
  <2>2. CASE Activate(q)
    BY <2>1, <2>2 DEF Activate
  <2>3. CASE TriggerDispatch(q)
    BY <2>1, <2>3 DEF TriggerDispatch
  <2>4. CASE Delete(q) \/ Abort(q)
    BY <2>1, <2>4 DEF Delete, Abort
  <2>5. CASE \E m \in Mailboxes : Patch(q, m)
    BY <2>1, <2>5 DEF Patch
  <2>6. QED
    BY <2>2, <2>3, <2>4, <2>5
<1>2. UNCHANGED supportsPush /\ Accounted' = Accounted
      /\ failed' \in 0..Strikes /\ failed <= failed'
  BY <1>1, Facts DEF requestFrame, mailboxVars, Accounted
<1>3. row' \in Rows /\ RowInv' /\ CursorFollowsQueue'
  BY <1>1, <1>2, SameRow
<1>4. \E new \in RequestTypes :
        /\ req' = [req EXCEPT ![q] = new]
        /\ new.pc \in {"config", "timing", "reconnect"} => new.cursor.box = new.box
  <2>1. CASE Answer(q)
    BY <2>1, RequestType DEF Answer
  <2>2. ASSUME NEW m \in Mailboxes, Patch(q, m)
        PROVE  \E new \in RequestTypes :
                 req' = [req EXCEPT ![q] = new] /\ new.pc = "activate"
    <3> DEFINE new == [pc |-> "activate", status |-> row.status, box |-> m,
                       cursor |-> NoCursor]
    <3>1. new \in RequestTypes /\ new.pc = "activate"
      BY NoRowType, Facts DEF Rows, RequestTypes
    <3>2. req' = [req EXCEPT ![q] = new]
      BY <2>2 DEF Patch
    <3>3. QED
      BY <3>1, <3>2
  <2>3. CASE Activate(q) /\ ~Answer(q)
    <3> DEFINE label == IF platform = "gmail" THEN "reconnect" ELSE "config"
               new == [req[q] EXCEPT !.cursor = Fresh(req[q].box), !.pc = label]
    <3>1. req' = [req EXCEPT ![q].cursor = Fresh(req[q].box), ![q].pc = label]
      BY <2>3 DEF Activate
    <3>2. Fresh(req[q].box) \in Cursors /\ Fresh(req[q].box).box = req[q].box
      BY RequestType, FreshType, Facts
    <3>3. label \in {"reconnect", "config"}
      OBVIOUS
    <3> HIDE DEF label
    <3>4. req' = [req EXCEPT ![q] = new]
      BY <3>1, Facts DEF TypeOK
    <3>5. new \in RequestTypes /\ new.cursor = Fresh(req[q].box) /\ new.box = req[q].box
      BY <3>2, <3>3, RequestType DEF RequestTypes
    <3>6. QED
      BY <3>2, <3>4, <3>5
  <2>4. CASE Delete(q)
    BY <2>4, GoMoves, RequestType DEF Delete
  <2>5. QED
    BY <2>1, <2>2, <2>3, <2>4 DEF TriggerDispatch, Abort
<1>5. QED
  BY <1>1, <1>3, <1>4, RequestMoves, Facts DEF TypeOK

\* A request that writes the row, and sets its cursor only to its own.
LEMMA WritingRequest ==
  ASSUME ExchangeInv, NEW q \in Requests,
         PatchConfig(q) \/ PatchTiming(q) \/ Reactivate(q) \/ Reconnect(q)
  PROVE  ExchangeInv'
<1>1. /\ UNCHANGED <<requestFrame, recheck, gone>>
      /\ events' \in 0..MaxEvents /\ events <= events'
      /\ passed \subseteq passed'
  BY Facts, EventType
     DEF PatchConfig, PatchTiming, Reactivate, Reconnect, Passing
<1>2. /\ UNCHANGED <<supportsPush>> /\ Accounted \subseteq Accounted'
      /\ failed' \in 0..Strikes /\ failed <= failed'
  BY <1>1, Facts DEF requestFrame, mailboxVars, Accounted
<1>3. passed' \subseteq Mails
  <2>1. UpTo(req[q].box, req[q].cursor.pos) \subseteq Mails
    BY RequestType, UpToMails DEF Cursors
  <2>2. QED
    BY <2>1, Facts DEF PatchConfig, PatchTiming, Reactivate, Reconnect, Passing, TypeOK
<1>4. \E label \in {"timing", "reactivate", "trigger"} :
        /\ Go(q, label)
        /\ label = "timing" => req[q].pc = "config"
  BY DEF PatchConfig, PatchTiming, Reactivate, Reconnect
<1>5. PICK new \in RequestTypes :
        /\ req' = [req EXCEPT ![q] = new]
        /\ new.pc \in {"config", "timing", "reconnect"} => new.cursor.box = new.box
  <2>1. PICK label \in {"timing", "reactivate", "trigger"} :
          Go(q, label) /\ (label = "timing" => req[q].pc = "config")
    BY <1>4
  <2> DEFINE new == [req[q] EXCEPT !.pc = label]
  <2>2. /\ new \in RequestTypes /\ new.pc = label
        /\ new.cursor = req[q].cursor /\ new.box = req[q].box
    BY RequestType
  <2>3. req' = [req EXCEPT ![q] = new]
    BY <2>1, GoMoves
  <2>4. label = "timing" => req[q].cursor.box = req[q].box
    BY <2>1, RequestType DEF RequestInv
  <2> HIDE DEF new
  <2>5. new.pc \in {"config", "timing", "reconnect"} => new.cursor.box = new.box
    BY <2>2, <2>4
  <2>6. QED
    BY <2>2, <2>3, <2>5
<1>6. /\ row.failures \in 0..Strikes /\ 0 \in 0..Strikes
      /\ req[q].status \in {"active", "activation_failed"}
      /\ req[q].cursor \in Cursors /\ req[q].box \in Mailboxes
  <2>1. row.failures \in 0..Strikes
    BY Facts DEF Rows
  <2>2. 0 \in 0..Strikes
    BY DEF Strikes
  <2>3. QED
    BY <2>1, <2>2, RequestType
<1>7. UpTo(row.cursor.box, row.cursor.pos) \subseteq Accounted'
  BY <1>2, Facts DEF CursorFollowsQueue, Accounted
<1>8. CASE row' = row
  BY <1>1, <1>2, <1>3, <1>5, <1>8, SameRow, RequestMoves, Facts DEF TypeOK
<1> DEFINE kept(upd) == /\ upd \in Rows /\ upd.kind = row.kind /\ upd.push = row.push
                        /\ upd.failures \in {0, row.failures}
                        /\ UpTo(upd.cursor.box, upd.cursor.pos) \subseteq Accounted'
<1>9. ASSUME NEW upd \in Rows, kept(upd), Upsert(upd)
      PROVE  ExchangeInv'
  <2>1. upd.failures <= failed' /\ (upd.push => supportsPush)
    BY <1>1, <1>6, <1>9, Facts DEF RowInv, requestFrame
  <2>2. row' \in Rows /\ RowInv' /\ CursorFollowsQueue'
    BY <1>1, <1>2, <1>9, <2>1, UpdatedRow
  <2>3. QED
    BY <1>1, <1>3, <1>5, <2>2, RequestMoves, Facts DEF TypeOK
<1>10. CASE PatchConfig(q)
  <2> DEFINE upd == [row EXCEPT !.status = req[q].status, !.config = req[q].box]
  <2>1. Upsert(upd)
    BY <1>10 DEF PatchConfig
  <2>2. /\ upd \in Rows /\ upd.kind = row.kind /\ upd.push = row.push
        /\ upd.failures = row.failures /\ upd.cursor = row.cursor
    BY <1>6, Facts DEF Rows
  <2>3. QED
    BY <1>7, <1>9, <2>1, <2>2
<1>11. ASSUME passed' = passed \union UpTo(req[q].box, req[q].cursor.pos),
              req[q].pc \in {"timing", "reconnect"}
       PROVE  UpTo(req[q].cursor.box, req[q].cursor.pos) \subseteq Accounted'
  BY <1>11, RequestType DEF RequestInv, Accounted
<1>12. CASE PatchTiming(q)
  <2> DEFINE upd == [row EXCEPT !.status = req[q].status, !.cursor = req[q].cursor]
  <2>1. \/ row' = row
        \/ Upsert(upd) /\ Passing(q) /\ req[q].pc = "timing"
    BY <1>12 DEF PatchTiming
  <2>2. /\ upd \in Rows /\ upd.kind = row.kind /\ upd.push = row.push
        /\ upd.failures = row.failures /\ upd.cursor = req[q].cursor
    BY <1>6, Facts DEF Rows
  <2>3. QED
    BY <1>8, <1>9, <1>11, <2>1, <2>2 DEF Passing
<1>13. CASE Reactivate(q)
  <2> DEFINE upd == [row EXCEPT !.status = "active", !.failures = 0]
  <2>1. Upsert(upd)
    BY <1>13 DEF Reactivate
  <2>2. /\ upd \in Rows /\ upd.kind = row.kind /\ upd.push = row.push
        /\ upd.failures = 0 /\ upd.cursor = row.cursor
    BY <1>6, Facts DEF Rows
  <2>3. QED
    BY <1>7, <1>9, <2>1, <2>2
<1>14. CASE Reconnect(q)
  <2> DEFINE upd == [row EXCEPT !.status = "active", !.failures = 0,
                                !.cursor = req[q].cursor]
  <2>1. Upsert(upd) /\ Passing(q) /\ req[q].pc = "reconnect"
    BY <1>14 DEF Reconnect
  <2>2. /\ upd \in Rows /\ upd.kind = row.kind /\ upd.push = row.push
        /\ upd.failures = 0 /\ upd.cursor = req[q].cursor
    BY <1>6, Facts DEF Rows
  <2>3. QED
    BY <1>9, <1>11, <2>1, <2>2 DEF Passing
<1>15. QED
  BY <1>10, <1>12, <1>13, <1>14

LEMMA DeleteInv ==
  ASSUME ExchangeInv, NEW q \in Requests, DeleteRow(q)
  PROVE  ExchangeInv'
<1>1. /\ UNCHANGED <<requestFrame, recheck, passed, events>>
      /\ row' = NoRow /\ gone' = TRUE /\ Answer(q)
  BY DEF DeleteRow
<1>2. row' \in Rows /\ RowInv' /\ CursorFollowsQueue'
  <2>1. 0 <= failed' /\ UpTo(NoCursor.box, NoCursor.pos) = {}
    BY <1>1, NothingBeforeTheFirst, Facts DEF requestFrame, NoCursor
  <2>2. QED
    BY <1>1, <2>1, NoRowType DEF RowInv, CursorFollowsQueue
<1>3. req' = [req EXCEPT ![q] = IdleRequest]
  BY <1>1 DEF Answer
<1>4. /\ recheck' \in BOOLEAN /\ gone' \in BOOLEAN
      /\ events' \in 0..MaxEvents /\ events <= events'
      /\ passed \subseteq passed' /\ passed' \subseteq Mails
  BY <1>1, Facts DEF TypeOK
<1>5. /\ IdleRequest \in RequestTypes
      /\ ~(IdleRequest.pc \in {"config", "timing", "reconnect"})
  BY RequestType
<1>6. UNCHANGED requestFrame
  BY <1>1
<1>7. QED
  BY <1>2, <1>3, <1>4, <1>5, <1>6, RequestMoves

\* Mail arrives, a mailbox is rebuilt, or a JMAP server forgets its subscription.
LEMMA MailboxInv ==
  ASSUME ExchangeInv,
         (\E m \in Mailboxes : Arrive(m) \/ Rebuild(m)) \/ ForgetSubscription
  PROVE  ExchangeInv'
<1>1. UNCHANGED <<platform, supportsPush, row, recheck, run, req, historyVars>>
  BY DEF Arrive, Rebuild, ForgetSubscription, mailboxVars
<1>2. /\ arrived' \in [Mailboxes -> Positions]
      /\ subscribed' \in BOOLEAN
      /\ events' \in 0..MaxEvents /\ events <= events'
      /\ epoch' \in [Mailboxes -> 1..(MaxEvents + 1)]
      /\ \A m \in Mailboxes : epoch'[m] <= events' + 1
  <2>0. /\ TypeOK /\ events \in Nat /\ MaxEvents \in Nat
        /\ \A m \in Mailboxes : epoch[m] <= events + 1
    BY Facts, ExchangesAssumption DEF ExchangeInv, TypeInv
  <2>1. ASSUME NEW m \in Mailboxes, Arrive(m)
        PROVE  /\ arrived' \in [Mailboxes -> Positions]
               /\ UNCHANGED <<epoch, subscribed, events>>
    <3>1. arrived[m] + 1 \in Positions
      <4>1. MaxMails[m] \in Nat /\ arrived[m] \in Nat /\ arrived[m] < MaxMails[m]
        BY <2>0, <2>1, PositionsAreNaturals, ExchangesAssumption DEF Arrive, TypeOK
      <4>2. arrived[m] + 1 \in 0..MaxMails[m]
        BY <4>1
      <4>3. QED
        BY <4>2 DEF Positions
    <3>2. QED
      BY <2>0, <2>1, <3>1 DEF Arrive, TypeOK
  <2>2. ASSUME NEW m \in Mailboxes, Rebuild(m)
        PROVE  /\ UNCHANGED <<arrived, subscribed>>
               /\ events' = events + 1 /\ events' \in 0..MaxEvents
               /\ epoch' \in [Mailboxes -> 1..(MaxEvents + 1)]
               /\ \A k \in Mailboxes : epoch'[k] <= events' + 1
    <3>1. events' = events + 1 /\ events' \in 0..MaxEvents /\ events + 1 <= MaxEvents
      BY <2>0, <2>2, EventType, ExchangesAssumption DEF Rebuild, Event, TypeOK
    <3>2. epoch' = [epoch EXCEPT ![m] = @ + 1] /\ UNCHANGED <<arrived, subscribed>>
      BY <2>2 DEF Rebuild
    <3>3. /\ epoch'[m] = epoch[m] + 1
          /\ \A k \in Mailboxes \ {m} : epoch'[k] = epoch[k]
          /\ epoch' = [k \in Mailboxes |-> epoch'[k]]
      BY <2>0, <3>2 DEF TypeOK
    <3>4. \A k \in Mailboxes : /\ epoch[k] \in 1..(MaxEvents + 1)
                               /\ epoch[k] <= events + 1
      BY <2>0 DEF TypeOK
    <3>5. \A k \in Mailboxes : /\ epoch'[k] \in 1..(MaxEvents + 1)
                               /\ epoch'[k] <= events' + 1
      BY <2>0, <3>1, <3>3, <3>4
    <3>6. QED
      BY <3>1, <3>2, <3>3, <3>5
  <2>3. ASSUME ForgetSubscription
        PROVE  /\ UNCHANGED <<arrived, epoch>> /\ subscribed' = FALSE
               /\ events' = events + 1 /\ events' \in 0..MaxEvents
    BY <2>0, <2>3, EventType DEF ForgetSubscription, mailboxVars, TypeOK
  <2>4. CASE \E m \in Mailboxes : Arrive(m)
    BY <2>0, <2>1, <2>4 DEF TypeOK
  <2>5. CASE \E m \in Mailboxes : Rebuild(m)
    BY <2>0, <2>2, <2>5 DEF TypeOK
  <2>6. CASE ForgetSubscription
    <3>1. \A m \in Mailboxes : epoch[m] \in Nat
      BY <2>0, ExchangesAssumption DEF TypeOK
    <3>2. \A m \in Mailboxes : epoch'[m] <= events' + 1
      BY <2>0, <2>3, <2>6, <3>1
    <3>3. QED
      BY <2>0, <2>3, <2>6, <3>2 DEF TypeOK
  <2>7. QED
    BY <2>4, <2>5, <2>6
<1>3. TypeInv'
  BY <1>1, <1>2 DEF ExchangeInv, TypeInv, TypeOK, historyVars
<1>4. \A r \in Runs : RunInv(r)' /\ PageInv(r)'
  BY <1>1 DEF ExchangeInv, RunInv, PageInv, Covered, Accounted, historyVars
<1>5. (\A q \in Requests : RequestInv(q)') /\ RowInv' /\ CursorFollowsQueue'
        /\ LossesHaveCauses'
  BY <1>1
     DEF ExchangeInv, RequestInv, RowInv, CursorFollowsQueue, LossesHaveCauses,
         BehindPage, historyVars
<1>6. QED
  BY <1>3, <1>4, <1>5 DEF ExchangeInv

-----------------------------------------------------------------------------
(* The theorems.                                                            *)

LEMMA NextExchange == ExchangeInv /\ [Next]_vars => ExchangeInv'
<1> SUFFICES ASSUME ExchangeInv, [Next]_vars PROVE ExchangeInv'
  OBVIOUS
<1>1. CASE UNCHANGED vars
  BY <1>1
     DEF vars, mailboxVars, historyVars, ExchangeInv, TypeInv, TypeOK, RunInv, PageInv,
         Covered, Accounted, RequestInv, RowInv, CursorFollowsQueue, LossesHaveCauses,
         BehindPage
<1>2. ASSUME NEW r \in Runs, RunStep(r) \/ Crash(r)
      PROVE  ExchangeInv'
  BY <1>2, StartInv, RenewWatchInv, PushInv, SearchInv, EnqueueInv, SaveInv,
     FailureInv, CrashInv
     DEF RunStep
<1>3. ASSUME NEW q \in Requests,
             \/ RequestStep(q) \/ Delete(q) \/ Abort(q)
             \/ \E m \in Mailboxes : Patch(q, m)
      PROVE  ExchangeInv'
  BY <1>3, QuietRequest, WritingRequest, DeleteInv DEF RequestStep
<1>4. QED
  BY <1>1, <1>2, <1>3, MailboxInv DEF Next

LEMMA Exchange == Spec => []ExchangeInv
BY InitExchange, NextExchange, PTL DEF Spec

\* Rows, runs, requests and the history stay well formed.
THEOREM ExchangesTypeCorrect == Spec => []TypeOK
<1>1. ExchangeInv => TypeOK
  BY DEF ExchangeInv, TypeInv
<1>2. QED
  BY <1>1, Exchange, PTL

\* However runs with old rows, failing calls and API requests interleave, no cursor
\* is ever moved beyond a mail that nobody accounted for.
THEOREM CursorNeverRunsAhead == Spec => []CursorFollowsQueue
<1>1. ExchangeInv => CursorFollowsQueue
  BY DEF ExchangeInv
<1>2. QED
  BY <1>1, Exchange, PTL

\* Whichever call fails, a mail is lost to a push sync that went on without it, or
\* because it stood behind the page of a Gmail history that was queued.
THEOREM LossesAreAccountedFor == Spec => []LossesHaveCauses
<1>1. ExchangeInv => LossesHaveCauses
  BY DEF ExchangeInv
<1>2. QED
  BY <1>1, Exchange, PTL

\* No run starts from the partial row an update leaves of a deleted exchange.
LEMMA SilenceStep ==
  ASSUME ExchangeInv, [Next]_vars, gone, Silent
  PROVE  Silent'
<1>1. ~Dispatchable
  BY Facts DEF RowInv, Dispatchable
<1>2. ASSUME NEW r \in Runs
      PROVE  ~RunStep(r) /\ ~Crash(r)
  BY <1>1
     DEF Silent, RunStep, Crash, Dispatch, RenewWatch, Notify, Push, Search, Enqueue,
         Save, HandleRenewalFailure
<1>3. run' = run
  BY <1>2
     DEF Next, Arrive, Rebuild, ForgetSubscription, RequestStep, Patch, Activate,
         PatchConfig, PatchTiming, Reactivate, Reconnect, TriggerDispatch, Delete,
         DeleteRow, Abort, requestFrame, vars
<1>4. QED
  BY <1>3 DEF Silent

\* A run deactivates an exchange at the third failure only.
LEMMA StrikeStep ==
  ASSUME ExchangeInv, [Next]_vars, UNCHANGED req,
         row.status = "active", row'.status = "activation_failed"
  PROVE  failed' = Strikes
<1>1. ASSUME NEW r \in Runs, RunStep(r) \/ Crash(r), ~HandleRenewalFailure(r)
      PROVE  row'.status # "activation_failed"
  <2>1. \A upd \in Rows : Upsert(upd) \/ TryUpsert(upd) =>
          row' = row \/ row'.status = upd.status
    BY UpsertType DEF TryUpsert
  <2>2. run[r].emx.status = "active" /\ row \in Rows
    BY Facts DEF ExchangeInv, RunInv
  <2>3. CASE RenewWatch(r)
    <3>1. [row EXCEPT !.status = run[r].emx.status] \in Rows
          /\ [row EXCEPT !.status = run[r].emx.status].status = "active"
      BY <2>2 DEF Rows
    <3>2. QED
      BY <2>1, <2>3, <3>1 DEF RenewWatch
  <2>4. CASE Push(r)
    <3> DEFINE live(upd) == upd \in Rows /\ upd.status = "active"
    <3>1. 0 \in 0..Strikes
      BY DEF Strikes
    <3>2. live([row EXCEPT !.status = run[r].emx.status, !.push = TRUE, !.failures = 0])
      BY <2>2, <3>1 DEF Rows
    <3>3. live([row EXCEPT !.status = run[r].emx.status, !.failures = 0])
      BY <2>2, <3>1 DEF Rows
    <3>4. live([row EXCEPT !.status = run[r].emx.status, !.push = FALSE])
      BY <2>2 DEF Rows
    <3>5. QED
      BY <2>1, <2>4, <3>2, <3>3, <3>4 DEF Push
  <2>5. CASE Save(r)
    <3>1. Synced(r) \in Rows /\ Synced(r).status = "active"
      BY <2>2, SyncedType
    <3>2. QED
      BY <2>1, <2>5, <3>1 DEF Save
  <2>6. QED
    BY <1>1, <2>3, <2>4, <2>5 DEF RunStep, Crash, Dispatch, Notify, Search, Enqueue
<1>2. ASSUME NEW r \in Runs, HandleRenewalFailure(r)
      PROVE  failed' = Strikes
  BY <1>2, FailureInv
<1>3. ASSUME NEW q \in Requests, RequestStep(q)
      PROVE  row'.status # "activation_failed"
  <2>1. req[q] \in RequestTypes /\ req'[q] = req[q]
    BY <1>3, RequestType
  <2>2. ASSUME NEW label \in {"timing", "reactivate", "trigger"}, Go(q, label)
        PROVE  req[q].pc = label
    BY <2>1, <2>2, Facts DEF Go, TypeOK, RequestTypes
  <2>3. CASE PatchConfig(q)
    BY <2>2, <2>3 DEF PatchConfig
  <2>4. CASE PatchTiming(q)
    BY <2>2, <2>4 DEF PatchTiming
  <2>5. CASE Reactivate(q)
    BY <2>2, <2>5 DEF Reactivate
  <2>6. CASE Reconnect(q)
    BY <2>2, <2>6 DEF Reconnect
  <2>7. CASE DeleteRow(q)
    BY <2>7, NoRowType DEF DeleteRow
  <2>8. QED
    BY <1>3, <2>3, <2>4, <2>5, <2>6, <2>7
       DEF RequestStep, Activate, TriggerDispatch
<1>4. QED
  BY <1>1, <1>2, <1>3
     DEF Next, Arrive, Rebuild, ForgetSubscription, Patch, Delete, Abort, vars

\* Whatever a run read before: a deleted exchange stays silent, and an exchange is
\* deactivated only after three failed renewals.
THEOREM EndsOnlyForCause == Spec => EndsForCause
<1>1. ExchangeInv /\ [Next]_vars => (gone /\ Silent => Silent')
  BY SilenceStep
<1>2. ExchangeInv /\ [Next]_vars =>
        (UNCHANGED req /\ row.status = "active" /\ row'.status = "activation_failed"
           => failed' = Strikes)
  BY StrikeStep
<1>3. QED
  BY <1>1, <1>2, Exchange, PTL DEF Spec, EndsForCause, DeletedStaysSilent, ThreeStrikes
=============================================================================
