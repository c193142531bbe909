---------------------------- MODULE ThreadsProofs ---------------------------
(***************************************************************************)
(* What holds of the thread rows of an account for any number of mails,    *)
(* invocations, requests and faults.                                       *)
(***************************************************************************)
EXTENDS MCConversations, FiniteSetTheorems, WellFoundedInduction, TLAPS

-----------------------------------------------------------------------------
(* What an invocation may be doing, with `arrived` the mails received so     *)
(* far.                                                                      *)

Arrived == {m \in Mails : received[m] # 0}
Policies == {None, "allow"} \union Blocks
Statuses == {"active", "archived", "deleted"}

Lists(arrived) ==
  [job : {"siblings"}, of : arrived, as : Answers, todo : (SUBSET arrived) \union {None}]
Causes(arrived) ==
  {Direct} \union [kind : {"approve"}, sender : BOOLEAN]
    \union [kind : {"sibling"}, rest : {l \in Lists(arrived) : l.as = "approve" /\ l.todo # None}]
    \union [kind : {"reprocess"}, source : Ids \union {None}]
Runs(arrived) ==
  {r \in [job : {"mail"}, pc : {"policy", "block", "match", "decide", "save", "index"},
          mail : arrived, by : Causes(arrived), policy : Policies, seen : SUBSET Ids,
          match : Ids \union {None}, snap : Row \union {None}] :
     /\ r.pc = "block" => r.policy \in Blocks
     /\ r.match # None => r.snap # None
     /\ r.pc \in {"save", "index"} => r.match # None}
Responses(arrived) ==
  [job : {"respond"}, mail : arrived, as : Answers, policy : Policies]
    \union [job : {"blocked"}, mail : arrived, as : Answers \intersect Blocks, policy : Policies]
Cleans(arrived) ==
  {c \in [job : {"clean"}, mail : arrived, source : Ids \union {None}, alone : BOOLEAN] :
     c.alone => c.source # None}
Repairs(arrived) ==
  {r \in [job : {"repair"}, pc : {"thread", "list", "write"}, thread : Ids,
          snap : Row \union {None}, mails : SUBSET arrived] :
     r.pc # "thread" => r.snap # None}
Patches == [job : {"patch"}, pc : {"alarm", "write"}, thread : Ids, snap : Row,
            followup : Hours, status : Statuses]
Reports == [job : {"report"}, pc : {"sender", "write"}, thread : Ids, snap : Row,
            named : BOOLEAN]
Wakes == [job : {"wake"}, thread : Ids, snap : Row, due : Hours]
Jobs(arrived) ==
  {Idle} \union Runs(arrived) \union Lists(arrived) \union Responses(arrived)
    \union Cleans(arrived) \union Repairs(arrived) \union Patches \union Reports \union Wakes

\* Only mails that have arrived are known to anyone, and their ranks are no more
\* than they are.  An active signal is on a thread.
StateInv ==
  /\ TypeOK
  /\ tries \in [Mails -> 0 .. MaxTries]
  /\ waiting \subseteq Arrived
  /\ \A m \in Mails :
       /\ received[m] <= Cardinality(Arrived)
       /\ signals[m] # None =>
            m \in Arrived /\ (signals[m].status = "active" => signals[m].thread # None)

TypeInv == StateInv /\ lambda \in [Lambdas -> Jobs(Arrived)]

LEMMA NoneApart ==
  /\ None \notin Mails /\ None \notin Ids /\ None \notin Row /\ None \notin Signal
  /\ None # "allow" /\ None \notin Blocks
  /\ \A S \in SUBSET Mails : None # S
BY ThreadsAssumption

\* The job a record names tells which kind of record it is.
LEMMA JobKinds ==
  ASSUME NEW arrived, NEW j \in Jobs(arrived)
  PROVE  /\ j = Idle \/ j.job # "idle"
         /\ j.job = "mail" => j \in Runs(arrived)
         /\ j.job = "siblings" => j \in Lists(arrived)
         /\ j.job \in {"respond", "blocked"} => j \in Responses(arrived)
         /\ j.job = "clean" => j \in Cleans(arrived)
         /\ j.job = "repair" => j \in Repairs(arrived)
         /\ j.job = "patch" => j \in Patches
         /\ j.job = "report" => j \in Reports
         /\ j.job = "wake" => j \in Wakes
BY DEF Jobs, Idle, Runs, Lists, Responses, Cleans, Repairs, Patches, Reports, Wakes

LEMMA CauseKinds ==
  ASSUME NEW arrived, NEW c \in Causes(arrived)
  PROVE  /\ c.kind \in {"queue", "approve", "sibling", "reprocess"}
         /\ c.kind = "approve" => c.sender \in BOOLEAN
         /\ c.kind = "sibling" =>
              c.rest \in Lists(arrived) /\ c.rest.as = "approve" /\ c.rest.todo # None
         /\ c.kind = "reprocess" => c.source \in Ids \union {None}
BY DEF Causes, Direct

\* What is typed stays so when more mails have arrived.
LEMMA JobsGrow ==
  ASSUME NEW arrived, NEW more, arrived \subseteq more
  PROVE  Jobs(arrived) \subseteq Jobs(more)
<1>1. Lists(arrived) \subseteq Lists(more)
  BY DEF Lists
<1>2. Causes(arrived) \subseteq Causes(more)
  BY <1>1 DEF Causes
<1>3. Runs(arrived) \subseteq Runs(more)
  BY <1>2 DEF Runs
<1>4. Responses(arrived) \subseteq Responses(more) /\ Cleans(arrived) \subseteq Cleans(more)
  BY DEF Responses, Cleans
<1>5. Repairs(arrived) \subseteq Repairs(more)
  BY DEF Repairs
<1>6. QED
  BY <1>1, <1>3, <1>4, <1>5 DEF Jobs

\* What a run goes on with is typed, too.
LEMMA AfterTyped ==
  ASSUME NEW arrived \in SUBSET Mails, NEW run \in Runs(arrived)
  PROVE  After(run) \in Jobs(arrived) /\ After(run).job # "mail"
<1>1. run.by \in Causes(arrived) /\ run.mail \in arrived
  BY DEF Runs
<1>2. Siblings(run.mail, "approve", None) \in Lists(arrived)
  BY <1>1 DEF Siblings, Lists, Answers
<1>3. \A t \in Ids : Repair(t) \in Repairs(arrived)
  BY DEF Repair, Repairs
<1>4. QED
  BY <1>1, <1>2, <1>3, CauseKinds DEF After, Jobs, Siblings, Repair, Idle, Lists

LEMMA GoesOn ==
  ASSUME TypeInv, NEW i \in Lambdas, NEW job \in Jobs(Arrived), Goto(i, job),
         UNCHANGED received
  PROVE  lambda' \in [Lambdas -> Jobs(Arrived)'] /\ Arrived' = Arrived
BY DEF TypeInv, Goto, Arrived

LEMMA RunOf ==
  ASSUME TypeInv, NEW i \in Lambdas, lambda[i].job = "mail"
  PROVE  /\ lambda[i] \in Runs(Arrived) /\ lambda[i].mail \in Arrived
         /\ lambda[i].mail \in Mails
         /\ lambda[i].by \in Causes(Arrived)
<1>1. lambda[i] \in Jobs(Arrived)
  BY DEF TypeInv
<1>2. lambda[i] \in Runs(Arrived)
  BY <1>1, JobKinds
<1>3. QED
  BY <1>2 DEF Runs, Arrived

LEMMA NewRun ==
  ASSUME NEW arrived, NEW m \in arrived, NEW by \in Causes(arrived)
  PROVE  Run(m, by) \in Runs(arrived)
BY NoneApart DEF Run, Runs, Policies

\* The largest of some numbers, as long as there is one.
LEMMA MaxIs ==
  ASSUME NEW n \in Nat, NEW S \in SUBSET (0 .. n), S # {}
  PROVE  MaxOf(S) \in S /\ \A k \in S : k <= MaxOf(S)
<1> DEFINE below == {n - k : k \in S}
<1>1. below \subseteq Nat /\ below # {}
  <2>1. \A k \in S : k \in Nat /\ k <= n /\ n - k \in Nat
    OBVIOUS
  <2>2. QED
    BY <2>1
<1> DEFINE less == OpToRel(<, Nat)
<1>2. PICK x \in below : \A y \in below : <<y, x>> \notin less
  <2>1. IsWellFoundedOn(less, Nat)
    BY NatLessThanWellFounded
  <2> HIDE DEF below, less
  <2>2. QED
    BY <1>1, <2>1, WFMin
<1>3. \A y \in below : ~(y < x)
  BY <1>1, <1>2 DEF OpToRel
<1>4. n - x \in S /\ \A k \in S : k <= n - x
  <2>1. PICK k \in S : x = n - k
    BY <1>2
  <2> HIDE DEF below, less
  <2>2. \A j \in S : j \in 0 .. n
    OBVIOUS
  <2>3. k \in Int /\ n - x = k
    BY <2>1, <2>2
  <2>4. ASSUME NEW j \in S PROVE j <= k
    <3>1. n - j \in below /\ j \in Int
      BY <2>2 DEF below
    <3>2. ~(n - j < x)
      BY <1>3, <3>1
    <3>3. QED
      BY <2>1, <2>3, <3>1, <3>2
  <2>5. QED
    BY <2>3, <2>4
<1>5. QED
  BY <1>4 DEF MaxOf

LEMMA NowIsATime ==
  ASSUME StateInv, NEW m \in Mails
  PROVE  /\ Now \in Times /\ \E k \in Mails : Now = received[k]
         /\ \A k \in Mails : received[k] <= Now
<1>1. Cardinality(Mails) \in Nat
  BY ThreadsAssumption, FS_CardinalityType
<1>2. received \in [Mails -> 0 .. Cardinality(Mails)]
  BY DEF StateInv, TypeOK, Times
<1> DEFINE ranks == {received[k] : k \in Mails}
<1>3. ranks \in SUBSET (0 .. Cardinality(Mails)) /\ ranks # {}
  BY <1>2
<1>4. MaxOf(ranks) \in ranks /\ \A k \in ranks : k <= MaxOf(ranks)
  <2> HIDE DEF ranks
  <2>1. QED
    BY <1>1, <1>3, MaxIs
<1>5. QED
  BY <1>2, <1>4 DEF Now, Times

LEMMA MovedTyped ==
  ASSUME StateInv, NEW m \in Mails, NEW t
  PROVE  Moved(m, t) \subseteq Ids
BY DEF StateInv, TypeOK, Signal, Moved

LEMMA UpdatedTyped ==
  ASSUME NEW row \in Row \union {None}, NEW status \in Statuses, NEW at \in Times
  PROVE  /\ Updated(row, status, at) \in Row
         /\ Updated(row, status, at).status = status
         /\ Updated(row, status, at).at = at
         /\ row # None =>
              /\ Updated(row, status, at).followup = row.followup
              /\ Updated(row, status, at).key = row.key
              /\ Updated(row, status, at).listed = row.listed
         /\ row = None =>
              /\ ~Updated(row, status, at).key /\ ~Updated(row, status, at).listed
              /\ Updated(row, status, at).followup = 0
<1>1. CASE row = None
  BY <1>1, ThreadsAssumption DEF Updated, Row, Hours, Statuses
<1>2. CASE row # None
  BY <1>2 DEF Updated, Row, Statuses
<1>3. QED
  BY <1>1, <1>2

\* The rows and the messages of a state of which only invocations have changed.
LEMMA OnlyJobs ==
  ASSUME StateInv, UNCHANGED <<mail, rows, clock, codes, past>>,
         requests' \in 0 .. MaxRequests, faults' \in 0 .. MaxFaults
  PROVE  StateInv'
BY DEF StateInv, TypeOK, Arrived, mail, rows, clock, past

LEMMA OnlySignals ==
  ASSUME StateInv, NEW m \in Arrived, NEW row \in Signal,
         row.status = "active" => row.thread # None,
         signals' = [signals EXCEPT ![m] = row],
         stale' \in SUBSET Ids, tries' \in [Mails -> 0 .. MaxTries],
         UNCHANGED <<keyed, received, waiting, threads, vectors, policy, clock, codes,
                     requests, faults, late, unlisted, raced, user>>
  PROVE  StateInv'
<1>1. /\ signals' \in [Mails -> Signal \union {None}] /\ Arrived' = Arrived
      /\ tries' \in [Mails -> Nat]
  <2>1. signals' \in [Mails -> Signal \union {None}] /\ Arrived' = Arrived
    BY DEF StateInv, TypeOK, Arrived
  <2>2. 0 .. MaxTries \subseteq Nat
    OBVIOUS
  <2>3. QED
    BY <2>1, <2>2
<1>2. TypeOK'
  BY <1>1 DEF StateInv, TypeOK, clock
<1>3. QED
  BY <1>1, <1>2 DEF StateInv, TypeOK

LEMMA OnlyThreads ==
  ASSUME StateInv, threads' \in [Ids -> Row \union {None}], stale' \in SUBSET Ids,
         alarms' \subseteq [thread : Ids, due : Hours],
         codes' \subseteq [thread : Ids, row : Row],
         raced' \in BOOLEAN, user' \in [Ids -> {"none", "active", "archived", "deleted", "snoozed", "reported"}],
         requests' \in 0 .. MaxRequests, faults' \in 0 .. MaxFaults,
         UNCHANGED <<mail, signals, vectors, policy, schedule, hour, late, unlisted>>
  PROVE  StateInv'
<1>1. Arrived' = Arrived
  BY DEF Arrived, mail
<1>2. TypeOK'
  BY <1>1 DEF StateInv, TypeOK, mail
<1>3. QED
  BY <1>1, <1>2 DEF StateInv, mail

LEMMA ArriveType ==
  ASSUME TypeInv, NEW m \in Mails, Arrive(m)
  PROVE  TypeInv'
<1>1. /\ received' = [received EXCEPT ![m] = Now + 1] /\ received[m] = 0
      /\ received \in [Mails -> Times] /\ Now \in Times /\ Cardinality(Mails) \in Nat
  BY NowIsATime, ThreadsAssumption, FS_CardinalityType DEF Arrive, TypeInv, StateInv, TypeOK
<1>2. Arrived' = Arrived \union {m} /\ m \notin Arrived /\ Arrived' \subseteq Mails
  BY <1>1 DEF Arrived, Times
<1>3. /\ IsFiniteSet(Arrived) /\ IsFiniteSet(Arrived')
      /\ Cardinality(Arrived') \in Nat /\ Cardinality(Arrived) \in Nat
      /\ Cardinality(Arrived') = Cardinality(Arrived) + 1
      /\ Cardinality(Arrived') <= Cardinality(Mails)
  <2>1. IsFiniteSet(Arrived) /\ IsFiniteSet(Arrived')
    BY <1>2, ThreadsAssumption, FS_Subset
  <2>2. QED
    BY <1>2, <2>1, ThreadsAssumption, FS_Subset, FS_AddElement, FS_CardinalityType
<1>4. Now <= Cardinality(Arrived)
  BY NowIsATime DEF TypeInv, StateInv
<1>5. \A k \in Mails : received'[k] \in Times /\ received'[k] <= Cardinality(Arrived')
  <2>1. SUFFICES ASSUME NEW k \in Mails
                 PROVE  received'[k] \in Times /\ received'[k] <= Cardinality(Arrived')
    OBVIOUS
  <2>2. received[k] <= Cardinality(Arrived)
    BY DEF TypeInv, StateInv
  <2>3. QED
    BY <1>1, <1>3, <1>4, <2>2 DEF Times
<1>6. received' \in [Mails -> Times]
  BY <1>1, <1>5
<1>7. TypeOK'
  BY <1>6 DEF Arrive, TypeInv, StateInv, TypeOK, rows, clock, past
<1>8. StateInv'
  BY <1>2, <1>5, <1>7 DEF Arrive, TypeInv, StateInv, rows
<1>9. Jobs(Arrived) \subseteq Jobs(Arrived')
  BY <1>2, JobsGrow
<1>10. QED
  BY <1>8, <1>9 DEF TypeInv, Arrive

LEMMA ReceiveType ==
  ASSUME TypeInv, NEW i \in Lambdas, NEW m \in Mails, Receive(i, m)
  PROVE  TypeInv'
<1>1. m \in Arrived /\ UNCHANGED received /\ Direct \in Causes(Arrived)
  BY DEF Receive, TypeInv, StateInv, Causes
<1>2. Run(m, Direct) \in Runs(Arrived) /\ Idle \in Jobs(Arrived)
  BY <1>1, NewRun DEF Jobs
<1>3. ASSUME signals[m] # None, signals[m].status = "active",
             threads[signals[m].thread] # None
      PROVE  [Run(m, Direct) EXCEPT !.pc = "index", !.match = signals[m].thread,
                                    !.snap = threads[signals[m].thread]] \in Runs(Arrived)
  <2>1. signals[m].thread \in Ids /\ threads[signals[m].thread] \in Row
    BY <1>3 DEF TypeInv, StateInv, TypeOK, Signal
  <2>2. QED
    BY <1>2, <2>1, NoneApart DEF Runs
<1>4. lambda' \in [Lambdas -> Jobs(Arrived)'] /\ Arrived' = Arrived
  BY <1>1, <1>2, <1>3, GoesOn DEF Receive, Jobs
<1>5. StateInv'
  BY <1>4 DEF Receive, TypeInv, StateInv, TypeOK, rows, clock, past
<1>6. QED
  BY <1>4, <1>5 DEF TypeInv

LEMMA LookUpType ==
  ASSUME TypeInv, NEW i \in Lambdas, ReadPolicy(i) \/ Match(i) \/ MatchFails(i)
  PROVE  TypeInv'
<1> DEFINE run == lambda[i]
<1>1. run \in Runs(Arrived) /\ UNCHANGED received
  BY RunOf DEF ReadPolicy, Match, MatchFails, mail
<1>2. CASE ReadPolicy(i)
  <2>1. policy \in Policies
    BY DEF TypeInv, StateInv, TypeOK, Policies
  <2>2. [run EXCEPT !.policy = policy, !.pc = IF policy \in Blocks THEN "block" ELSE "match"]
          \in Runs(Arrived)
    BY <1>1, <2>1 DEF Runs
  <2>3. QED
    BY <1>1, <1>2, <2>2, GoesOn, OnlyJobs DEF ReadPolicy, Jobs, TypeInv, StateInv, TypeOK
<1>3. CASE Match(i)
  <2>1. PICK t \in ByKey(run.mail) \union ByReply \union ByVector \union {None} :
          LET found == t # None /\ ~Ghost(t) IN
          /\ raced' = (raced \/ (ByKey(run.mail) # {} /\ ~found))
          /\ vectors' = {v \in vectors : v[2] # t \/ ~Ghost(t)}
          /\ Goto(i, [run EXCEPT !.match = IF found THEN t ELSE None,
                                 !.snap = IF found THEN threads[t] ELSE None,
                                 !.seen = Keyed,
                                 !.pc = "decide"])
    BY <1>3 DEF Match
  <2>2. t \in Ids \union {None} /\ Keyed \in SUBSET Ids
    BY <2>1 DEF ByKey, ByReply, ByVector, Keyed
  <2> DEFINE found == t # None /\ ~Ghost(t)
             match == IF found THEN t ELSE None
             snap == IF found THEN threads[t] ELSE None
  <2>3. /\ match \in Ids \union {None} /\ snap \in Row \union {None}
        /\ match # None => snap # None
    BY <2>2 DEF Ghost, TypeInv, StateInv, TypeOK
  <2>4. Goto(i, [run EXCEPT !.match = match, !.snap = snap, !.seen = Keyed, !.pc = "decide"])
    BY <2>1
  <2> HIDE DEF match, snap
  <2>5. [run EXCEPT !.match = match, !.snap = snap, !.seen = Keyed, !.pc = "decide"]
          \in Runs(Arrived)
    BY <1>1, <2>2, <2>3 DEF Runs
  <2>6. lambda' \in [Lambdas -> Jobs(Arrived)'] /\ Arrived' = Arrived
    BY <1>1, <2>4, <2>5, GoesOn DEF Jobs
  <2>7. vectors' \subseteq vectors /\ raced' \in BOOLEAN
    BY <2>1 DEF TypeInv, StateInv, TypeOK
  <2>8. StateInv'
    BY <1>3, <2>6, <2>7 DEF Match, TypeInv, StateInv, TypeOK, mail, clock
  <2>9. QED
    BY <2>6, <2>8 DEF TypeInv
<1>4. CASE MatchFails(i)
  <2>1. [run EXCEPT !.pc = "decide"] \in Runs(Arrived)
    BY <1>1 DEF Runs
  <2>2. lambda' \in [Lambdas -> Jobs(Arrived)'] /\ Arrived' = Arrived
    BY <1>1, <1>4, <2>1, GoesOn DEF MatchFails, Jobs
  <2>3. StateInv'
    BY <1>4, <2>2, ThreadsAssumption
       DEF MatchFails, Fault, TypeInv, StateInv, TypeOK, mail, rows, clock
  <2>4. QED
    BY <2>2, <2>3 DEF TypeInv
<1>5. QED
  BY <1>2, <1>3, <1>4

LEMMA WithholdType ==
  ASSUME TypeInv, NEW i \in Lambdas, lambda[i].job = "mail",
         NEW status \in Held \union Blocks, NEW why \in {"rule", "sender"},
         tries' \in [Mails -> 0 .. MaxTries], Withhold(i, lambda[i].mail, status, why)
  PROVE  TypeInv'
<1> DEFINE run == lambda[i]
           row == [status |-> status, thread |-> None, why |-> why]
<1>1. run \in Runs(Arrived) /\ run.mail \in Arrived /\ run.mail \in Mails
  BY RunOf
<1>2. row \in Signal /\ row.status # "active"
  BY DEF Signal, Held, Blocks
<1>3. stale' \in SUBSET Ids
  <2>1. Moved(run.mail, Source(run)) \subseteq Ids
    BY <1>1, MovedTyped DEF TypeInv
  <2>2. QED
    BY <2>1 DEF Withhold, TypeInv, StateInv, TypeOK
<1>4. StateInv'
  BY <1>1, <1>2, <1>3, OnlySignals DEF Withhold, TypeInv
<1>5. (IF run.by.kind = "approve" THEN Idle ELSE After(run)) \in Jobs(Arrived)
  BY <1>1, AfterTyped DEF Jobs, Arrived
<1>6. QED
  BY <1>4, <1>5, GoesOn DEF Withhold, TypeInv

LEMMA RemintType ==
  ASSUME StateInv, NEW m \in Mails, Remint(m)
  PROVE  tries' \in [Mails -> 0 .. MaxTries]
BY ThreadsAssumption DEF Remint, StateInv

LEMMA QuarantineType ==
  ASSUME TypeInv, NEW i \in Lambdas, BlockSender(i) \/ Quarantine(i)
  PROVE  TypeInv'
<1>1. CASE BlockSender(i)
  <2>1. lambda[i].policy \in Blocks /\ lambda[i].mail \in Mails
    BY <1>1, RunOf DEF BlockSender, Runs
  <2>2. QED
    BY <1>1, <2>1, RemintType, WithholdType DEF BlockSender, TypeInv
<1>2. CASE Quarantine(i)
  BY <1>2, WithholdType DEF Quarantine, Held, Blocks, TypeInv, StateInv
<1>3. QED
  BY <1>1, <1>2

\* The thread a run is about to write.
Target(run) == IF run.match = None THEN Id(run.mail) ELSE run.match

\* What writing it leaves behind: the row, and the run's idea of it.
WroteThread(i, t, row, snap) ==
  /\ threads' = [threads EXCEPT ![t] = row]
  /\ Goto(i, [lambda[i] EXCEPT !.pc = "save", !.match = t, !.snap = snap])
  /\ lambda[i].match # None =>
       /\ row.at = received[lambda[i].mail] /\ snap = row
       /\ threads[t] = None => ~row.key /\ ~row.listed
       /\ threads[t] # None => row.key = threads[t].key /\ row.listed = threads[t].listed
       /\ stale' = IF threads[t] # lambda[i].snap THEN stale \union {t} ELSE stale
       /\ raced' = raced
  /\ lambda[i].match = None =>
       /\ snap.at = received[lambda[i].mail] /\ snap.followup = 0
       /\ snap.key = (lambda[i].mail \in keyed) /\ snap.listed
       /\ row = IF threads[t] = None THEN snap ELSE threads[t]
       /\ raced' = (raced \/ (lambda[i].mail \in keyed
                                /\ Keyed \ (lambda[i].seen \union {t}) # {}))
       /\ stale' = stale

LEMMA Written ==
  ASSUME TypeInv, NEW i \in Lambdas, WriteThread(i)
  PROVE  /\ Target(lambda[i]) \in Ids
         /\ \E row \in Row, snap \in Row : WroteThread(i, Target(lambda[i]), row, snap)
<1> DEFINE t == Target(lambda[i])
<1> DEFINE run == lambda[i]
<1>1. run \in Runs(Arrived) /\ run.mail \in Mails /\ run.pc = "decide" /\ run.job = "mail"
  BY RunOf DEF WriteThread
<1>2. /\ received[run.mail] \in Times /\ threads \in [Ids -> Row \union {None}]
      /\ tries[run.mail] \in 0 .. MaxTries
  BY <1>1 DEF TypeInv, StateInv, TypeOK
<1>3. t \in Ids
  BY <1>1, <1>2 DEF Runs, Id, Ids, Target
<1>4. PICK status \in {"active", "archived"} :
        IF run.match # None
        THEN /\ threads' = [threads EXCEPT ![t] =
                  LET row == Updated(@, status, received[run.mail]) IN
                  IF run.snap.status = "archived" /\ status = "active" /\ run.snap.followup # 0
                  THEN [row EXCEPT !.followup = 0] ELSE row]
             /\ stale' = IF threads[t] # run.snap THEN stale \union {t} ELSE stale
             /\ UNCHANGED raced
             /\ Goto(i, [run EXCEPT !.pc = "save", !.snap = threads'[t]])
        ELSE LET row == [status |-> status, at |-> received[run.mail], followup |-> 0,
                         key |-> run.mail \in keyed, listed |-> TRUE]
             IN
             /\ threads' = [threads EXCEPT ![t] = IF @ = None THEN row ELSE @]
             /\ raced' = (raced \/ (run.mail \in keyed /\ Keyed \ (run.seen \union {t}) # {}))
             /\ Goto(i, [run EXCEPT !.pc = "save", !.match = t, !.snap = row])
             /\ UNCHANGED stale
  BY DEF WriteThread, Target
<1> HIDE DEF t
<1>5. CASE run.match # None
  <2> DEFINE old == Updated(threads[t], status, received[run.mail])
             row == IF run.snap.status = "archived" /\ status = "active" /\ run.snap.followup # 0
                    THEN [old EXCEPT !.followup = 0] ELSE old
  <2>1. /\ old \in Row /\ old.at = received[run.mail]
        /\ threads[t] = None => ~old.key /\ ~old.listed
        /\ threads[t] # None => old.key = threads[t].key /\ old.listed = threads[t].listed
    <3>1. /\ threads[t] \in Row \union {None} /\ status \in Statuses
          /\ received[run.mail] \in Times
      BY <1>2, <1>3 DEF Statuses
    <3>2. QED
      BY <3>1, UpdatedTyped
  <2>2. /\ threads' = [threads EXCEPT ![t] = row] /\ run.match = t
        /\ Goto(i, [run EXCEPT !.pc = "save", !.snap = threads'[t]])
    BY <1>4, <1>5 DEF t, Target
  <2> HIDE DEF old
  <2>3. /\ row \in Row /\ row.at = received[run.mail]
        /\ row.key = old.key /\ row.listed = old.listed
    BY <2>1, ThreadsAssumption DEF Row, Hours
  <2> HIDE DEF row
  <2>4. threads'[t] = row
    BY <1>2, <1>3, <2>2
  <2>5. [run EXCEPT !.pc = "save", !.snap = row] = [run EXCEPT !.pc = "save", !.match = t, !.snap = row]
    BY <1>1, <2>2 DEF Runs
  <2>6. Goto(i, [run EXCEPT !.pc = "save", !.match = t, !.snap = row])
    BY <2>2, <2>4, <2>5
  <2>7. stale' = (IF threads[t] # run.snap THEN stale \union {t} ELSE stale) /\ raced' = raced
    BY <1>4, <1>5
  <2>8. QED
    BY <1>3, <1>5, <2>1, <2>2, <2>3, <2>6, <2>7 DEF WroteThread, t
<1>6. CASE run.match = None
  <2> DEFINE snap == [status |-> status, at |-> received[run.mail], followup |-> 0,
                      key |-> run.mail \in keyed, listed |-> TRUE]
             row == IF threads[t] = None THEN snap ELSE threads[t]
  <2>1. /\ snap \in Row /\ snap.at = received[run.mail] /\ snap.followup = 0
        /\ snap.key = (run.mail \in keyed) /\ snap.listed
    BY <1>2, ThreadsAssumption DEF Row, Hours
  <2>2. /\ threads' = [threads EXCEPT ![t] = IF @ = None THEN snap ELSE @]
        /\ Goto(i, [run EXCEPT !.pc = "save", !.match = t, !.snap = snap])
        /\ raced' = (raced \/ (run.mail \in keyed /\ Keyed \ (run.seen \union {t}) # {}))
        /\ stale' = stale
    BY <1>4, <1>6
  <2> HIDE DEF snap
  <2>3. row \in Row /\ threads' = [threads EXCEPT ![t] = row]
    BY <1>2, <1>3, <2>1, <2>2
  <2>4. QED
    BY <1>3, <1>6, <2>1, <2>2, <2>3 DEF WroteThread, t
<1>7. QED
  BY <1>5, <1>6

LEMMA SavedRun ==
  ASSUME NEW arrived, NEW run \in Runs(arrived), NEW t \in Ids, NEW snap \in Row
  PROVE  [run EXCEPT !.pc = "save", !.match = t, !.snap = snap] \in Runs(arrived)
<1>1. snap # None /\ t # None
  BY NoneApart
<1>2. QED
  BY <1>1 DEF Runs

LEMMA WriteThreadType ==
  ASSUME TypeInv, NEW i \in Lambdas, WriteThread(i)
  PROVE  TypeInv'
<1> DEFINE t == Target(lambda[i])
<1>1. lambda[i] \in Runs(Arrived)
  BY RunOf DEF WriteThread
<1>2. PICK row \in Row, snap \in Row : WroteThread(i, t, row, snap)
  BY Written
<1>3. t \in Ids /\ raced' \in BOOLEAN /\ stale' \in {stale, stale \union {t}}
  BY <1>2, Written DEF WroteThread, TypeInv, StateInv, TypeOK
<1> HIDE DEF t
<1>4. lambda' \in [Lambdas -> Jobs(Arrived)'] /\ Arrived' = Arrived
  BY <1>1, <1>2, <1>3, SavedRun, GoesOn DEF WriteThread, WroteThread, Jobs, mail
<1>5. user' \in [Ids -> {"none", "active", "archived", "deleted", "snoozed", "reported"}]
  <2>1. user' = [user EXCEPT ![t] = IF @ = "reported" THEN @ ELSE "none"]
    BY DEF WriteThread, t, Target
  <2>2. QED
    BY <2>1 DEF TypeInv, StateInv, TypeOK
<1>6. StateInv'
  <2>1. threads' \in [Ids -> Row \union {None}] /\ stale' \in SUBSET Ids
    BY <1>2, <1>3 DEF WroteThread, TypeInv, StateInv, TypeOK
  <2>2. QED
    BY <1>3, <1>5, <2>1, OnlyThreads
       DEF WriteThread, clock, TypeInv, StateInv, TypeOK
<1>7. QED
  BY <1>4, <1>6 DEF TypeInv

LEMMA SaveType ==
  ASSUME TypeInv, NEW i \in Lambdas, SaveSignal(i)
  PROVE  TypeInv'
<1> DEFINE run == lambda[i]
           row == [status |-> "active", thread |-> run.match, why |-> "none"]
<1>1. run \in Runs(Arrived) /\ run.mail \in Arrived /\ run.mail \in Mails /\ run.pc = "save"
  BY RunOf DEF SaveSignal
<1>2. run.match \in Ids /\ run.match # None /\ [run EXCEPT !.pc = "index"] \in Runs(Arrived)
  BY <1>1 DEF Runs
<1>3. row \in Signal /\ row.thread # None
  BY <1>2 DEF Signal
<1>4. stale' \in SUBSET Ids
  <2>1. Moved(run.mail, Source(run)) \subseteq Ids
    BY <1>1, MovedTyped DEF TypeInv
  <2>2. QED
    BY <1>2, <2>1 DEF SaveSignal, TypeInv, StateInv, TypeOK
<1>5. StateInv'
  BY <1>1, <1>3, <1>4, OnlySignals DEF SaveSignal, mail, TypeInv, StateInv
<1>6. QED
  BY <1>2, <1>5, GoesOn DEF SaveSignal, mail, Jobs, TypeInv

LEMMA IndexType ==
  ASSUME TypeInv, NEW i \in Lambdas, Index(i) \/ RunFails(i)
  PROVE  TypeInv'
<1> DEFINE run == lambda[i]
<1>1. run \in Runs(Arrived) /\ run.mail \in Arrived /\ run.mail \in Mails /\ Arrived \in SUBSET Mails
  BY RunOf DEF Index, RunFails, Arrived
<1>2. After(run) \in Jobs(Arrived) /\ Idle \in Jobs(Arrived)
  BY <1>1, AfterTyped DEF Jobs
<1>3. CASE Index(i)
  <2>1. run.match \in Ids /\ run.snap \in Row
    BY <1>1, <1>3 DEF Index, Runs
  <2>2. vectors' \subseteq Mails \X Ids /\ codes' \subseteq [thread : Ids, row : Row]
    BY <1>1, <1>3, <2>1 DEF Index, TypeInv, StateInv, TypeOK
  <2>3. lambda' \in [Lambdas -> Jobs(Arrived)'] /\ Arrived' = Arrived
    BY <1>2, <1>3, GoesOn DEF Index, mail
  <2>4. StateInv'
    BY <1>3, <2>2, <2>3 DEF Index, TypeInv, StateInv, TypeOK, mail, clock, past
  <2>5. QED
    BY <2>3, <2>4 DEF TypeInv
<1>4. CASE RunFails(i)
  <2>1. lambda' \in [Lambdas -> Jobs(Arrived)'] /\ Arrived' = Arrived
    BY <1>2, <1>4, GoesOn DEF RunFails
  <2>2. tries' \in [Mails -> 0 .. MaxTries] /\ tries' \in [Mails -> Nat]
    <3>1. tries' \in [Mails -> 0 .. MaxTries]
      BY <1>1, <1>4, RemintType DEF RunFails, TypeInv, StateInv
    <3>2. 0 .. MaxTries \subseteq Nat
      OBVIOUS
    <3>3. QED
      BY <3>1, <3>2
  <2>3. waiting' \subseteq Arrived /\ faults' \in 0 .. MaxFaults
    BY <1>1, <1>4, ThreadsAssumption DEF RunFails, Fault, TypeInv, StateInv, TypeOK
  <2>4. TypeOK'
    BY <1>1, <1>4, <2>2, <2>3 DEF RunFails, TypeInv, StateInv, TypeOK, rows, clock, past
  <2>5. StateInv'
    BY <1>4, <2>1, <2>2, <2>3, <2>4 DEF RunFails, TypeInv, StateInv, rows
  <2>6. QED
    BY <2>1, <2>5 DEF TypeInv
<1>5. QED
  BY <1>3, <1>4

LEMMA PipelineType ==
  ASSUME TypeInv, NEW i \in Lambdas, Pipeline(i)
  PROVE  TypeInv'
BY ReceiveType, LookUpType, QuarantineType, WriteThreadType, SaveType, IndexType DEF Pipeline

LEMMA JobOf ==
  ASSUME TypeInv, NEW i \in Lambdas
  PROVE  lambda[i] \in Jobs(Arrived) /\ Arrived \subseteq Mails
BY DEF TypeInv, Arrived

LEMMA OpenRequest ==
  ASSUME TypeInv, NEW i \in Lambdas, NEW job \in Jobs(Arrived), Request, Goto(i, job),
         UNCHANGED <<mail, rows, clock, codes, faults, past>>
  PROVE  TypeInv'
<1>1. requests' \in 0 .. MaxRequests /\ faults' \in 0 .. MaxFaults /\ UNCHANGED received
  BY ThreadsAssumption DEF Request, TypeInv, StateInv, TypeOK, mail
<1>2. QED
  BY <1>1, GoesOn, OnlyJobs DEF TypeInv

LEMMA NextJob ==
  ASSUME TypeInv, NEW i \in Lambdas, NEW job \in Jobs(Arrived), Goto(i, job),
         UNCHANGED <<mail, rows, clock, codes, requests, faults, past>>
  PROVE  TypeInv'
<1>1. requests' \in 0 .. MaxRequests /\ faults' \in 0 .. MaxFaults /\ UNCHANGED received
  BY DEF TypeInv, StateInv, TypeOK, mail
<1>2. QED
  BY <1>1, GoesOn, OnlyJobs DEF TypeInv

LEMMA OpenType ==
  ASSUME TypeInv, NEW i \in Lambdas,
         \/ \E m \in Mails : (\E as \in Answers : Respond(i, m, as)) \/ Reprocess(i, m)
         \/ \E t \in Ids : \/ Report(i, t)
                           \/ \E s \in Statuses : Patch(i, t, s, 0)
                           \/ \E h \in Hours \ {0} : Patch(i, t, "archived", h)
  PROVE  TypeInv'
<1>1. ASSUME NEW m \in Mails, NEW as \in Answers, Respond(i, m, as) PROVE TypeInv'
  <2>1. [job |-> "respond", mail |-> m, as |-> as, policy |-> policy] \in Jobs(Arrived)
    BY <1>1 DEF Respond, Withheld, Jobs, Responses, Policies, TypeInv, StateInv, TypeOK
  <2>2. QED
    BY <1>1, <2>1, OpenRequest DEF Respond
<1>2. ASSUME NEW m \in Mails, Reprocess(i, m) PROVE TypeInv'
  <2> DEFINE source == signals[m].thread
             job == [job |-> "clean", mail |-> m, source |-> source,
                     alone |-> source # None /\ On(source) = {m}]
  <2>1. source \in Ids \union {None} /\ m \in Arrived
    BY <1>2 DEF Reprocess, TypeInv, StateInv, TypeOK, Signal
  <2>2. job \in Cleans(Arrived)
    BY <2>1 DEF Cleans
  <2>3. Goto(i, job)
    BY <1>2 DEF Reprocess
  <2> HIDE DEF job
  <2>4. QED
    BY <1>2, <2>2, <2>3, OpenRequest DEF Reprocess, Jobs
<1>3. ASSUME NEW t \in Ids, Report(i, t) PROVE TypeInv'
  <2>1. threads[t] \in Row
    BY <1>3 DEF Report, TypeInv, StateInv, TypeOK
  <2>2. [job |-> "report", pc |-> IF On(t) = {} THEN "write" ELSE "sender",
         thread |-> t, snap |-> threads[t], named |-> On(t) # {}] \in Jobs(Arrived)
    BY <2>1 DEF Jobs, Reports
  <2>3. QED
    BY <1>3, <2>2, OpenRequest DEF Report
<1>4. ASSUME NEW t \in Ids, NEW s \in Statuses, NEW h \in Hours, Patch(i, t, s, h)
      PROVE  TypeInv'
  <2>1. threads[t] \in Row
    BY <1>4 DEF Patch, TypeInv, StateInv, TypeOK
  <2>2. [job |-> "patch", pc |-> IF h = 0 THEN "write" ELSE "alarm",
         thread |-> t, snap |-> threads[t], followup |-> h,
         status |-> IF h # 0 THEN "archived" ELSE s] \in Jobs(Arrived)
    BY <2>1 DEF Jobs, Patches, Statuses
  <2>3. QED
    BY <1>4, <2>2, OpenRequest DEF Patch
<1>5. 0 \in Hours /\ "archived" \in Statuses
  BY ThreadsAssumption DEF Hours, Statuses
<1>6. QED
  BY <1>1, <1>2, <1>3, <1>4, <1>5

LEMMA AnswerType ==
  ASSUME TypeInv, NEW i \in Lambdas,
         Dismiss(i) \/ Block(i) \/ RecordBlock(i) \/ Approve(i)
  PROVE  TypeInv'
<1> DEFINE req == lambda[i]
           row(status) == [status |-> status, thread |-> None, why |-> "user"]
<1>1. /\ req \in Responses(Arrived) /\ req.mail \in Arrived /\ req.mail \in Mails
      /\ req.as \in Answers /\ req.policy \in Policies /\ UNCHANGED received
  <2>1. req \in Responses(Arrived)
    BY JobOf, JobKinds DEF Dismiss, Block, RecordBlock, Approve
  <2>2. QED
    BY <2>1 DEF Responses, Arrived, Dismiss, Block, RecordBlock, Approve, mail
<1>2. \A as \in Answers : Siblings(req.mail, as, None) \in Jobs(Arrived)
  BY <1>1 DEF Siblings, Jobs, Lists
<1>3. \A status \in Blocks : row(status) \in Signal /\ row(status).status # "active"
  BY DEF Signal, Held, Blocks
<1>4. Moved(req.mail, None) \subseteq Ids
  BY <1>1, MovedTyped DEF TypeInv
<1>5. CASE Dismiss(i)
  <2>1. StateInv'
    BY <1>1, <1>3, <1>4, <1>5, OnlySignals
       DEF Dismiss, Blocks, mail, TypeInv, StateInv, TypeOK
  <2>2. QED
    BY <1>1, <1>2, <1>5, <2>1, GoesOn DEF Dismiss, TypeInv
<1>6. CASE Block(i)
  <2>1. StateInv'
    BY <1>1, <1>3, <1>4, <1>6, OnlySignals DEF Block, mail, TypeInv, StateInv, TypeOK
  <2>2. [req EXCEPT !.job = "blocked"] \in Jobs(Arrived)
    BY <1>1, <1>6 DEF Block, Jobs, Responses
  <2>3. QED
    BY <1>1, <1>6, <2>1, <2>2, GoesOn DEF Block, TypeInv
<1>7. ASSUME NEW job \in Jobs(Arrived), Goto(i, job), policy' \in Policies,
             late' \in {late, late \union InFlight},
             user' \in [Ids -> {"none", "active", "archived", "deleted", "snoozed", "reported"}],
             UNCHANGED <<mail, threads, signals, vectors, clock, codes, requests, faults, stale, unlisted, raced>>
      PROVE  TypeInv'
  <2>1. InFlight \subseteq Mails
    BY RunOf DEF InFlight
  <2>2. lambda' \in [Lambdas -> Jobs(Arrived)'] /\ Arrived' = Arrived
    BY <1>7, GoesOn DEF mail
  <2>3. StateInv'
    BY <1>7, <2>1, <2>2 DEF TypeInv, StateInv, TypeOK, Policies, mail, clock
  <2>4. QED
    BY <2>2, <2>3 DEF TypeInv
<1>8. CASE RecordBlock(i)
  <2>1. req.as \in Blocks
    BY <1>1, <1>8 DEF RecordBlock, Responses
  <2>2. user' \in [Ids -> {"none", "active", "archived", "deleted", "snoozed", "reported"}]
    BY <1>8 DEF RecordBlock, TypeInv, StateInv, TypeOK
  <2>3. QED
    BY <1>1, <1>2, <1>7, <1>8, <2>1, <2>2 DEF RecordBlock, SavePolicy, Policies
<1>9. CASE Approve(i)
  <2>1. [kind |-> "approve", sender |-> req.policy = None] \in Causes(Arrived)
    BY DEF Causes
  <2>2. Run(req.mail, [kind |-> "approve", sender |-> req.policy = None]) \in Jobs(Arrived)
    BY <1>1, <2>1, NewRun DEF Jobs
  <2>3. policy' \in Policies /\ late' \in {late, late \union InFlight}
    BY <1>9 DEF Approve, SavePolicy, Policies, TypeInv, StateInv, TypeOK
  <2>4. user' \in [Ids -> {"none", "active", "archived", "deleted", "snoozed", "reported"}]
    BY <1>9 DEF Approve, TypeInv, StateInv, TypeOK
  <2>5. QED
    BY <1>7, <1>9, <2>2, <2>3, <2>4 DEF Approve
<1>10. QED
  BY <1>5, <1>6, <1>8, <1>9

LEMMA SiblingType ==
  ASSUME TypeInv, NEW i \in Lambdas, ListSiblings(i) \/ NextSibling(i)
  PROVE  TypeInv'
<1> DEFINE req == lambda[i]
<1>1. /\ req \in Lists(Arrived) /\ req.of \in Arrived /\ req.as \in Answers
      /\ req.todo \in (SUBSET Arrived) \union {None} /\ Arrived \subseteq Mails
  <2>1. req \in Lists(Arrived)
    BY JobOf, JobKinds DEF ListSiblings, NextSibling
  <2>2. QED
    BY <2>1 DEF Lists, Arrived
<1>2. CASE ListSiblings(i)
  <2>1. PICK page \in SUBSET Visible(req.of) :
          /\ Goto(i, [req EXCEPT !.todo = page])
          /\ unlisted' = IF req.as = "approve" THEN unlisted \union (Visible(req.of) \ page) ELSE unlisted
    BY <1>2 DEF ListSiblings
  <2>2. Visible(req.of) \in SUBSET Arrived
    BY DEF Visible, TypeInv, StateInv
  <2>3. [req EXCEPT !.todo = page] \in Jobs(Arrived)
    BY <1>1, <2>1, <2>2 DEF Jobs, Lists
  <2>4. lambda' \in [Lambdas -> Jobs(Arrived)'] /\ Arrived' = Arrived
    BY <1>2, <2>1, <2>3, GoesOn DEF ListSiblings, mail
  <2>5. unlisted' \subseteq Mails
    BY <1>1, <2>1, <2>2 DEF TypeInv, StateInv, TypeOK
  <2>6. StateInv'
    BY <1>2, <2>4, <2>5 DEF ListSiblings, TypeInv, StateInv, TypeOK, mail, rows, clock
  <2>7. QED
    BY <2>4, <2>6 DEF TypeInv
<1>3. CASE NextSibling(i)
  <2>1. req.todo \in SUBSET Arrived /\ req.todo # None
    BY <1>1, <1>3 DEF NextSibling
  <2>2. CASE Goto(i, Idle) /\ UNCHANGED <<signals, stale>>
    BY <1>3, <2>2, NextJob DEF NextSibling, rows, past, Jobs
  <2>3. ASSUME NEW m \in req.todo, req.as = "approve",
               Goto(i, Run(m, [kind |-> "sibling", rest |-> [req EXCEPT !.todo = @ \ {m}]])),
               UNCHANGED <<signals, stale>>
        PROVE  TypeInv'
    <3> DEFINE rest == [req EXCEPT !.todo = @ \ {m}]
    <3>1. rest \in Lists(Arrived) /\ rest.as = "approve" /\ rest.todo # None
      BY <1>1, <2>1, <2>3, NoneApart DEF Lists
    <3> HIDE DEF rest
    <3>2. [kind |-> "sibling", rest |-> rest] \in Causes(Arrived) /\ m \in Arrived
      BY <2>1, <3>1 DEF Causes
    <3>3. Run(m, [kind |-> "sibling", rest |-> rest]) \in Jobs(Arrived)
      BY <3>2, NewRun DEF Jobs
    <3>4. QED
      BY <1>3, <2>3, <3>3, NextJob DEF NextSibling, rows, past, rest
  <2>4. ASSUME NEW m \in req.todo, req.as # "approve",
               Goto(i, [req EXCEPT !.todo = @ \ {m}]),
               signals' = [signals EXCEPT ![m] =
                    [status |-> IF req.as = "dismiss" THEN "block_hidden" ELSE req.as,
                     thread |-> None, why |-> "user"]],
               stale' = stale \union Moved(m, None)
        PROVE  TypeInv'
    <3>1. [req EXCEPT !.todo = @ \ {m}] \in Jobs(Arrived)
      BY <1>1, <2>1 DEF Lists, Jobs
    <3> DEFINE row == [status |-> IF req.as = "dismiss" THEN "block_hidden" ELSE req.as,
                       thread |-> None, why |-> "user"]
    <3>2. row \in Signal /\ row.status # "active"
      BY <1>1, <2>4 DEF Signal, Answers, Blocks
    <3>3. m \in Arrived /\ m \in Mails /\ stale' \in SUBSET Ids
      BY <1>1, <2>1, <2>4, MovedTyped DEF TypeInv, StateInv, TypeOK
    <3>4. StateInv'
      BY <1>3, <2>4, <3>2, <3>3, OnlySignals DEF NextSibling, mail, TypeInv, StateInv
    <3>5. QED
      BY <1>3, <2>4, <3>1, <3>4, GoesOn DEF NextSibling, mail, TypeInv
  <2>5. QED
    BY <1>3, <2>2, <2>3, <2>4 DEF NextSibling
<1>4. QED
  BY <1>2, <1>3

LEMMA ReprocessType ==
  ASSUME TypeInv, NEW i \in Lambdas, Clean(i) \/ RepairRead(i) \/ RepairWrite(i)
  PROVE  TypeInv'
<1> DEFINE req == lambda[i]
<1>1. CASE Clean(i)
  <2>1. /\ req \in Cleans(Arrived) /\ req.mail \in Arrived /\ req.source \in Ids \union {None}
        /\ req.alone => req.source \in Ids
    <3>1. req \in Cleans(Arrived)
      BY <1>1, JobOf, JobKinds DEF Clean
    <3>2. QED
      BY <3>1 DEF Cleans
  <2>2. [kind |-> "reprocess", source |-> req.source] \in Causes(Arrived)
    BY <2>1 DEF Causes
  <2>3. Run(req.mail, [kind |-> "reprocess", source |-> req.source]) \in Jobs(Arrived)
    BY <2>1, <2>2, NewRun DEF Jobs
  <2>4. lambda' \in [Lambdas -> Jobs(Arrived)'] /\ Arrived' = Arrived
    BY <1>1, <2>3, GoesOn DEF Clean, mail
  <2>5. vectors' \subseteq vectors /\ stale' \subseteq Ids
    BY <1>1, <2>1 DEF Clean, TypeInv, StateInv, TypeOK
  <2>6. StateInv'
    BY <1>1, <2>4, <2>5 DEF Clean, TypeInv, StateInv, TypeOK, mail, clock
  <2>7. QED
    BY <2>4, <2>6 DEF TypeInv
<1>2. ASSUME RepairRead(i) \/ RepairWrite(i)
      PROVE  /\ req \in Repairs(Arrived) /\ req.thread \in Ids
             /\ req.pc # "thread" => req.snap \in Row
             /\ req.mails \in SUBSET Arrived
  <2>1. req \in Repairs(Arrived)
    BY <1>2, JobOf, JobKinds DEF RepairRead, RepairWrite
  <2>2. QED
    BY <2>1 DEF Repairs
<1>3. CASE RepairRead(i)
  <2>1. threads[req.thread] \in Row \union {None} /\ On(req.thread) \in SUBSET Arrived
    BY <1>2, <1>3 DEF On, TypeInv, StateInv, TypeOK
  <2>2. CASE req.pc = "thread" /\ Goto(i, IF threads[req.thread] = None THEN Idle
                   ELSE [req EXCEPT !.pc = "list", !.snap = threads[req.thread]])
    <3>1. threads[req.thread] # None =>
            [req EXCEPT !.pc = "list", !.snap = threads[req.thread]] \in Jobs(Arrived)
      BY <1>2, <1>3, <2>1 DEF Jobs, Repairs
    <3>2. QED
      BY <1>3, <2>2, <3>1, NextJob DEF RepairRead, Jobs
  <2>3. CASE req.pc = "list" /\ Goto(i, [req EXCEPT !.pc = "write", !.mails = On(req.thread)])
    <3>1. [req EXCEPT !.pc = "write", !.mails = On(req.thread)] \in Jobs(Arrived)
      BY <1>2, <1>3, <2>1, <2>3 DEF Jobs, Repairs
    <3>2. QED
      BY <1>3, <2>3, <3>1, NextJob DEF RepairRead
  <2>4. QED
    BY <1>3, <2>2, <2>3 DEF RepairRead
<1>4. CASE RepairWrite(i)
  <2> DEFINE at == MaxOf({0} \union {received[m] : m \in req.mails})
  <2>1. at \in Times
    <3>1. Cardinality(Mails) \in Nat /\ received \in [Mails -> 0 .. Cardinality(Mails)]
      BY ThreadsAssumption, FS_CardinalityType DEF TypeInv, StateInv, TypeOK, Times
    <3> DEFINE S == {0} \union {received[m] : m \in req.mails}
    <3>2. S \in SUBSET (0 .. Cardinality(Mails)) /\ S # {}
      BY <1>2, <1>4, <3>1 DEF Arrived
    <3> HIDE DEF S
    <3>3. MaxOf(S) \in S
      BY <3>1, <3>2, MaxIs
    <3>4. QED
      BY <3>2, <3>3 DEF S, Times
  <2> HIDE DEF at
  <2>2. /\ req.thread \in Ids /\ req.snap \in Row /\ req.snap.status \in Statuses
        /\ threads[req.thread] \in Row \union {None}
    BY <1>2, <1>4 DEF RepairWrite, Row, Statuses, TypeInv, StateInv, TypeOK
  <2>3. Updated(threads[req.thread], req.snap.status, at) \in Row
    BY <2>1, <2>2, UpdatedTyped
  <2>4. threads' \in [Ids -> Row \union {None}] /\ stale' \in SUBSET Ids
    BY <1>4, <2>2, <2>3 DEF RepairWrite, TypeInv, StateInv, TypeOK, at
  <2>5. StateInv'
    BY <1>4, <2>4, OnlyThreads DEF RepairWrite, clock, TypeInv, StateInv, TypeOK
  <2>6. QED
    BY <1>4, <2>5, GoesOn DEF RepairWrite, Jobs, mail, TypeInv
<1>5. QED
  BY <1>1, <1>3, <1>4

LEMMA PatchType ==
  ASSUME TypeInv, NEW i \in Lambdas, SetAlarm(i) \/ PatchWrite(i)
  PROVE  TypeInv'
<1> DEFINE req == lambda[i]
<1>1. /\ req \in Patches /\ req.thread \in Ids /\ req.followup \in Hours
      /\ req.status \in Statuses /\ req.snap \in Row /\ req.snap.at \in Times
      /\ threads[req.thread] \in Row \union {None} /\ UNCHANGED received
  <2>1. req \in Patches
    BY JobOf, JobKinds DEF SetAlarm, PatchWrite
  <2>2. QED
    BY <2>1 DEF Patches, Row, TypeInv, StateInv, TypeOK, SetAlarm, PatchWrite, mail
<1>2. CASE SetAlarm(i)
  <2>1. [req EXCEPT !.pc = "write"] \in Jobs(Arrived)
    BY <1>1 DEF Jobs, Patches
  <2>2. lambda' \in [Lambdas -> Jobs(Arrived)'] /\ Arrived' = Arrived
    BY <1>1, <1>2, <2>1, GoesOn DEF SetAlarm
  <2>3. alarms' \subseteq [thread : Ids, due : Hours] /\ schedule' \in [Ids -> Hours]
    BY <1>1, <1>2 DEF SetAlarm, TypeInv, StateInv, TypeOK
  <2>4. StateInv'
    BY <1>2, <2>2, <2>3 DEF SetAlarm, TypeInv, StateInv, TypeOK, mail, rows, past
  <2>5. QED
    BY <2>2, <2>4 DEF TypeInv
<1>3. CASE PatchWrite(i)
  <2> DEFINE old == Updated(threads[req.thread], req.status, req.snap.at)
             row == IF req.followup = 0 THEN old ELSE [old EXCEPT !.followup = req.followup]
  <2>1. old \in Row
    BY <1>1, UpdatedTyped
  <2>2. threads' = [threads EXCEPT ![req.thread] = row]
    BY <1>3 DEF PatchWrite
  <2> HIDE DEF old
  <2>3. row \in Row
    BY <1>1, <2>1 DEF Row
  <2> HIDE DEF row
  <2>4. threads' \in [Ids -> Row \union {None}] /\ stale' \in SUBSET Ids
    BY <1>1, <1>3, <2>2, <2>3 DEF PatchWrite, TypeInv, StateInv, TypeOK
  <2>5. user' \in [Ids -> {"none", "active", "archived", "deleted", "snoozed", "reported"}]
    BY <1>1, <1>3 DEF PatchWrite, Statuses, TypeInv, StateInv, TypeOK
  <2>6. StateInv'
    BY <1>3, <2>4, <2>5, OnlyThreads DEF PatchWrite, clock, TypeInv, StateInv, TypeOK
  <2>7. QED
    BY <1>1, <1>3, <2>6, GoesOn DEF PatchWrite, Jobs, TypeInv
<1>4. QED
  BY <1>2, <1>3

\* updateThread by someone who has read a row.
LEMMA UpdateType ==
  ASSUME StateInv, NEW t \in Ids, NEW snap, NEW status \in Statuses, NEW at \in Times,
         UpdateThread(t, snap, status, at)
  PROVE  threads' \in [Ids -> Row \union {None}] /\ stale' \in SUBSET Ids
<1>1. threads[t] \in Row \union {None}
  BY DEF StateInv, TypeOK
<1>2. Updated(threads[t], status, at) \in Row
  BY <1>1, UpdatedTyped
<1>3. QED
  BY <1>2 DEF UpdateThread, StateInv, TypeOK

LEMMA ReportType ==
  ASSUME TypeInv, NEW i \in Lambdas, ReportSender(i) \/ ReportWrite(i)
  PROVE  TypeInv'
<1> DEFINE req == lambda[i]
<1>1. /\ req \in Reports /\ req.thread \in Ids /\ req.named \in BOOLEAN
      /\ req.snap \in Row /\ req.snap.at \in Times /\ UNCHANGED received
  <2>1. req \in Reports
    BY JobOf, JobKinds DEF ReportSender, ReportWrite
  <2>2. QED
    BY <2>1 DEF Reports, Row, ReportSender, ReportWrite, mail
<1>2. CASE ReportSender(i)
  <2>1. [req EXCEPT !.pc = "write"] \in Jobs(Arrived)
    BY <1>1 DEF Jobs, Reports
  <2>2. lambda' \in [Lambdas -> Jobs(Arrived)'] /\ Arrived' = Arrived
    BY <1>1, <1>2, <2>1, GoesOn DEF ReportSender
  <2>3. InFlight \subseteq Mails
    BY RunOf DEF InFlight
  <2>4. StateInv'
    BY <1>2, <2>2, <2>3
       DEF ReportSender, SavePolicy, Blocks, TypeInv, StateInv, TypeOK, mail, clock
  <2>5. QED
    BY <2>2, <2>4 DEF TypeInv
<1>3. CASE ReportWrite(i)
  <2>1. threads' \in [Ids -> Row \union {None}] /\ stale' \in SUBSET Ids
    BY <1>1, <1>3, UpdateType DEF ReportWrite, Statuses, TypeInv
  <2>2. user' \in [Ids -> {"none", "active", "archived", "deleted", "snoozed", "reported"}]
    BY <1>1, <1>3 DEF ReportWrite, TypeInv, StateInv, TypeOK
  <2>3. StateInv'
    BY <1>3, <2>1, <2>2, OnlyThreads DEF ReportWrite, clock, TypeInv, StateInv, TypeOK
  <2>4. QED
    BY <1>1, <1>3, <2>3, GoesOn DEF ReportWrite, Jobs, TypeInv
<1>4. QED
  BY <1>2, <1>3

LEMMA ApiType ==
  ASSUME TypeInv, NEW i \in Lambdas, Api(i)
  PROVE  TypeInv'
BY OpenType, AnswerType, SiblingType, ReprocessType, PatchType, ReportType DEF Api, Statuses

LEMMA ClockType ==
  ASSUME TypeInv, Tick \/ \E t \in Ids : Fire(t)
  PROVE  TypeInv'
<1>1. UNCHANGED received /\ Arrived' = Arrived /\ lambda' = lambda
  BY DEF Tick, Fire, Arrived, mail
<1>2. CASE Tick
  <2>1. hour' \in Hours
    BY <1>2, ThreadsAssumption DEF Tick, Hours, TypeInv, StateInv, TypeOK
  <2>2. QED
    BY <1>1, <1>2, <2>1 DEF Tick, TypeInv, StateInv, TypeOK, mail, rows, past
<1>3. ASSUME NEW t \in Ids, Fire(t) PROVE TypeInv'
  <2>1. alarms' \subseteq [thread : Ids, due : Hours] /\ schedule' \in [Ids -> Hours]
    BY <1>3, ThreadsAssumption DEF Fire, Hours, TypeInv, StateInv, TypeOK
  <2>2. QED
    BY <1>1, <1>3, <2>1 DEF Fire, TypeInv, StateInv, TypeOK, mail, rows, past
<1>4. QED
  BY <1>2, <1>3

LEMMA AlarmType ==
  ASSUME TypeInv, NEW i \in Lambdas, Wake(i) \/ \E a \in alarms : Followup(i, a)
  PROVE  TypeInv'
<1>1. CASE Wake(i)
  <2> DEFINE job == lambda[i]
  <2>1. job \in Wakes
    BY <1>1, JobOf, JobKinds DEF Wake
  <2>2. job.thread \in Ids /\ job.due \in Hours
    BY <2>1 DEF Wakes
  <2>3. Now \in Times /\ "active" \in Statuses
    BY <2>2, NowIsATime DEF Ids, TypeInv, Statuses
  <2>4. threads' \in [Ids -> Row \union {None}] /\ stale' \in SUBSET Ids
    <3>1. UpdateThread(job.thread, job.snap, "active", Now) \/ UNCHANGED <<threads, stale>>
      BY <1>1 DEF Wake
    <3>2. QED
      BY <2>2, <2>3, <3>1, UpdateType DEF TypeInv, StateInv, TypeOK
  <2>5. alarms' \subseteq [thread : Ids, due : Hours] /\ faults' \in 0 .. MaxFaults
    BY <1>1, <2>2, ThreadsAssumption DEF Wake, Fault, TypeInv, StateInv, TypeOK
  <2>6. StateInv'
    BY <1>1, <2>4, <2>5, OnlyThreads DEF Wake, TypeInv, StateInv, TypeOK
  <2>7. QED
    BY <1>1, <2>6, GoesOn DEF Wake, Jobs, mail, TypeInv
<1>2. ASSUME NEW a \in alarms, Followup(i, a) PROVE TypeInv'
  <2> DEFINE row == threads[a.thread]
             job == [job |-> "wake", thread |-> a.thread, snap |-> row, due |-> a.due]
  <2>1. a.thread \in Ids /\ a.due \in Hours /\ row \in Row \union {None}
    BY DEF TypeInv, StateInv, TypeOK
  <2>2. row # None => job \in Jobs(Arrived)
    BY <2>1 DEF Jobs, Wakes
  <2>3. (Goto(i, job) /\ row # None) \/ Goto(i, Idle)
    BY <1>2 DEF Followup
  <2> HIDE DEF job, row
  <2>4. lambda' \in [Lambdas -> Jobs(Arrived)'] /\ Arrived' = Arrived
    BY <1>2, <2>2, <2>3, GoesOn DEF Followup, mail, Jobs
  <2>5. StateInv'
    BY <1>2, <2>4 DEF Followup, TypeInv, StateInv, TypeOK, mail, rows, past
  <2>6. QED
    BY <2>4, <2>5 DEF TypeInv
<1>3. QED
  BY <1>1, <1>2

LEMMA ExpireType ==
  ASSUME TypeInv, (\E c \in codes : ArchiveCode(c)) \/ \E t \in Ids : Expire(t)
  PROVE  TypeInv'
<1>1. Arrived' = Arrived /\ lambda' = lambda
  BY DEF ArchiveCode, Expire, Arrived, mail
<1>2. ASSUME NEW c \in codes, ArchiveCode(c) PROVE StateInv'
  <2>1. c.thread \in Ids /\ c.row.at \in Times
    BY DEF Row, TypeInv, StateInv, TypeOK
  <2>2. threads' \in [Ids -> Row \union {None}] /\ stale' \in SUBSET Ids
    BY <1>2, <2>1, UpdateType DEF ArchiveCode, Statuses, TypeInv
  <2>3. QED
    BY <1>2, <2>2, OnlyThreads DEF ArchiveCode, clock, TypeInv, StateInv, TypeOK
<1>3. ASSUME NEW t \in Ids, Expire(t) PROVE StateInv'
  <2>1. threads' \in [Ids -> Row \union {None}] /\ stale' \in SUBSET Ids
    BY <1>3 DEF Expire, TypeInv, StateInv, TypeOK
  <2>2. faults' \in 0 .. MaxFaults
    BY <1>3, ThreadsAssumption DEF Expire, Fault, TypeInv, StateInv, TypeOK
  <2>3. QED
    BY <1>3, <2>1, <2>2, OnlyThreads DEF Expire, clock, TypeInv, StateInv, TypeOK
<1>4. QED
  BY <1>1, <1>2, <1>3 DEF TypeInv

LEMMA InitType == Init => TypeInv
<1> SUFFICES ASSUME Init PROVE TypeInv
  OBVIOUS
<1>1. Arrived = {} /\ Cardinality(Arrived) = 0 /\ Cardinality(Mails) \in Nat /\ MaxTries \in Nat
  <2>1. Arrived = {}
    BY DEF Init, Arrived
  <2>2. QED
    BY <2>1, ThreadsAssumption, FS_EmptySet, FS_CardinalityType
<1>2. TypeOK /\ tries \in [Mails -> 0 .. MaxTries]
  <2>1. 0 \in Times /\ 0 \in Hours /\ 0 \in 0 .. MaxTries
    BY <1>1, ThreadsAssumption DEF Times, Hours
  <2>2. /\ tries \in [Mails -> 0 .. MaxTries] /\ tries \in [Mails -> Nat]
        /\ received \in [Mails -> Times] /\ schedule \in [Ids -> Hours]
    BY <2>1 DEF Init
  <2>3. /\ threads \in [Ids -> Row \union {None}] /\ signals \in [Mails -> Signal \union {None}]
        /\ user \in [Ids -> {"none", "active", "archived", "deleted", "snoozed", "reported"}]
    BY DEF Init
  <2>4. requests \in 0 .. MaxRequests /\ faults \in 0 .. MaxFaults /\ hour \in Hours
    BY <2>1, ThreadsAssumption DEF Init
  <2>5. /\ keyed \subseteq Mails /\ waiting \subseteq Mails /\ vectors \subseteq Mails \X Ids
        /\ policy \in {None, "allow"} \union Blocks /\ stale \subseteq Ids
        /\ late \subseteq Mails /\ unlisted \subseteq Mails /\ raced \in BOOLEAN
        /\ alarms \subseteq [thread : Ids, due : Hours] /\ codes \subseteq [thread : Ids, row : Row]
    BY DEF Init
  <2>6. QED
    BY <2>2, <2>3, <2>4, <2>5 DEF TypeOK
<1>3. lambda \in [Lambdas -> Jobs(Arrived)]
  BY DEF Init, Jobs
<1>4. QED
  BY <1>1, <1>2, <1>3, NoneApart DEF Init, TypeInv, StateInv

LEMMA NextType == TypeInv /\ [Next]_vars => TypeInv'
<1>1. ASSUME TypeInv, UNCHANGED vars PROVE TypeInv'
  BY <1>1 DEF vars, mail, rows, clock, past, TypeInv, StateInv, TypeOK, Arrived
<1>2. QED
  BY <1>1, ArriveType, PipelineType, ApiType, ClockType, AlarmType, ExpireType DEF Next

\* A step within a scope is a step.
LEMMA ScopedStep == [MCNext]_<<part, vars>> => [Next]_vars
BY DEF MCNext

-----------------------------------------------------------------------------
(* One thread per conversation: while nobody has raced, a run of its mails   *)
(* that found no thread had none to find.                                    *)

SplitInv ==
  raced \/ /\ \A t, u \in Keyed : t = u
           /\ \A i \in Lambdas : LET run == lambda[i] IN
                run.job = "mail" /\ run.pc = "decide" /\ run.match = None
                  /\ run.mail \in keyed => run.seen = {}

-----------------------------------------------------------------------------
(* Who writes over a thread row, and how.                                    *)

LEMMA Went ==
  ASSUME TypeInv, NEW i \in Lambdas, NEW job, Goto(i, job)
  PROVE  lambda'[i] = job /\ \A k \in Lambdas \ {i} : lambda'[k] = lambda[k]
BY DEF TypeInv, Goto

\* A write by someone who has read `snap` makes `t` no key and no list entry, and
\* is harmless only if the row is still what was read.
Rewrites(t, snap, at) ==
  /\ \E row \in Row :
       /\ threads' = [threads EXCEPT ![t] = row] /\ row.at = at
       /\ threads[t] = None => ~row.key /\ ~row.listed
       /\ threads[t] # None =>
            /\ row.key = threads[t].key /\ row.listed = threads[t].listed
            /\ row.followup = 0 => threads[t].followup = 0
  /\ stale \subseteq stale' /\ (t \in stale' \/ threads[t] = snap)

LEMMA UpdateRewrites ==
  ASSUME StateInv, NEW t \in Ids, NEW snap, NEW status \in Statuses, NEW at \in Times,
         UpdateThread(t, snap, status, at)
  PROVE  Rewrites(t, snap, at)
<1> DEFINE row == Updated(threads[t], status, at)
<1>1. threads[t] \in Row \union {None}
  BY DEF StateInv, TypeOK
<1>2. /\ row \in Row /\ row.at = at
      /\ threads[t] # None => /\ row.followup = threads[t].followup
                              /\ row.key = threads[t].key /\ row.listed = threads[t].listed
      /\ threads[t] = None => ~row.key /\ ~row.listed
  BY <1>1, UpdatedTyped
<1>3. threads' = [threads EXCEPT ![t] = row]
  BY DEF UpdateThread
<1> HIDE DEF row
<1>4. QED
  BY <1>2, <1>3 DEF UpdateThread, Rewrites

LEMMA PatchRewrites ==
  ASSUME TypeInv, NEW i \in Lambdas, PatchWrite(i)
  PROVE  lambda[i].thread \in Ids /\ Rewrites(lambda[i].thread, lambda[i].snap, lambda[i].snap.at)
<1> DEFINE req == lambda[i]
           t == req.thread
           old == Updated(threads[t], req.status, req.snap.at)
           row == IF req.followup = 0 THEN old ELSE [old EXCEPT !.followup = req.followup]
<1>1. req \in Patches
  BY JobOf, JobKinds DEF PatchWrite
<1>2. /\ t \in Ids /\ req.followup \in Hours /\ req.status \in Statuses
      /\ req.snap.at \in Times /\ threads[t] \in Row \union {None}
  BY <1>1 DEF Patches, Row, TypeInv, StateInv, TypeOK
<1>3. /\ old \in Row /\ old.at = req.snap.at
      /\ threads[t] # None => /\ old.followup = threads[t].followup
                              /\ old.key = threads[t].key /\ old.listed = threads[t].listed
      /\ threads[t] = None => ~old.key /\ ~old.listed
  BY <1>2, UpdatedTyped
<1>4. threads' = [threads EXCEPT ![t] = row]
  BY DEF PatchWrite
<1> HIDE DEF old
<1>5. /\ row \in Row /\ row.at = old.at /\ row.key = old.key /\ row.listed = old.listed
      /\ row.followup = 0 => old.followup = 0
  BY <1>2, <1>3 DEF Row
<1> HIDE DEF row
<1>6. QED
  BY <1>2, <1>3, <1>4, <1>5 DEF PatchWrite, Rewrites

LEMMA ReportRewrites ==
  ASSUME TypeInv, NEW i \in Lambdas, ReportWrite(i)
  PROVE  lambda[i].thread \in Ids /\ Rewrites(lambda[i].thread, lambda[i].snap, lambda[i].snap.at)
<1>1. lambda[i] \in Reports
  BY JobOf, JobKinds DEF ReportWrite
<1>2. lambda[i].thread \in Ids /\ lambda[i].snap.at \in Times
  BY <1>1 DEF Reports, Row
<1>3. QED
  BY <1>2, UpdateRewrites DEF ReportWrite, Statuses, TypeInv

LEMMA CodeRewrites ==
  ASSUME TypeInv, NEW c \in codes, ArchiveCode(c)
  PROVE  c.thread \in Ids /\ Rewrites(c.thread, c.row, c.row.at)
<1>1. c.thread \in Ids /\ c.row.at \in Times
  BY DEF Row, TypeInv, StateInv, TypeOK
<1>2. QED
  BY <1>1, UpdateRewrites DEF ArchiveCode, Statuses, TypeInv

LEMMA WakeRewrites ==
  ASSUME TypeInv, NEW i \in Lambdas, Wake(i)
  PROVE  /\ lambda[i].thread \in Ids
         /\ Rewrites(lambda[i].thread, lambda[i].snap, Now) \/ UNCHANGED <<threads, stale>>
<1>1. lambda[i] \in Wakes
  BY JobOf, JobKinds DEF Wake
<1>2. lambda[i].thread \in Ids
  BY <1>1 DEF Wakes
<1>3. Now \in Times /\ "active" \in Statuses
  BY <1>2, NowIsATime DEF Ids, TypeInv, Statuses
<1>4. QED
  BY <1>2, <1>3, UpdateRewrites DEF Wake, TypeInv

\* The recency that is written is that of a mail of the list, or none.
LEMMA RepairRewrites ==
  ASSUME TypeInv, NEW i \in Lambdas, RepairWrite(i)
  PROVE  LET req == lambda[i] IN
         /\ req.thread \in Ids /\ req.snap \in Row
         /\ \E at \in Times :
              /\ at = 0 <=> req.mails = {}
              /\ \/ at = req.snap.at /\ UNCHANGED <<threads, stale>>
                 \/ /\ Rewrites(req.thread, req.snap, at)
                    /\ req.thread \in stale' \/ On(req.thread) = req.mails
<1> DEFINE req == lambda[i]
           S == {0} \union {received[m] : m \in req.mails}
           at == MaxOf(S)
<1>1. req \in Repairs(Arrived) /\ req.pc = "write"
  BY JobOf, JobKinds DEF RepairWrite
<1>2. req.thread \in Ids /\ req.snap \in Row /\ req.mails \in SUBSET Arrived
  BY <1>1 DEF Repairs
<1>3. Cardinality(Mails) \in Nat /\ received \in [Mails -> 0 .. Cardinality(Mails)]
  BY ThreadsAssumption, FS_CardinalityType DEF TypeInv, StateInv, TypeOK, Times
<1>4. S \in SUBSET (0 .. Cardinality(Mails)) /\ S # {}
  BY <1>2, <1>3 DEF Arrived
<1>5. at \in S /\ \A k \in S : k <= at
  <2> HIDE DEF S
  <2>1. QED
    BY <1>3, <1>4, MaxIs
<1>6. at \in Times
  BY <1>4, <1>5 DEF Times
<1>7. at = 0 <=> req.mails = {}
  <2>1. CASE req.mails = {}
    BY <1>5, <2>1
  <2>2. ASSUME NEW m \in req.mails PROVE at # 0
    <3>1. received[m] \in S /\ received[m] \in Nat /\ received[m] # 0
      BY <1>2, <1>3 DEF Arrived
    <3>2. received[m] <= at /\ at \in Nat
      BY <1>4, <1>5, <3>1
    <3> HIDE DEF at
    <3>3. QED
      BY <3>1, <3>2
  <2>3. QED
    BY <2>1, <2>2
<1>8. CASE at = req.snap.at
  BY <1>2, <1>6, <1>7, <1>8 DEF RepairWrite
<1>9. CASE at # req.snap.at
  <2> DEFINE row == Updated(threads[req.thread], req.snap.status, at)
  <2>1. /\ threads' = [threads EXCEPT ![req.thread] = row]
        /\ stale' = IF threads[req.thread] # req.snap \/ On(req.thread) # req.mails
                    THEN stale \union {req.thread} ELSE stale
    BY <1>9 DEF RepairWrite
  <2> HIDE DEF at
  <2>2. threads[req.thread] \in Row \union {None} /\ req.snap.status \in Statuses
    BY <1>2 DEF TypeInv, StateInv, TypeOK, Row, Statuses
  <2>3. /\ row \in Row /\ row.at = at
        /\ threads[req.thread] # None =>
             /\ row.followup = threads[req.thread].followup
             /\ row.key = threads[req.thread].key /\ row.listed = threads[req.thread].listed
        /\ threads[req.thread] = None => ~row.key /\ ~row.listed
    BY <1>6, <2>2, UpdatedTyped
  <2> HIDE DEF row
  <2>4. Rewrites(req.thread, req.snap, at)
    BY <2>1, <2>3 DEF Rewrites
  <2>5. QED
    BY <1>2, <1>6, <1>7, <2>1, <2>4
<1>10. QED
  BY <1>8, <1>9

\* What a request or an alarm is, when it is taken up.
LEMMA NewJobs ==
  ASSUME NEW i
  PROVE  /\ \A m, as : Respond(i, m, as) => \E job : Goto(i, job) /\ job.job = "respond"
         /\ \A m : Reprocess(i, m) => \E job : Goto(i, job) /\ job.job = "clean"
         /\ \A t : Report(i, t) => \E job : Goto(i, job) /\ job.job = "report"
         /\ \A t, s, h : Patch(i, t, s, h) => \E job : Goto(i, job) /\ job.job = "patch"
         /\ \A a : Followup(i, a) =>
              \E job : Goto(i, job) /\ (job = Idle \/ job.job = "wake")
<1>1. ASSUME NEW m, NEW as, Respond(i, m, as) PROVE \E job : Goto(i, job) /\ job.job = "respond"
  <2> DEFINE job == [job |-> "respond", mail |-> m, as |-> as, policy |-> policy]
  <2>1. Goto(i, job) /\ job.job = "respond"
    BY <1>1 DEF Respond
  <2> HIDE DEF job
  <2>2. QED
    BY <2>1
<1>2. ASSUME NEW m, Reprocess(i, m) PROVE \E job : Goto(i, job) /\ job.job = "clean"
  <2> DEFINE source == signals[m].thread
             job == [job |-> "clean", mail |-> m, source |-> source,
                     alone |-> source # None /\ On(source) = {m}]
  <2>1. Goto(i, job) /\ job.job = "clean"
    BY <1>2 DEF Reprocess
  <2> HIDE DEF job
  <2>2. QED
    BY <2>1
<1>3. ASSUME NEW t, Report(i, t) PROVE \E job : Goto(i, job) /\ job.job = "report"
  <2> DEFINE job == [job |-> "report", pc |-> IF On(t) = {} THEN "write" ELSE "sender",
                     thread |-> t, snap |-> threads[t], named |-> On(t) # {}]
  <2>1. Goto(i, job) /\ job.job = "report"
    BY <1>3 DEF Report
  <2> HIDE DEF job
  <2>2. QED
    BY <2>1
<1>4. ASSUME NEW t, NEW s, NEW h, Patch(i, t, s, h) PROVE \E job : Goto(i, job) /\ job.job = "patch"
  <2> DEFINE job == [job |-> "patch", pc |-> IF h = 0 THEN "write" ELSE "alarm",
                     thread |-> t, snap |-> threads[t], followup |-> h,
                     status |-> IF h # 0 THEN "archived" ELSE s]
  <2>1. Goto(i, job) /\ job.job = "patch"
    BY <1>4 DEF Patch
  <2> HIDE DEF job
  <2>2. QED
    BY <2>1
<1>5. ASSUME NEW a, Followup(i, a)
      PROVE  \E job : Goto(i, job) /\ (job = Idle \/ job.job = "wake")
  <2> DEFINE job == [job |-> "wake", thread |-> a.thread, snap |-> threads[a.thread], due |-> a.due]
  <2>1. (Goto(i, job) \/ Goto(i, Idle)) /\ job.job = "wake"
    BY <1>5 DEF Followup
  <2> HIDE DEF job
  <2>2. QED
    BY <2>1
<1>6. QED
  BY <1>1, <1>2, <1>3, <1>4, <1>5

-----------------------------------------------------------------------------
(* One thread per conversation.                                              *)

LEMMA RewritesKeys ==
  ASSUME StateInv, NEW t \in Ids, NEW snap, NEW at, Rewrites(t, snap, at)
  PROVE  Keyed' \subseteq Keyed
BY DEF Rewrites, Keyed, StateInv, TypeOK

\* A decision under way was under way before, or has just looked its thread up.
Deciding(job) == job.job = "mail" /\ job.pc = "decide"

LEMMA SplitKept ==
  ASSUME TypeInv, SplitInv, Keyed' \subseteq Keyed, UNCHANGED <<keyed, raced>>,
         NEW i \in Lambdas, NEW job, Goto(i, job), ~Deciding(job)
  PROVE  SplitInv'
BY Went DEF SplitInv, Deciding

LEMMA SplitStays ==
  ASSUME TypeInv, SplitInv, Keyed' \subseteq Keyed, UNCHANGED <<keyed, raced, lambda>>
  PROVE  SplitInv'
BY DEF SplitInv

LEMMA PipelineSplit ==
  ASSUME TypeInv, SplitInv, NEW i \in Lambdas, Pipeline(i)
  PROVE  SplitInv'
<1> DEFINE run == lambda[i]
<1>1. ASSUME NEW m \in Mails, Receive(i, m) PROVE SplitInv'
  <2>1. Keyed' \subseteq Keyed /\ UNCHANGED <<keyed, raced>>
    BY <1>1 DEF Receive, Keyed, rows, past
  <2> DEFINE again == [Run(m, Direct) EXCEPT !.pc = "index", !.match = signals[m].thread,
                                             !.snap = threads[signals[m].thread]]
  <2>2. Goto(i, Run(m, Direct)) \/ Goto(i, again) \/ Goto(i, Idle)
    BY <1>1 DEF Receive
  <2>3. ~Deciding(Run(m, Direct)) /\ ~Deciding(again) /\ ~Deciding(Idle)
    BY DEF Run, Idle, Deciding
  <2>4. QED
    <3> HIDE DEF again
    <3>1. QED
      BY <2>1, <2>2, <2>3, SplitKept
<1>2. CASE ReadPolicy(i)
  <2>1. Keyed' \subseteq Keyed /\ UNCHANGED <<keyed, raced>>
    BY <1>2 DEF ReadPolicy, Keyed, rows, past, mail
  <2>2. run \in Runs(Arrived)
    BY <1>2, RunOf DEF ReadPolicy
  <2> DEFINE pc == IF policy \in Blocks THEN "block" ELSE "match"
             next == [run EXCEPT !.policy = policy, !.pc = pc]
  <2>3. Goto(i, next)
    BY <1>2 DEF ReadPolicy
  <2>4. ~Deciding(next)
    <3>1. pc # "decide"
      OBVIOUS
    <3> HIDE DEF pc
    <3>2. QED
      BY <2>2, <3>1 DEF Deciding, Runs
  <2> HIDE DEF next
  <2>5. QED
    BY <2>1, <2>3, <2>4, SplitKept
<1>3. ASSUME run.job = "mail", NEW m, NEW status, NEW why, Withhold(i, m, status, why)
      PROVE  SplitInv'
  <2>1. Keyed' \subseteq Keyed /\ UNCHANGED <<keyed, raced>>
    BY <1>3 DEF Withhold, Keyed
  <2>2. run \in Runs(Arrived) /\ Arrived \in SUBSET Mails
    BY <1>3, RunOf DEF Arrived
  <2>3. ~Deciding(After(run)) /\ ~Deciding(Idle)
    BY <2>2, AfterTyped DEF Deciding, Idle
  <2>4. QED
    BY <1>3, <2>1, <2>3, SplitKept DEF Withhold
<1>4. CASE BlockSender(i) \/ Quarantine(i)
  BY <1>3, <1>4 DEF BlockSender, Quarantine
<1>5. CASE Match(i)
  <2>1. PICK t \in Ids \union {None} :
          LET found == t # None /\ ~Ghost(t) IN
          /\ raced' = (raced \/ (ByKey(run.mail) # {} /\ ~found))
          /\ Goto(i, [run EXCEPT !.match = IF found THEN t ELSE None,
                              !.snap = IF found THEN threads[t] ELSE None,
                              !.seen = Keyed,
                              !.pc = "decide"])
    <3>1. ByKey(run.mail) \union ByReply \union ByVector \subseteq Ids
      BY DEF ByKey, ByReply, ByVector, Keyed
    <3>2. QED
      BY <1>5, <3>1 DEF Match
  <2>2. run \in Runs(Arrived) /\ UNCHANGED keyed /\ Keyed' = Keyed
    BY <1>5, RunOf DEF Match, mail, Keyed
  <2> DEFINE match == IF t # None /\ ~Ghost(t) THEN t ELSE None
             snap == IF t # None /\ ~Ghost(t) THEN threads[t] ELSE None
             next == [run EXCEPT !.match = match, !.snap = snap, !.seen = Keyed, !.pc = "decide"]
  <2>3. Goto(i, next)
    BY <2>1
  <2>4. next.seen = Keyed /\ next.mail = run.mail /\ next.match = match
    <3> HIDE DEF match, snap
    <3>1. QED
      BY <2>2 DEF Runs
  <2>5. /\ lambda'[i].seen = Keyed /\ lambda'[i].mail = run.mail
        /\ lambda'[i].match = match
        /\ \A k \in Lambdas \ {i} : lambda'[k] = lambda[k]
    <3> HIDE DEF next
    <3>1. QED
      BY <2>3, <2>4, Went
  <2>6. raced' \/ (~raced /\ (run.mail \in keyed /\ lambda'[i].match = None => Keyed = {}))
    BY <2>1, <2>5, NoneApart DEF ByKey
  <2>7. QED
    BY <2>2, <2>5, <2>6 DEF SplitInv
<1>6. CASE MatchFails(i)
  BY <1>6 DEF MatchFails, SplitInv
<1>7. CASE WriteThread(i)
  <2> DEFINE t == Target(run)
  <2>1. PICK row \in Row, snap \in Row : WroteThread(i, t, row, snap)
    BY <1>7, Written
  <2>2. /\ t \in Ids /\ run \in Runs(Arrived) /\ run.pc = "decide" /\ run.job = "mail"
        /\ keyed' = keyed /\ threads \in [Ids -> Row \union {None}]
    BY <1>7, Written, RunOf DEF WriteThread, mail, TypeInv, StateInv, TypeOK
  <2>3. ~Deciding([run EXCEPT !.pc = "save", !.match = t, !.snap = snap])
    BY <2>2 DEF Deciding, Runs
  <2> HIDE DEF t
  <2>4. threads' = [threads EXCEPT ![t] = row]
    BY <2>1 DEF WroteThread
  <2>5. CASE Keyed' \subseteq Keyed /\ raced' = raced
    BY <2>1, <2>2, <2>3, <2>5, SplitKept DEF WroteThread
  <2>6. CASE run.match # None
    <3>1. Keyed' \subseteq Keyed
      BY <2>1, <2>2, <2>4, <2>6 DEF WroteThread, Keyed
    <3>2. QED
      BY <2>1, <2>5, <2>6, <3>1 DEF WroteThread
  <2>7. CASE run.match = None /\ run.mail \notin keyed
    <3>1. Keyed' \subseteq Keyed
      BY <2>1, <2>2, <2>4, <2>7 DEF WroteThread, Keyed
    <3>2. QED
      BY <2>1, <2>5, <2>7, <3>1 DEF WroteThread, TypeInv, StateInv, TypeOK
  <2>8. CASE run.match = None /\ run.mail \in keyed
    <3>1. SUFFICES ASSUME ~raced' PROVE SplitInv'
      BY DEF SplitInv
    <3>2. ~raced /\ Keyed \subseteq run.seen \union {t} /\ run.seen = {}
      BY <2>1, <2>2, <2>8, <3>1 DEF WroteThread, SplitInv
    <3>3. Keyed' \subseteq {t}
      BY <2>2, <2>4, <3>2 DEF Keyed
    <3>4. \A k \in Lambdas : Deciding(lambda'[k]) => lambda'[k] = lambda[k]
      BY <2>1, <2>3, Went DEF WroteThread
    <3>5. QED
      BY <2>2, <3>2, <3>3, <3>4 DEF SplitInv, Deciding
  <2>9. QED
    BY <2>6, <2>7, <2>8
<1>8. CASE SaveSignal(i) \/ Index(i) \/ RunFails(i)
  <2>1. run \in Runs(Arrived) /\ run.job = "mail" /\ Arrived \in SUBSET Mails
    BY <1>8, RunOf DEF SaveSignal, Index, RunFails, Arrived
  <2>2. Keyed' \subseteq Keyed /\ UNCHANGED <<keyed, raced>>
    BY <1>8 DEF SaveSignal, Index, RunFails, Keyed, mail, past, rows
  <2>3. /\ ~Deciding(After(run)) /\ ~Deciding(Idle)
        /\ ~Deciding([run EXCEPT !.pc = "index"])
    BY <2>1, AfterTyped DEF Deciding, Idle, Runs
  <2>4. QED
    BY <1>8, <2>2, <2>3, SplitKept DEF SaveSignal, Index, RunFails
<1>9. QED
  BY <1>1, <1>2, <1>4, <1>5, <1>6, <1>7, <1>8 DEF Pipeline

LEMMA ApiSplit ==
  ASSUME TypeInv, SplitInv, NEW i \in Lambdas, Api(i) \/ Wake(i) \/ \E a \in alarms : Followup(i, a)
  PROVE  SplitInv'
<1> DEFINE req == lambda[i]
<1>1. Keyed' \subseteq Keyed
  <2>1. CASE threads' = threads
    BY <2>1 DEF Keyed
  <2>2. ASSUME NEW t \in Ids, NEW snap, NEW at, Rewrites(t, snap, at) PROVE Keyed' \subseteq Keyed
    BY <2>2, RewritesKeys DEF TypeInv
  <2>3. CASE RepairWrite(i)
    BY <2>1, <2>2, <2>3, RepairRewrites
  <2>4. CASE PatchWrite(i) \/ ReportWrite(i) \/ Wake(i)
    BY <2>1, <2>2, <2>4, PatchRewrites, ReportRewrites, WakeRewrites
  <2>5. QED
    BY <2>1, <2>3, <2>4
       DEF Api, Respond, Reprocess, Report, Patch, Dismiss, Block, RecordBlock, Approve,
           ListSiblings, NextSibling, Clean, RepairRead, SetAlarm, ReportSender, Followup, rows
<1>2. UNCHANGED <<keyed, raced>>
  BY DEF Api, Respond, Reprocess, Report, Patch, Dismiss, Block, RecordBlock, Approve,
         ListSiblings, NextSibling, Clean, RepairRead, RepairWrite, SetAlarm, PatchWrite,
         ReportSender, ReportWrite, Wake, Followup, mail, past
<1>3. PICK job : Goto(i, job) /\ ~Deciding(job)
  <2>1. \A m, by : ~Deciding(Run(m, by))
    BY DEF Deciding, Run
  <2>2. ~Deciding(Idle) /\ \A m, as, todo : ~Deciding(Siblings(m, as, todo))
    BY DEF Deciding, Idle, Siblings
  <2>3. CASE Dismiss(i) \/ RecordBlock(i) \/ Approve(i) \/ Clean(i) \/ RepairWrite(i)
               \/ PatchWrite(i) \/ ReportWrite(i) \/ Wake(i)
    BY <2>1, <2>2, <2>3
       DEF Dismiss, RecordBlock, Approve, Clean, RepairWrite, PatchWrite, ReportWrite, Wake
  <2>4. CASE ListSiblings(i) \/ NextSibling(i)
    <3>1. req \in Lists(Arrived)
      BY <2>4, JobOf, JobKinds DEF ListSiblings, NextSibling
    <3>2. \A todo : ~Deciding([req EXCEPT !.todo = todo])
      BY <3>1 DEF Lists, Deciding
    <3>3. QED
      BY <2>1, <2>2, <2>4, <3>2 DEF ListSiblings, NextSibling
  <2>5. CASE Block(i)
    <3>1. req \in Responses(Arrived)
      BY <2>5, JobOf, JobKinds DEF Block
    <3>2. ~Deciding([req EXCEPT !.job = "blocked"])
      BY <3>1 DEF Responses, Deciding
    <3>3. QED
      BY <2>5, <3>2 DEF Block
  <2>6. CASE RepairRead(i) \/ SetAlarm(i) \/ ReportSender(i)
    <3>1. req \in Repairs(Arrived) \union Patches \union Reports /\ req.job # "mail"
      BY <2>6, JobOf, JobKinds DEF RepairRead, SetAlarm, ReportSender
    <3>2. /\ \A snap : ~Deciding([req EXCEPT !.pc = "list", !.snap = snap])
          /\ \A mails : ~Deciding([req EXCEPT !.pc = "write", !.mails = mails])
          /\ ~Deciding([req EXCEPT !.pc = "write"])
      BY <3>1 DEF Repairs, Patches, Reports, Deciding
    <3>3. QED
      BY <2>2, <2>6, <3>2 DEF RepairRead, SetAlarm, ReportSender
  <2>7. ASSUME NEW job, job = Idle \/ job.job \in {"respond", "clean", "report", "patch", "wake"}
        PROVE  ~Deciding(job)
    BY <2>2, <2>7 DEF Deciding
  <2>8. QED
    BY <2>3, <2>4, <2>5, <2>6, <2>7, NewJobs DEF Api
<1>4. QED
  BY <1>1, <1>2, <1>3, SplitKept

LEMMA NextSplit == TypeInv /\ SplitInv /\ [Next]_vars => SplitInv'
<1> SUFFICES ASSUME TypeInv, SplitInv, [Next]_vars PROVE SplitInv'
  OBVIOUS
<1>1. CASE \/ UNCHANGED vars \/ Tick
           \/ \E m \in Mails : Arrive(m)
           \/ \E t \in Ids : Fire(t) \/ Expire(t)
  <2>1. Keyed' \subseteq Keyed /\ UNCHANGED <<keyed, raced, lambda>>
    BY <1>1 DEF vars, Tick, Arrive, Fire, Expire, Keyed, mail, rows, past, TypeInv, StateInv, TypeOK
  <2>2. QED
    BY <2>1, SplitStays
<1>2. ASSUME NEW c \in codes, ArchiveCode(c) PROVE SplitInv'
  <2>1. Keyed' \subseteq Keyed
    BY <1>2, CodeRewrites, RewritesKeys DEF TypeInv
  <2>2. QED
    BY <1>2, <2>1, SplitStays DEF ArchiveCode, mail
<1>3. QED
  BY <1>1, <1>2, PipelineSplit, ApiSplit DEF Next

LEMMA InitSplit == Init => SplitInv
BY DEF Init, SplitInv, Keyed, Idle

\* A conversation has one thread, unless two of its mails were looked up at the
\* same time, the index did not show the thread yet, or a lookup failed
\* (findThreadByGroupingKey, createThread).
THEOREM OneThreadPerConversation == MCSpec => []OneThread
<1> DEFINE Inv == TypeInv /\ SplitInv
<1>1. MCInit => Inv
  BY InitType, InitSplit DEF MCInit
<1>2. Inv /\ [MCNext]_<<part, vars>> => Inv'
  BY ScopedStep, NextType, NextSplit
<1>3. Inv => OneThread
  <2> SUFFICES ASSUME TypeInv, SplitInv PROVE TypeOK /\ SplitsNeedRaces
    BY DEF OneThread
  <2>1. ASSUME \A t, u \in Keyed : t = u PROVE Cardinality(Keyed) <= 1
    <3>1. CASE Keyed = {}
      BY <3>1, FS_EmptySet
    <3>2. ASSUME NEW t \in Keyed PROVE Cardinality(Keyed) <= 1
      <4>1. Cardinality({t}) = 1
        BY FS_Singleton
      <4>2. Keyed = {t}
        BY <2>1, <3>2
      <4>3. QED
        BY <4>1, <4>2
    <3>3. QED
      BY <3>1, <3>2
  <2>2. QED
    BY <2>1 DEF SplitInv, SplitsNeedRaces, TypeInv, StateInv
<1>4. QED
  BY <1>1, <1>2, <1>3, PTL DEF MCSpec

-----------------------------------------------------------------------------
(* A decision about a sender reaches the sender's other mails: whoever took  *)
(* it still has them before it.                                              *)

Quarantined(m) ==
  signals[m] # None /\ signals[m].status = "quarantine_visible" /\ signals[m].why = "sender"

Covers(job, m) ==
  \/ /\ job.job = "mail" /\ job.by.kind = "approve" /\ job.by.sender
     /\ job.pc = "policy" \/ job.policy \notin Blocks
     /\ m # job.mail \/ job.pc \in {"policy", "match", "decide", "save"}
  \/ /\ job.job = "mail" /\ job.by.kind = "sibling"
     /\ m \in job.by.rest.todo \/ (m = job.mail /\ job.pc # "index")
  \/ /\ job.job = "siblings" /\ job.as = "approve"
     /\ IF job.todo = None THEN m # job.of ELSE m \in job.todo

Unknown(job) ==
  job.job = "mail" /\ job.pc \in {"match", "decide"} /\ job.policy = None

UnknownAreLate ==
  policy # None => \A i \in Lambdas : Unknown(lambda[i]) => lambda[i].mail \in late

\* The mails that an approval has to reach.
Owed == Mails \ (late \union unlisted)

SiblingInv ==
  /\ UnknownAreLate
  /\ faults = 0 /\ policy = "allow" =>
       \A m \in Owed : Quarantined(m) => \E i \in Lambdas : Covers(lambda[i], m)

\* What the job an invocation takes up has to be for the invariant to hold on.
LEMMA SiblingKept ==
  ASSUME TypeInv, SiblingInv, UNCHANGED <<policy, late>>, unlisted \subseteq unlisted',
         faults' = 0 => faults = 0, NEW i \in Lambdas, NEW job, Goto(i, job),
         policy # None /\ Unknown(job) => job.mail \in late,
         faults' = 0 /\ policy = "allow" =>
           \A m \in Owed' : Quarantined(m)' =>
             Covers(job, m) \/ (Quarantined(m) /\ ~Covers(lambda[i], m))
  PROVE  SiblingInv'
<1>1. lambda'[i] = job /\ \A k \in Lambdas \ {i} : lambda'[k] = lambda[k]
  BY Went
<1>2. UnknownAreLate'
  BY <1>1 DEF SiblingInv, UnknownAreLate
<1>3. SUFFICES ASSUME faults' = 0, policy = "allow", NEW m \in Owed', Quarantined(m)'
               PROVE  \E k \in Lambdas : Covers(lambda'[k], m)
  BY <1>2 DEF SiblingInv
<1>a. m \in Owed
  BY DEF Owed
<1>4. CASE Covers(job, m)
  BY <1>1, <1>4
<1>5. CASE Quarantined(m) /\ ~Covers(lambda[i], m)
  <2>1. PICK k \in Lambdas : Covers(lambda[k], m)
    BY <1>3, <1>5, <1>a DEF SiblingInv
  <2>2. k # i
    BY <1>5, <2>1
  <2>3. QED
    BY <1>1, <2>1, <2>2
<1>6. QED
  BY <1>3, <1>4, <1>5

\* A job that hands nobody's decision on is taken up or laid down at will.
LEMMA SiblingPlain ==
  ASSUME TypeInv, SiblingInv, UNCHANGED <<policy, late, unlisted>>, faults' = 0 => faults = 0,
         NEW i \in Lambdas, NEW job, Goto(i, job), ~Unknown(job),
         lambda[i].job \notin {"mail", "siblings"},
         \A m \in Mails : Quarantined(m)' => Quarantined(m)
  PROVE  SiblingInv'
<1>1. \A m : ~Covers(lambda[i], m)
  BY DEF Covers
<1>2. QED
  BY <1>1, SiblingKept DEF Owed

LEMMA SiblingStays ==
  ASSUME SiblingInv, UNCHANGED <<policy, late, unlisted, signals, lambda>>, faults' = 0 => faults = 0
  PROVE  SiblingInv'
BY DEF SiblingInv, UnknownAreLate, Quarantined, Owed

\* A change of the sender's record finds the mails in flight late.
LEMMA PolicyChanges ==
  ASSUME TypeInv, SiblingInv, NEW p, p # None, SavePolicy(p), faults' = faults,
         NEW i \in Lambdas, NEW job, Goto(i, job), lambda[i].job # "mail", ~Unknown(job),
         p = "allow" => \A m : Covers(job, m)
  PROVE  SiblingInv'
<1>1. lambda'[i] = job /\ \A k \in Lambdas \ {i} : lambda'[k] = lambda[k]
  BY Went
<1>2. policy' = p /\ late' = late \union InFlight
  BY DEF SavePolicy
<1>3. UnknownAreLate'
  BY <1>1, <1>2 DEF UnknownAreLate, Unknown, InFlight
<1>4. QED
  BY <1>1, <1>2, <1>3 DEF SiblingInv

LEMMA AfterCovers ==
  ASSUME NEW arrived, NEW run \in Runs(arrived), NEW m, Covers(run, m),
         m # run.mail \/ run.pc = "index"
  PROVE  Covers(After(run), m)
<1>1. run.job = "mail" /\ run.by \in Causes(arrived)
  BY DEF Runs
<1>2. CASE run.by.kind = "approve"
  BY <1>1, <1>2 DEF After, Siblings, Covers
<1>3. CASE run.by.kind = "sibling"
  <2>1. /\ run.by.rest \in Lists(arrived) /\ run.by.rest.as = "approve"
        /\ run.by.rest.todo # None /\ After(run) = run.by.rest
    BY <1>1, <1>3, CauseKinds DEF After
  <2>2. run.by.rest.job = "siblings" /\ m \in run.by.rest.todo
    BY <1>1, <1>3, <2>1 DEF Covers, Lists
  <2>3. QED
    BY <2>1, <2>2 DEF Covers
<1>4. QED
  BY <1>1, <1>2, <1>3 DEF Covers

LEMMA AfterKnown ==
  ASSUME NEW arrived \in SUBSET Mails, NEW run \in Runs(arrived)
  PROVE  ~Unknown(After(run)) /\ ~Unknown(Idle)
BY AfterTyped DEF Unknown, Idle

\* A run that goes on, its cause and its mail the same.
LEMMA RunGoesOn ==
  ASSUME TypeInv, SiblingInv, UNCHANGED <<policy, late, unlisted>>, faults' = 0 => faults = 0,
         NEW i \in Lambdas, lambda[i].job = "mail", NEW next, Goto(i, next),
         next.job = "mail", next.by = lambda[i].by, next.mail = lambda[i].mail,
         next.pc = "policy" \/ next.policy \notin Blocks
           \/ (lambda[i].pc # "policy" /\ next.policy = lambda[i].policy) \/ policy # "allow",
         next.pc \in {"match", "decide", "save"} \/ (next.pc = "block" /\ policy # "allow"),
         policy # None /\ Unknown(next) => Unknown(lambda[i]),
         UNCHANGED signals, lambda[i].pc # "index"
  PROVE  SiblingInv'
<1>1. ASSUME NEW m, policy = "allow", Covers(lambda[i], m) PROVE Covers(next, m)
  BY <1>1 DEF Covers
<1>2. policy # None /\ Unknown(next) => next.mail \in late
  BY DEF SiblingInv, UnknownAreLate
<1>3. QED
  BY <1>1, <1>2, SiblingKept DEF Quarantined

LEMMA WithholdSiblings ==
  ASSUME TypeInv, SiblingInv, NEW i \in Lambdas, lambda[i].job = "mail",
         NEW status, NEW why, Withhold(i, lambda[i].mail, status, why),
         status = "quarantine_visible" /\ why = "sender" /\ policy # None =>
           lambda[i].mail \in late,
         lambda[i].by.kind = "approve" => lambda[i].pc = "block"
  PROVE  SiblingInv'
<1> DEFINE run == lambda[i]
           next == IF run.by.kind = "approve" THEN Idle ELSE After(run)
<1>1. /\ run \in Runs(Arrived) /\ run.mail \in Mails /\ Arrived \in SUBSET Mails
      /\ run.pc = "block" => run.policy \in Blocks
  BY RunOf DEF Arrived, Runs
<1>2. /\ Goto(i, next) /\ UNCHANGED <<policy, late, unlisted, faults>>
      /\ signals' = [signals EXCEPT ![run.mail] = [status |-> status, thread |-> None, why |-> why]]
  BY DEF Withhold
<1>3. ~Unknown(next)
  BY <1>1, AfterKnown
<1>4. ASSUME policy # None, NEW m \in Owed, Quarantined(m)'
      PROVE  m # run.mail /\ Quarantined(m)
  BY <1>1, <1>2, <1>4 DEF Quarantined, TypeInv, StateInv, TypeOK, Owed
<1>5. ASSUME NEW m, m # run.mail, Covers(run, m) PROVE Covers(next, m)
  <2>1. run.by.kind # "approve"
    BY <1>1, <1>5 DEF Covers
  <2>2. QED
    BY <1>1, <1>5, <2>1, AfterCovers
<1> HIDE DEF next
<1>6. "allow" # None
  BY NoneApart
<1>7. QED
  BY <1>2, <1>3, <1>4, <1>5, <1>6, SiblingKept DEF Owed

LEMMA PipelineSiblings ==
  ASSUME TypeInv, SiblingInv, NEW i \in Lambdas, Pipeline(i)
  PROVE  SiblingInv'
<1> DEFINE run == lambda[i]
<1>1. ASSUME NEW m \in Mails, Receive(i, m) PROVE SiblingInv'
  <2> DEFINE again == [Run(m, Direct) EXCEPT !.pc = "index", !.match = signals[m].thread,
                                             !.snap = threads[signals[m].thread]]
  <2>1. /\ Goto(i, Run(m, Direct)) \/ Goto(i, again) \/ Goto(i, Idle)
        /\ run.job = "idle" /\ UNCHANGED <<policy, late, unlisted, signals, faults>>
    BY <1>1 DEF Receive, Idle, rows, past
  <2>2. ~Unknown(Run(m, Direct)) /\ ~Unknown(again) /\ ~Unknown(Idle)
    BY DEF Run, Idle, Unknown
  <2> HIDE DEF again
  <2>3. QED
    BY <2>1, <2>2, SiblingPlain DEF Quarantined
<1>2. CASE ReadPolicy(i)
  <2> DEFINE pc == IF policy \in Blocks THEN "block" ELSE "match"
             next == [run EXCEPT !.policy = policy, !.pc = pc]
  <2>1. /\ Goto(i, next) /\ UNCHANGED <<policy, late, unlisted, signals, faults>>
        /\ run.job = "mail" /\ run.pc = "policy"
    BY <1>2 DEF ReadPolicy, rows, past
  <2>2. run \in Runs(Arrived)
    BY <2>1, RunOf
  <2>3. /\ next.job = "mail" /\ next.by = run.by /\ next.mail = run.mail
        /\ next.policy = policy /\ next.pc = pc
    <3> HIDE DEF pc
    <3>1. QED
      BY <2>1, <2>2 DEF Runs
  <2> HIDE DEF next
  <2>4. "allow" \notin Blocks
    BY DEF Blocks
  <2>5. QED
    BY <2>1, <2>3, <2>4, RunGoesOn DEF Unknown
<1>3. CASE BlockSender(i)
  <2>1. run.job = "mail" /\ run.pc = "block" /\ Withhold(i, run.mail, run.policy, "sender")
    BY <1>3 DEF BlockSender
  <2>2. run.policy # "quarantine_visible"
    BY <2>1, RunOf DEF Runs, Blocks
  <2>3. QED
    BY <2>1, <2>2, WithholdSiblings
<1>4. CASE Quarantine(i)
  <2>1. run.job = "mail" /\ run.pc = "decide" /\ run.by.kind # "approve"
    BY <1>4 DEF Quarantine
  <2>2. run.policy = None /\ policy # None => run.mail \in late
    BY <2>1 DEF SiblingInv, UnknownAreLate, Unknown
  <2>3. PICK status, why : /\ Withhold(i, run.mail, status, why)
                           /\ why = "rule" \/ run.policy = None
    BY <1>4 DEF Quarantine
  <2>4. QED
    BY <2>1, <2>2, <2>3, WithholdSiblings
<1>5. CASE Match(i)
  <2>1. PICK t : Goto(i, [run EXCEPT !.match = IF t # None /\ ~Ghost(t) THEN t ELSE None,
                                     !.snap = IF t # None /\ ~Ghost(t) THEN threads[t] ELSE None,
                                     !.seen = Keyed,
                                     !.pc = "decide"])
    BY <1>5 DEF Match
  <2> DEFINE match == IF t # None /\ ~Ghost(t) THEN t ELSE None
             snap == IF t # None /\ ~Ghost(t) THEN threads[t] ELSE None
             next == [run EXCEPT !.match = match, !.snap = snap, !.seen = Keyed, !.pc = "decide"]
  <2>2. Goto(i, next)
    BY <2>1
  <2>3. run.job = "mail" /\ run.pc = "match" /\ UNCHANGED <<policy, late, unlisted, signals, faults>>
    BY <1>5 DEF Match, past
  <2>4. run \in Runs(Arrived)
    BY <2>3, RunOf
  <2>5. /\ next.job = "mail" /\ next.by = run.by /\ next.mail = run.mail
        /\ next.policy = run.policy /\ next.pc = "decide"
    <3> HIDE DEF match, snap
    <3>1. QED
      BY <2>3, <2>4 DEF Runs
  <2> HIDE DEF next
  <2>6. QED
    BY <2>2, <2>3, <2>5, RunGoesOn DEF Unknown
<1>6. CASE WriteThread(i)
  <2>1. PICK t, snap : Goto(i, [run EXCEPT !.pc = "save", !.match = t, !.snap = snap])
    BY <1>6, Written DEF WroteThread
  <2> DEFINE next == [run EXCEPT !.pc = "save", !.match = t, !.snap = snap]
  <2>2. /\ run.job = "mail" /\ run.pc = "decide" /\ UNCHANGED <<policy, late, unlisted, signals, faults>>
        /\ Goto(i, next)
    BY <1>6, <2>1 DEF WriteThread
  <2>3. run \in Runs(Arrived)
    BY <2>2, RunOf
  <2>4. /\ next.job = "mail" /\ next.by = run.by /\ next.mail = run.mail
        /\ next.policy = run.policy /\ next.pc = "save"
    BY <2>2, <2>3 DEF Runs
  <2> HIDE DEF next
  <2>5. QED
    BY <2>2, <2>4, RunGoesOn DEF Unknown
<1>7. CASE SaveSignal(i)
  <2> DEFINE next == [run EXCEPT !.pc = "index"]
  <2>1. /\ run.job = "mail" /\ run.pc = "save" /\ UNCHANGED <<policy, late, unlisted, faults>>
        /\ Goto(i, next)
        /\ signals' = [signals EXCEPT ![run.mail] =
                         [status |-> "active", thread |-> run.match, why |-> "none"]]
    BY <1>7 DEF SaveSignal
  <2>2. run \in Runs(Arrived) /\ run.mail \in Mails
    BY <2>1, RunOf
  <2>3. /\ next.job = "mail" /\ next.by = run.by /\ next.mail = run.mail
        /\ next.policy = run.policy /\ next.pc = "index"
    BY <2>1, <2>2 DEF Runs
  <2> HIDE DEF next
  <2>4. ASSUME NEW m \in Mails, Quarantined(m)' PROVE m # run.mail /\ Quarantined(m)
    BY <2>1, <2>2, <2>4 DEF Quarantined, TypeInv, StateInv, TypeOK
  <2>5. ASSUME NEW m, m # run.mail, Covers(run, m) PROVE Covers(next, m)
    BY <2>1, <2>3, <2>5 DEF Covers
  <2>6. ~Unknown(next)
    BY <2>3 DEF Unknown
  <2>7. QED
    BY <2>1, <2>4, <2>5, <2>6, SiblingKept DEF Owed
<1>8. CASE Index(i)
  <2>1. /\ run.job = "mail" /\ run.pc = "index" /\ UNCHANGED <<policy, late, unlisted, faults, signals>>
        /\ Goto(i, After(run))
    BY <1>8 DEF Index, past
  <2>2. run \in Runs(Arrived) /\ Arrived \in SUBSET Mails
    BY <2>1, RunOf DEF Arrived
  <2>3. ASSUME NEW m, Covers(run, m) PROVE Covers(After(run), m)
    BY <2>1, <2>2, <2>3, AfterCovers
  <2>4. ~Unknown(After(run))
    BY <2>2, AfterKnown
  <2>5. QED
    BY <2>1, <2>3, <2>4, SiblingKept DEF Quarantined
<1>9. ASSUME NEW next, Goto(i, next), Unknown(next) => run.pc = "match" /\ Unknown(run) /\ next.mail = run.mail,
             UNCHANGED <<policy, late, unlisted>>, Fault
      PROVE  SiblingInv'
  <2>1. faults' # 0
    BY <1>9 DEF Fault, TypeInv, StateInv, TypeOK
  <2>2. policy # None /\ Unknown(next) => next.mail \in late
    BY <1>9 DEF SiblingInv, UnknownAreLate
  <2>3. QED
    BY <1>9, <2>1, <2>2, SiblingKept
<1>10. CASE MatchFails(i)
  <2> DEFINE next == [run EXCEPT !.pc = "decide"]
  <2>1. /\ run.job = "mail" /\ run.pc = "match" /\ UNCHANGED <<policy, late, unlisted>> /\ Fault
        /\ Goto(i, next)
    BY <1>10 DEF MatchFails, rows
  <2>2. run \in Runs(Arrived)
    BY <2>1, RunOf
  <2>3. next.mail = run.mail /\ next.policy = run.policy
    BY <2>2 DEF Runs
  <2> HIDE DEF next
  <2>4. QED
    BY <1>9, <2>1, <2>3 DEF Unknown
<1>11. CASE RunFails(i)
  <2>1. /\ run.job = "mail" /\ UNCHANGED <<policy, late, unlisted>> /\ Fault
        /\ Goto(i, After(run)) \/ Goto(i, Idle)
    BY <1>11 DEF RunFails, rows, past
  <2>2. ~Unknown(After(run)) /\ ~Unknown(Idle)
    BY <2>1, RunOf, AfterKnown DEF Arrived
  <2>3. QED
    BY <1>9, <2>1, <2>2
<1>12. QED
  BY <1>1, <1>2, <1>3, <1>4, <1>5, <1>6, <1>7, <1>8, <1>10, <1>11 DEF Pipeline

\* A write on the user's behalf leaves a mail that waits for no decision.
LEMMA UserDecides ==
  ASSUME TypeInv, NEW n \in Mails, NEW status, NEW m \in Mails, Quarantined(m)',
         signals' = [signals EXCEPT ![n] = [status |-> status, thread |-> None, why |-> "user"]]
  PROVE  m # n /\ Quarantined(m)
BY DEF Quarantined, TypeInv, StateInv, TypeOK

LEMMA AnswersSiblings ==
  ASSUME TypeInv, SiblingInv, NEW i \in Lambdas,
         Dismiss(i) \/ Block(i) \/ RecordBlock(i) \/ Approve(i) \/ ReportSender(i)
  PROVE  SiblingInv'
<1> DEFINE req == lambda[i]
<1>1. CASE Dismiss(i) \/ Block(i)
  <2>1. req \in Responses(Arrived) /\ UNCHANGED <<policy, late, unlisted, faults>>
    BY <1>1, JobOf, JobKinds DEF Dismiss, Block
  <2>2. req.mail \in Mails /\ req.job \in {"respond", "blocked"}
    BY <2>1 DEF Responses, Arrived
  <2>3. PICK status : signals' = [signals EXCEPT ![req.mail] =
                                    [status |-> status, thread |-> None, why |-> "user"]]
    BY <1>1 DEF Dismiss, Block
  <2>4. PICK job : Goto(i, job) /\ ~Unknown(job)
    <3>1. ~Unknown([req EXCEPT !.job = "blocked"])
      BY <2>1 DEF Responses, Unknown
    <3>2. ~Unknown(Siblings(req.mail, req.as, None))
      BY DEF Siblings, Unknown
    <3>3. QED
      BY <1>1, <3>1, <3>2 DEF Dismiss, Block
  <2>5. QED
    BY <2>1, <2>2, <2>3, <2>4, UserDecides, SiblingPlain
<1>2. CASE RecordBlock(i)
  <2>1. req \in Responses(Arrived) /\ req.job = "blocked"
    BY <1>2, JobOf, JobKinds DEF RecordBlock
  <2>2. req.as \in Blocks
    BY <2>1 DEF Responses
  <2>3. /\ SavePolicy(req.as) /\ UNCHANGED <<signals, faults>>
        /\ Goto(i, Siblings(req.mail, req.as, None))
    BY <1>2 DEF RecordBlock
  <2>4. ~Unknown(Siblings(req.mail, req.as, None)) /\ req.as # None /\ req.as # "allow"
    BY <2>2, NoneApart DEF Siblings, Unknown, Blocks
  <2>5. QED
    BY <2>1, <2>3, <2>4, PolicyChanges
<1>3. CASE Approve(i)
  <2> DEFINE by == [kind |-> "approve", sender |-> req.policy = None]
             run == Run(req.mail, by)
  <2>1. req.job = "respond" /\ Goto(i, run) /\ UNCHANGED <<signals, faults>>
    BY <1>3 DEF Approve
  <2>2. run.pc = "policy" /\ ~Unknown(run)
    BY DEF Run, Unknown
  <2>3. CASE req.policy = None
    <3>1. SavePolicy("allow") /\ "allow" # None
      BY <1>3, <2>3, NoneApart DEF Approve
    <3>2. \A m : Covers(run, m)
      BY <2>3 DEF Run, Covers
    <3> HIDE DEF run
    <3>3. QED
      BY <2>1, <2>2, <3>1, <3>2, PolicyChanges
  <2>4. CASE req.policy # None
    <3>1. UNCHANGED <<policy, late, unlisted>>
      BY <1>3, <2>4 DEF Approve
    <3> HIDE DEF run
    <3>2. QED
      BY <2>1, <2>2, <3>1, SiblingPlain DEF Quarantined
  <2>5. QED
    BY <2>3, <2>4
<1>4. CASE ReportSender(i)
  <2>1. req \in Reports /\ req.job = "report"
    BY <1>4, JobOf, JobKinds DEF ReportSender
  <2> DEFINE next == [req EXCEPT !.pc = "write"]
  <2>2. SavePolicy("report_violation") /\ UNCHANGED <<signals, faults>> /\ Goto(i, next)
    BY <1>4 DEF ReportSender
  <2>3. ~Unknown(next)
    BY <2>1 DEF Reports, Unknown
  <2>4. "report_violation" # None
    BY NoneApart DEF Blocks
  <2> HIDE DEF next
  <2>5. QED
    BY <2>1, <2>2, <2>3, <2>4, PolicyChanges
<1>5. QED
  BY <1>1, <1>2, <1>3, <1>4

LEMMA ListingSiblings ==
  ASSUME TypeInv, SiblingInv, NEW i \in Lambdas, ListSiblings(i) \/ NextSibling(i)
  PROVE  SiblingInv'
<1> DEFINE req == lambda[i]
<1>1. req \in Lists(Arrived) /\ Arrived \subseteq Mails
  BY JobOf, JobKinds DEF ListSiblings, NextSibling
<1>2. /\ req.job = "siblings" /\ req.as \in Answers
      /\ req.todo \in (SUBSET Arrived) \union {None} /\ UNCHANGED <<policy, late, faults>>
      /\ NextSibling(i) => UNCHANGED unlisted
  BY <1>1 DEF Lists, ListSiblings, NextSibling, rows, past
<1>3. CASE ListSiblings(i)
  <2>1. PICK page \in SUBSET Visible(req.of) :
          /\ Goto(i, [req EXCEPT !.todo = page])
          /\ unlisted' = IF req.as = "approve" THEN unlisted \union (Visible(req.of) \ page) ELSE unlisted
    BY <1>3 DEF ListSiblings
  <2> DEFINE next == [req EXCEPT !.todo = page]
  <2>2. /\ Goto(i, next) /\ req.todo = None /\ UNCHANGED signals
        /\ page # None /\ unlisted \subseteq unlisted'
    BY <1>3, <2>1, NoneApart DEF ListSiblings, rows, Visible
  <2>3. ASSUME NEW m \in Mails, Quarantined(m), m # req.of PROVE m \in Visible(req.of)
    BY <2>3 DEF Quarantined, Visible
  <2>4. next.job = "siblings" /\ next.as = req.as /\ next.todo = page
    BY <1>1 DEF Lists
  <2> HIDE DEF next
  <2>5. ASSUME NEW m \in Owed', Quarantined(m), Covers(req, m) PROVE Covers(next, m)
    <3>1. m \in Mails /\ m # req.of /\ req.as = "approve"
      BY <1>2, <2>2, <2>5 DEF Covers, Owed
    <3>2. m \in page
      BY <2>1, <2>3, <2>5, <3>1 DEF Owed
    <3>3. QED
      BY <2>2, <2>4, <3>1, <3>2 DEF Covers
  <2>6. ~Unknown(next) /\ \A m \in Mails : Quarantined(m)' => Quarantined(m)
    BY <2>2, <2>4 DEF Unknown, Quarantined
  <2>7. Owed' \subseteq Mails
    BY DEF Owed
  <2>8. QED
    BY <1>2, <2>2, <2>5, <2>6, <2>7, SiblingKept
<1>4. CASE NextSibling(i)
  <2>1. req.todo # None /\ req.todo \in SUBSET Mails
    BY <1>1, <1>2, <1>4 DEF NextSibling
  <2>2. CASE req.todo = {} /\ Goto(i, Idle) /\ UNCHANGED signals
    <3>1. \A m : ~Covers(req, m)
      BY <1>2, <2>1, <2>2 DEF Covers
    <3>2. ~Unknown(Idle)
      BY DEF Unknown, Idle
    <3>3. QED
      BY <1>2, <1>4, <2>2, <3>1, <3>2, SiblingKept DEF Quarantined, Owed
  <2>3. ASSUME NEW n \in req.todo,
               LET rest == [req EXCEPT !.todo = @ \ {n}] IN
               IF req.as = "approve"
               THEN Goto(i, Run(n, [kind |-> "sibling", rest |-> rest])) /\ UNCHANGED signals
               ELSE /\ signals' = [signals EXCEPT ![n] =
                         [status |-> IF req.as = "dismiss" THEN "block_hidden" ELSE req.as,
                          thread |-> None, why |-> "user"]]
                    /\ Goto(i, rest)
        PROVE  SiblingInv'
    <3> DEFINE rest == [req EXCEPT !.todo = @ \ {n}]
               run == Run(n, [kind |-> "sibling", rest |-> rest])
    <3>1. rest.job = "siblings" /\ rest.todo = req.todo \ {n} /\ n \in Mails
      BY <1>1, <1>2, <2>1 DEF Lists
    <3> HIDE DEF rest
    <3>2. CASE req.as = "approve"
      <4>1. Goto(i, run) /\ UNCHANGED signals
        BY <2>3, <3>2 DEF rest
      <4>2. /\ run.job = "mail" /\ run.pc = "policy" /\ run.mail = n
            /\ run.by.kind = "sibling" /\ run.by.rest = rest
        BY DEF Run
      <4> HIDE DEF run
      <4>3. ASSUME NEW m, Covers(req, m) PROVE Covers(run, m)
        BY <1>2, <2>1, <3>1, <4>2, <4>3 DEF Covers
      <4>4. ~Unknown(run)
        BY <4>2 DEF Unknown
      <4>5. QED
        BY <1>2, <1>4, <4>1, <4>3, <4>4, SiblingKept DEF Quarantined, Owed
    <3>3. CASE req.as # "approve"
      <4>1. PICK status : signals' = [signals EXCEPT ![n] =
                                        [status |-> status, thread |-> None, why |-> "user"]]
        BY <2>3, <3>3
      <4>2. Goto(i, rest) /\ ~Unknown(rest)
        BY <2>3, <3>1, <3>3 DEF Unknown, rest
      <4>3. \A m : ~Covers(req, m)
        BY <1>2, <3>3 DEF Covers
      <4>4. QED
        BY <1>2, <1>4, <3>1, <4>1, <4>2, <4>3, UserDecides, SiblingKept DEF Owed
    <3>4. QED
      BY <3>2, <3>3
  <2>4. QED
    BY <1>4, <2>2, <2>3 DEF NextSibling
<1>5. QED
  BY <1>3, <1>4

LEMMA OthersSiblings ==
  ASSUME TypeInv, SiblingInv, NEW i \in Lambdas,
         \/ \E m \in Mails : (\E as \in Answers : Respond(i, m, as)) \/ Reprocess(i, m)
         \/ \E t \in Ids : \/ Report(i, t)
                           \/ \E s \in Statuses : Patch(i, t, s, 0)
                           \/ \E h \in Hours \ {0} : Patch(i, t, "archived", h)
         \/ Clean(i) \/ RepairRead(i) \/ RepairWrite(i) \/ SetAlarm(i)
         \/ PatchWrite(i) \/ ReportWrite(i) \/ Wake(i) \/ \E a \in alarms : Followup(i, a)
  PROVE  SiblingInv'
<1> DEFINE req == lambda[i]
<1>1. UNCHANGED <<policy, late, unlisted, signals>> /\ (faults' = faults \/ Fault)
  BY DEF Respond, Reprocess, Report, Patch, Clean, RepairRead, RepairWrite, SetAlarm,
         PatchWrite, ReportWrite, Wake, Followup, rows, past
<1>2. faults' = 0 => faults = 0
  BY <1>1 DEF Fault, TypeInv, StateInv, TypeOK
<1>3. req.job \notin {"mail", "siblings"}
  <2>1. CASE Clean(i) \/ RepairRead(i) \/ RepairWrite(i) \/ SetAlarm(i)
               \/ PatchWrite(i) \/ ReportWrite(i) \/ Wake(i)
    BY <2>1 DEF Clean, RepairRead, RepairWrite, SetAlarm, PatchWrite, ReportWrite, Wake
  <2>2. CASE req = Idle
    BY <2>2 DEF Idle
  <2>3. QED
    BY <2>1, <2>2 DEF Respond, Reprocess, Report, Patch, Followup
<1>4. \E job : Goto(i, job) /\ ~Unknown(job)
  <2>1. \A m, by : ~Unknown(Run(m, by))
    BY DEF Unknown, Run
  <2>2. ~Unknown(Idle)
    BY DEF Unknown, Idle
  <2>3. CASE Clean(i) \/ RepairWrite(i) \/ PatchWrite(i) \/ ReportWrite(i) \/ Wake(i)
    BY <2>1, <2>2, <2>3 DEF Clean, RepairWrite, PatchWrite, ReportWrite, Wake
  <2>4. CASE RepairRead(i) \/ SetAlarm(i)
    <3>1. req \in Repairs(Arrived) \union Patches
      BY <2>4, JobOf, JobKinds DEF RepairRead, SetAlarm
    <3>2. /\ \A snap : ~Unknown([req EXCEPT !.pc = "list", !.snap = snap])
          /\ \A mails : ~Unknown([req EXCEPT !.pc = "write", !.mails = mails])
          /\ ~Unknown([req EXCEPT !.pc = "write"])
      BY <3>1 DEF Repairs, Patches, Unknown
    <3>3. QED
      BY <2>2, <2>4, <3>2 DEF RepairRead, SetAlarm
  <2>5. CASE ~(Clean(i) \/ RepairWrite(i) \/ PatchWrite(i) \/ ReportWrite(i) \/ Wake(i)
               \/ RepairRead(i) \/ SetAlarm(i))
    <3>1. PICK job : Goto(i, job) /\ job.job \in {"idle", "respond", "clean", "report", "patch", "wake"}
      <4>1. Idle.job = "idle"
        BY DEF Idle
      <4>2. ASSUME NEW m, NEW as, Respond(i, m, as) \/ Reprocess(i, m)
            PROVE  \E job : Goto(i, job) /\ job.job \in {"respond", "clean"}
        BY <4>2, NewJobs
      <4>3. ASSUME NEW t, NEW s, NEW h, Report(i, t) \/ Patch(i, t, s, h)
            PROVE  \E job : Goto(i, job) /\ job.job \in {"report", "patch"}
        BY <4>3, NewJobs
      <4>4. ASSUME NEW a, Followup(i, a)
            PROVE  \E job : Goto(i, job) /\ job.job \in {"wake", "idle"}
        BY <4>1, <4>4, NewJobs
      <4>5. QED
        BY <2>5, <4>2, <4>3, <4>4
    <3>2. QED
      BY <3>1 DEF Unknown
  <2>6. QED
    BY <2>3, <2>4, <2>5
<1>5. QED
  BY <1>1, <1>2, <1>3, <1>4, SiblingPlain DEF Quarantined

LEMMA NextSiblings == TypeInv /\ SiblingInv /\ [Next]_vars => SiblingInv'
<1> SUFFICES ASSUME TypeInv, SiblingInv, [Next]_vars PROVE SiblingInv'
  OBVIOUS
<1>1. CASE \/ UNCHANGED vars \/ Tick
           \/ \E m \in Mails : Arrive(m)
           \/ \E t \in Ids : Fire(t) \/ Expire(t)
           \/ \E c \in codes : ArchiveCode(c)
  <2>1. UNCHANGED <<policy, late, unlisted, signals, lambda>> /\ (faults' = faults \/ Fault)
    BY <1>1 DEF vars, Tick, Arrive, Fire, Expire, ArchiveCode, mail, rows, past
  <2>2. QED
    BY <2>1, SiblingStays DEF Fault, TypeInv, StateInv, TypeOK
<1>2. QED
  BY <1>1, PipelineSiblings, AnswersSiblings, ListingSiblings, OthersSiblings
     DEF Next, Api, Statuses

LEMMA InitSiblings == Init => SiblingInv
BY NoneApart DEF Init, SiblingInv, UnknownAreLate

\* One approval of a sender reaches all of the sender's mails but those in flight at the time and
\* those that its list, of one page, left out (quarantineResponse, collectSiblings).
THEOREM ApprovalReachesSiblings == MCSpec => []SiblingsAnswered
<1> DEFINE Inv == TypeInv /\ SiblingInv
<1>1. MCInit => Inv
  BY InitType, InitSiblings DEF MCInit
<1>2. Inv /\ [MCNext]_<<part, vars>> => Inv'
  BY ScopedStep, NextType, NextSiblings
<1>3. Inv => SiblingsAnswered
  <2> SUFFICES ASSUME SiblingInv, Rest, policy = "allow", faults = 0,
                      NEW m \in Owed, Quarantined(m)
               PROVE  FALSE
    BY DEF SiblingsAnswered, SiblingsFollow, Quarantined, Owed
  <2>1. PICK i \in Lambdas : Covers(lambda[i], m)
    BY DEF SiblingInv
  <2>2. QED
    BY <2>1 DEF Rest, Idle, Covers
<1>4. QED
  BY <1>1, <1>2, <1>3, PTL DEF MCSpec

-----------------------------------------------------------------------------
(* What the lists show is what is on the threads, or on its way.             *)

\* A run that puts a mail on the thread, or one that looks after the thread it
\* takes a mail from.
Fills(job, t) ==
  \/ job.job = "mail" /\ job.pc = "save" /\ job.match = t
  \/ job.job = "mail" /\ job.by.kind = "reprocess" /\ job.by.source = t
  \/ /\ job.job = "repair" /\ job.thread = t
     /\ job.pc # "thread" => job.snap.at > 0
     /\ job.pc = "write" => job.mails = {}

\* A run that makes the mail findable on the thread, or takes it from there.
Indexes(job, m, t) ==
  /\ job.job = "mail" /\ job.mail = m
  /\ \/ job.pc = "index" /\ job.match = t
     \/ job.pc # "index" /\ job.by.kind = "reprocess" /\ job.by.source = t

WholeRows ==
  \A t \in Ids \ stale :
    /\ threads[t] # None => threads[t].listed
    /\ On(t) # {} => threads[t] # None /\ threads[t].at > 0
Emptied(t) ==
  threads[t] # None /\ threads[t].at > 0 /\ threads[t].followup = 0 /\ On(t) = {}
EmptiedRows ==
  \A t \in Ids \ stale : Emptied(t) => \E i \in Lambdas : Fills(lambda[i], t)
Findable ==
  \A t \in Ids \ stale : \A m \in On(t) :
    <<m, t>> \in vectors \/ \E i \in Lambdas : Indexes(lambda[i], m, t)
JobRow(job) ==
  /\ job.job = "mail" /\ job.pc = "save" => job.snap.at > 0
  /\ job.job = "wake" => job.snap.followup # 0
JobRows == \A i \in Lambdas : JobRow(lambda[i])

ListInv == WholeRows /\ JobRows /\ (faults = 0 => EmptiedRows /\ Findable)

\* What the job an invocation takes up has to be for the invariant to hold on.
LEMMA ListKept ==
  ASSUME TypeInv, ListInv, WholeRows', stale \subseteq stale', faults' = 0 => faults = 0,
         NEW i \in Lambdas, NEW job, Goto(i, job), JobRow(job),
         faults' = 0 => \A t \in Ids \ stale' :
           /\ Emptied(t)' => Fills(job, t) \/ (Emptied(t) /\ ~Fills(lambda[i], t))
           /\ \A m \in On(t)' : \/ <<m, t>> \in vectors' \/ Indexes(job, m, t)
                                \/ /\ m \in On(t) /\ ~Indexes(lambda[i], m, t)
                                   /\ <<m, t>> \in vectors => <<m, t>> \in vectors'
  PROVE  ListInv'
<1>1. lambda'[i] = job /\ \A k \in Lambdas \ {i} : lambda'[k] = lambda[k]
  BY Went
<1>2. JobRows'
  BY <1>1 DEF ListInv, JobRows
<1>3. ASSUME faults' = 0 PROVE EmptiedRows'
  <2> SUFFICES ASSUME NEW t \in Ids \ stale', Emptied(t)'
               PROVE  \E k \in Lambdas : Fills(lambda'[k], t)
    BY DEF EmptiedRows
  <2>1. CASE Fills(job, t)
    BY <1>1, <2>1
  <2>2. CASE Emptied(t) /\ ~Fills(lambda[i], t)
    <3>1. PICK k \in Lambdas : Fills(lambda[k], t)
      BY <1>3, <2>2 DEF ListInv, EmptiedRows
    <3>2. k # i
      BY <2>2, <3>1
    <3>3. QED
      BY <1>1, <3>1, <3>2
  <2>3. QED
    BY <1>3, <2>1, <2>2
<1>4. ASSUME faults' = 0 PROVE Findable'
  <2> SUFFICES ASSUME NEW t \in Ids \ stale', NEW m \in On(t)', <<m, t>> \notin vectors'
               PROVE  \E k \in Lambdas : Indexes(lambda'[k], m, t)
    BY DEF Findable
  <2>1. CASE Indexes(job, m, t)
    BY <1>1, <2>1
  <2>2. CASE m \in On(t) /\ ~Indexes(lambda[i], m, t) /\ <<m, t>> \notin vectors
    <3>1. PICK k \in Lambdas : Indexes(lambda[k], m, t)
      BY <1>4, <2>2 DEF ListInv, Findable
    <3>2. k # i
      BY <2>2, <3>1
    <3>3. QED
      BY <1>1, <3>1, <3>2
  <2>3. QED
    BY <1>4, <2>1, <2>2
<1>5. QED
  BY <1>2, <1>3, <1>4 DEF ListInv

LEMMA OnOf ==
  ASSUME NEW t
  PROVE  UNCHANGED signals => On(t)' = On(t)
BY DEF On

\* A job of no run and no repair fills and indexes nothing.
LEMMA Plain ==
  ASSUME NEW job, job.job \notin {"mail", "repair"}
  PROVE  \A t : ~Fills(job, t) /\ \A m : ~Indexes(job, m, t)
BY DEF Fills, Indexes

\* What a job leaves as it is.
LEMMA ListPlain ==
  ASSUME TypeInv, ListInv, UNCHANGED <<threads, signals>>, stale \subseteq stale',
         vectors \subseteq vectors', faults' = 0 => faults = 0,
         NEW i \in Lambdas, NEW job, Goto(i, job), JobRow(job),
         \A t \in Ids : /\ Fills(lambda[i], t) /\ Emptied(t) => Fills(job, t)
                        /\ \A m \in Mails : Indexes(lambda[i], m, t)
                             => Indexes(job, m, t) \/ <<m, t>> \in vectors'
  PROVE  ListInv'
<1>1. \A t : On(t)' = On(t) /\ Emptied(t)' = Emptied(t)
  BY DEF On, Emptied
<1>2. WholeRows'
  BY <1>1 DEF ListInv, WholeRows
<1>3. \A t : \A m \in On(t) : m \in Mails
  BY DEF On
<1>4. QED
  BY <1>1, <1>2, <1>3, ListKept

LEMMA ListStays ==
  ASSUME TypeInv, ListInv, UNCHANGED <<threads, signals, vectors, lambda>>, stale \subseteq stale',
         faults' = 0 => faults = 0
  PROVE  ListInv'
<1>1. \A t : On(t)' = On(t) /\ Emptied(t)' = Emptied(t)
  BY DEF On, Emptied
<1>2. QED
  BY <1>1 DEF ListInv, WholeRows, JobRows, EmptiedRows, Findable

\* A row written over by someone who has read it.
LEMMA Overwritten ==
  ASSUME TypeInv, ListInv, NEW t \in Ids, NEW snap \in Row, NEW at \in Times,
         Rewrites(t, snap, at), UNCHANGED signals,
         t \in stale' \/ On(t) = {} \/ at > 0
  PROVE  /\ WholeRows' /\ stale \subseteq stale'
         /\ \A u \in Ids \ {t} : threads'[u] = threads[u]
         /\ t \notin stale' => /\ threads[t] = snap /\ threads'[t].at = at
                               /\ threads'[t].followup = 0 => snap.followup = 0
<1>1. PICK row \in Row :
        /\ threads' = [threads EXCEPT ![t] = row] /\ row.at = at
        /\ threads[t] = None => ~row.key /\ ~row.listed
        /\ threads[t] # None =>
             /\ row.key = threads[t].key /\ row.listed = threads[t].listed
             /\ row.followup = 0 => threads[t].followup = 0
  BY DEF Rewrites
<1>2. stale \subseteq stale' /\ (t \in stale' \/ threads[t] = snap)
  BY DEF Rewrites
<1>3. threads'[t] = row /\ \A u \in Ids \ {t} : threads'[u] = threads[u]
  BY <1>1 DEF TypeInv, StateInv, TypeOK
<1>4. snap # None /\ row # None
  BY NoneApart
<1>5. WholeRows'
  <2> SUFFICES ASSUME NEW u \in Ids \ stale'
               PROVE  /\ threads'[u] # None => threads'[u].listed
                      /\ On(u)' # {} => threads'[u] # None /\ threads'[u].at > 0
    BY DEF WholeRows
  <2>1. /\ threads[u] # None => threads[u].listed
        /\ On(u) # {} => threads[u] # None /\ threads[u].at > 0
    BY <1>2 DEF ListInv, WholeRows
  <2>2. QED
    BY <1>1, <1>2, <1>3, <1>4, <2>1, OnOf
<1>6. QED
  BY <1>1, <1>2, <1>3, <1>4, <1>5

\* A request, an alarm or an auth mail's handler writes over a row.
LEMMA ListRewritten ==
  ASSUME TypeInv, ListInv, NEW t \in Ids, NEW snap \in Row, NEW at \in Times,
         Rewrites(t, snap, at), UNCHANGED <<signals, vectors>>, faults' = 0 => faults = 0,
         t \in stale' \/ On(t) = {} \/ at > 0,
         t \in stale' \/ at = 0 \/ at = snap.at \/ On(t) # {} \/ snap.followup # 0,
         NEW i \in Lambdas, NEW job, Goto(i, job), JobRow(job),
         \A u \in Ids \ {t} : ~Fills(lambda[i], u),
         t \in stale' \/ at = 0 \/ ~Fills(lambda[i], t),
         \A u, m : ~Indexes(lambda[i], m, u)
  PROVE  ListInv'
<1>1. /\ WholeRows' /\ stale \subseteq stale'
      /\ \A u \in Ids \ {t} : threads'[u] = threads[u]
      /\ t \notin stale' => /\ threads[t] = snap /\ threads'[t].at = at
                            /\ threads'[t].followup = 0 => snap.followup = 0
  BY Overwritten
<1>2. \A u : On(u)' = On(u)
  BY OnOf
<1>3. ASSUME NEW u \in Ids \ stale', Emptied(u)' PROVE Emptied(u) /\ ~Fills(lambda[i], u)
  <2>1. CASE u # t
    BY <1>1, <1>2, <1>3, <2>1 DEF Emptied
  <2>2. CASE u = t
    <3>1. threads'[t].at > 0 /\ threads'[t].followup = 0 /\ On(t) = {}
      BY <1>2, <1>3, <2>2 DEF Emptied
    <3>2. t \notin stale' /\ snap # None
      BY <1>3, <2>2, NoneApart
    <3>3. threads[t] = snap /\ threads'[t].at = at /\ snap.followup = 0
      BY <1>1, <3>1, <3>2
    <3>4. at # 0
      BY <3>1, <3>3
    <3>5. at > 0 /\ snap.followup = 0 /\ at = snap.at /\ threads[t] = snap /\ snap # None
      BY <1>3, <2>2, <3>1, <3>3, <3>4, <3>2
    <3>6. QED
      BY <1>3, <2>2, <3>1, <3>5 DEF Emptied
  <2>3. QED
    BY <2>1, <2>2
<1>4. QED
  BY <1>1, <1>2, <1>3, ListKept

LEMMA ListStaysRewritten ==
  ASSUME TypeInv, ListInv, NEW t \in Ids, NEW snap \in Row,
         Rewrites(t, snap, snap.at), UNCHANGED <<signals, vectors, lambda, faults>>
  PROVE  ListInv'
<1>1. t \in stale' \/ On(t) = {} \/ snap.at > 0
  BY DEF Rewrites, ListInv, WholeRows
<1>2. snap.at \in Times
  BY DEF Row
<1>3. /\ WholeRows' /\ stale \subseteq stale'
      /\ \A u \in Ids \ {t} : threads'[u] = threads[u]
      /\ t \notin stale' => /\ threads[t] = snap /\ threads'[t].at = snap.at
                            /\ threads'[t].followup = 0 => snap.followup = 0
  BY <1>1, <1>2, Overwritten
<1>4. \A u : On(u)' = On(u)
  BY OnOf
<1>5. ASSUME NEW u \in Ids \ stale', Emptied(u)' PROVE Emptied(u)
  <2>1. CASE u # t
    BY <1>3, <1>4, <1>5, <2>1 DEF Emptied
  <2>2. CASE u = t
    <3>1. threads'[t].at > 0 /\ threads'[t].followup = 0 /\ On(t) = {}
      BY <1>4, <1>5, <2>2 DEF Emptied
    <3>2. t \notin stale' /\ snap # None
      BY <1>5, <2>2, NoneApart
    <3>3. threads[t] = snap /\ threads'[t].at = snap.at /\ snap.followup = 0
      BY <1>3, <3>1, <3>2
    <3>4. QED
      BY <2>2, <3>1, <3>3, <3>2 DEF Emptied
  <2>3. QED
    BY <2>1, <2>2
<1>6. JobRows' /\ (faults' = 0 => EmptiedRows' /\ Findable')
  BY <1>3, <1>4, <1>5 DEF ListInv, JobRows, EmptiedRows, Findable
<1>7. QED
  BY <1>3, <1>6 DEF ListInv

\* A mail leaves its thread for none, by someone who knew of it or looks after
\* the thread from now on.
LEMMA ListWithheld ==
  ASSUME TypeInv, ListInv, NEW n \in Mails, NEW row, row.thread = None, row # None,
         signals' = [signals EXCEPT ![n] = row], NEW kept, stale' = stale \union Moved(n, kept),
         UNCHANGED <<threads, vectors, faults>>,
         NEW i \in Lambdas, NEW job, Goto(i, job), JobRow(job),
         kept = None \/ Fills(job, kept),
         \A t \in Ids : Fills(lambda[i], t) => Fills(job, t),
         \A t, m : Indexes(lambda[i], m, t) => m = n
  PROVE  ListInv'
<1>1. signals'[n] = row /\ \A m \in Mails \ {n} : signals'[m] = signals[m]
  BY DEF TypeInv, StateInv, TypeOK
<1>2. \A t \in Ids : On(t)' = On(t) \ {n}
  BY <1>1, NoneApart DEF On
<1>3. ASSUME NEW t \in Ids \ stale', n \in On(t) PROVE Fills(job, t)
  BY <1>3, NoneApart DEF On, Moved
<1>4. WholeRows'
  BY <1>2 DEF ListInv, WholeRows
<1>5. ASSUME NEW t \in Ids \ stale', Emptied(t)'
      PROVE  Fills(job, t) \/ (Emptied(t) /\ ~Fills(lambda[i], t))
  BY <1>2, <1>3, <1>5 DEF Emptied
<1>6. ASSUME NEW t \in Ids \ stale', NEW m \in On(t)'
      PROVE  m \in On(t) /\ ~Indexes(lambda[i], m, t)
  BY <1>2, <1>6
<1>7. stale \subseteq stale' /\ (faults' = 0 => faults = 0)
  OBVIOUS
<1>8. QED
  BY <1>4, <1>5, <1>6, <1>7, ListKept

LEMMA AnswersList ==
  ASSUME TypeInv, ListInv, NEW i \in Lambdas,
         Dismiss(i) \/ Block(i) \/ NextSibling(i)
  PROVE  ListInv'
<1> DEFINE req == lambda[i]
<1>1. ASSUME NEW n \in Mails, NEW status \in Blocks,
             signals' = [signals EXCEPT ![n] = [status |-> status, thread |-> None, why |-> "user"]],
             stale' = stale \union Moved(n, None), UNCHANGED <<threads, vectors, faults>>,
             NEW job, Goto(i, job), job.job \notin {"mail", "wake"},
             req.job \notin {"mail", "repair"}
      PROVE  ListInv'
  <2> DEFINE row == [status |-> status, thread |-> None, why |-> "user"]
  <2>1. row.thread = None /\ row # None
    <3>1. row \in Signal
      BY <1>1 DEF Signal
    <3>2. QED
      BY <3>1, NoneApart
  <2>2. JobRow(job)
    BY <1>1 DEF JobRow
  <2> HIDE DEF row
  <2>3. signals' = [signals EXCEPT ![n] = row]
    BY <1>1 DEF row
  <2>4. QED
    BY <1>1, <2>1, <2>2, <2>3, Plain, ListWithheld
<1>2. CASE Dismiss(i) \/ Block(i)
  <2>1. req \in Responses(Arrived) /\ UNCHANGED <<threads, vectors, faults>>
    BY <1>2, JobOf, JobKinds DEF Dismiss, Block
  <2>2. req.mail \in Mails /\ req.job \in {"respond", "blocked"}
    BY <2>1 DEF Responses, Arrived
  <2>3. PICK status \in Blocks :
          /\ signals' = [signals EXCEPT ![req.mail] =
                           [status |-> status, thread |-> None, why |-> "user"]]
          /\ stale' = stale \union Moved(req.mail, None)
    BY <1>2 DEF Dismiss, Block, Blocks
  <2>4. PICK job : Goto(i, job) /\ job.job \notin {"mail", "wake"}
    <3>1. [req EXCEPT !.job = "blocked"].job = "blocked"
      BY <2>1 DEF Responses
    <3>2. Siblings(req.mail, req.as, None).job = "siblings"
      BY DEF Siblings
    <3>3. QED
      BY <1>2, <3>1, <3>2 DEF Dismiss, Block
  <2>5. QED
    BY <1>1, <2>1, <2>2, <2>3, <2>4
<1>3. CASE NextSibling(i)
  <2>1. req \in Lists(Arrived) /\ UNCHANGED <<threads, vectors, faults>> /\ Arrived \subseteq Mails
    BY <1>3, JobOf, JobKinds DEF NextSibling
  <2>2. req.job = "siblings" /\ req.todo \in SUBSET Mails
    BY <1>3, <2>1 DEF Lists, NextSibling
  <2>3. ASSUME NEW job, Goto(i, job), UNCHANGED <<signals, stale>>, JobRow(job) PROVE ListInv'
    BY <2>1, <2>2, <2>3, Plain, ListPlain
  <2>4. CASE req.todo = {} /\ Goto(i, Idle) /\ UNCHANGED <<signals, stale>>
    BY <2>3, <2>4 DEF JobRow, Idle
  <2>5. ASSUME NEW n \in req.todo,
               LET rest == [req EXCEPT !.todo = @ \ {n}] IN
               IF req.as = "approve"
               THEN Goto(i, Run(n, [kind |-> "sibling", rest |-> rest])) /\ UNCHANGED <<signals, stale>>
               ELSE /\ signals' = [signals EXCEPT ![n] =
                         [status |-> IF req.as = "dismiss" THEN "block_hidden" ELSE req.as,
                          thread |-> None, why |-> "user"]]
                    /\ stale' = stale \union Moved(n, None)
                    /\ Goto(i, rest)
        PROVE  ListInv'
    <3> DEFINE rest == [req EXCEPT !.todo = @ \ {n}]
    <3>1. rest.job = "siblings"
      BY <2>1 DEF Lists
    <3> HIDE DEF rest
    <3>2. CASE req.as = "approve"
      <4>1. /\ Goto(i, Run(n, [kind |-> "sibling", rest |-> rest]))
            /\ UNCHANGED <<signals, stale>>
        BY <2>5, <3>2 DEF rest
      <4>2. \A by : JobRow(Run(n, by))
        BY DEF JobRow, Run
      <4>3. QED
        BY <2>3, <4>1, <4>2
    <3>3. CASE req.as # "approve"
      <4>1. PICK status \in Blocks :
              signals' = [signals EXCEPT ![n] =
                            [status |-> status, thread |-> None, why |-> "user"]]
        <5>1. (IF req.as = "dismiss" THEN "block_hidden" ELSE req.as) \in Blocks
          BY <2>1, <3>3 DEF Lists, Answers, Blocks
        <5>2. QED
          BY <2>5, <3>3, <5>1
      <4>2. Goto(i, rest) /\ stale' = stale \union Moved(n, None)
        BY <2>5, <3>3 DEF rest
      <4>3. QED
        BY <1>1, <2>1, <2>2, <3>1, <4>1, <4>2
    <3>4. QED
      BY <3>2, <3>3
  <2>6. QED
    BY <1>3, <2>4, <2>5 DEF NextSibling
<1>4. QED
  BY <1>2, <1>3

\* The writer knew the row as it was, so the thread showed mail if it has any.
LEMMA WritersList ==
  ASSUME TypeInv, ListInv, NEW i \in Lambdas, PatchWrite(i) \/ ReportWrite(i) \/ Wake(i)
  PROVE  ListInv'
<1> DEFINE req == lambda[i]
<1>1. Goto(i, Idle) /\ UNCHANGED <<signals, vectors>> /\ (faults' = faults \/ Fault)
  BY DEF PatchWrite, ReportWrite, Wake
<1>2. JobRow(Idle) /\ (faults' = 0 => faults = 0)
  BY <1>1 DEF JobRow, Idle, Fault, TypeInv, StateInv, TypeOK
<1>3. req \in Patches \union Reports \union Wakes /\ req.job \in {"patch", "report", "wake"}
  BY JobOf, JobKinds DEF PatchWrite, ReportWrite, Wake
<1>4. /\ \A u : ~Fills(req, u) /\ \A m : ~Indexes(req, m, u)
      /\ req.snap \in Row
  <2>1. req.snap \in Row
    BY <1>3 DEF Patches, Reports, Wakes
  <2>2. QED
    BY <1>3, <2>1, Plain
<1>5. CASE PatchWrite(i) \/ ReportWrite(i)
  <2>1. req.thread \in Ids /\ Rewrites(req.thread, req.snap, req.snap.at)
    BY <1>5, PatchRewrites, ReportRewrites
  <2>2. req.snap.at \in Times
    BY <1>4 DEF Row
  <2>3. req.thread \in stale' \/ On(req.thread) = {} \/ req.snap.at > 0
    BY <2>1 DEF Rewrites, ListInv, WholeRows
  <2>4. QED
    BY <1>1, <1>2, <1>4, <2>1, <2>2, <2>3, ListRewritten
<1>6. CASE Wake(i)
  <2>1. /\ req.thread \in Ids
        /\ Rewrites(req.thread, req.snap, Now) \/ UNCHANGED <<threads, stale>>
    BY <1>6, WakeRewrites
  <2>2. CASE UNCHANGED <<threads, stale>>
    BY <1>1, <1>2, <1>4, <2>2, ListPlain
  <2>3. CASE Rewrites(req.thread, req.snap, Now)
    <3>1. req.snap.followup # 0
      BY <1>6 DEF Wake, ListInv, JobRows, JobRow
    <3>2. Now \in Times
      BY <2>1, NowIsATime DEF Ids, TypeInv
    <3>3. ASSUME NEW m \in On(req.thread) PROVE Now > 0
      <4>1. m \in Mails /\ received[m] # 0 /\ received[m] <= Now
        BY NowIsATime DEF On, Arrived, TypeInv, StateInv
      <4>2. received[m] \in 0 .. Cardinality(Mails) /\ Now \in 0 .. Cardinality(Mails)
            /\ Cardinality(Mails) \in Nat
        BY <3>2, <4>1, ThreadsAssumption, FS_CardinalityType DEF Times, TypeInv, StateInv, TypeOK
      <4>3. QED
        BY <4>1, <4>2
    <3>4. On(req.thread) = {} \/ Now > 0
      BY <3>3
    <3>5. QED
      BY <1>1, <1>2, <1>4, <2>1, <2>3, <3>1, <3>2, <3>4, ListRewritten
  <2>4. QED
    BY <2>1, <2>2, <2>3
<1>7. QED
  BY <1>5, <1>6

LEMMA RepairList ==
  ASSUME TypeInv, ListInv, NEW i \in Lambdas, RepairRead(i) \/ RepairWrite(i)
  PROVE  ListInv'
<1> DEFINE req == lambda[i]
           t == req.thread
<1>1. req \in Repairs(Arrived) /\ req.job = "repair"
  BY JobOf, JobKinds DEF RepairRead, RepairWrite
<1>2. /\ UNCHANGED <<signals, vectors, faults>>
      /\ \A m, u : ~Indexes(req, m, u)
      /\ \A u : Fills(req, u) => u = t
  BY <1>1 DEF RepairRead, RepairWrite, rows, Indexes, Fills
<1>3. JobRow(Idle)
  BY DEF JobRow, Idle
<1>4. CASE RepairRead(i)
  <2>1. UNCHANGED <<threads, stale>>
    BY <1>4 DEF RepairRead, rows, past
  <2>2. ASSUME NEW job, Goto(i, job), JobRow(job), Fills(req, t) /\ Emptied(t) => Fills(job, t)
        PROVE  ListInv'
    BY <1>2, <2>1, <2>2, ListPlain
  <2>3. CASE req.pc = "thread" /\ threads[t] = None /\ Goto(i, Idle)
    BY <1>3, <2>2, <2>3 DEF Emptied
  <2>4. CASE /\ req.pc = "thread" /\ threads[t] # None
             /\ Goto(i, [req EXCEPT !.pc = "list", !.snap = threads[t]])
    <3> DEFINE next == [req EXCEPT !.pc = "list", !.snap = threads[t]]
    <3>1. /\ next.job = "repair" /\ next.thread = t /\ next.pc = "list"
          /\ next.snap = threads[t]
      BY <1>1 DEF Repairs
    <3> HIDE DEF next
    <3>2. JobRow(next) /\ (Emptied(t) => Fills(next, t))
      BY <3>1 DEF JobRow, Emptied, Fills
    <3>3. QED
      BY <2>2, <2>4, <3>2 DEF next
  <2>5. CASE /\ req.pc = "list" /\ Goto(i, [req EXCEPT !.pc = "write", !.mails = On(t)])
    <3> DEFINE next == [req EXCEPT !.pc = "write", !.mails = On(t)]
    <3>1. /\ next.job = "repair" /\ next.thread = t /\ next.pc = "write"
          /\ next.snap = req.snap /\ next.mails = On(t)
      BY <1>1 DEF Repairs
    <3> HIDE DEF next
    <3>2. JobRow(next) /\ (Fills(req, t) /\ Emptied(t) => Fills(next, t))
      BY <1>1, <2>5, <3>1 DEF JobRow, Emptied, Fills
    <3>3. QED
      BY <2>2, <2>5, <3>2 DEF next
  <2>6. QED
    BY <1>4, <2>3, <2>4, <2>5 DEF RepairRead
<1>5. CASE RepairWrite(i)
  <2>1. Goto(i, Idle) /\ req.pc = "write"
    BY <1>5 DEF RepairWrite
  <2>2. t \in Ids /\ req.snap \in Row
    BY <1>5, RepairRewrites
  <2>3. PICK at \in Times :
          /\ at = 0 <=> req.mails = {}
          /\ \/ at = req.snap.at /\ UNCHANGED <<threads, stale>>
             \/ Rewrites(t, req.snap, at) /\ (t \in stale' \/ On(t) = req.mails)
    BY <1>5, RepairRewrites
  <2>4. Fills(req, t) => at = 0 /\ req.snap.at > 0
    BY <1>1, <2>1, <2>3 DEF Fills
  <2>5. CASE at = req.snap.at /\ UNCHANGED <<threads, stale>>
    <3>1. ~Fills(req, t)
      BY <2>4, <2>5
    <3>2. QED
      BY <1>2, <1>3, <2>1, <2>5, <3>1, ListPlain
  <2>6. CASE Rewrites(t, req.snap, at) /\ (t \in stale' \/ On(t) = req.mails)
    <3>1. at = 0 \/ at > 0
      BY ThreadsAssumption, FS_CardinalityType DEF Times
    <3>2. /\ t \in stale' \/ On(t) = {} \/ at > 0
          /\ t \in stale' \/ at = 0 \/ On(t) # {}
          /\ at = 0 \/ ~Fills(req, t)
          /\ \A u \in Ids \ {t} : ~Fills(req, u)
      BY <1>2, <2>3, <2>4, <2>6, <3>1
    <3> HIDE DEF t
    <3>3. QED
      BY <1>2, <1>3, <2>1, <2>2, <2>6, <3>2, ListRewritten DEF t
  <2>7. QED
    BY <2>3, <2>5, <2>6
<1>6. QED
  BY <1>4, <1>5

\* Reprocessing takes the vectors of a thread only if the mail is alone there.
LEMMA CleanList ==
  ASSUME TypeInv, ListInv, NEW i \in Lambdas, Clean(i)
  PROVE  ListInv'
<1> DEFINE req == lambda[i]
           by == [kind |-> "reprocess", source |-> req.source]
           run == Run(req.mail, by)
<1>1. /\ vectors' = {v \in vectors : ~req.alone \/ v[2] # req.source}
      /\ stale' = IF req.alone /\ On(req.source) # {req.mail} THEN stale \union {req.source} ELSE stale
      /\ Goto(i, run) /\ UNCHANGED <<threads, signals, faults>> /\ req.job = "clean"
  BY DEF Clean
<1>2. /\ run.job = "mail" /\ run.pc = "policy" /\ run.mail = req.mail
      /\ run.by.kind = "reprocess" /\ run.by.source = req.source
  BY DEF Run
<1> HIDE DEF run
<1>3. JobRow(run)
  BY <1>2 DEF JobRow
<1>4. \A u : On(u)' = On(u) /\ Emptied(u)' = Emptied(u)
  BY <1>1 DEF On, Emptied
<1>5. WholeRows' /\ stale \subseteq stale'
  BY <1>1, <1>4 DEF ListInv, WholeRows
<1>6. \A u, m : ~Fills(req, u) /\ ~Indexes(req, m, u)
  BY <1>1, Plain
<1>7. ASSUME NEW u \in Ids \ stale', NEW m \in On(u), <<m, u>> \in vectors, <<m, u>> \notin vectors'
      PROVE  Indexes(run, m, u)
  <2>1. u = req.source /\ req.alone
    BY <1>1, <1>7
  <2>2. m = req.mail
    BY <1>1, <1>7, <2>1
  <2>3. QED
    BY <1>2, <2>1, <2>2 DEF Indexes
<1>8. QED
  BY <1>1, <1>3, <1>4, <1>5, <1>6, <1>7, ListKept

LEMMA OthersList ==
  ASSUME TypeInv, ListInv, NEW i \in Lambdas,
         \/ \E m \in Mails : (\E as \in Answers : Respond(i, m, as)) \/ Reprocess(i, m)
         \/ \E t \in Ids : \/ Report(i, t)
                           \/ \E s \in Statuses : Patch(i, t, s, 0)
                           \/ \E h \in Hours \ {0} : Patch(i, t, "archived", h)
         \/ RecordBlock(i) \/ Approve(i) \/ ListSiblings(i) \/ SetAlarm(i) \/ ReportSender(i)
         \/ \E a \in alarms : Followup(i, a)
  PROVE  ListInv'
<1> DEFINE req == lambda[i]
<1>1. UNCHANGED <<threads, signals, vectors, stale, faults>>
  BY DEF Respond, Reprocess, Report, Patch, RecordBlock, Approve, ListSiblings, SetAlarm,
         ReportSender, Followup, rows, past
<1>2. req.job \notin {"mail", "repair"}
  <2>1. CASE RecordBlock(i) \/ Approve(i) \/ ListSiblings(i) \/ SetAlarm(i) \/ ReportSender(i)
    BY <2>1 DEF RecordBlock, Approve, ListSiblings, SetAlarm, ReportSender
  <2>2. CASE req = Idle
    BY <2>2 DEF Idle
  <2>3. QED
    BY <2>1, <2>2 DEF Respond, Reprocess, Report, Patch, Followup
<1>3. \E job : Goto(i, job) /\ JobRow(job)
  <2>1. ASSUME NEW job, job.job \notin {"mail", "wake"} PROVE JobRow(job)
    BY <2>1 DEF JobRow
  <2>2. CASE Approve(i) \/ RecordBlock(i)
    <3>1. \A m, by : JobRow(Run(m, by))
      BY DEF JobRow, Run
    <3>2. \A m, as, todo : JobRow(Siblings(m, as, todo))
      BY DEF JobRow, Siblings
    <3>3. QED
      BY <2>2, <3>1, <3>2 DEF Approve, RecordBlock
  <2>3. CASE ListSiblings(i) \/ SetAlarm(i) \/ ReportSender(i)
    <3>1. req \in Lists(Arrived) \union Patches \union Reports
      BY <2>3, JobOf, JobKinds DEF ListSiblings, SetAlarm, ReportSender
    <3>2. /\ \A todo : JobRow([req EXCEPT !.todo = todo])
          /\ JobRow([req EXCEPT !.pc = "write"])
      BY <3>1 DEF Lists, Patches, Reports, JobRow
    <3>3. QED
      BY <2>3, <3>2 DEF ListSiblings, SetAlarm, ReportSender
  <2>4. ASSUME NEW a, Followup(i, a) PROVE \E job : Goto(i, job) /\ JobRow(job)
    <3> DEFINE row == threads[a.thread]
               job == [job |-> "wake", thread |-> a.thread, snap |-> row, due |-> a.due]
    <3>1. (Goto(i, job) /\ row.followup # 0) \/ Goto(i, Idle)
      BY <2>4 DEF Followup
    <3>2. row.followup # 0 => JobRow(job)
      BY DEF JobRow
    <3> HIDE DEF job
    <3>3. JobRow(Idle)
      BY DEF JobRow, Idle
    <3>4. QED
      BY <3>1, <3>2, <3>3
  <2>5. QED
    BY <2>1, <2>2, <2>3, <2>4, NewJobs
<1>4. QED
  BY <1>1, <1>2, <1>3, Plain, ListPlain

\* A run that goes on, its cause and its mail the same, fills and indexes as before.
LEMMA RunKeeps ==
  ASSUME NEW run, NEW next, run.job = "mail", next.job = "mail", next.by = run.by,
         next.mail = run.mail, run.pc \notin {"save", "index"}, next.pc # "index"
  PROVE  \A t : /\ Fills(run, t) => Fills(next, t)
                /\ \A m : Indexes(run, m, t) => Indexes(next, m, t)
BY DEF Fills, Indexes

LEMMA AfterFills ==
  ASSUME NEW run, run.by.kind = "reprocess", run.by.source # None
  PROVE  Fills(After(run), run.by.source)
BY DEF After, Repair, Fills

LEMMA AfterRow ==
  ASSUME NEW arrived \in SUBSET Mails, NEW run \in Runs(arrived)
  PROVE  JobRow(After(run)) /\ JobRow(Idle)
<1>1. run.by \in Causes(arrived)
  BY DEF Runs
<1>2. After(run).job \in {"idle", "siblings", "repair"}
  BY <1>1, CauseKinds DEF After, Siblings, Repair, Idle, Lists
<1>3. QED
  BY <1>2 DEF JobRow, Idle

LEMMA WithholdList ==
  ASSUME TypeInv, ListInv, NEW i \in Lambdas, lambda[i].job = "mail", lambda[i].pc # "save",
         NEW status \in Held \union Blocks, NEW why \in {"rule", "sender"},
         Withhold(i, lambda[i].mail, status, why)
  PROVE  ListInv'
<1> DEFINE run == lambda[i]
           next == IF run.by.kind = "approve" THEN Idle ELSE After(run)
           row == [status |-> status, thread |-> None, why |-> why]
<1>1. run \in Runs(Arrived) /\ run.mail \in Mails /\ Arrived \in SUBSET Mails
  BY RunOf DEF Arrived
<1>2. /\ Goto(i, next) /\ UNCHANGED <<threads, vectors, faults>>
      /\ signals' = [signals EXCEPT ![run.mail] = row]
      /\ stale' = stale \union Moved(run.mail, Source(run))
  BY DEF Withhold
<1>3. row.thread = None /\ row # None
  <2>1. row \in Signal
    BY DEF Signal
  <2>2. QED
    BY <2>1, NoneApart
<1>4. JobRow(next)
  BY <1>1, AfterRow
<1>5. Source(run) = None \/ Fills(next, Source(run))
  BY <1>1, AfterFills DEF Source
<1>6. ASSUME NEW t \in Ids, Fills(run, t) PROVE Fills(next, t)
  <2>1. run.by.kind = "reprocess" /\ run.by.source = t /\ t # None
    BY <1>6, NoneApart DEF Fills
  <2>2. QED
    BY <2>1, AfterFills
<1>7. \A t, m : Indexes(run, m, t) => m = run.mail
  BY DEF Indexes
<1> HIDE DEF row, next
<1>8. QED
  BY <1>1, <1>2, <1>3, <1>4, <1>5, <1>6, <1>7, ListWithheld

LEMMA WriteThreadList ==
  ASSUME TypeInv, ListInv, NEW i \in Lambdas, WriteThread(i)
  PROVE  ListInv'
<1> DEFINE run == lambda[i]
           t == Target(run)
<1>1. /\ run \in Runs(Arrived) /\ run.mail \in Arrived /\ run.mail \in Mails
      /\ run.job = "mail" /\ run.pc = "decide" /\ UNCHANGED <<signals, vectors, faults>>
  BY RunOf DEF WriteThread
<1>2. PICK row \in Row, snap \in Row : WroteThread(i, t, row, snap)
  BY Written
<1>3. t \in Ids /\ received[run.mail] > 0
  <2>1. t \in Ids /\ received[run.mail] \in Times /\ received[run.mail] # 0
    BY <1>1, Written DEF Arrived, TypeInv, StateInv, TypeOK
  <2>2. Cardinality(Mails) \in Nat
    BY ThreadsAssumption, FS_CardinalityType
  <2>3. QED
    BY <2>1, <2>2 DEF Times
<1> DEFINE next == [run EXCEPT !.pc = "save", !.match = t, !.snap = snap]
<1>4. Goto(i, next) /\ threads' = [threads EXCEPT ![t] = row]
  BY <1>2 DEF WroteThread
<1>5. snap.at > 0 /\ snap # None /\ row # None
  <2>1. snap.at = received[run.mail]
    BY <1>2 DEF WroteThread
  <2>2. QED
    BY <1>3, <2>1, NoneApart
<1>6. stale \subseteq stale' /\ stale' \in {stale, stale \union {t}}
  BY <1>2 DEF WroteThread
<1>7. t \notin stale' => row.listed /\ (On(t) # {} => row.at > 0)
  <2> SUFFICES ASSUME t \notin stale' PROVE row.listed /\ (On(t) # {} => row.at > 0)
    OBVIOUS
  <2>1. /\ threads[t] # None => threads[t].listed
        /\ On(t) # {} => threads[t] # None /\ threads[t].at > 0
    BY <1>3, <1>6 DEF ListInv, WholeRows
  <2>2. CASE run.match # None
    <3>1. threads[t] = run.snap /\ run.snap # None
      BY <1>1, <1>2, <2>2 DEF WroteThread, Runs
    <3>2. row.at = received[run.mail] /\ row.listed = threads[t].listed
      BY <1>2, <2>2, <3>1 DEF WroteThread
    <3>3. QED
      BY <1>3, <2>1, <3>1, <3>2
  <2>3. CASE run.match = None /\ threads[t] = None
    <3>1. row = snap /\ snap.listed
      BY <1>2, <2>3 DEF WroteThread
    <3>2. QED
      BY <1>5, <3>1
  <2>4. CASE run.match = None /\ threads[t] # None
    <3>1. row = threads[t]
      BY <1>2, <2>4 DEF WroteThread
    <3>2. QED
      BY <2>1, <2>4, <3>1
  <2>5. QED
    BY <2>2, <2>3, <2>4
<1> HIDE DEF t
<1>8. /\ next.job = "mail" /\ next.pc = "save" /\ next.match = t /\ next.snap = snap
      /\ next.by = run.by /\ next.mail = run.mail
  BY <1>1 DEF Runs
<1> HIDE DEF next
<1>9. /\ JobRow(next) /\ Fills(next, t)
      /\ \A u : /\ Fills(run, u) => Fills(next, u)
                /\ \A m : Indexes(run, m, u) => Indexes(next, m, u)
  <2>1. JobRow(next) /\ Fills(next, t)
    BY <1>5, <1>8 DEF JobRow, Fills
  <2>2. QED
    BY <1>1, <1>8, <2>1, RunKeeps
<1>10. threads'[t] = row /\ \A u \in Ids \ {t} : threads'[u] = threads[u]
  BY <1>3, <1>4 DEF TypeInv, StateInv, TypeOK
<1>11. \A u : On(u)' = On(u)
  BY <1>1, OnOf
<1>12. WholeRows'
  <2> SUFFICES ASSUME NEW u \in Ids \ stale'
               PROVE  /\ threads'[u] # None => threads'[u].listed
                      /\ On(u)' # {} => threads'[u] # None /\ threads'[u].at > 0
    BY DEF WholeRows
  <2>1. /\ threads[u] # None => threads[u].listed
        /\ On(u) # {} => threads[u] # None /\ threads[u].at > 0
    BY <1>6 DEF ListInv, WholeRows
  <2>2. QED
    BY <1>5, <1>7, <1>10, <1>11, <2>1
<1>13. ASSUME NEW u \in Ids \ {t}, Emptied(u)' PROVE Emptied(u)
  BY <1>10, <1>11, <1>13 DEF Emptied
<1>14. QED
  BY <1>1, <1>4, <1>6, <1>9, <1>11, <1>12, <1>13, ListKept

\* A saved mail leaves another thread only if it is looked after, or is in `stale`.
LEMMA SaveSignalList ==
  ASSUME TypeInv, ListInv, NEW i \in Lambdas, SaveSignal(i)
  PROVE  ListInv'
<1>0. PICK t, n : t = lambda[i].match /\ n = lambda[i].mail
  OBVIOUS
<1> DEFINE run == lambda[i]
           next == [run EXCEPT !.pc = "index"]
           row == [status |-> "active", thread |-> t, why |-> "none"]
<1>1. run \in Runs(Arrived) /\ n \in Mails /\ run.job = "mail" /\ run.pc = "save"
  BY <1>0, RunOf DEF SaveSignal
<1>2. t \in Ids /\ t # None /\ run.snap # None
  BY <1>0, <1>1 DEF Runs
<1>3. /\ Goto(i, next) /\ UNCHANGED <<threads, vectors, faults>>
      /\ signals' = [signals EXCEPT ![n] = row]
      /\ stale' = stale \union (Moved(n, Source(run)) \ {t})
                   \union {u \in {t} : threads[u] # run.snap}
  BY <1>0 DEF SaveSignal
<1>4. run.snap.at > 0
  BY <1>1 DEF ListInv, JobRows, JobRow
<1>5. /\ next.job = "mail" /\ next.pc = "index" /\ next.by = run.by
      /\ next.mail = n /\ next.match = t
  BY <1>0, <1>1 DEF Runs
<1> HIDE DEF next
<1>6. row \in Signal /\ row.thread = t /\ row # None
  <2>1. row \in Signal /\ row.thread = t
    BY <1>2 DEF Signal
  <2>2. QED
    BY <2>1, NoneApart
<1> HIDE DEF row
<1>7. signals'[n] = row /\ \A m \in Mails \ {n} : signals'[m] = signals[m]
  BY <1>1, <1>3 DEF TypeInv, StateInv, TypeOK
<1>8. On(t)' = On(t) \union {n} /\ \A u \in Ids \ {t} : On(u)' = On(u) \ {n}
  <2>1. ASSUME NEW u PROVE On(u)' = {m \in Mails : signals'[m] # None /\ signals'[m].thread = u}
    BY DEF On
  <2>2. ASSUME NEW u, NEW m \in Mails \ {n} PROVE m \in On(u)' <=> m \in On(u)
    BY <1>7, <2>1 DEF On
  <2>3. ASSUME NEW u PROVE n \in On(u)' <=> u = t
    BY <1>1, <1>6, <1>7, <2>1
  <2>4. \A u : On(u) \subseteq Mails /\ On(u)' \subseteq Mails
    BY DEF On
  <2>5. QED
    BY <1>1, <2>2, <2>3, <2>4
<1>9. stale \subseteq stale' /\ (t \notin stale' => threads[t] = run.snap)
  BY <1>3
<1>10. WholeRows'
  <2> SUFFICES ASSUME NEW u \in Ids \ stale'
               PROVE  /\ threads'[u] # None => threads'[u].listed
                      /\ On(u)' # {} => threads'[u] # None /\ threads'[u].at > 0
    BY DEF WholeRows
  <2>1. /\ threads[u] # None => threads[u].listed
        /\ On(u) # {} => threads[u] # None /\ threads[u].at > 0
    BY <1>9 DEF ListInv, WholeRows
  <2>2. CASE u = t
    BY <1>2, <1>3, <1>4, <1>9, <2>1, <2>2
  <2>3. CASE u # t
    BY <1>3, <1>8, <2>1, <2>3
  <2>4. QED
    BY <2>2, <2>3
<1>11. ASSUME NEW u \in Ids \ {t}, u \notin stale', n \in On(u) PROVE Fills(next, u)
  <2>1. signals[n] # None /\ signals[n].thread = u /\ u # None
    BY <1>11, NoneApart DEF On
  <2>2. u = Source(run)
    BY <1>3, <1>11, <2>1 DEF Moved
  <2>3. run.by.kind = "reprocess" /\ run.by.source = u
    BY <2>1, <2>2 DEF Source
  <2>4. QED
    BY <1>5, <2>3 DEF Fills
<1>12. ASSUME NEW u \in Ids \ {t}, Fills(run, u) PROVE Fills(next, u)
  BY <1>0, <1>1, <1>5, <1>12 DEF Fills
<1>13. ASSUME NEW u \in Ids \ stale', Emptied(u)'
       PROVE  Fills(next, u) \/ (Emptied(u) /\ ~Fills(run, u))
  <2>1. On(u)' = {}
    BY <1>13 DEF Emptied
  <2>2. u # t /\ On(u) \subseteq {n}
    BY <1>8, <2>1
  <2>3. CASE n \in On(u)
    BY <1>11, <1>13, <2>2, <2>3
  <2>4. CASE On(u) = {}
    BY <1>3, <1>12, <1>13, <2>2, <2>4 DEF Emptied
  <2>5. QED
    BY <2>2, <2>3, <2>4
<1>14. ASSUME NEW u \in Ids \ stale', NEW m \in On(u)'
       PROVE  Indexes(next, m, u) \/ (m \in On(u) /\ ~Indexes(run, m, u))
  <2>1. CASE m = n
    <3>1. u = t
      BY <1>8, <1>14, <2>1
    <3>2. QED
      BY <1>5, <2>1, <3>1 DEF Indexes
  <2>2. CASE m # n
    <3>1. m \in On(u)
      BY <1>8, <1>14, <2>2
    <3>2. QED
      BY <1>0, <2>2, <3>1 DEF Indexes
  <2>3. QED
    BY <2>1, <2>2
<1>15. JobRow(next)
  BY <1>5 DEF JobRow
<1>16. QED
  BY <1>3, <1>9, <1>10, <1>13, <1>14, <1>15, ListKept

LEMMA MatchList ==
  ASSUME TypeInv, ListInv, NEW i \in Lambdas, Match(i)
  PROVE  ListInv'
<1> DEFINE run == lambda[i]
<1>1. /\ run \in Runs(Arrived) /\ run.job = "mail" /\ run.pc = "match"
      /\ UNCHANGED <<threads, signals, stale, faults>>
  BY RunOf DEF Match, past
<1>2. PICK t : /\ vectors' = {v \in vectors : v[2] # t \/ ~Ghost(t)}
               /\ Goto(i, [run EXCEPT !.match = IF t # None /\ ~Ghost(t) THEN t ELSE None,
                                      !.snap = IF t # None /\ ~Ghost(t) THEN threads[t] ELSE None,
                                      !.seen = Keyed,
                                      !.pc = "decide"])
  BY DEF Match
<1> DEFINE match == IF t # None /\ ~Ghost(t) THEN t ELSE None
           snap == IF t # None /\ ~Ghost(t) THEN threads[t] ELSE None
           next == [run EXCEPT !.match = match, !.snap = snap, !.seen = Keyed, !.pc = "decide"]
<1>3. Goto(i, next)
  BY <1>2
<1>4. /\ next.job = "mail" /\ next.by = run.by /\ next.mail = run.mail /\ next.pc = "decide"
  <2> HIDE DEF match, snap
  <2>1. QED
    BY <1>1 DEF Runs
<1> HIDE DEF next
<1>5. /\ JobRow(next)
      /\ \A u : /\ Fills(run, u) => Fills(next, u)
                /\ \A m : Indexes(run, m, u) => Indexes(next, m, u)
  BY <1>1, <1>4, RunKeeps DEF JobRow
<1>6. \A u : On(u)' = On(u) /\ Emptied(u)' = Emptied(u)
  BY <1>1 DEF On, Emptied
<1>7. WholeRows'
  BY <1>1, <1>6 DEF ListInv, WholeRows
<1>8. ASSUME NEW u \in Ids \ stale', NEW m \in On(u), <<m, u>> \in vectors PROVE <<m, u>> \in vectors'
  <2>1. threads[u] # None
    BY <1>1, <1>8 DEF ListInv, WholeRows
  <2>2. QED
    BY <1>2, <1>8, <2>1 DEF Ghost
<1>9. QED
  BY <1>1, <1>3, <1>5, <1>6, <1>7, <1>8, ListKept

LEMMA PipelineList ==
  ASSUME TypeInv, ListInv, NEW i \in Lambdas, Pipeline(i)
  PROVE  ListInv'
<1> DEFINE run == lambda[i]
<1>1. ASSUME NEW m \in Mails, Receive(i, m) PROVE ListInv'
  <2> DEFINE again == [Run(m, Direct) EXCEPT !.pc = "index", !.match = signals[m].thread,
                                             !.snap = threads[signals[m].thread]]
  <2>1. /\ Goto(i, Run(m, Direct)) \/ Goto(i, again) \/ Goto(i, Idle)
        /\ run.job = "idle" /\ UNCHANGED <<threads, signals, vectors, stale, faults>>
    BY <1>1 DEF Receive, Idle, rows, past
  <2>2. JobRow(Run(m, Direct)) /\ JobRow(again) /\ JobRow(Idle)
    BY DEF Run, Idle, JobRow
  <2> HIDE DEF again
  <2>3. QED
    BY <2>1, <2>2, Plain, ListPlain
<1>2. CASE ReadPolicy(i)
  <2> DEFINE pc == IF policy \in Blocks THEN "block" ELSE "match"
             next == [run EXCEPT !.policy = policy, !.pc = pc]
  <2>1. /\ Goto(i, next) /\ UNCHANGED <<threads, signals, vectors, stale, faults>>
        /\ run.job = "mail" /\ run.pc = "policy"
    BY <1>2 DEF ReadPolicy, rows, past
  <2>2. run \in Runs(Arrived)
    BY <2>1, RunOf
  <2>3. /\ next.job = "mail" /\ next.by = run.by /\ next.mail = run.mail
        /\ next.pc \in {"block", "match"}
    <3>1. pc \in {"block", "match"}
      OBVIOUS
    <3> HIDE DEF pc
    <3>2. QED
      BY <2>1, <2>2, <3>1 DEF Runs
  <2> HIDE DEF next
  <2>4. JobRow(next)
    BY <2>3 DEF JobRow
  <2>5. QED
    BY <2>1, <2>3, <2>4, RunKeeps, ListPlain
<1>3. CASE BlockSender(i)
  <2>1. run.job = "mail" /\ run.pc = "block" /\ Withhold(i, run.mail, run.policy, "sender")
    BY <1>3 DEF BlockSender
  <2>2. run.policy \in Blocks
    BY <2>1, RunOf DEF Runs
  <2>3. QED
    BY <2>1, <2>2, WithholdList
<1>4. CASE Quarantine(i)
  <2>1. run.job = "mail" /\ run.pc = "decide"
    BY <1>4 DEF Quarantine
  <2>2. PICK status \in Held \union Blocks, why \in {"rule", "sender"} :
          Withhold(i, run.mail, status, why)
    BY <1>4 DEF Quarantine, Held, Blocks
  <2>3. QED
    BY <2>1, <2>2, WithholdList
<1>5. CASE Index(i)
  <2>1. /\ run.job = "mail" /\ run.pc = "index" /\ UNCHANGED <<threads, signals, stale, faults>>
        /\ Goto(i, After(run)) /\ vectors' = vectors \union {<<run.mail, run.match>>}
    BY <1>5 DEF Index, past
  <2>2. run \in Runs(Arrived) /\ Arrived \in SUBSET Mails
    BY <2>1, RunOf DEF Arrived
  <2>3. ASSUME NEW t \in Ids, Fills(run, t) PROVE Fills(After(run), t)
    <3>1. run.by.kind = "reprocess" /\ run.by.source = t /\ t # None
      BY <2>1, <2>3, NoneApart DEF Fills
    <3>2. QED
      BY <3>1, AfterFills
  <2>4. ASSUME NEW t, NEW m, Indexes(run, m, t) PROVE <<m, t>> \in vectors'
    BY <2>1, <2>4 DEF Indexes
  <2>5. JobRow(After(run))
    BY <2>2, AfterRow
  <2>6. QED
    BY <2>1, <2>3, <2>4, <2>5, ListPlain
<1>6. ASSUME NEW next, Goto(i, next), JobRow(next), Fault, UNCHANGED <<threads, signals, vectors, stale>>
      PROVE  ListInv'
  <2>1. faults' # 0
    BY <1>6 DEF Fault, TypeInv, StateInv, TypeOK
  <2>2. WholeRows'
    <3>1. \A t : On(t)' = On(t)
      BY <1>6, OnOf
    <3>2. QED
      BY <1>6, <3>1 DEF ListInv, WholeRows
  <2>3. QED
    BY <1>6, <2>1, <2>2, ListKept
<1>7. CASE MatchFails(i)
  <2> DEFINE next == [run EXCEPT !.pc = "decide"]
  <2>1. /\ run.job = "mail" /\ UNCHANGED <<threads, signals, vectors, stale>> /\ Fault
        /\ Goto(i, next)
    BY <1>7 DEF MatchFails, rows
  <2>2. run \in Runs(Arrived)
    BY <2>1, RunOf
  <2>3. next.job = "mail" /\ next.pc = "decide"
    BY <2>2 DEF Runs
  <2> HIDE DEF next
  <2>4. QED
    BY <1>6, <2>1, <2>3 DEF JobRow
<1>8. CASE RunFails(i)
  <2>1. /\ run.job = "mail" /\ UNCHANGED <<threads, signals, vectors, stale>> /\ Fault
        /\ Goto(i, After(run)) \/ Goto(i, Idle)
    BY <1>8 DEF RunFails, rows, past
  <2>2. JobRow(After(run)) /\ JobRow(Idle)
    BY <2>1, RunOf, AfterRow DEF Arrived
  <2>3. QED
    BY <1>6, <2>1, <2>2
<1>9. QED
  BY <1>1, <1>2, <1>3, <1>4, <1>5, <1>7, <1>8, MatchList, WriteThreadList, SaveSignalList
     DEF Pipeline

LEMMA NextList == TypeInv /\ ListInv /\ [Next]_vars => ListInv'
<1> SUFFICES ASSUME TypeInv, ListInv, [Next]_vars PROVE ListInv'
  OBVIOUS
<1>1. CASE \/ UNCHANGED vars \/ Tick
           \/ \E m \in Mails : Arrive(m)
           \/ \E t \in Ids : Fire(t)
  <2>1. UNCHANGED <<threads, signals, vectors, lambda, stale, faults>>
    BY <1>1 DEF vars, Tick, Arrive, Fire, rows, past
  <2>2. QED
    BY <2>1, ListStays
<1>2. ASSUME NEW c \in codes, ArchiveCode(c) PROVE ListInv'
  <2>1. c.thread \in Ids /\ Rewrites(c.thread, c.row, c.row.at) /\ c.row \in Row
    BY <1>2, CodeRewrites DEF TypeInv, StateInv, TypeOK
  <2>2. UNCHANGED <<signals, vectors, lambda, faults>>
    BY <1>2 DEF ArchiveCode
  <2>3. QED
    BY <2>1, <2>2, ListStaysRewritten
<1>3. ASSUME NEW t \in Ids, Expire(t) PROVE ListInv'
  <2>1. /\ threads' = [threads EXCEPT ![t] = None] /\ stale' = stale \union {t}
        /\ UNCHANGED <<signals, vectors, lambda>> /\ Fault
    BY <1>3 DEF Expire
  <2>2. faults' # 0
    BY <2>1 DEF Fault, TypeInv, StateInv, TypeOK
  <2>3. \A u \in Ids \ {t} : threads'[u] = threads[u]
    BY <2>1 DEF TypeInv, StateInv, TypeOK
  <2>4. \A u : On(u)' = On(u)
    BY <2>1, OnOf
  <2>5. WholeRows'
    BY <2>1, <2>3, <2>4 DEF ListInv, WholeRows
  <2>6. QED
    BY <2>1, <2>2, <2>5 DEF ListInv, JobRows
<1>4. QED
  BY <1>1, <1>2, <1>3, PipelineList, AnswersList, WritersList, RepairList, CleanList, OthersList
     DEF Next, Api, Statuses

LEMMA InitList == Init => ListInv
<1> SUFFICES ASSUME Init PROVE ListInv
  OBVIOUS
<1>1. \A t \in Ids : threads[t] = None /\ On(t) = {}
  BY DEF Init, On
<1>2. JobRows
  BY DEF Init, JobRows, JobRow, Idle
<1>3. QED
  BY <1>1, <1>2 DEF ListInv, WholeRows, EmptiedRows, Emptied, Findable

\* At rest the lists show every mail, and no thread that was emptied, except where
\* a row was written over (updateThread, repairThreadRecency).
THEOREM ListsShowEveryMail == MCSpec => []MailIsListed
<1> DEFINE Inv == TypeInv /\ ListInv
<1>1. MCInit => Inv
  BY InitType, InitList DEF MCInit
<1>2. Inv /\ [MCNext]_<<part, vars>> => Inv'
  BY ScopedStep, NextType, NextList
<1>3. Inv => MailIsListed
  <2> SUFFICES ASSUME TypeInv, ListInv, Rest, NEW t \in Ids \ stale
               PROVE  /\ On(t) # {} => Listed(t)
                      /\ faults = 0 /\ threads[t] # None /\ threads[t].followup = 0
                           => (Listed(t) => On(t) # {})
                      /\ faults = 0 => \A m \in On(t) : <<m, t>> \in vectors
    BY DEF MailIsListed, ListsShowMail
  <2>1. \A i \in Lambdas : \A u, m : ~Fills(lambda[i], u) /\ ~Indexes(lambda[i], m, u)
    BY DEF Rest, Idle, Fills, Indexes
  <2>2. On(t) # {} => Listed(t)
    BY DEF ListInv, WholeRows, Listed
  <2>3. faults = 0 => ~Emptied(t) /\ \A m \in On(t) : <<m, t>> \in vectors
    BY <2>1 DEF ListInv, EmptiedRows, Findable
  <2>4. QED
    BY <2>2, <2>3 DEF Listed, Emptied
<1>4. QED
  BY <1>1, <1>2, <1>3, PTL DEF MCSpec

-----------------------------------------------------------------------------
(* A snooze ends: whoever is about to write a date has an alarm for it, and  *)
(* the alarm outlasts the date, unless another snooze of the thread moved    *)
(* it, which is then about to write its own.                                 *)

Armed(t, h) == schedule[t] >= h \/ \E a \in alarms : a.thread = t /\ a.due >= h
Snoozing(job, t) == job.job = "patch" /\ job.thread = t /\ job.followup # 0

JobArmed(i, t) ==
  LET job == lambda[i] IN
  /\ job.followup > hour
  /\ job.pc = "write" =>
       /\ Armed(t, hour + 1)
       /\ t \in stale \/ Armed(t, job.followup) \/ \E j \in Lambdas \ {i} : Snoozing(lambda[j], t)

JobsArmed ==
  /\ \A i \in Lambdas : lambda[i].job = "patch" /\ lambda[i].pc = "alarm" => lambda[i].followup # 0
  /\ \A i \in Lambdas : \A t \in Ids : Snoozing(lambda[i], t) => JobArmed(i, t)

RowsArmed ==
  \A t \in Ids \ stale :
    threads[t] # None /\ user[t] = "snoozed" /\ threads[t].followup > hour =>
      \/ Armed(t, threads[t].followup)
      \/ \E i \in Lambdas : Snoozing(lambda[i], t) /\ lambda[i].pc = "write"

SnoozeInv == JobsArmed /\ RowsArmed

\* What is to come stays to come.
ArmsStay == \A t \in Ids : \A h \in Nat : h > hour /\ Armed(t, h) => Armed(t, h)'

\* No thread becomes a snoozed one, and none gets another date.
Quiet ==
  /\ stale \subseteq stale'
  /\ \A t \in Ids \ stale' :
       threads'[t] # None /\ user'[t] = "snoozed" /\ threads'[t].followup # 0 =>
         /\ user[t] = "snoozed" /\ threads[t] # None
         /\ threads'[t].followup = threads[t].followup

LEMMA SnoozeKept ==
  ASSUME TypeInv, TypeInv', SnoozeInv, UNCHANGED hour, ArmsStay, Quiet,
         \A i \in Lambdas : \/ lambda'[i] = lambda[i]
                            \/ /\ \A t : ~Snoozing(lambda[i], t) /\ ~Snoozing(lambda'[i], t)
                               /\ lambda'[i].job = "patch" => lambda'[i].pc # "alarm"
  PROVE  SnoozeInv'
<1>1. hour \in Nat /\ hour + 1 \in Nat /\ hour + 1 > hour
  BY ThreadsAssumption DEF TypeInv, StateInv, TypeOK, Hours
<1>2. \A i \in Lambdas : \A t : Snoozing(lambda'[i], t) <=> Snoozing(lambda[i], t)
  OBVIOUS
<1>3. \A i \in Lambdas : \A t : Snoozing(lambda[i], t) => lambda'[i] = lambda[i]
  OBVIOUS
<1>4. ASSUME NEW i \in Lambdas, NEW t \in Ids, Snoozing(lambda'[i], t) PROVE JobArmed(i, t)'
  <2>1. Snoozing(lambda[i], t) /\ lambda'[i] = lambda[i] /\ JobArmed(i, t)
    BY <1>2, <1>3, <1>4 DEF SnoozeInv, JobsArmed
  <2>2. lambda[i].followup > hour /\ lambda[i].followup \in Nat
    <3>1. lambda[i] \in Patches
      BY <2>1, JobKinds DEF Snoozing, TypeInv
    <3>2. lambda[i].followup \in Nat
      BY <3>1 DEF Patches, Hours
    <3>3. QED
      BY <2>1, <3>2 DEF JobArmed
  <2>3. Armed(t, hour + 1) => Armed(t, hour + 1)'
    BY <1>1 DEF ArmsStay
  <2>4. Armed(t, lambda[i].followup) => Armed(t, lambda[i].followup)'
    <3>1. Armed(t, lambda[i].followup) => \A h : h = lambda[i].followup => Armed(t, h)'
      BY <2>2 DEF ArmsStay
    <3>2. QED
      BY <2>1, <3>1
  <2>5. QED
    BY <1>2, <2>1, <2>2, <2>3, <2>4 DEF JobArmed, Quiet
<1>5. ASSUME NEW t \in Ids \ stale', threads'[t] # None, user'[t] = "snoozed",
             threads'[t].followup > hour
      PROVE  \/ Armed(t, threads[t].followup)'
             \/ \E i \in Lambdas : Snoozing(lambda'[i], t) /\ lambda'[i].pc = "write"
  <2>1. threads'[t].followup \in Nat
    BY <1>5 DEF TypeInv, StateInv, TypeOK, Row, Hours
  <2>2. threads'[t].followup # 0
    BY <1>1, <1>5, <2>1
  <2>3. t \notin stale /\ user[t] = "snoozed" /\ threads[t] # None
        /\ threads'[t].followup = threads[t].followup
    BY <1>5, <2>2 DEF Quiet
  <2>4. \/ Armed(t, threads[t].followup)
        \/ \E i \in Lambdas : Snoozing(lambda[i], t) /\ lambda[i].pc = "write"
    BY <1>5, <2>3 DEF SnoozeInv, RowsArmed
  <2>5. Armed(t, threads[t].followup) => \A h : h = threads[t].followup => Armed(t, h)'
    BY <1>5, <2>1, <2>3 DEF ArmsStay
  <2>6. QED
    BY <1>2, <1>3, <2>3, <2>4, <2>5
<1>6. ASSUME NEW i \in Lambdas, lambda'[i].job = "patch", lambda'[i].pc = "alarm"
      PROVE  lambda'[i].followup # 0
  BY <1>6 DEF SnoozeInv, JobsArmed
<1>7. QED
  BY <1>4, <1>5, <1>6 DEF SnoozeInv, JobsArmed, RowsArmed

\* Nobody who is not snoozing has a date to write.
LEMMA OthersSnooze ==
  ASSUME NEW i, lambda[i].job # "patch" PROVE \A t : ~Snoozing(lambda[i], t)
BY DEF Snoozing

LEMMA SnoozeMoves ==
  ASSUME TypeInv, TypeInv', SnoozeInv, UNCHANGED hour, ArmsStay, Quiet,
         NEW i \in Lambdas, NEW job, Goto(i, job), job.job # "patch",
         \A t : ~Snoozing(lambda[i], t)
  PROVE  SnoozeInv'
<1>1. lambda'[i] = job /\ \A k \in Lambdas \ {i} : lambda'[k] = lambda[k]
  BY Went
<1>2. \A t : ~Snoozing(lambda'[i], t)
  BY <1>1 DEF Snoozing
<1>3. QED
  BY <1>1, <1>2, SnoozeKept

LEMMA ClockStays ==
  ASSUME UNCHANGED <<alarms, schedule>> PROVE ArmsStay
BY DEF ArmsStay, Armed

LEMMA UpdateQuiet ==
  ASSUME StateInv, NEW t \in Ids, NEW snap, NEW status \in Statuses, NEW at \in Times,
         UpdateThread(t, snap, status, at),
         \A u \in Ids : user'[u] = "snoozed" => user[u] = "snoozed"
  PROVE  Quiet
<1>1. threads[t] \in Row \union {None}
  BY DEF StateInv, TypeOK
<1>2. /\ Updated(threads[t], status, at) \in Row
      /\ threads[t] # None => Updated(threads[t], status, at).followup = threads[t].followup
  BY <1>1, UpdatedTyped
<1>3. threads[t] = None => Updated(threads[t], status, at).followup = 0
  BY DEF Updated
<1>4. threads' = [threads EXCEPT ![t] = Updated(threads[t], status, at)] /\ stale \subseteq stale'
  BY DEF UpdateThread
<1> DEFINE row == Updated(threads[t], status, at)
<1> HIDE DEF row
<1>5. \A u \in Ids : threads'[u] = IF u = t THEN row ELSE threads[u]
  BY <1>4 DEF row, StateInv, TypeOK
<1>6. QED
  BY <1>2, <1>3, <1>4, <1>5 DEF row, Quiet

LEMMA RowsQuiet ==
  ASSUME UNCHANGED threads, stale \subseteq stale',
         \A u \in Ids : user'[u] = "snoozed" => user[u] = "snoozed"
  PROVE  Quiet
BY DEF Quiet

\* What a step of the pipeline makes of the invocation.
LEMMA PipelineGoes ==
  ASSUME TypeInv, NEW i \in Lambdas, Pipeline(i)
  PROVE  \E job : Goto(i, job) /\ job.job # "patch"
<1> DEFINE run == lambda[i]
           goes == \E job : Goto(i, job) /\ job.job # "patch"
<1>1. ASSUME NEW m \in Mails, Receive(i, m) PROVE goes
  <2> DEFINE again == [Run(m, Direct) EXCEPT !.pc = "index", !.match = signals[m].thread,
                                             !.snap = threads[signals[m].thread]]
  <2>1. Goto(i, Run(m, Direct)) \/ Goto(i, again) \/ Goto(i, Idle)
    BY <1>1 DEF Receive
  <2>2. Run(m, Direct).job = "mail" /\ again.job = "mail" /\ Idle.job = "idle"
    BY DEF Run, Idle
  <2> HIDE DEF again
  <2>3. QED
    BY <2>1, <2>2
<1>2. ASSUME run.job = "mail"
      PROVE  /\ run \in Runs(Arrived)
             /\ \A next : Goto(i, next) /\ next.job = "mail" => goes
             /\ Goto(i, After(run)) \/ Goto(i, Idle) => goes
  <2>1. run \in Runs(Arrived)
    BY <1>2, RunOf
  <2>2. run.by \in Causes(Arrived)
    BY <2>1 DEF Runs
  <2>3. After(run).job \in {"idle", "siblings", "repair"} /\ Idle.job = "idle"
    BY <2>2, CauseKinds DEF After, Siblings, Repair, Idle, Lists
  <2>4. QED
    BY <2>1, <2>3
<1>3. CASE ReadPolicy(i)
  <2> DEFINE next == [run EXCEPT !.policy = policy, !.pc = IF policy \in Blocks THEN "block" ELSE "match"]
  <2>1. Goto(i, next) /\ run.job = "mail"
    BY <1>3 DEF ReadPolicy
  <2>2. next.job = "mail"
    BY <1>2, <2>1 DEF Runs
  <2> HIDE DEF next
  <2>3. QED
    BY <1>2, <2>1, <2>2
<1>4. CASE BlockSender(i) \/ Quarantine(i)
  <2>1. run.job = "mail" /\ (Goto(i, After(run)) \/ Goto(i, Idle))
    BY <1>4 DEF BlockSender, Quarantine, Withhold
  <2>2. QED
    BY <1>2, <2>1
<1>5. CASE Match(i)
  <2>1. PICK match, snap : Goto(i, [run EXCEPT !.match = match, !.snap = snap, !.seen = Keyed, !.pc = "decide"])
    BY <1>5 DEF Match
  <2> DEFINE next == [run EXCEPT !.match = match, !.snap = snap, !.seen = Keyed, !.pc = "decide"]
  <2>2. Goto(i, next) /\ run.job = "mail"
    BY <1>5, <2>1 DEF Match
  <2>3. next.job = "mail"
    BY <1>2, <2>2 DEF Runs
  <2> HIDE DEF next
  <2>4. QED
    BY <1>2, <2>2, <2>3
<1>6. CASE MatchFails(i)
  <2>1. Goto(i, [run EXCEPT !.pc = "decide"]) /\ run.job = "mail"
    BY <1>6 DEF MatchFails
  <2>2. [run EXCEPT !.pc = "decide"].job = "mail"
    BY <1>2, <2>1 DEF Runs
  <2>3. QED
    BY <1>2, <2>1, <2>2
<1>7. CASE WriteThread(i)
  <2> DEFINE t == Target(run)
  <2>1. PICK row \in Row, snap \in Row : WroteThread(i, t, row, snap)
    BY <1>7, Written
  <2> HIDE DEF t
  <2> DEFINE next == [run EXCEPT !.pc = "save", !.match = t, !.snap = snap]
  <2>2. Goto(i, next) /\ run.job = "mail"
    BY <1>7, <2>1 DEF WriteThread, WroteThread
  <2>3. next.job = "mail"
    BY <1>2, <2>2 DEF Runs
  <2> HIDE DEF next
  <2>4. QED
    BY <1>2, <2>2, <2>3
<1>8. CASE SaveSignal(i)
  <2>1. Goto(i, [run EXCEPT !.pc = "index"]) /\ run.job = "mail"
    BY <1>8 DEF SaveSignal
  <2>2. [run EXCEPT !.pc = "index"].job = "mail"
    BY <1>2, <2>1 DEF Runs
  <2>3. QED
    BY <1>2, <2>1, <2>2
<1>9. CASE Index(i) \/ RunFails(i)
  <2>1. run.job = "mail" /\ (Goto(i, After(run)) \/ Goto(i, Idle))
    BY <1>9 DEF Index, RunFails
  <2>2. QED
    BY <1>2, <2>1
<1>10. QED
  BY <1>1, <1>3, <1>4, <1>5, <1>6, <1>7, <1>8, <1>9 DEF Pipeline

LEMMA PipelineStarts ==
  ASSUME NEW i, Pipeline(i) PROVE lambda[i] = Idle \/ lambda[i].job = "mail"
<1>1. CASE \E m \in Mails : Receive(i, m)
  BY <1>1 DEF Receive
<1>2. CASE ReadPolicy(i) \/ BlockSender(i) \/ Match(i) \/ MatchFails(i) \/ Quarantine(i)
  BY <1>2 DEF ReadPolicy, BlockSender, Match, MatchFails, Quarantine
<1>3. CASE WriteThread(i) \/ SaveSignal(i) \/ Index(i) \/ RunFails(i)
  BY <1>3 DEF WriteThread, SaveSignal, Index, RunFails
<1>4. QED
  BY <1>1, <1>2, <1>3 DEF Pipeline

LEMMA PipelineSnooze ==
  ASSUME TypeInv, TypeInv', SnoozeInv, NEW i \in Lambdas, Pipeline(i)
  PROVE  SnoozeInv'
<1>1. UNCHANGED <<alarms, schedule, hour>>
  BY DEF Pipeline, Receive, ReadPolicy, BlockSender, Match, MatchFails, Quarantine, WriteThread,
         SaveSignal, Index, RunFails, Withhold, clock
<1>2. lambda[i].job \in {"idle", "mail"}
  BY PipelineStarts DEF Idle
<1>3. \A t : ~Snoozing(lambda[i], t)
  BY <1>2, OthersSnooze
<1>4. PICK job : Goto(i, job) /\ job.job # "patch"
  BY PipelineGoes
<1>5. Quiet
  <2>1. CASE WriteThread(i)
    <3> DEFINE t == Target(lambda[i])
    <3>1. PICK row \in Row, snap \in Row : WroteThread(i, t, row, snap)
      BY <2>1, Written
    <3>2. user' = [user EXCEPT ![t] = IF @ = "reported" THEN @ ELSE "none"]
      BY <2>1 DEF WriteThread, Target
    <3> HIDE DEF t
    <3>3. threads' = [threads EXCEPT ![t] = row] /\ stale \subseteq stale'
      BY <3>1 DEF WroteThread
    <3>4. QED
      BY <3>2, <3>3 DEF Quiet, TypeInv, StateInv, TypeOK
  <2>2. CASE ~WriteThread(i)
    <3>1. UNCHANGED <<threads, user>>
      BY <2>2 DEF Pipeline, Receive, ReadPolicy, BlockSender, Match, MatchFails, Quarantine,
             SaveSignal, Index, RunFails, Withhold, rows, past
    <3>2. stale \subseteq stale'
      BY <2>2 DEF Pipeline, Receive, ReadPolicy, BlockSender, Match, MatchFails, Quarantine,
             SaveSignal, Index, RunFails, Withhold, past
    <3>3. QED
      BY <3>1, <3>2, RowsQuiet
  <2>3. QED
    BY <2>1, <2>2
<1>6. QED
  BY <1>1, <1>3, <1>4, <1>5, ClockStays, SnoozeMoves

\* The requests but those that set a date.
Plainly(i) ==
  \/ \E m \in Mails : Reprocess(i, m) \/ \E as \in Answers : Respond(i, m, as)
  \/ \E t \in Ids : Report(i, t)
  \/ Dismiss(i) \/ Block(i) \/ RecordBlock(i) \/ Approve(i) \/ ListSiblings(i) \/ NextSibling(i)
  \/ Clean(i) \/ RepairRead(i) \/ RepairWrite(i) \/ ReportSender(i) \/ ReportWrite(i)

\* What they make of the invocation: no date is to be set, no thread to be woken, and a
\* run is at its beginning.
PlainJob(job) ==
  job.job # "patch" /\ job.job # "wake" /\ (job.job = "mail" => job.pc = "policy")

LEMMA PlainlyGoes ==
  ASSUME TypeInv, NEW i \in Lambdas, Plainly(i)
  PROVE  /\ lambda[i].job # "patch" /\ lambda[i].job # "mail"
         /\ \E job : Goto(i, job) /\ PlainJob(job)
<1> DEFINE req == lambda[i]
           goes == /\ req.job # "patch" /\ req.job # "mail"
                   /\ \E job : Goto(i, job) /\ PlainJob(job)
<1>0. Idle.job = "idle"
  BY DEF Idle
<1>k. ASSUME NEW job, Goto(i, job), req.job # "patch", req.job # "mail",
             job.job \in {"idle", "respond", "clean", "report", "siblings", "blocked", "repair"}
      PROVE  goes
  BY <1>k DEF PlainJob
<1>1. ASSUME NEW m \in Mails, Reprocess(i, m) PROVE goes
  BY <1>0, <1>1, <1>k, NewJobs DEF Reprocess
<1>2. ASSUME NEW m \in Mails, NEW as \in Answers, Respond(i, m, as) PROVE goes
  BY <1>0, <1>2, <1>k, NewJobs DEF Respond
<1>3. ASSUME NEW t \in Ids, Report(i, t) PROVE goes
  BY <1>0, <1>3, <1>k, NewJobs DEF Report
<1>4. CASE Dismiss(i) \/ RecordBlock(i)
  <2>1. req.job \in {"respond", "blocked"} /\ Goto(i, Siblings(req.mail, req.as, None))
    BY <1>4 DEF Dismiss, RecordBlock
  <2>2. Siblings(req.mail, req.as, None).job = "siblings"
    BY DEF Siblings
  <2>3. QED
    BY <1>k, <2>1, <2>2
<1>5. CASE Block(i)
  <2>1. req.job = "respond" /\ Goto(i, [req EXCEPT !.job = "blocked"]) /\ req \in Responses(Arrived)
    BY <1>5, JobOf, JobKinds DEF Block
  <2>2. [req EXCEPT !.job = "blocked"].job = "blocked"
    BY <2>1 DEF Responses
  <2>3. QED
    BY <1>k, <2>1, <2>2
<1>6. ASSUME NEW m, NEW by, Goto(i, Run(m, by)), req.job # "patch", req.job # "mail" PROVE goes
  <2>1. PlainJob(Run(m, by))
    BY DEF Run, PlainJob
  <2>2. QED
    BY <1>6, <2>1
<1>7. CASE Approve(i) \/ Clean(i)
  BY <1>6, <1>7 DEF Approve, Clean
<1>8. CASE ListSiblings(i) \/ NextSibling(i)
  <2>1. req.job = "siblings" /\ req \in Lists(Arrived)
    BY <1>8, JobOf, JobKinds DEF ListSiblings, NextSibling
  <2>2. \A todo : [req EXCEPT !.todo = todo].job = "siblings"
    BY <2>1 DEF Lists
  <2>3. CASE ListSiblings(i)
    <3>1. PICK todo : Goto(i, [req EXCEPT !.todo = todo])
      BY <2>3 DEF ListSiblings
    <3>2. QED
      BY <1>k, <2>1, <2>2, <3>1
  <2>4. CASE NextSibling(i)
    <3>1. CASE Goto(i, Idle)
      BY <1>0, <1>k, <2>1, <3>1
    <3>2. ASSUME NEW m \in req.todo,
                 \/ Goto(i, [req EXCEPT !.todo = @ \ {m}])
                 \/ Goto(i, Run(m, [kind |-> "sibling", rest |-> [req EXCEPT !.todo = @ \ {m}]]))
          PROVE  goes
      <4>1. [req EXCEPT !.todo = @ \ {m}].job = "siblings"
        BY <2>1 DEF Lists
      <4> DEFINE rest == [req EXCEPT !.todo = @ \ {m}]
      <4>2. Goto(i, rest) \/ Goto(i, Run(m, [kind |-> "sibling", rest |-> rest]))
        BY <3>2
      <4> HIDE DEF rest
      <4>3. QED
        BY <1>6, <1>k, <2>1, <4>1, <4>2 DEF rest
    <3>3. QED
      BY <2>4, <3>1, <3>2 DEF NextSibling
  <2>5. QED
    BY <1>8, <2>3, <2>4
<1>9. CASE RepairRead(i) \/ RepairWrite(i)
  <2>1. req.job = "repair" /\ req \in Repairs(Arrived)
    BY <1>9, JobOf, JobKinds DEF RepairRead, RepairWrite
  <2>2. PICK pc, snap, mails :
          Goto(i, Idle) \/ Goto(i, [req EXCEPT !.pc = pc, !.snap = snap]) \/ Goto(i, [req EXCEPT !.pc = pc, !.mails = mails])
    BY <1>9 DEF RepairRead, RepairWrite
  <2>3. [req EXCEPT !.pc = pc, !.snap = snap].job = "repair" /\ [req EXCEPT !.pc = pc, !.mails = mails].job = "repair"
    BY <2>1 DEF Repairs
  <2>4. QED
    BY <1>0, <1>k, <2>1, <2>2, <2>3
<1>10. CASE ReportSender(i) \/ ReportWrite(i)
  <2>1. req.job = "report" /\ req \in Reports
    BY <1>10, JobOf, JobKinds DEF ReportSender, ReportWrite
  <2>2. [req EXCEPT !.pc = "write"].job = "report"
    BY <2>1 DEF Reports
  <2>3. QED
    BY <1>0, <1>10, <1>k, <2>1, <2>2 DEF ReportSender, ReportWrite
<1>11. QED
  BY <1>1, <1>2, <1>3, <1>4, <1>5, <1>7, <1>8, <1>9, <1>10 DEF Plainly

LEMMA PlainlySnooze ==
  ASSUME TypeInv, TypeInv', SnoozeInv, NEW i \in Lambdas, Plainly(i)
  PROVE  SnoozeInv'
<1>1. UNCHANGED <<alarms, schedule, hour>>
  BY DEF Plainly, Reprocess, Respond, Report, Dismiss, Block, RecordBlock, Approve, ListSiblings,
         NextSibling, Clean, RepairRead, RepairWrite, ReportSender, ReportWrite, clock
<1>2. PICK job : Goto(i, job) /\ PlainJob(job)
  BY PlainlyGoes
<1>3. \A t : ~Snoozing(lambda[i], t)
  BY PlainlyGoes, OthersSnooze
<1>4. Quiet
  <2>1. CASE RepairWrite(i)
    <3>1. lambda[i].thread \in Ids /\ lambda[i].snap \in Row /\ UNCHANGED user
      BY <2>1, RepairRewrites DEF RepairWrite
    <3> DEFINE t == lambda[i].thread
               at == MaxOf({0} \union {received[m] : m \in lambda[i].mails})
               row == Updated(threads[t], lambda[i].snap.status, at)
    <3>2. \/ UNCHANGED <<threads, stale>>
          \/ threads' = [threads EXCEPT ![t] = row] /\ stale \subseteq stale'
      BY <2>1 DEF RepairWrite
    <3>3. threads[t] = None => row.followup = 0
      BY DEF Updated
    <3>4. threads[t] # None => row.followup = threads[t].followup
      BY <3>1 DEF Updated, TypeInv, StateInv, TypeOK, Row
    <3> HIDE DEF row, t
    <3>5. QED
      BY <3>1, <3>2, <3>3, <3>4 DEF Quiet, t, TypeInv, StateInv, TypeOK
  <2>2. CASE ReportWrite(i)
    <3>1. lambda[i] \in Reports
      BY <2>2, JobOf, JobKinds DEF ReportWrite
    <3>2. lambda[i].thread \in Ids /\ lambda[i].snap.at \in Times
      BY <3>1 DEF Reports, Row
    <3>3. \A u \in Ids : user'[u] = "snoozed" => user[u] = "snoozed"
      BY <2>2 DEF ReportWrite, TypeInv, StateInv, TypeOK
    <3>4. QED
      BY <2>2, <3>2, <3>3, UpdateQuiet DEF ReportWrite, Statuses, TypeInv
  <2>3. CASE ~RepairWrite(i) /\ ~ReportWrite(i)
    <3>1. UNCHANGED threads /\ stale \subseteq stale'
      BY <2>3 DEF Plainly, Reprocess, Respond, Report, Dismiss, Block, RecordBlock, Approve,
             ListSiblings, NextSibling, Clean, RepairRead, ReportSender, rows, past
    <3>2. \A u \in Ids : user'[u] = "snoozed" => user[u] = "snoozed"
      BY <2>3 DEF Plainly, Reprocess, Respond, Report, Dismiss, Block, RecordBlock, Approve,
             ListSiblings, NextSibling, Clean, RepairRead, ReportSender, past
    <3>3. QED
      BY <3>1, <3>2, RowsQuiet
  <2>4. QED
    BY <2>1, <2>2, <2>3
<1>5. job.job # "patch"
  BY <1>2 DEF PlainJob
<1>6. QED
  BY <1>1, <1>2, <1>3, <1>4, <1>5, ClockStays, SnoozeMoves

LEMMA PatchSnooze ==
  ASSUME TypeInv, TypeInv', SnoozeInv, NEW i \in Lambdas, NEW t \in Ids, NEW s, NEW h \in Hours,
         Patch(i, t, s, h)
  PROVE  SnoozeInv'
<1> DEFINE job == [job |-> "patch", pc |-> IF h = 0 THEN "write" ELSE "alarm",
                   thread |-> t, snap |-> threads[t], followup |-> h,
                   status |-> IF h # 0 THEN "archived" ELSE s]
<1>1. /\ Goto(i, job) /\ lambda[i] = Idle /\ (h = 0 \/ h > hour)
      /\ UNCHANGED <<alarms, schedule, hour, threads, user, stale>>
  BY DEF Patch, rows, clock, past
<1>2. job.job = "patch" /\ job.thread = t /\ job.followup = h /\ job.pc = IF h = 0 THEN "write" ELSE "alarm"
  OBVIOUS
<1> HIDE DEF job
<1>3. lambda'[i] = job /\ \A k \in Lambdas \ {i} : lambda'[k] = lambda[k]
  BY <1>1, Went
<1>4. \A u : ~Snoozing(lambda[i], u)
  BY <1>1 DEF Snoozing, Idle
<1>5. \A k \in Lambdas : \A u : Snoozing(lambda[k], u) => Snoozing(lambda'[k], u) /\ lambda'[k] = lambda[k]
  BY <1>3, <1>4
<1>6. ASSUME NEW k \in Lambdas, NEW u \in Ids, Snoozing(lambda'[k], u) PROVE JobArmed(k, u)'
  <2>1. CASE k = i
    BY <1>1, <1>2, <1>3, <1>6, <2>1 DEF Snoozing, JobArmed
  <2>2. CASE k # i
    <3>1. JobArmed(k, u) /\ lambda'[k] = lambda[k]
      BY <1>3, <1>6, <2>2 DEF SnoozeInv, JobsArmed
    <3>2. QED
      BY <1>1, <1>5, <3>1 DEF JobArmed, Armed
  <2>3. QED
    BY <2>1, <2>2
<1>7. RowsArmed'
  BY <1>1, <1>5 DEF SnoozeInv, RowsArmed, Armed
<1>8. ASSUME NEW k \in Lambdas, lambda'[k].job = "patch", lambda'[k].pc = "alarm"
      PROVE  lambda'[k].followup # 0
  BY <1>2, <1>3, <1>8 DEF SnoozeInv, JobsArmed
<1>9. QED
  BY <1>6, <1>7, <1>8 DEF SnoozeInv, JobsArmed

LEMMA SetAlarmSnooze ==
  ASSUME TypeInv, TypeInv', SnoozeInv, NEW i \in Lambdas, SetAlarm(i)
  PROVE  SnoozeInv'
<1>0. PICK t, h : t = lambda[i].thread /\ h = lambda[i].followup
  OBVIOUS
<1> DEFINE req == lambda[i]
<1>1. /\ req \in Patches /\ t \in Ids /\ h \in Nat /\ h # 0 /\ Snoozing(req, t)
      /\ req.job = "patch" /\ req.pc = "alarm"
  <2>1. req \in Patches
    BY JobOf, JobKinds DEF SetAlarm
  <2>2. QED
    BY <1>0, <2>1 DEF SetAlarm, Patches, Hours, SnoozeInv, JobsArmed, Snoozing
<1>2. h > hour /\ hour \in Nat /\ h >= hour + 1
  <2>1. h > hour /\ hour \in Nat
    BY <1>0, <1>1 DEF SnoozeInv, JobsArmed, JobArmed, TypeInv, StateInv, TypeOK, Hours
  <2>2. QED
    BY <1>1, <2>1
<1>3. UNCHANGED <<hour, threads, user, stale>>
  BY DEF SetAlarm, rows, past
<1>4. /\ lambda'[i] = [req EXCEPT !.pc = "write"] /\ \A k \in Lambdas \ {i} : lambda'[k] = lambda[k]
  BY Went DEF SetAlarm
<1>5. lambda'[i].job = "patch" /\ lambda'[i].thread = t /\ lambda'[i].followup = h /\ lambda'[i].pc = "write"
  BY <1>0, <1>1, <1>4 DEF Patches
<1>6. \A k \in Lambdas : \A u : Snoozing(lambda'[k], u) <=> Snoozing(lambda[k], u)
  <2>1. \A u : Snoozing(lambda[i], u) <=> u = t
    BY <1>0, <1>1 DEF Snoozing
  <2>2. \A u : Snoozing(lambda'[i], u) <=> u = t
    BY <1>1, <1>5 DEF Snoozing
  <2>3. \A k \in Lambdas \ {i} : \A u : Snoozing(lambda'[k], u) <=> Snoozing(lambda[k], u)
    BY <1>4
  <2>4. QED
    BY <2>1, <2>2, <2>3
<1>7. /\ \A u \in Ids \ {t} : \A d : Armed(u, d) => Armed(u, d)'
      /\ \A d \in Nat : d <= h => Armed(t, d)'
  <2>1. CASE alarms' = alarms \union {[thread |-> t, due |-> h]} /\ schedule' = schedule
    <3> DEFINE new == [thread |-> t, due |-> h]
    <3>0. new.thread = t /\ new.due = h /\ alarms' = alarms \union {new}
      BY <2>1
    <3> HIDE DEF new
    <3>1. \E a \in alarms' : a.thread = t /\ a.due = h
      BY <3>0
    <3>2. QED
      BY <1>1, <2>1, <3>0, <3>1 DEF Armed
  <2>2. CASE schedule' = [schedule EXCEPT ![t] = h] /\ alarms' = alarms
    BY <1>1, <2>2 DEF Armed, TypeInv, StateInv, TypeOK
  <2>3. QED
    BY <1>0, <2>1, <2>2 DEF SetAlarm
<1>8. Armed(t, h)' /\ Armed(t, hour + 1)'
  <2>1. h <= h /\ hour + 1 <= h /\ hour + 1 \in Nat
    BY <1>1, <1>2
  <2>2. Armed(t, h)' /\ \A d : d = hour + 1 => Armed(t, d)'
    BY <1>1, <1>7, <2>1
  <2>3. QED
    BY <1>3, <2>2
<1>9. ASSUME NEW k \in Lambdas, NEW u \in Ids, Snoozing(lambda'[k], u) PROVE JobArmed(k, u)'
  <2>1. CASE u = t
    <3>1. CASE k = i
      BY <1>2, <1>3, <1>5, <1>8, <2>1, <3>1 DEF JobArmed
    <3>2. CASE k # i
      <4>1. Snoozing(lambda'[i], t)
        BY <1>1, <1>6
      <4>2. lambda'[k].followup > hour
        BY <1>4, <1>6, <1>9, <3>2 DEF SnoozeInv, JobsArmed, JobArmed
      <4>3. QED
        BY <1>3, <1>8, <2>1, <3>2, <4>1, <4>2 DEF JobArmed
    <3>3. QED
      BY <3>1, <3>2
  <2>2. CASE u # t
    <3>1. k # i
      BY <1>5, <1>9, <2>2 DEF Snoozing
    <3>2. lambda'[k] = lambda[k] /\ JobArmed(k, u)
      BY <1>4, <1>9, <3>1 DEF SnoozeInv, JobsArmed
    <3>3. Armed(u, hour + 1) => Armed(u, hour + 1)'
      <4>1. Armed(u, hour + 1) => \A d : d = hour + 1 => Armed(u, d)'
        BY <1>7, <2>2
      <4>2. QED
        BY <1>3, <4>1
    <3>4. Armed(u, lambda[k].followup) => Armed(u, lambda[k].followup)'
      <4>1. Armed(u, lambda[k].followup) => \A d : d = lambda[k].followup => Armed(u, d)'
        BY <1>7, <2>2
      <4>2. QED
        BY <3>2, <4>1
    <3>5. QED
      BY <1>3, <1>6, <3>2, <3>3, <3>4 DEF JobArmed
  <2>3. QED
    BY <2>1, <2>2
<1>10. ASSUME NEW u \in Ids \ stale', threads'[u] # None, user'[u] = "snoozed",
              threads'[u].followup > hour
       PROVE  \/ Armed(u, threads[u].followup)'
              \/ \E k \in Lambdas : Snoozing(lambda'[k], u) /\ lambda'[k].pc = "write"
  <2>1. CASE u = t
    BY <1>1, <1>5, <1>6, <2>1
  <2>2. CASE u # t
    <3>1. \/ Armed(u, threads[u].followup)
          \/ \E k \in Lambdas : Snoozing(lambda[k], u) /\ lambda[k].pc = "write"
      BY <1>3, <1>10 DEF SnoozeInv, RowsArmed
    <3>2. Armed(u, threads[u].followup) => Armed(u, threads[u].followup)'
      <4>1. Armed(u, threads[u].followup) => \A d : d = threads[u].followup => Armed(u, d)'
        BY <1>7, <2>2
      <4>2. QED
        BY <1>3, <4>1
    <3>3. \A k \in Lambdas : lambda[k].pc = "write" => lambda'[k].pc = "write"
      BY <1>4, <1>5
    <3>4. QED
      BY <1>6, <3>1, <3>2, <3>3
  <2>3. QED
    BY <2>1, <2>2
<1>11. ASSUME NEW k \in Lambdas, lambda'[k].job = "patch", lambda'[k].pc = "alarm"
       PROVE  lambda'[k].followup # 0
  BY <1>4, <1>5, <1>11 DEF SnoozeInv, JobsArmed
<1>12. QED
  BY <1>3, <1>9, <1>10, <1>11 DEF SnoozeInv, JobsArmed, RowsArmed

LEMMA PatchWriteSnooze ==
  ASSUME TypeInv, TypeInv', SnoozeInv, NEW i \in Lambdas, PatchWrite(i)
  PROVE  SnoozeInv'
<1>0. PICK t, h : t = lambda[i].thread /\ h = lambda[i].followup
  OBVIOUS
<1> DEFINE req == lambda[i]
<1>1. /\ req \in Patches /\ t \in Ids /\ h \in Hours /\ req.job = "patch" /\ req.pc = "write"
      /\ req.status \in Statuses /\ req.snap.at \in Times /\ h \in Nat
  <2>1. req \in Patches
    BY JobOf, JobKinds DEF PatchWrite
  <2>2. QED
    BY <1>0, <2>1 DEF PatchWrite, Patches, Hours, Row
<1>2. UNCHANGED <<hour, alarms, schedule>> /\ stale \subseteq stale' /\ Goto(i, Idle)
  BY DEF PatchWrite, clock
<1> DEFINE old == Updated(threads[t], req.status, req.snap.at)
           row == IF h = 0 THEN old ELSE [old EXCEPT !.followup = h]
<1>3. threads[t] \in Row \union {None}
  BY <1>1 DEF TypeInv, StateInv, TypeOK
<1>4. /\ old \in Row
      /\ threads[t] # None => old.followup = threads[t].followup
      /\ threads[t] = None => old.followup = 0
  <2>1. threads[t] = None => old.followup = 0
    BY DEF Updated
  <2>2. QED
    BY <1>1, <1>3, <2>1, UpdatedTyped
<1>5. /\ threads' = [threads EXCEPT ![t] = row]
      /\ user' = [user EXCEPT ![t] = IF h = 0 THEN req.status ELSE "snoozed"]
      /\ stale' = IF threads[t] # req.snap \/ Overlapped(i) THEN stale \union {t} ELSE stale
  BY <1>0 DEF PatchWrite
<1> HIDE DEF old
<1>6. row.followup = IF h = 0 THEN old.followup ELSE h
  BY <1>4 DEF Row
<1> HIDE DEF row
<1>7. /\ threads'[t] = row /\ user'[t] = (IF h = 0 THEN req.status ELSE "snoozed")
      /\ \A u \in Ids \ {t} : threads'[u] = threads[u] /\ user'[u] = user[u]
  BY <1>1, <1>5 DEF TypeInv, StateInv, TypeOK
<1>8. CASE h = 0
  <2>1. Quiet
    BY <1>1, <1>2, <1>4, <1>6, <1>7, <1>8 DEF Quiet, Statuses
  <2>2. \A u : ~Snoozing(lambda[i], u)
    BY <1>0, <1>8 DEF Snoozing
  <2>3. Idle.job # "patch"
    BY DEF Idle
  <2>4. QED
    BY <1>2, <2>1, <2>2, <2>3, ClockStays, SnoozeMoves
<1>9. CASE h # 0
  <2>1. lambda'[i] = Idle /\ \A k \in Lambdas \ {i} : lambda'[k] = lambda[k]
    BY <1>2, Went
  <2>2. Snoozing(lambda[i], t) /\ \A u : Snoozing(lambda[i], u) => u = t
    BY <1>0, <1>1, <1>9 DEF Snoozing
  <2>3. \A u : ~Snoozing(lambda'[i], u)
    BY <2>1 DEF Snoozing, Idle
  <2>4. \A k \in Lambdas \ {i} : Snoozing(lambda[k], t) => t \in stale'
    BY <1>0, <1>5, <1>9 DEF Overlapped, Snoozing
  <2>5. ASSUME NEW k \in Lambdas, NEW u \in Ids, Snoozing(lambda'[k], u) PROVE JobArmed(k, u)'
    <3>1. k # i /\ lambda'[k] = lambda[k]
      BY <2>1, <2>3, <2>5
    <3>2. JobArmed(k, u)
      BY <2>5, <3>1 DEF SnoozeInv, JobsArmed
    <3>3. CASE u = t
      BY <1>2, <2>4, <2>5, <3>1, <3>2, <3>3 DEF JobArmed, Armed
    <3>4. CASE u # t
      <4>1. \A j \in Lambdas : Snoozing(lambda[j], u) => Snoozing(lambda'[j], u)
        BY <2>1, <2>2, <3>4
      <4>2. QED
        BY <1>2, <3>1, <3>2, <4>1 DEF JobArmed, Armed
    <3>5. QED
      BY <3>3, <3>4
  <2>6. ASSUME NEW u \in Ids \ stale', threads'[u] # None, user'[u] = "snoozed",
               threads'[u].followup > hour
        PROVE  \/ Armed(u, threads[u].followup)'
               \/ \E k \in Lambdas : Snoozing(lambda'[k], u) /\ lambda'[k].pc = "write"
    <3>1. CASE u = t
      <4>1. t \notin stale /\ \A k \in Lambdas \ {i} : ~Snoozing(lambda[k], t)
        BY <1>2, <2>4, <2>6, <3>1
      <4>2. Armed(t, h)
        BY <1>0, <1>1, <2>2, <4>1 DEF SnoozeInv, JobsArmed, JobArmed
      <4>3. threads'[u].followup = h
        BY <1>6, <1>7, <1>9, <3>1
      <4>4. QED
        BY <1>2, <3>1, <4>2, <4>3 DEF Armed
    <3>2. CASE u # t
      <4>1. \/ Armed(u, threads[u].followup)
            \/ \E k \in Lambdas : Snoozing(lambda[k], u) /\ lambda[k].pc = "write"
        BY <1>2, <1>7, <2>6, <3>2 DEF SnoozeInv, RowsArmed
      <4>2. threads'[u] = threads[u]
        BY <1>7, <3>2
      <4>3. Armed(u, threads[u].followup) => Armed(u, threads[u].followup)'
        BY <1>2, <4>2 DEF Armed
      <4>4. QED
        BY <2>1, <2>2, <3>2, <4>1, <4>3
    <3>3. QED
      BY <3>1, <3>2
  <2>7. ASSUME NEW k \in Lambdas, lambda'[k].job = "patch", lambda'[k].pc = "alarm"
        PROVE  lambda'[k].followup # 0
    BY <2>1, <2>7 DEF SnoozeInv, JobsArmed, Idle
  <2>8. QED
    BY <1>2, <2>5, <2>6, <2>7 DEF SnoozeInv, JobsArmed, RowsArmed
<1>10. QED
  BY <1>8, <1>9

LEMMA ApiSnooze ==
  ASSUME TypeInv, TypeInv', SnoozeInv, NEW i \in Lambdas, Api(i)
  PROVE  SnoozeInv'
<1>1. \/ Plainly(i) \/ SetAlarm(i) \/ PatchWrite(i)
      \/ \E t \in Ids : \E s : \E h \in Hours : Patch(i, t, s, h)
  <2>1. 0 \in Hours
    BY ThreadsAssumption DEF Hours
  <2>2. QED
    BY <2>1 DEF Api, Plainly
<1>2. QED
  BY <1>1, PlainlySnooze, SetAlarmSnooze, PatchWriteSnooze, PatchSnooze

\* The alarms that go off were due.
LEMMA AlarmSnooze ==
  ASSUME TypeInv, TypeInv', SnoozeInv, NEW i \in Lambdas,
         Wake(i) \/ \E a \in alarms : Followup(i, a)
  PROVE  SnoozeInv'
<1>1. hour' = hour
  BY DEF Wake, Followup
<1>2. /\ ArmsStay /\ lambda[i].job \in {"idle", "wake"}
      /\ \E job : Goto(i, job) /\ job.job \in {"idle", "wake"}
  <2>1. ASSUME NEW a \in alarms, Followup(i, a)
        PROVE  ArmsStay /\ lambda[i].job \in {"idle", "wake"}
                 /\ \E job : Goto(i, job) /\ job.job \in {"idle", "wake"}
    <3>1. alarms' = alarms \ {a} /\ a.due <= hour /\ schedule' = schedule
      BY <2>1 DEF Followup
    <3>2. hour \in Nat /\ a.due \in Nat
      BY DEF TypeInv, StateInv, TypeOK, Hours
    <3>3. ArmsStay
      BY <3>1, <3>2 DEF ArmsStay, Armed
    <3>4. lambda[i] = Idle /\ Idle.job = "idle"
      BY <2>1 DEF Followup, Idle
    <3>5. QED
      BY <2>1, <3>3, <3>4, NewJobs
  <2>2. ASSUME Wake(i)
        PROVE  ArmsStay /\ lambda[i].job \in {"idle", "wake"}
                 /\ \E job : Goto(i, job) /\ job.job \in {"idle", "wake"}
    <3>1. alarms \subseteq alarms' /\ schedule' = schedule
      BY <2>2 DEF Wake
    <3>2. ArmsStay
      BY <3>1 DEF ArmsStay, Armed
    <3>3. Idle.job = "idle"
      BY DEF Idle
    <3>4. QED
      BY <2>2, <3>2, <3>3 DEF Wake
  <2>3. QED
    BY <2>1, <2>2
<1>3. Quiet
  <2>1. user' = user
    BY DEF Wake, Followup, past
  <2>2. CASE UNCHANGED <<threads, stale>>
    BY <2>1, <2>2, RowsQuiet
  <2>3. CASE UpdateThread(lambda[i].thread, lambda[i].snap, "active", Now) /\ Wake(i)
    <3>1. lambda[i].thread \in Ids /\ Now \in Times
      BY <2>3, WakeRewrites, NowIsATime DEF Ids, TypeInv
    <3>2. QED
      BY <2>1, <2>3, <3>1, UpdateQuiet DEF Statuses, TypeInv
  <2>4. QED
    BY <2>2, <2>3 DEF Wake, Followup, rows, past
<1>4. PICK job : Goto(i, job) /\ job.job \in {"idle", "wake"}
  BY <1>2
<1>5. \A t : ~Snoozing(lambda[i], t)
  BY <1>2, OthersSnooze
<1>6. QED
  BY <1>1, <1>2, <1>3, <1>4, <1>5, SnoozeMoves

\* The steps of nobody's.
LEMMA ClockSnooze ==
  ASSUME TypeInv, TypeInv', SnoozeInv,
         \/ \E m \in Mails : Arrive(m)
         \/ \E t \in Ids : Fire(t) \/ Expire(t)
         \/ \E c \in codes : ArchiveCode(c)
         \/ UNCHANGED vars
  PROVE  SnoozeInv'
<1>1. hour' = hour /\ lambda' = lambda /\ user' = user
  BY DEF Arrive, Fire, Expire, ArchiveCode, vars, clock, past
<1>2. ArmsStay
  <2>1. ASSUME NEW t \in Ids, Fire(t) PROVE ArmsStay
    <3>1. /\ schedule' = [schedule EXCEPT ![t] = 0] /\ alarms \subseteq alarms' /\ schedule[t] <= hour
          /\ schedule \in [Ids -> Nat] /\ hour \in Nat
      BY <2>1 DEF Fire, TypeInv, StateInv, TypeOK, Hours
    <3>2. \A u \in Ids : \A h \in Nat : h > hour /\ schedule[u] >= h => schedule'[u] = schedule[u]
      BY <3>1
    <3>3. QED
      BY <3>1, <3>2 DEF ArmsStay, Armed
  <2>2. CASE UNCHANGED <<alarms, schedule>>
    BY <2>2, ClockStays
  <2>3. QED
    BY <2>1, <2>2 DEF Arrive, Expire, ArchiveCode, vars, clock
<1>3. Quiet
  <2>1. CASE UNCHANGED <<threads, stale>>
    BY <1>1, <2>1, RowsQuiet
  <2>2. ASSUME NEW t \in Ids, Expire(t) PROVE Quiet
    BY <1>1, <2>2 DEF Expire, Quiet, TypeInv, StateInv, TypeOK
  <2>3. ASSUME NEW c \in codes, ArchiveCode(c) PROVE Quiet
    <3>1. c.thread \in Ids /\ c.row.at \in Times
      BY DEF Row, TypeInv, StateInv, TypeOK
    <3>2. QED
      BY <1>1, <2>3, <3>1, UpdateQuiet DEF ArchiveCode, Statuses, TypeInv
  <2>4. QED
    BY <2>1, <2>2, <2>3 DEF Arrive, Fire, vars, rows, past
<1>4. QED
  BY <1>1, <1>2, <1>3, SnoozeKept

LEMMA TickSnooze ==
  ASSUME TypeInv, TypeInv', SnoozeInv, Tick
  PROVE  SnoozeInv'
<1>1. /\ hour' = hour + 1 /\ UNCHANGED <<alarms, schedule, lambda, threads, user, stale>>
      /\ \A i \in Lambdas : lambda[i].job # "patch"
  BY DEF Tick, rows, past
<1>2. hour \in Nat /\ \A t \in Ids : threads[t] # None => threads[t].followup \in Nat
  BY DEF TypeInv, StateInv, TypeOK, Row, Hours
<1>3. JobsArmed'
  BY <1>1 DEF JobsArmed, Snoozing
<1>4. RowsArmed'
  BY <1>1, <1>2 DEF SnoozeInv, RowsArmed, Armed
<1>5. QED
  BY <1>3, <1>4 DEF SnoozeInv

LEMMA NextSnooze == TypeInv /\ TypeInv' /\ SnoozeInv /\ [Next]_vars => SnoozeInv'
BY PipelineSnooze, ApiSnooze, AlarmSnooze, ClockSnooze, TickSnooze DEF Next

LEMMA InitSnooze == Init => SnoozeInv
BY DEF Init, SnoozeInv, JobsArmed, RowsArmed, Idle, Snoozing

\* A snoozed thread comes back, whatever the order of requests, alarms and mails
\* (scheduler-client, followup-handler).
THEOREM SnoozesEnd == MCSpec => []SnoozeEnds
<1> DEFINE Inv == TypeInv /\ SnoozeInv
<1>1. MCInit => Inv
  BY InitType, InitSnooze DEF MCInit
<1>2. Inv /\ [MCNext]_<<part, vars>> => Inv'
  BY ScopedStep, NextType, NextSnooze
<1>3. Inv => SnoozeEnds
  <2> SUFFICES ASSUME Inv, NEW t \in Ids \ stale, threads[t] # None, user[t] = "snoozed",
                      threads[t].followup > hour
               PROVE  schedule[t] # 0 \/ \E a \in alarms : a.thread = t
    BY DEF SnoozeEnds, SnoozeHasAlarm
  <2>1. hour \in Nat /\ threads[t].followup \in Nat
    BY DEF TypeInv, StateInv, TypeOK, Row, Hours
  <2>2. \E h \in Nat : h > hour /\ Armed(t, h)
    <3>1. ASSUME NEW i \in Lambdas, Snoozing(lambda[i], t), lambda[i].pc = "write"
          PROVE  Armed(t, hour + 1)
      BY <3>1 DEF SnoozeInv, JobsArmed, JobArmed
    <3>2. Armed(t, threads[t].followup) \/ Armed(t, hour + 1)
      BY <3>1 DEF SnoozeInv, RowsArmed
    <3>3. QED
      BY <2>1, <3>2
  <2>3. QED
    BY <2>1, <2>2 DEF Armed
<1>4. QED
  BY <1>1, <1>2, <1>3, PTL DEF MCSpec

-----------------------------------------------------------------------------
(* What the user deleted or reported stays so: whoever revives a thread has  *)
(* read one that was not deleted, and the mail of a sender who is blocked    *)
(* has read that, or was in flight.                                          *)

Looking(job) == job.job = "mail" /\ job.pc \in {"match", "decide"}

Barred ==
  /\ \A t \in Ids : user[t] = "reported" => policy \in Blocks
  /\ policy \in Blocks => \A i \in Lambdas : Looking(lambda[i]) => lambda[i].mail \in late
  /\ \A i \in Lambdas : lambda[i].job = "wake" => lambda[i].snap.status = "archived"

\* A mail on the queue has no signal and no run; the mails that others deal with have
\* one; and no run has left a thread deleted.
Seen == {m \in Mails : signals[m] # None}
Met(job, queue, seen) ==
  /\ job.job = "mail" =>
       /\ IF job.by.kind = "queue" THEN job.mail \notin queue ELSE job.mail \in seen
       /\ job.by.kind = "sibling" => job.by.rest.todo \subseteq seen
       /\ job.pc \in {"save", "index"} => job.snap.status # "deleted"
  /\ job.job \in {"respond", "blocked", "clean"} => job.mail \in seen
  /\ job.job = "siblings" /\ job.todo # None => job.todo \subseteq seen

Decided ==
  /\ \A m \in waiting : m \notin Seen
  /\ \A i \in Lambdas : Met(lambda[i], waiting, Seen)
  /\ \A c \in codes : c.row.status # "deleted"

UserInv == Barred /\ (faults = 0 => Decided /\ UserDecisionHolds)

LEMMA BarredKept ==
  ASSUME TypeInv, Barred, NEW i \in Lambdas, NEW job, Goto(i, job), policy' = policy,
         late \subseteq late',
         \A t \in Ids : user'[t] = "reported" => user[t] = "reported" \/ policy \in Blocks,
         Looking(job) /\ policy \in Blocks => job.mail \in late,
         job.job = "wake" => job.snap.status = "archived"
  PROVE  Barred'
<1>1. lambda'[i] = job /\ \A k \in Lambdas \ {i} : lambda'[k] = lambda[k]
  BY Went
<1>2. QED
  BY <1>1 DEF Barred

\* What changes the policy catches whatever is in flight.
LEMMA BarredAnew ==
  ASSUME TypeInv, Barred, NEW i \in Lambdas, NEW job, Goto(i, job), NEW p, SavePolicy(p),
         \A t \in Ids : user'[t] = "reported" => p \in Blocks,
         lambda[i].job # "mail", ~Looking(job), job.job # "wake"
  PROVE  Barred'
<1>1. lambda'[i] = job /\ \A k \in Lambdas \ {i} : lambda'[k] = lambda[k]
  BY Went
<1>2. policy' = p /\ late' = late \union InFlight
  BY DEF SavePolicy
<1>3. \A k \in Lambdas : Looking(lambda'[k]) => k # i /\ lambda'[k].mail \in InFlight
  BY <1>1 DEF InFlight, Looking
<1>4. \A k \in Lambdas : lambda'[k].job = "wake" => lambda'[k] = lambda[k]
  BY <1>1
<1>5. QED
  BY <1>2, <1>3, <1>4 DEF Barred

LEMMA BarredStays ==
  ASSUME Barred, UNCHANGED <<policy, late, lambda, user>> PROVE Barred'
BY DEF Barred

LEMMA PipelineBarred ==
  ASSUME TypeInv, Barred, NEW i \in Lambdas, Pipeline(i)
  PROVE  Barred'
<1> DEFINE run == lambda[i]
<1>0. Idle.job = "idle" /\ ~Looking(Idle)
  BY DEF Idle, Looking
<1>1. ASSUME NEW m \in Mails, Receive(i, m) PROVE Barred'
  <2> DEFINE again == [Run(m, Direct) EXCEPT !.pc = "index", !.match = signals[m].thread,
                                             !.snap = threads[signals[m].thread]]
  <2>1. Goto(i, Run(m, Direct)) \/ Goto(i, again) \/ Goto(i, Idle)
    BY <1>1 DEF Receive
  <2>2. /\ Run(m, Direct).job = "mail" /\ again.job = "mail"
        /\ ~Looking(Run(m, Direct)) /\ ~Looking(again)
    BY DEF Run, Looking
  <2> HIDE DEF again
  <2>3. UNCHANGED <<policy, late, user>>
    BY <1>1 DEF Receive, rows, past
  <2>4. QED
    BY <1>0, <2>1, <2>2, <2>3, BarredKept
<1>2. ASSUME run.job = "mail"
      PROVE  /\ run \in Runs(Arrived)
             /\ After(run).job \in {"idle", "siblings", "repair"} /\ ~Looking(After(run))
  <2>1. run \in Runs(Arrived)
    BY <1>2, RunOf
  <2>2. run.by \in Causes(Arrived)
    BY <2>1 DEF Runs
  <2>3. After(run).job \in {"idle", "siblings", "repair"}
    BY <2>2, CauseKinds DEF After, Siblings, Repair, Idle, Lists
  <2>4. QED
    BY <2>1, <2>3 DEF Looking
<1>3. CASE ReadPolicy(i)
  <2> DEFINE next == [run EXCEPT !.policy = policy, !.pc = IF policy \in Blocks THEN "block" ELSE "match"]
  <2>1. Goto(i, next) /\ run.job = "mail" /\ UNCHANGED <<policy, late, user>>
    BY <1>3 DEF ReadPolicy, rows, past
  <2>2. next.job = "mail" /\ (policy \in Blocks => next.pc = "block")
    BY <1>2, <2>1 DEF Runs
  <2> HIDE DEF next
  <2>3. QED
    BY <2>1, <2>2, BarredKept DEF Looking
<1>4. CASE BlockSender(i) \/ Quarantine(i)
  <2>1. run.job = "mail" /\ (Goto(i, After(run)) \/ Goto(i, Idle)) /\ UNCHANGED <<policy, late, user>>
    BY <1>4 DEF BlockSender, Quarantine, Withhold
  <2>2. QED
    BY <1>0, <1>2, <2>1, BarredKept
<1>5. CASE Match(i) \/ MatchFails(i)
  <2>1. PICK match, snap, seen :
          \/ Goto(i, [run EXCEPT !.match = match, !.snap = snap, !.seen = seen, !.pc = "decide"])
          \/ Goto(i, [run EXCEPT !.pc = "decide"])
    BY <1>5 DEF Match, MatchFails
  <2> DEFINE one == [run EXCEPT !.match = match, !.snap = snap, !.seen = seen, !.pc = "decide"]
             two == [run EXCEPT !.pc = "decide"]
  <2>2. (Goto(i, one) \/ Goto(i, two)) /\ run.job = "mail" /\ run.pc = "match"
        /\ UNCHANGED <<policy, late, user>>
    BY <1>5, <2>1 DEF Match, MatchFails, rows, past
  <2>3. /\ one.job = "mail" /\ one.mail = run.mail
        /\ two.job = "mail" /\ two.mail = run.mail
    BY <1>2, <2>2 DEF Runs
  <2> HIDE DEF one, two
  <2>4. policy \in Blocks => run.mail \in late
    BY <2>2 DEF Barred, Looking
  <2>5. QED
    BY <2>2, <2>3, <2>4, BarredKept
<1>7. CASE WriteThread(i)
  <2> DEFINE t == Target(run)
  <2>1. PICK row \in Row, snap \in Row : WroteThread(i, t, row, snap)
    BY <1>7, Written
  <2>2. UNCHANGED <<policy, late>> /\ user' = [user EXCEPT ![t] = IF @ = "reported" THEN @ ELSE "none"]
    BY <1>7 DEF WriteThread, Target
  <2> HIDE DEF t
  <2> DEFINE next == [run EXCEPT !.pc = "save", !.match = t, !.snap = snap]
  <2>3. Goto(i, next) /\ run.job = "mail"
    BY <1>7, <2>1 DEF WriteThread, WroteThread
  <2>4. next.job = "mail" /\ next.pc = "save"
    BY <1>2, <2>3 DEF Runs
  <2>5. \A u \in Ids : user'[u] = "reported" => user[u] = "reported"
    BY <2>2 DEF TypeInv, StateInv, TypeOK
  <2> HIDE DEF next
  <2>6. QED
    BY <2>2, <2>3, <2>4, <2>5, BarredKept DEF Looking
<1>8. CASE SaveSignal(i)
  <2>1. Goto(i, [run EXCEPT !.pc = "index"]) /\ run.job = "mail" /\ UNCHANGED <<policy, late, user>>
    BY <1>8 DEF SaveSignal
  <2>2. [run EXCEPT !.pc = "index"].job = "mail" /\ [run EXCEPT !.pc = "index"].pc = "index"
    BY <1>2, <2>1 DEF Runs
  <2> DEFINE next == [run EXCEPT !.pc = "index"]
  <2>3. Goto(i, next) /\ next.job = "mail" /\ ~Looking(next)
    BY <2>1, <2>2 DEF Looking
  <2> HIDE DEF next
  <2>4. QED
    BY <2>1, <2>3, BarredKept
<1>9. CASE Index(i) \/ RunFails(i)
  <2>1. run.job = "mail" /\ (Goto(i, After(run)) \/ Goto(i, Idle)) /\ UNCHANGED <<policy, late, user>>
    BY <1>9 DEF Index, RunFails, rows, past
  <2>2. QED
    BY <1>0, <1>2, <2>1, BarredKept
<1>10. QED
  BY <1>1, <1>3, <1>4, <1>5, <1>7, <1>8, <1>9 DEF Pipeline

LEMMA ApiBarred ==
  ASSUME TypeInv, Barred, NEW i \in Lambdas, Api(i)
  PROVE  Barred'
<1> DEFINE req == lambda[i]
<1>1. CASE RecordBlock(i)
  <2>1. req \in Responses(Arrived) /\ req.job = "blocked"
    BY <1>1, JobOf, JobKinds DEF RecordBlock
  <2>2. req.as \in Blocks
    BY <2>1 DEF Responses
  <2>3. /\ SavePolicy(req.as) /\ UNCHANGED user
        /\ Goto(i, Siblings(req.mail, req.as, None))
    BY <1>1 DEF RecordBlock
  <2>4. Siblings(req.mail, req.as, None).job = "siblings"
    BY DEF Siblings
  <2>5. QED
    BY <2>1, <2>2, <2>3, <2>4, BarredAnew DEF Looking
<1>2. CASE Approve(i)
  <2>1. PICK by : Goto(i, Run(req.mail, by)) /\ req.job = "respond"
    BY <1>2 DEF Approve
  <2>2. Run(req.mail, by).job = "mail" /\ ~Looking(Run(req.mail, by))
    BY DEF Run, Looking
  <2>3. CASE req.policy = None
    <3>1. /\ SavePolicy("allow")
          /\ \A t \in Ids : user'[t] # "reported"
      BY <1>2, <2>3 DEF Approve
    <3>2. QED
      BY <2>1, <2>2, <3>1, BarredAnew
  <2>4. CASE req.policy # None
    <3>1. UNCHANGED <<policy, late, user>>
      BY <1>2, <2>4 DEF Approve
    <3>2. QED
      BY <2>1, <2>2, <3>1, BarredKept
  <2>5. QED
    BY <2>3, <2>4
<1>3. CASE ReportSender(i)
  <2>1. req \in Reports /\ req.job = "report"
    BY <1>3, JobOf, JobKinds DEF ReportSender
  <2> DEFINE next == [req EXCEPT !.pc = "write"]
  <2>2. SavePolicy("report_violation") /\ UNCHANGED user /\ Goto(i, next)
    BY <1>3 DEF ReportSender
  <2>3. next.job = "report"
    BY <2>1 DEF Reports
  <2> HIDE DEF next
  <2>4. QED
    BY <2>1, <2>2, <2>3, BarredAnew DEF Looking, Blocks
<1>4. ASSUME UNCHANGED <<policy, late>>,
             NEW job, Goto(i, job), job.job # "wake", job.job = "mail" => job.pc = "policy",
             \A t \in Ids : user'[t] = "reported" => user[t] = "reported" \/ policy \in Blocks
      PROVE  Barred'
  <2>1. ~Looking(job)
    BY <1>4 DEF Looking
  <2>2. QED
    BY <1>4, <2>1, BarredKept
<1>5. CASE Plainly(i) /\ ~RecordBlock(i) /\ ~Approve(i) /\ ~ReportSender(i)
  <2>1. UNCHANGED <<policy, late>>
    BY <1>5 DEF Plainly, Reprocess, Respond, Report, Dismiss, Block, ListSiblings, NextSibling,
           Clean, RepairRead, RepairWrite, ReportWrite, rows, past
  <2>2. \A t \in Ids : user'[t] = "reported" => user[t] = "reported" \/ policy \in Blocks
    <3>1. CASE ReportWrite(i)
      BY <3>1 DEF ReportWrite, TypeInv, StateInv, TypeOK
    <3>2. CASE ~ReportWrite(i)
      BY <1>5, <3>2 DEF Plainly, Reprocess, Respond, Report, Dismiss, Block, ListSiblings,
             NextSibling, Clean, RepairRead, RepairWrite, past
    <3>3. QED
      BY <3>1, <3>2
  <2>3. PICK job : Goto(i, job) /\ PlainJob(job)
    BY <1>5, PlainlyGoes
  <2>4. QED
    BY <1>4, <2>1, <2>2, <2>3 DEF PlainJob
<1>6. ASSUME NEW t \in Ids, NEW s, NEW h, Patch(i, t, s, h) PROVE Barred'
  <2>1. UNCHANGED <<policy, late, user>>
    BY <1>6 DEF Patch, rows, past
  <2>2. \E job : Goto(i, job) /\ job.job = "patch"
    BY <1>6, NewJobs
  <2>3. QED
    BY <1>4, <2>1, <2>2
<1>7. CASE SetAlarm(i) \/ PatchWrite(i)
  <2>1. req \in Patches
    BY <1>7, JobOf, JobKinds DEF SetAlarm, PatchWrite
  <2>2. [req EXCEPT !.pc = "write"].job = "patch" /\ Idle.job = "idle"
    BY <2>1 DEF Patches, Idle
  <2>3. UNCHANGED <<policy, late>> /\ (Goto(i, Idle) \/ Goto(i, [req EXCEPT !.pc = "write"]))
    BY <1>7 DEF SetAlarm, PatchWrite, rows, past
  <2>4. \A t \in Ids : user'[t] = "reported" => user[t] = "reported"
    <3>1. req.status # "reported"
      BY <2>1 DEF Patches, Statuses
    <3>2. QED
      BY <1>7, <3>1 DEF SetAlarm, PatchWrite, past, TypeInv, StateInv, TypeOK
  <2>5. QED
    BY <1>4, <2>2, <2>3, <2>4
<1>8. QED
  BY <1>1, <1>2, <1>3, <1>5, <1>6, <1>7 DEF Api, Plainly

LEMMA AlarmBarred ==
  ASSUME TypeInv, Barred, NEW i \in Lambdas, Wake(i) \/ \E a \in alarms : Followup(i, a)
  PROVE  Barred'
<1>1. UNCHANGED <<policy, late, user>>
  BY DEF Wake, Followup, rows, past
<1>2. \E job : Goto(i, job) /\ ~Looking(job) /\ (job.job = "wake" => job.snap.status = "archived")
  <2>1. CASE Goto(i, Idle)
    BY <2>1 DEF Idle, Looking
  <2>2. ASSUME NEW a \in alarms, Followup(i, a), ~Goto(i, Idle)
        PROVE  \E job : Goto(i, job) /\ ~Looking(job) /\ (job.job = "wake" => job.snap.status = "archived")
    <3> DEFINE job == [job |-> "wake", thread |-> a.thread, snap |-> threads[a.thread], due |-> a.due]
    <3>1. Goto(i, job) /\ job.job = "wake" /\ job.snap.status = "archived"
      BY <2>2 DEF Followup
    <3> HIDE DEF job
    <3>2. QED
      BY <3>1 DEF Looking
  <2>3. QED
    BY <2>1, <2>2 DEF Wake
<1>3. QED
  BY <1>1, <1>2, BarredKept

LEMMA NextBarred == TypeInv /\ Barred /\ [Next]_vars => Barred'
<1> SUFFICES ASSUME TypeInv, Barred, [Next]_vars PROVE Barred'
  OBVIOUS
<1>1. CASE \/ UNCHANGED vars \/ Tick
           \/ \E m \in Mails : Arrive(m)
           \/ \E t \in Ids : Fire(t) \/ Expire(t)
           \/ \E c \in codes : ArchiveCode(c)
  <2>1. UNCHANGED <<policy, late, lambda, user>>
    BY <1>1 DEF vars, Tick, Arrive, Fire, Expire, ArchiveCode, rows, past
  <2>2. QED
    BY <2>1, BarredStays
<1>2. QED
  BY <1>1, PipelineBarred, ApiBarred, AlarmBarred DEF Next

LEMMA MetGrows ==
  ASSUME NEW job, NEW queue, NEW seen, NEW less \in SUBSET queue, NEW more, seen \subseteq more,
         Met(job, queue, seen)
  PROVE  Met(job, less, more)
BY DEF Met

LEMMA DecidedKept ==
  ASSUME TypeInv, Decided, NEW i \in Lambdas, NEW job, Goto(i, job),
         waiting' \subseteq waiting, Seen \subseteq Seen', \A m \in waiting' : m \notin Seen',
         \A c \in codes' : c.row.status # "deleted", Met(job, waiting', Seen')
  PROVE  Decided'
<1>1. lambda'[i] = job /\ \A k \in Lambdas \ {i} : lambda'[k] = lambda[k]
  BY Went
<1>2. ASSUME NEW k \in Lambdas PROVE Met(lambda'[k], waiting', Seen')
  <2>1. Met(lambda[k], waiting, Seen)
    BY DEF Decided
  <2>2. Met(lambda[k], waiting', Seen')
    BY <2>1, MetGrows
  <2>3. QED
    BY <1>1, <2>2
<1>3. QED
  BY <1>2 DEF Decided

\* The queue, the signals and the messages are as before.
LEMMA DecidedPlain ==
  ASSUME TypeInv, Decided, NEW i \in Lambdas, NEW job, Goto(i, job),
         UNCHANGED <<waiting, signals, codes>>, Met(job, waiting, Seen)
  PROVE  Decided'
<1>1. Seen' = Seen
  BY DEF Seen
<1>2. QED
  BY <1>1, DecidedKept DEF Decided

LEMMA NowSeen ==
  ASSUME TypeInv, NEW m \in Mails, NEW row, row # None, signals' = [signals EXCEPT ![m] = row]
  PROVE  Seen' = Seen \union {m}
BY DEF Seen, TypeInv, StateInv, TypeOK

LEMMA PlainMet ==
  ASSUME NEW job, NEW queue, NEW seen,
         job.job \in {"idle", "repair", "patch", "report", "wake"}
  PROVE  Met(job, queue, seen)
BY DEF Met

LEMMA AfterMet ==
  ASSUME NEW arrived, NEW run \in Runs(arrived), NEW queue, NEW seen, Met(run, queue, seen)
  PROVE  Met(After(run), queue, seen) /\ Met(Idle, queue, seen)
<1>1. Met(Idle, queue, seen)
  BY PlainMet DEF Idle
<1>2. run.by \in Causes(arrived) /\ run.job = "mail"
  BY DEF Runs
<1>3. \A t : Met(Repair(t), queue, seen)
  BY PlainMet DEF Repair
<1>4. Met(Siblings(run.mail, "approve", None), queue, seen)
  BY DEF Met, Siblings
<1>5. run.by.kind = "sibling" => Met(run.by.rest, queue, seen)
  <2> SUFFICES ASSUME run.by.kind = "sibling" PROVE Met(run.by.rest, queue, seen)
    OBVIOUS
  <2>1. run.by.rest.job = "siblings" /\ run.by.rest.todo \subseteq seen
    BY <1>2, CauseKinds DEF Met, Lists
  <2>2. QED
    BY <2>1 DEF Met
<1>6. QED
  BY <1>1, <1>3, <1>4, <1>5 DEF After

\* A mail that is being dealt with is not on the queue.
LEMMA OffQueue ==
  ASSUME Decided, NEW i \in Lambdas, lambda[i].job = "mail"
  PROVE  lambda[i].mail \notin waiting
BY DEF Decided, Met

LEMMA WithholdDecided ==
  ASSUME TypeInv, Decided, NEW i \in Lambdas, lambda[i].job = "mail", NEW status, NEW why,
         [status |-> status, thread |-> None, why |-> why] # None,
         Withhold(i, lambda[i].mail, status, why)
  PROVE  Decided'
<1> DEFINE run == lambda[i]
<1>1. run \in Runs(Arrived) /\ run.mail \in Mails
  BY RunOf
<1>2. Seen' = Seen \union {run.mail} /\ UNCHANGED <<waiting, codes>>
  BY <1>1, NowSeen DEF Withhold
<1>3. Met(run, waiting', Seen')
  BY <1>2, MetGrows DEF Decided
<1>4. Met(After(run), waiting', Seen') /\ Met(Idle, waiting', Seen')
  BY <1>1, <1>3, AfterMet
<1>5. \A m \in waiting' : m \notin Seen'
  BY <1>2, OffQueue DEF Decided
<1>6. Goto(i, After(run)) \/ Goto(i, Idle)
  BY DEF Withhold
<1>7. \A c \in codes' : c.row.status # "deleted"
  BY <1>2 DEF Decided
<1>8. QED
  BY <1>2, <1>4, <1>5, <1>6, <1>7, DecidedKept

\* The row a run leaves is active or archived.
LEMMA WrittenLive ==
  ASSUME TypeInv, NEW i \in Lambdas, WriteThread(i)
  PROVE  \E snap : /\ Goto(i, [lambda[i] EXCEPT !.pc = "save", !.match = Target(lambda[i]), !.snap = snap])
                   /\ snap.status # "deleted"
<1> DEFINE run == lambda[i]
<1>1. PICK status \in {"active", "archived"} :
        IF run.match # None
        THEN /\ threads' = [threads EXCEPT ![run.match] =
                  LET row == Updated(threads[run.match], status, received[run.mail]) IN
                  IF run.snap.status = "archived" /\ status = "active" /\ run.snap.followup # 0
                  THEN [row EXCEPT !.followup = 0] ELSE row]
             /\ Goto(i, [run EXCEPT !.pc = "save", !.snap = threads'[run.match]])
        ELSE Goto(i, [run EXCEPT !.pc = "save", !.match = Id(run.mail),
                        !.snap = [status |-> status, at |-> received[run.mail], followup |-> 0,
                                  key |-> run.mail \in keyed, listed |-> TRUE]])
  BY DEF WriteThread
<1>2. run \in Runs(Arrived) /\ run.mail \in Mails
  BY RunOf DEF WriteThread
<1>3. CASE run.match # None
  <2>1. run.match \in Ids /\ received[run.mail] \in Times /\ status \in Statuses
    BY <1>2, <1>3 DEF Runs, Statuses, TypeInv, StateInv, TypeOK
  <2> DEFINE row == Updated(threads[run.match], status, received[run.mail])
  <2>2. row \in Row /\ row.status = status
    <3>1. threads[run.match] \in Row \union {None}
      BY <2>1 DEF TypeInv, StateInv, TypeOK
    <3>2. row \in Row
      BY <2>1, <3>1, UpdatedTyped
    <3>3. row.status = status
      BY <3>1 DEF Updated, Row
    <3>4. QED
      BY <3>2, <3>3
  <2>3. PICK new : threads' = [threads EXCEPT ![run.match] = new] /\ (new = row \/ new = [row EXCEPT !.followup = 0])
    BY <1>1, <1>3
  <2> HIDE DEF row
  <2>4. new.status = status
    BY <2>2, <2>3 DEF Row
  <2>5. threads'[run.match].status # "deleted"
    BY <2>1, <2>3, <2>4 DEF TypeInv, StateInv, TypeOK
  <2>6. [run EXCEPT !.pc = "save", !.snap = threads'[run.match]]
          = [run EXCEPT !.pc = "save", !.match = run.match, !.snap = threads'[run.match]]
    BY <1>2 DEF Runs
  <2>7. Goto(i, [run EXCEPT !.pc = "save", !.match = Target(run), !.snap = threads'[run.match]])
    BY <1>1, <1>3, <2>6 DEF Target
  <2>8. QED
    BY <2>5, <2>7
<1>4. CASE run.match = None
  <2> DEFINE row == [status |-> status, at |-> received[run.mail], followup |-> 0,
                     key |-> run.mail \in keyed, listed |-> TRUE]
  <2>1. row.status # "deleted"
    OBVIOUS
  <2>2. Goto(i, [run EXCEPT !.pc = "save", !.match = Target(run), !.snap = row])
    BY <1>1, <1>4 DEF Target
  <2> HIDE DEF row
  <2>3. QED
    BY <2>1, <2>2
<1>5. QED
  BY <1>3, <1>4

LEMMA RunMet ==
  ASSUME NEW run, NEW next, NEW queue, NEW seen, Met(run, queue, seen), run.job = "mail",
         next.job = "mail", next.by = run.by, next.mail = run.mail,
         next.pc \in {"save", "index"} => next.snap.status # "deleted"
  PROVE  Met(next, queue, seen)
BY DEF Met

LEMMA PipelineDecided ==
  ASSUME TypeInv, Decided, NEW i \in Lambdas, Pipeline(i), faults' = 0
  PROVE  Decided'
<1> DEFINE run == lambda[i]
<1>1. ASSUME NEW m \in Mails, Receive(i, m) PROVE Decided'
  <2>1. m \in waiting /\ signals[m] = None /\ waiting' = waiting \ {m} /\ UNCHANGED <<signals, codes>>
    BY <1>1 DEF Receive, Decided, Seen, rows
  <2>2. Goto(i, Run(m, Direct))
    BY <1>1, <2>1 DEF Receive
  <2>3. Seen' = Seen
    BY <2>1 DEF Seen
  <2>4. Met(Run(m, Direct), waiting', Seen')
    BY <2>1 DEF Met, Run, Direct
  <2>5. \A k \in waiting' : k \notin Seen'
    BY <2>1, <2>3 DEF Decided
  <2>6. \A c \in codes' : c.row.status # "deleted"
    BY <2>1 DEF Decided
  <2>7. waiting' \subseteq waiting /\ Seen \subseteq Seen'
    BY <2>1, <2>3
  <2>8. QED
    BY <2>2, <2>4, <2>5, <2>6, <2>7, DecidedKept
<1>2. ASSUME run.job = "mail" PROVE run \in Runs(Arrived) /\ Met(run, waiting, Seen) /\ run.mail \in Mails
  BY <1>2, RunOf DEF Decided
<1>3. CASE ReadPolicy(i)
  <2> DEFINE next == [run EXCEPT !.policy = policy, !.pc = IF policy \in Blocks THEN "block" ELSE "match"]
  <2>1. Goto(i, next) /\ run.job = "mail" /\ UNCHANGED <<waiting, signals, codes>>
    BY <1>3 DEF ReadPolicy, mail, rows
  <2>2. /\ next.job = "mail" /\ next.by = run.by /\ next.mail = run.mail
        /\ next.pc \in {"block", "match"}
    BY <1>2, <2>1 DEF Runs
  <2> HIDE DEF next
  <2>3. Met(next, waiting, Seen)
    BY <1>2, <2>1, <2>2, RunMet
  <2>4. QED
    BY <2>1, <2>3, DecidedPlain
<1>4. CASE BlockSender(i)
  <2>1. run.job = "mail" /\ run.pc = "block" /\ Withhold(i, run.mail, run.policy, "sender")
    BY <1>4 DEF BlockSender
  <2>2. run.policy \in Blocks
    BY <1>2, <2>1 DEF Runs
  <2>3. [status |-> run.policy, thread |-> None, why |-> "sender"] # None
    BY <2>2, NoneApart DEF Signal
  <2>4. QED
    BY <2>1, <2>3, WithholdDecided
<1>5. CASE Quarantine(i)
  <2>1. PICK status \in Held \union {"block_hidden"}, why \in {"rule", "sender"} :
          run.job = "mail" /\ Withhold(i, run.mail, status, why)
    BY <1>5 DEF Quarantine, Held
  <2>2. [status |-> status, thread |-> None, why |-> why] # None
    BY NoneApart DEF Signal, Blocks
  <2>3. QED
    BY <2>1, <2>2, WithholdDecided
<1>6. CASE Match(i)
  <2>1. PICK match, snap :
          Goto(i, [run EXCEPT !.match = match, !.snap = snap, !.seen = Keyed, !.pc = "decide"])
    BY <1>6 DEF Match
  <2> DEFINE next == [run EXCEPT !.match = match, !.snap = snap, !.seen = Keyed, !.pc = "decide"]
  <2>2. Goto(i, next) /\ run.job = "mail" /\ UNCHANGED <<waiting, signals, codes>>
    BY <1>6, <2>1 DEF Match, mail
  <2>3. /\ next.job = "mail" /\ next.by = run.by /\ next.mail = run.mail /\ next.pc = "decide"
    BY <1>2, <2>2 DEF Runs
  <2> HIDE DEF next
  <2>4. Met(next, waiting, Seen)
    BY <1>2, <2>2, <2>3, RunMet
  <2>5. QED
    BY <2>2, <2>4, DecidedPlain
<1>7. CASE WriteThread(i)
  <2>1. PICK snap : /\ Goto(i, [run EXCEPT !.pc = "save", !.match = Target(run), !.snap = snap])
                    /\ snap.status # "deleted"
    BY <1>7, WrittenLive
  <2> DEFINE next == [run EXCEPT !.pc = "save", !.match = Target(run), !.snap = snap]
  <2>2. Goto(i, next) /\ run.job = "mail" /\ UNCHANGED <<waiting, signals, codes>>
    BY <1>7, <2>1 DEF WriteThread, mail
  <2>3. /\ next.job = "mail" /\ next.by = run.by /\ next.mail = run.mail /\ next.snap = snap
    BY <1>2, <2>2 DEF Runs
  <2> HIDE DEF next
  <2>4. Met(next, waiting, Seen)
    BY <1>2, <2>1, <2>2, <2>3, RunMet
  <2>5. QED
    BY <2>2, <2>4, DecidedPlain
<1>8. CASE SaveSignal(i)
  <2> DEFINE next == [run EXCEPT !.pc = "index"]
             row == [status |-> "active", thread |-> run.match, why |-> "none"]
  <2>1. /\ Goto(i, next) /\ run.job = "mail" /\ run.pc = "save" /\ UNCHANGED <<waiting, codes>>
        /\ signals' = [signals EXCEPT ![run.mail] = row]
    BY <1>8 DEF SaveSignal, mail
  <2>2. /\ next.job = "mail" /\ next.by = run.by /\ next.mail = run.mail /\ next.snap = run.snap
    BY <1>2, <2>1 DEF Runs
  <2>3. row # None
    <3>1. run.match \in Ids \union {None}
      BY <1>2, <2>1 DEF Runs
    <3>2. row \in Signal
      BY <3>1 DEF Signal
    <3> HIDE DEF row
    <3>3. QED
      BY <3>2, NoneApart
  <2> HIDE DEF row
  <2>4. Seen' = Seen \union {run.mail}
    BY <1>2, <2>1, <2>3, NowSeen
  <2>5. Met(run, waiting', Seen')
    BY <1>2, <2>1, <2>4, MetGrows
  <2>6. run.snap.status # "deleted"
    BY <1>2, <2>1 DEF Met
  <2> HIDE DEF next
  <2>7. Met(next, waiting', Seen')
    BY <2>1, <2>2, <2>5, <2>6, RunMet
  <2>8. \A m \in waiting' : m \notin Seen'
    BY <2>1, <2>4, OffQueue DEF Decided
  <2>9. \A c \in codes' : c.row.status # "deleted"
    BY <2>1 DEF Decided
  <2>10. waiting' \subseteq waiting /\ Seen \subseteq Seen'
    BY <2>1, <2>4
  <2>11. QED
    BY <2>1, <2>7, <2>8, <2>9, <2>10, DecidedKept
<1>9. CASE Index(i)
  <2>1. /\ Goto(i, After(run)) /\ run.job = "mail" /\ run.pc = "index" /\ UNCHANGED <<waiting, signals>>
        /\ codes' = codes \/ codes' = codes \union {[thread |-> run.match, row |-> run.snap]}
    BY <1>9 DEF Index, mail
  <2>2. run.snap.status # "deleted" /\ Met(After(run), waiting, Seen)
    BY <1>2, <2>1, AfterMet DEF Met
  <2>3. \A c \in codes' : c.row.status # "deleted"
    <3> DEFINE new == [thread |-> run.match, row |-> run.snap]
    <3>1. new.row.status # "deleted" /\ (codes' = codes \/ codes' = codes \union {new})
      BY <2>1, <2>2
    <3> HIDE DEF new
    <3>2. QED
      BY <3>1 DEF Decided
  <2>4. Seen' = Seen /\ waiting' = waiting
    BY <2>1 DEF Seen
  <2>5. Met(After(run), waiting', Seen')
    BY <2>2, <2>4
  <2>6. \A m \in waiting' : m \notin Seen'
    BY <2>4 DEF Decided
  <2>7. QED
    BY <2>1, <2>3, <2>4, <2>5, <2>6, DecidedKept
<1>10. CASE MatchFails(i) \/ RunFails(i)
  <2>1. faults' = faults + 1 /\ faults \in Nat
    BY <1>10 DEF MatchFails, RunFails, Fault, TypeInv, StateInv, TypeOK
  <2>2. QED
    BY <2>1
<1>11. QED
  BY <1>1, <1>3, <1>4, <1>5, <1>6, <1>7, <1>8, <1>9, <1>10 DEF Pipeline

\* Requests name mails that have a signal.
LEMMA ApiDecided ==
  ASSUME TypeInv, Decided, NEW i \in Lambdas, Api(i)
  PROVE  Decided'
<1> DEFINE req == lambda[i]
<1>0. Met(req, waiting, Seen) /\ \A m : Met(Siblings(m, req.as, None), waiting, Seen)
  BY DEF Decided, Met, Siblings
<1>1. ASSUME NEW m \in Mails, NEW as \in Answers, Respond(i, m, as) PROVE Decided'
  <2> DEFINE job == [job |-> "respond", mail |-> m, as |-> as, policy |-> policy]
  <2>1. Goto(i, job) /\ UNCHANGED <<waiting, signals, codes>> /\ m \in Seen
    BY <1>1 DEF Respond, Withheld, Seen, mail, rows
  <2>2. job.job = "respond" /\ job.mail = m
    OBVIOUS
  <2> HIDE DEF job
  <2>3. Met(job, waiting, Seen)
    BY <2>1, <2>2 DEF Met
  <2>4. QED
    BY <2>1, <2>3, DecidedPlain
<1>2. ASSUME NEW m \in Mails, Reprocess(i, m) PROVE Decided'
  <2> DEFINE source == signals[m].thread
             job == [job |-> "clean", mail |-> m, source |-> source,
                     alone |-> source # None /\ On(source) = {m}]
  <2>1. Goto(i, job) /\ UNCHANGED <<waiting, signals, codes>> /\ m \in Seen
    BY <1>2 DEF Reprocess, Seen, mail, rows
  <2>2. job.job = "clean" /\ job.mail = m
    OBVIOUS
  <2> HIDE DEF job
  <2>3. Met(job, waiting, Seen)
    BY <2>1, <2>2 DEF Met
  <2>4. QED
    BY <2>1, <2>3, DecidedPlain
<1>3. ASSUME NEW m \in Mails, NEW row, row # None, m \in Seen, NEW job, Goto(i, job),
             Met(job, waiting, Seen),
             signals' = [signals EXCEPT ![m] = row], UNCHANGED <<waiting, codes>>
      PROVE  Decided'
  <2>1. Seen' = Seen
    BY <1>3, NowSeen
  <2>2. Met(job, waiting', Seen') /\ \A k \in waiting' : k \notin Seen'
    BY <1>3, <2>1 DEF Decided
  <2>3. \A c \in codes' : c.row.status # "deleted"
    BY <1>3 DEF Decided
  <2>4. QED
    BY <1>3, <2>1, <2>2, <2>3, DecidedKept
<1>4. CASE Dismiss(i) \/ Block(i)
  <2>1. req \in Responses(Arrived) /\ req.job = "respond"
    BY <1>4, JobOf, JobKinds DEF Dismiss, Block
  <2>2. req.mail \in Mails /\ req.mail \in Seen
    BY <1>0, <2>1 DEF Responses, Arrived, Met
  <2>3. PICK status \in Blocks : signals' = [signals EXCEPT ![req.mail] =
                                               [status |-> status, thread |-> None, why |-> "user"]]
    BY <1>4 DEF Dismiss, Block, Blocks
  <2>4. [status |-> status, thread |-> None, why |-> "user"] # None
    BY NoneApart DEF Signal
  <2>5. Met([req EXCEPT !.job = "blocked"], waiting, Seen)
    <3>1. [req EXCEPT !.job = "blocked"].job = "blocked" /\ [req EXCEPT !.job = "blocked"].mail = req.mail
      BY <2>1 DEF Responses
    <3>2. QED
      BY <2>2, <3>1 DEF Met
  <2>6. UNCHANGED <<waiting, codes>>
        /\ (Goto(i, [req EXCEPT !.job = "blocked"]) \/ Goto(i, Siblings(req.mail, req.as, None)))
    BY <1>4 DEF Dismiss, Block, mail
  <2>7. QED
    BY <1>0, <1>3, <2>2, <2>3, <2>4, <2>5, <2>6
<1>5. CASE RecordBlock(i)
  <2>1. Goto(i, Siblings(req.mail, req.as, None)) /\ UNCHANGED <<waiting, signals, codes>>
    BY <1>5 DEF RecordBlock, mail
  <2>2. QED
    BY <1>0, <2>1, DecidedPlain
<1>6. ASSUME NEW m \in Seen, NEW by, by.kind # "queue", by.kind = "sibling" => by.rest.todo \subseteq Seen
      PROVE  Met(Run(m, by), waiting, Seen)
  BY <1>6 DEF Met, Run
<1>7. CASE Approve(i)
  <2> DEFINE by == [kind |-> "approve", sender |-> req.policy = None]
  <2>1. Goto(i, Run(req.mail, by)) /\ UNCHANGED <<waiting, signals, codes>> /\ req.job = "respond"
    BY <1>7 DEF Approve, mail
  <2>2. by.kind = "approve" /\ req.mail \in Seen
    BY <1>0, <2>1 DEF Met
  <2> HIDE DEF by
  <2>3. Met(Run(req.mail, by), waiting, Seen)
    BY <1>6, <2>2
  <2>4. QED
    BY <2>1, <2>3, DecidedPlain
<1>8. CASE Clean(i)
  <2> DEFINE by == [kind |-> "reprocess", source |-> req.source]
  <2>1. Goto(i, Run(req.mail, by)) /\ UNCHANGED <<waiting, signals, codes>> /\ req.job = "clean"
    BY <1>8 DEF Clean, mail
  <2>2. by.kind = "reprocess" /\ req.mail \in Seen
    BY <1>0, <2>1 DEF Met
  <2> HIDE DEF by
  <2>3. Met(Run(req.mail, by), waiting, Seen)
    BY <1>6, <2>2
  <2>4. QED
    BY <2>1, <2>3, DecidedPlain
<1>9. CASE ListSiblings(i)
  <2>1. req.job = "siblings" /\ req \in Lists(Arrived)
    BY <1>9, JobOf, JobKinds DEF ListSiblings
  <2>a. PICK page \in SUBSET Visible(req.of) : Goto(i, [req EXCEPT !.todo = page])
    BY <1>9 DEF ListSiblings
  <2> DEFINE next == [req EXCEPT !.todo = page]
  <2>2. Goto(i, next) /\ UNCHANGED <<waiting, signals, codes>>
    BY <1>9, <2>a DEF ListSiblings, mail, rows
  <2>3. page \subseteq Seen
    BY DEF Seen, Visible
  <2>4. next.job = "siblings" /\ next.todo = page
    BY <2>1 DEF Lists
  <2> HIDE DEF next
  <2>5. Met(next, waiting, Seen)
    BY <2>3, <2>4 DEF Met
  <2>6. QED
    BY <2>2, <2>5, DecidedPlain
<1>10. CASE NextSibling(i)
  <2>1. req.job = "siblings" /\ req \in Lists(Arrived) /\ req.todo # None /\ UNCHANGED <<waiting, codes>>
    BY <1>10, JobOf, JobKinds DEF NextSibling, mail
  <2>2. req.todo \subseteq Seen
    BY <1>0, <2>1 DEF Met
  <2>3. CASE Goto(i, Idle) /\ UNCHANGED signals
    <3>1. Met(Idle, waiting, Seen)
      BY PlainMet DEF Idle
    <3>2. QED
      BY <2>1, <2>3, <3>1, DecidedPlain
  <2>4. ASSUME NEW m \in req.todo,
               LET rest == [req EXCEPT !.todo = @ \ {m}] IN
               \/ /\ Goto(i, Run(m, [kind |-> "sibling", rest |-> rest])) /\ UNCHANGED signals
               \/ /\ \E status \in Blocks : signals' = [signals EXCEPT ![m] =
                         [status |-> status, thread |-> None, why |-> "user"]]
                  /\ Goto(i, rest)
        PROVE  Decided'
    <3> DEFINE rest == [req EXCEPT !.todo = @ \ {m}]
               by == [kind |-> "sibling", rest |-> rest]
    <3>1. rest.job = "siblings" /\ rest.todo \subseteq Seen
      BY <2>1, <2>2 DEF Lists
    <3>2. Met(rest, waiting, Seen)
      <4> HIDE DEF rest
      <4>1. QED
        BY <3>1 DEF Met
    <3>3. m \in Seen /\ m \in Mails
      BY <2>2 DEF Seen
    <3>4. by.kind = "sibling" /\ by.rest = rest
      OBVIOUS
    <3>5. \/ Goto(i, Run(m, by)) /\ UNCHANGED signals
          \/ /\ \E status \in Blocks : signals' = [signals EXCEPT ![m] =
                     [status |-> status, thread |-> None, why |-> "user"]]
             /\ Goto(i, rest)
      BY <2>4
    <3> HIDE DEF rest, by
    <3>6. Met(Run(m, by), waiting, Seen)
      BY <1>6, <3>1, <3>3, <3>4
    <3>7. \A status \in Blocks : [status |-> status, thread |-> None, why |-> "user"] # None
      BY NoneApart DEF Signal
    <3>8. QED
      BY <1>3, <2>1, <3>2, <3>3, <3>5, <3>6, <3>7, DecidedPlain
  <2>5. req.as \in Answers
    BY <2>1 DEF Lists
  <2>6. \/ Goto(i, Idle) /\ UNCHANGED signals
        \/ \E m \in req.todo :
             LET rest == [req EXCEPT !.todo = @ \ {m}] IN
             \/ /\ Goto(i, Run(m, [kind |-> "sibling", rest |-> rest])) /\ UNCHANGED signals
             \/ /\ \E status \in Blocks : signals' = [signals EXCEPT ![m] =
                       [status |-> status, thread |-> None, why |-> "user"]]
                /\ Goto(i, rest)
    BY <1>10, <2>5 DEF NextSibling, Answers, Blocks
  <2>7. QED
    BY <2>3, <2>4, <2>6
<1>11. ASSUME NEW job, Goto(i, job), job.job \in {"idle", "repair", "patch", "report", "wake"},
              UNCHANGED <<waiting, signals, codes>>
       PROVE  Decided'
  BY <1>11, PlainMet, DecidedPlain
<1>12. CASE RepairRead(i) \/ RepairWrite(i)
  <2>1. req.job = "repair" /\ req \in Repairs(Arrived) /\ UNCHANGED <<waiting, signals, codes>>
    BY <1>12, JobOf, JobKinds DEF RepairRead, RepairWrite, mail, rows
  <2>2. PICK pc, snap, mails :
          Goto(i, Idle) \/ Goto(i, [req EXCEPT !.pc = pc, !.snap = snap]) \/ Goto(i, [req EXCEPT !.pc = pc, !.mails = mails])
    BY <1>12 DEF RepairRead, RepairWrite
  <2>3. [req EXCEPT !.pc = pc, !.snap = snap].job = "repair" /\ [req EXCEPT !.pc = pc, !.mails = mails].job = "repair"
    BY <2>1 DEF Repairs
  <2>4. Idle.job = "idle"
    BY DEF Idle
  <2>5. QED
    BY <1>11, <2>1, <2>2, <2>3, <2>4
<1>13. CASE SetAlarm(i) \/ PatchWrite(i)
  <2>1. req \in Patches
    BY <1>13, JobOf, JobKinds DEF SetAlarm, PatchWrite
  <2>2. [req EXCEPT !.pc = "write"].job = "patch" /\ Idle.job = "idle"
    BY <2>1 DEF Patches, Idle
  <2>3. UNCHANGED <<waiting, signals, codes>> /\ (Goto(i, Idle) \/ Goto(i, [req EXCEPT !.pc = "write"]))
    BY <1>13 DEF SetAlarm, PatchWrite, rows, mail
  <2>4. QED
    BY <1>11, <2>2, <2>3
<1>14. CASE ReportSender(i) \/ ReportWrite(i)
  <2>1. req \in Reports
    BY <1>14, JobOf, JobKinds DEF ReportSender, ReportWrite
  <2>2. [req EXCEPT !.pc = "write"].job = "report" /\ Idle.job = "idle"
    BY <2>1 DEF Reports, Idle
  <2>3. UNCHANGED <<waiting, signals, codes>> /\ (Goto(i, Idle) \/ Goto(i, [req EXCEPT !.pc = "write"]))
    BY <1>14 DEF ReportSender, ReportWrite, rows, mail
  <2>4. QED
    BY <1>11, <2>2, <2>3
<1>15. ASSUME NEW t \in Ids, NEW s, NEW h, Report(i, t) \/ Patch(i, t, s, h) PROVE Decided'
  <2>1. UNCHANGED <<waiting, signals, codes>>
    BY <1>15 DEF Report, Patch, rows, mail
  <2>2. \E job : Goto(i, job) /\ job.job \in {"report", "patch"}
    BY <1>15, NewJobs
  <2>3. QED
    BY <1>11, <2>1, <2>2
<1>16. QED
  BY <1>1, <1>2, <1>4, <1>5, <1>7, <1>8, <1>9, <1>10, <1>12, <1>13, <1>14, <1>15 DEF Api

LEMMA NextDecided == TypeInv /\ Decided /\ [Next]_vars /\ faults' = 0 => Decided'
<1> SUFFICES ASSUME TypeInv, Decided, [Next]_vars, faults' = 0 PROVE Decided'
  OBVIOUS
<1>1. ASSUME NEW m \in Mails, Arrive(m) PROVE Decided'
  <2>1. m \notin Arrived
    BY <1>1 DEF Arrive, Arrived
  <2>2. waiting' = waiting \union {m} /\ Seen' = Seen /\ UNCHANGED <<codes, lambda>>
    BY <1>1 DEF Arrive, Seen, rows
  <2>3. m \notin Seen
    BY <2>1 DEF Seen, TypeInv, StateInv
  <2>4. ASSUME NEW k \in Lambdas PROVE Met(lambda[k], waiting', Seen)
    <3>1. lambda[k].job = "mail" => lambda[k].mail # m
      BY <2>1, RunOf DEF Runs
    <3>2. QED
      BY <2>2, <3>1 DEF Decided, Met
  <2>5. QED
    BY <2>2, <2>3, <2>4 DEF Decided
<1>2. CASE \/ UNCHANGED vars \/ Tick
           \/ \E t \in Ids : Fire(t)
           \/ \E c \in codes : ArchiveCode(c)
  <2>1. UNCHANGED <<waiting, signals, lambda>> /\ codes' \subseteq codes
    BY <1>2 DEF vars, Tick, Fire, ArchiveCode, mail, rows
  <2>2. Seen' = Seen
    BY <2>1 DEF Seen
  <2>3. QED
    BY <2>1, <2>2 DEF Decided
<1>3. ASSUME NEW t \in Ids, Expire(t) PROVE Decided'
  BY <1>3 DEF Expire, Fault, TypeInv, StateInv, TypeOK
<1>4. ASSUME NEW i \in Lambdas, Wake(i) \/ \E a \in alarms : Followup(i, a) PROVE Decided'
  <2>1. UNCHANGED <<waiting, signals, codes>>
    BY <1>4 DEF Wake, Followup, rows, mail
  <2>2. \E job : Goto(i, job) /\ job.job \in {"idle", "wake"}
    <3>1. CASE Goto(i, Idle)
      BY <3>1 DEF Idle
    <3>2. ASSUME NEW a \in alarms, Followup(i, a), ~Goto(i, Idle)
          PROVE  \E job : Goto(i, job) /\ job.job \in {"idle", "wake"}
      <4> DEFINE job == [job |-> "wake", thread |-> a.thread, snap |-> threads[a.thread], due |-> a.due]
      <4>1. Goto(i, job) /\ job.job = "wake"
        BY <3>2 DEF Followup
      <4> HIDE DEF job
      <4>2. QED
        BY <4>1
    <3>3. QED
      BY <1>4, <3>1, <3>2 DEF Wake
  <2>3. QED
    BY <2>1, <2>2, PlainMet, DecidedPlain
<1>5. QED
  BY <1>1, <1>2, <1>3, <1>4, PipelineDecided, ApiDecided DEF Next

\* Who brings a thread back has read one that was there, or the mail was in
\* flight when its sender was blocked.
Heard ==
  /\ stale \subseteq stale' /\ late \subseteq late'
  /\ \A t \in Ids \ stale' :
       /\ threads'[t] # None /\ user'[t] \in {"deleted", "reported"}
       /\ threads'[t].status # "deleted"
       => \/ user'[t] = user[t] /\ threads[t] # None /\ threads[t].status # "deleted"
          \/ user'[t] = "reported" /\ late' # {}

LEMMA HeardStays ==
  ASSUME UserDecisionHolds, faults = 0, Heard
  PROVE  UserDecisionHolds'
BY DEF UserDecisionHolds, Heard

LEMMA RowsHeard ==
  ASSUME UNCHANGED threads, stale \subseteq stale', late \subseteq late',
         \A t \in Ids : user'[t] \in {"deleted", "reported"} => user'[t] = user[t]
  PROVE  Heard
BY DEF Heard

LEMMA UpdateHeard ==
  ASSUME StateInv, NEW t \in Ids, NEW snap \in Row, NEW status, NEW at,
         threads' = [threads EXCEPT ![t] = Updated(@, status, at)],
         stale \subseteq stale', t \in stale' \/ threads[t] = snap,
         status # "deleted" => snap.status # "deleted",
         late' = late,
         \A u \in Ids : user'[u] = user[u] \/ (u = t /\ status = "deleted")
  PROVE  Heard
<1>1. threads[t] \in Row \union {None}
  BY DEF StateInv, TypeOK
<1> DEFINE row == Updated(threads[t], status, at)
<1>2. row.status = status
  BY <1>1 DEF Updated, Row
<1>3. threads' = [threads EXCEPT ![t] = row]
  OBVIOUS
<1> HIDE DEF row
<1>4. \A u \in Ids : threads'[u] = IF u = t THEN row ELSE threads[u]
  BY <1>3 DEF StateInv, TypeOK
<1>5. snap # None
  BY NoneApart
<1>6. QED
  BY <1>2, <1>4, <1>5 DEF Heard

LEMMA PipelineHeard ==
  ASSUME TypeInv, Barred, NEW i \in Lambdas, Pipeline(i)
  PROVE  Heard
<1> DEFINE run == lambda[i]
<1>1. CASE WriteThread(i)
  <2> DEFINE t == Target(run)
  <2>1. PICK row \in Row, snap \in Row : WroteThread(i, t, row, snap)
    BY <1>1, Written
  <2>2. t \in Ids
    BY <1>1, Written
  <2>3. /\ run.job = "mail" /\ run.pc = "decide" /\ UNCHANGED late
        /\ user' = [user EXCEPT ![t] = IF @ = "reported" THEN @ ELSE "none"]
    BY <1>1 DEF WriteThread, Target
  <2>4. threads' = [threads EXCEPT ![t] = row] /\ stale \subseteq stale'
    BY <2>1 DEF WroteThread
  <2> HIDE DEF t
  <2>5. user'[t] = "reported" => user[t] = "reported"
    BY <2>2, <2>3 DEF TypeInv, StateInv, TypeOK
  <2>6. user'[t] = "reported" => late' # {}
    BY <2>2, <2>3, <2>5 DEF Barred, Looking
  <2>7. user'[t] # "deleted"
    BY <2>2, <2>3 DEF TypeInv, StateInv, TypeOK
  <2>8. \A u \in Ids \ {t} : threads'[u] = threads[u] /\ user'[u] = user[u]
    BY <2>2, <2>3, <2>4 DEF TypeInv, StateInv, TypeOK
  <2>9. QED
    BY <2>3, <2>4, <2>6, <2>7, <2>8 DEF Heard
<1>2. CASE Pipeline(i) /\ ~WriteThread(i)
  <2>1. UNCHANGED <<threads, user, late>> /\ stale \subseteq stale'
    <3>1. CASE \E m \in Mails : Receive(i, m)
      BY <3>1 DEF Receive, rows, past
    <3>2. CASE BlockSender(i) \/ Quarantine(i) \/ SaveSignal(i)
      BY <3>2 DEF BlockSender, Quarantine, Withhold, SaveSignal
    <3>3. CASE ReadPolicy(i) \/ Match(i) \/ MatchFails(i) \/ Index(i) \/ RunFails(i)
      BY <3>3 DEF ReadPolicy, Match, MatchFails, Index, RunFails, rows, past
    <3>4. QED
      BY <1>2, <3>1, <3>2, <3>3 DEF Pipeline
  <2>2. QED
    BY <2>1, RowsHeard
<1>3. QED
  BY <1>1, <1>2

LEMMA PatchHeard ==
  ASSUME TypeInv, NEW i \in Lambdas, PatchWrite(i)
  PROVE  Heard
<1> DEFINE req == lambda[i]
           t == req.thread
           old == Updated(threads[t], req.status, req.snap.at)
           row == IF req.followup = 0 THEN old ELSE [old EXCEPT !.followup = req.followup]
<1>1. req \in Patches
  BY JobOf, JobKinds DEF PatchWrite
<1>2. t \in Ids /\ req.snap \in Row /\ req.status \in Statuses
  BY <1>1 DEF Patches
<1>3. threads[t] \in Row \union {None}
  BY <1>2 DEF TypeInv, StateInv, TypeOK
<1>4. row.status = req.status
  BY <1>3 DEF Updated, Row
<1>5. /\ threads' = [threads EXCEPT ![t] = row] /\ UNCHANGED late /\ stale \subseteq stale'
      /\ user' = [user EXCEPT ![t] = IF req.followup = 0 THEN req.status ELSE "snoozed"]
  BY DEF PatchWrite
<1> HIDE DEF row
<1>6. \A u \in Ids \ {t} : threads'[u] = threads[u] /\ user'[u] = user[u]
  BY <1>2, <1>5 DEF TypeInv, StateInv, TypeOK
<1>7. user'[t] \in {"deleted", "reported"} => threads'[t].status = "deleted"
  BY <1>2, <1>4, <1>5 DEF TypeInv, StateInv, TypeOK, Statuses
<1>8. QED
  BY <1>5, <1>6, <1>7 DEF Heard

LEMMA ApiHeard ==
  ASSUME TypeInv, NEW i \in Lambdas, Api(i)
  PROVE  Heard
<1> DEFINE req == lambda[i]
<1>1. CASE RepairWrite(i)
  <2>1. req \in Repairs(Arrived) /\ req.pc = "write"
    BY <1>1, JobOf, JobKinds DEF RepairWrite
  <2> DEFINE at == MaxOf({0} \union {received[m] : m \in req.mails})
  <2>2. req.thread \in Ids /\ req.snap \in Row
    BY <2>1 DEF Repairs
  <2>3. CASE UNCHANGED threads
    <3>1. UNCHANGED <<late, user>> /\ stale \subseteq stale'
      BY <1>1 DEF RepairWrite
    <3>2. QED
      BY <2>3, <3>1, RowsHeard
  <2>4. CASE ~UNCHANGED threads
    <3>1. /\ threads' = [threads EXCEPT ![req.thread] = Updated(@, req.snap.status, at)]
          /\ stale \subseteq stale' /\ (req.thread \in stale' \/ threads[req.thread] = req.snap)
          /\ UNCHANGED <<late, user>>
      BY <1>1, <2>4 DEF RepairWrite
    <3> HIDE DEF at
    <3>2. QED
      BY <2>2, <3>1, UpdateHeard DEF TypeInv
  <2>5. QED
    BY <2>3, <2>4
<1>2. CASE ReportWrite(i)
  <2>1. req \in Reports
    BY <1>2, JobOf, JobKinds DEF ReportWrite
  <2>2. req.thread \in Ids /\ req.snap \in Row
    BY <2>1 DEF Reports
  <2>3. /\ threads' = [threads EXCEPT ![req.thread] = Updated(@, "deleted", req.snap.at)]
        /\ stale \subseteq stale' /\ (req.thread \in stale' \/ threads[req.thread] = req.snap)
        /\ UNCHANGED late
    BY <1>2 DEF ReportWrite, UpdateThread
  <2>4. \A u \in Ids : user'[u] = user[u] \/ u = req.thread
    BY <1>2 DEF ReportWrite, TypeInv, StateInv, TypeOK
  <2>5. QED
    BY <2>2, <2>3, <2>4, UpdateHeard DEF TypeInv
<1>3. CASE Approve(i)
  <2>1. UNCHANGED <<threads, stale>> /\ late \subseteq late'
    BY <1>3 DEF Approve, SavePolicy
  <2>2. \A t \in Ids : user'[t] \in {"deleted", "reported"} => user'[t] = user[t]
    BY <1>3 DEF Approve
  <2>3. QED
    BY <2>1, <2>2, RowsHeard
<1>4. CASE RecordBlock(i) \/ ReportSender(i)
  <2>1. UNCHANGED <<threads, stale, user>> /\ late \subseteq late'
    BY <1>4 DEF RecordBlock, ReportSender, SavePolicy
  <2>2. QED
    BY <2>1, RowsHeard
<1>5. CASE \/ \E m \in Mails : Reprocess(i, m) \/ \E as \in Answers : Respond(i, m, as)
           \/ \E t \in Ids : Report(i, t) \/ \E s, h : Patch(i, t, s, h)
           \/ ListSiblings(i) \/ RepairRead(i) \/ SetAlarm(i)
  <2>1. UNCHANGED <<threads, stale, user, late>>
    BY <1>5 DEF Reprocess, Respond, Report, Patch, ListSiblings, RepairRead, SetAlarm, rows, past
  <2>2. QED
    BY <2>1, RowsHeard
<1>6. CASE Dismiss(i) \/ Block(i) \/ NextSibling(i) \/ Clean(i)
  <2>1. UNCHANGED <<threads, user, late>> /\ stale \subseteq stale'
    BY <1>6 DEF Dismiss, Block, NextSibling, Clean
  <2>2. QED
    BY <2>1, RowsHeard
<1>7. QED
  BY <1>1, <1>2, <1>3, <1>4, <1>5, <1>6, PatchHeard DEF Api

LEMMA NextHeard ==
  ASSUME TypeInv, Barred, Decided, [Next]_vars, faults' = 0
  PROVE  Heard
<1>1. CASE \/ UNCHANGED vars \/ Tick
           \/ \E m \in Mails : Arrive(m)
           \/ \E t \in Ids : Fire(t)
  <2>1. UNCHANGED <<threads, stale, user, late>>
    BY <1>1 DEF vars, Tick, Arrive, Fire, rows, past
  <2>2. QED
    BY <2>1, RowsHeard
<1>2. ASSUME NEW t \in Ids, Expire(t) PROVE Heard
  BY <1>2 DEF Expire, Fault, TypeInv, StateInv, TypeOK
<1>3. ASSUME NEW c \in codes, ArchiveCode(c) PROVE Heard
  <2>1. c.thread \in Ids /\ c.row \in Row
    BY DEF TypeInv, StateInv, TypeOK
  <2>2. /\ threads' = [threads EXCEPT ![c.thread] = Updated(@, "archived", c.row.at)]
        /\ stale \subseteq stale' /\ (c.thread \in stale' \/ threads[c.thread] = c.row)
        /\ UNCHANGED <<late, user>>
    BY <1>3 DEF ArchiveCode, UpdateThread
  <2>3. c.row.status # "deleted"
    BY DEF Decided
  <2>4. QED
    BY <2>1, <2>2, <2>3, UpdateHeard DEF TypeInv
<1>4. ASSUME NEW i \in Lambdas, Wake(i) PROVE Heard
  <2> DEFINE job == lambda[i]
  <2>1. job \in Wakes /\ job.job = "wake"
    BY <1>4, JobOf, JobKinds DEF Wake
  <2>2. job.thread \in Ids /\ job.snap \in Row /\ job.snap.status = "archived"
    BY <2>1 DEF Wakes, Barred
  <2>3. UNCHANGED <<late, user>>
    BY <1>4 DEF Wake
  <2>4. CASE UNCHANGED <<threads, stale>>
    BY <2>3, <2>4, RowsHeard
  <2>5. CASE UpdateThread(job.thread, job.snap, "active", Now)
    <3>1. /\ threads' = [threads EXCEPT ![job.thread] = Updated(@, "active", Now)]
          /\ stale \subseteq stale' /\ (job.thread \in stale' \/ threads[job.thread] = job.snap)
      BY <2>5 DEF UpdateThread
    <3>2. QED
      BY <2>2, <2>3, <3>1, UpdateHeard DEF TypeInv
  <2>6. QED
    BY <1>4, <2>4, <2>5 DEF Wake
<1>5. ASSUME NEW i \in Lambdas, NEW a \in alarms, Followup(i, a) PROVE Heard
  <2>1. UNCHANGED <<threads, stale, user, late>>
    BY <1>5 DEF Followup, rows, past
  <2>2. QED
    BY <2>1, RowsHeard
<1>6. QED
  BY <1>1, <1>2, <1>3, <1>4, <1>5, PipelineHeard, ApiHeard DEF Next

\* Faults are counted.
LEMMA NextFaults == TypeInv /\ [Next]_vars /\ faults' = 0 => faults = 0
<1> SUFFICES ASSUME TypeInv, [Next]_vars, faults' = 0 PROVE faults = 0
  OBVIOUS
<1>1. Fault => faults = 0
  BY DEF Fault, TypeInv, StateInv, TypeOK
<1>2. CASE \/ UNCHANGED vars \/ Tick
           \/ \E m \in Mails : Arrive(m)
           \/ \E t \in Ids : Fire(t) \/ Expire(t)
           \/ \E c \in codes : ArchiveCode(c)
  BY <1>1, <1>2 DEF vars, Tick, Arrive, Fire, Expire, ArchiveCode
<1>3. ASSUME NEW i \in Lambdas, Pipeline(i) \/ Wake(i) \/ \E a \in alarms : Followup(i, a)
      PROVE  faults = 0
  BY <1>1, <1>3 DEF Pipeline, Receive, ReadPolicy, BlockSender, Quarantine, Withhold, Match,
         MatchFails, WriteThread, SaveSignal, Index, RunFails, Wake, Followup
<1>4. ASSUME NEW i \in Lambdas, Api(i) PROVE faults = 0
  BY <1>4 DEF Api, Respond, Reprocess, Report, Patch, Dismiss, Block, RecordBlock, Approve,
         ListSiblings, NextSibling, Clean, RepairRead, RepairWrite, SetAlarm, PatchWrite,
         ReportSender, ReportWrite
<1>5. QED
  BY <1>2, <1>3, <1>4 DEF Next

LEMMA NextUser == TypeInv /\ UserInv /\ [Next]_vars => UserInv'
<1> SUFFICES ASSUME TypeInv, UserInv, [Next]_vars PROVE UserInv'
  OBVIOUS
<1>1. Barred'
  BY NextBarred DEF UserInv
<1>2. faults' = 0 => faults = 0
  BY NextFaults
<1>3. faults' = 0 => Decided'
  BY <1>2, NextDecided DEF UserInv
<1>4. faults' = 0 => Heard
  BY <1>2, NextHeard DEF UserInv
<1>5. faults' = 0 => UserDecisionHolds'
  BY <1>2, <1>4, HeardStays DEF UserInv
<1>6. QED
  BY <1>1, <1>3, <1>5 DEF UserInv

LEMMA InitUser == Init => UserInv
BY DEF Init, UserInv, Barred, Decided, Seen, Met, Looking, Idle, UserDecisionHolds

\* What the user deleted or reported is not brought back by alarms, by handlers or
\* by the mail of a sender who is blocked (followup-handler, auth-handler,
\* threadsApi, incoming-email-processor).
THEOREM UserStaysHeard == MCSpec => []UserIsHeard
<1> DEFINE Inv == TypeInv /\ UserInv
<1>1. MCInit => Inv
  BY InitType, InitUser DEF MCInit
<1>2. Inv /\ [MCNext]_<<part, vars>> => Inv'
  BY ScopedStep, NextType, NextUser
<1>3. Inv => UserIsHeard
  BY DEF UserInv, UserIsHeard, UserDecisionHolds
<1>4. QED
  BY <1>1, <1>2, <1>3, PTL DEF MCSpec
=============================================================================
