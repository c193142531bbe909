--------------------------- MODULE ComponentsProofs -------------------------
(***************************************************************************)
(* What holds of the components that ProvedComponents puts side by side,   *)
(* for every value of its constants: of each, an inductive invariant       *)
(* (module Domains and the like say it of their own variables, here v1,    *)
(* v2, ... in the order of their declaration) and what follows from it.    *)
(***************************************************************************)
EXTENDS ProvedComponents, Sequences, FiniteSetTheorems, WellFoundedInduction, TLAPS

-----------------------------------------------------------------------------
(* Domains: v1 row, v2 clock, v3 ses, v4 dns, v5 lambda, v10 contested,      *)
(* v11 botched, v12 index.                                                   *)

\* There are five calls, the first of which makes the identity, which is the domain's.
LEMMA DoCallsAre ==
  /\ Len(Do!Calls) = 5
  /\ \A a, b : Do!Of(Do!Calls[1], a) = Do!Of(Do!Calls[1], b)
  /\ \A k \in 1 .. 5, a \in Accounts :
       Do!Of(Do!Calls[k], a) \in {Do!Calls[m] : m \in 1 .. 5} \X (Accounts \union {None})
<1>1. Len(Do!Calls) = 5
  BY DEF Do!Calls
<1>2. Do!Calls[1] = "identity"
  BY DEF Do!Calls
<1> QED
  BY <1>1, <1>2 DEF Do!Of

\* The state at the start: nobody has a row and nothing is under way.
LEMMA DoInitial == Do!Init => Do!Inductive
<1> SUFFICES ASSUME Do!Init PROVE Do!Inductive
  OBVIOUS
<1>1. Do!Registrants = {} /\ Do!Posting = {}
  BY DEF Do!Init, Do!Registrants, Do!Posting, Do!Idle
<1>2. Do!StateOK
  BY <1>1 DEF Do!Init, Do!StateOK, Do!TypeOK, Do!Idle, Do!Records, Do!Statuses
<1>5. Do!IndexFollows
  BY DEF Do!Init, Do!IndexFollows, Do!Indexed
<1>3. Do!OneClaimant
  BY <1>1 DEF Do!OneClaimant
<1>4. Do!InSequence
  BY <1>1 DEF Do!InSequence, Do!Init
<1> QED
  BY <1>2, <1>3, <1>4, <1>5 DEF Do!Inductive

\* Each step leaves rows and jobs of their shapes.
LEMMA DoTyped == Do!StateOK /\ Do!Next => Do!StateOK'
<1> SUFFICES ASSUME Do!StateOK, Do!Next PROVE Do!StateOK'
  OBVIOUS
<1> DEFINE Jobs == {Do!Idle} \union Do!Posts \union Do!CheckJobs
<1>0. /\ Do!Idle.op = "idle" /\ v5 \in [Lambdas -> Jobs] /\ v2 \in Nat
      /\ v1 \in [Accounts -> Do!Row \union {None}] /\ v4 \in Do!Records
      /\ \A i \in Lambdas : v5[i].op = "check" => v1[v5[i].account] # None /\ v5[i] \in Do!CheckJobs
      /\ \A i \in Lambdas : v5[i].op = "post" => v5[i] \in Do!Posts
      /\ \A a \in Accounts : v1[a] # None => v1[a] \in Do!Row /\ v1[a].created \in 1 .. v2
      /\ \A job \in Do!Posts : job.op = "post"
      /\ \A job \in Do!CheckJobs : job.op = "check" /\ job.account \in Accounts
  BY DEF Do!StateOK, Do!TypeOK, Do!Registrants, Do!Idle, Do!Posts, Do!CheckJobs
<1>a. ASSUME NEW i \in Lambdas, NEW job \in Jobs, Do!Goto(i, job), UNCHANGED <<v1, v2, v4>>,
             v3' \subseteq {Do!Calls[k] : k \in 1 .. Len(Do!Calls)} \X (Accounts \union {None}),
             job.op = "check" => v1[job.account] # None
      PROVE  Do!StateOK'
  <2>1. v5' = [v5 EXCEPT ![i] = job]
    BY <1>a DEF Do!Goto
  <2> QED
    BY <1>a, <1>0, <2>1 DEF Do!StateOK, Do!TypeOK, Do!Registrants
<1>b. ASSUME NEW a \in Accounts, NEW r \in Do!Row, v1' = [v1 EXCEPT ![a] = r], v2' \in Nat, v2' >= v2,
             r.created \in 1 .. v2', v3' = v3, v4' = v4, v5' \in [Lambdas -> Jobs],
             \A i \in Lambdas : v5'[i].op = "check" => v5'[i] = v5[i]
      PROVE  Do!StateOK'
  <2>1. r # None
    BY NoneAssumption
  <2>2. \A i \in Lambdas : v5'[i].op = "check" => v1'[v5'[i].account] # None /\ v5'[i].account \in Accounts
    BY <1>0, <1>b, <2>1
  <2>3. \A b \in Accounts : v1'[b] # None => v1'[b] \in Do!Row /\ v1'[b].created \in 1 .. v2'
    BY <1>0, <1>b
  <2> QED
    BY <1>b, <1>0, <2>2, <2>3 DEF Do!StateOK, Do!TypeOK, Do!Registrants
<1>c. v3 \subseteq {Do!Calls[k] : k \in 1 .. Len(Do!Calls)} \X (Accounts \union {None})
  BY DEF Do!StateOK, Do!TypeOK
<1>d. /\ Do!Idle \in Jobs /\ Do!Idle.op # "check"
      /\ \A job \in Do!Posts \union Do!CheckJobs : job \in Jobs
      /\ \A f \in Do!Records : Do!Health(f) \in Do!Flags
  BY DEF Do!Idle, Do!Health, Do!Flags
<1> HIDE DEF Jobs
<1>1. ASSUME NEW i \in Lambdas, NEW a \in Accounts, Do!CheckOwner(i, a)
      PROVE  Do!StateOK'
  <2>1. [op |-> "post", account |-> a, call |-> 1] \in Do!Posts
    BY DoCallsAre DEF Do!Posts
  <2> QED
    BY <1>1, <1>0, <1>a, <1>c, <1>d, <2>1 DEF Do!CheckOwner
<1>2. ASSUME NEW i \in Lambdas, NEW a \in Accounts, NEW by \in {"patch", "job"},
             Do!StartCheck(i, a, by)
      PROVE  Do!StateOK'
  <2>1. v1[a] # None /\ v1[a] \in Do!Row
    BY <1>2, <1>0 DEF Do!StartCheck, Do!Active
  <2>2. Do!Check(by, a) \in Do!CheckJobs /\ Do!Check(by, a).account = a
    BY <2>1, <1>0 DEF Do!Check, Do!CheckJobs, Do!Row
  <2> QED
    BY <1>2, <1>a, <1>c, <1>d, <2>1, <2>2 DEF Do!StartCheck
<1>3. ASSUME NEW i \in Lambdas, Do!CallSes(i)
      PROVE  Do!StateOK'
  <2> DEFINE call == IF v5[i].call = 1 /\ Do!Of(Do!Calls[v5[i].call], v5[i].account) \in v3
                     THEN Len(Do!Calls) + 1 ELSE v5[i].call + 1
  <2>1. v5[i] \in Do!Posts /\ v5[i].call \in 1 .. 5 /\ v5[i].account \in Accounts
    BY <1>3, <1>0, DoCallsAre DEF Do!CallSes, Do!Posts
  <2>2. call \in 1 .. 6
    BY <2>1, DoCallsAre
  <2>3. [v5[i] EXCEPT !.call = call] \in Do!Posts
    BY <2>1, <2>2, DoCallsAre DEF Do!Posts
  <2>4. Do!Goto(i, [v5[i] EXCEPT !.call = call])
    BY <1>3 DEF Do!CallSes, Do!NextCall
  <2>5. v3' \subseteq {Do!Calls[k] : k \in 1 .. Len(Do!Calls)} \X (Accounts \union {None})
    BY <1>3, <1>c, <2>1, DoCallsAre DEF Do!CallSes
  <2> QED
    BY <1>3, <1>0, <1>a, <1>d, <2>3, <2>4, <2>5 DEF Do!CallSes
<1>4. ASSUME NEW i \in Lambdas, Do!CallFails(i)
      PROVE  Do!StateOK'
  BY <1>4, <1>a, <1>c, <1>d DEF Do!CallFails
<1>5. ASSUME NEW i \in Lambdas, Do!CreateDomain(i)
      PROVE  Do!StateOK'
  <2>1. v5[i].account \in Accounts
    BY <1>5, <1>0 DEF Do!CreateDomain, Do!Posts
  <2>2. CASE Do!Active(v5[i].account)
    BY <1>5, <2>2, <1>a, <1>c, <1>d DEF Do!CreateDomain
  <2>3. CASE ~Do!Active(v5[i].account)
    <3> DEFINE r == [status |-> "active", created |-> v2', setup |-> Do!Unknown,
                     health |-> Do!Unknown, failing |-> FALSE]
    <3>1. v2' = v2 + 1 /\ v1' = [v1 EXCEPT ![v5[i].account] = r]
      BY <1>5, <2>3 DEF Do!CreateDomain
    <3>2. r \in Do!Row /\ r.created = v2'
      BY <3>1, <1>0 DEF Do!Row, Do!Flags, Do!Unknown
    <3>3. v5' \in [Lambdas -> Jobs] /\ \A j \in Lambdas : v5'[j].op = "check" => v5'[j] = v5[j]
      BY <1>5, <1>0, <1>d DEF Do!CreateDomain, Do!Goto
    <3>4. v3' = v3 /\ v4' = v4
      BY <1>5 DEF Do!CreateDomain
    <3>5. v2' \in Nat /\ v2' >= v2 /\ r.created \in 1 .. v2'
      BY <3>1, <3>2, <1>0
    <3> HIDE DEF r
    <3> QED
      BY <1>b, <2>1, <3>1, <3>2, <3>3, <3>4, <3>5
  <2> QED
    BY <2>2, <2>3
<1>6. ASSUME NEW a \in Accounts, Do!DeleteDomain(a)
      PROVE  Do!StateOK'
  <2>1. v1[a] \in Do!Row /\ v1[a].created \in 1 .. v2
    BY <1>6, <1>0 DEF Do!DeleteDomain, Do!Active
  <2>2. [v1[a] EXCEPT !.status = "deleted"] \in Do!Row /\ [v1[a] EXCEPT !.status = "deleted"].created = v1[a].created
    BY <2>1 DEF Do!Row
  <2>3. v2' = v2 /\ v3' = v3 /\ v4' = v4 /\ v5' = v5
    BY <1>6 DEF Do!DeleteDomain, Do!work
  <2>4. v1' = [v1 EXCEPT ![a] = [v1[a] EXCEPT !.status = "deleted"]]
    BY <1>6, <1>0 DEF Do!DeleteDomain
  <2>5. v5' \in [Lambdas -> Jobs] /\ v2' \in Nat /\ v2' >= v2
    BY <2>3, <1>0
  <2> QED
    BY <1>b, <2>1, <2>2, <2>3, <2>4, <2>5
<1>7. ASSUME NEW records \in Do!Records, Do!ChangeDns(records)
      PROVE  Do!StateOK'
  BY <1>7 DEF Do!ChangeDns, Do!work, Do!StateOK, Do!TypeOK, Do!Registrants
<1>8. ASSUME NEW i \in Lambdas, Do!ResolveDns(i)
      PROVE  Do!StateOK'
  <2>1. v5[i] \in Do!CheckJobs
    BY <1>8, <1>0 DEF Do!ResolveDns
  <2>2. [v5[i] EXCEPT !.pc = "health", !.found = v4] \in Do!CheckJobs
    BY <2>1, <1>0 DEF Do!CheckJobs
  <2>3. [v5[i] EXCEPT !.pc = "health", !.found = v4].account = v5[i].account
    BY <2>1 DEF Do!CheckJobs
  <2> QED
    BY <1>8, <1>0, <1>a, <1>c, <1>d, <2>1, <2>2, <2>3 DEF Do!ResolveDns
<1>9. ASSUME NEW i \in Lambdas, Do!SaveHealth(i)
      PROVE  Do!StateOK'
  <2> DEFINE r == Do!WithHealth(v1[v5[i].account], v5[i].found)
  <2>1. v5[i] \in Do!CheckJobs /\ v5[i].account \in Accounts /\ v5[i].found \in Do!Records
    BY <1>9, <1>0 DEF Do!SaveHealth, Do!CheckJobs
  <2>2. v1[v5[i].account] \in Do!Row /\ v1[v5[i].account].created \in 1 .. v2
    BY <2>1, <1>0 DEF Do!SaveHealth
  <2>3. r \in Do!Row /\ r.created = v1[v5[i].account].created
    <3>1. Do!Health(v5[i].found) \in Do!Flags
      BY <2>1, <1>d
    <3>2. ("failing" \in {v5[i].found.mx, v5[i].found.others}) \in BOOLEAN
      OBVIOUS
    <3> QED
      BY <2>2, <3>1, <3>2 DEF Do!WithHealth, Do!Row
  <2>4. v1' = [v1 EXCEPT ![v5[i].account] = r]
    BY <1>9, <2>1, <1>0 DEF Do!SaveHealth
  <2>5. [v5[i] EXCEPT !.pc = "setup"] \in Do!CheckJobs
    BY <2>1 DEF Do!CheckJobs
  <2>6. v5' \in [Lambdas -> Jobs] /\ \A j \in Lambdas : j # i => v5'[j] = v5[j]
    BY <1>9, <1>0, <1>d, <2>5 DEF Do!SaveHealth, Do!Goto
  <2>7. v5'[i] = Do!Idle \/ v5'[i] = [v5[i] EXCEPT !.pc = "setup"]
    BY <1>9, <1>0 DEF Do!SaveHealth, Do!Goto
  <2>8. [v5[i] EXCEPT !.pc = "setup"].account = v5[i].account
    BY <2>1 DEF Do!CheckJobs
  <2>9. \A b \in Accounts : v1[b] # None => v1'[b] # None
    BY <2>3, <2>4, NoneAssumption, <1>0
  <2>10. \A j \in Lambdas : v5'[j].op = "check" => v1'[v5'[j].account] # None /\ v5'[j].account \in Accounts
    <3>1. \A j \in Lambdas : v5[j].op = "check" => v5[j].account \in Accounts /\ v1'[v5[j].account] # None
      BY <2>9, <1>0
    <3>2. v5[i].op = "check"
      BY <1>9 DEF Do!SaveHealth
    <3> QED
      BY <2>6, <2>7, <2>8, <3>1, <3>2, <1>d
  <2>11. \A b \in Accounts : v1'[b] # None => v1'[b] \in Do!Row /\ v1'[b].created \in 1 .. v2
    BY <2>1, <2>2, <2>3, <2>4, <1>0
  <2>12. v1' \in [Accounts -> Do!Row \union {None}]
    BY <2>3, <2>4, <1>0
  <2>13. UNCHANGED <<v2, v3, v4>>
    BY <1>9 DEF Do!SaveHealth
  <2> HIDE DEF r
  <2> QED
    BY <1>0, <1>c, <2>6, <2>10, <2>11, <2>12, <2>13 DEF Do!StateOK, Do!TypeOK, Do!Registrants, Jobs
<1>10. ASSUME NEW i \in Lambdas, Do!SaveSetup(i)
      PROVE  Do!StateOK'
  <2> DEFINE r == Do!WithSetup(v1[v5[i].account], v5[i].found)
  <2>1. v5[i] \in Do!CheckJobs /\ v5[i].account \in Accounts /\ v5[i].found \in Do!Records
    BY <1>10, <1>0 DEF Do!SaveSetup, Do!CheckJobs
  <2>2. v1[v5[i].account] \in Do!Row /\ v1[v5[i].account].created \in 1 .. v2
    BY <2>1, <1>0
  <2>3. r \in Do!Row /\ r.created = v1[v5[i].account].created
    BY <2>1, <2>2, <1>d DEF Do!WithSetup, Do!Row
  <2>4. v1' = [v1 EXCEPT ![v5[i].account] = r]
    BY <1>10, <2>1, <1>0 DEF Do!SaveSetup
  <2>5. v5' \in [Lambdas -> Jobs] /\ \A j \in Lambdas : v5'[j].op = "check" => v5'[j] = v5[j]
    BY <1>10, <1>0, <1>d DEF Do!SaveSetup, Do!Goto
  <2>6. v2' = v2 /\ v3' = v3 /\ v4' = v4 /\ v2' \in Nat /\ v2' >= v2
    BY <1>10, <1>0 DEF Do!SaveSetup
  <2> HIDE DEF r
  <2> QED
    BY <1>b, <2>1, <2>2, <2>3, <2>4, <2>5, <2>6
<1>11. ASSUME NEW a \in Accounts, Do!CatchUp(a)
      PROVE  Do!StateOK'
  BY <1>11 DEF Do!CatchUp, Do!work, Do!StateOK, Do!TypeOK, Do!Registrants
<1> QED
  BY <1>1, <1>2, <1>3, <1>4, <1>5, <1>6, <1>7, <1>8, <1>9, <1>10, <1>11 DEF Do!Next, Do!StartPatch, Do!StartJob

\* Rows and posts come from nowhere but the POST that is let through and the row it makes.
LEMMA DoClaims ==
  ASSUME Do!StateOK, Do!StateOK', Do!Next
  PROVE  \/ \E i \in Lambdas, a \in Accounts : Do!CheckOwner(i, a) /\ Do!MayRegister(a)
         \/ /\ Do!Registrants' \subseteq Do!Registrants \union {v5[i].account : i \in Do!Posting}
            /\ \A i \in Do!Posting' : i \in Do!Posting /\ v5'[i].account = v5[i].account
            /\ (~v10' => ~v10)
<1>0. /\ v5 \in [Lambdas -> {Do!Idle} \union Do!Posts \union Do!CheckJobs] /\ Do!Idle.op = "idle"
      /\ v1 \in [Accounts -> Do!Row \union {None}]
      /\ \A i \in Lambdas : v5[i].op = "check" => v5[i].account \in Do!Registrants /\ v5[i] \in Do!CheckJobs
      /\ \A i \in Lambdas : v5[i].op = "post" => v5[i] \in Do!Posts
  BY DEF Do!StateOK, Do!Idle, Do!Posts, Do!CheckJobs
<1> USE DEF Do!Registrants, Do!Posting, Do!Goto
<1>1. ASSUME NEW i \in Lambdas, NEW a \in Accounts, Do!CheckOwner(i, a), ~Do!MayRegister(a)
      PROVE  /\ Do!Registrants' = Do!Registrants
             /\ \A j \in Do!Posting' : j \in Do!Posting /\ v5'[j].account = v5[j].account
             /\ (~v10' => ~v10)
  <2>1. v5' = [v5 EXCEPT ![i] = Do!Idle]
    BY <1>1 DEF Do!CheckOwner
  <2>2. (~v10' => ~v10)
    BY <1>1 DEF Do!CheckOwner
  <2>3. v1' = v1
    BY <1>1 DEF Do!CheckOwner
  <2> QED
    BY <2>1, <2>2, <2>3, <1>0
<1>2. ASSUME NEW i \in Lambdas, NEW a \in Accounts, NEW by \in {"patch", "job"}, Do!StartCheck(i, a, by)
      PROVE  /\ Do!Registrants' = Do!Registrants
             /\ \A j \in Do!Posting' : j \in Do!Posting /\ v5'[j].account = v5[j].account
             /\ v10' = v10
  BY <1>2, <1>0 DEF Do!StartCheck, Do!Check
<1>3. ASSUME NEW i \in Lambdas, Do!CallSes(i)
      PROVE  /\ Do!Registrants' = Do!Registrants
             /\ \A j \in Do!Posting' : j \in Do!Posting /\ v5'[j].account = v5[j].account
             /\ v10' = v10
  <2>1. v5[i] \in Do!Posts
    BY <1>3, <1>0 DEF Do!CallSes
  <2>2. \A k : [v5[i] EXCEPT !.call = k].account = v5[i].account
    BY <2>1 DEF Do!Posts
  <2>3. v5'[i].account = v5[i].account
    BY <1>3, <1>0, <2>2 DEF Do!CallSes
  <2> QED
    BY <1>3, <1>0, <2>3 DEF Do!CallSes
<1>4. ASSUME NEW i \in Lambdas, Do!CallFails(i)
      PROVE  /\ Do!Registrants' = Do!Registrants
             /\ \A j \in Do!Posting' : j \in Do!Posting /\ v5'[j].account = v5[j].account
             /\ v10' = v10
  BY <1>4, <1>0 DEF Do!CallFails
<1>5. ASSUME NEW i \in Lambdas, Do!CreateDomain(i)
      PROVE  /\ Do!Registrants' \subseteq Do!Registrants \union {v5[j].account : j \in Do!Posting}
             /\ \A j \in Do!Posting' : j \in Do!Posting /\ v5'[j].account = v5[j].account
             /\ v10' = v10
  BY <1>5, <1>0 DEF Do!CreateDomain
<1>6. ASSUME NEW a \in Accounts, Do!DeleteDomain(a)
      PROVE  /\ Do!Registrants' \subseteq Do!Registrants
             /\ v5' = v5 /\ v10' = v10
  BY <1>6, <1>0 DEF Do!DeleteDomain, Do!work, Do!Active
<1>7. ASSUME NEW records \in Do!Records, Do!ChangeDns(records)
      PROVE  /\ Do!Registrants' = Do!Registrants
             /\ v5' = v5 /\ v10' = v10
  BY <1>7 DEF Do!ChangeDns, Do!work
<1>9. ASSUME NEW a \in Accounts, Do!CatchUp(a)
      PROVE  /\ Do!Registrants' = Do!Registrants
             /\ v5' = v5 /\ v10' = v10
  BY <1>9 DEF Do!CatchUp, Do!work
<1>8. ASSUME NEW i \in Lambdas, Do!ResolveDns(i) \/ Do!SaveHealth(i) \/ Do!SaveSetup(i)
      PROVE  /\ Do!Registrants' \subseteq Do!Registrants
             /\ \A j \in Do!Posting' : j \in Do!Posting /\ v5'[j].account = v5[j].account
             /\ v10' = v10
  <2>1. v5[i].op = "check" /\ v5[i] \in Do!CheckJobs /\ v5[i].account \in Do!Registrants
    BY <1>8, <1>0 DEF Do!ResolveDns, Do!SaveHealth, Do!SaveSetup
  <2>2. /\ [v5[i] EXCEPT !.pc = "setup"].op = "check"
        /\ [v5[i] EXCEPT !.pc = "health", !.found = v4].op = "check"
    BY <2>1 DEF Do!CheckJobs
  <2>3. v5'[i].op # "post" /\ \A j \in Lambdas : j # i => v5'[j] = v5[j]
    <3>1. \/ v5' = [v5 EXCEPT ![i] = Do!Idle]
          \/ v5' = [v5 EXCEPT ![i] = [v5[i] EXCEPT !.pc = "setup"]]
          \/ v5' = [v5 EXCEPT ![i] = [v5[i] EXCEPT !.pc = "health", !.found = v4]]
      BY <1>8 DEF Do!ResolveDns, Do!SaveHealth, Do!SaveSetup
    <3>2. \A job : v5' = [v5 EXCEPT ![i] = job] => v5'[i] = job /\ \A j \in Lambdas : j # i => v5'[j] = v5[j]
      BY <1>0
    <3> QED
      BY <3>1, <3>2, <2>2, <1>0
  <2>4. \A a \in Accounts : a # v5[i].account => v1'[a] = v1[a]
    BY <1>8, <1>0 DEF Do!ResolveDns, Do!SaveHealth, Do!SaveSetup
  <2>5. v10' = v10
    BY <1>8 DEF Do!ResolveDns, Do!SaveHealth, Do!SaveSetup
  <2> QED
    BY <2>1, <2>3, <2>4, <2>5
<1> QED
  <2> HIDE DEF Do!Registrants, Do!Posting, Do!Goto
  <2> DEFINE Kept == /\ Do!Registrants' \subseteq Do!Registrants \union {v5[j].account : j \in Do!Posting}
                     /\ \A j \in Do!Posting' : j \in Do!Posting /\ v5'[j].account = v5[j].account
                     /\ (~v10' => ~v10)
  <2>1. \A i \in Lambdas, a \in Accounts : Do!CheckOwner(i, a) /\ ~Do!MayRegister(a) => Kept
    BY <1>1
  <2>2. \A i \in Lambdas, a \in Accounts : Do!StartPatch(i, a) \/ Do!StartJob(i, a) => Kept
    BY <1>2 DEF Do!StartPatch, Do!StartJob
  <2>3. v5' = v5 => \A j \in Do!Posting' : j \in Do!Posting /\ v5'[j].account = v5[j].account
    BY DEF Do!Posting
  <2>4. \A a \in Accounts : Do!DeleteDomain(a) => Kept
    BY <1>6, <2>3
  <2>5. \A records \in Do!Records : Do!ChangeDns(records) => Kept
    BY <1>7, <2>3
  <2>6. \A a \in Accounts : Do!CatchUp(a) => Kept
    BY <1>9, <2>3
  <2> QED
    BY <1>3, <1>4, <1>5, <1>8, <2>1, <2>2, <2>4, <2>5, <2>6 DEF Do!Next

\* No row is removed: what is written over one is a row.
LEMMA DoRowsStay == Do!StateOK /\ Do!Next => Do!Registrants \subseteq Do!Registrants'
<1> SUFFICES ASSUME Do!StateOK, Do!Next PROVE Do!Registrants \subseteq Do!Registrants'
  OBVIOUS
<1>0. /\ v1 \in [Accounts -> Do!Row \union {None}]
      /\ \A i \in Lambdas : v5[i].op = "check" => v5[i].account \in Do!Registrants
      /\ \A a \in Do!Registrants : v1[a] \in Do!Row
  BY DEF Do!StateOK, Do!TypeOK
<1>1. ASSUME NEW a \in Accounts, NEW r, r # None, v1' = [v1 EXCEPT ![a] = r]
      PROVE  Do!Registrants \subseteq Do!Registrants'
  BY <1>0, <1>1 DEF Do!Registrants
<1>2. ASSUME NEW r \in Do!Row, NEW f
      PROVE  /\ Do!WithHealth(r, f) # None
             /\ Do!WithSetup(r, f) # None
             /\ [r EXCEPT !.status = "deleted"] # None
  <2>1. [r EXCEPT !.status = "deleted"] \in Do!Row
    BY DEF Do!Row
  <2>2. Do!Health(f) \in Do!Flags /\ ("failing" \in {f.mx, f.others}) \in BOOLEAN
    BY DEF Do!Health, Do!Flags
  <2>3. Do!WithHealth(r, f) \in Do!Row
    BY <2>2 DEF Do!WithHealth, Do!Row
  <2>4. Do!WithSetup(r, f) \in Do!Row
    BY <2>2 DEF Do!WithSetup, Do!Row
  <2> QED
    BY <2>1, <2>3, <2>4, NoneAssumption
<1>3. ASSUME NEW i \in Lambdas, Do!CreateDomain(i)
      PROVE  Do!Registrants \subseteq Do!Registrants'
  <2>1. \A a \in Accounts : a # v5[i].account => v1'[a] = v1[a]
    BY <1>3, <1>0 DEF Do!CreateDomain
  <2>2. CASE Do!Active(v5[i].account)
    BY <1>3, <2>2 DEF Do!CreateDomain, Do!Registrants
  <2>3. CASE ~Do!Active(v5[i].account)
    <3> DEFINE r == [status |-> "active", created |-> v2', setup |-> Do!Unknown,
                     health |-> Do!Unknown, failing |-> FALSE]
    <3>1. v2' = v2 + 1 /\ v1' = [v1 EXCEPT ![v5[i].account] = r]
      BY <1>3, <2>3 DEF Do!CreateDomain
    <3>2. r \in Do!Row
      BY <3>1 DEF Do!StateOK, Do!Row, Do!Flags, Do!Unknown
    <3>3. r # None
      BY <3>2, NoneAssumption
    <3> HIDE DEF r
    <3> QED
      BY <1>0, <3>1, <3>3 DEF Do!Registrants
  <2> QED
    BY <2>2, <2>3
<1>4. ASSUME NEW a \in Accounts, Do!DeleteDomain(a)
      PROVE  Do!Registrants \subseteq Do!Registrants'
  <2>1. v1' = [v1 EXCEPT ![a] = [v1[a] EXCEPT !.status = "deleted"]] /\ v1[a] # None
    BY <1>4, <1>0 DEF Do!DeleteDomain, Do!Active
  <2>2. [v1[a] EXCEPT !.status = "deleted"] # None
    BY <2>1, <1>0, <1>2 DEF Do!Registrants
  <2> QED
    BY <1>1, <2>1, <2>2
<1>5. ASSUME NEW i \in Lambdas, Do!SaveHealth(i) \/ Do!SaveSetup(i)
      PROVE  Do!Registrants \subseteq Do!Registrants'
  <2> DEFINE a == v5[i].account
  <2>1. a \in Do!Registrants /\ a \in Accounts /\ v1[a] \in Do!Row
    BY <1>5, <1>0 DEF Do!SaveHealth, Do!SaveSetup, Do!Registrants
  <2>2. \/ v1' = [v1 EXCEPT ![a] = Do!WithHealth(v1[a], v5[i].found)]
        \/ v1' = [v1 EXCEPT ![a] = Do!WithSetup(v1[a], v5[i].found)]
    BY <1>5, <1>0, <2>1 DEF Do!SaveHealth, Do!SaveSetup
  <2> QED
    BY <2>1, <2>2, <1>1, <1>2
<1>6. v1' = v1 => Do!Registrants' = Do!Registrants
  BY DEF Do!Registrants
<1>7. \A i \in Lambdas :
        /\ \A a \in Accounts : Do!CheckOwner(i, a) \/ Do!StartPatch(i, a) \/ Do!StartJob(i, a) => v1' = v1
        /\ Do!CallSes(i) \/ Do!CallFails(i) \/ Do!ResolveDns(i) => v1' = v1
  BY DEF Do!CheckOwner, Do!StartPatch, Do!StartJob, Do!StartCheck, Do!CallSes, Do!CallFails, Do!ResolveDns
<1>8. /\ \A records \in Do!Records : Do!ChangeDns(records) => v1' = v1
      /\ \A a \in Accounts : Do!CatchUp(a) => v1' = v1
  BY DEF Do!ChangeDns, Do!CatchUp
<1> QED
  BY <1>3, <1>4, <1>5, <1>6, <1>7, <1>8 DEF Do!Next

\* gsi1 has the rows as they were at one time or another, and no row is removed.
LEMMA DoIndexFollows == Do!StateOK /\ Do!IndexFollows /\ Do!Next => Do!IndexFollows'
<1> SUFFICES ASSUME Do!StateOK, Do!IndexFollows, Do!Next PROVE Do!IndexFollows'
  OBVIOUS
<1>1. Do!Registrants \subseteq Do!Registrants'
  BY DoRowsStay
<1>2. ASSUME NEW a \in Accounts, Do!CatchUp(a)
      PROVE  Do!IndexFollows'
  <2>1. v12' = [v12 EXCEPT ![a] = v1[a].created] /\ a \in Do!Registrants
    BY <1>2 DEF Do!CatchUp, Do!Registrants
  <2>2. v1[a].created \in Nat
    BY <2>1 DEF Do!StateOK, Do!TypeOK, Do!Row
  <2> QED
    BY <1>1, <2>1, <2>2 DEF Do!IndexFollows, Do!Indexed
<1>3. v12' = v12 => Do!IndexFollows'
  BY <1>1 DEF Do!IndexFollows, Do!Indexed
<1>4. \A i \in Lambdas :
        /\ \A a \in Accounts : Do!CheckOwner(i, a) \/ Do!StartPatch(i, a) \/ Do!StartJob(i, a) => v12' = v12
        /\ Do!CallSes(i) \/ Do!CallFails(i) \/ Do!CreateDomain(i) => v12' = v12
        /\ Do!ResolveDns(i) \/ Do!SaveHealth(i) \/ Do!SaveSetup(i) => v12' = v12
  BY DEF Do!CheckOwner, Do!StartPatch, Do!StartJob, Do!StartCheck, Do!CallSes, Do!CallFails,
         Do!CreateDomain, Do!ResolveDns, Do!SaveHealth, Do!SaveSetup
<1>5. /\ \A a \in Accounts : Do!DeleteDomain(a) => v12' = v12
      /\ \A records \in Do!Records : Do!ChangeDns(records) => v12' = v12
  BY DEF Do!DeleteDomain, Do!ChangeDns
<1> QED
  BY <1>2, <1>3, <1>4, <1>5 DEF Do!Next

\* With one account's rows alone, and all of them in gsi1, a POST that is let through is that
\* account's.
LEMMA DoOwnerIs ==
  ASSUME Do!StateOK, Do!IndexFollows, NEW a \in Accounts, Do!MayRegister(a), ~Do!Overlooked(a),
         \A b, c \in Do!Registrants : b = c
  PROVE  Do!Registrants \subseteq {a}
<1> SUFFICES ASSUME NEW b \in Do!Registrants, b # a PROVE FALSE
  OBVIOUS
<1>1. b \in Do!Indexed /\ b \in Accounts /\ v12[b] \in Nat
  BY DEF Do!Overlooked, Do!Registrants, Do!IndexFollows, Do!Indexed
<1>2. \A c \in Do!Indexed : c = b
  BY DEF Do!IndexFollows
<1>3. \A c \in Do!Indexed : v12[b] <= v12[c]
  BY <1>1, <1>2
<1>4. Do!Owner \in Do!Indexed
  BY <1>1, <1>3 DEF Do!Owner
<1>5. Do!Owner # None
  BY <1>1, <1>2, <1>4, NoneAssumption
<1> QED
  BY <1>2, <1>4, <1>5 DEF Do!MayRegister

LEMMA DoOneClaimant ==
  Do!StateOK /\ Do!StateOK' /\ Do!IndexFollows /\ Do!OneClaimant /\ Do!Next => Do!OneClaimant'
<1> SUFFICES ASSUME Do!StateOK, Do!StateOK', Do!IndexFollows, Do!OneClaimant, Do!Next, ~v10'
             PROVE  \A a, b \in Do!Registrants' \union {v5'[i].account : i \in Do!Posting'} : a = b
  BY DEF Do!OneClaimant
<1>1. ASSUME NEW i \in Lambdas, NEW a \in Accounts, Do!CheckOwner(i, a), Do!MayRegister(a)
      PROVE  \A b \in Do!Registrants' \union {v5'[j].account : j \in Do!Posting'} : b = a
  <2>1. ~v10 /\ ~Do!Overlooked(a) /\ \A j \in Do!Posting : v5[j].account = a
    BY <1>1 DEF Do!CheckOwner
  <2>2. Do!Registrants \subseteq {a}
    BY <1>1, <2>1, DoOwnerIs DEF Do!OneClaimant
  <2>3. Do!Registrants' = Do!Registrants
    BY <1>1 DEF Do!CheckOwner, Do!Registrants
  <2>4. \A j \in Do!Posting' : v5'[j].account = a
    BY <1>1, <2>1 DEF Do!CheckOwner, Do!Goto, Do!Posting, Do!StateOK
  <2> QED
    BY <2>2, <2>3, <2>4
<1>2. CASE /\ Do!Registrants' \subseteq Do!Registrants \union {v5[i].account : i \in Do!Posting}
           /\ \A i \in Do!Posting' : i \in Do!Posting /\ v5'[i].account = v5[i].account
           /\ (~v10' => ~v10)
  BY <1>2 DEF Do!OneClaimant
<1> QED
  BY <1>1, <1>2, DoClaims

\* A POST alone makes its calls one after the other and leaves all of SES to the row it makes.
LEMMA DoInSequence ==
  Do!StateOK /\ Do!StateOK' /\ Do!IndexFollows /\ Do!OneClaimant /\ Do!InSequence /\ Do!Next => Do!InSequence'
<1> SUFFICES ASSUME Do!StateOK, Do!StateOK', Do!IndexFollows, Do!OneClaimant, Do!InSequence, Do!Next, ~v11'
             PROVE  Do!InSequence'
  BY DEF Do!InSequence
<1> DEFINE Item(k, a) == Do!Of(Do!Calls[k], a)
           Made(i) == IF v5[i].call = 1 THEN Item(1, None) \in v3 => Do!Complete(v5[i].account)
                      ELSE \A k \in 1 .. 5 : k < v5[i].call => Item(k, v5[i].account) \in v3
<1>0. /\ v5 \in [Lambdas -> {Do!Idle} \union Do!Posts \union Do!CheckJobs] /\ Do!Idle.op = "idle"
      /\ v1 \in [Accounts -> Do!Row \union {None}]
      /\ \A i \in Lambdas : v5[i].op = "post" => v5[i] \in Do!Posts
      /\ \A i \in Do!Posting : i \in Lambdas /\ v5[i].op = "post"
  BY DEF Do!StateOK, Do!Idle, Do!Posts, Do!CheckJobs, Do!Posting
<1>1. ASSUME ~v11
      PROVE  /\ ~v10
             /\ \A i, j \in Do!Posting : i = j
             /\ \A a \in Do!Registrants : Do!Complete(a)
             /\ \A i \in Do!Posting : Made(i)
             /\ Item(1, None) \in v3 => Do!Registrants # {} \/ \E i \in Do!Posting : v5[i].call > 1
  BY <1>1, DoCallsAre DEF Do!InSequence
<1>2. ASSUME ~v10',
             \A i, j \in Do!Posting' : i = j,
             \A a \in Do!Registrants' : Do!Complete(a)',
             \A i \in Do!Posting' : Made(i)',
             Item(1, None) \in v3' => Do!Registrants' # {} \/ \E i \in Do!Posting' : v5'[i].call > 1
      PROVE  Do!InSequence'
  BY <1>2, DoCallsAre DEF Do!InSequence
<1> HIDE DEF Made, Item
\* Rows, posts and SES as before.
<1>3. ASSUME ~v11, v10' = v10, v3' = v3, Do!Registrants' = Do!Registrants, Do!Posting' = Do!Posting,
             \A i \in Do!Posting : v5'[i] = v5[i]
      PROVE  Do!InSequence'
  <2>1. \A a : Do!Complete(a)' = Do!Complete(a)
    BY <1>3 DEF Do!Complete
  <2>2. \A i \in Do!Posting : Made(i)'
    BY <1>1, <1>3, <2>1 DEF Made, Item
  <2> QED
    BY <1>1, <1>2, <1>3, <2>1, <2>2
<1>4. ASSUME NEW i \in Lambdas, NEW a \in Accounts, Do!CheckOwner(i, a), Do!MayRegister(a)
      PROVE  Do!InSequence'
  <2>1. ~v11 /\ Do!Posting = {} /\ ~Do!Overlooked(a) /\ v3' = v3 /\ v1' = v1
    BY <1>4 DEF Do!CheckOwner
  <2>2. v5' = [v5 EXCEPT ![i] = [op |-> "post", account |-> a, call |-> 1]] /\ ~v10'
    BY <1>4, <1>1, <2>1 DEF Do!CheckOwner, Do!Goto
  <2>3. Do!Registrants' = Do!Registrants /\ \A b : Do!Complete(b)' = Do!Complete(b)
    BY <2>1 DEF Do!Registrants, Do!Complete
  <2>4. Do!Posting' = {i} /\ v5'[i].call = 1 /\ v5'[i].account = a
    BY <2>1, <2>2, <1>0 DEF Do!Posting
  <2>5. Do!Registrants \subseteq {a}
    BY <1>1, <1>4, <2>1, DoOwnerIs DEF Do!OneClaimant
  <2>6. Item(1, None) \in v3 => Do!Registrants # {}
    BY <1>1, <2>1
  <2>7. Item(1, None)' = Item(1, None)
    BY DEF Item
  <2>8. Item(1, None) \in v3 => Do!Complete(a)
    BY <1>1, <2>1, <2>5, <2>6
  <2>9. Made(i)'
    BY <2>1, <2>3, <2>4, <2>7, <2>8 DEF Made
  <2> QED
    BY <1>1, <1>2, <2>1, <2>2, <2>3, <2>4, <2>6, <2>7, <2>9
<1>6. ASSUME NEW i \in Lambdas, Do!CallSes(i)
      PROVE  Do!InSequence'
  <2> DEFINE a == v5[i].account
             k == v5[i].call
             next == IF k = 1 /\ Item(k, a) \in v3 THEN 6 ELSE k + 1
  <2>1. ~v11 /\ ~v10' /\ Do!Registrants' = Do!Registrants /\ i \in Do!Posting
    BY <1>6, <1>1 DEF Do!CallSes, Do!Registrants, Do!Posting
  <2>2. v5[i] \in Do!Posts /\ k \in 1 .. 5 /\ a \in Accounts
    BY <1>6, <1>0, DoCallsAre DEF Do!CallSes, Do!Posts
  <2>3. v3' = v3 \union {Item(k, a)}
    BY <1>6 DEF Do!CallSes, Item
  <2>4. v5' = [v5 EXCEPT ![i] = [v5[i] EXCEPT !.call = next]]
    BY <1>6, DoCallsAre DEF Do!CallSes, Item, Do!NextCall, Do!Goto
  <2>5. v5'[i].op = "post" /\ v5'[i].account = a /\ v5'[i].call = next
    BY <2>2, <2>4, <1>0 DEF Do!Posts
  <2>6. Do!Posting = {i} /\ Made(i)
    BY <1>1, <2>1
  <2>7. Do!Posting' = {i}
    BY <2>4, <2>5, <2>6, <1>0 DEF Do!Posting
  <2>8. next \in 2 .. 6
    BY <2>2
  <2>9. \A b : Do!Complete(b) => Do!Complete(b)'
    BY <2>3 DEF Do!Complete
  <2>10. \A m \in 1 .. 5 : m < next => Item(m, a) \in v3'
    <3>1. CASE k = 1 /\ Item(k, a) \in v3
      <4>1. Item(1, None) = Item(k, a)
        BY <3>1, DoCallsAre DEF Item
      <4> QED
        BY <3>1, <4>1, <2>3, <2>6, DoCallsAre DEF Made, Do!Complete, Item
    <3>2. CASE ~(k = 1 /\ Item(k, a) \in v3)
      <4>1. \A m \in 1 .. 5 : m < k => Item(m, a) \in v3
        BY <2>2, <2>6 DEF Made
      <4> QED
        BY <3>2, <4>1, <2>2, <2>3
    <3> QED
      BY <3>1, <3>2
  <2>11. Made(i)'
    <3>1. \A m, b : Item(m, b)' = Item(m, b)
      BY DEF Item
    <3> HIDE DEF next, a, k
    <3>2. v5'[i].call # 1
      BY <2>5, <2>8
    <3> QED
      BY <2>5, <2>10, <3>1, <3>2 DEF Made
  <2> HIDE DEF next, a, k
  <2> QED
    BY <1>1, <1>2, <2>1, <2>5, <2>7, <2>8, <2>9, <2>11
<1>7. ASSUME NEW i \in Lambdas, Do!CreateDomain(i)
      PROVE  Do!InSequence'
  <2> DEFINE a == v5[i].account
  <2>1. ~v11 /\ ~v10' /\ i \in Do!Posting /\ v3' = v3 /\ v5' = [v5 EXCEPT ![i] = Do!Idle]
    BY <1>7, <1>1 DEF Do!CreateDomain, Do!Posting, Do!Goto
  <2>2. v5[i] \in Do!Posts /\ v5[i].call > 5 /\ v5[i].call # 1
    BY <1>7, <1>0, DoCallsAre DEF Do!CreateDomain, Do!Posts
  <2>3. Do!Posting = {i} /\ Made(i)
    BY <1>1, <2>1
  <2>4. Do!Complete(a)
    <3>1. v5[i].call \in Nat
      BY <2>2, DoCallsAre DEF Do!Posts
    <3>2. \A k \in 1 .. 5 : Item(k, a) \in v3
      BY <2>2, <2>3, <3>1 DEF Made
    <3> QED
      BY <3>2, DoCallsAre DEF Do!Complete, Item
  <2>5. Do!Posting' = {}
    BY <2>1, <2>3, <1>0 DEF Do!Posting
  <2>6. Do!Registrants' \subseteq Do!Registrants \union {a}
    BY <1>7, <1>0 DEF Do!CreateDomain, Do!Registrants
  <2>7. a \in Do!Registrants'
    <3>1. CASE Do!Active(a)
      BY <1>7, <3>1, DoRowsStay, <2>2 DEF Do!Active, Do!Registrants, Do!Posts
    <3>2. CASE ~Do!Active(a)
      <4> DEFINE r == [status |-> "active", created |-> v2', setup |-> Do!Unknown,
                       health |-> Do!Unknown, failing |-> FALSE]
      <4>1. v1' = [v1 EXCEPT ![a] = r]
        BY <1>7, <3>2 DEF Do!CreateDomain
      <4>2. r \in Do!Row
        BY DEF Do!StateOK, Do!Row, Do!Flags, Do!Unknown
      <4>3. r # None /\ a \in Accounts
        BY <4>2, <2>2, NoneAssumption DEF Do!Posts
      <4> HIDE DEF r
      <4> QED
        BY <1>0, <4>1, <4>3 DEF Do!Registrants
    <3> QED
      BY <3>1, <3>2
  <2>8. \A b \in Do!Registrants' : Do!Complete(b)'
    BY <1>1, <2>1, <2>4, <2>6 DEF Do!Complete
  <2> QED
    BY <1>2, <2>1, <2>5, <2>7, <2>8
<1>8. ASSUME v3' = v3, v10' = v10, v11' = v11, Do!Registrants' \subseteq Do!Registrants,
             NEW i \in Lambdas, NEW job, v5' = [v5 EXCEPT ![i] = job], v5[i].op # "post", job.op # "post"
      PROVE  Do!InSequence'
  <2>1. Do!Posting' = Do!Posting /\ \A j \in Do!Posting : v5'[j] = v5[j]
    BY <1>8, <1>0 DEF Do!Posting
  <2> QED
    BY <1>3, <1>8, <2>1, DoRowsStay
<1>5. ASSUME NEW i \in Lambdas, NEW a \in Accounts, Do!CheckOwner(i, a), ~Do!MayRegister(a)
      PROVE  Do!InSequence'
  <2>1. v5' = [v5 EXCEPT ![i] = Do!Idle] /\ v5[i] = Do!Idle
    BY <1>5 DEF Do!CheckOwner, Do!Goto
  <2>2. ~v11 /\ ~v10'
    BY <1>5, <1>1 DEF Do!CheckOwner
  <2>3. v1' = v1 /\ v3' = v3
    BY <1>5 DEF Do!CheckOwner
  <2>4. Do!Posting' = Do!Posting /\ \A j \in Do!Posting : v5'[j] = v5[j]
    BY <1>0, <2>1 DEF Do!Posting
  <2>5. Do!Registrants' = Do!Registrants
    BY <2>3 DEF Do!Registrants
  <2>6. \A b : Do!Complete(b)' = Do!Complete(b)
    BY <2>3 DEF Do!Complete
  <2>7. \A j \in Do!Posting : Made(j)'
    BY <1>1, <2>2, <2>3, <2>4, <2>6 DEF Made, Item
  <2> QED
    BY <1>1, <1>2, <2>2, <2>3, <2>4, <2>5, <2>6, <2>7
<1>9. ASSUME NEW i \in Lambdas, NEW a \in Accounts, NEW by \in {"patch", "job"}, Do!StartCheck(i, a, by)
      PROVE  Do!InSequence'
  <2>1. v5' = [v5 EXCEPT ![i] = Do!Check(by, a)] /\ v1' = v1 /\ v3' = v3 /\ v10' = v10 /\ v11' = v11
    BY <1>9 DEF Do!StartCheck, Do!Goto
  <2>2. v5[i].op # "post" /\ Do!Check(by, a).op # "post"
    BY <1>9, <1>0 DEF Do!StartCheck, Do!Check
  <2> QED
    BY <1>8, <2>1, <2>2 DEF Do!Registrants
<1>10. ASSUME NEW i \in Lambdas, Do!ResolveDns(i) \/ Do!SaveHealth(i) \/ Do!SaveSetup(i)
      PROVE  Do!InSequence'
  <2>1. v5[i] \in Do!CheckJobs /\ v5[i].op = "check" /\ v5[i].account \in Do!Registrants
    BY <1>10 DEF Do!StateOK, Do!ResolveDns, Do!SaveHealth, Do!SaveSetup, Do!Idle, Do!Posts
  <2>2. \/ v5' = [v5 EXCEPT ![i] = Do!Idle]
        \/ v5' = [v5 EXCEPT ![i] = [v5[i] EXCEPT !.pc = "setup"]]
        \/ v5' = [v5 EXCEPT ![i] = [v5[i] EXCEPT !.pc = "health", !.found = v4]]
    BY <1>10 DEF Do!ResolveDns, Do!SaveHealth, Do!SaveSetup, Do!Goto
  <2>3. /\ [v5[i] EXCEPT !.pc = "setup"].op = "check"
        /\ [v5[i] EXCEPT !.pc = "health", !.found = v4].op = "check"
    BY <2>1 DEF Do!CheckJobs
  <2>4. v3' = v3 /\ v10' = v10 /\ v11' = v11
    BY <1>10 DEF Do!ResolveDns, Do!SaveHealth, Do!SaveSetup
  <2>5. \A a \in Accounts : a # v5[i].account => v1'[a] = v1[a]
    BY <1>10, <1>0 DEF Do!ResolveDns, Do!SaveHealth, Do!SaveSetup
  <2>6. Do!Registrants' \subseteq Do!Registrants
    BY <2>1, <2>5 DEF Do!Registrants
  <2> QED
    BY <1>0, <1>8, <2>1, <2>2, <2>3, <2>4, <2>6
<1>11. ASSUME NEW a \in Accounts, Do!DeleteDomain(a)
      PROVE  Do!InSequence'
  <2>1. v3' = v3 /\ v5' = v5 /\ v10' = v10 /\ v11' = v11
    BY <1>11 DEF Do!DeleteDomain, Do!work
  <2>2. Do!Registrants' \subseteq Do!Registrants
    BY <1>11, <1>0 DEF Do!DeleteDomain, Do!Active, Do!Registrants
  <2>3. Do!Posting' = Do!Posting
    BY <2>1 DEF Do!Posting
  <2> QED
    BY <1>3, <2>1, <2>2, <2>3, DoRowsStay
<1>12. ASSUME NEW records \in Do!Records, Do!ChangeDns(records)
      PROVE  Do!InSequence'
  <2>1. v1' = v1 /\ v3' = v3 /\ v5' = v5 /\ v10' = v10 /\ v11' = v11
    BY <1>12 DEF Do!ChangeDns, Do!work
  <2> QED
    BY <1>3, <2>1 DEF Do!Posting, Do!Registrants
<1>13. ASSUME NEW i \in Lambdas, Do!CallFails(i)
      PROVE  Do!InSequence'
  BY <1>13 DEF Do!CallFails
<1>14. ASSUME NEW a \in Accounts, Do!CatchUp(a)
      PROVE  Do!InSequence'
  <2>1. v1' = v1 /\ v3' = v3 /\ v5' = v5 /\ v10' = v10 /\ v11' = v11
    BY <1>14 DEF Do!CatchUp, Do!work
  <2> QED
    BY <1>3, <2>1 DEF Do!Posting, Do!Registrants
<1> QED
  BY <1>4, <1>5, <1>6, <1>7, <1>9, <1>10, <1>11, <1>12, <1>13, <1>14 DEF Do!Next, Do!StartPatch, Do!StartJob

\* An instance of a module has a Cardinality of its own, with the same definition.
LEMMA DoCardinality == \A S : Do!Cardinality(S) = Cardinality(S)
BY DEF Do!Cardinality, Cardinality

\* What the invariant says of owners and of what is listed.
LEMMA DoFollows == Do!Inductive => Do!TypeOK /\ Do!SoleRegistrant /\ Do!ReadyWhenListed
<1> SUFFICES ASSUME Do!Inductive PROVE Do!TypeOK /\ Do!SoleRegistrant /\ Do!ReadyWhenListed
  OBVIOUS
<1>1. Do!SoleRegistrant
  <2>1. CASE Do!Registrants = {}
    BY <2>1, FS_EmptySet, DoCardinality DEF Do!SoleRegistrant
  <2>2. CASE ~v10 /\ Do!Registrants # {}
    <3>1. PICK a : Do!Registrants = {a}
      BY <2>2 DEF Do!Inductive, Do!OneClaimant
    <3>2. Do!Cardinality(Do!Registrants) = 1
      BY <3>1, FS_Singleton, DoCardinality
    <3>3. Do!Cardinality(Do!Registrants) <= 1
      BY <3>2
    <3> QED
      BY <3>3, Zenon DEF Do!SoleRegistrant
  <2>3. CASE v10
    BY <2>3, Zenon DEF Do!SoleRegistrant
  <2> QED
    BY <2>1, <2>2, <2>3, Zenon
<1>2. Do!ReadyWhenListed
  BY DEF Do!Inductive, Do!InSequence, Do!ReadyWhenListed, Do!Active, Do!Registrants, Do!Complete
<1> QED
  BY <1>1, <1>2 DEF Do!Inductive, Do!StateOK

\* For any number of accounts, requests and faults: two accounts have rows of a name only when their
\* POSTs overlapped or the later one came before gsi1 had the other's row, and a domain is listed as active with all that SES was to
\* be told, unless a registration failed or met another one (domainsApi, domain-identity-service).
THEOREM DomainsAreOwned == ProvedSpec => []DomainsHold
<1> DEFINE Inv == part = "domains" => Do!Inductive
<1>1. ProvedInit => Inv
  BY DoInitial DEF ProvedInit
<1>2. Inv /\ [ProvedNext]_values => Inv'
  <2>1. ASSUME Inv, part' = "domains", part = "domains", Do!Next
        PROVE  Do!Inductive'
    BY <2>1, DoTyped, DoIndexFollows, DoOneClaimant, DoInSequence DEF Do!Inductive
  <2>2. ASSUME Inv, UNCHANGED <<v1, v2, v3, v4, v5, v10, v11, v12>>, part' = "domains", part = "domains"
        PROVE  Do!Inductive'
    BY <2>2 DEF Do!Inductive, Do!StateOK, Do!TypeOK, Do!Registrants, Do!OneClaimant, Do!InSequence,
                Do!Complete, Do!Posting, Do!IndexFollows, Do!Indexed
  <2> QED
    BY <2>1, <2>2 DEF ProvedNext, values, Rest10, Rest11, Rest12, Rest18
<1>3. Inv => DomainsHold
  BY DoFollows DEF DomainsHold
<1> QED
  BY <1>1, <1>2, <1>3, PTL DEF ProvedSpec

-----------------------------------------------------------------------------
(* Devices: v1 socket, v2 row, v3 lambda, v4 tries, v5 notices, v6 reached,  *)
(* v7 unsaved, v8 removed, v9 gone.                                          *)

\* At the start there is no connection, no row and no delivery.
LEMMA DeInitial == De!Init => De!Inductive
<1> SUFFICES ASSUME De!Init PROVE De!Inductive
  OBVIOUS
<1>1. De!StateOK
  BY DEF De!Init, De!StateOK, De!TypeOK
<1>2. De!ListedWhileOpen
  BY NoneAssumption DEF De!Init, De!ListedWhileOpen
<1>3. De!OkIsHeard
  <2>1. \A i \in Lambdas : v3[i].pc = "idle"
    BY DEF De!Init, De!Idle
  <2>2. \A n \in De!Notices : v5[n] = "queued"
    BY DEF De!Init
  <2> QED
    BY <2>1, <2>2 DEF De!OkIsHeard, De!DeliveredIsHeard
<1> QED
  BY <1>1, <1>2, <1>3 DEF De!Inductive

\* Each step leaves connections, rows and deliveries of their shapes.
LEMMA DeTyped == De!StateOK /\ De!Next => De!StateOK'
<1> SUFFICES ASSUME De!StateOK, De!Next PROVE De!StateOK'
  OBVIOUS
<1>0. /\ v1 \in [Conns -> {"new", "opening", "open", "closed"}]
      /\ v2 \in [Conns -> {None, "live", "expired"}]
      /\ v5 \in [De!Notices -> {"queued", "delivered", "dropped"}]
      /\ v3 \in [Lambdas -> {De!Idle} \union De!Delivery \union De!Failure]
      /\ v4 \in [De!Notices -> Nat]
      /\ De!Idle.pc = "idle"
      /\ \A i \in Lambdas : v3[i].pc = "deliver" => v3[i] \in De!Delivery
      /\ \A i \in Lambdas : v3[i].pc = "failed" => v3[i] \in De!Failure
  BY DEF De!StateOK, De!TypeOK, De!Idle, De!Delivery, De!Failure
<1>1. ASSUME NEW c \in Conns, NEW failed \in BOOLEAN, De!Connect(c, failed)
      PROVE  De!StateOK'
  BY <1>0, <1>1 DEF De!Connect, De!StateOK, De!TypeOK
<1>2. ASSUME NEW c \in Conns, De!Open(c) \/ De!Disconnect(c) \/ De!TtlPasses(c) \/ De!Sweep(c)
      PROVE  De!StateOK'
  BY <1>0, <1>2 DEF De!Open, De!Disconnect, De!TtlPasses, De!Sweep, De!StateOK, De!TypeOK
<1>3. ASSUME NEW i \in Lambdas, NEW n \in De!Notices, NEW failed \in BOOLEAN, De!List(i, n, failed)
      PROVE  De!StateOK'
  <2>1. /\ [pc |-> "failed", notice |-> n] \in De!Failure
        /\ [pc |-> "deliver", notice |-> n, left |-> De!Listed, listed |-> De!Listed, ok |-> {}] \in De!Delivery
    BY DEF De!Failure, De!Delivery, De!Listed
  <2> QED
    BY <1>0, <1>3, <2>1 DEF De!List, De!Goto, De!StateOK, De!TypeOK
<1>4. ASSUME NEW i \in Lambdas, NEW c \in Conns, NEW counts \in BOOLEAN, De!CanWrite(i, c),
             De!Written(i, c, counts)
      PROVE  v3' \in [Lambdas -> {De!Idle} \union De!Delivery \union De!Failure]
  <2>1. [v3[i] EXCEPT !.left = @ \ {c}, !.ok = IF counts THEN @ \union {c} ELSE @] \in De!Delivery
    BY <1>0, <1>4 DEF De!CanWrite, De!Delivery
  <2> QED
    BY <1>0, <1>4, <2>1 DEF De!Written, De!Goto
<1>5. ASSUME NEW i \in Lambdas, NEW c \in Conns, NEW failed \in BOOLEAN, De!WriteToGone(i, c, failed)
      PROVE  De!StateOK'
  <2>1. v2' \in [Conns -> {None, "live", "expired"}] /\ v1' = v1 /\ v4' = v4 /\ v5' = v5
    BY <1>0, <1>5 DEF De!WriteToGone
  <2> QED
    BY <1>0, <1>4, <1>5, <2>1 DEF De!WriteToGone, De!StateOK, De!TypeOK
<1>6. ASSUME NEW i \in Lambdas, NEW c \in Conns, De!WriteToOpen(i, c) \/ De!WriteFails(i, c)
      PROVE  De!StateOK'
  <2>1. v2' = v2 /\ v1' = v1 /\ v4' = v4 /\ v5' = v5
    BY <1>6 DEF De!WriteToOpen, De!WriteFails
  <2> QED
    BY <1>0, <1>4, <1>6, <2>1 DEF De!WriteToOpen, De!WriteFails, De!StateOK, De!TypeOK
<1>7. ASSUME NEW i \in Lambdas, De!Verdict(i) \/ De!GiveBack(i)
      PROVE  De!StateOK'
  <2>1. v3[i].notice \in De!Notices /\ [pc |-> "failed", notice |-> v3[i].notice] \in De!Failure
    BY <1>0, <1>7 DEF De!Verdict, De!GiveBack, De!Failure, De!Delivery
  <2>2. v3' \in [Lambdas -> {De!Idle} \union De!Delivery \union De!Failure]
    BY <1>0, <1>7, <2>1 DEF De!Verdict, De!GiveBack, De!Goto
  <2>3. v5' \in [De!Notices -> {"queued", "delivered", "dropped"}]
    BY <1>0, <1>7, <2>1 DEF De!Verdict, De!GiveBack
  <2> QED
    BY <1>0, <1>7, <2>2, <2>3 DEF De!Verdict, De!GiveBack, De!StateOK, De!TypeOK
<1> QED
  BY <1>1, <1>2, <1>3, <1>5, <1>6, <1>7 DEF De!Next

\* A row leaves the list of an opening or open connection with a trace only.
LEMMA DeListed == De!StateOK /\ De!ListedWhileOpen /\ De!Next => De!ListedWhileOpen'
<1> SUFFICES ASSUME De!StateOK, De!ListedWhileOpen, De!Next, NEW c \in Conns
             PROVE  /\ v1'[c] \in {"opening", "open"} => v2'[c] = "live" \/ c \in v7' \union v8'
                    /\ v2'[c] = "expired" => v1'[c] = "closed"
  BY DEF De!ListedWhileOpen
<1>0. /\ v1 \in [Conns -> {"new", "opening", "open", "closed"}]
      /\ v2 \in [Conns -> {None, "live", "expired"}]
      /\ v1[c] \in {"opening", "open"} => v2[c] = "live" \/ c \in v7 \union v8
      /\ v2[c] = "expired" => v1[c] = "closed"
      /\ None # "live" /\ None # "expired"
  BY NoneAssumption DEF De!StateOK, De!TypeOK, De!ListedWhileOpen
<1>1. ASSUME NEW d \in Conns, NEW failed \in BOOLEAN, De!Connect(d, failed)
      PROVE  /\ v1'[c] \in {"opening", "open"} => v2'[c] = "live" \/ c \in v7' \union v8'
             /\ v2'[c] = "expired" => v1'[c] = "closed"
  BY <1>0, <1>1 DEF De!Connect
<1>2. ASSUME NEW d \in Conns, De!Open(d) \/ De!Disconnect(d) \/ De!TtlPasses(d) \/ De!Sweep(d)
      PROVE  /\ v1'[c] \in {"opening", "open"} => v2'[c] = "live" \/ c \in v7' \union v8'
             /\ v2'[c] = "expired" => v1'[c] = "closed"
  BY <1>0, <1>2 DEF De!Open, De!Disconnect, De!TtlPasses, De!Sweep
<1>3. ASSUME NEW i \in Lambdas, NEW d \in Conns, NEW failed \in BOOLEAN, De!WriteToGone(i, d, failed)
      PROVE  /\ v1'[c] \in {"opening", "open"} => v2'[c] = "live" \/ c \in v7' \union v8'
             /\ v2'[c] = "expired" => v1'[c] = "closed"
  BY <1>0, <1>3 DEF De!WriteToGone
<1>4. CASE UNCHANGED <<v1, v2, v7, v8>>
  BY <1>0, <1>4
<1>5. ASSUME NEW i \in Lambdas
      PROVE  /\ \A n \in De!Notices, failed \in BOOLEAN : De!List(i, n, failed) => UNCHANGED <<v1, v2, v7, v8>>
             /\ \A d \in Conns : De!WriteToOpen(i, d) \/ De!WriteFails(i, d) => UNCHANGED <<v1, v2, v7, v8>>
             /\ De!Verdict(i) \/ De!GiveBack(i) => UNCHANGED <<v1, v2, v7, v8>>
  BY DEF De!List, De!WriteToOpen, De!WriteFails, De!Verdict, De!GiveBack
<1> QED
  BY <1>1, <1>2, <1>3, <1>4, <1>5 DEF De!Next

\* A connection counts for a notice when it was written to or found gone.
LEMMA DeHeard == De!StateOK /\ De!OkIsHeard /\ De!Next => De!OkIsHeard'
<1> SUFFICES ASSUME De!StateOK, De!OkIsHeard, De!Next PROVE De!OkIsHeard'
  OBVIOUS
<1> DEFINE Heard(i) == v3[i].pc = "deliver" =>
             /\ \A c \in v3[i].ok : <<v3[i].notice, c>> \in v6 \union v9
             /\ v3[i].listed = {} => <<v3[i].notice, None>> \in v9
           Traced(n) == v5[n] = "delivered" => \E c \in Conns \union {None} : <<n, c>> \in v6 \union v9
<1>0. /\ v3 \in [Lambdas -> {De!Idle} \union De!Delivery \union De!Failure]
      /\ v5 \in [De!Notices -> {"queued", "delivered", "dropped"}]
      /\ De!Idle.pc = "idle"
      /\ \A i \in Lambdas : v3[i].pc = "deliver" => v3[i] \in De!Delivery
      /\ \A i \in Lambdas : Heard(i)
      /\ \A n \in De!Notices : Traced(n)
  <2>1. /\ v3 \in [Lambdas -> {De!Idle} \union De!Delivery \union De!Failure]
        /\ De!Idle.pc = "idle"
        /\ \A i \in Lambdas : v3[i].pc = "deliver" => v3[i] \in De!Delivery
    BY DEF De!StateOK, De!Idle, De!Delivery, De!Failure
  <2>2. \A i \in Lambdas : Heard(i)
    BY DEF De!OkIsHeard
  <2>3. \A n \in De!Notices : Traced(n)
    BY DEF De!OkIsHeard, De!DeliveredIsHeard
  <2> QED
    BY <2>1, <2>2, <2>3 DEF De!StateOK, De!TypeOK
<1>1. ASSUME \A i \in Lambdas : Heard(i)', \A n \in De!Notices : Traced(n)'
      PROVE  De!OkIsHeard'
  BY <1>1 DEF De!OkIsHeard, De!DeliveredIsHeard
\* A step that takes no trace back and moves one lambda at most.
<1>2. ASSUME v6 \subseteq v6', v9 \subseteq v9', v5' = v5, NEW i \in Lambdas,
             \A j \in Lambdas : j # i => v3'[j] = v3[j], Heard(i)'
      PROVE  De!OkIsHeard'
  BY <1>0, <1>1, <1>2
<1>3. ASSUME v6' = v6, v9' = v9, v3' = v3, v5' = v5
      PROVE  De!OkIsHeard'
  BY <1>0, <1>1, <1>3
<1>4. ASSUME NEW i \in Lambdas, NEW n \in De!Notices, NEW failed \in BOOLEAN, De!List(i, n, failed)
      PROVE  De!OkIsHeard'
  <2>1. v6' = v6 /\ v5' = v5 /\ v9 \subseteq v9' /\ \A j \in Lambdas : j # i => v3'[j] = v3[j]
    BY <1>0, <1>4 DEF De!List, De!Goto
  <2>2. CASE failed
    BY <1>0, <1>2, <1>4, <2>1, <2>2 DEF De!List, De!Goto
  <2>3. CASE ~failed
    <3>1. /\ v3'[i] = [pc |-> "deliver", notice |-> n, left |-> De!Listed, listed |-> De!Listed, ok |-> {}]
          /\ De!Listed = {} => <<n, None>> \in v9'
      BY <1>0, <1>4, <2>3 DEF De!List, De!Goto
    <3> QED
      BY <1>2, <2>1, <3>1
  <2> QED
    BY <2>2, <2>3
<1>5. ASSUME NEW i \in Lambdas, NEW c \in Conns, NEW counts \in BOOLEAN, De!CanWrite(i, c),
             De!Written(i, c, counts), v6 \subseteq v6', v9 \subseteq v9', v5' = v5,
             counts => <<v3[i].notice, c>> \in v6' \union v9'
      PROVE  De!OkIsHeard'
  <2>1. v3[i] \in De!Delivery /\ v3[i].pc = "deliver"
    BY <1>0, <1>5 DEF De!CanWrite
  <2>2. /\ v3'[i].pc = "deliver" /\ v3'[i].notice = v3[i].notice /\ v3'[i].listed = v3[i].listed
        /\ v3'[i].ok = IF counts THEN v3[i].ok \union {c} ELSE v3[i].ok
        /\ \A j \in Lambdas : j # i => v3'[j] = v3[j]
    BY <1>0, <1>5, <2>1 DEF De!Written, De!Goto, De!Delivery
  <2>3. Heard(i)'
    BY <1>0, <1>5, <2>1, <2>2
  <2> QED
    BY <1>2, <1>5, <2>2, <2>3
<1>6. ASSUME NEW i \in Lambdas, NEW c \in Conns, NEW failed \in BOOLEAN,
             De!WriteToOpen(i, c) \/ De!WriteFails(i, c) \/ De!WriteToGone(i, c, failed)
      PROVE  De!OkIsHeard'
  BY <1>5, <1>6 DEF De!WriteToOpen, De!WriteFails, De!WriteToGone
<1>7. ASSUME NEW i \in Lambdas, De!Verdict(i)
      PROVE  De!OkIsHeard'
  <2> DEFINE n == v3[i].notice
  <2>1. v3[i] \in De!Delivery /\ n \in De!Notices /\ v3[i].ok \subseteq Conns
    BY <1>0, <1>7 DEF De!Verdict, De!Delivery
  <2>2. v6' = v6 /\ v9' = v9 /\ v3'[i].pc # "deliver" /\ \A j \in Lambdas : j # i => v3'[j] = v3[j]
    BY <1>0, <1>7 DEF De!Verdict, De!Goto
  <2>3. CASE De!Succeeded(v3[i])
    <3>1. \E c \in Conns \union {None} : <<n, c>> \in v6 \union v9
      BY <1>0, <1>7, <2>1, <2>3 DEF De!Verdict, De!Succeeded
    <3>2. \A m \in De!Notices : m # n => v5'[m] = v5[m]
      BY <1>0, <1>7, <2>3 DEF De!Verdict
    <3> QED
      BY <1>0, <1>1, <2>2, <3>1, <3>2
  <2>4. CASE ~De!Succeeded(v3[i])
    BY <1>2, <1>7, <2>2, <2>4 DEF De!Verdict
  <2> QED
    BY <2>3, <2>4
<1>8. ASSUME NEW i \in Lambdas, De!GiveBack(i)
      PROVE  De!OkIsHeard'
  <2>1. v6' = v6 /\ v9' = v9 /\ v3'[i].pc # "deliver" /\ \A j \in Lambdas : j # i => v3'[j] = v3[j]
    BY <1>0, <1>8 DEF De!GiveBack, De!Goto
  <2>2. \A m \in De!Notices : v5'[m] = "delivered" => v5[m] = "delivered"
    BY <1>0, <1>8 DEF De!GiveBack
  <2> QED
    BY <1>0, <1>1, <2>1, <2>2
<1>9. ASSUME NEW c \in Conns
      PROVE  /\ \A failed \in BOOLEAN : De!Connect(c, failed) => UNCHANGED <<v3, v5, v6, v9>>
             /\ De!Open(c) \/ De!Disconnect(c) \/ De!TtlPasses(c) \/ De!Sweep(c) => UNCHANGED <<v3, v5, v6, v9>>
  BY DEF De!Connect, De!Open, De!Disconnect, De!TtlPasses, De!Sweep
<1> QED
  BY <1>3, <1>4, <1>6, <1>7, <1>8, <1>9 DEF De!Next

-----------------------------------------------------------------------------
(* Feedback: v1 list, v2 draft, v4 reports, v5 surfaced, v6 lambda,          *)
(* v9 handled, v10 outdated.                                                 *)

LEMMA FeSizes == \A S : Fe!Cardinality(S) = Cardinality(S) /\ Fe!IsFiniteSet(S) = IsFiniteSet(S)
BY DEF Fe!Cardinality, Cardinality, Fe!IsFiniteSet, IsFiniteSet

\* What an invocation works on.
LEMMA FeWorkIs ==
  ASSUME Fe!StateOK
  PROVE  /\ Fe!Idle.pc = "idle" /\ \A w \in Fe!Work : w.pc # "idle" /\ w # Fe!Idle
         /\ v6 \in [Lambdas -> {Fe!Idle} \union Fe!Work]
         /\ Fe!Working \subseteq Lambdas
         /\ \A i \in Lambdas : v6[i].pc # "idle" => i \in Fe!Working
         /\ \A i \in Lambdas : i \notin Fe!Working => v6[i] = Fe!Idle
         /\ \A i \in Fe!Working :
              /\ v6[i] \in Fe!Work /\ v6[i].report \in Fe!Report /\ v6[i].report \in DOMAIN v4
              /\ v6[i].left \subseteq v6[i].report.who /\ v6[i].report.who \subseteq Receivers
<1>1. Fe!Idle.pc = "idle" /\ \A w \in Fe!Work : w.pc # "idle"
  BY DEF Fe!Idle, Fe!Work
<1>2. \A w \in Fe!Work : w # Fe!Idle /\ w.report \in Fe!Report
  BY <1>1 DEF Fe!Work
<1>3. \A r \in Fe!Report : r.who \subseteq Receivers
  BY DEF Fe!Report
<1> QED
  BY <1>1, <1>2, <1>3 DEF Fe!StateOK, Fe!Working

\* One invocation goes on with the report it has.
LEMMA FeGoesOn ==
  ASSUME Fe!StateOK, NEW i \in Lambdas, i \in Fe!Working, NEW left \in SUBSET v6[i].left,
         NEW pc \in {"suppress", "rules", "signal", "revert", "done"}, NEW w,
         w = [v6[i] EXCEPT !.left = left, !.pc = pc], Fe!Goto(i, w)
  PROVE  /\ v6' \in [Lambdas -> {Fe!Idle} \union Fe!Work]
         /\ v6'[i] \in Fe!Work /\ v6'[i].pc = pc /\ v6'[i].left = left /\ v6'[i].report = v6[i].report
         /\ \A j \in Lambdas : j # i => v6'[j] = v6[j]
         /\ Fe!Working' = Fe!Working
<1>1. v6[i] \in Fe!Work /\ v6 \in [Lambdas -> {Fe!Idle} \union Fe!Work] /\ \A x \in Fe!Work : x # Fe!Idle
  BY FeWorkIs
<1>2. w \in Fe!Work /\ w.pc = pc /\ w.left = left /\ w.report = v6[i].report
  BY <1>1 DEF Fe!Work
<1>3. v6' \in [Lambdas -> {Fe!Idle} \union Fe!Work] /\ v6'[i] = w /\ \A j \in Lambdas : j # i => v6'[j] = v6[j]
  BY <1>1, <1>2 DEF Fe!Goto
<1>4. Fe!Working' = Fe!Working
  BY <1>1, <1>2, <1>3 DEF Fe!Working
<1> QED
  BY <1>2, <1>3, <1>4

\* The same for a step of the program counter alone.
LEMMA FeGoesTo ==
  ASSUME Fe!StateOK, NEW i \in Lambdas, i \in Fe!Working,
         NEW pc \in {"suppress", "rules", "signal", "revert", "done"}, Fe!Goto(i, [v6[i] EXCEPT !.pc = pc])
  PROVE  /\ v6' \in [Lambdas -> {Fe!Idle} \union Fe!Work]
         /\ v6'[i] \in Fe!Work /\ v6'[i].pc = pc /\ v6'[i].left = v6[i].left /\ v6'[i].report = v6[i].report
         /\ \A j \in Lambdas : j # i => v6'[j] = v6[j]
         /\ Fe!Working' = Fe!Working
<1>1. v6[i] \in Fe!Work
  BY FeWorkIs
<1>2. [v6[i] EXCEPT !.pc = pc] = [v6[i] EXCEPT !.left = v6[i].left, !.pc = pc]
  BY <1>1 DEF Fe!Work
<1> QED
  BY <1>2, FeGoesOn, ZenonT(40)

\* And when it lets go of its report.
LEMMA FeLetsGo ==
  ASSUME Fe!StateOK, NEW i \in Lambdas, Fe!Goto(i, Fe!Idle)
  PROVE  /\ v6' \in [Lambdas -> {Fe!Idle} \union Fe!Work]
         /\ v6'[i] = Fe!Idle /\ \A j \in Lambdas : j # i => v6'[j] = v6[j]
         /\ Fe!Working' = Fe!Working \ {i}
BY FeWorkIs DEF Fe!Goto, Fe!Working

\* A report leaves one address less before it.
LEMMA FeSuppresses ==
  ASSUME Fe!StateOK, NEW i \in Lambdas, NEW a \in Receivers, Fe!Suppress(i, a)
  PROVE  /\ i \in Fe!Working /\ v6[i].pc = "suppress" /\ a \in v6[i].left
         /\ v6' \in [Lambdas -> {Fe!Idle} \union Fe!Work]
         /\ v6'[i] \in Fe!Work /\ v6'[i].left = v6[i].left \ {a} /\ v6'[i].report = v6[i].report
         /\ v6'[i].pc = IF v6[i].left = {a} THEN Fe!AfterSuppressing(v6[i].report) ELSE "suppress"
         /\ \A j \in Lambdas : j # i => v6'[j] = v6[j]
         /\ Fe!Working' = Fe!Working
         /\ Fe!AfterSuppressing(v6[i].report) \in {"done", "rules", "signal"}
         /\ v1' = [v1 EXCEPT ![a] = Fe!Suppressed(v1[a], v6[i].report.kind)]
         /\ Fe!Suppressed(v1[a], v6[i].report.kind) \in Fe!Entry
         /\ v1'[a] = Fe!Suppressed(v1[a], v6[i].report.kind)
         /\ UNCHANGED <<v2, v3, v4, v5, v7, v8, v9, v10>>
<1> DEFINE pc == IF v6[i].left = {a} THEN Fe!AfterSuppressing(v6[i].report) ELSE v6[i].pc
           left == v6[i].left \ {a}
<1>1. /\ v6[i].pc = "suppress" /\ a \in v6[i].left /\ UNCHANGED <<v2, v3, v4, v5, v7, v8, v9, v10>>
      /\ Fe!Goto(i, [v6[i] EXCEPT !.left = left, !.pc = pc])
      /\ v1' = [v1 EXCEPT ![a] = Fe!Suppressed(v1[a], v6[i].report.kind)]
  BY DEF Fe!Suppress, Fe!StateOK
<1>2. i \in Fe!Working
  BY <1>1, FeWorkIs
<1>3. Fe!AfterSuppressing(v6[i].report) \in {"done", "rules", "signal"}
  BY DEF Fe!AfterSuppressing
<1>4. left \in SUBSET v6[i].left /\ pc \in {"suppress", "rules", "signal", "revert", "done"}
  BY <1>1, <1>3
<1>5. v1 \in [Receivers -> Fe!Entry \union {None}]
  BY DEF Fe!StateOK
<1>6. \A k : Fe!Suppressed(v1[a], k) \in Fe!Entry
  <2> TAKE k
  <2>1. CASE v1[a] = None
    BY <2>1 DEF Fe!Suppressed, Fe!Entry, Fe!HasTtl
  <2>2. CASE v1[a] # None
    <3>1. v1[a].ttl \in BOOLEAN /\ v1[a].count \in Nat
      BY <1>5, <2>2 DEF Fe!Entry
    <3>2. (Fe!HasTtl(k) \/ (v1[a] # None /\ v1[a].ttl)) \in BOOLEAN
      OBVIOUS
    <3>3. (IF v1[a] = None THEN 1 ELSE v1[a].count + 1) \in Nat
      BY <3>1
    <3> QED
      BY <3>2, <3>3 DEF Fe!Suppressed, Fe!Entry
  <2> QED
    BY <2>1, <2>2
<1> HIDE DEF pc, left
<1>7. /\ v6' \in [Lambdas -> {Fe!Idle} \union Fe!Work]
      /\ v6'[i] \in Fe!Work /\ v6'[i].pc = pc /\ v6'[i].left = left /\ v6'[i].report = v6[i].report
      /\ \A j \in Lambdas : j # i => v6'[j] = v6[j]
      /\ Fe!Working' = Fe!Working
  BY <1>1, <1>2, <1>4, FeGoesOn, ZenonT(40)
<1> QED
  BY <1>1, <1>2, <1>3, <1>5, <1>6, <1>7 DEF pc, left

\* At the start there is no report and nothing is under way.
LEMMA FeInitial == Fe!Init => Fe!Inductive
<1> SUFFICES ASSUME Fe!Init PROVE Fe!Inductive
  OBVIOUS
<1>1. Fe!Working = {} /\ DOMAIN v4 = {}
  BY DEF Fe!Init, Fe!Working
<1>2. Fe!StateOK
  <2>1. Fe!IsFiniteSet(DOMAIN v4) /\ Fe!Cardinality(DOMAIN v4) = 0
    BY <1>1, FeSizes, FS_EmptySet
  <2>2. Fe!Cardinality(DOMAIN v4) <= MaxReports
    BY <2>1, BoundsAssumption
  <2>3. v4 \in [DOMAIN v4 -> 0 .. MaxTries]
    BY <1>1 DEF Fe!Init
  <2>4. v2 \in [status : {"draft", "sent"}, attempt : 0 .. MaxAttempts]
    BY BoundsAssumption DEF Fe!Init
  <2> QED
    BY <1>1, <2>1, <2>2, <2>3, <2>4 DEF Fe!Init, Fe!StateOK
<1>3. Fe!CountsTries /\ Fe!StaysListed /\ Fe!ShownFirst
  BY <1>1 DEF Fe!Init, Fe!CountsTries, Fe!StaysListed, Fe!ShownFirst
<1>4. Fe!OfThisSend
  <2>1. ~(v2.attempt > 0)
    BY DEF Fe!Init
  <2> QED
    BY <1>1, <2>1 DEF Fe!OfThisSend
<1> QED
  BY <1>2, <1>3, <1>4 DEF Fe!Inductive

\* Each step leaves entries, reports and work of their shapes, and a report to one invocation.
LEMMA FeTyped == Fe!StateOK /\ Fe!Next => Fe!StateOK'
<1> SUFFICES ASSUME Fe!StateOK, Fe!Next PROVE Fe!StateOK'
  OBVIOUS
<1> USE FeWorkIs
<1>1. ASSUME v4' = v4, v1' \in [Receivers -> Fe!Entry \union {None}],
             v2' \in [status : {"draft", "sent"}, attempt : 0 .. MaxAttempts],
             v5' \union v9' \subseteq DOMAIN v4, v6' \in [Lambdas -> {Fe!Idle} \union Fe!Work],
             Fe!Working' \subseteq Fe!Working,
             \A i \in Fe!Working' : v6'[i].report = v6[i].report /\ v6'[i].left \subseteq v6[i].left
      PROVE  Fe!StateOK'
  BY <1>1 DEF Fe!StateOK
<1>2. ASSUME NEW i \in Lambdas, Fe!Goto(i, Fe!Idle), v4' = v4, v1' = v1, v2' = v2,
             v5' \union v9' \subseteq DOMAIN v4
      PROVE  Fe!StateOK'
  BY <1>1, <1>2, FeLetsGo DEF Fe!StateOK
<1>3. ASSUME NEW i \in Lambdas, NEW pc \in {"suppress", "rules", "signal", "revert", "done"},
             i \in Fe!Working, Fe!Goto(i, [v6[i] EXCEPT !.pc = pc]), v4' = v4, v1' = v1,
             v2' \in [status : {"draft", "sent"}, attempt : 0 .. MaxAttempts],
             v5' \union v9' \subseteq DOMAIN v4
      PROVE  Fe!StateOK'
  <2>1. /\ v6' \in [Lambdas -> {Fe!Idle} \union Fe!Work] /\ Fe!Working' = Fe!Working
        /\ \A j \in Lambdas : v6'[j].report = v6[j].report /\ v6'[j].left = v6[j].left
    BY <1>3, FeGoesTo
  <2> QED
    BY <1>1, <1>3, <2>1 DEF Fe!StateOK
<1>4. CASE Fe!Send
  <2>1. v2' \in [status : {"draft", "sent"}, attempt : 0 .. MaxAttempts]
    BY <1>4, BoundsAssumption DEF Fe!Send, Fe!StateOK
  <2>2. UNCHANGED <<v1, v4, v5, v6, v9>>
    BY <1>4 DEF Fe!Send
  <2> QED
    BY <2>1, <2>2 DEF Fe!StateOK, Fe!Working
<1>5. ASSUME NEW r \in Fe!Report, Fe!Arise(r)
      PROVE  Fe!StateOK'
  <2>1. /\ v4' = [s \in DOMAIN v4 \union {r} |-> IF s = r THEN 0 ELSE v4[s]] /\ r \notin DOMAIN v4
        /\ Fe!Cardinality(DOMAIN v4) < MaxReports /\ UNCHANGED <<v1, v2, v5, v6, v9>>
    BY <1>5 DEF Fe!Arise
  <2>2. DOMAIN v4' = DOMAIN v4 \union {r}
    BY <2>1
  <2>3. Fe!IsFiniteSet(DOMAIN v4') /\ Fe!Cardinality(DOMAIN v4') = Fe!Cardinality(DOMAIN v4) + 1
    BY <2>1, <2>2, FeSizes, FS_AddElement DEF Fe!StateOK
  <2>4. Fe!Cardinality(DOMAIN v4) \in Nat
    BY FeSizes, FS_CardinalityType DEF Fe!StateOK
  <2>5. Fe!Cardinality(DOMAIN v4') <= MaxReports
    BY <2>1, <2>3, <2>4, BoundsAssumption
  <2>6. v4' \in [DOMAIN v4' -> 0 .. MaxTries]
    BY <2>1, <2>2, BoundsAssumption DEF Fe!StateOK
  <2>7. \A s \in DOMAIN v4 : v4'[s] = v4[s]
    BY <2>1
  <2>8. Fe!Working' = Fe!Working
    BY <2>1 DEF Fe!Working
  <2> QED
    BY <2>1, <2>2, <2>3, <2>5, <2>6, <2>7, <2>8 DEF Fe!StateOK
<1>6. ASSUME NEW a \in Receivers, Fe!Expire(a)
      PROVE  Fe!StateOK'
  <2>1. v1' \in [Receivers -> Fe!Entry \union {None}] /\ UNCHANGED <<v2, v4, v5, v6, v9>>
    BY <1>6 DEF Fe!Expire, Fe!StateOK
  <2> QED
    BY <2>1 DEF Fe!StateOK, Fe!Working
<1>7. ASSUME NEW i \in Lambdas, NEW r \in DOMAIN v4, Fe!Start(i, r)
      PROVE  Fe!StateOK'
  <2> DEFINE w == [pc |-> "suppress", report |-> r, left |-> r.who]
  <2>1. /\ v6' = [v6 EXCEPT ![i] = w] /\ v4' = [v4 EXCEPT ![r] = @ + 1] /\ v4[r] < MaxTries
        /\ UNCHANGED <<v1, v2, v5, v9>> /\ v6[i] = Fe!Idle
        /\ \A j \in Fe!Working : v6[j].report # r
    BY <1>7 DEF Fe!Start, Fe!Goto
  <2>2. r \in Fe!Report /\ r.who \subseteq Receivers
    BY DEF Fe!StateOK, Fe!Report
  <2>3. w \in Fe!Work /\ w.report = r /\ w.left = r.who /\ w # Fe!Idle
    BY <2>2 DEF Fe!Work
  <2>4. v4[r] \in 0 .. MaxTries /\ v4 \in [DOMAIN v4 -> 0 .. MaxTries]
    BY DEF Fe!StateOK
  <2>5. /\ DOMAIN v4' = DOMAIN v4 /\ v4'[r] = v4[r] + 1 /\ v4'[r] > 0
        /\ v4' \in [DOMAIN v4' -> 0 .. MaxTries] /\ \A s \in DOMAIN v4 : s # r => v4'[s] = v4[s]
    BY <2>1, <2>4, BoundsAssumption
  <2> HIDE DEF w
  <2>6. /\ v6' \in [Lambdas -> {Fe!Idle} \union Fe!Work] /\ v6'[i] = w
        /\ \A j \in Lambdas : j # i => v6'[j] = v6[j]
    BY <2>1, <2>3
  <2>7. Fe!Working' = Fe!Working \union {i} /\ i \notin Fe!Working
    BY <2>1, <2>3, <2>6 DEF Fe!Working
  <2>8. \A j \in Fe!Working' : v6'[j].report \in DOMAIN v4 /\ v4'[v6'[j].report] > 0 /\ v6'[j].left \subseteq v6'[j].report.who
    BY <2>3, <2>5, <2>6, <2>7 DEF Fe!StateOK
  <2>9. \A j, k \in Fe!Working' : v6'[j].report = v6'[k].report => j = k
    BY <2>1, <2>3, <2>6, <2>7 DEF Fe!StateOK
  <2> QED
    BY <2>1, <2>5, <2>6, <2>8, <2>9 DEF Fe!StateOK
<1>8. ASSUME NEW i \in Lambdas, NEW a \in Receivers, Fe!Suppress(i, a)
      PROVE  Fe!StateOK'
  <2>1. v1' \in [Receivers -> Fe!Entry \union {None}]
    BY <1>8, FeSuppresses DEF Fe!StateOK
  <2>2. /\ UNCHANGED <<v2, v4, v5, v9>> /\ v6' \in [Lambdas -> {Fe!Idle} \union Fe!Work]
        /\ Fe!Working' = Fe!Working
        /\ \A j \in Lambdas : v6'[j].report = v6[j].report /\ v6'[j].left \subseteq v6[j].left
    BY <1>8, FeSuppresses
  <2> QED
    BY <1>1, <2>1, <2>2 DEF Fe!StateOK
<1>9. ASSUME NEW i \in Lambdas, NEW failed \in BOOLEAN, Fe!DisableRules(i, failed)
      PROVE  Fe!StateOK'
  BY <1>3, <1>9 DEF Fe!DisableRules, Fe!StateOK
<1>10. ASSUME NEW i \in Lambdas, NEW failed \in BOOLEAN, Fe!Revert(i, failed)
      PROVE  Fe!StateOK'
  <2>1. v2' \in [status : {"draft", "sent"}, attempt : 0 .. MaxAttempts]
    BY <1>10 DEF Fe!Revert, Fe!StateOK
  <2>2. UNCHANGED <<v1, v4, v5, v9>> /\ i \in Fe!Working /\ Fe!Goto(i, [v6[i] EXCEPT !.pc = "done"])
    BY <1>10 DEF Fe!Revert
  <2> QED
    BY <1>3, <2>1, <2>2 DEF Fe!StateOK
<1>11. ASSUME NEW i \in Lambdas, Fe!SaveSignal(i)
      PROVE  Fe!StateOK'
  <2> DEFINE pc == IF Fe!RevertToDraft(v6[i].report) THEN "revert" ELSE "done"
  <2>1. /\ UNCHANGED <<v1, v2, v4, v9>> /\ i \in Fe!Working /\ Fe!Goto(i, [v6[i] EXCEPT !.pc = pc])
        /\ v5' = v5 \union {v6[i].report}
    BY <1>11 DEF Fe!SaveSignal
  <2> QED
    BY <1>3, <2>1, ZenonT(40) DEF Fe!StateOK
<1>12. ASSUME NEW i \in Lambdas, Fe!Finish(i)
      PROVE  Fe!StateOK'
  <2>1. /\ UNCHANGED <<v1, v2, v4, v5>> /\ i \in Fe!Working /\ Fe!Goto(i, Fe!Idle)
        /\ v9' = v9 \union {v6[i].report}
    BY <1>12 DEF Fe!Finish
  <2> QED
    BY <1>2, <2>1 DEF Fe!StateOK
<1>13. ASSUME NEW i \in Lambdas, Fe!Fail(i)
      PROVE  Fe!StateOK'
  BY <1>2, <1>13 DEF Fe!Fail, Fe!LeftToRetry, Fe!StateOK
<1> QED
  BY <1>4, <1>5, <1>6, <1>7, <1>8, <1>9, <1>10, <1>11, <1>12, <1>13
     DEF Fe!Next, Fe!StartFeedback, Fe!StartNotice, Fe!SuppressBounced, Fe!SuppressComplained

\* There are no more tries than reports times the tries of one.
LEMMA FeTriesFinite ==
  ASSUME Fe!StateOK
  PROVE  /\ IsFiniteSet(Fe!Tries) /\ Cardinality(Fe!Tries) <= MaxReports * MaxTries
         /\ \A S : S \subseteq Fe!Tries => IsFiniteSet(S) /\ Cardinality(S) \in Nat
                                           /\ Cardinality(S) <= MaxReports * MaxTries
<1>1. IsFiniteSet(DOMAIN v4) /\ Cardinality(DOMAIN v4) \in Nat /\ Cardinality(DOMAIN v4) <= MaxReports
  BY FeSizes, FS_CardinalityType DEF Fe!StateOK
<1>2. IsFiniteSet(1 .. MaxTries) /\ Cardinality(1 .. MaxTries) = MaxTries
  BY BoundsAssumption, FS_Interval
<1> DEFINE P == (DOMAIN v4) \X (1 .. MaxTries)
<1>3. IsFiniteSet(P) /\ Cardinality(P) = Cardinality(DOMAIN v4) * MaxTries
  BY <1>1, <1>2, FS_Product
<1>4. \A n \in Nat : n <= MaxReports => n * MaxTries <= MaxReports * MaxTries
  BY BoundsAssumption
<1>5. Cardinality(P) <= MaxReports * MaxTries
  BY <1>1, <1>3, <1>4
<1>6. Fe!Tries \subseteq P
  BY DEF Fe!Tries
<1> HIDE DEF P
<1>7. MaxReports * MaxTries \in Nat /\ Cardinality(P) \in Nat
  BY <1>3, FS_CardinalityType, BoundsAssumption
<1>8. ASSUME NEW S, S \subseteq Fe!Tries
      PROVE  IsFiniteSet(S) /\ Cardinality(S) \in Nat /\ Cardinality(S) <= MaxReports * MaxTries
  <2>1. S \in SUBSET P
    BY <1>6, <1>8
  <2>2. IsFiniteSet(S) /\ Cardinality(S) <= Cardinality(P)
    BY <1>3, <2>1, FS_Subset
  <2>3. Cardinality(S) \in Nat
    BY <2>2, FS_CardinalityType
  <2> QED
    BY <1>5, <1>7, <2>2, <2>3
<1> QED
  BY <1>8

\* An entry counts a try at most once: when a report passes its address.
LEMMA FeCounts == Fe!StateOK /\ Fe!StateOK' /\ Fe!CountsTries /\ Fe!Next => Fe!CountsTries'
<1> SUFFICES ASSUME Fe!StateOK, Fe!StateOK', Fe!CountsTries, Fe!Next, NEW a \in Receivers, v1'[a] # None
             PROVE  v1'[a].count <= Fe!Cardinality(Fe!Tries' \ Fe!Ahead(a)')
  BY DEF Fe!CountsTries
<1> DEFINE Done == Fe!Tries \ Fe!Ahead(a)
<1> USE FeWorkIs
<1>0. /\ v1[a] # None => v1[a] \in Fe!Entry /\ v1[a].count \in Nat /\ v1[a].count <= Cardinality(Done)
      /\ v4 \in [DOMAIN v4 -> 0 .. MaxTries]
      /\ \A j, k \in Fe!Working : v6[j].report = v6[k].report => j = k
      /\ \A j \in Fe!Working : v4[v6[j].report] \in 1 .. MaxTries
  BY FeSizes, BoundsAssumption DEF Fe!StateOK, Fe!CountsTries, Fe!Entry
<1>1. /\ IsFiniteSet(Done) /\ Cardinality(Done) \in Nat /\ IsFiniteSet(Done') /\ Cardinality(Done') \in Nat
  <2>1. IsFiniteSet(Fe!Tries)
    BY FeTriesFinite
  <2>2. IsFiniteSet(DOMAIN v4') /\ IsFiniteSet(1 .. MaxTries)
    <3>1. Fe!IsFiniteSet(DOMAIN v4')
      BY DEF Fe!StateOK
    <3>2. IsFiniteSet(DOMAIN v4')
      BY <3>1, FeSizes
    <3> QED
      BY <3>2, FS_Interval, BoundsAssumption
  <2>3. IsFiniteSet((DOMAIN v4') \X (1 .. MaxTries))
    BY <2>2, FS_Product
  <2>4. Fe!Tries' \in SUBSET ((DOMAIN v4') \X (1 .. MaxTries))
    BY DEF Fe!Tries
  <2>5. IsFiniteSet(Fe!Tries')
    BY <2>3, <2>4, FS_Subset
  <2> QED
    BY <2>1, <2>5, FS_Difference, FS_CardinalityType
<1>2. SUFFICES v1'[a].count <= Cardinality(Done')
  BY FeSizes
\* No entry is written, and no try that is done is undone.
<1>3. ASSUME v1'[a] = v1[a], Done \subseteq Done'
      PROVE  v1'[a].count <= Cardinality(Done')
  <2>1. Cardinality(Done) <= Cardinality(Done')
    BY <1>1, <1>3, FS_Subset
  <2> QED
    BY <1>0, <1>1, <1>3, <2>1
<1>4. ASSUME v4' = v4, Fe!Working' \subseteq Fe!Working,
             \A j \in Fe!Working' : /\ v6'[j].report = v6[j].report /\ v6'[j].left \subseteq v6[j].left
                                    /\ v6'[j].pc = "suppress" => v6[j].pc = "suppress"
      PROVE  Done \subseteq Done' /\ Fe!Tries' = Fe!Tries
  <2>1. Fe!Tries' = Fe!Tries
    BY <1>4 DEF Fe!Tries
  <2>2. Fe!Ahead(a)' \subseteq Fe!Ahead(a)
    BY <1>4 DEF Fe!Ahead
  <2> QED
    BY <2>1, <2>2
<1>5. ASSUME NEW i \in Lambdas, Fe!Goto(i, Fe!Idle), v4' = v4, v1' = v1
      PROVE  v1'[a].count <= Cardinality(Done')
  BY <1>3, <1>4, <1>5, FeLetsGo
<1>6. ASSUME NEW i \in Lambdas, NEW pc \in {"revert", "done"},
             i \in Fe!Working, Fe!Goto(i, [v6[i] EXCEPT !.pc = pc]), v4' = v4, v1' = v1
      PROVE  v1'[a].count <= Cardinality(Done')
  <2>1. /\ Fe!Working' = Fe!Working
        /\ \A j \in Lambdas : /\ v6'[j].report = v6[j].report /\ v6'[j].left = v6[j].left
                              /\ v6'[j].pc = "suppress" => v6[j].pc = "suppress"
    BY <1>6, FeGoesTo
  <2> QED
    BY <1>3, <1>4, <1>6, <2>1
<1>7. ASSUME UNCHANGED <<v4, v6>>, v1'[a] = v1[a]
      PROVE  v1'[a].count <= Cardinality(Done')
  BY <1>3, <1>4, <1>7 DEF Fe!Working
<1>8. ASSUME NEW r \in Fe!Report, Fe!Arise(r)
      PROVE  v1'[a].count <= Cardinality(Done')
  <2>1. /\ v4' = [s \in DOMAIN v4 \union {r} |-> IF s = r THEN 0 ELSE v4[s]] /\ r \notin DOMAIN v4
        /\ v1' = v1 /\ v6' = v6
    BY <1>8 DEF Fe!Arise
  <2>2. Fe!Tries \subseteq Fe!Tries'
    BY <2>1, <1>0 DEF Fe!Tries
  <2>3. Fe!Working' = Fe!Working /\ \A j \in Fe!Working : v6'[j] = v6[j] /\ v4'[v6[j].report] = v4[v6[j].report]
    BY <2>1 DEF Fe!Working
  <2>4. Fe!Ahead(a)' \subseteq Fe!Ahead(a)
    BY <2>3 DEF Fe!Ahead
  <2> QED
    BY <1>3, <2>1, <2>2, <2>4
<1>9. ASSUME NEW i \in Lambdas, NEW r \in DOMAIN v4, Fe!Start(i, r)
      PROVE  v1'[a].count <= Cardinality(Done')
  <2> DEFINE w == [pc |-> "suppress", report |-> r, left |-> r.who]
             p == <<r, v4[r] + 1>>
  <2>1. /\ v6' = [v6 EXCEPT ![i] = w] /\ v4' = [v4 EXCEPT ![r] = @ + 1] /\ v1' = v1
        /\ \A j \in Fe!Working : v6[j].report # r
        /\ v6[i] = Fe!Idle
    BY <1>9 DEF Fe!Start, Fe!Goto
  <2>2. v4[r] \in Nat /\ v4'[r] = v4[r] + 1 /\ DOMAIN v4' = DOMAIN v4 /\ \A s \in DOMAIN v4 : s # r => v4'[s] = v4[s]
    BY <2>1, <1>0, BoundsAssumption
  <2>3. v6'[i] = w /\ w.report = r /\ \A j \in Lambdas : j # i => v6'[j] = v6[j]
    BY <2>1
  <2>4. Fe!Working' \subseteq Fe!Working \union {i}
    BY <2>3 DEF Fe!Working
  <2>5. Fe!Ahead(a)' \subseteq Fe!Ahead(a) \union {p}
    <3> HIDE DEF w
    <3>1. \A j \in Fe!Working' : j = i \/ (j \in Fe!Working /\ v6'[j] = v6[j] /\ v4'[v6[j].report] = v4[v6[j].report])
      BY <2>1, <2>2, <2>3, <2>4
    <3>2. <<v6'[i].report, v4'[v6'[i].report]>> = p
      BY <2>2, <2>3
    <3> HIDE DEF p
    <3> QED
      BY <3>1, <3>2 DEF Fe!Ahead
  <2>6. Fe!Tries \subseteq Fe!Tries' /\ p \notin Fe!Tries
    <3>1. \A q \in Fe!Tries : q[2] <= v4[q[1]] /\ q[1] \in DOMAIN v4 /\ q[2] \in Nat /\ q \in (DOMAIN v4) \X (1 .. MaxTries)
      BY BoundsAssumption DEF Fe!Tries
    <3>2. \A q \in Fe!Tries : q[2] <= v4'[q[1]]
      BY <3>1, <2>2, <1>0
    <3>3. p \notin Fe!Tries
      BY <2>2, <3>1
    <3> QED
      BY <2>2, <3>1, <3>2, <3>3 DEF Fe!Tries
  <2> HIDE DEF p, w
  <2> QED
    BY <1>3, <2>1, <2>5, <2>6
<1>10. ASSUME NEW i \in Lambdas, NEW b \in Receivers, Fe!Suppress(i, b)
      PROVE  v1'[a].count <= Cardinality(Done')
  <2>1. /\ v4' = v4 /\ Fe!Working' = Fe!Working /\ i \in Fe!Working /\ v6[i].pc = "suppress"
        /\ \A j \in Lambdas : /\ v6'[j].report = v6[j].report /\ v6'[j].left \subseteq v6[j].left
                              /\ v6'[j].pc = "suppress" => v6[j].pc = "suppress"
    BY <1>10, FeSuppresses
  <2>2. Done \subseteq Done' /\ Fe!Tries' = Fe!Tries
    BY <1>4, <2>1
  <2>3. CASE b # a
    <3>1. v1'[a] = v1[a]
      BY <1>10, <2>3, FeSuppresses DEF Fe!StateOK
    <3> QED
      BY <1>3, <2>2, <3>1
  <2>4. CASE b = a
    <3> DEFINE p == <<v6[i].report, v4[v6[i].report]>>
    <3>1. a \in v6[i].left /\ v6'[i].left = v6[i].left \ {a}
      BY <1>10, <2>4, FeSuppresses
    <3>2. p \in Fe!Tries
      BY <1>0, <2>1, BoundsAssumption DEF Fe!Tries
    <3>3. p \in Fe!Ahead(a)
      BY <2>1, <3>1 DEF Fe!Ahead
    <3>4. p \notin Fe!Ahead(a)'
      <4>1. \A j \in Fe!Working : <<v6[j].report, v4[v6[j].report]>> = p => j = i
        BY <1>0, <2>1
      <4> HIDE DEF p
      <4> QED
        BY <2>1, <3>1, <4>1 DEF Fe!Ahead
    <3> HIDE DEF p
    <3>5. p \notin Done /\ Done \union {p} \in SUBSET Done'
      BY <2>2, <3>2, <3>3, <3>4
    <3>6. Cardinality(Done \union {p}) = Cardinality(Done) + 1
      BY <1>1, <3>5, FS_AddElement
    <3>7. Cardinality(Done) + 1 <= Cardinality(Done')
      BY <1>1, <3>5, <3>6, FS_Subset
    <3>8. v1'[a].count = IF v1[a] = None THEN 1 ELSE v1[a].count + 1
      <4>1. v1'[a] = Fe!Suppressed(v1[a], v6[i].report.kind)
        BY <1>10, <2>4, FeSuppresses
      <4> QED
        BY <4>1 DEF Fe!Suppressed
    <3> HIDE DEF Done
    <3> QED
      BY <1>0, <1>1, <3>7, <3>8
  <2> QED
    BY <2>3, <2>4
<1>11. ASSUME NEW b \in Receivers, Fe!Expire(b)
      PROVE  v1'[a].count <= Cardinality(Done')
  <2>1. UNCHANGED <<v4, v6>> /\ v1'[a] = v1[a]
    BY <1>11 DEF Fe!Expire, Fe!StateOK
  <2> QED
    BY <1>7, <2>1
<1>12. ASSUME NEW i \in Lambdas, NEW failed \in BOOLEAN, Fe!DisableRules(i, failed) \/ Fe!Revert(i, failed)
      PROVE  v1'[a].count <= Cardinality(Done')
  <2>1. i \in Fe!Working /\ v4' = v4 /\ v1' = v1 /\ Fe!Goto(i, [v6[i] EXCEPT !.pc = "done"])
    BY <1>12 DEF Fe!DisableRules, Fe!Revert
  <2> QED
    BY <1>6, <2>1
<1>13. ASSUME NEW i \in Lambdas, Fe!SaveSignal(i)
      PROVE  v1'[a].count <= Cardinality(Done')
  <2>1. i \in Fe!Working /\ v4' = v4 /\ v1' = v1
    BY <1>13 DEF Fe!SaveSignal
  <2>2. \E pc \in {"revert", "done"} : Fe!Goto(i, [v6[i] EXCEPT !.pc = pc])
    BY <1>13 DEF Fe!SaveSignal
  <2> QED
    BY <1>6, <2>1, <2>2
<1>14. \A i \in Lambdas : Fe!Finish(i) \/ Fe!Fail(i) => v4' = v4 /\ v1' = v1 /\ Fe!Goto(i, Fe!Idle)
  BY DEF Fe!Finish, Fe!Fail
<1>15. Fe!Send => UNCHANGED <<v1, v4, v6>>
  BY DEF Fe!Send
<1> HIDE DEF Done
<1> QED
  BY <1>5, <1>7, <1>8, <1>9, <1>10, <1>11, <1>12, <1>13, <1>14, <1>15
     DEF Fe!Next, Fe!StartFeedback, Fe!StartNotice, Fe!SuppressBounced, Fe!SuppressComplained

\* What each step does to the work under way, as far as the reports that are past an address or
\* past the signal are concerned.
LEMMA FeSteps ==
  ASSUME Fe!StateOK, Fe!Next
  PROVE  \/ UNCHANGED <<v6, v9>>
         \/ \E i \in Lambdas, r \in DOMAIN v4 : Fe!Start(i, r)
         \/ \E i \in Lambdas, a \in Receivers : Fe!Suppress(i, a)
         \/ \E i \in Lambdas : /\ i \in Fe!Working /\ v1' = v1 /\ v4' = v4 /\ v9' = v9 /\ v10' = v10
                               /\ \E pc \in {"revert", "done"} : Fe!Goto(i, [v6[i] EXCEPT !.pc = pc])
                               /\ v6[i].pc \in {"rules", "signal", "revert"}
         \/ \E i \in Lambdas : /\ Fe!Goto(i, Fe!Idle) /\ UNCHANGED <<v1, v2, v4, v5, v10>>
                               /\ v9' = v9 \/ (v6[i].pc = "done" /\ v9' = v9 \union {v6[i].report})
<1>1. /\ Fe!Send \/ (\E r \in Fe!Report : Fe!Arise(r)) => UNCHANGED <<v6, v9>>
      /\ (\E a \in Receivers : Fe!Expire(a)) => UNCHANGED <<v6, v9>>
  BY DEF Fe!Send, Fe!Arise, Fe!Expire
<1>2. ASSUME NEW i \in Lambdas, NEW failed \in BOOLEAN,
             Fe!DisableRules(i, failed) \/ Fe!Revert(i, failed) \/ Fe!SaveSignal(i)
      PROVE  /\ i \in Fe!Working /\ v1' = v1 /\ v4' = v4 /\ v9' = v9 /\ v10' = v10
             /\ \E pc \in {"revert", "done"} : Fe!Goto(i, [v6[i] EXCEPT !.pc = pc])
             /\ v6[i].pc \in {"rules", "signal", "revert"}
  <2>1. i \in Fe!Working /\ v6[i].pc \in {"rules", "signal", "revert"}
    BY <1>2, FeWorkIs DEF Fe!DisableRules, Fe!Revert, Fe!SaveSignal
  <2>2. v1' = v1 /\ v4' = v4 /\ v9' = v9 /\ v10' = v10
    BY <1>2 DEF Fe!DisableRules, Fe!Revert, Fe!SaveSignal
  <2>3. \E pc \in {"revert", "done"} : Fe!Goto(i, [v6[i] EXCEPT !.pc = pc])
    BY <1>2 DEF Fe!DisableRules, Fe!Revert, Fe!SaveSignal
  <2> QED
    BY <2>1, <2>2, <2>3
<1>3. ASSUME NEW i \in Lambdas, Fe!Finish(i) \/ Fe!Fail(i)
      PROVE  /\ Fe!Goto(i, Fe!Idle) /\ UNCHANGED <<v1, v2, v4, v5, v10>>
             /\ v9' = v9 \/ (v6[i].pc = "done" /\ v9' = v9 \union {v6[i].report})
  BY <1>3 DEF Fe!Finish, Fe!Fail, Fe!LeftToRetry
<1> QED
  BY <1>1, <1>2, <1>3
     DEF Fe!Next, Fe!StartFeedback, Fe!StartNotice, Fe!SuppressBounced, Fe!SuppressComplained

\* An address a report has passed stays on the list, unless a soft bounce gave its entry an end.
LEMMA FeStays == Fe!StateOK /\ Fe!StateOK' /\ Fe!StaysListed /\ Fe!Next => Fe!StaysListed'
<1> SUFFICES ASSUME Fe!StateOK, Fe!StateOK', Fe!StaysListed, Fe!Next PROVE Fe!StaysListed'
  OBVIOUS
<1> DEFINE Kept(a) == Fe!Softly(a) \/ v1[a] # None
<1>0. /\ v1 \in [Receivers -> Fe!Entry \union {None}] /\ \A e \in Fe!Entry : e # None
      /\ v9 \subseteq DOMAIN v4 /\ \A r \in DOMAIN v4 : r \in Fe!Report /\ r.who \subseteq Receivers
  BY NoneAssumption DEF Fe!StateOK, Fe!Report
<1>1. DOMAIN v4 \subseteq DOMAIN v4'
  <2>1. \A r \in Fe!Report : Fe!Arise(r) => DOMAIN v4 \subseteq DOMAIN v4'
    BY DEF Fe!Arise
  <2>2. \A i \in Lambdas, r \in DOMAIN v4 : Fe!Start(i, r) => DOMAIN v4 \subseteq DOMAIN v4'
    BY DEF Fe!Start
  <2>3. \A a \in Receivers : Fe!Expire(a) => v4' = v4
    BY DEF Fe!Expire
  <2>4. \A i \in Lambdas, a \in Receivers : Fe!Suppress(i, a) => v4' = v4
    BY DEF Fe!Suppress
  <2>5. \A i \in Lambdas, failed \in BOOLEAN : Fe!DisableRules(i, failed) \/ Fe!Revert(i, failed) => v4' = v4
    BY DEF Fe!DisableRules, Fe!Revert
  <2>6. \A i \in Lambdas : Fe!SaveSignal(i) \/ Fe!Finish(i) \/ Fe!Fail(i) => v4' = v4
    BY DEF Fe!SaveSignal, Fe!Finish, Fe!Fail
  <2>7. Fe!Send => v4' = v4
    BY DEF Fe!Send
  <2> QED
    BY <2>1, <2>2, <2>3, <2>4, <2>5, <2>6, <2>7
       DEF Fe!Next, Fe!StartFeedback, Fe!StartNotice, Fe!SuppressBounced, Fe!SuppressComplained
<1>2. \A a : Fe!Softly(a) => Fe!Softly(a)'
  BY <1>1 DEF Fe!Softly
<1>3. \/ v1' = v1
      \/ \E a \in Receivers : Fe!Expire(a)
      \/ \E i \in Lambdas, a \in Receivers : Fe!Suppress(i, a)
  <2>1. \A i \in Lambdas, r \in DOMAIN v4 : Fe!Start(i, r) => v1' = v1
    BY DEF Fe!Start
  <2>2. (\E r \in Fe!Report : Fe!Arise(r)) \/ Fe!Send => v1' = v1
    BY DEF Fe!Arise, Fe!Send
  <2>3. \A i \in Lambdas, failed \in BOOLEAN : Fe!DisableRules(i, failed) \/ Fe!Revert(i, failed) => v1' = v1
    BY DEF Fe!DisableRules, Fe!Revert
  <2>4. \A i \in Lambdas : Fe!SaveSignal(i) \/ Fe!Finish(i) \/ Fe!Fail(i) => v1' = v1
    BY DEF Fe!SaveSignal, Fe!Finish, Fe!Fail
  <2> QED
    BY <2>1, <2>2, <2>3, <2>4
       DEF Fe!Next, Fe!StartFeedback, Fe!StartNotice, Fe!SuppressBounced, Fe!SuppressComplained
\* An entry with an end has a soft bounce, and only such a one is deleted.
<1>4. ASSUME NEW a \in Receivers
      PROVE  (Kept(a) => Kept(a)') /\ (v1'[a] # None /\ v1'[a].ttl => Fe!Softly(a)')
  <2>1. ASSUME NEW b \in Receivers, Fe!Expire(b)
        PROVE  (Kept(a) => Kept(a)') /\ (v1'[a] # None /\ v1'[a].ttl => Fe!Softly(a)')
    BY <1>0, <1>2, <2>1 DEF Fe!Expire, Fe!StaysListed
  <2>2. ASSUME NEW i \in Lambdas, NEW b \in Receivers, Fe!Suppress(i, b)
        PROVE  (Kept(a) => Kept(a)') /\ (v1'[a] # None /\ v1'[a].ttl => Fe!Softly(a)')
    <3>1. CASE a # b
      <4>1. v1'[a] = v1[a]
        BY <1>0, <2>2, <3>1, FeSuppresses
      <4> QED
        BY <1>2, <4>1 DEF Fe!StaysListed
    <3>2. CASE a = b
      <4>1. /\ v1'[a] = Fe!Suppressed(v1[a], v6[i].report.kind) /\ v1'[a] \in Fe!Entry
            /\ a \in v6[i].left /\ i \in Fe!Working
        BY <2>2, <3>2, FeSuppresses
      <4>2. v6[i].report \in DOMAIN v4 /\ a \in v6[i].report.who
        BY <4>1, FeWorkIs
      <4>3. v1'[a].ttl => v6[i].report.kind = "soft" \/ (v1[a] # None /\ v1[a].ttl)
        <5> DEFINE ends == v6[i].report.kind = "soft" \/ (v1[a] # None /\ v1[a].ttl)
                   count == IF v1[a] = None THEN 1 ELSE v1[a].count + 1
        <5>1. v1'[a] = [ttl |-> ends, count |-> count]
          BY <4>1 DEF Fe!Suppressed, Fe!HasTtl
        <5>2. ends \in BOOLEAN
          OBVIOUS
        <5> HIDE DEF ends, count
        <5>3. v1'[a].ttl = ends
          BY <5>1
        <5>4. v1'[a].ttl => ends
          BY <5>2, <5>3
        <5> QED
          BY <5>4 DEF ends
      <4>4. v1'[a].ttl => Fe!Softly(a)
        BY <4>2, <4>3 DEF Fe!Softly, Fe!StaysListed
      <4> QED
        BY <1>0, <1>2, <4>1, <4>4
    <3> QED
      BY <3>1, <3>2
  <2>3. CASE v1' = v1
    BY <1>2, <2>3 DEF Fe!StaysListed
  <2> QED
    BY <1>3, <2>1, <2>2, <2>3
<1>5. \A r \in v9 : \A a \in r.who : Kept(a)'
  BY <1>0, <1>4 DEF Fe!StaysListed
<1>6. \A i \in Fe!Working : \A a \in Fe!Passed(v6[i]) : Kept(a)'
  <2>1. \A i \in Fe!Working : Fe!Passed(v6[i]) \subseteq Receivers
    BY FeWorkIs DEF Fe!Passed
  <2> QED
    BY <1>4, <2>1 DEF Fe!StaysListed
<1> HIDE DEF Kept
<1>7. SUFFICES ASSUME TRUE
               PROVE  /\ \A r \in v9' : \A a \in r.who : Kept(a)'
                      /\ \A i \in Fe!Working' : \A a \in Fe!Passed(v6[i])' : Kept(a)'
  BY <1>4 DEF Fe!StaysListed, Kept
<1>8. ASSUME v9' \subseteq v9, NEW i \in Lambdas, \A j \in Fe!Working' : j # i => j \in Fe!Working /\ v6'[j] = v6[j],
             i \in Fe!Working' => \A a \in Fe!Passed(v6[i])' : Kept(a)'
      PROVE  /\ \A r \in v9' : \A a \in r.who : Kept(a)'
             /\ \A j \in Fe!Working' : \A a \in Fe!Passed(v6[j])' : Kept(a)'
  BY <1>5, <1>6, <1>8 DEF Fe!Passed
<1>9. CASE UNCHANGED <<v6, v9>>
  BY <1>5, <1>6, <1>9 DEF Fe!Passed, Fe!Working
<1>10. ASSUME NEW i \in Lambdas, NEW r \in DOMAIN v4, Fe!Start(i, r)
       PROVE  /\ \A s \in v9' : \A a \in s.who : Kept(a)'
              /\ \A j \in Fe!Working' : \A a \in Fe!Passed(v6[j])' : Kept(a)'
  <2>1. v6' = [v6 EXCEPT ![i] = [pc |-> "suppress", report |-> r, left |-> r.who]] /\ v9' = v9
    BY <1>10 DEF Fe!Start, Fe!Goto
  <2>2. v6'[i] = [pc |-> "suppress", report |-> r, left |-> r.who] /\ \A j \in Lambdas : j # i => v6'[j] = v6[j]
    BY <2>1, FeWorkIs
  <2>3. \A j \in Fe!Working' : j # i => j \in Fe!Working /\ v6'[j] = v6[j]
    BY <2>2 DEF Fe!Working
  <2>4. \A a : a \notin Fe!Passed(v6[i])'
    BY <2>2 DEF Fe!Passed
  <2> QED
    BY <1>8, <2>1, <2>3, <2>4
<1>11. ASSUME NEW i \in Lambdas, NEW b \in Receivers, Fe!Suppress(i, b)
       PROVE  /\ \A s \in v9' : \A a \in s.who : Kept(a)'
              /\ \A j \in Fe!Working' : \A a \in Fe!Passed(v6[j])' : Kept(a)'
  <2>1. /\ v9' = v9 /\ i \in Fe!Working /\ \A j \in Fe!Working' : j # i => j \in Fe!Working /\ v6'[j] = v6[j]
        /\ v6[i].pc = "suppress" /\ v6'[i].report = v6[i].report /\ v6'[i].left = v6[i].left \ {b}
        /\ v6'[i].pc = "suppress" \/ v6[i].left = {b}
        /\ v1'[b] \in Fe!Entry
    BY <1>11, FeSuppresses DEF Fe!Working
  <2>2. Fe!Passed(v6[i])' \subseteq Fe!Passed(v6[i]) \union {b}
    BY <2>1 DEF Fe!Passed
  <2>3. Kept(b)'
    BY <1>0, <2>1 DEF Kept
  <2> QED
    BY <1>6, <1>8, <2>1, <2>2, <2>3
<1>12. ASSUME NEW i \in Lambdas, NEW pc \in {"revert", "done"}, i \in Fe!Working, v9' = v9,
              Fe!Goto(i, [v6[i] EXCEPT !.pc = pc]), v6[i].pc \in {"rules", "signal", "revert"}
       PROVE  /\ \A s \in v9' : \A a \in s.who : Kept(a)'
              /\ \A j \in Fe!Working' : \A a \in Fe!Passed(v6[j])' : Kept(a)'
  <2>1. /\ \A j \in Fe!Working' : j # i => j \in Fe!Working /\ v6'[j] = v6[j]
        /\ v6'[i].report = v6[i].report /\ v6'[i].pc = pc
    BY <1>12, FeGoesTo DEF Fe!Working
  <2>2. Fe!Passed(v6[i])' = Fe!Passed(v6[i])
    BY <1>12, <2>1 DEF Fe!Passed
  <2> QED
    BY <1>6, <1>8, <1>12, <2>1, <2>2
<1>13. ASSUME NEW i \in Lambdas, Fe!Goto(i, Fe!Idle),
              v9' = v9 \/ (v6[i].pc = "done" /\ v9' = v9 \union {v6[i].report})
       PROVE  /\ \A s \in v9' : \A a \in s.who : Kept(a)'
              /\ \A j \in Fe!Working' : \A a \in Fe!Passed(v6[j])' : Kept(a)'
  <2>1. i \notin Fe!Working' /\ \A j \in Fe!Working' : j \in Fe!Working /\ v6'[j] = v6[j]
    BY <1>13, FeLetsGo, FeWorkIs
  <2>2. \A j \in Fe!Working' : \A a \in Fe!Passed(v6[j])' : Kept(a)'
    BY <1>6, <2>1 DEF Fe!Passed
  <2>3. v6[i].pc = "done" => \A a \in v6[i].report.who : Kept(a)'
    BY <1>6, FeWorkIs DEF Fe!Passed
  <2> QED
    BY <1>5, <1>13, <2>2, <2>3
<1> QED
  BY <1>9, <1>10, <1>11, <1>12, <1>13, FeSteps

\* The signal is saved before the report of a linked bounce is done.
LEMMA FeShown == Fe!StateOK /\ Fe!StateOK' /\ Fe!ShownFirst /\ Fe!Next => Fe!ShownFirst'
<1> SUFFICES ASSUME Fe!StateOK, Fe!StateOK', Fe!ShownFirst, Fe!Next PROVE Fe!ShownFirst'
  OBVIOUS
<1> DEFINE Shown(r) == r.kind # "complaint" /\ Fe!Linked(r) => r \in v5
           Ready(w) == /\ w.pc = "rules" => Fe!DisableForwarding(w.report)
                       /\ w.pc \in {"revert", "done"} => Shown(w.report)
<1>0. (\A r \in v9 : Shown(r)) /\ (\A i \in Fe!Working : Ready(v6[i]))
  BY DEF Fe!ShownFirst
<1>1. v5 \subseteq v5'
  <2>1. \A i \in Lambdas, r \in DOMAIN v4 : Fe!Start(i, r) => v5' = v5
    BY DEF Fe!Start
  <2>2. (\E r \in Fe!Report : Fe!Arise(r)) \/ Fe!Send => v5' = v5
    BY DEF Fe!Arise, Fe!Send
  <2>3. \A i \in Lambdas, failed \in BOOLEAN : Fe!DisableRules(i, failed) \/ Fe!Revert(i, failed) => v5' = v5
    BY DEF Fe!DisableRules, Fe!Revert
  <2>4. \A i \in Lambdas : Fe!SaveSignal(i) \/ Fe!Finish(i) \/ Fe!Fail(i) => v5 \subseteq v5'
    BY DEF Fe!SaveSignal, Fe!Finish, Fe!Fail
  <2>5. \A a \in Receivers : Fe!Expire(a) => v5' = v5
    BY DEF Fe!Expire
  <2>6. \A i \in Lambdas, a \in Receivers : Fe!Suppress(i, a) => v5' = v5
    BY DEF Fe!Suppress
  <2> QED
    BY <2>1, <2>2, <2>3, <2>4, <2>5, <2>6
       DEF Fe!Next, Fe!StartFeedback, Fe!StartNotice, Fe!SuppressBounced, Fe!SuppressComplained
<1>2. \A r : Shown(r) => Shown(r)'
  BY <1>1
<1>3. \A r \in v9 : Shown(r)'
  BY <1>0, <1>2
<1>4. \A i \in Fe!Working : \A w : w = v6[i] => Ready(w)'
  BY <1>0, <1>2
<1> HIDE DEF Shown
<1>5. SUFFICES ASSUME TRUE
               PROVE  (\A r \in v9' : Shown(r)') /\ (\A i \in Fe!Working' : \A w : w = v6'[i] => Ready(w)')
  BY DEF Fe!ShownFirst, Shown
<1>6. ASSUME v9' = v9, NEW i \in Lambdas, \A j \in Fe!Working' : j # i => j \in Fe!Working /\ v6'[j] = v6[j],
             i \in Fe!Working' => \A w : w = v6'[i] => Ready(w)'
      PROVE  (\A r \in v9' : Shown(r)') /\ (\A j \in Fe!Working' : \A w : w = v6'[j] => Ready(w)')
  <2> HIDE DEF Ready
  <2> QED
    BY <1>3, <1>4, <1>6
<1>7. CASE UNCHANGED <<v6, v9>>
  <2>1. Fe!Working' = Fe!Working
    BY <1>7 DEF Fe!Working
  <2> HIDE DEF Ready
  <2> QED
    BY <1>3, <1>4, <1>7, <2>1
<1>8. ASSUME NEW i \in Lambdas, NEW r \in DOMAIN v4, Fe!Start(i, r)
      PROVE  (\A s \in v9' : Shown(s)') /\ (\A j \in Fe!Working' : \A w : w = v6'[j] => Ready(w)')
  <2>1. v6' = [v6 EXCEPT ![i] = [pc |-> "suppress", report |-> r, left |-> r.who]] /\ v9' = v9
    BY <1>8 DEF Fe!Start, Fe!Goto
  <2>2. v6'[i].pc = "suppress" /\ \A j \in Lambdas : j # i => v6'[j] = v6[j]
    BY <2>1, FeWorkIs
  <2>3. \A j \in Fe!Working' : j # i => j \in Fe!Working /\ v6'[j] = v6[j]
    BY <2>2 DEF Fe!Working
  <2> QED
    BY <1>6, <2>1, <2>2, <2>3
<1>9. ASSUME NEW i \in Lambdas, NEW b \in Receivers, Fe!Suppress(i, b)
      PROVE  (\A s \in v9' : Shown(s)') /\ (\A j \in Fe!Working' : \A w : w = v6'[j] => Ready(w)')
  <2>1. /\ v9' = v9 /\ \A j \in Fe!Working' : j # i => j \in Fe!Working /\ v6'[j] = v6[j]
        /\ v6'[i].report = v6[i].report
        /\ v6'[i].pc = "suppress" \/ v6'[i].pc = Fe!AfterSuppressing(v6[i].report)
    BY <1>9, FeSuppresses DEF Fe!Working
  <2>2. LET r == v6[i].report IN
        /\ Fe!AfterSuppressing(r) = "rules" => Fe!DisableForwarding(r)
        /\ Fe!AfterSuppressing(r) \in {"rules", "signal", "done"}
        /\ Fe!AfterSuppressing(r) = "done" => r.kind = "complaint" \/ ~Fe!Linked(r)
    BY DEF Fe!AfterSuppressing
  <2>3. \A w : w = v6'[i] => Ready(w)'
    BY <2>1, <2>2 DEF Shown
  <2> QED
    BY <1>6, <2>1, <2>3
<1>10. ASSUME NEW i \in Lambdas, NEW failed \in BOOLEAN,
              Fe!DisableRules(i, failed) \/ Fe!Revert(i, failed) \/ Fe!SaveSignal(i)
       PROVE  (\A s \in v9' : Shown(s)') /\ (\A j \in Fe!Working' : \A w : w = v6'[j] => Ready(w)')
  <2>1. PICK pc \in {"revert", "done"} : Fe!Goto(i, [v6[i] EXCEPT !.pc = pc])
    BY <1>10 DEF Fe!DisableRules, Fe!Revert, Fe!SaveSignal
  <2>2. i \in Fe!Working /\ v9' = v9
    BY <1>10, FeWorkIs DEF Fe!DisableRules, Fe!Revert, Fe!SaveSignal
  <2>3. /\ \A j \in Fe!Working' : j # i => j \in Fe!Working /\ v6'[j] = v6[j]
        /\ v6'[i].report = v6[i].report /\ v6'[i].pc = pc
    BY <2>1, <2>2, FeGoesTo DEF Fe!Working
  <2>4. \A r : r = v6[i].report => Shown(r)'
    <3>1. CASE v6[i].pc = "rules"
      <4>1. Fe!DisableForwarding(v6[i].report)
        BY <1>0, <2>2, <3>1
      <4>2. ~Fe!Linked(v6[i].report)
        BY <4>1 DEF Fe!DisableForwarding, Fe!Linked, Fe!LinkedByTags, Fe!LinkedByMessageId, Fe!IsDraft
      <4> QED
        BY <4>2 DEF Shown
    <3>2. CASE v6[i].pc = "signal"
      <4>1. v6[i].report \in v5'
        BY <1>10, <3>2 DEF Fe!DisableRules, Fe!Revert, Fe!SaveSignal
      <4> QED
        BY <4>1 DEF Shown
    <3>3. CASE v6[i].pc = "revert"
      BY <1>4, <2>2, <3>3
    <3> QED
      BY <1>10, <3>1, <3>2, <3>3 DEF Fe!DisableRules, Fe!Revert, Fe!SaveSignal
  <2>5. \A w : w = v6'[i] => Ready(w)'
    BY <2>3, <2>4
  <2> QED
    BY <1>6, <2>2, <2>3, <2>5
<1>11. ASSUME NEW i \in Lambdas, Fe!Goto(i, Fe!Idle),
              v9' = v9 \/ (v6[i].pc = "done" /\ v9' = v9 \union {v6[i].report})
       PROVE  (\A s \in v9' : Shown(s)') /\ (\A j \in Fe!Working' : \A w : w = v6'[j] => Ready(w)')
  <2>1. i \notin Fe!Working' /\ \A j \in Fe!Working' : j \in Fe!Working /\ v6'[j] = v6[j]
    BY <1>11, FeLetsGo, FeWorkIs
  <2>2. v6[i].pc = "done" => i \in Fe!Working /\ \A r : r = v6[i].report => Shown(r)'
    BY <1>4, FeWorkIs
  <2> HIDE DEF Ready
  <2> QED
    BY <1>3, <1>4, <1>11, <2>1, <2>2
<1>12. /\ Fe!Send \/ (\E r \in Fe!Report : Fe!Arise(r)) => UNCHANGED <<v6, v9>>
       /\ (\E a \in Receivers : Fe!Expire(a)) => UNCHANGED <<v6, v9>>
  BY DEF Fe!Send, Fe!Arise, Fe!Expire
<1>13. \A i \in Lambdas : Fe!Finish(i) \/ Fe!Fail(i) =>
         /\ Fe!Goto(i, Fe!Idle)
         /\ v9' = v9 \/ (v6[i].pc = "done" /\ v9' = v9 \union {v6[i].report})
  BY DEF Fe!Finish, Fe!Fail, Fe!LeftToRetry
<1> HIDE DEF Ready
<1> QED
  BY <1>7, <1>8, <1>9, <1>10, <1>11, <1>12, <1>13
     DEF Fe!Next, Fe!StartFeedback, Fe!StartNotice, Fe!SuppressBounced, Fe!SuppressComplained

\* Of one send, one report at most can give the draft back: the one that names everybody.
LEMMA FeOneRevert ==
  ASSUME NEW r \in Fe!Report, NEW s \in Fe!Report, Fe!RevertToDraft(r), Fe!RevertToDraft(s),
         r.attempt = s.attempt
  PROVE  r = s /\ r.who = Receivers
<1>1. r.who = Receivers /\ s.who = Receivers
  BY DEF Fe!RevertToDraft, Fe!Report
<1>2. r.of = s.of /\ r.dsn = s.dsn /\ r.kind = s.kind
  BY DEF Fe!RevertToDraft, Fe!LinkedByTags, Fe!IsDraft, Fe!Report
<1>3. \A t \in Fe!Report : t = [of |-> t.of, dsn |-> t.dsn, kind |-> t.kind, who |-> t.who, attempt |-> t.attempt]
  BY DEF Fe!Report
<1> QED
  BY <1>1, <1>2, <1>3

\* A report that may give the draft back is of the last send until another is sent, which only
\* the draft that was given back can be.
LEMMA FeThisSend == Fe!StateOK /\ Fe!StateOK' /\ Fe!OfThisSend /\ Fe!Next => Fe!OfThisSend'
<1> SUFFICES ASSUME Fe!StateOK, Fe!StateOK', Fe!OfThisSend, Fe!Next PROVE Fe!OfThisSend'
  OBVIOUS
<1> DEFINE Deserves(w) == w.pc = "revert" => Fe!RevertToDraft(w.report)
           Current(w) == w.pc # "done" /\ Fe!RevertToDraft(w.report) =>
                           v2.status = "sent" /\ w.report.attempt = v2.attempt
           Known(r) == Fe!IsDraft(r) => r.attempt \in 1 .. v2.attempt
           GivenBack == v2.status = "draft" /\ v2.attempt > 0 =>
             \E r \in DOMAIN v4 : Fe!RevertToDraft(r) /\ r.attempt = v2.attempt /\ v4[r] > 0
<1>0. /\ \A i \in Fe!Working : Deserves(v6[i])
      /\ ~v10 => GivenBack /\ \A i \in Fe!Working : Current(v6[i])
      /\ \A r \in DOMAIN v4 : Known(r)
      /\ v2.attempt \in Nat
  BY BoundsAssumption DEF Fe!OfThisSend, Fe!StateOK
<1>1. ASSUME \A r \in DOMAIN v4' : Known(r)',
             \A i \in Fe!Working' : \A w : w = v6'[i] => Deserves(w),
             ~v10' => GivenBack' /\ \A i \in Fe!Working' : \A w : w = v6'[i] => Current(w)'
      PROVE  Fe!OfThisSend'
  BY <1>1 DEF Fe!OfThisSend
\* One invocation moves, and the draft stays as it is.
<1>2. ASSUME v10' = v10, v2' = v2, v4' = v4, NEW i \in Lambdas,
             \A j \in Fe!Working' : j # i => j \in Fe!Working /\ v6'[j] = v6[j],
             i \in Fe!Working' => \A w : w = v6'[i] => Deserves(w) /\ (~v10 => Current(w))
      PROVE  Fe!OfThisSend'
  <2>1. \A j \in Fe!Working' : \A w : w = v6'[j] => Deserves(w)
    <3> HIDE DEF Deserves, Current, GivenBack
    <3> QED
      BY <1>0, <1>2
  <2>2. ASSUME ~v10
        PROVE  \A j \in Fe!Working' : \A w : w = v6'[j] => Current(w)
    <3> HIDE DEF Deserves, Current, GivenBack
    <3> QED
      BY <1>0, <1>2, <2>2
  <2>3. GivenBack' = GivenBack /\ (\A w : Current(w)' = Current(w)) /\ \A r : Known(r)' = Known(r)
    BY <1>2
  <2> HIDE DEF Deserves, Current, GivenBack, Known
  <2> QED
    BY <1>0, <1>1, <1>2, <2>1, <2>2, <2>3
<1>3. CASE Fe!Send
  <2>1. /\ v2.status = "draft" /\ v2'.status = "sent" /\ UNCHANGED <<v4, v6, v10>>
    BY <1>3 DEF Fe!Send
  <2>2. Fe!Working' = Fe!Working
    BY <2>1 DEF Fe!Working
  <2>3. ~v10 => \A i \in Fe!Working : ~(v6[i].pc # "done" /\ Fe!RevertToDraft(v6[i].report))
    BY <1>0, <2>1
  <2>4. GivenBack'
    BY <2>1
  <2>5. v2'.attempt = v2.attempt + 1
    BY <1>3 DEF Fe!Send
  <2>6. \A r \in DOMAIN v4' : Known(r)'
    BY <1>0, <2>1, <2>5
  <2>7. \A i \in Fe!Working' : \A w : w = v6'[i] => Deserves(w)
    BY <1>0, <2>1, <2>2
  <2>8. ~v10' => \A i \in Fe!Working' : \A w : w = v6'[i] => Current(w)'
    BY <2>1, <2>2, <2>3
  <2> HIDE DEF Deserves, Current, GivenBack, Known
  <2> QED
    BY <1>1, <2>4, <2>6, <2>7, <2>8
<1>4. ASSUME NEW r \in Fe!Report, Fe!Arise(r)
      PROVE  Fe!OfThisSend'
  <2>1. /\ v4' = [s \in DOMAIN v4 \union {r} |-> IF s = r THEN 0 ELSE v4[s]] /\ r \notin DOMAIN v4
        /\ UNCHANGED <<v2, v6, v10>>
    BY <1>4 DEF Fe!Arise
  <2>2. Fe!Working' = Fe!Working /\ \A w : Current(w)' = Current(w)
    BY <2>1 DEF Fe!Working
  <2>3. DOMAIN v4 \subseteq DOMAIN v4' /\ \A s \in DOMAIN v4 : v4'[s] = v4[s]
    BY <2>1
  <2>4. GivenBack => GivenBack'
    BY <2>1, <2>3
  <2>5. Known(r)
    BY <1>0, <1>4 DEF Fe!Arise, Fe!Possible, Fe!IsDraft, Fe!Report
  <2>6. \A s \in DOMAIN v4' : Known(s)'
    BY <1>0, <2>1, <2>5
  <2> HIDE DEF Deserves, Current, GivenBack, Known
  <2> QED
    BY <1>0, <1>1, <2>1, <2>2, <2>4, <2>6
<1>5. ASSUME NEW a \in Receivers, Fe!Expire(a)
      PROVE  Fe!OfThisSend'
  <2>1. UNCHANGED <<v2, v4, v6, v10>>
    BY <1>5 DEF Fe!Expire
  <2> QED
    BY <2>1 DEF Fe!OfThisSend, Fe!Working
<1>6. ASSUME NEW i \in Lambdas, NEW r \in DOMAIN v4, Fe!Start(i, r)
      PROVE  Fe!OfThisSend'
  <2> DEFINE w == [pc |-> "suppress", report |-> r, left |-> r.who]
  <2>1. /\ v6' = [v6 EXCEPT ![i] = w] /\ v4' = [v4 EXCEPT ![r] = @ + 1] /\ v2' = v2
        /\ ~v10' => ~v10 /\ ~(v4[r] > 0) /\ ~(Fe!IsDraft(r) /\ r.attempt < v2.attempt)
    BY <1>6 DEF Fe!Start, Fe!Goto
  <2>2. v6'[i] = w /\ w.pc = "suppress" /\ w.report = r /\ \A j \in Lambdas : j # i => v6'[j] = v6[j]
    BY <2>1, FeWorkIs
  <2> HIDE DEF w
  <2>3. \A j \in Fe!Working' : j # i => j \in Fe!Working /\ v6'[j] = v6[j]
    BY <2>2 DEF Fe!Working
  <2>4. \A j \in Fe!Working' : \A x : x = v6'[j] => Deserves(x)
    BY <1>0, <2>2, <2>3
  <2>5. /\ DOMAIN v4' = DOMAIN v4 /\ \A s \in DOMAIN v4 : v4[s] > 0 => v4'[s] > 0
        /\ r \in Fe!Report /\ \A s \in DOMAIN v4 : s \in Fe!Report
    <3>1. v4 \in [DOMAIN v4 -> 0 .. MaxTries] /\ v4[r] \in Int
      BY BoundsAssumption DEF Fe!StateOK
    <3> QED
      BY <2>1, <3>1 DEF Fe!StateOK
  <2>6. GivenBack => GivenBack'
    BY <2>1, <2>5
  <2>7. \A x : Current(x)' = Current(x)
    BY <2>1
  <2>8. ASSUME ~v10', Fe!RevertToDraft(r)
        PROVE  v2.status = "sent" /\ r.attempt = v2.attempt
    <3>1. Fe!IsDraft(r)
      BY <2>8 DEF Fe!RevertToDraft, Fe!LinkedByTags
    <3>2. r.attempt = v2.attempt /\ v2.attempt > 0
      BY <1>0, <2>1, <2>8, <3>1
    <3>3. v2.status # "draft"
      <4> SUFFICES ASSUME v2.status = "draft" PROVE FALSE
        OBVIOUS
      <4>1. PICK s \in DOMAIN v4 : Fe!RevertToDraft(s) /\ s.attempt = v2.attempt /\ v4[s] > 0
        BY <1>0, <2>1, <2>8, <3>2
      <4>2. s = r
        BY <2>5, <2>8, <3>2, <4>1, FeOneRevert
      <4> QED
        BY <2>1, <2>8, <4>1, <4>2
    <3>4. v2.status \in {"draft", "sent"}
      BY DEF Fe!StateOK
    <3> QED
      BY <3>2, <3>3, <3>4
  <2>9. ASSUME ~v10'
        PROVE  \A j \in Fe!Working' : \A x : x = v6'[j] => Current(x)
    BY <1>0, <2>1, <2>2, <2>3, <2>8, <2>9
  <2>10. \A s \in DOMAIN v4' : Known(s)'
    BY <1>0, <2>1, <2>5
  <2> HIDE DEF Deserves, Current, GivenBack, Known
  <2> QED
    BY <1>0, <1>1, <2>1, <2>4, <2>6, <2>7, <2>9, <2>10
<1>7. ASSUME NEW i \in Lambdas, NEW a \in Receivers, Fe!Suppress(i, a)
      PROVE  Fe!OfThisSend'
  <2>1. /\ v10' = v10 /\ v2' = v2 /\ v4' = v4 /\ i \in Fe!Working
        /\ \A j \in Fe!Working' : j # i => j \in Fe!Working /\ v6'[j] = v6[j]
        /\ v6'[i].report = v6[i].report /\ v6[i].pc = "suppress" /\ v6'[i].pc # "revert"
    BY <1>7, FeSuppresses DEF Fe!Working
  <2>2. \A w : w = v6'[i] => Deserves(w) /\ (~v10 => Current(w))
    BY <1>0, <2>1
  <2> HIDE DEF Deserves, Current
  <2> QED
    BY <1>2, <2>1, <2>2
<1>8. ASSUME NEW i \in Lambdas, Fe!SaveSignal(i) \/ \E failed \in BOOLEAN : Fe!DisableRules(i, failed)
      PROVE  Fe!OfThisSend'
  <2>1. /\ v10' = v10 /\ v2' = v2 /\ v4' = v4 /\ i \in Fe!Working /\ v6[i].pc # "done"
    BY <1>8, FeWorkIs DEF Fe!SaveSignal, Fe!DisableRules
  <2>2. PICK pc \in {"revert", "done"} : Fe!Goto(i, [v6[i] EXCEPT !.pc = pc])
                                        /\ (pc = "revert" => Fe!RevertToDraft(v6[i].report))
    BY <1>8 DEF Fe!SaveSignal, Fe!DisableRules
  <2>3. /\ \A j \in Lambdas : j # i => v6'[j] = v6[j]
        /\ Fe!Working' = Fe!Working /\ Fe!Working \subseteq Lambdas
        /\ v6'[i].report = v6[i].report /\ v6'[i].pc = pc
    <3>1. Fe!Goto(i, [v6[i] EXCEPT !.pc = pc])
      BY <2>2
    <3> QED
      BY <2>1, <3>1, FeGoesTo, FeWorkIs
  <2>4. \A w : w = v6'[i] => Deserves(w)
    BY <2>2, <2>3
  <2>5. \A w : w = v6'[i] => (~v10 => Current(w))
    BY <1>0, <2>1, <2>3
  <2> HIDE DEF Deserves, Current
  <2> QED
    BY <1>2, <2>1, <2>3, <2>4, <2>5
<1>9. ASSUME NEW i \in Lambdas, Fe!Finish(i) \/ Fe!Fail(i)
      PROVE  Fe!OfThisSend'
  <2>1. v10' = v10 /\ v2' = v2 /\ v4' = v4 /\ Fe!Goto(i, Fe!Idle)
    BY <1>9 DEF Fe!Finish, Fe!Fail
  <2>2. i \notin Fe!Working' /\ \A j \in Fe!Working' : j \in Fe!Working /\ v6'[j] = v6[j]
    BY <2>1, FeLetsGo, FeWorkIs
  <2> HIDE DEF Deserves, Current
  <2> QED
    BY <1>2, <2>1, <2>2
<1>10. ASSUME NEW i \in Lambdas, NEW failed \in BOOLEAN, Fe!Revert(i, failed)
       PROVE  Fe!OfThisSend'
  <2>1. /\ v10' = v10 /\ v4' = v4 /\ i \in Fe!Working /\ v6[i].pc = "revert"
        /\ Fe!Goto(i, [v6[i] EXCEPT !.pc = "done"])
        /\ v2' = v2 \/ v2' = [v2 EXCEPT !.status = "draft"]
    BY <1>10, FeWorkIs DEF Fe!Revert
  <2>2. /\ Fe!Working' = Fe!Working /\ \A j \in Fe!Working' : j # i => v6'[j] = v6[j]
        /\ v6'[i].report = v6[i].report /\ v6'[i].pc = "done"
    BY <2>1, FeGoesTo, FeWorkIs
  <2>3. Fe!RevertToDraft(v6[i].report) /\ v6[i].report \in DOMAIN v4 /\ v4[v6[i].report] > 0
    BY <1>0, <2>1 DEF Fe!StateOK
  <2>4. \A w : w = v6'[i] => Deserves(w) /\ Current(w)
    BY <2>2
  <2>5. CASE v2' = v2
    <3> HIDE DEF Deserves, Current
    <3> QED
      BY <1>2, <2>1, <2>2, <2>4, <2>5
  <2>6. CASE v2' = [v2 EXCEPT !.status = "draft"]
    <3>1. v2'.attempt = v2.attempt
      BY <2>6 DEF Fe!StateOK
    <3>2. \A r \in DOMAIN v4' : Known(r)'
      BY <1>0, <2>1, <3>1
    <3>3. \A j \in Fe!Working' : \A w : w = v6'[j] => Deserves(w)
      BY <1>0, <2>2, <2>4
    <3>4. ASSUME ~v10
          PROVE  GivenBack' /\ \A j \in Fe!Working' : \A w : w = v6'[j] => Current(w)'
      <4>1. v6[i].report.attempt = v2.attempt
        BY <1>0, <2>1, <2>3, <3>4
      <4>2. GivenBack'
        BY <2>1, <2>3, <3>1, <4>1
      <4>3. ASSUME NEW j \in Fe!Working, j # i, v6[j].pc # "done", Fe!RevertToDraft(v6[j].report)
            PROVE  FALSE
        <5>1. v6[j].report.attempt = v6[i].report.attempt
          BY <1>0, <3>4, <4>1, <4>3
        <5>2. v6[j].report = v6[i].report
          BY <2>1, <2>3, <4>3, <5>1, FeOneRevert, FeWorkIs
        <5> QED
          BY <2>1, <4>3, <5>2 DEF Fe!StateOK
      <4>4. \A j \in Fe!Working' : \A w : w = v6'[j] => Current(w)'
        BY <2>2, <4>3
      <4> QED
        BY <4>2, <4>4
    <3> HIDE DEF Deserves, Current, GivenBack, Known
    <3> QED
      BY <1>1, <2>1, <3>2, <3>3, <3>4
  <2> QED
    BY <2>1, <2>5, <2>6
<1> HIDE DEF Deserves, Current, GivenBack, Known
<1> QED
  BY <1>3, <1>4, <1>5, <1>6, <1>7, <1>8, <1>9, <1>10
     DEF Fe!Next, Fe!StartFeedback, Fe!StartNotice, Fe!SuppressBounced, Fe!SuppressComplained

\* What the invariant says of the list, of signals and of the draft.
LEMMA FeFollows == Fe!Inductive => Fe!TypeOK /\ Fe!HandledIsKept /\ Fe!RevertIsDeserved
<1> SUFFICES ASSUME Fe!Inductive PROVE Fe!TypeOK /\ Fe!HandledIsKept /\ Fe!RevertIsDeserved
  OBVIOUS
<1> USE DEF Fe!Inductive
<1>1. Fe!TypeOK
  <2>1. \A a \in Receivers : v1[a] # None => v1[a].count <= MaxReports * MaxTries
    <3> SUFFICES ASSUME NEW a \in Receivers, v1[a] # None PROVE v1[a].count <= MaxReports * MaxTries
      OBVIOUS
    <3> DEFINE n == Cardinality(Fe!Tries \ Fe!Ahead(a))
    <3>1. v1[a].count <= n
      BY FeSizes DEF Fe!CountsTries
    <3>2. n \in Nat /\ n <= MaxReports * MaxTries
      BY FeTriesFinite
    <3>3. v1[a].count \in Nat /\ MaxReports * MaxTries \in Nat
      BY BoundsAssumption DEF Fe!StateOK, Fe!Entry
    <3> HIDE DEF n
    <3> QED
      BY <3>1, <3>2, <3>3
  <2> QED
    BY <2>1 DEF Fe!TypeOK, Fe!StateOK
<1>2. Fe!HandledIsKept
  <2>1. ASSUME NEW a \in Receivers, Fe!Of({"hard", "complaint"}, a),
               \A r \in DOMAIN v4 : r.kind = "soft" => a \notin r.who
        PROVE  v1[a] # None
    BY <2>1 DEF Fe!Of, Fe!StaysListed, Fe!Softly
  <2> QED
    BY <2>1 DEF Fe!HandledIsKept, Fe!ShownFirst
<1>3. Fe!RevertIsDeserved
  <2> SUFFICES ASSUME v2.status = "draft", v2.attempt > 0, ~v10
               PROVE  \E r \in DOMAIN v4 : Fe!RevertToDraft(r) /\ r.attempt = v2.attempt /\ r.who = Receivers
    BY DEF Fe!RevertIsDeserved
  <2>1. PICK r \in DOMAIN v4 : Fe!RevertToDraft(r) /\ r.attempt = v2.attempt
    BY DEF Fe!OfThisSend
  <2>2. r \in Fe!Report
    BY DEF Fe!StateOK
  <2> QED
    BY <2>1, <2>2, FeOneRevert
<1> QED
  BY <1>1, <1>2, <1>3

\* For any number of reports, connections, invocations and faults: what was handled of a report is
\* kept, a draft comes back only when its last send bounced whole, an open connection is listed and a
\* notice taken as delivered was heard or found nobody, each with the causes the properties name
\* (ses-feedback-processor, bounce-handler, ws-deliverer, device-notifier).
THEOREM NotificationsAreKept == ProvedSpec => []NotificationsHold
<1> DEFINE Inv == /\ part = "feedback" => Fe!Inductive
                  /\ part = "devices" => De!Inductive
<1>1. ProvedInit => Inv
  BY FeInitial, DeInitial DEF ProvedInit
<1>2. Inv /\ [ProvedNext]_values => Inv'
  <2>1. ASSUME Fe!Inductive, Fe!Next
        PROVE  Fe!Inductive'
    BY <2>1, FeTyped, FeCounts, FeStays, FeShown, FeThisSend DEF Fe!Inductive
  <2>2. ASSUME De!Inductive, De!Next
        PROVE  De!Inductive'
    BY <2>2, DeTyped, DeListed, DeHeard DEF De!Inductive
  <2>3. ASSUME Fe!Inductive, UNCHANGED <<v1, v2, v4, v5, v6, v9, v10>>
        PROVE  Fe!Inductive'
    <3> USE <2>3
    <3>1. Fe!Working' = Fe!Working
      BY DEF Fe!Working
    <3>2. Fe!StateOK' /\ Fe!ShownFirst' /\ Fe!OfThisSend'
      BY <3>1 DEF Fe!Inductive, Fe!StateOK, Fe!ShownFirst, Fe!OfThisSend
    <3>3. Fe!Tries' = Fe!Tries /\ \A a : Fe!Ahead(a)' = Fe!Ahead(a)
      BY <3>1 DEF Fe!Tries, Fe!Ahead
    <3>4. Fe!CountsTries'
      BY <3>3 DEF Fe!Inductive, Fe!CountsTries
    <3>5. (\A a : Fe!Softly(a)' = Fe!Softly(a)) /\ \A i \in Lambdas : Fe!Passed(v6[i])' = Fe!Passed(v6[i])
      BY DEF Fe!Softly, Fe!Passed
    <3>6. Fe!Working \subseteq Lambdas
      BY DEF Fe!Working
    <3>7. Fe!StaysListed'
      BY <3>1, <3>5, <3>6 DEF Fe!Inductive, Fe!StaysListed
    <3> QED
      BY <3>2, <3>4, <3>7 DEF Fe!Inductive
  <2>4. ASSUME De!Inductive, UNCHANGED <<v1, v2, v3, v4, v5, v6, v7, v8, v9>>
        PROVE  De!Inductive'
    BY <2>4 DEF De!Inductive, De!StateOK, De!TypeOK, De!ListedWhileOpen, De!OkIsHeard, De!DeliveredIsHeard
  <2> QED
    BY <2>1, <2>2, <2>3, <2>4
       DEF ProvedNext, values, Rest10, Rest11, Rest12, Rest18
<1>3. Inv => NotificationsHold
  BY FeFollows DEF NotificationsHold, De!Inductive, De!StateOK, De!ListedWhileOpen, De!OkIsHeard, De!OpenIsListed
<1> QED
  BY <1>1, <1>2, <1>3, PTL DEF ProvedSpec

-----------------------------------------------------------------------------
(* Aliases: v1 domain, v2 alias, v3 sender, v4 exchanges, v5 minted,         *)
(* v6 lambda, v9 wish, v10 lifted, v11 excused, v12 strays.                  *)

\* The state at the start: there is nothing, and nobody is at work.
LEMMA AlInitial == Al!Init => Al!Inductive
<1> SUFFICES ASSUME Al!Init PROVE Al!Inductive
  OBVIOUS
<1> USE DEF Al!Init
<1>1. Al!StateOK
  BY BoundsAssumption DEF Al!StateOK, Al!TypeOK, Al!Jobs
<1>2. Al!LinksHeld
  BY DEF Al!LinksHeld, Al!At, Al!Idle, Al!Addresses
<1>3. Al!BlockHolds /\ Al!DroppedDomainIsEmpty
  BY DEF Al!BlockHolds, Al!DroppedDomainIsEmpty
<1> QED
  BY <1>1, <1>2, <1>3 DEF Al!Inductive

\* An invocation that is not idle is at work.
LEMMA AlAtWork ==
  ASSUME NEW n, NEW job \in Al!Jobs(n)
  PROVE  \/ job = Al!Idle /\ job.op = "idle"
         \/ job \in Al!Work(n) /\ Al!Sound(job) /\ job.op # "idle"
BY DEF Al!Jobs, Al!Work, Al!Idle

\* The more exchanges there are, the more there is to do.
LEMMA AlJobsGrow ==
  ASSUME NEW m \in Nat, NEW n \in Nat, m <= n
  PROVE  Al!Jobs(m) \subseteq Al!Jobs(n)
<1>1. 0 .. m \subseteq 0 .. n
  OBVIOUS
<1>2. Al!Work(m) \subseteq Al!Work(n)
  BY <1>1 DEF Al!Work
<1> QED
  BY <1>2 DEF Al!Jobs

\* Work goes on as work: to another step, with what it read, with what it made.
LEMMA AlGoesOn ==
  ASSUME NEW n, NEW job \in Al!Work(n), Al!Sound(job), NEW pc \in Al!Stages
  PROVE  /\ job.op # "rename" \/ pc \notin {"list", "put"} => [job EXCEPT !.pc = pc] \in Al!Jobs(n)
         /\ \A s \in (0 .. n) \union {None} : s # None \/ pc \notin {"list", "put"} =>
              [job EXCEPT !.pc = pc, !.seen = s] \in Al!Jobs(n)
         /\ \A p \in Al!Policies \union {"none"} :
              job.op # "rename" \/ pc \notin {"list", "put"} \/ job.pc \in {"list", "put"} =>
              [job EXCEPT !.pc = pc, !.listed = p] \in Al!Jobs(n)
         /\ \A id \in 0 .. n : job.op = "connect" => [job EXCEPT !.pc = pc, !.id = id] \in Al!Jobs(n)
         /\ \A todo \in SUBSET Own : job.op = "drop" => [job EXCEPT !.pc = pc, !.todo = todo] \in Al!Jobs(n)
         /\ \A a \in Own, todo \in SUBSET Own :
              job.op = "drop" => [job EXCEPT !.pc = pc, !.at = a, !.todo = todo] \in Al!Jobs(n)
<1> USE DEF Al!Jobs
<1>1. job.op # "rename" \/ pc \notin {"list", "put"} => [job EXCEPT !.pc = pc] \in Al!Jobs(n)
  BY DEF Al!Work, Al!Sound
<1>2. ASSUME NEW s \in (0 .. n) \union {None}, s # None \/ pc \notin {"list", "put"}
      PROVE  [job EXCEPT !.pc = pc, !.seen = s] \in Al!Jobs(n)
  BY <1>2 DEF Al!Work, Al!Sound
<1>3. ASSUME NEW p \in Al!Policies \union {"none"},
             job.op # "rename" \/ pc \notin {"list", "put"} \/ job.pc \in {"list", "put"}
      PROVE  [job EXCEPT !.pc = pc, !.listed = p] \in Al!Jobs(n)
  BY <1>3 DEF Al!Work, Al!Sound
<1>4. ASSUME NEW id \in 0 .. n, job.op = "connect"
      PROVE  [job EXCEPT !.pc = pc, !.id = id] \in Al!Jobs(n)
  BY <1>4 DEF Al!Work, Al!Sound
<1>5. ASSUME NEW todo \in SUBSET Own, job.op = "drop"
      PROVE  [job EXCEPT !.pc = pc, !.todo = todo] \in Al!Jobs(n)
  BY <1>5 DEF Al!Work, Al!Sound
<1>6. ASSUME NEW a \in Own, NEW todo \in SUBSET Own, job.op = "drop"
      PROVE  [job EXCEPT !.pc = pc, !.at = a, !.todo = todo] \in Al!Jobs(n)
  BY <1>6 DEF Al!Work, Al!Sound, Al!Addresses
<1> QED
  BY <1>1, <1>2, <1>3, <1>4, <1>5, <1>6

\* What an invocation starts with.
LEMMA AlFreshJob ==
  ASSUME NEW n \in Nat, NEW a \in Al!Addresses, NEW pc \in {"domain", "read", "senders", "save", "resolve", "list"},
         NEW op \in {"create", "patch", "rename", "delete", "drop", "post", "replace", "decide", "mail", "connect"},
         op # "rename" \/ pc \notin {"list", "put"}
  PROVE  /\ Al!Job(op, pc, a) \in Al!Jobs(n)
         /\ \A p \in Al!Policies : [Al!Job(op, pc, a) EXCEPT !.policy = p] \in Al!Jobs(n)
         /\ \A b \in Own : [Al!Job(op, pc, a) EXCEPT !.to = b] \in Al!Jobs(n)
<1> DEFINE job == Al!Job(op, pc, a)
<1>0. pc \in Al!Stages
  BY DEF Al!Stages
<1>1. job.op = op /\ job.pc = pc /\ job.id = 0 /\ job \in Al!Work(n)
  BY <1>0 DEF Al!Job, Al!Work, Al!Policies
<1> HIDE DEF job
<1>2. Al!Sound(job)
  BY <1>1 DEF Al!Sound
<1>3. ASSUME NEW p \in Al!Policies PROVE [job EXCEPT !.policy = p] \in Al!Jobs(n)
  BY <1>1 DEF Al!Work, Al!Sound, Al!Jobs
<1>4. ASSUME NEW b \in Own PROVE [job EXCEPT !.to = b] \in Al!Jobs(n)
  BY <1>1 DEF Al!Work, Al!Sound, Al!Jobs, Al!Addresses
<1>5. job \in Al!Jobs(n)
  BY <1>1, <1>2 DEF Al!Jobs
<1> QED
  BY <1>3, <1>4, <1>5 DEF job

LEMMA AlFreshExchangeJob ==
  ASSUME NEW n \in Nat, NEW id \in 1 .. n, NEW pc \in {"resolve", "read", "unlink"}, NEW op \in {"mail", "repair", "disconnect"}
  PROVE  [Al!Job(op, pc, Mailbox) EXCEPT !.id = id] \in Al!Jobs(n)
<1> DEFINE job == Al!Job(op, pc, Mailbox)
<1>0. pc \in Al!Stages
  BY DEF Al!Stages
<1>1. job.op = op /\ job.pc = pc /\ job.at = Mailbox /\ job \in Al!Work(n)
  BY <1>0 DEF Al!Job, Al!Work, Al!Policies, Al!Addresses
<1> HIDE DEF job
<1>2. [job EXCEPT !.id = id] \in Al!Work(n) /\ Al!Sound([job EXCEPT !.id = id])
  BY <1>1 DEF Al!Work, Al!Sound
<1> QED
  BY <1>2 DEF Al!Jobs, job

LEMMA AlStartsWork ==
  ASSUME NEW n \in Nat, NEW i \in Lambdas, Al!Start(i), v4 \subseteq 1 .. n
  PROVE  \E job \in Al!Jobs(n) : Al!Begin(i, job) /\ (job.op = "disconnect" => job.pc # "delete")
<1> DEFINE Started == \E job \in Al!Jobs(n) : Al!Begin(i, job) /\ (job.op = "disconnect" => job.pc # "delete")
<1>1. \A a, op, pc : Al!Job(op, pc, a).op = op
  BY DEF Al!Job
<1>2. Own \subseteq Al!Addresses /\ Mailbox \in Al!Addresses
  BY DEF Al!Addresses
<1>3. ASSUME NEW job \in Al!Jobs(n), Al!Begin(i, job), job.op # "disconnect" \/ job.pc # "delete"
      PROVE  Started
  BY <1>3
<1>4. ASSUME NEW a \in Al!Addresses
      PROVE  /\ Al!Job("create", "domain", a) \in Al!Jobs(n) /\ Al!Job("patch", "read", a) \in Al!Jobs(n)
             /\ Al!Job("delete", "senders", a) \in Al!Jobs(n) /\ Al!Job("mail", "resolve", a) \in Al!Jobs(n)
             /\ Al!Job("drop", "list", a) \in Al!Jobs(n) /\ Al!Job("connect", "read", a) \in Al!Jobs(n)
             /\ \A p \in Al!Policies :
                  /\ [Al!Job("post", "read", a) EXCEPT !.policy = p] \in Al!Jobs(n)
                  /\ [Al!Job("replace", "read", a) EXCEPT !.policy = p] \in Al!Jobs(n)
                  /\ [Al!Job("decide", "save", a) EXCEPT !.policy = p] \in Al!Jobs(n)
             /\ \A b \in Own : [Al!Job("rename", "domain", a) EXCEPT !.to = b] \in Al!Jobs(n)
  BY AlFreshJob
<1>5. ASSUME NEW id \in v4
      PROVE  /\ [Al!Job("mail", "resolve", Mailbox) EXCEPT !.id = id] \in Al!Jobs(n)
             /\ [Al!Job("repair", "read", Mailbox) EXCEPT !.id = id] \in Al!Jobs(n)
             /\ [Al!Job("disconnect", "unlink", Mailbox) EXCEPT !.id = id] \in Al!Jobs(n)
  BY AlFreshExchangeJob
<1> HIDE DEF Started
<1>6. ASSUME NEW a \in Al!Addresses,
             \/ Al!Begin(i, Al!Job("create", "domain", a)) \/ Al!Begin(i, Al!Job("patch", "read", a))
             \/ Al!Begin(i, Al!Job("delete", "senders", a)) \/ Al!Begin(i, Al!Job("mail", "resolve", a))
             \/ Al!Begin(i, Al!Job("drop", "list", a)) \/ Al!Begin(i, Al!Job("connect", "read", a))
      PROVE  Started
  <2>1. PICK op \in {"create", "patch", "delete", "mail", "drop", "connect"},
             pc \in {"domain", "read", "senders", "resolve", "list"} :
          Al!Begin(i, Al!Job(op, pc, a)) /\ Al!Job(op, pc, a) \in Al!Jobs(n)
    BY <1>4, <1>6
  <2> QED
    BY <1>1, <1>3, <2>1
<1>7. ASSUME NEW a \in Al!Addresses, NEW p \in Al!Policies,
             \/ Al!Begin(i, [Al!Job("post", "read", a) EXCEPT !.policy = p])
             \/ Al!Begin(i, [Al!Job("replace", "read", a) EXCEPT !.policy = p])
             \/ Al!Begin(i, [Al!Job("decide", "save", a) EXCEPT !.policy = p])
      PROVE  Started
  <2>1. PICK op \in {"post", "replace", "decide"}, pc \in {"read", "save"}, job \in Al!Jobs(n) :
          job = [Al!Job(op, pc, a) EXCEPT !.policy = p] /\ Al!Begin(i, job)
    BY <1>4, <1>7
  <2>2. job.op = op
    BY <2>1 DEF Al!Job
  <2> QED
    BY <1>3, <2>1, <2>2
<1>8. ASSUME NEW a \in Al!Addresses, NEW b \in Own, Al!Begin(i, [Al!Job("rename", "domain", a) EXCEPT !.to = b])
      PROVE  Started
  <2>1. PICK job \in Al!Jobs(n) : job = [Al!Job("rename", "domain", a) EXCEPT !.to = b] /\ Al!Begin(i, job)
    BY <1>4, <1>8
  <2>2. job.op = "rename"
    BY <2>1 DEF Al!Job
  <2> QED
    BY <1>3, <2>1, <2>2
<1>9. ASSUME NEW id \in v4,
              \/ Al!Begin(i, [Al!Job("mail", "resolve", Mailbox) EXCEPT !.id = id])
              \/ Al!Begin(i, [Al!Job("repair", "read", Mailbox) EXCEPT !.id = id])
              \/ Al!Begin(i, [Al!Job("disconnect", "unlink", Mailbox) EXCEPT !.id = id])
       PROVE  Started
  <2>1. PICK op \in {"mail", "repair", "disconnect"}, pc \in {"resolve", "read", "unlink"}, job \in Al!Jobs(n) :
          job = [Al!Job(op, pc, Mailbox) EXCEPT !.id = id] /\ Al!Begin(i, job)
    BY <1>5, <1>9
  <2>2. job.pc = pc
    BY <2>1 DEF Al!Job
  <2> QED
    BY <1>3, <2>1, <2>2
<1>10. Started
  BY <1>2, <1>6, <1>7, <1>8, <1>9 DEF Al!Start, Al!DeleteAlias
<1> QED
  BY <1>10 DEF Started

\* Where an invocation goes: on with its work, or to rest.  One comes to delete an
\* exchange only by way of the unlinking.
LEMMA AlGoes ==
  ASSUME Al!StateOK, NEW i \in Lambdas, Al!Step(i)
  PROVE  /\ v5' \in 0 .. MaxExchanges /\ v5 <= v5'
         /\ \E job \in Al!Jobs(v5') :
              /\ Al!Goto(i, job)
              /\ job.op = "disconnect" /\ job.pc = "delete" => Al!Unlink(i) /\ job.id = v6[i].id
<1> DEFINE w == v6[i]
           Goes(n) == \E job \in Al!Jobs(n) :
             /\ Al!Goto(i, job)
             /\ job.op = "disconnect" /\ job.pc = "delete" => Al!Unlink(i) /\ job.id = w.id
<1>0. /\ v6 \in [Lambdas -> Al!Jobs(v5)] /\ v5 \in Nat /\ v5 \in 0 .. MaxExchanges
      /\ v2 \in [Al!Addresses -> (0 .. v5) \union {None}]
      /\ v3 \in [Al!Addresses -> Al!Policies \union {"none"}]
      /\ Mailbox \in Al!Addresses
  BY BoundsAssumption DEF Al!StateOK, Al!TypeOK, Al!Addresses
<1>1. \/ w = Al!Idle /\ w.op = "idle"
      \/ w \in Al!Work(v5) /\ Al!Sound(w) /\ w.op # "idle"
  BY <1>0, AlAtWork
<1>2. Al!Idle \in Al!Jobs(v5) /\ Al!Idle.op = "idle"
  BY DEF Al!Jobs, Al!Idle
<1>3. w \in Al!Work(v5) =>
        /\ w.at \in Al!Addresses /\ w.todo \subseteq Own /\ w.id \in 0 .. v5
        /\ w.op \in {"create", "patch", "rename", "delete", "drop", "post", "replace", "decide", "mail",
                     "connect", "repair", "disconnect"}
        /\ \A pc : [w EXCEPT !.pc = pc].op = w.op /\ [w EXCEPT !.pc = pc].id = w.id
        /\ \A pc, x : [w EXCEPT !.pc = pc, !.seen = x].op = w.op
        /\ \A pc, x : [w EXCEPT !.pc = pc, !.listed = x].op = w.op
        /\ \A pc, x : [w EXCEPT !.pc = pc, !.id = x].op = w.op
        /\ \A pc, x : [w EXCEPT !.pc = pc, !.todo = x].op = w.op
        /\ \A pc, x, y : [w EXCEPT !.pc = pc, !.at = x, !.todo = y].op = w.op
  BY DEF Al!Work
<1>r. Al!Goto(i, Al!Idle) => Goes(v5)
  BY <1>2
<1>t. ASSUME w \in Al!Work(v5), Al!Sound(w), NEW pc \in Al!Stages, Al!Then(i, pc),
             w.op # "rename" \/ pc \notin {"list", "put"},
             w.op # "disconnect" \/ Al!Unlink(i)
      PROVE  Goes(v5)
  BY <1>t, <1>3, AlGoesOn DEF Al!Then
<1>g. ASSUME NEW job \in Al!Jobs(v5), Al!Goto(i, job), job.op # "disconnect" PROVE Goes(v5)
  BY <1>g
<1> HIDE DEF Goes
<1>4. ASSUME \/ Al!CheckDomain(i) \/ Al!CreateRead(i) \/ Al!PatchRead(i)
             \/ Al!RenamePut(i) \/ Al!RenameSender(i) \/ Al!DeleteSenders(i) \/ Al!DeleteRow(i)
             \/ Al!ReadSender(i) \/ Al!Resolve(i) \/ Al!EnsureOnMail(i)
      PROVE  v5' = v5 /\ Goes(v5)
  <2>1. w \in Al!Work(v5) /\ Al!Sound(w) /\ w.op # "disconnect" /\ v5' = v5
    BY <1>1, <1>4
       DEF Al!CheckDomain, Al!CreateRead, Al!PatchRead, Al!RenamePut, Al!RenameSender, Al!DeleteSenders,
           Al!DeleteRow, Al!ReadSender, Al!Resolve, Al!EnsureOnMail, Al!At, Al!rows, Al!Deleting
  <2>2. \/ Al!Goto(i, Al!Idle)
        \/ \E pc \in Al!Stages : Al!Then(i, pc) /\ (w.op # "rename" \/ pc \notin {"list", "put"})
    BY <1>4
       DEF Al!CheckDomain, Al!CreateRead, Al!PatchRead, Al!RenamePut, Al!RenameSender, Al!DeleteSenders,
           Al!DeleteRow, Al!ReadSender, Al!Resolve, Al!EnsureOnMail, Al!At, Al!Stages, Al!Then
  <2> QED
    BY <1>r, <1>t, <2>1, <2>2
<1>5. ASSUME \/ Al!CreatePut(i) \/ Al!PatchPut(i) \/ Al!DropDomain(i) \/ Al!SaveSender(i) \/ Al!Approve(i)
             \/ Al!LeaveSender(i) \/ Al!Link(i) \/ Al!DeleteExchange(i) \/ Al!Fails(i)
      PROVE  v5' = v5 /\ Goes(v5)
  BY <1>5, <1>r
     DEF Al!CreatePut, Al!PatchPut, Al!DropDomain, Al!SaveSender, Al!Approve, Al!LeaveSender, Al!Link,
         Al!DeleteExchange, Al!Fails, Al!rows
<1>6. ASSUME Al!RenameRead(i) PROVE v5' = v5 /\ Goes(v5)
  <2>1. w \in Al!Work(v5) /\ Al!Sound(w) /\ w.op = "rename" /\ v5' = v5
    BY <1>1, <1>6 DEF Al!RenameRead, Al!At, Al!rows
  <2>2. CASE v2[w.at] = None
    BY <1>6, <1>r, <2>1, <2>2 DEF Al!RenameRead
  <2>3. CASE v2[w.at] # None
    <3>1. PICK job : job = [w EXCEPT !.pc = "list", !.seen = v2[w.at]] /\ Al!Goto(i, job)
      BY <1>6, <2>3 DEF Al!RenameRead
    <3>2. v2[w.at] \in (0 .. v5) \union {None} /\ "list" \in Al!Stages
      BY <1>0, <1>3, <2>1 DEF Al!Stages
    <3>3. job \in Al!Jobs(v5)
      BY <2>1, <2>3, <3>1, <3>2, AlGoesOn
    <3>4. job.op = "rename"
      BY <1>3, <2>1, <3>1
    <3> QED
      BY <1>g, <2>1, <3>1, <3>3, <3>4
  <2> QED
    BY <2>1, <2>2, <2>3
<1>7. ASSUME Al!RenameList(i) \/ Al!ListSenders(i) \/ Al!ReadPolicy(i) PROVE v5' = v5 /\ Goes(v5)
  <2>1. w \in Al!Work(v5) /\ Al!Sound(w) /\ w.op # "disconnect" /\ v5' = v5 /\ w.at \in Al!Addresses
    BY <1>1, <1>3, <1>7 DEF Al!RenameList, Al!ListSenders, Al!ReadPolicy, Al!At, Al!rows, Al!Deleting
  <2>2. PICK pc, job :
          /\ pc \in Al!Stages /\ job = [w EXCEPT !.pc = pc, !.listed = v3[w.at]] /\ Al!Goto(i, job)
          /\ w.op # "rename" \/ pc \notin {"list", "put"} \/ w.pc \in {"list", "put"}
    <3>1. PICK pc : /\ pc \in Al!Stages /\ Al!Goto(i, [w EXCEPT !.pc = pc, !.listed = v3[w.at]])
                    /\ w.op # "rename" \/ pc \notin {"list", "put"} \/ w.pc \in {"list", "put"}
      <4>1. CASE Al!RenameList(i)
        <5>1. Al!Goto(i, [w EXCEPT !.pc = "put", !.listed = v3[w.at]]) /\ w.pc = "list"
          BY <4>1 DEF Al!RenameList, Al!At
        <5>2. "put" \in Al!Stages
          BY DEF Al!Stages
        <5> QED
          BY <5>1, <5>2, Zenon
      <4>2. CASE Al!ListSenders(i)
        <5>1. Al!Goto(i, [w EXCEPT !.pc = "batch", !.listed = v3[w.at]])
          BY <4>2 DEF Al!ListSenders
        <5>2. "batch" \in Al!Stages /\ "batch" \notin {"list", "put"}
          BY DEF Al!Stages
        <5> QED
          BY <5>1, <5>2, Zenon
      <4>3. CASE Al!ReadPolicy(i)
        <5>1. Al!Goto(i, [w EXCEPT !.pc = "approve", !.listed = v3[w.at]])
          BY <4>3 DEF Al!ReadPolicy
        <5>2. "approve" \in Al!Stages /\ "approve" \notin {"list", "put"}
          BY DEF Al!Stages
        <5> QED
          BY <5>1, <5>2, Zenon
      <4> QED
        BY <1>7, <4>1, <4>2, <4>3
    <3> QED
      BY <3>1
  <2>3. v3[w.at] \in Al!Policies \union {"none"}
    BY <1>0, <2>1
  <2>4. job \in Al!Jobs(v5)
    BY <2>1, <2>2, <2>3, AlGoesOn
  <2>5. job.op = w.op
    BY <1>3, <2>1, <2>2
  <2> QED
    BY <1>g, <2>1, <2>2, <2>4, <2>5
<1>8. ASSUME Al!DropList(i) \/ Al!DropNext(i) PROVE v5' = v5 /\ Goes(v5)
  <2>1. w \in Al!Work(v5) /\ Al!Sound(w) /\ w.op = "drop" /\ v5' = v5 /\ w.todo \subseteq Own
    BY <1>1, <1>3, <1>8 DEF Al!DropList, Al!DropNext, Al!At, Al!rows
  <2>2. CASE Al!DropList(i)
    <3>1. CASE Al!Goto(i, Al!Idle)
      BY <1>r, <2>1, <3>1
    <3>2. CASE ~Al!Goto(i, Al!Idle)
      <4>1. PICK todo, job : /\ todo \in SUBSET Own /\ job = [w EXCEPT !.pc = "next", !.todo = todo]
                             /\ Al!Goto(i, job)
        BY <2>2, <3>2 DEF Al!DropList
      <4>2. job \in Al!Jobs(v5) /\ job.op = "drop"
        BY <1>3, <2>1, <4>1, AlGoesOn DEF Al!Stages
      <4> QED
        BY <1>g, <2>1, <4>1, <4>2
    <3> QED
      BY <3>1, <3>2
  <2>3. CASE Al!DropNext(i)
    <3>1. PICK a, job : /\ a \in w.todo /\ Al!Goto(i, job)
                        /\ job = [w EXCEPT !.pc = "senders", !.at = a, !.todo = w.todo \ {a}]
      BY <2>3 DEF Al!DropNext
    <3>2. a \in Own /\ w.todo \ {a} \in SUBSET Own
      BY <2>1, <3>1
    <3>3. job \in Al!Jobs(v5)
      BY <2>1, <3>1, <3>2, AlGoesOn DEF Al!Stages
    <3>4. job.op = "drop"
      BY <1>3, <2>1, <3>1
    <3> QED
      BY <1>g, <2>1, <3>1, <3>3, <3>4
  <2> QED
    BY <1>8, <2>2, <2>3
<1>9. ASSUME Al!ConnectRead(i) \/ Al!RepairRead(i) PROVE v5' = v5 /\ Goes(v5)
  <2>1. w \in Al!Work(v5) /\ Al!Sound(w) /\ w.op \in {"connect", "repair"} /\ v5' = v5
    BY <1>1, <1>9 DEF Al!ConnectRead, Al!RepairRead, Al!At, Al!rows
  <2>2. PICK pc, job : /\ pc \in Al!Stages \ {"list", "put"}
                       /\ job = [w EXCEPT !.pc = pc, !.seen = v2[Mailbox]] /\ Al!Goto(i, job)
    BY <1>9 DEF Al!ConnectRead, Al!RepairRead, Al!Stages
  <2>3. job \in Al!Jobs(v5)
    BY <1>0, <2>1, <2>2, AlGoesOn
  <2>4. job.op = w.op
    BY <1>3, <2>1, <2>2
  <2> QED
    BY <1>g, <2>1, <2>2, <2>3, <2>4
<1>10. ASSUME Al!CreateExchange(i) PROVE v5' = v5 + 1 /\ v5' \in 0 .. MaxExchanges /\ Goes(v5')
  <2>1. w \in Al!Work(v5) /\ w.op = "connect" /\ v5' = v5 + 1 /\ v5 < MaxExchanges
    BY <1>1, <1>10 DEF Al!CreateExchange, Al!At
  <2>2. v5' \in 0 .. MaxExchanges /\ v5' \in Nat
    BY <1>0, <2>1, BoundsAssumption
  <2>3. w \in Al!Jobs(v5')
    BY <1>0, <2>1, <2>2, AlJobsGrow
  <2>4. w \in Al!Work(v5') /\ Al!Sound(w)
    BY <1>2, <2>1, <2>3, AlAtWork
  <2>5. PICK job : job = [w EXCEPT !.pc = "link", !.id = v5'] /\ Al!Goto(i, job)
    BY <1>10 DEF Al!CreateExchange
  <2>6. v5' \in 0 .. v5' /\ "link" \in Al!Stages
    BY <2>2 DEF Al!Stages
  <2>7. job \in Al!Jobs(v5')
    BY <2>1, <2>4, <2>5, <2>6, AlGoesOn
  <2>8. job.op = "connect"
    BY <1>3, <2>1, <2>5
  <2>9. Goes(v5')
    BY <2>5, <2>7, <2>8 DEF Goes
  <2> QED
    BY <2>1, <2>2, <2>9
<1>11. ASSUME Al!Unlink(i) PROVE v5' = v5 /\ Goes(v5)
  <2>1. w \in Al!Work(v5) /\ Al!Sound(w) /\ v5' = v5 /\ Al!Then(i, "delete") /\ w.op = "disconnect"
    BY <1>1, <1>11 DEF Al!Unlink, Al!At
  <2> QED
    BY <1>t, <1>11, <2>1 DEF Al!Stages
<1>12. v5' \in 0 .. MaxExchanges /\ v5 <= v5' /\ Goes(v5')
  BY <1>0, <1>4, <1>5, <1>6, <1>7, <1>8, <1>9, <1>10, <1>11 DEF Al!Step
<1> QED
  BY <1>12 DEF Goes

\* Each step leaves rows of their types and work that is sound.
LEMMA AlTyped == Al!StateOK /\ Al!Next => Al!StateOK'
<1> SUFFICES ASSUME Al!StateOK, Al!Next PROVE Al!StateOK'
  OBVIOUS
<1> DEFINE RowsOK == /\ v1 \in {"active", "deleted"}
                     /\ v2 \in [Al!Addresses -> (0 .. v5) \union {None}]
                     /\ v3 \in [Al!Addresses -> Al!Policies \union {"none"}]
                     /\ v4 \subseteq 1 .. v5 /\ v11 \subseteq 1 .. v5
                     /\ v9 \in [Al!Addresses -> Al!Policies \union {"none"}]
                     /\ v10 \subseteq Al!Addresses /\ v12 \subseteq Own
<1>0. /\ RowsOK /\ v5 \in 0 .. MaxExchanges /\ v5 \in Nat /\ v6 \in [Lambdas -> Al!Jobs(v5)]
      /\ Mailbox \in Al!Addresses /\ Own \subseteq Al!Addresses
  BY BoundsAssumption DEF Al!StateOK, Al!TypeOK, Al!Addresses
<1>1. ASSUME RowsOK', v5' \in 0 .. MaxExchanges, v6' \in [Lambdas -> Al!Jobs(v5')]
      PROVE  Al!StateOK'
  <2>1. 0 .. v5' \subseteq 0 .. MaxExchanges
    BY <1>1, BoundsAssumption
  <2>2. v2' \in [Al!Addresses -> (0 .. MaxExchanges) \union {None}]
    BY <1>1, <2>1
  <2> QED
    BY <1>1, <2>2 DEF Al!StateOK, Al!TypeOK
<1>2. ASSUME UNCHANGED <<v1, v2, v3, v4, v5, v9, v10, v11, v12>>
      PROVE  RowsOK' /\ v5' \in 0 .. MaxExchanges
  BY <1>0, <1>2
<1>3. ASSUME NEW i \in Lambdas
      PROVE  \/ v6[i] = Al!Idle /\ v6[i].op = "idle"
             \/ v6[i] \in Al!Work(v5) /\ Al!Sound(v6[i])
  BY <1>0, AlAtWork
<1>4. ASSUME NEW i \in Lambdas, v6[i] \in Al!Work(v5)
      PROVE  /\ v6[i].at \in Al!Addresses /\ v6[i].to \in Al!Addresses /\ v6[i].id \in 0 .. v5
             /\ v6[i].policy \in Al!Policies /\ v6[i].seen \in (0 .. v5) \union {None}
             /\ v6[i].todo \subseteq Own
  BY <1>4 DEF Al!Work
<1>p. ASSUME NEW at \in Al!Addresses, NEW x \in (0 .. v5) \union {None}, Al!PutAlias(at, x)
      PROVE  v2' \in [Al!Addresses -> (0 .. v5) \union {None}] /\ v12' \subseteq Own
  BY <1>0, <1>p DEF Al!PutAlias
<1>l. ASSUME NEW id \in 0 .. v5, Al!Linking(id)
      PROVE  v11' \subseteq 1 .. v5
  BY <1>0, <1>l DEF Al!Linking
<1>5. ASSUME NEW i \in Lambdas, Al!Step(i)
      PROVE  RowsOK'
  <2> DEFINE w == v6[i]
  <2>r. ASSUME UNCHANGED Al!rows, UNCHANGED Al!past PROVE RowsOK'
    BY <1>2, <2>r DEF Al!rows, Al!past
  <2>1. CASE \/ Al!CheckDomain(i) \/ Al!CreateRead(i) \/ Al!PatchRead(i) \/ Al!RenameRead(i) \/ Al!RenameList(i)
             \/ Al!ListSenders(i) \/ Al!DropList(i) \/ Al!DropNext(i) \/ Al!ReadSender(i) \/ Al!Resolve(i)
             \/ Al!ReadPolicy(i) \/ Al!LeaveSender(i) \/ Al!ConnectRead(i) \/ Al!RepairRead(i) \/ Al!Fails(i)
    BY <2>1, <2>r
       DEF Al!CheckDomain, Al!CreateRead, Al!PatchRead, Al!RenameRead, Al!RenameList, Al!ListSenders,
           Al!DropList, Al!DropNext, Al!ReadSender, Al!Resolve, Al!ReadPolicy, Al!LeaveSender,
           Al!ConnectRead, Al!RepairRead, Al!Fails
  <2>2. CASE Al!CreatePut(i) \/ Al!PatchPut(i)
    <3>1. w \in Al!Work(v5)
      BY <1>3, <2>2 DEF Al!CreatePut, Al!PatchPut, Al!At
    <3>2. Al!PutAlias(w.at, 0) /\ UNCHANGED <<v1, v3, v4, v5, v9, v10, v11>>
      BY <2>2 DEF Al!CreatePut, Al!PatchPut
    <3> QED
      BY <1>0, <1>4, <1>p, <3>1, <3>2
  <2>3. CASE Al!RenamePut(i)
    <3>1. w \in Al!Work(v5) /\ w.seen \in 0 .. v5
      BY <1>3, <1>4, <2>3 DEF Al!RenamePut, Al!At, Al!Sound
    <3>2. Al!PutAlias(w.to, w.seen) /\ UNCHANGED <<v1, v3, v4, v5, v9, v10>> /\ v11' = v11 \union ({w.seen} \ {0})
      BY <2>3 DEF Al!RenamePut
    <3>3. v5 \in Nat /\ v11 \subseteq 1 .. v5
      BY <1>0
    <3>4. \A x \in {w.seen} \ {0} : x \in 1 .. v5
      BY <3>1, <3>3
    <3>5. v11' \subseteq 1 .. v5
      BY <3>2, <3>3, <3>4
    <3> QED
      BY <1>0, <1>4, <1>p, <3>1, <3>2, <3>5
  <2>4. CASE Al!RenameSender(i) \/ Al!DeleteSenders(i) \/ Al!SaveSender(i) \/ Al!Approve(i)
    <3>1. w \in Al!Work(v5) /\ UNCHANGED <<v1, v2, v4, v5, v11, v12>>
      BY <1>3, <2>4 DEF Al!RenameSender, Al!DeleteSenders, Al!SaveSender, Al!Approve, Al!At, Al!Deleting
    <3>2. w.at \in Al!Addresses /\ w.to \in Al!Addresses /\ w.policy \in Al!Policies
      BY <1>4, <3>1
    <3>3. v3' \in [Al!Addresses -> Al!Policies \union {"none"}] /\ v10' \subseteq Al!Addresses
      BY <1>0, <2>4, <3>2
         DEF Al!RenameSender, Al!DeleteSenders, Al!SaveSender, Al!Approve, Al!Decide, Al!Policies
    <3>4. v9' \in [Al!Addresses -> Al!Policies \union {"none"}]
      BY <1>0, <2>4, <3>2
         DEF Al!RenameSender, Al!DeleteSenders, Al!SaveSender, Al!Approve, Al!Decide
    <3> QED
      BY <1>0, <3>1, <3>3, <3>4
  <2>5. CASE Al!DeleteRow(i)
    BY <1>0, <2>5 DEF Al!DeleteRow
  <2>6. CASE Al!DropDomain(i)
    BY <1>0, <2>6 DEF Al!DropDomain
  <2>7. CASE Al!EnsureOnMail(i)
    <3>1. w \in Al!Work(v5)
      BY <1>3, <2>7 DEF Al!EnsureOnMail
    <3>2. UNCHANGED <<v1, v3, v4, v5, v9, v10>> /\ \E id \in {0, w.id} : Al!PutAlias(w.at, id) /\ Al!Linking(id)
      BY <2>7 DEF Al!EnsureOnMail
    <3> QED
      BY <1>0, <1>4, <1>p, <1>l, <3>1, <3>2
  <2>8. CASE Al!CreateExchange(i)
    <3>1. v5' = v5 + 1 /\ v4' = v4 \union {v5'} /\ UNCHANGED <<v1, v2, v3, v9, v10, v11, v12>>
      BY <2>8 DEF Al!CreateExchange, Al!past
    <3>2. v5' \in Nat /\ 0 .. v5 \subseteq 0 .. v5' /\ 1 .. v5 \subseteq 1 .. v5' /\ v5' \in 1 .. v5'
      BY <1>0, <3>1
    <3> QED
      BY <1>0, <3>1, <3>2
  <2>9. CASE Al!Link(i)
    <3>1. w \in Al!Work(v5)
      BY <1>3, <2>9 DEF Al!Link
    <3>2. UNCHANGED <<v1, v3, v4, v5, v9, v10, v12>> /\ Al!Linking(w.id) /\ (v2' = v2 \/ v2' = [v2 EXCEPT ![Mailbox] = w.id])
      BY <2>9 DEF Al!Link
    <3> QED
      BY <1>0, <1>4, <1>l, <3>1, <3>2
  <2>10. CASE Al!Unlink(i)
    <3>1. w \in Al!Work(v5) /\ Al!Sound(w) /\ w.op = "disconnect"
      BY <1>3, <2>10 DEF Al!Unlink, Al!At
    <3>2. w.id \in 1 .. v5
      BY <1>0, <1>4, <3>1 DEF Al!Sound
    <3>3. UNCHANGED <<v1, v3, v4, v5, v9, v10, v12>> /\ (v11' = v11 \/ v11' = v11 \union {w.id})
      BY <2>10 DEF Al!Unlink
    <3>4. v2' \in [Al!Addresses -> (0 .. v5) \union {None}]
      BY <1>0, <2>10 DEF Al!Unlink, Al!Unlinked
    <3> QED
      BY <1>0, <3>2, <3>3, <3>4
  <2>11. CASE Al!DeleteExchange(i)
    BY <1>0, <2>11 DEF Al!DeleteExchange, Al!past
  <2> HIDE DEF RowsOK
  <2> QED
    BY <1>5, <2>1, <2>2, <2>3, <2>4, <2>5, <2>6, <2>7, <2>8, <2>9, <2>10, <2>11 DEF Al!Step
<1>6. ASSUME NEW i \in Lambdas, Al!Step(i)
      PROVE  Al!StateOK'
  <2>1. v6' \in [Lambdas -> Al!Jobs(v5')] /\ v5' \in 0 .. MaxExchanges
    <3>1. PICK job \in Al!Jobs(v5') : Al!Goto(i, job) /\ v5' \in 0 .. MaxExchanges /\ v5 <= v5'
      BY <1>6, AlGoes
    <3>2. Al!Jobs(v5) \subseteq Al!Jobs(v5')
      BY <1>0, <3>1, AlJobsGrow
    <3> QED
      BY <1>0, <3>1, <3>2 DEF Al!Goto
  <2> QED
    BY <1>1, <1>5, <1>6, <2>1
<1>7. ASSUME NEW i \in Lambdas, Al!Start(i)
      PROVE  Al!StateOK'
  <2>1. PICK job \in Al!Jobs(v5) : Al!Begin(i, job)
    BY <1>0, <1>7, AlStartsWork
  <2>2. v6' \in [Lambdas -> Al!Jobs(v5)] /\ UNCHANGED <<v1, v2, v3, v4, v5, v9, v10, v11, v12>>
    BY <1>0, <2>1 DEF Al!Begin, Al!Goto, Al!rows, Al!past
  <2> QED
    BY <1>1, <1>2, <2>2
<1>8. ASSUME NEW a \in Al!Addresses, Al!RemoveSender(a)
      PROVE  Al!StateOK'
  BY <1>0, <1>1, <1>8 DEF Al!RemoveSender, Al!Decide
<1>9. ASSUME Al!ReviveDomain
      PROVE  Al!StateOK'
  BY <1>0, <1>1, <1>9 DEF Al!ReviveDomain
<1> QED
  BY <1>6, <1>7, <1>8, <1>9 DEF Al!Next

\* Whoever is about to delete an exchange was so before, or has just unlinked it.
LEMMA AlDeletes ==
  ASSUME Al!StateOK, NEW i \in Lambdas, Al!Step(i), NEW j \in Lambdas, Al!At(j, "disconnect", "delete")'
  PROVE  \/ j = i /\ Al!Unlink(i) /\ v6'[i].id = v6[i].id
         \/ j # i /\ v6'[j] = v6[j] /\ Al!At(j, "disconnect", "delete")
<1>1. PICK job \in Al!Jobs(v5') : /\ Al!Goto(i, job)
                                  /\ job.op = "disconnect" /\ job.pc = "delete" => Al!Unlink(i) /\ job.id = v6[i].id
  BY AlGoes
<1>2. v6'[i] = job /\ \A k \in Lambdas : k # i => v6'[k] = v6[k]
  BY <1>1 DEF Al!Goto, Al!StateOK
<1> QED
  BY <1>1, <1>2 DEF Al!At

LEMMA AlLinks == Al!StateOK /\ Al!LinksHeld /\ Al!Next => Al!LinksHeld'
<1> SUFFICES ASSUME Al!StateOK, Al!LinksHeld, Al!Next PROVE Al!LinksHeld'
  OBVIOUS
<1>0. /\ v5 \in Nat /\ v6 \in [Lambdas -> Al!Jobs(v5)] /\ v4 \subseteq 1 .. v5 /\ v11 \subseteq 1 .. v5
      /\ v2 \in [Al!Addresses -> (0 .. v5) \union {None}]
      /\ Mailbox \in Al!Addresses /\ Own \subseteq Al!Addresses /\ Mailbox \notin Own
  BY BoundsAssumption, MailboxAssumption DEF Al!StateOK, Al!TypeOK, Al!Addresses
<1>1. ASSUME NEW i \in Lambdas, v6[i].op # "idle"
      PROVE  /\ v6[i].at \in Al!Addresses /\ v6[i].to \in Al!Addresses /\ v6[i].id \in 0 .. v5
             /\ v6[i].seen \in (0 .. v5) \union {None} /\ Al!Sound(v6[i])
  <2>1. v6[i] \in Al!Work(v5) /\ Al!Sound(v6[i])
    BY <1>0, <1>1, AlAtWork
  <2> QED
    BY <2>1 DEF Al!Work
<1>2. ASSUME NEW i \in Lambdas, Al!At(i, "disconnect", "delete")
      PROVE  v6[i].id \notin {0, None}
  BY <1>1, <1>2, NoneAssumption DEF Al!At, Al!Sound
<1> DEFINE Due(x) == \E j \in Lambdas : Al!At(j, "disconnect", "delete") /\ v6[j].id = x
<1>3. ASSUME NEW i \in Lambdas, Al!Step(i), ~Al!Unlink(i), NEW at \in Al!Addresses, NEW x,
             v2' = [v2 EXCEPT ![at] = x], v4 \subseteq v4', v11 \subseteq v11',
             x \in v11' \union {0, None} \/ (at = Mailbox /\ x \in v4 /\ ~Due(x))
      PROVE  Al!LinksHeld'
  <2>1. \A j \in Lambdas : Al!At(j, "disconnect", "delete")' =>
          Al!At(j, "disconnect", "delete") /\ v6'[j] = v6[j]
    BY <1>3, AlDeletes
  <2>2. \A a \in Own : v2'[a] \in v11' \union {0, None}
    BY <1>0, <1>3 DEF Al!LinksHeld
  <2>3. v2'[Mailbox] \in v4' \union v11' \union {0, None}
    BY <1>0, <1>3 DEF Al!LinksHeld
  <2>4. ASSUME NEW j \in Lambdas, Al!At(j, "disconnect", "delete")', v2'[Mailbox] = v6'[j].id
        PROVE  v6'[j].id \in v11'
    <3>1. Al!At(j, "disconnect", "delete") /\ v6'[j] = v6[j] /\ v6[j].id \notin {0, None} /\ Due(v6[j].id)
      BY <1>2, <2>1, <2>4
    <3> QED
      BY <1>0, <1>3, <2>4, <3>1 DEF Al!LinksHeld
  <2> QED
    BY <2>2, <2>3, <2>4 DEF Al!LinksHeld
<1>4. ASSUME NEW i \in Lambdas, Al!Step(i), ~Al!Unlink(i), v2' = v2, v4 \subseteq v4', v11 \subseteq v11'
      PROVE  Al!LinksHeld'
  <2>1. \A j \in Lambdas : Al!At(j, "disconnect", "delete")' =>
          Al!At(j, "disconnect", "delete") /\ v6'[j] = v6[j]
    BY <1>4, AlDeletes
  <2> QED
    BY <1>4, <2>1 DEF Al!LinksHeld
<1>5. ASSUME NEW i \in Lambdas, NEW id, Al!Linking(id), id # 0
      PROVE  v11 \subseteq v11' /\ (id \in v11' \/ (id \in v4 /\ ~Due(id)))
  BY <1>5 DEF Al!Linking, Al!Doomed, Al!At
<1> HIDE DEF Due
<1>6. ASSUME NEW i \in Lambdas, Al!CreatePut(i) \/ Al!PatchPut(i), Al!Step(i)
      PROVE  Al!LinksHeld'
  <2>1. v2' = [v2 EXCEPT ![v6[i].at] = 0] /\ UNCHANGED <<v4, v11>> /\ v6[i].op # "idle" /\ ~Al!Unlink(i)
    BY <1>6 DEF Al!CreatePut, Al!PatchPut, Al!PutAlias, Al!At, Al!Unlink
  <2> QED
    BY <1>1, <1>3, <1>6, <2>1
<1>7. ASSUME NEW i \in Lambdas, Al!RenamePut(i), Al!Step(i)
      PROVE  Al!LinksHeld'
  <2>1. /\ v2' = [v2 EXCEPT ![v6[i].to] = v6[i].seen] /\ v4' = v4 /\ v11' = v11 \union ({v6[i].seen} \ {0})
        /\ v6[i].op # "idle" /\ ~Al!Unlink(i)
    BY <1>7 DEF Al!RenamePut, Al!PutAlias, Al!At, Al!Unlink
  <2>2. v6[i].seen \in v11' \union {0, None}
    BY <2>1
  <2> QED
    BY <1>1, <1>3, <1>7, <2>1, <2>2
<1>8. ASSUME NEW i \in Lambdas, Al!DeleteRow(i), Al!Step(i)
      PROVE  Al!LinksHeld'
  <2>1. v2' = [v2 EXCEPT ![v6[i].at] = None] /\ UNCHANGED <<v4, v11>> /\ v6[i].op # "idle" /\ ~Al!Unlink(i)
    BY <1>8 DEF Al!DeleteRow, Al!Deleting, Al!At, Al!Unlink
  <2> QED
    BY <1>1, <1>3, <1>8, <2>1
<1>9. ASSUME NEW i \in Lambdas, Al!EnsureOnMail(i), Al!Step(i)
      PROVE  Al!LinksHeld'
  <2> DEFINE id == IF v6[i].pc = "heal" THEN v6[i].id ELSE 0
  <2>1. /\ v2' = [v2 EXCEPT ![v6[i].at] = id] /\ v4' = v4 /\ Al!Linking(id)
        /\ v6[i].op = "mail" /\ ~Al!Unlink(i)
    BY <1>9 DEF Al!EnsureOnMail, Al!PutAlias, Al!At, Al!Unlink
  <2>2. id # 0 => v6[i].at = Mailbox
    BY <1>1, <2>1 DEF Al!Sound
  <2>3. v6[i].at \in Al!Addresses
    BY <1>1, <2>1
  <2> HIDE DEF id
  <2>4. v11 \subseteq v11'
    BY <2>1 DEF Al!Linking
  <2> QED
    BY <1>3, <1>5, <1>9, <2>1, <2>2, <2>3, <2>4
<1>10. ASSUME NEW i \in Lambdas, Al!Link(i), Al!Step(i)
       PROVE  Al!LinksHeld'
  <2>1. /\ v2' = v2 \/ v2' = [v2 EXCEPT ![Mailbox] = v6[i].id]
        /\ v4' = v4 /\ Al!Linking(v6[i].id) /\ ~Al!Unlink(i)
    BY <1>10 DEF Al!Link, Al!At, Al!Unlink
  <2>2. v11 \subseteq v11'
    BY <2>1 DEF Al!Linking
  <2> QED
    BY <1>0, <1>3, <1>4, <1>5, <1>10, <2>1, <2>2
<1>11. ASSUME NEW i \in Lambdas, Al!Unlink(i), Al!Step(i)
       PROVE  Al!LinksHeld'
  <2>1. \A j \in Lambdas : Al!At(j, "disconnect", "delete")' =>
          \/ j = i /\ v6'[i].id = v6[i].id
          \/ j # i /\ Al!At(j, "disconnect", "delete") /\ v6'[j] = v6[j]
    BY <1>11, AlDeletes
  <2>2. v6[i].id \notin {0, None} /\ v4' = v4 /\ v11 \subseteq v11'
    BY <1>1, <1>11, NoneAssumption DEF Al!Unlink, Al!At, Al!Sound
  <2>3. CASE v2' = Al!Unlinked(v2) /\ v11' = v11
    <3>1. /\ \A a \in Al!Addresses \ {Mailbox} : v2'[a] = v2[a]
          /\ v2'[Mailbox] \in {0, None}
      BY <1>0, <2>3 DEF Al!Unlinked
    <3>2. \A j \in Lambdas : Al!At(j, "disconnect", "delete")' => v6'[j].id \notin {0, None}
      BY <1>2, <2>1, <2>2
    <3> QED
      BY <1>0, <2>2, <2>3, <3>1, <3>2 DEF Al!LinksHeld
  <2>4. CASE v2' = v2 /\ v11' = v11 \union {v6[i].id}
    BY <2>1, <2>2, <2>4 DEF Al!LinksHeld
  <2> QED
    BY <1>11, <2>3, <2>4 DEF Al!Unlink
<1>12. ASSUME NEW i \in Lambdas, Al!DeleteExchange(i), Al!Step(i)
       PROVE  Al!LinksHeld'
  <2>1. /\ v2' = v2 /\ v11' = v11 /\ v4' = v4 \ {v6[i].id} /\ Al!At(i, "disconnect", "delete") /\ ~Al!Unlink(i)
    BY <1>12 DEF Al!DeleteExchange, Al!past, Al!At, Al!Unlink
  <2>2. \A j \in Lambdas : Al!At(j, "disconnect", "delete")' =>
          Al!At(j, "disconnect", "delete") /\ v6'[j] = v6[j]
    BY <1>12, <2>1, AlDeletes
  <2> QED
    BY <2>1, <2>2 DEF Al!LinksHeld
<1>13. ASSUME NEW i \in Lambdas, Al!CreateExchange(i), Al!Step(i)
       PROVE  Al!LinksHeld'
  <2>1. v2' = v2 /\ v11' = v11 /\ v4 \subseteq v4' /\ ~Al!Unlink(i)
    BY <1>13 DEF Al!CreateExchange, Al!past, Al!At, Al!Unlink
  <2> QED
    BY <1>4, <1>13, <2>1
<1>14. ASSUME NEW i \in Lambdas, Al!Step(i),
              \/ Al!CheckDomain(i) \/ Al!CreateRead(i) \/ Al!PatchRead(i) \/ Al!RenameRead(i) \/ Al!RenameList(i)
              \/ Al!ListSenders(i) \/ Al!DropList(i) \/ Al!DropNext(i) \/ Al!ReadSender(i) \/ Al!Resolve(i)
              \/ Al!ReadPolicy(i) \/ Al!LeaveSender(i) \/ Al!ConnectRead(i) \/ Al!RepairRead(i)
              \/ Al!RenameSender(i) \/ Al!DeleteSenders(i) \/ Al!SaveSender(i) \/ Al!Approve(i) \/ Al!DropDomain(i)
       PROVE  Al!LinksHeld'
  <2>1. UNCHANGED <<v2, v4, v11>>
    BY <1>14
       DEF Al!CheckDomain, Al!CreateRead, Al!PatchRead, Al!RenameRead, Al!RenameList, Al!ListSenders,
           Al!DropList, Al!DropNext, Al!ReadSender, Al!Resolve, Al!ReadPolicy, Al!LeaveSender,
           Al!ConnectRead, Al!RepairRead, Al!rows, Al!past,
           Al!RenameSender, Al!DeleteSenders, Al!SaveSender, Al!Approve, Al!DropDomain
  <2>2. CASE Al!Unlink(i)
    BY <1>11, <1>14, <2>2
  <2> QED
    BY <1>4, <1>14, <2>1, <2>2
<1>15. ASSUME NEW i \in Lambdas, Al!Fails(i), Al!Step(i)
       PROVE  Al!LinksHeld'
  <2>1. UNCHANGED <<v2, v4, v11>>
    BY <1>15 DEF Al!Fails, Al!rows, Al!past
  <2>2. CASE Al!Unlink(i)
    BY <1>11, <1>15, <2>2
  <2> QED
    BY <1>4, <1>15, <2>1, <2>2
<1>16. ASSUME NEW i \in Lambdas, Al!Start(i)
       PROVE  Al!LinksHeld'
  <2>1. PICK job \in Al!Jobs(v5) : Al!Begin(i, job) /\ (job.op = "disconnect" => job.pc # "delete")
    BY <1>0, <1>16, AlStartsWork
  <2>2. /\ v6'[i] = job /\ \A j \in Lambdas : j # i => v6'[j] = v6[j]
        /\ UNCHANGED <<v2, v4, v11>>
    BY <1>0, <2>1 DEF Al!Begin, Al!Goto, Al!rows, Al!past
  <2> QED
    BY <2>1, <2>2 DEF Al!LinksHeld, Al!At
<1>17. ASSUME UNCHANGED <<v2, v4, v6, v11>>
       PROVE  Al!LinksHeld'
  BY <1>17 DEF Al!LinksHeld, Al!At
<1>18. ASSUME NEW i \in Lambdas, Al!Step(i)
       PROVE  Al!LinksHeld'
  BY <1>6, <1>7, <1>8, <1>9, <1>10, <1>11, <1>12, <1>13, <1>14, <1>15, <1>18 DEF Al!Step
<1>19. ASSUME NEW a \in Al!Addresses, Al!RemoveSender(a)
       PROVE  Al!LinksHeld'
  BY <1>17, <1>19 DEF Al!RemoveSender
<1>20. ASSUME Al!ReviveDomain
       PROVE  Al!LinksHeld'
  BY <1>17, <1>20 DEF Al!ReviveDomain
<1> QED
  BY <1>16, <1>18, <1>19, <1>20 DEF Al!Next

\* Who writes the record of a sender writes down what the user wished, or that it was lifted.
LEMMA AlBlocks == Al!StateOK /\ Al!BlockHolds /\ Al!Next => Al!BlockHolds'
<1> SUFFICES ASSUME Al!StateOK, Al!BlockHolds, Al!Next PROVE Al!BlockHolds'
  OBVIOUS
<1>0. /\ v3 \in [Al!Addresses -> Al!Policies \union {"none"}]
      /\ v9 \in [Al!Addresses -> Al!Policies \union {"none"}]
  BY DEF Al!StateOK, Al!TypeOK
<1>1. ASSUME UNCHANGED <<v3, v9, v10>> PROVE Al!BlockHolds'
  BY <1>1 DEF Al!BlockHolds
<1>2. ASSUME NEW at \in Al!Addresses, NEW p, Al!Decide(at, p) PROVE Al!BlockHolds'
  BY <1>0, <1>2 DEF Al!Decide, Al!BlockHolds
<1>3. ASSUME NEW i \in Lambdas, v6[i].op # "idle"
      PROVE  v6[i].at \in Al!Addresses
  <2>1. v6[i] \in Al!Work(v5)
    BY <1>3, AlAtWork DEF Al!StateOK
  <2> QED
    BY <2>1 DEF Al!Work
<1>4. ASSUME NEW i \in Lambdas, Al!RenameSender(i) PROVE Al!BlockHolds'
  BY <1>0, <1>4 DEF Al!RenameSender, Al!BlockHolds
<1>5. ASSUME NEW i \in Lambdas, Al!DeleteSenders(i) PROVE Al!BlockHolds'
  BY <1>0, <1>5 DEF Al!DeleteSenders, Al!BlockHolds
<1>6. ASSUME NEW i \in Lambdas, Al!SaveSender(i) PROVE Al!BlockHolds'
  BY <1>2, <1>3, <1>6 DEF Al!SaveSender
<1>7. ASSUME NEW i \in Lambdas, Al!Approve(i) PROVE Al!BlockHolds'
  BY <1>0, <1>7 DEF Al!Approve, Al!Unknown, Al!BlockHolds
<1>8. ASSUME NEW i \in Lambdas,
             \/ Al!CheckDomain(i) \/ Al!CreateRead(i) \/ Al!PatchRead(i) \/ Al!RenameRead(i) \/ Al!RenameList(i)
             \/ Al!ListSenders(i) \/ Al!DropList(i) \/ Al!DropNext(i) \/ Al!ReadSender(i) \/ Al!Resolve(i)
             \/ Al!ReadPolicy(i) \/ Al!LeaveSender(i) \/ Al!ConnectRead(i) \/ Al!RepairRead(i) \/ Al!Fails(i)
             \/ Al!CreateExchange(i) \/ Al!DeleteExchange(i) \/ Al!Start(i)
      PROVE  Al!BlockHolds'
  <2>1. ASSUME Al!Start(i) PROVE UNCHANGED <<v3, v9, v10>>
    BY <2>1 DEF Al!Start, Al!DeleteAlias, Al!Begin, Al!rows, Al!past
  <2> QED
    BY <1>1, <1>8, <2>1
       DEF Al!CheckDomain, Al!CreateRead, Al!PatchRead, Al!RenameRead, Al!RenameList, Al!ListSenders,
           Al!DropList, Al!DropNext, Al!ReadSender, Al!Resolve, Al!ReadPolicy, Al!LeaveSender,
           Al!ConnectRead, Al!RepairRead, Al!Fails, Al!CreateExchange, Al!DeleteExchange, Al!rows, Al!past
<1>9. ASSUME NEW i \in Lambdas,
             \/ Al!CreatePut(i) \/ Al!PatchPut(i) \/ Al!RenamePut(i) \/ Al!DeleteRow(i) \/ Al!DropDomain(i)
             \/ Al!EnsureOnMail(i) \/ Al!Link(i) \/ Al!Unlink(i)
      PROVE  Al!BlockHolds'
  BY <1>1, <1>9
     DEF Al!CreatePut, Al!PatchPut, Al!RenamePut, Al!DeleteRow, Al!DropDomain, Al!EnsureOnMail, Al!Link, Al!Unlink
<1>10. ASSUME NEW a \in Al!Addresses, Al!RemoveSender(a) PROVE Al!BlockHolds'
  BY <1>2, <1>10 DEF Al!RemoveSender
<1>11. ASSUME Al!ReviveDomain PROVE Al!BlockHolds'
  BY <1>1, <1>11 DEF Al!ReviveDomain
<1> QED
  BY <1>4, <1>5, <1>6, <1>7, <1>8, <1>9, <1>10, <1>11 DEF Al!Next, Al!Step

\* A domain is dropped without addresses but the strays, and who puts one on it later
\* makes it a stray.
LEMMA AlDropped == Al!StateOK /\ Al!DroppedDomainIsEmpty /\ Al!Next => Al!DroppedDomainIsEmpty'
<1> SUFFICES ASSUME Al!StateOK, Al!DroppedDomainIsEmpty, Al!Next PROVE Al!DroppedDomainIsEmpty'
  OBVIOUS
<1>0. v2 \in [Al!Addresses -> (0 .. v5) \union {None}] /\ Own \subseteq Al!Addresses \ {Mailbox}
  BY MailboxAssumption DEF Al!StateOK, Al!Addresses
<1>1. ASSUME UNCHANGED <<v1, v2, v12>> PROVE Al!DroppedDomainIsEmpty'
  BY <1>1 DEF Al!DroppedDomainIsEmpty
<1>2. ASSUME NEW at, NEW x, Al!PutAlias(at, x), v1' = v1 PROVE Al!DroppedDomainIsEmpty'
  BY <1>0, <1>2 DEF Al!PutAlias, Al!DroppedDomainIsEmpty
<1>3. ASSUME NEW i \in Lambdas, Al!DeleteRow(i) PROVE Al!DroppedDomainIsEmpty'
  BY <1>0, <1>3 DEF Al!DeleteRow, Al!DroppedDomainIsEmpty
<1>4. ASSUME NEW i \in Lambdas, Al!DropDomain(i) PROVE Al!DroppedDomainIsEmpty'
  BY <1>4 DEF Al!DropDomain, Al!DropReady, Al!DroppedDomainIsEmpty
<1>5. ASSUME v1' = v1, v12' = v12, \A a \in Own : v2'[a] = v2[a] PROVE Al!DroppedDomainIsEmpty'
  BY <1>5 DEF Al!DroppedDomainIsEmpty
<1>6. ASSUME NEW i \in Lambdas, Al!Link(i) \/ Al!Unlink(i) PROVE Al!DroppedDomainIsEmpty'
  BY <1>0, <1>5, <1>6 DEF Al!Link, Al!Unlink, Al!Unlinked
<1>7. ASSUME NEW i \in Lambdas,
             \/ Al!CheckDomain(i) \/ Al!CreateRead(i) \/ Al!PatchRead(i) \/ Al!RenameRead(i) \/ Al!RenameList(i)
             \/ Al!ListSenders(i) \/ Al!DropList(i) \/ Al!DropNext(i) \/ Al!ReadSender(i) \/ Al!Resolve(i)
             \/ Al!ReadPolicy(i) \/ Al!LeaveSender(i) \/ Al!ConnectRead(i) \/ Al!RepairRead(i) \/ Al!Fails(i)
             \/ Al!CreateExchange(i) \/ Al!DeleteExchange(i) \/ Al!Start(i)
             \/ Al!RenameSender(i) \/ Al!DeleteSenders(i) \/ Al!SaveSender(i) \/ Al!Approve(i)
      PROVE  Al!DroppedDomainIsEmpty'
  <2>1. ASSUME Al!Start(i) PROVE UNCHANGED <<v1, v2, v12>>
    BY <2>1 DEF Al!Start, Al!DeleteAlias, Al!Begin, Al!rows, Al!past
  <2> QED
    BY <1>1, <1>7, <2>1
       DEF Al!CheckDomain, Al!CreateRead, Al!PatchRead, Al!RenameRead, Al!RenameList, Al!ListSenders,
           Al!DropList, Al!DropNext, Al!ReadSender, Al!Resolve, Al!ReadPolicy, Al!LeaveSender,
           Al!ConnectRead, Al!RepairRead, Al!Fails, Al!CreateExchange, Al!DeleteExchange, Al!rows, Al!past,
           Al!RenameSender, Al!DeleteSenders, Al!SaveSender, Al!Approve
<1>8. ASSUME NEW i \in Lambdas, Al!CreatePut(i) \/ Al!PatchPut(i) \/ Al!RenamePut(i) \/ Al!EnsureOnMail(i)
      PROVE  Al!DroppedDomainIsEmpty'
  BY <1>2, <1>8 DEF Al!CreatePut, Al!PatchPut, Al!RenamePut, Al!EnsureOnMail
<1>9. ASSUME NEW a \in Al!Addresses, Al!RemoveSender(a) PROVE Al!DroppedDomainIsEmpty'
  BY <1>1, <1>9 DEF Al!RemoveSender
<1>10. ASSUME Al!ReviveDomain PROVE Al!DroppedDomainIsEmpty'
  BY <1>10 DEF Al!ReviveDomain, Al!DroppedDomainIsEmpty
<1> QED
  BY <1>3, <1>4, <1>6, <1>7, <1>8, <1>9, <1>10 DEF Al!Next, Al!Step

\* For any addresses, invocations, requests, exchanges and faults: a sender the user blocked stays
\* blocked, an alias is linked to an exchange that is there, and a dropped domain has no alias, each
\* with the causes the properties name (aliasesApi, externalExchangesApi, domainsApi).
THEOREM AliasesAreKept == ProvedSpec => []AliasesHold
<1> DEFINE Inv == part = "aliases" => Al!Inductive
<1>1. ProvedInit => Inv
  BY AlInitial DEF ProvedInit
<1>2. Inv /\ [ProvedNext]_values => Inv'
  <2>1. ASSUME Al!Inductive, Al!Next
        PROVE  Al!Inductive'
    BY <2>1, AlTyped, AlLinks, AlBlocks, AlDropped DEF Al!Inductive
  <2>2. ASSUME Al!Inductive, UNCHANGED <<v1, v2, v3, v4, v5, v6, v9, v10, v11, v12>>
        PROVE  Al!Inductive'
    BY <2>2
       DEF Al!Inductive, Al!StateOK, Al!TypeOK, Al!LinksHeld, Al!At, Al!BlockHolds, Al!DroppedDomainIsEmpty
  <2> QED
    BY <2>1, <2>2
       DEF ProvedNext, values, Rest10, Rest11, Rest12, Rest18
<1>3. Inv => AliasesHold
  BY DEF AliasesHold, Al!Inductive, Al!StateOK, Al!LinksHeld, Al!LinksLive, Al!Addresses
<1> QED
  BY <1>1, <1>2, <1>3, PTL DEF ProvedSpec

-----------------------------------------------------------------------------
(* Settings: v1 view, v2 label, v3 template, v4 used, v5 audit, v6 lambda,   *)
(* v7 requests, v8 faults, v9 raced, v10 unaudited, v11 shared.              *)

\* The highest of some positions, as long as there is one.
LEMMA SeMaxIs ==
  ASSUME NEW n \in Nat, NEW S \in SUBSET (0 .. n), S # {}
  PROVE  Se!Max(S) \in S /\ \A k \in S : k <= Se!Max(S)
<1> DEFINE below == {n - k : k \in S}
           less == OpToRel(<, Nat)
<1>1. below \subseteq Nat /\ below # {}
  <2>1. \A k \in S : k \in Nat /\ k <= n /\ n - k \in Nat
    OBVIOUS
  <2> QED
    BY <2>1
<1>2. PICK x \in below : \A y \in below : <<y, x>> \notin less
  <2>1. IsWellFoundedOn(less, Nat)
    BY NatLessThanWellFounded
  <2> HIDE DEF below, less
  <2> QED
    BY <1>1, <2>1, WFMin
<1>3. \A y \in below : ~(y < x)
  BY <1>1, <1>2 DEF OpToRel
<1>4. PICK m \in S : x = n - m
  BY <1>2
<1> HIDE DEF below, less
<1>5. ASSUME NEW k \in S PROVE k <= m
  <2>1. n - k \in below /\ k \in 0 .. n /\ m \in 0 .. n
    BY DEF below
  <2>2. ~(n - k < n - m)
    BY <1>3, <1>4, <2>1
  <2> QED
    BY <2>1, <2>2
<1>6. \E y \in S : \A k \in S : y >= k
  BY <1>5
<1>7. Se!Max(S) \in S /\ \A k \in S : Se!Max(S) >= k
  BY <1>6 DEF Se!Max
<1>8. \A k \in S : k \in 0 .. n
  OBVIOUS
<1> QED
  BY <1>7, <1>8

\* The state at the start: there are no rows.
LEMMA SeInitial == Se!Init => Se!Inductive
<1> SUFFICES ASSUME Se!Init PROVE Se!Inductive
  OBVIOUS
<1> USE DEF Se!Init
<1>1. Se!StateOK
  BY BoundsAssumption DEF Se!StateOK, Se!Jobs
<1>2. Se!ReadersKnow
  <2>1. \A i \in Lambdas : v6[i].pc = "idle"
    BY DEF Se!Idle
  <2>2. None # Se!Broken /\ None # "partial"
    BY NoneAssumption DEF Se!Broken
  <2>3. Se!RowsAreWhole
    BY <2>2 DEF Se!RowsAreWhole
  <2> QED
    BY <2>1, <2>3 DEF Se!ReadersKnow
<1>3. Se!PlacesFree
  BY DEF Se!PlacesFree, Se!PlacesDiffer, Se!Idle
<1>4. Se!AuditedFirst
  BY DEF Se!AuditedFirst, Se!CodeIsAudited, Se!Idle
<1> QED
  BY <1>1, <1>2, <1>3, <1>4 DEF Se!Inductive

\* What a request holds at each point.
LEMMA SeJobIs ==
  ASSUME Se!StateOK, NEW i \in Lambdas
  PROVE  /\ v6[i].pc = "put view" => v6[i] \in Se!PutsView(v7)
         /\ v6[i].pc = "put template" => v6[i] \in Se!PutsTemplate
         /\ v6[i].pc = "audit" => v6[i] \in Se!WritesTemplate
         /\ v6[i].pc = "write" /\ v6[i].row \in Views => v6[i] \in Se!WritesView
         /\ v6[i].pc = "write" /\ v6[i].row \in Labels => v6[i] \in Se!WritesLabel
         /\ v6[i].pc = "write" /\ v6[i].row \in Templates => v6[i] \in Se!WritesTemplate
         /\ v6[i].pc = "write" => v6[i].row \in Se!Rows
         /\ v6[i].pc = "delete" => v6[i] \in Se!Deletes
<1>1. \/ v6[i] = Se!Idle
      \/ v6[i] \in Se!PutsView(v7)
      \/ v6[i] \in Se!WritesView
      \/ v6[i] \in Se!WritesLabel
      \/ v6[i] \in Se!PutsTemplate
      \/ v6[i] \in Se!WritesTemplate
      \/ v6[i] \in Se!Deletes
  BY DEF Se!StateOK, Se!Jobs
<1>2. Se!Idle.pc = "idle"
  BY DEF Se!Idle
<1>3. /\ v6[i] \in Se!PutsView(v7) => v6[i].pc = "put view"
      /\ v6[i] \in Se!WritesView => v6[i].pc = "write" /\ v6[i].row \in Views
      /\ v6[i] \in Se!WritesLabel => v6[i].pc = "write" /\ v6[i].row \in Labels
      /\ v6[i] \in Se!PutsTemplate => v6[i].pc = "put template"
      /\ v6[i] \in Se!WritesTemplate => v6[i].pc \in {"audit", "write"} /\ v6[i].row \in Templates
      /\ v6[i] \in Se!Deletes => v6[i].pc = "delete"
  BY DEF Se!PutsView, Se!WritesView, Se!WritesLabel, Se!PutsTemplate, Se!WritesTemplate, Se!Deletes
<1> QED
  BY <1>1, <1>2, <1>3, KindsAssumption DEF Se!Rows

\* The next position is above all there are.
LEMMA SeNextIsFree ==
  ASSUME Se!StateOK, Se!Broken \notin Se!Positions, NEW v
  PROVE  /\ Se!NextPosition(v) \in 0 .. v7 + 1
         /\ \A u \in Views : v1[u] # Se!NextPosition(v)
<1>0. v7 \in Nat /\ v1 \in [Views -> (Se!Broken .. v7) \union {None}] /\ Se!Broken = -1
  BY BoundsAssumption DEF Se!StateOK, Se!Broken
<1>1. Se!Positions \subseteq 0 .. v7
  <2> SUFFICES ASSUME NEW p \in Se!Positions PROVE p \in 0 .. v7
    OBVIOUS
  <2>1. p # -1 /\ p \in -1 .. v7
    BY <1>0 DEF Se!Positions
  <2> QED
    BY <1>0, <2>1
<1>2. CASE Se!Positions = {}
  <2>1. \A u \in Views : v1[u] = None
    BY <1>2 DEF Se!Positions
  <2> QED
    BY <1>0, <1>2, <2>1, NoneAssumption DEF Se!NextPosition
<1>3. CASE Se!Positions # {}
  <2>1. Se!Max(Se!Positions) \in Se!Positions /\ \A p \in Se!Positions : p <= Se!Max(Se!Positions)
    BY <1>0, <1>1, <1>3, SeMaxIs
  <2>2. Se!NextPosition(v) = Se!Max(Se!Positions) + 1
    BY <1>3 DEF Se!NextPosition
  <2> DEFINE m == Se!Max(Se!Positions)
  <2> HIDE DEF m
  <2>3. m \in Se!Positions /\ \A p \in Se!Positions : p <= m
    BY <2>1 DEF m
  <2>4. m \in 0 .. v7 /\ \A p \in Se!Positions : p \in Int
    BY <1>0, <1>1, <2>3
  <2>5. m + 1 \in 0 .. v7 + 1 /\ m + 1 \notin Se!Positions
    BY <1>0, <2>4, <2>3
  <2>6. Se!NextPosition(v) \in 0 .. v7 + 1 /\ Se!NextPosition(v) \notin Se!Positions
    BY <2>2, <2>5 DEF m
  <2>7. \A u \in Views : v1[u] \in Se!Positions \/ v1[u] = None
    BY DEF Se!Positions
  <2> QED
    BY <1>0, <2>6, <2>7, NoneAssumption
<1> QED
  BY <1>2, <1>3

\* What an update makes of a template.
LEMMA SeUpdates ==
  ASSUME Se!StateOK, NEW i \in Lambdas, NEW failed \in BOOLEAN, Se!UpdateTemplate(i, failed)
  PROVE  /\ v6[i].row \in Templates /\ v6[i].functions \in Functions \union {None} /\ v6[i].pc = "write"
         /\ failed => v3' = v3
         /\ ~failed => \E b \in Se!Bodies :
              /\ v3' = [v3 EXCEPT ![v6[i].row] = b]
              /\ b.whole = (v3[v6[i].row] # None /\ v3[v6[i].row].whole)
              /\ b.functions # None =>
                   \/ b.functions = v6[i].functions
                   \/ v3[v6[i].row] # None /\ b.functions = v3[v6[i].row].functions
<1> DEFINE old == v3[v6[i].row]
           b == [whole     |-> old # None /\ old.whole,
                 functions |-> IF v6[i].functions # None THEN v6[i].functions
                               ELSE IF old = None THEN None ELSE old.functions]
<1>1. v6[i].row \in Templates /\ v6[i].functions \in Functions \union {None} /\ v6[i].pc = "write"
  BY SeJobIs DEF Se!UpdateTemplate, Se!WritesTemplate
<1>2. v3 \in [Templates -> Se!Bodies \union {None}]
  BY DEF Se!StateOK
<1>3. failed => v3' = v3
  BY DEF Se!UpdateTemplate
<1>4. ~failed => v3' = [v3 EXCEPT ![v6[i].row] = b]
  BY <1>1, <1>2 DEF Se!UpdateTemplate
<1>5. b \in Se!Bodies
  BY <1>1, <1>2 DEF Se!Bodies
<1>6. /\ b.whole = (old # None /\ old.whole)
      /\ b.functions # None => b.functions = v6[i].functions \/ (old # None /\ b.functions = old.functions)
  OBVIOUS
<1> HIDE DEF b
<1> QED
  BY <1>1, <1>3, <1>4, <1>5, <1>6

\* Each step leaves rows of their types and requests that are under way.
LEMMA SeTyped == Se!StateOK /\ Se!Next => Se!StateOK'
<1> SUFFICES ASSUME Se!StateOK, NEW i \in Lambdas, Se!Step(i) PROVE Se!StateOK'
  BY DEF Se!Next
<1>0. /\ v7 \in Nat /\ v7 \in 0 .. MaxRequests /\ v6 \in [Lambdas -> Se!Jobs(v7)]
      /\ v1 \in [Views -> (Se!Broken .. v7) \union {None}] /\ Se!Broken = -1
      /\ v2 \in [Labels -> {None, "whole", "partial"}]
      /\ v3 \in [Templates -> Se!Bodies \union {None}]
      /\ MaxRequests \in Nat
  BY BoundsAssumption DEF Se!StateOK, Se!Broken
<1>1. \A n \in Nat : Se!Jobs(n) \subseteq Se!Jobs(n + 1) /\ Se!Idle \in Se!Jobs(n)
  <2> SUFFICES ASSUME NEW n \in Nat PROVE Se!Jobs(n) \subseteq Se!Jobs(n + 1) /\ Se!Idle \in Se!Jobs(n)
    OBVIOUS
  <2>1. 0 .. n \subseteq 0 .. n + 1
    OBVIOUS
  <2>2. Se!PutsView(n) \subseteq Se!PutsView(n + 1)
    BY <2>1 DEF Se!PutsView
  <2> QED
    BY <2>2 DEF Se!Jobs
<1>b. ASSUME NEW w \in Se!Jobs(v7 + 1), Se!Begin(i, w), UNCHANGED <<v1, v3>>,
             v2' \in [Labels -> {None, "whole", "partial"}]
      PROVE  Se!StateOK'
  <2>1. v7' = v7 + 1 /\ v7 < MaxRequests /\ v6' = [v6 EXCEPT ![i] = w]
    BY <1>b DEF Se!Begin, Se!Goto
  <2>2. v7' \in 0 .. MaxRequests /\ v6' \in [Lambdas -> Se!Jobs(v7')]
    BY <1>0, <1>1, <2>1
  <2>3. (Se!Broken .. v7) \subseteq (Se!Broken .. v7')
    BY <1>0, <2>1
  <2> QED
    BY <1>0, <1>b, <2>2, <2>3 DEF Se!StateOK
<1>g. ASSUME NEW w \in Se!Jobs(v7), Se!Goto(i, w), v7' = v7,
             v1' \in [Views -> (Se!Broken .. v7) \union {None}],
             v2' \in [Labels -> {None, "whole", "partial"}],
             v3' \in [Templates -> Se!Bodies \union {None}]
      PROVE  Se!StateOK'
  <2>1. v6' \in [Lambdas -> Se!Jobs(v7)]
    BY <1>0, <1>g DEF Se!Goto
  <2> QED
    BY <1>0, <1>g, <2>1 DEF Se!StateOK
<1>2. ASSUME NEW v \in Views, Se!CreateView(i, v) PROVE Se!StateOK'
  <2>1. CASE Se!Broken \in Se!Positions
    BY <1>0, <1>1, <1>2, <1>b, <2>1 DEF Se!CreateView
  <2>2. CASE Se!Broken \notin Se!Positions
    <3> DEFINE w == [pc |-> "put view", row |-> v, position |-> Se!NextPosition(v)]
    <3>1. w \in Se!Jobs(v7 + 1)
      BY <2>2, SeNextIsFree DEF Se!Jobs, Se!PutsView
    <3> QED
      BY <1>0, <1>2, <1>b, <2>2, <3>1 DEF Se!CreateView
  <2> QED
    BY <2>1, <2>2
<1>3. ASSUME NEW v \in Views, NEW p \in {None, 0}, Se!PatchView(i, v, p) PROVE Se!StateOK'
  <2>1. [pc |-> "write", row |-> v, position |-> p] \in Se!Jobs(v7 + 1)
    BY DEF Se!Jobs, Se!WritesView
  <2> QED
    BY <1>0, <1>3, <1>b, <2>1 DEF Se!PatchView
<1>4. ASSUME NEW l \in Labels, Se!CreateLabel(i, l) PROVE Se!StateOK'
  BY <1>0, <1>1, <1>4, <1>b DEF Se!CreateLabel
<1>5. ASSUME NEW l \in Labels, Se!PatchLabel(i, l) PROVE Se!StateOK'
  <2>1. [pc |-> "write", row |-> l] \in Se!Jobs(v7 + 1)
    BY DEF Se!Jobs, Se!WritesLabel
  <2> QED
    BY <1>0, <1>5, <1>b, <2>1 DEF Se!PatchLabel
<1>6. ASSUME NEW t \in Templates, NEW f \in Functions \union {None}, NEW method \in {"patch", "put"},
             Se!ReadTemplate(i, t, method, f)
      PROVE  Se!StateOK'
  <2>1. v3[t] \in Se!Bodies
    BY <1>0, <1>6, KindsAssumption DEF Se!ReadTemplate, Se!Exists
  <2>2. [pc |-> "audit", row |-> t, method |-> method, before |-> v3[t].functions, functions |-> f] \in Se!WritesTemplate
    BY <2>1 DEF Se!Bodies, Se!WritesTemplate
  <2>3. Se!WritesTemplate \subseteq Se!Jobs(v7 + 1)
    BY DEF Se!Jobs
  <2> QED
    BY <1>0, <1>6, <1>b, <2>2, <2>3 DEF Se!ReadTemplate
<1>7. ASSUME NEW t \in Templates, NEW f \in Functions \union {None}, NEW failed \in BOOLEAN,
             Se!CreateTemplate(i, t, f, failed)
      PROVE  Se!StateOK'
  <2>1. [pc |-> "put template", row |-> t, functions |-> f] \in Se!Jobs(v7 + 1)
    BY DEF Se!Jobs, Se!PutsTemplate
  <2> QED
    BY <1>0, <1>7, <1>b, <2>1 DEF Se!CreateTemplate
<1>8. ASSUME NEW r \in Se!Rows, Se!StartDelete(i, r) PROVE Se!StateOK'
  <2>1. [pc |-> "delete", row |-> r] \in Se!Jobs(v7 + 1)
    BY DEF Se!Jobs, Se!Deletes
  <2> QED
    BY <1>0, <1>8, <1>b, <2>1 DEF Se!StartDelete
<1>9. ASSUME NEW failed \in BOOLEAN, Se!PutTemplate(i, failed) PROVE Se!StateOK'
  <2>1. v6[i].row \in Templates /\ v6[i].functions \in Functions \union {None}
    BY <1>9, SeJobIs DEF Se!PutTemplate, Se!PutsTemplate
  <2>2. v3' \in [Templates -> Se!Bodies \union {None}]
    BY <1>0, <1>9, <2>1 DEF Se!PutTemplate, Se!Bodies
  <2> QED
    BY <1>0, <1>1, <1>9, <1>g, <2>2 DEF Se!PutTemplate
<1>10. ASSUME NEW failed \in BOOLEAN, Se!AuditUpdate(i, failed) PROVE Se!StateOK'
  <2>1. v6[i] \in Se!WritesTemplate
    BY <1>10, SeJobIs DEF Se!AuditUpdate
  <2>2. [v6[i] EXCEPT !.pc = "write"] \in Se!WritesTemplate
    BY <2>1 DEF Se!WritesTemplate
  <2>3. [v6[i] EXCEPT !.pc = "write"] \in Se!Jobs(v7)
    BY <2>2 DEF Se!Jobs
  <2> QED
    BY <1>0, <1>10, <1>g, <2>3 DEF Se!AuditUpdate
<1>11. ASSUME NEW failed \in BOOLEAN, Se!UpdateTemplate(i, failed) PROVE Se!StateOK'
  <2>1. v3' \in [Templates -> Se!Bodies \union {None}]
    BY <1>0, <1>11, SeUpdates
  <2> QED
    BY <1>0, <1>1, <1>11, <1>g, <2>1 DEF Se!UpdateTemplate
<1>12. ASSUME Se!PutView(i) PROVE Se!StateOK'
  <2>1. v6[i].row \in Views /\ v6[i].position \in 0 .. v7
    BY <1>12, SeJobIs DEF Se!PutView, Se!PutsView
  <2>2. v6[i].position \in (Se!Broken .. v7) \union {None}
    BY <1>0, <2>1
  <2>3. v1' = [v1 EXCEPT ![v6[i].row] = v6[i].position]
    BY <1>12 DEF Se!PutView
  <2>4. ASSUME NEW S, v1 \in [Views -> S], v6[i].position \in S
        PROVE  v1' \in [Views -> S]
    BY <2>3, <2>4
  <2>5. v1' \in [Views -> (Se!Broken .. v7) \union {None}]
    BY <1>0, <2>2, <2>4
  <2> QED
    BY <1>0, <1>1, <1>12, <1>g, <2>5 DEF Se!PutView
<1>13. ASSUME Se!UpdateView(i) PROVE Se!StateOK'
  <2>1. v6[i].row \in Views /\ v6[i].position \in {None, 0}
    BY <1>13, SeJobIs DEF Se!UpdateView, Se!WritesView
  <2>2. PICK p \in (Se!Broken .. v7) \union {None} : v1' = [v1 EXCEPT ![v6[i].row] = p]
    <3>1. 0 \in Se!Broken .. v7 /\ Se!Broken \in Se!Broken .. v7
      BY <1>0
    <3>2. v1[v6[i].row] \in (Se!Broken .. v7) \union {None}
      BY <1>0, <2>1
    <3>3. v1' = [v1 EXCEPT ![v6[i].row] = IF v6[i].position # None THEN v6[i].position
                                          ELSE IF v1[v6[i].row] = None THEN Se!Broken ELSE v1[v6[i].row]]
      BY <1>0, <1>13, <2>1 DEF Se!UpdateView
    <3> QED
      BY <2>1, <3>1, <3>2, <3>3
  <2>3. ASSUME NEW S, v1 \in [Views -> S], p \in S
        PROVE  v1' \in [Views -> S]
    BY <2>2, <2>3
  <2>4. v1' \in [Views -> (Se!Broken .. v7) \union {None}]
    BY <1>0, <2>2, <2>3
  <2> QED
    BY <1>0, <1>1, <1>13, <1>g, <2>4 DEF Se!UpdateView
<1>14. ASSUME Se!UpdateLabel(i) PROVE Se!StateOK'
  BY <1>0, <1>1, <1>14, <1>g DEF Se!UpdateLabel
<1>15. ASSUME Se!Delete(i) PROVE Se!StateOK'
  BY <1>0, <1>1, <1>15, <1>g DEF Se!Delete
<1> QED
  BY <1>2, <1>3, <1>4, <1>5, <1>6, <1>7, <1>8, <1>9, <1>10, <1>11, <1>12, <1>13, <1>14, <1>15
     DEF Se!Step, Se!PatchTemplate, Se!ReplaceTemplate

\* What a request does to the row it works on.
LEMMA SeReads == Se!StateOK /\ Se!StateOK' /\ Se!ReadersKnow /\ Se!Next => Se!ReadersKnow'
<1> SUFFICES ASSUME Se!StateOK, Se!StateOK', Se!ReadersKnow, NEW i \in Lambdas, Se!Step(i) PROVE Se!ReadersKnow'
  BY DEF Se!Next
<1>0. /\ v6 \in [Lambdas -> Se!Jobs(v7)] /\ Se!Broken = -1 /\ None # -1 /\ None # "whole" /\ None # "partial"
      /\ v1 \in [Views -> (Se!Broken .. v7) \union {None}]
      /\ v2 \in [Labels -> {None, "whole", "partial"}]
      /\ v3 \in [Templates -> Se!Bodies \union {None}]
      /\ None \notin Se!Bodies /\ v7 \in Nat
  BY BoundsAssumption, NoneAssumption DEF Se!StateOK, Se!Broken
<1> DEFINE Stay == \A r : (Se!Exists(r) => Se!Exists(r)' \/ r \in v9') /\ (r \in v9 => r \in v9')
\* Rows stay, or are on record.
<1>k. ASSUME NEW w, v6' = [v6 EXCEPT ![i] = w], Stay,
             w.pc \in {"audit", "write"} => Se!Exists(w.row) \/ w.row \in v9,
             Se!RowsAreWhole'
      PROVE  Se!ReadersKnow'
  <2>1. v6'[i] = w /\ \A j \in Lambdas : j # i => v6'[j] = v6[j]
    BY <1>0, <1>k
  <2>2. \A j \in Lambdas : v6'[j].pc \in {"audit", "write"} => Se!Exists(v6'[j].row) \/ v6'[j].row \in v9
    BY <1>k, <2>1 DEF Se!ReadersKnow
  <2>3. ASSUME NEW j \in Lambdas, v6'[j].pc \in {"audit", "write"}
        PROVE  \A r : r = v6'[j].row => Se!Exists(r)' \/ r \in v9'
    BY <1>k, <2>2, <2>3
  <2> QED
    BY <1>k, <2>3 DEF Se!ReadersKnow
<1>e. UNCHANGED <<v1, v2, v3, v9>> => Stay /\ Se!RowsAreWhole'
  BY DEF Se!Exists, Se!RowsAreWhole, Se!ReadersKnow
<1>w. Se!RowsAreWhole /\ Se!Idle.pc = "idle"
  BY DEF Se!ReadersKnow, Se!Idle
<1> HIDE DEF Stay
<1>2. ASSUME NEW w, Se!Begin(i, w), UNCHANGED <<v1, v2, v3, v9>>,
             w.pc \in {"audit", "write"} => Se!Exists(w.row)
      PROVE  Se!ReadersKnow'
  BY <1>2, <1>e, <1>k DEF Se!Begin, Se!Goto
<1>3. ASSUME \E v \in Views : Se!CreateView(i, v) \/ \E p \in {None, 0} : Se!PatchView(i, v, p)
      PROVE  Se!ReadersKnow'
  <2>1. PICK v \in Views : Se!CreateView(i, v) \/ \E p \in {None, 0} : Se!PatchView(i, v, p)
    BY <1>3
  <2>2. CASE Se!CreateView(i, v)
    <3>1. PICK w : /\ Se!Begin(i, w)
                   /\ w = Se!Idle \/ w = [pc |-> "put view", row |-> v, position |-> Se!NextPosition(v)]
      BY <2>2 DEF Se!CreateView
    <3>2. w.pc \notin {"audit", "write"}
      <4>1. CASE w = Se!Idle
        BY <1>w, <4>1
      <4>2. CASE w = [pc |-> "put view", row |-> v, position |-> Se!NextPosition(v)]
        <5>1. w.pc = "put view"
          BY <4>2
        <5> QED
          BY <5>1
      <4> QED
        BY <3>1, <4>1, <4>2
    <3> QED
      BY <1>2, <2>2, <3>1, <3>2 DEF Se!CreateView
  <2>3. CASE \E p \in {None, 0} : Se!PatchView(i, v, p)
    <3>1. UNCHANGED <<v1, v2, v3, v9>> /\ \E w : Se!Begin(i, w) /\ Se!Exists(w.row)
      BY <2>3 DEF Se!PatchView, Se!Found
    <3> QED
      BY <1>2, <3>1
  <2> QED
    BY <2>1, <2>2, <2>3
<1>4. ASSUME NEW l \in Labels, Se!CreateLabel(i, l) PROVE Se!ReadersKnow'
  <2>1. v6' = [v6 EXCEPT ![i] = Se!Idle] /\ v2' = [v2 EXCEPT ![l] = "whole"] /\ UNCHANGED <<v1, v3, v9>>
    BY <1>4 DEF Se!CreateLabel, Se!Begin, Se!Goto
  <2>2. Stay /\ Se!RowsAreWhole'
    BY <1>0, <1>w, <2>1 DEF Stay, Se!Exists, Se!RowsAreWhole
  <2> QED
    BY <1>k, <1>w, <2>1, <2>2
<1>5. ASSUME NEW l \in Labels, Se!PatchLabel(i, l) PROVE Se!ReadersKnow'
  <2>1. UNCHANGED <<v1, v2, v3, v9>> /\ \E w : Se!Begin(i, w) /\ Se!Exists(w.row)
    BY <1>5 DEF Se!PatchLabel, Se!Found
  <2> QED
    BY <1>2, <2>1
<1>6. ASSUME NEW t \in Templates, NEW f \in Functions \union {None},
             Se!PatchTemplate(i, t, f) \/ Se!ReplaceTemplate(i, t, f)
      PROVE  Se!ReadersKnow'
  <2>1. UNCHANGED <<v1, v2, v3, v9>> /\ \E w : Se!Begin(i, w) /\ Se!Exists(w.row)
    BY <1>6 DEF Se!PatchTemplate, Se!ReplaceTemplate, Se!ReadTemplate
  <2> QED
    BY <1>2, <2>1
<1>7. ASSUME NEW t \in Templates, NEW f \in Functions \union {None}, NEW failed \in BOOLEAN,
             Se!CreateTemplate(i, t, f, failed)
      PROVE  Se!ReadersKnow'
  <2>1. PICK w : Se!Begin(i, w) /\ w = [pc |-> "put template", row |-> t, functions |-> f]
    BY <1>7 DEF Se!CreateTemplate
  <2>2. w.pc \notin {"audit", "write"}
    BY <2>1
  <2> QED
    BY <1>2, <1>7, <2>1, <2>2 DEF Se!CreateTemplate
<1>8. ASSUME NEW r \in Se!Rows, Se!StartDelete(i, r) PROVE Se!ReadersKnow'
  <2>1. UNCHANGED <<v1, v2, v3, v9>> /\ \E w : Se!Begin(i, w) /\ w.pc = "delete"
    BY <1>8 DEF Se!StartDelete
  <2> QED
    BY <1>2, <2>1
<1>9. ASSUME NEW failed \in BOOLEAN, Se!PutTemplate(i, failed) PROVE Se!ReadersKnow'
  <2>1. v6' = [v6 EXCEPT ![i] = Se!Idle] /\ UNCHANGED <<v1, v2, v9>>
    BY <1>9 DEF Se!PutTemplate, Se!Goto
  <2>2. v3' = v3 \/ v3' = [v3 EXCEPT ![v6[i].row] = [whole |-> TRUE, functions |-> v6[i].functions]]
    BY <1>9 DEF Se!PutTemplate
  <2>3. v6[i].row \in Templates /\ [whole |-> TRUE, functions |-> v6[i].functions] \in Se!Bodies
    BY <1>9, SeJobIs DEF Se!PutTemplate, Se!PutsTemplate, Se!Bodies
  <2>4. Stay /\ Se!RowsAreWhole'
    BY <1>0, <1>w, <2>1, <2>2, <2>3 DEF Stay, Se!Exists, Se!RowsAreWhole
  <2> QED
    BY <1>k, <1>w, <2>1, <2>4
<1>10. ASSUME NEW failed \in BOOLEAN, Se!AuditUpdate(i, failed) PROVE Se!ReadersKnow'
  <2>1. PICK w : w = [v6[i] EXCEPT !.pc = "write"] /\ v6' = [v6 EXCEPT ![i] = w]
    BY <1>10 DEF Se!AuditUpdate, Se!Goto
  <2>2. w.row = v6[i].row /\ v6[i].pc = "audit" /\ UNCHANGED <<v1, v2, v3, v9>>
    BY <1>10, <2>1, SeJobIs DEF Se!AuditUpdate, Se!WritesTemplate
  <2>3. Se!Exists(w.row) \/ w.row \in v9
    BY <2>2 DEF Se!ReadersKnow
  <2> QED
    BY <1>e, <1>k, <2>1, <2>2, <2>3
<1>11. ASSUME NEW failed \in BOOLEAN, Se!UpdateTemplate(i, failed) PROVE Se!ReadersKnow'
  <2>1. v6' = [v6 EXCEPT ![i] = Se!Idle] /\ UNCHANGED <<v1, v2, v9>>
    BY <1>11 DEF Se!UpdateTemplate, Se!Goto
  <2>2. v6[i].row \in Templates /\ v6[i].pc = "write"
    BY <1>11, SeUpdates
  <2>3. v3[v6[i].row] # None \/ v6[i].row \in v9
    <3>1. Se!Exists(v6[i].row) \/ v6[i].row \in v9
      BY <2>2 DEF Se!ReadersKnow
    <3> QED
      BY <2>2, <3>1, KindsAssumption DEF Se!Exists
  <2>4. CASE failed
    <3>1. v3' = v3
      BY <1>11, <2>4, SeUpdates
    <3> QED
      BY <1>e, <1>k, <1>w, <2>1, <3>1
  <2>5. CASE ~failed
    <3>1. PICK b \in Se!Bodies : /\ v3' = [v3 EXCEPT ![v6[i].row] = b]
                                 /\ b.whole = (v3[v6[i].row] # None /\ v3[v6[i].row].whole)
      BY <1>11, <2>5, SeUpdates
    <3>2. v3'[v6[i].row] = b /\ (\A t \in Templates : t # v6[i].row => v3'[t] = v3[t]) /\ b # None
      BY <1>0, <2>2, <3>1
    <3>3. Stay
      BY <2>1, <2>2, <3>2 DEF Stay, Se!Exists
    <3>4. Se!RowsAreWhole'
      <4>1. ~b.whole => v6[i].row \in v9
        BY <1>w, <2>2, <2>3, <3>1 DEF Se!RowsAreWhole
      <4> QED
        BY <1>w, <2>1, <2>2, <3>2, <4>1 DEF Se!RowsAreWhole
    <3> QED
      BY <1>k, <1>w, <2>1, <3>3, <3>4
  <2> QED
    BY <2>4, <2>5
<1>12. ASSUME Se!PutView(i) PROVE Se!ReadersKnow'
  <2>1. v6' = [v6 EXCEPT ![i] = Se!Idle] /\ UNCHANGED <<v2, v3, v9>>
        /\ v1' = [v1 EXCEPT ![v6[i].row] = v6[i].position]
    BY <1>12 DEF Se!PutView, Se!Goto
  <2>2. v6[i].row \in Views /\ v6[i].position \in 0 .. v7
    BY <1>12, SeJobIs DEF Se!PutView, Se!PutsView
  <2>3. v6[i].position # None /\ v6[i].position # -1
    BY <1>0, <2>2, NoneAssumption
  <2>4. v1'[v6[i].row] = v6[i].position /\ \A v \in Views : v # v6[i].row => v1'[v] = v1[v]
    BY <1>0, <2>1, <2>2
  <2>5. Stay
    BY <2>1, <2>2, <2>3, <2>4 DEF Stay, Se!Exists
  <2>6. Se!RowsAreWhole'
    BY <1>0, <1>w, <2>1, <2>2, <2>3, <2>4 DEF Se!RowsAreWhole
  <2> QED
    BY <1>k, <1>w, <2>1, <2>5, <2>6
<1>13. ASSUME Se!UpdateView(i) PROVE Se!ReadersKnow'
  <2>1. v6' = [v6 EXCEPT ![i] = Se!Idle] /\ UNCHANGED <<v2, v3, v9>>
    BY <1>13 DEF Se!UpdateView, Se!Goto
  <2>2. v6[i].row \in Views /\ v6[i].position \in {None, 0} /\ v6[i].pc = "write"
    BY <1>13, SeJobIs DEF Se!UpdateView, Se!WritesView
  <2>3. v1[v6[i].row] # None \/ v6[i].row \in v9
    <3>1. Se!Exists(v6[i].row) \/ v6[i].row \in v9
      BY <2>2 DEF Se!ReadersKnow
    <3> QED
      BY <2>2, <3>1, KindsAssumption DEF Se!Exists
  <2>4. /\ v1'[v6[i].row] = IF v6[i].position # None THEN v6[i].position
                            ELSE IF v1[v6[i].row] = None THEN Se!Broken ELSE v1[v6[i].row]
        /\ \A v \in Views : v # v6[i].row => v1'[v] = v1[v]
    BY <1>0, <1>13, <2>2 DEF Se!UpdateView
  <2>5. v1'[v6[i].row] # None /\ (v1'[v6[i].row] = -1 => v6[i].row \in v9)
    BY <1>0, <1>w, <2>2, <2>3, <2>4 DEF Se!RowsAreWhole
  <2>6. Stay
    BY <2>1, <2>2, <2>4, <2>5 DEF Stay, Se!Exists
  <2>7. Se!RowsAreWhole'
    BY <1>0, <1>w, <2>1, <2>2, <2>4, <2>5 DEF Se!RowsAreWhole
  <2> QED
    BY <1>k, <1>w, <2>1, <2>6, <2>7
<1>14. ASSUME Se!UpdateLabel(i) PROVE Se!ReadersKnow'
  <2>1. v6' = [v6 EXCEPT ![i] = Se!Idle] /\ UNCHANGED <<v1, v3, v9>>
    BY <1>14 DEF Se!UpdateLabel, Se!Goto
  <2>2. v6[i].row \in Labels /\ v6[i].pc = "write"
    BY <1>14 DEF Se!UpdateLabel
  <2>3. v2[v6[i].row] # None \/ v6[i].row \in v9
    <3>1. Se!Exists(v6[i].row) \/ v6[i].row \in v9
      BY <2>2 DEF Se!ReadersKnow
    <3> QED
      BY <2>2, <3>1, KindsAssumption DEF Se!Exists
  <2>4. /\ v2'[v6[i].row] = IF v2[v6[i].row] = None THEN "partial" ELSE v2[v6[i].row]
        /\ \A l \in Labels : l # v6[i].row => v2'[l] = v2[l]
    BY <1>0, <1>14, <2>2 DEF Se!UpdateLabel
  <2>5. Stay
    BY <1>0, <2>1, <2>2, <2>4 DEF Stay, Se!Exists
  <2>6. Se!RowsAreWhole'
    BY <1>0, <1>w, <2>1, <2>2, <2>3, <2>4 DEF Se!RowsAreWhole
  <2> QED
    BY <1>k, <1>w, <2>1, <2>5, <2>6
<1>15. ASSUME Se!Delete(i) PROVE Se!ReadersKnow'
  <2> DEFINE r == v6[i].row
  <2>1. v6' = [v6 EXCEPT ![i] = Se!Idle] /\ v9 \subseteq v9'
    BY <1>15 DEF Se!Delete, Se!Goto
  <2>2. /\ v1' = IF r \in Views THEN [v1 EXCEPT ![r] = None] ELSE v1
        /\ v2' = IF r \in Labels THEN [v2 EXCEPT ![r] = None] ELSE v2
        /\ v3' = IF r \in Templates THEN [v3 EXCEPT ![r] = None] ELSE v3
    BY <1>15 DEF Se!Delete
  <2>3. \A x : x # r => (Se!Exists(x) => Se!Exists(x)')
    BY <1>0, <2>2 DEF Se!Exists
  <2>4. \A j \in Lambdas : v6[j].pc \in {"audit", "write"} /\ v6[j].row = r => r \in v9'
    BY <1>15 DEF Se!Delete
  <2>5. Se!RowsAreWhole'
    <3>1. \A v \in Views : v1'[v] = v1[v] \/ v1'[v] = None
      BY <1>0, <2>2
    <3>2. \A l \in Labels : v2'[l] = v2[l] \/ v2'[l] = None
      BY <1>0, <2>2
    <3>3. \A t \in Templates : v3'[t] = v3[t] \/ v3'[t] = None
      BY <1>0, <2>2
    <3> QED
      BY <1>0, <1>w, <2>1, <3>1, <3>2, <3>3 DEF Se!RowsAreWhole
  <2>6. v6'[i] = Se!Idle /\ \A j \in Lambdas : j # i => v6'[j] = v6[j]
    BY <1>0, <2>1
  <2>7. ASSUME NEW j \in Lambdas, v6'[j].pc \in {"audit", "write"}
        PROVE  \A x : x = v6'[j].row => Se!Exists(x)' \/ x \in v9'
    <3>1. j # i /\ v6'[j] = v6[j]
      BY <1>w, <2>6, <2>7
    <3>2. Se!Exists(v6[j].row) \/ v6[j].row \in v9
      BY <2>7, <3>1 DEF Se!ReadersKnow
    <3> QED
      BY <2>1, <2>3, <2>4, <2>7, <3>1, <3>2
  <2> QED
    BY <2>5, <2>7 DEF Se!ReadersKnow
<1> QED
  BY <1>3, <1>4, <1>5, <1>6, <1>7, <1>8, <1>9, <1>10, <1>11, <1>12, <1>13, <1>14, <1>15 DEF Se!Step

\* Two views come to one place by way of the shared places only.
LEMMA SePlaces == Se!StateOK /\ Se!PlacesFree /\ Se!Next => Se!PlacesFree'
<1> SUFFICES ASSUME Se!StateOK, Se!PlacesFree, NEW i \in Lambdas, Se!Step(i) PROVE Se!PlacesFree'
  BY DEF Se!Next
<1>0. /\ v6 \in [Lambdas -> Se!Jobs(v7)] /\ v1 \in [Views -> (Se!Broken .. v7) \union {None}]
      /\ Se!Broken = -1 /\ None \notin Int /\ v7 \in Nat /\ Se!Idle.pc = "idle"
  BY BoundsAssumption, NoneAssumption DEF Se!StateOK, Se!Broken, Se!Idle
<1>w. Se!PlacesDiffer
  BY DEF Se!PlacesFree
\* Views stay where they are or go, and no request has a new place.
<1>k. ASSUME NEW w, v6' = [v6 EXCEPT ![i] = w],
             w.pc = "put view" => w.position \in Nat /\ \A v \in Views : v1[v] # w.position,
             \A v \in Views : v1'[v] = v1[v] \/ v1'[v] \in {None, Se!Broken}, v11 \subseteq v11'
      PROVE  Se!PlacesFree'
  <2>1. v6'[i] = w /\ \A j \in Lambdas : j # i => v6'[j] = v6[j]
    BY <1>0, <1>k
  <2>2. Se!PlacesDiffer'
    BY <1>k, <1>w DEF Se!PlacesDiffer
  <2>3. ASSUME NEW j \in Lambdas, NEW v \in Views, v6'[j].pc = "put view", v1'[v] = v6'[j].position
        PROVE  v6'[j].position \in v11'
    <3>1. v6'[j].position \in Nat
      <4>1. CASE j = i
        BY <1>k, <2>1, <2>3, <4>1
      <4>2. CASE j # i
        <5>1. v6[j] \in Se!PutsView(v7) /\ v6'[j] = v6[j]
          BY <2>1, <2>3, <4>2, SeJobIs
        <5>2. v6[j].position \in 0 .. v7
          BY <5>1 DEF Se!PutsView
        <5> QED
          BY <1>0, <5>1, <5>2
      <4> QED
        BY <4>1, <4>2
    <3>2. v1'[v] = v1[v]
      <4>1. v1'[v] \in Nat
        BY <2>3, <3>1
      <4>2. v1'[v] \notin {None, Se!Broken}
        BY <1>0, <4>1
      <4> QED
        BY <1>k, <4>2
    <3>3. j # i /\ v6'[j] = v6[j]
      BY <1>k, <2>1, <2>3, <3>2
    <3> QED
      BY <1>k, <2>3, <3>2, <3>3 DEF Se!PlacesFree
  <2> QED
    BY <2>2, <2>3 DEF Se!PlacesFree
<1>2. ASSUME NEW v \in Views, Se!CreateView(i, v) PROVE Se!PlacesFree'
  <2>1. v1' = v1 /\ v11' = v11
    BY <1>2 DEF Se!CreateView
  <2>2. CASE Se!Broken \in Se!Positions
    BY <1>0, <1>2, <1>k, <2>1, <2>2 DEF Se!CreateView, Se!Begin, Se!Goto
  <2>3. CASE Se!Broken \notin Se!Positions
    <3>1. PICK w : /\ v6' = [v6 EXCEPT ![i] = w]
                   /\ w = [pc |-> "put view", row |-> v, position |-> Se!NextPosition(v)]
      BY <1>2, <2>3 DEF Se!CreateView, Se!Begin, Se!Goto
    <3>2. w.position = Se!NextPosition(v)
      BY <3>1
    <3>3. Se!NextPosition(v) \in 0 .. v7 + 1 /\ \A u \in Views : v1[u] # Se!NextPosition(v)
      BY <2>3, SeNextIsFree
    <3>4. w.position \in Nat /\ \A u \in Views : v1[u] # w.position
      BY <1>0, <3>2, <3>3
    <3> QED
      BY <1>k, <2>1, <3>1, <3>4
  <2> QED
    BY <2>2, <2>3
<1>3. ASSUME NEW w, Se!Begin(i, w), w.pc # "put view", UNCHANGED <<v1, v11>>
      PROVE  Se!PlacesFree'
  BY <1>3, <1>k DEF Se!Begin, Se!Goto
<1>4. ASSUME NEW v \in Views, NEW p \in {None, 0}, Se!PatchView(i, v, p) PROVE Se!PlacesFree'
  <2>1. PICK w : Se!Begin(i, w) /\ w = [pc |-> "write", row |-> v, position |-> p]
    BY <1>4 DEF Se!PatchView
  <2>2. w.pc = "write"
    BY <2>1
  <2> QED
    BY <1>3, <1>4, <2>1, <2>2 DEF Se!PatchView
<1>5. ASSUME NEW l \in Labels, Se!CreateLabel(i, l) \/ Se!PatchLabel(i, l) PROVE Se!PlacesFree'
  <2>1. PICK w : Se!Begin(i, w) /\ (w = Se!Idle \/ w = [pc |-> "write", row |-> l])
    BY <1>5 DEF Se!CreateLabel, Se!PatchLabel
  <2>2. w.pc \in {"idle", "write"}
    <3>1. CASE w = Se!Idle
      BY <1>0, <3>1
    <3>2. CASE w = [pc |-> "write", row |-> l]
      <4>1. w.pc = "write"
        BY <3>2
      <4> QED
        BY <4>1
    <3> QED
      BY <2>1, <3>1, <3>2
  <2> QED
    BY <1>3, <1>5, <2>1, <2>2 DEF Se!CreateLabel, Se!PatchLabel
<1>6. ASSUME NEW t \in Templates, NEW f \in Functions \union {None},
             Se!PatchTemplate(i, t, f) \/ Se!ReplaceTemplate(i, t, f)
      PROVE  Se!PlacesFree'
  <2>1. PICK w, method : /\ Se!Begin(i, w)
                         /\ w = [pc |-> "audit", row |-> t, method |-> method, before |-> v3[t].functions,
                                 functions |-> f]
    BY <1>6 DEF Se!PatchTemplate, Se!ReplaceTemplate, Se!ReadTemplate
  <2>2. w.pc # "put view"
    BY <2>1
  <2> QED
    BY <1>3, <1>6, <2>1, <2>2 DEF Se!PatchTemplate, Se!ReplaceTemplate, Se!ReadTemplate
<1>7. ASSUME NEW t \in Templates, NEW f \in Functions \union {None}, NEW failed \in BOOLEAN,
             Se!CreateTemplate(i, t, f, failed)
      PROVE  Se!PlacesFree'
  <2>1. PICK w : Se!Begin(i, w) /\ w = [pc |-> "put template", row |-> t, functions |-> f]
    BY <1>7 DEF Se!CreateTemplate
  <2>2. w.pc # "put view"
    BY <2>1
  <2> QED
    BY <1>3, <1>7, <2>1, <2>2 DEF Se!CreateTemplate
<1>8. ASSUME NEW r \in Se!Rows, Se!StartDelete(i, r) PROVE Se!PlacesFree'
  <2>1. PICK w : Se!Begin(i, w) /\ w = [pc |-> "delete", row |-> r]
    BY <1>8 DEF Se!StartDelete
  <2>2. w.pc # "put view"
    BY <2>1
  <2> QED
    BY <1>3, <1>8, <2>1, <2>2 DEF Se!StartDelete
<1>9. ASSUME UNCHANGED <<v1, v11>>, v6' = [v6 EXCEPT ![i] = Se!Idle] PROVE Se!PlacesFree'
  BY <1>0, <1>9, <1>k
<1>10. ASSUME NEW failed \in BOOLEAN, Se!AuditUpdate(i, failed) PROVE Se!PlacesFree'
  <2>1. PICK w : w = [v6[i] EXCEPT !.pc = "write"] /\ v6' = [v6 EXCEPT ![i] = w]
    BY <1>10 DEF Se!AuditUpdate, Se!Goto
  <2>2. w.pc = "write"
    BY <1>10, <2>1, SeJobIs DEF Se!AuditUpdate, Se!WritesTemplate
  <2> QED
    BY <1>10, <1>k, <2>1, <2>2 DEF Se!AuditUpdate
<1>11. ASSUME NEW failed \in BOOLEAN, Se!PutTemplate(i, failed) \/ Se!UpdateTemplate(i, failed)
       PROVE  Se!PlacesFree'
  BY <1>9, <1>11 DEF Se!PutTemplate, Se!UpdateTemplate, Se!Goto
<1>12. ASSUME Se!PutView(i) PROVE Se!PlacesFree'
  <2> DEFINE p == v6[i].position
  <2>1. /\ v6[i].pc = "put view" /\ v6' = [v6 EXCEPT ![i] = Se!Idle] /\ v1' = [v1 EXCEPT ![v6[i].row] = p]
        /\ v11' = IF \E j \in Lambdas \ {i} : v6[j].pc = "put view" THEN v11 \union Se!Putting ELSE v11
    BY <1>12 DEF Se!PutView, Se!Goto
  <2>2. v6[i].row \in Views /\ \A u \in Views : v1'[u] = IF u = v6[i].row THEN p ELSE v1[u]
    BY <1>0, <2>1, SeJobIs DEF Se!PutsView
  <2>3. v11 \subseteq v11' /\ \A u \in Views : v1[u] = p => p \in v11'
    BY <2>1 DEF Se!PlacesFree
  <2>4. v6'[i] = Se!Idle /\ \A j \in Lambdas : j # i => v6'[j] = v6[j]
    BY <1>0, <2>1
  <2>5. ASSUME NEW j \in Lambdas, v6'[j].pc = "put view"
        PROVE  j # i /\ v6'[j] = v6[j] /\ v6'[j].position \in v11'
    <3>1. j # i /\ v6'[j] = v6[j]
      BY <1>0, <2>4, <2>5
    <3>2. v6[j].position \in Se!Putting
      BY <2>5, <3>1 DEF Se!Putting
    <3>3. j \in Lambdas \ {i} /\ v6[j].pc = "put view"
      BY <2>5, <3>1
    <3>4. v11' = v11 \union Se!Putting
      BY <2>1, <3>3
    <3> QED
      BY <3>1, <3>2, <3>4
  <2>6. Se!PlacesDiffer'
    BY <1>w, <2>2, <2>3 DEF Se!PlacesDiffer
  <2> QED
    BY <2>5, <2>6 DEF Se!PlacesFree
<1>13. ASSUME Se!UpdateView(i) PROVE Se!PlacesFree'
  <2> DEFINE p == v6[i].position
  <2>1. v6[i].row \in Views /\ p \in {None, 0} /\ v6' = [v6 EXCEPT ![i] = Se!Idle]
    BY <1>13, SeJobIs DEF Se!UpdateView, Se!WritesView, Se!Goto
  <2>2. \A u \in Views : v1'[u] = IF u # v6[i].row THEN v1[u] ELSE IF p # None THEN p
                                  ELSE IF v1[u] = None THEN Se!Broken ELSE v1[u]
    BY <1>0, <1>13, <2>1 DEF Se!UpdateView
  <2>3. v11' = IF p = None THEN v11 ELSE v11 \union {p}
    BY <1>13 DEF Se!UpdateView
  <2>4. CASE p = None
    BY <1>k, <1>0, <2>1, <2>2, <2>3, <2>4
  <2>5. CASE p # None
    <3>1. \A u \in Views : v1'[u] = v1[u] \/ v1'[u] \in v11'
      BY <2>2, <2>3, <2>5
    <3>2. Se!PlacesDiffer'
      BY <1>w, <2>3, <3>1 DEF Se!PlacesDiffer
    <3>3. v6'[i] = Se!Idle /\ \A j \in Lambdas : j # i => v6'[j] = v6[j]
      BY <1>0, <2>1
    <3>4. ASSUME NEW j \in Lambdas, NEW u \in Views, v6'[j].pc = "put view", v1'[u] = v6'[j].position
          PROVE  v6'[j].position \in v11'
      <4>1. v6'[j] = v6[j]
        BY <1>0, <3>3, <3>4
      <4> QED
        BY <2>3, <3>1, <3>4, <4>1 DEF Se!PlacesFree
    <3> QED
      BY <3>2, <3>4 DEF Se!PlacesFree
  <2> QED
    BY <2>4, <2>5
<1>14. ASSUME Se!UpdateLabel(i) PROVE Se!PlacesFree'
  BY <1>9, <1>14 DEF Se!UpdateLabel, Se!Goto
<1>15. ASSUME Se!Delete(i) PROVE Se!PlacesFree'
  <2>1. \A v \in Views : v1'[v] = v1[v] \/ v1'[v] = None
    BY <1>0, <1>15 DEF Se!Delete
  <2> QED
    BY <1>0, <1>15, <1>k, <2>1 DEF Se!Delete, Se!Goto
<1> QED
  BY <1>2, <1>4, <1>5, <1>6, <1>7, <1>8, <1>10, <1>11, <1>12, <1>13, <1>14, <1>15 DEF Se!Step

\* What is audited stays audited, and a change has been before the row is written.
LEMMA SeAudits == Se!StateOK /\ Se!AuditedFirst /\ Se!Next => Se!AuditedFirst'
<1> SUFFICES ASSUME Se!StateOK, Se!AuditedFirst, NEW i \in Lambdas, Se!Step(i) PROVE Se!AuditedFirst'
  BY DEF Se!Next
<1>0. /\ v6 \in [Lambdas -> Se!Jobs(v7)] /\ v3 \in [Templates -> Se!Bodies \union {None}]
      /\ Se!Idle.pc = "idle" /\ None \notin Se!Bodies
  BY NoneAssumption DEF Se!StateOK, Se!Idle
<1>w. Se!CodeIsAudited
  BY DEF Se!AuditedFirst
<1>a. ASSUME v5 \subseteq v5', v10 \subseteq v10', NEW t, NEW f, Se!Audited(t, f)
      PROVE  Se!Audited(t, f)'
  BY <1>a DEF Se!Audited
<1>k. ASSUME NEW w, v6' = [v6 EXCEPT ![i] = w], v5 \subseteq v5', v10 \subseteq v10',
             w.pc \in {"put template", "write"} /\ w.row \in Templates /\ w.functions # None =>
               \A t, f : t = w.row /\ f = w.functions => Se!Audited(t, f)',
             \A t \in Templates : \A f : v3'[t] # None /\ f = v3'[t].functions /\ f # None =>
               \/ v3[t] # None /\ f = v3[t].functions
               \/ Se!Audited(t, f)
      PROVE  Se!AuditedFirst'
  <2>1. v6'[i] = w /\ \A j \in Lambdas : j # i => v6'[j] = v6[j]
    BY <1>0, <1>k
  <2>0. \A t \in Templates : \A f : v3[t] # None /\ f = v3[t].functions /\ f # None => Se!Audited(t, f)
    BY <1>w DEF Se!CodeIsAudited, Se!Audited
  <2>2. \A t \in Templates : \A f : v3'[t] # None /\ f = v3'[t].functions /\ f # None => Se!Audited(t, f)
    BY <1>k, <2>0
  <2>3. Se!CodeIsAudited'
    <3>1. \A t \in Templates : \A f : v3'[t] # None /\ f = v3'[t].functions /\ f # None => Se!Audited(t, f)'
      BY <1>a, <1>k, <2>2
    <3> QED
      BY <3>1 DEF Se!CodeIsAudited, Se!Audited
  <2>4. ASSUME NEW j \in Lambdas, v6'[j].pc \in {"put template", "write"}, v6'[j].row \in Templates,
               v6'[j].functions # None
        PROVE  \A t, f : t = v6'[j].row /\ f = v6'[j].functions => Se!Audited(t, f)'
    <3>1. CASE j = i
      BY <1>k, <2>1, <2>4, <3>1
    <3>2. CASE j # i
      <4>1. Se!Audited(v6[j].row, v6[j].functions)
        BY <2>1, <2>4, <3>2 DEF Se!AuditedFirst
      <4> QED
        BY <1>a, <1>k, <2>1, <3>2, <4>1
    <3> QED
      BY <3>1, <3>2
  <2> QED
    BY <2>3, <2>4 DEF Se!AuditedFirst
<1>s. UNCHANGED v3 => \A t \in Templates : \A f : v3'[t] # None /\ f = v3'[t].functions /\ f # None =>
                        v3[t] # None /\ f = v3[t].functions
  OBVIOUS
\* Who works on something else, or has nothing to write yet.
<1>q. ASSUME NEW w, v6' = [v6 EXCEPT ![i] = w], v5' = v5, v10' = v10, v3' = v3,
             w.pc \notin {"put template", "write"} \/ w.row \notin Templates
      PROVE  Se!AuditedFirst'
  BY <1>k, <1>q, <1>s
<1>2. ASSUME NEW v \in Views, Se!CreateView(i, v) PROVE Se!AuditedFirst'
  <2>1. PICK w : /\ v6' = [v6 EXCEPT ![i] = w]
                 /\ w = Se!Idle \/ w = [pc |-> "put view", row |-> v, position |-> Se!NextPosition(v)]
    BY <1>2 DEF Se!CreateView, Se!Begin, Se!Goto
  <2>2. w.pc \in {"idle", "put view"}
    <3>1. CASE w = Se!Idle
      BY <1>0, <3>1
    <3>2. CASE w = [pc |-> "put view", row |-> v, position |-> Se!NextPosition(v)]
      <4>1. w.pc = "put view"
        BY <3>2
      <4> QED
        BY <4>1
    <3> QED
      BY <2>1, <3>1, <3>2
  <2> QED
    BY <1>2, <1>q, <2>1, <2>2 DEF Se!CreateView
<1>3. ASSUME NEW v \in Views, NEW p \in {None, 0}, Se!PatchView(i, v, p) PROVE Se!AuditedFirst'
  <2>1. PICK w : v6' = [v6 EXCEPT ![i] = w] /\ w = [pc |-> "write", row |-> v, position |-> p]
    BY <1>3 DEF Se!PatchView, Se!Begin, Se!Goto
  <2>2. w.row \notin Templates
    BY <2>1, KindsAssumption
  <2> QED
    BY <1>3, <1>q, <2>1, <2>2 DEF Se!PatchView
<1>4. ASSUME NEW l \in Labels, Se!CreateLabel(i, l) \/ Se!PatchLabel(i, l) PROVE Se!AuditedFirst'
  <2>1. PICK w : v6' = [v6 EXCEPT ![i] = w] /\ (w = Se!Idle \/ w = [pc |-> "write", row |-> l])
    BY <1>4 DEF Se!CreateLabel, Se!PatchLabel, Se!Begin, Se!Goto
  <2>2. w.pc = "idle" \/ w.row \notin Templates
    BY <1>0, <2>1, KindsAssumption
  <2> QED
    BY <1>4, <1>q, <2>1, <2>2 DEF Se!CreateLabel, Se!PatchLabel
<1>5. ASSUME NEW t \in Templates, NEW f \in Functions \union {None},
             Se!PatchTemplate(i, t, f) \/ Se!ReplaceTemplate(i, t, f)
      PROVE  Se!AuditedFirst'
  <2>1. PICK w, method : /\ v6' = [v6 EXCEPT ![i] = w]
                         /\ w = [pc |-> "audit", row |-> t, method |-> method, before |-> v3[t].functions,
                                 functions |-> f]
    BY <1>5 DEF Se!PatchTemplate, Se!ReplaceTemplate, Se!ReadTemplate, Se!Begin, Se!Goto
  <2>2. w.pc = "audit"
    BY <2>1
  <2> QED
    BY <1>5, <1>q, <2>1, <2>2 DEF Se!PatchTemplate, Se!ReplaceTemplate, Se!ReadTemplate
<1>6. ASSUME NEW r \in Se!Rows, Se!StartDelete(i, r) PROVE Se!AuditedFirst'
  <2>1. PICK w : v6' = [v6 EXCEPT ![i] = w] /\ w = [pc |-> "delete", row |-> r]
    BY <1>6 DEF Se!StartDelete, Se!Begin, Se!Goto
  <2>2. w.pc = "delete"
    BY <2>1
  <2> QED
    BY <1>6, <1>q, <2>1, <2>2 DEF Se!StartDelete
<1>7. ASSUME NEW t, NEW before, NEW f, NEW failed \in BOOLEAN, Se!Audit(t, before, f, failed)
      PROVE  v5 \subseteq v5' /\ v10 \subseteq v10' /\ Se!Audited(t, f)'
  <2>1. CASE failed
    BY <1>7, <2>1 DEF Se!Audit, Se!Audited
  <2>2. CASE ~failed
    <3>1. v5' = v5 \union {<<t, before, f>>} /\ v10' = v10
      BY <1>7, <2>2 DEF Se!Audit
    <3>2. <<t, before, f>>[1] = t /\ <<t, before, f>>[3] = f
      OBVIOUS
    <3> QED
      BY <3>1, <3>2 DEF Se!Audited
  <2> QED
    BY <2>1, <2>2
<1>8. ASSUME NEW t \in Templates, NEW f \in Functions \union {None}, NEW failed \in BOOLEAN,
             Se!CreateTemplate(i, t, f, failed)
      PROVE  Se!AuditedFirst'
  <2>1. PICK w : v6' = [v6 EXCEPT ![i] = w] /\ w = [pc |-> "put template", row |-> t, functions |-> f]
    BY <1>8 DEF Se!CreateTemplate, Se!Begin, Se!Goto
  <2>2. w.row = t /\ w.functions = f
    BY <2>1
  <2>3. v3' = v3
    BY <1>8 DEF Se!CreateTemplate
  <2>4. CASE f # None
    <3>1. Se!Audit(t, None, f, failed)
      BY <1>8, <2>4 DEF Se!CreateTemplate
    <3>2. v5 \subseteq v5' /\ v10 \subseteq v10' /\ \A g, u : u = t /\ g = f => Se!Audited(u, g)'
      BY <1>7, <3>1
    <3> QED
      BY <1>k, <1>s, <2>1, <2>2, <2>3, <3>2
  <2>5. CASE f = None
    <3>1. UNCHANGED <<v5, v10>>
      BY <1>8, <2>5 DEF Se!CreateTemplate
    <3> QED
      BY <1>k, <1>s, <2>1, <2>2, <2>3, <2>5, <3>1
  <2> QED
    BY <2>4, <2>5
<1>9. ASSUME NEW failed \in BOOLEAN, Se!AuditUpdate(i, failed) PROVE Se!AuditedFirst'
  <2>1. PICK w : w = [v6[i] EXCEPT !.pc = "write"] /\ v6' = [v6 EXCEPT ![i] = w]
    BY <1>9 DEF Se!AuditUpdate, Se!Goto
  <2>2. w.row = v6[i].row /\ w.functions = v6[i].functions
    BY <1>9, <2>1, SeJobIs DEF Se!AuditUpdate, Se!WritesTemplate
  <2>3. v3' = v3
    BY <1>9 DEF Se!AuditUpdate
  <2>4. CASE w.functions # None
    <3>1. Se!Audit(w.row, v6[i].before, w.functions, failed)
      BY <1>9, <2>2, <2>4 DEF Se!AuditUpdate, Se!AuditsChange
    <3>2. v5 \subseteq v5' /\ v10 \subseteq v10' /\ \A g, u : u = w.row /\ g = w.functions => Se!Audited(u, g)'
      BY <1>7, <3>1
    <3> QED
      BY <1>k, <1>s, <2>1, <2>3, <3>2
  <2>5. CASE w.functions = None
    <3>1. UNCHANGED <<v5, v10>>
      BY <1>9, <2>2, <2>5 DEF Se!AuditUpdate, Se!AuditsChange
    <3> QED
      BY <1>k, <1>s, <2>1, <2>3, <2>5, <3>1
  <2> QED
    BY <2>4, <2>5
<1>10. ASSUME NEW failed \in BOOLEAN, Se!PutTemplate(i, failed) PROVE Se!AuditedFirst'
  <2>1. /\ v6' = [v6 EXCEPT ![i] = Se!Idle] /\ UNCHANGED <<v5, v10>> /\ v6[i].pc = "put template"
        /\ v3' = v3 \/ v3' = [v3 EXCEPT ![v6[i].row] = [whole |-> TRUE, functions |-> v6[i].functions]]
    BY <1>10 DEF Se!PutTemplate, Se!Goto
  <2>2. v6[i].row \in Templates
    BY <2>1, SeJobIs DEF Se!PutsTemplate
  <2>3. v6[i].functions # None => Se!Audited(v6[i].row, v6[i].functions)
    BY <2>1, <2>2 DEF Se!AuditedFirst
  <2>4. \A t \in Templates : \A f : v3'[t] # None /\ f = v3'[t].functions /\ f # None =>
          \/ v3[t] # None /\ f = v3[t].functions
          \/ Se!Audited(t, f)
    <3>1. CASE v3' = v3
      BY <3>1
    <3>2. CASE v3' = [v3 EXCEPT ![v6[i].row] = [whole |-> TRUE, functions |-> v6[i].functions]]
      <4>1. PICK b : b = [whole |-> TRUE, functions |-> v6[i].functions] /\ v3' = [v3 EXCEPT ![v6[i].row] = b]
        BY <3>2
      <4>2. b.functions = v6[i].functions
        BY <4>1
      <4>3. v3'[v6[i].row] = b /\ \A t \in Templates : t # v6[i].row => v3'[t] = v3[t]
        BY <1>0, <2>2, <4>1
      <4> QED
        BY <2>3, <4>2, <4>3
    <3> QED
      BY <2>1, <3>1, <3>2
  <2> QED
    BY <1>0, <1>k, <2>1, <2>4
<1>11. ASSUME NEW failed \in BOOLEAN, Se!UpdateTemplate(i, failed) PROVE Se!AuditedFirst'
  <2>1. v6' = [v6 EXCEPT ![i] = Se!Idle] /\ UNCHANGED <<v5, v10>>
    BY <1>11 DEF Se!UpdateTemplate, Se!Goto
  <2>2. v6[i].functions # None => Se!Audited(v6[i].row, v6[i].functions)
    BY <1>11, SeUpdates DEF Se!AuditedFirst
  <2>3. CASE failed
    BY <1>0, <1>11, <1>q, <2>1, <2>3, SeUpdates
  <2>4. CASE ~failed
    <3>1. PICK b \in Se!Bodies :
            /\ v3' = [v3 EXCEPT ![v6[i].row] = b]
            /\ b.functions # None =>
                 \/ b.functions = v6[i].functions
                 \/ v3[v6[i].row] # None /\ b.functions = v3[v6[i].row].functions
      BY <1>11, <2>4, SeUpdates
    <3>2. \A t \in Templates : \A f : v3'[t] # None /\ f = v3'[t].functions /\ f # None =>
            \/ v3[t] # None /\ f = v3[t].functions
            \/ Se!Audited(t, f)
      BY <1>0, <2>2, <3>1
    <3> QED
      BY <1>0, <1>k, <2>1, <3>2
  <2> QED
    BY <2>3, <2>4
<1>12. ASSUME Se!PutView(i) \/ Se!UpdateView(i) \/ Se!UpdateLabel(i) PROVE Se!AuditedFirst'
  BY <1>0, <1>12, <1>q DEF Se!PutView, Se!UpdateView, Se!UpdateLabel, Se!Goto
<1>13. ASSUME Se!Delete(i) PROVE Se!AuditedFirst'
  <2>1. v6' = [v6 EXCEPT ![i] = Se!Idle] /\ UNCHANGED <<v5, v10>>
    BY <1>13 DEF Se!Delete, Se!Goto
  <2>2. \A t \in Templates : v3'[t] = v3[t] \/ v3'[t] = None
    BY <1>0, <1>13 DEF Se!Delete
  <2> QED
    BY <1>0, <1>k, <2>1, <2>2
<1> QED
  BY <1>2, <1>3, <1>4, <1>5, <1>6, <1>8, <1>9, <1>10, <1>11, <1>12, <1>13 DEF Se!Step

\* For any rows, functions, requests and faults: rows are whole, places differ and the code a template
\* runs is in the audit log, each but for the causes the properties name (viewsApi, labelsApi,
\* templatesApi).
THEOREM SettingsAreKept == ProvedSpec => []SettingsHold
<1> DEFINE Inv == part = "settings" => Se!Inductive
<1>1. ProvedInit => Inv
  BY SeInitial DEF ProvedInit
<1>2. Inv /\ [ProvedNext]_values => Inv'
  <2>1. ASSUME Se!Inductive, Se!Next
        PROVE  Se!Inductive'
    BY <2>1, SeTyped, SeReads, SePlaces, SeAudits DEF Se!Inductive
  <2>2. ASSUME Se!Inductive, UNCHANGED <<v1, v2, v3, v5, v6, v7, v9, v10, v11>>
        PROVE  Se!Inductive'
    BY <2>2
       DEF Se!Inductive, Se!StateOK, Se!ReadersKnow, Se!RowsAreWhole, Se!Exists, Se!PlacesFree,
           Se!PlacesDiffer, Se!AuditedFirst, Se!CodeIsAudited, Se!Audited
  <2> QED
    BY <2>1, <2>2
       DEF ProvedNext, values, Rest10, Rest11, Rest12, Rest18
<1>3. Inv => SettingsHold
  <2>1. Se!StateOK => Se!TypeOK
    <3> SUFFICES ASSUME Se!StateOK PROVE Se!TypeOK
      OBVIOUS
    <3>1. \A v \in Views : v1[v] # None => v1[v] \in Se!Broken .. v7
      BY DEF Se!StateOK
    <3>2. v7 \in 0 .. MaxRequests /\ MaxRequests \in Nat /\ Se!Broken \in Int
      BY BoundsAssumption DEF Se!StateOK, Se!Broken
    <3>3. (Se!Broken .. v7) \subseteq (Se!Broken .. MaxRequests)
      BY <3>2
    <3>4. \A t \in Templates : v3[t] # None => v3[t].functions \in Functions \union {None}
      BY DEF Se!StateOK, Se!Bodies
    <3> QED
      BY <3>1, <3>3, <3>4 DEF Se!StateOK, Se!TypeOK
  <2> QED
    BY <2>1 DEF SettingsHold, Se!Inductive, Se!ReadersKnow, Se!PlacesFree, Se!AuditedFirst
<1> QED
  BY <1>1, <1>2, <1>3, PTL DEF ProvedSpec

-----------------------------------------------------------------------------
(* Account: v1 exists, v2 digest, v3 calendar, v4 flags, v5 target, v6 rule, *)
(* v7 tokens, v8 mailed, v9 workflow, v10 nudges, v11 digests, v12 lambda,   *)
(* v13 requests, v14 faults, v15 chosen, v16 told, v17 agreed, v18 overlap.  *)

\* The state at the start: there is no account.
LEMMA AcInitial == Ac!Init => Ac!Inductive
<1> SUFFICES ASSUME Ac!Init PROVE Ac!Inductive
  OBVIOUS
<1> USE DEF Ac!Init
<1>0. \A i \in Lambdas : v12[i].op = "idle" /\ v12[i] = Ac!Idle
  BY DEF Ac!Idle
<1>1. Ac!StateOK
  <2>1. Ac!TypeOK
    BY DEF Ac!TypeOK
  <2> QED
    BY <1>0, <2>1 DEF Ac!StateOK, Ac!Jobs
<1>2. Ac!Consented
  BY <1>0 DEF Ac!Consented, Ac!Consent, Ac!Verified, Ac!Holds
<1>3. Ac!Met
  BY <1>0 DEF Ac!Met, Ac!Clash
<1>4. Ac!Referred
  BY <1>0, NoneAssumption DEF Ac!Referred, Ac!ReferencesLive, Ac!DigestTo, Ac!Checked
<1>5. Ac!Flagged
  BY <1>0 DEF Ac!Flagged, Ac!OnboardingKept, Ac!At
<1>6. Ac!Chosen
  BY <1>0 DEF Ac!Chosen, Ac!ChoiceStands, Ac!At
<1> QED
  BY <1>1, <1>2, <1>3, <1>4, <1>5, <1>6 DEF Ac!Inductive

\* What an invocation holds at each point.
LEMMA AcJobIs ==
  ASSUME Ac!StateOK, NEW i \in Lambdas
  PROVE  /\ v12[i].op = "post" => v12[i] \in Ac!Posts(v7)
         /\ v12[i].op = "verify" => v12[i] \in Ac!Verifies(v7)
         /\ v12[i].op = "delete" => v12[i] \in Ac!Deletes
         /\ v12[i].op = "patch" => v12[i] \in Ac!Patches
         /\ v12[i].op = "calendar" => v12[i] \in Ac!Calendars
         /\ v12[i].op = "onboard" => v12[i] \in Ac!Onboards
         /\ v12[i].op = "rule" => v12[i] \in Ac!Forwards
         /\ v12[i].op = "setup" => v12[i] \in Ac!Setups \/ v12[i] \in Ac!FillsIn
         /\ v12[i].op = "progress" => v12[i] \in Ac!Progresses
<1>1. \/ v12[i] = Ac!Idle \/ v12[i] \in Ac!Posts(v7) \/ v12[i] \in Ac!Verifies(v7)
      \/ v12[i] \in Ac!Deletes \/ v12[i] \in Ac!Patches \/ v12[i] \in Ac!Calendars
      \/ v12[i] \in Ac!Onboards \/ v12[i] \in Ac!Forwards \/ v12[i] \in Ac!Setups
      \/ v12[i] \in Ac!FillsIn \/ v12[i] \in Ac!Progresses
  BY DEF Ac!StateOK, Ac!Jobs
<1>2. /\ v12[i] = Ac!Idle => v12[i].op = "idle"
      /\ v12[i] \in Ac!Posts(v7) => v12[i].op = "post"
      /\ v12[i] \in Ac!Verifies(v7) => v12[i].op = "verify"
      /\ v12[i] \in Ac!Deletes => v12[i].op = "delete"
      /\ v12[i] \in Ac!Patches => v12[i].op = "patch"
      /\ v12[i] \in Ac!Calendars => v12[i].op = "calendar"
      /\ v12[i] \in Ac!Onboards => v12[i].op = "onboard"
      /\ v12[i] \in Ac!Forwards => v12[i].op = "rule"
      /\ v12[i] \in Ac!Setups => v12[i].op = "setup"
      /\ v12[i] \in Ac!FillsIn => v12[i].op = "setup"
      /\ v12[i] \in Ac!Progresses => v12[i].op = "progress"
  BY DEF Ac!Idle, Ac!Posts, Ac!Verifies, Ac!Deletes, Ac!Patches, Ac!Calendars, Ac!Onboards, Ac!Forwards,
         Ac!Setups, Ac!FillsIn, Ac!Progresses
<1> QED
  BY <1>1, <1>2

\* The jobs there may be with one more token.
LEMMA AcJobsGrow == \A k \in Nat : Ac!Jobs(k) \subseteq Ac!Jobs(k + 1) /\ Ac!Idle \in Ac!Jobs(k)
<1> SUFFICES ASSUME NEW k \in Nat PROVE Ac!Jobs(k) \subseteq Ac!Jobs(k + 1) /\ Ac!Idle \in Ac!Jobs(k)
  OBVIOUS
<1>1. 1 .. k \subseteq 1 .. k + 1
  OBVIOUS
<1>2. Ac!TargetRows(k) \subseteq Ac!TargetRows(k + 1)
  BY <1>1 DEF Ac!TargetRows
<1>3. Ac!Posts(k) \subseteq Ac!Posts(k + 1) /\ Ac!Verifies(k) \subseteq Ac!Verifies(k + 1)
  BY <1>2 DEF Ac!Posts, Ac!Verifies
<1> QED
  BY <1>3 DEF Ac!Jobs

\* Each step leaves rows of their types and invocations that are under way.
LEMMA AcTyped == Ac!StateOK /\ Ac!Next => Ac!StateOK'
<1> SUFFICES ASSUME Ac!StateOK, Ac!Next PROVE Ac!StateOK'
  OBVIOUS
<1>0. /\ v7 \in Nat /\ v7 + 1 \in Nat /\ v12 \in [Lambdas -> Ac!Jobs(v7)] /\ Ac!TypeOK
      /\ v5 \in [Targets -> [status : {"pending", "verified"}, token : 1 .. v7] \union {None}]
      /\ v8 \subseteq Targets \X (1 .. v7)
  BY DEF Ac!StateOK, Ac!TypeOK
<1>i. Ac!Idle.op = "idle" /\ Ac!Idle \in Ac!Jobs(v7) /\ Ac!Idle \in Ac!Jobs(v7 + 1)
  BY <1>0, AcJobsGrow DEF Ac!Idle
<1>d. \A i \in Lambdas : /\ v12[i].op = "onboard" => v12[i].new \subseteq v16 \union {"completed"}
                         /\ v12[i].op = "progress" => v12[i].was \subseteq v16
  BY DEF Ac!StateOK
\* Rows that are left alone.
<1>t. UNCHANGED <<v2, v3, v4, v5, v6, v8, v16>> /\ (v7' = v7 \/ v7' = v7 + 1) => Ac!TypeOK'
  <2> SUFFICES ASSUME UNCHANGED <<v2, v3, v4, v5, v6, v8, v16>>, v7' = v7 \/ v7' = v7 + 1 PROVE Ac!TypeOK'
    OBVIOUS
  <2>1. 1 .. v7 \subseteq 1 .. v7'
    BY <1>0
  <2>2. [status : {"pending", "verified"}, token : 1 .. v7] \subseteq [status : {"pending", "verified"}, token : 1 .. v7']
    BY <2>1
  <2> QED
    BY <1>0, <2>1, <2>2 DEF Ac!TypeOK
\* One invocation goes on.
<1>g. ASSUME NEW i \in Lambdas, NEW w, v12' = [v12 EXCEPT ![i] = w], v7' = v7 \/ v7' = v7 + 1,
             w \in Ac!Jobs(v7'), Ac!TypeOK', v16 \subseteq v16',
             w.op = "onboard" => w.new \subseteq v16' \union {"completed"},
             w.op = "progress" => w.was \subseteq v16'
      PROVE  Ac!StateOK'
  <2>1. v12'[i] = w /\ \A j \in Lambdas : j # i => v12'[j] = v12[j]
    BY <1>0, <1>g
  <2>2. Ac!Jobs(v7) \subseteq Ac!Jobs(v7') /\ v7' \in Nat
    BY <1>0, <1>g, AcJobsGrow
  <2>3. v12' \in [Lambdas -> Ac!Jobs(v7')]
    BY <1>0, <1>g, <2>2
  <2>4. \A j \in Lambdas : /\ v12'[j].op = "onboard" => v12'[j].new \subseteq v16' \union {"completed"}
                           /\ v12'[j].op = "progress" => v12'[j].was \subseteq v16'
    BY <1>d, <1>g, <2>1
  <2> QED
    BY <1>g, <2>2, <2>3, <2>4 DEF Ac!StateOK
<1>e. ASSUME NEW i \in Lambdas, Ac!End(i), v7' = v7, Ac!TypeOK', v16 \subseteq v16'
      PROVE  Ac!StateOK'
  BY <1>e, <1>g, <1>i DEF Ac!End, Ac!Goto
\* One begins.
<1>s. ASSUME NEW i \in Lambdas, NEW w, Ac!Start(i, w), UNCHANGED <<v2, v3, v4, v5, v6, v8, v16>>,
             v7' = v7 \/ v7' = v7 + 1, w \in Ac!Jobs(v7'),
             w.op = "onboard" => w.new \subseteq v16 \union {"completed"},
             w.op = "progress" => w.was \subseteq v16
      PROVE  Ac!StateOK'
  BY <1>g, <1>s, <1>t DEF Ac!Start, Ac!Goto
\* Nobody does.
<1>n. ASSUME v12' = v12, v7' = v7, v16' = v16, Ac!TypeOK' PROVE Ac!StateOK'
  BY <1>n DEF Ac!StateOK
<1>1. ASSUME Ac!StartWorkflow \/ Ac!CreateAccount PROVE Ac!StateOK'
  BY <1>1, <1>n, <1>t DEF Ac!StartWorkflow, Ac!CreateAccount, Ac!row, Ac!work
<1>2. ASSUME Ac!Unsubscribe PROVE Ac!StateOK'
  <2>1. Ac!TypeOK'
    BY <1>0, <1>2 DEF Ac!Unsubscribe, Ac!UpdateDigest, Ac!TypeOK
  <2> QED
    BY <1>2, <1>n, <2>1 DEF Ac!Unsubscribe, Ac!work
<1>3. ASSUME NEW t \in Targets, Ac!DisableRule(t) \/ Ac!DeleteRule(t) PROVE Ac!StateOK'
  <2>1. v6' = [v6 EXCEPT ![t] = "disabled"] \/ v6' = [v6 EXCEPT ![t] = None]
    BY <1>3 DEF Ac!DisableRule, Ac!DeleteRule
  <2>2. Ac!TypeOK'
    BY <1>0, <1>3, <2>1 DEF Ac!DisableRule, Ac!DeleteRule, Ac!TypeOK, Ac!row
  <2> QED
    BY <1>3, <1>n, <2>2 DEF Ac!DisableRule, Ac!DeleteRule, Ac!work
<1>4. ASSUME NEW i \in Lambdas, NEW t \in Targets, Ac!ReadForPost(i, t) PROVE Ac!StateOK'
  <2>1. PICK w : /\ Ac!Start(i, w)
                 /\ w = IF Ac!Verified(t) THEN Ac!Idle
                        ELSE [op |-> "post", pc |-> "send", t |-> t, new |-> Ac!Pending(v7 + 1)]
    BY <1>4 DEF Ac!ReadForPost
  <2>2. CASE Ac!Verified(t)
    BY <1>4, <1>i, <1>s, <2>1, <2>2 DEF Ac!ReadForPost, Ac!row
  <2>3. CASE ~Ac!Verified(t)
    <3>1. v7' = v7 + 1
      BY <1>4, <2>3 DEF Ac!ReadForPost
    <3>2. Ac!Pending(v7 + 1) \in Ac!TargetRows(v7 + 1)
      BY <1>0 DEF Ac!Pending, Ac!TargetRows
    <3>3. w \in Ac!Posts(v7 + 1) /\ w.op = "post"
      BY <2>1, <2>3, <3>2 DEF Ac!Posts
    <3> QED
      BY <1>4, <1>s, <2>1, <3>1, <3>3 DEF Ac!ReadForPost, Ac!row, Ac!Jobs
  <2> QED
    BY <2>2, <2>3
<1>5. ASSUME NEW i \in Lambdas, NEW t \in Targets, NEW k \in 1 .. v7, Ac!ReadForVerify(i, t, k) PROVE Ac!StateOK'
  <2>1. PICK w : /\ Ac!Start(i, w)
                 /\ w = IF Ac!Redeems(t, k)
                        THEN [op |-> "verify", pc |-> "save", t |-> t, new |-> [v5[t] EXCEPT !.status = "verified"]]
                        ELSE Ac!Idle
    BY <1>5 DEF Ac!ReadForVerify
  <2>2. CASE ~Ac!Redeems(t, k)
    BY <1>5, <1>i, <1>s, <2>1, <2>2 DEF Ac!ReadForVerify, Ac!row
  <2>3. CASE Ac!Redeems(t, k)
    <3>1. v5[t] \in Ac!TargetRows(v7)
      BY <1>0, <2>3 DEF Ac!Redeems, Ac!TargetRows
    <3>2. [v5[t] EXCEPT !.status = "verified"] \in [status : {"verified"}, token : 1 .. v7]
      BY <3>1 DEF Ac!TargetRows
    <3>3. w \in Ac!Verifies(v7) /\ w.op = "verify"
      BY <2>1, <2>3, <3>2 DEF Ac!Verifies
    <3> QED
      BY <1>5, <1>s, <2>1, <3>3 DEF Ac!ReadForVerify, Ac!row, Ac!Jobs
  <2> QED
    BY <2>2, <2>3
<1>6. ASSUME NEW i \in Lambdas, NEW t \in Targets, Ac!CheckDigest(i, t) PROVE Ac!StateOK'
  <2>1. PICK w : /\ Ac!Start(i, w)
                 /\ w = IF Ac!UsedByDigest(t) THEN Ac!Idle ELSE [op |-> "delete", pc |-> "rules", t |-> t]
    BY <1>6 DEF Ac!CheckDigest
  <2>2. w = Ac!Idle \/ (w \in Ac!Deletes /\ w.op = "delete")
    BY <2>1 DEF Ac!Deletes
  <2> QED
    BY <1>6, <1>i, <1>s, <2>1, <2>2 DEF Ac!CheckDigest, Ac!row, Ac!Jobs
<1>7. ASSUME NEW i \in Lambdas, NEW t \in Targets, Ac!CheckCalendar(i, t) \/ Ac!CheckForward(i, t) PROVE Ac!StateOK'
  <2>1. PICK w : /\ Ac!Start(i, w)
                 /\ w = [op |-> "calendar", pc |-> "update", new |-> t] \/ w = [op |-> "rule", pc |-> "create", t |-> t]
    BY <1>7 DEF Ac!CheckCalendar, Ac!CheckForward
  <2>2. (w \in Ac!Calendars \/ w \in Ac!Forwards) /\ w.op \in {"calendar", "rule"}
    <3>1. CASE w = [op |-> "calendar", pc |-> "update", new |-> t]
      BY <3>1 DEF Ac!Calendars
    <3>2. CASE w = [op |-> "rule", pc |-> "create", t |-> t]
      BY <3>2 DEF Ac!Forwards
    <3> QED
      BY <2>1, <3>1, <3>2
  <2>3. UNCHANGED <<v2, v3, v4, v5, v6, v7, v8, v16>>
    BY <1>7 DEF Ac!CheckCalendar, Ac!CheckForward, Ac!row
  <2> QED
    BY <1>s, <2>1, <2>2, <2>3 DEF Ac!Jobs
<1>8. ASSUME NEW i \in Lambdas, NEW d \in Ac!Digests \union {None}, Ac!CheckTarget(i, d) PROVE Ac!StateOK'
  <2>1. PICK w : /\ Ac!Start(i, w)
                 /\ w = IF d = None \/ Ac!Verified(Ac!DigestTo(d))
                        THEN [op |-> "patch", pc |-> "read", new |-> d, was |-> None] ELSE Ac!Idle
    BY <1>8 DEF Ac!CheckTarget
  <2>2. w = Ac!Idle \/ (w \in Ac!Patches /\ w.op = "patch")
    BY <2>1 DEF Ac!Patches
  <2> QED
    BY <1>8, <1>i, <1>s, <2>1, <2>2 DEF Ac!CheckTarget, Ac!row, Ac!Jobs
<1>9. ASSUME NEW i \in Lambdas, Ac!ReadOnboarding(i) PROVE Ac!StateOK'
  <2>1. PICK w : Ac!Start(i, w) /\ w = [op |-> "onboard", pc |-> "update", new |-> v4 \union {"completed"}]
    BY <1>9 DEF Ac!ReadOnboarding, Ac!Merged
  <2>2. v4 \subseteq v16 /\ v16 \subseteq {"completed", "tested"}
    BY <1>0 DEF Ac!TypeOK
  <2>3. w \in Ac!Onboards /\ w.op = "onboard" /\ w.new \subseteq v16 \union {"completed"}
    BY <2>1, <2>2 DEF Ac!Onboards
  <2> QED
    BY <1>9, <1>s, <2>1, <2>3 DEF Ac!ReadOnboarding, Ac!row, Ac!Jobs
<1>10. ASSUME NEW i \in Lambdas, Ac!StartSetup(i) PROVE Ac!StateOK'
  <2>1. PICK w : /\ Ac!Start(i, w)
                 /\ w = [op |-> "setup", task |-> "setup", was |-> None,
                         pc |-> IF Ac!Verified(Login) THEN "read" ELSE "save"]
    BY <1>10 DEF Ac!StartSetup
  <2>2. w \in Ac!Setups /\ w.op = "setup"
    BY <2>1 DEF Ac!Setups
  <2> QED
    BY <1>10, <1>s, <2>1, <2>2 DEF Ac!StartSetup, Ac!row, Ac!Jobs
<1>11. ASSUME NEW i \in Lambdas, NEW task \in {"followup", "cleanup"}, Ac!StartProgress(i, task) PROVE Ac!StateOK'
  <2>1. PICK w : Ac!Start(i, w) /\ w = [op |-> "progress", task |-> task, pc |-> "update", was |-> v4]
    BY <1>11 DEF Ac!StartProgress
  <2>2. v4 \subseteq v16 /\ v16 \subseteq {"completed", "tested"}
    BY <1>0 DEF Ac!TypeOK
  <2>3. w \in Ac!Progresses /\ w.op = "progress" /\ w.was \subseteq v16
    BY <2>1, <2>2 DEF Ac!Progresses
  <2> QED
    BY <1>11, <1>s, <2>1, <2>3 DEF Ac!StartProgress, Ac!row, Ac!Jobs
<1>12. ASSUME NEW i \in Lambdas, Ac!AskHook(i) \/ Ac!MailToken(i) PROVE Ac!StateOK'
  <2>1. v12[i] \in Ac!Posts(v7) /\ v12[i].op = "post"
    BY <1>12, AcJobIs DEF Ac!AskHook, Ac!MailToken, Ac!At
  <2>2. PICK w : /\ v12' = [v12 EXCEPT ![i] = w]
                 /\ \/ w = [v12[i] EXCEPT !.pc = "save", !.new.status = "verified"]
                    \/ w = [v12[i] EXCEPT !.pc = "save"]
    BY <1>12 DEF Ac!AskHook, Ac!MailToken, Ac!Goto
  <2>3. w \in Ac!Posts(v7) /\ w.op = "post"
    <3>1. CASE w = [v12[i] EXCEPT !.pc = "save", !.new.status = "verified"]
      <4>1. PICK n : n = [v12[i].new EXCEPT !.status = "verified"]
        OBVIOUS
      <4>2. n \in Ac!TargetRows(v7)
        BY <2>1, <4>1 DEF Ac!Posts, Ac!TargetRows
      <4>3. w = [v12[i] EXCEPT !.pc = "save", !.new = n]
        BY <2>1, <3>1, <4>1 DEF Ac!Posts
      <4> QED
        BY <2>1, <4>2, <4>3 DEF Ac!Posts
    <3>2. CASE w = [v12[i] EXCEPT !.pc = "save"]
      BY <2>1, <3>2 DEF Ac!Posts
    <3> QED
      BY <2>2, <3>1, <3>2
  <2>4. Ac!TypeOK'
    <3>1. v8' = v8 \/ v8' = v8 \union {<<v12[i].t, v12[i].new.token>>}
      BY <1>12 DEF Ac!AskHook, Ac!MailToken
    <3>2. v12[i].t \in Targets /\ v12[i].new.token \in 1 .. v7
      BY <2>1 DEF Ac!Posts, Ac!TargetRows
    <3>3. v8' \subseteq Targets \X (1 .. v7)
      BY <1>0, <3>1, <3>2
    <3> QED
      BY <1>0, <1>12, <3>3 DEF Ac!AskHook, Ac!MailToken, Ac!row, Ac!TypeOK
  <2>5. v7' = v7 /\ v16' = v16
    BY <1>12 DEF Ac!AskHook, Ac!MailToken
  <2> QED
    BY <1>g, <2>2, <2>3, <2>4, <2>5 DEF Ac!Jobs
<1>13. ASSUME NEW i \in Lambdas, NEW again \in BOOLEAN, Ac!Fail(i, again) PROVE Ac!StateOK'
  BY <1>13, <1>e, <1>t DEF Ac!Fail, Ac!row
<1>14. ASSUME NEW i \in Lambdas, Ac!SavePending(i) \/ Ac!SaveVerified(i) PROVE Ac!StateOK'
  <2>1. v12[i].t \in Targets /\ v12[i].new \in [status : {"pending", "verified"}, token : 1 .. v7]
    BY <1>14, AcJobIs DEF Ac!SavePending, Ac!SaveVerified, Ac!At, Ac!Posts, Ac!Verifies, Ac!TargetRows
  <2>2. v5' = [v5 EXCEPT ![v12[i].t] = v12[i].new]
    BY <1>14 DEF Ac!SavePending, Ac!SaveVerified, Ac!SaveTarget
  <2>3. Ac!TypeOK'
    BY <1>0, <1>14, <2>1, <2>2 DEF Ac!SavePending, Ac!SaveVerified, Ac!row, Ac!TypeOK
  <2> QED
    BY <1>14, <1>e, <2>3 DEF Ac!SavePending, Ac!SaveVerified
<1>15. ASSUME NEW i \in Lambdas, Ac!CheckRules(i) PROVE Ac!StateOK'
  <2>1. PICK w : /\ v12' = [v12 EXCEPT ![i] = w]
                 /\ w = Ac!Idle \/ w = [v12[i] EXCEPT !.pc = "delete"]
    BY <1>15 DEF Ac!CheckRules, Ac!Goto
  <2>2. w = Ac!Idle \/ (w \in Ac!Deletes /\ w.op = "delete")
    BY <1>15, <2>1, AcJobIs DEF Ac!CheckRules, Ac!At, Ac!Deletes
  <2> QED
    BY <1>15, <1>g, <1>i, <1>t, <2>1, <2>2 DEF Ac!CheckRules, Ac!row, Ac!Jobs
<1>16. ASSUME NEW i \in Lambdas, Ac!RemoveTarget(i) PROVE Ac!StateOK'
  <2>1. v5' = [v5 EXCEPT ![v12[i].t] = None]
    BY <1>16 DEF Ac!RemoveTarget, Ac!DeleteTarget
  <2>2. Ac!TypeOK'
    BY <1>0, <1>16, <2>1 DEF Ac!RemoveTarget, Ac!row, Ac!TypeOK
  <2> QED
    BY <1>16, <1>e, <2>2 DEF Ac!RemoveTarget
<1>17. ASSUME NEW i \in Lambdas, Ac!ReadDigest(i) PROVE Ac!StateOK'
  <2>1. PICK w : v12' = [v12 EXCEPT ![i] = w] /\ w = [v12[i] EXCEPT !.pc = "update", !.was = v2]
    BY <1>17 DEF Ac!ReadDigest, Ac!Goto
  <2>2. v12[i] \in Ac!Patches /\ v2 \in Ac!Digests \union {None}
    BY <1>0, <1>17, AcJobIs DEF Ac!ReadDigest, Ac!At, Ac!TypeOK
  <2>3. w \in Ac!Patches /\ w.op = "patch"
    BY <2>1, <2>2 DEF Ac!Patches
  <2> QED
    BY <1>17, <1>g, <1>t, <2>1, <2>3 DEF Ac!ReadDigest, Ac!row, Ac!Jobs
<1>18. ASSUME NEW i \in Lambdas, Ac!PatchDigest(i) \/ Ac!PatchCalendar(i) PROVE Ac!StateOK'
  <2>1. /\ Ac!PatchDigest(i) => v12[i].new \in Ac!Digests \union {None}
        /\ Ac!PatchCalendar(i) => v12[i].new \in Targets
    BY AcJobIs DEF Ac!PatchDigest, Ac!PatchCalendar, Ac!At, Ac!Patches, Ac!Calendars
  <2>2. Ac!TypeOK'
    BY <1>0, <1>18, <2>1 DEF Ac!PatchDigest, Ac!PatchCalendar, Ac!UpdateDigest, Ac!UpdateCalendar, Ac!TypeOK
  <2> QED
    BY <1>18, <1>e, <2>2 DEF Ac!PatchDigest, Ac!PatchCalendar
<1>19. ASSUME NEW i \in Lambdas, Ac!PatchOnboarding(i) PROVE Ac!StateOK'
  <2>1. v12[i].new \subseteq v16 \union {"completed"}
    BY <1>19, <1>d DEF Ac!PatchOnboarding, Ac!At
  <2>2. Ac!TypeOK' /\ v16 \subseteq v16'
    BY <1>0, <1>19, <2>1 DEF Ac!PatchOnboarding, Ac!UpdateFlags, Ac!TypeOK
  <2> QED
    BY <1>19, <1>e, <2>2 DEF Ac!PatchOnboarding
<1>20. ASSUME NEW i \in Lambdas, Ac!CreateRule(i) PROVE Ac!StateOK'
  <2>1. Ac!TypeOK'
    BY <1>0, <1>20 DEF Ac!CreateRule, Ac!row, Ac!TypeOK
  <2> QED
    BY <1>20, <1>e, <2>1 DEF Ac!CreateRule
<1>21. ASSUME NEW i \in Lambdas, Ac!SaveOwner(i) PROVE Ac!StateOK'
  <2>1. v7' = v7 + 1 /\ v5' = [v5 EXCEPT ![Login] = [status |-> "verified", token |-> v7 + 1]]
    BY <1>21 DEF Ac!SaveOwner, Ac!SaveTarget
  <2>2. PICK w : v12' = [v12 EXCEPT ![i] = w] /\ w = [v12[i] EXCEPT !.pc = "read"]
    BY <1>21 DEF Ac!SaveOwner, Ac!Goto
  <2>3. v12[i] \in Ac!Setups
    BY <1>21, AcJobIs DEF Ac!SaveOwner, Ac!At, Ac!FillsIn
  <2>4. w \in Ac!Setups /\ w.op = "setup"
    BY <2>2, <2>3 DEF Ac!Setups
  <2>5. Ac!TypeOK'
    <3>1. 1 .. v7 \subseteq 1 .. v7' /\ v7 + 1 \in 1 .. v7'
      BY <1>0, <2>1
    <3>2. \A t \in Targets : v5'[t] \in [status : {"pending", "verified"}, token : 1 .. v7'] \union {None}
      BY <1>0, <2>1, <3>1
    <3>3. v5' \in [Targets -> [status : {"pending", "verified"}, token : 1 .. v7'] \union {None}]
      <4> DEFINE S == [status : {"pending", "verified"}, token : 1 .. v7'] \union {None}
      <4>1. \A t \in Targets : v5'[t] \in S
        BY <3>2
      <4>2. v5' = [t \in Targets |-> v5'[t]]
        BY <1>0, <2>1
      <4> HIDE DEF S
      <4>3. v5' \in [Targets -> S]
        BY <4>1, <4>2
      <4> QED
        BY <4>3 DEF S
    <3> QED
      BY <1>0, <1>21, <3>1, <3>3 DEF Ac!SaveOwner, Ac!row, Ac!TypeOK
  <2> QED
    BY <1>21, <1>g, <2>1, <2>2, <2>4, <2>5 DEF Ac!SaveOwner, Ac!Jobs
<1>22. ASSUME NEW i \in Lambdas, Ac!ReadDefaults(i) PROVE Ac!StateOK'
  <2>1. PICK w : v12' = [v12 EXCEPT ![i] = w]
                 /\ w = [v12[i] EXCEPT !.pc = "update", !.was = [digest |-> v2, calendar |-> v3]]
    BY <1>22 DEF Ac!ReadDefaults, Ac!Goto
  <2>2. v12[i] \in Ac!Setups
    BY <1>22, AcJobIs DEF Ac!ReadDefaults, Ac!At, Ac!FillsIn
  <2>3. [digest |-> v2, calendar |-> v3] \in [digest : Ac!Digests \union {None}, calendar : Targets \union {None}]
    BY <1>0 DEF Ac!TypeOK
  <2>4. w \in Ac!FillsIn /\ w.op = "setup"
    BY <2>1, <2>2, <2>3 DEF Ac!Setups, Ac!FillsIn
  <2> QED
    BY <1>22, <1>g, <1>t, <2>1, <2>4 DEF Ac!ReadDefaults, Ac!row, Ac!Jobs
<1>23. ASSUME NEW i \in Lambdas, Ac!SetDefaults(i) PROVE Ac!StateOK'
  <2>1. [to |-> Login, often |-> "monthly"] \in Ac!Digests
    BY LoginAssumption DEF Ac!Digests, Ac!Frequencies
  <2>2. v2' \in Ac!Digests \union {None} /\ v3' \in Targets \union {None}
    BY <1>0, <1>23, <2>1, LoginAssumption
       DEF Ac!SetDefaults, Ac!UpdateDigest, Ac!UpdateCalendar, Ac!FillIn, Ac!TypeOK
  <2>3. Ac!TypeOK'
    BY <1>0, <1>23, <2>2 DEF Ac!SetDefaults, Ac!TypeOK
  <2> QED
    BY <1>23, <1>e, <2>3 DEF Ac!SetDefaults
<1>24. ASSUME NEW i \in Lambdas, NEW received \in BOOLEAN, Ac!RecordProgress(i, received) PROVE Ac!StateOK'
  <2>1. v12[i] \in Ac!Progresses /\ v12[i].was \subseteq v16
    BY <1>24, <1>d, AcJobIs DEF Ac!RecordProgress, Ac!At
  <2>2. PICK w : v12' = [v12 EXCEPT ![i] = w] /\ w = [v12[i] EXCEPT !.pc = "mail"]
    BY <1>24 DEF Ac!RecordProgress, Ac!Goto
  <2>3. w \in Ac!Progresses /\ w.op = "progress" /\ w.was = v12[i].was
    BY <2>1, <2>2 DEF Ac!Progresses
  <2>4. \/ v4' = v12[i].was \union {"tested"} /\ v16' = v16 \union {"tested"}
        \/ v4' = v4 /\ v16' = v16
    BY <1>24 DEF Ac!RecordProgress, Ac!UpdateFlags, Ac!Merged
  <2>5. Ac!TypeOK' /\ v16 \subseteq v16'
    BY <1>0, <1>24, <2>1, <2>4 DEF Ac!RecordProgress, Ac!TypeOK
  <2> QED
    BY <1>24, <1>g, <2>1, <2>2, <2>3, <2>5 DEF Ac!RecordProgress, Ac!Jobs
<1>25. ASSUME NEW i \in Lambdas, NEW complete \in BOOLEAN, NEW lost \in BOOLEAN, Ac!MailProgress(i, complete, lost)
       PROVE  Ac!StateOK'
  BY <1>25, <1>e, <1>t DEF Ac!MailProgress, Ac!row
<1> QED
  BY <1>1, <1>2, <1>3, <1>4, <1>5, <1>6, <1>7, <1>8, <1>9, <1>10, <1>11, <1>12, <1>13, <1>14, <1>15, <1>16,
     <1>17, <1>18, <1>19, <1>20, <1>21, <1>22, <1>23, <1>24, <1>25 DEF Ac!Next

\* An invocation stays with its request, or has done with it.
LEMMA AcGoesOn ==
  ASSUME Ac!StateOK, NEW i \in Lambdas,
         \/ Ac!AskHook(i) \/ Ac!MailToken(i) \/ Ac!CheckRules(i) \/ Ac!ReadDigest(i)
         \/ Ac!SaveOwner(i) \/ Ac!ReadDefaults(i) \/ \E received \in BOOLEAN : Ac!RecordProgress(i, received)
  PROVE  \E w : v12' = [v12 EXCEPT ![i] = w] /\ (w.op = "idle" \/ w.op = v12[i].op)
<1> DEFINE Goal == \E w : v12' = [v12 EXCEPT ![i] = w] /\ (w.op = "idle" \/ w.op = v12[i].op)
<1>g. ASSUME NEW w, Ac!Goto(i, w), w.op = "idle" \/ w.op = v12[i].op PROVE Goal
  BY <1>g DEF Ac!Goto
<1> HIDE DEF Goal
<1>1. ASSUME Ac!AskHook(i) \/ Ac!MailToken(i) PROVE Goal
  <2>1. v12[i] \in Ac!Posts(v7)
    BY <1>1, AcJobIs DEF Ac!AskHook, Ac!MailToken, Ac!At
  <2>2. PICK w : /\ Ac!Goto(i, w)
                 /\ \/ w = [v12[i] EXCEPT !.pc = "save", !.new.status = "verified"]
                    \/ w = [v12[i] EXCEPT !.pc = "save"]
    BY <1>1 DEF Ac!AskHook, Ac!MailToken
  <2>3. w.op = v12[i].op
    BY <2>1, <2>2 DEF Ac!Posts
  <2> QED
    BY <1>1, <1>g, <2>2, <2>3 DEF Ac!AskHook, Ac!MailToken
<1>2. ASSUME Ac!CheckRules(i) PROVE Goal
  <2>1. CASE v6[v12[i].t] # None
    <3>1. Ac!Goto(i, Ac!Idle) /\ Ac!Idle.op = "idle"
      BY <1>2, <2>1 DEF Ac!CheckRules, Ac!Idle
    <3> QED
      BY <1>g, <3>1
  <2>2. CASE v6[v12[i].t] = None
    <3>1. PICK w : Ac!Goto(i, w) /\ w = [v12[i] EXCEPT !.pc = "delete"]
      BY <1>2, <2>2 DEF Ac!CheckRules
    <3>2. w.op = v12[i].op
      BY <1>2, <3>1, AcJobIs DEF Ac!CheckRules, Ac!At, Ac!Deletes
    <3> QED
      BY <1>g, <3>1, <3>2
  <2> QED
    BY <2>1, <2>2
<1>3. ASSUME Ac!ReadDigest(i) PROVE Goal
  <2>1. PICK w : Ac!Goto(i, w) /\ w = [v12[i] EXCEPT !.pc = "update", !.was = v2]
    BY <1>3 DEF Ac!ReadDigest
  <2>2. w.op = v12[i].op
    BY <1>3, <2>1, AcJobIs DEF Ac!ReadDigest, Ac!At, Ac!Patches
  <2> QED
    BY <1>g, <2>1, <2>2
<1>4. ASSUME Ac!SaveOwner(i) \/ Ac!ReadDefaults(i) PROVE Goal
  <2>1. v12[i] \in Ac!Setups \/ v12[i] \in Ac!FillsIn
    BY <1>4, AcJobIs DEF Ac!SaveOwner, Ac!ReadDefaults, Ac!At
  <2>2. PICK w : /\ Ac!Goto(i, w)
                 /\ \/ w = [v12[i] EXCEPT !.pc = "read"]
                    \/ w = [v12[i] EXCEPT !.pc = "update", !.was = [digest |-> v2, calendar |-> v3]]
    BY <1>4 DEF Ac!SaveOwner, Ac!ReadDefaults
  <2>3. w.op = v12[i].op
    BY <2>1, <2>2 DEF Ac!Setups, Ac!FillsIn
  <2> QED
    BY <1>4, <1>g, <2>2, <2>3 DEF Ac!SaveOwner, Ac!ReadDefaults
<1>5. ASSUME NEW received \in BOOLEAN, Ac!RecordProgress(i, received) PROVE Goal
  <2>1. PICK w : Ac!Goto(i, w) /\ w = [v12[i] EXCEPT !.pc = "mail"]
    BY <1>5 DEF Ac!RecordProgress
  <2>2. w.op = v12[i].op
    BY <1>5, <2>1, AcJobIs DEF Ac!RecordProgress, Ac!At, Ac!Progresses
  <2> QED
    BY <1>g, <2>1, <2>2
<1>6. Goal
  BY <1>1, <1>2, <1>3, <1>4, <1>5
<1> QED
  BY <1>6 DEF Goal

\* A step begins one request, or takes one invocation on or to its end, or concerns none.
LEMMA AcMoves ==
  ASSUME Ac!StateOK, Ac!Next
  PROVE  \/ v12' = v12 /\ v18' = v18
         \/ \E i \in Lambdas : \E w : /\ v12' = [v12 EXCEPT ![i] = w] /\ v18' = v18
                                      /\ w.op = "idle" \/ w.op = v12[i].op
         \/ \E i \in Lambdas : \E w : Ac!Start(i, w)
<1> DEFINE Goal == \/ v12' = v12 /\ v18' = v18
                   \/ \E i \in Lambdas : \E w : /\ v12' = [v12 EXCEPT ![i] = w] /\ v18' = v18
                                                /\ w.op = "idle" \/ w.op = v12[i].op
                   \/ \E i \in Lambdas : \E w : Ac!Start(i, w)
<1>e. ASSUME NEW i \in Lambdas, Ac!End(i), v18' = v18 PROVE Goal
  <2>1. PICK w : w = Ac!Idle /\ v12' = [v12 EXCEPT ![i] = w]
    BY <1>e DEF Ac!End, Ac!Goto
  <2>2. w.op = "idle"
    BY <2>1 DEF Ac!Idle
  <2> QED
    BY <1>e, <2>1, <2>2
<1>s. ASSUME NEW i \in Lambdas, NEW w, Ac!Start(i, w) PROVE Goal
  BY <1>s
<1>n. ASSUME v12' = v12, v18' = v18 PROVE Goal
  BY <1>n
<1> HIDE DEF Goal
<1>1. ASSUME Ac!StartWorkflow \/ Ac!CreateAccount \/ Ac!Unsubscribe PROVE Goal
  BY <1>1, <1>n DEF Ac!StartWorkflow, Ac!CreateAccount, Ac!Unsubscribe, Ac!work
<1>2. ASSUME NEW t \in Targets, Ac!DisableRule(t) \/ Ac!DeleteRule(t) PROVE Goal
  BY <1>2, <1>n DEF Ac!DisableRule, Ac!DeleteRule, Ac!work
<1>3. ASSUME NEW i \in Lambdas, NEW t \in Targets,
             \/ Ac!ReadForPost(i, t) \/ Ac!CheckDigest(i, t) \/ Ac!CheckCalendar(i, t) \/ Ac!CheckForward(i, t)
             \/ \E k \in 1 .. v7 : Ac!ReadForVerify(i, t, k)
      PROVE  Goal
  BY <1>3, <1>s DEF Ac!ReadForPost, Ac!CheckDigest, Ac!CheckCalendar, Ac!CheckForward, Ac!ReadForVerify
<1>4. ASSUME NEW i \in Lambdas,
             \/ \E d \in Ac!Digests \union {None} : Ac!CheckTarget(i, d)
             \/ Ac!ReadOnboarding(i) \/ Ac!StartSetup(i)
             \/ \E task \in {"followup", "cleanup"} : Ac!StartProgress(i, task)
      PROVE  Goal
  BY <1>4, <1>s DEF Ac!CheckTarget, Ac!ReadOnboarding, Ac!StartSetup, Ac!StartProgress
<1>5. ASSUME NEW i \in Lambdas,
             \/ Ac!SavePending(i) \/ Ac!SaveVerified(i) \/ Ac!RemoveTarget(i) \/ Ac!PatchDigest(i)
             \/ Ac!PatchCalendar(i) \/ Ac!PatchOnboarding(i) \/ Ac!CreateRule(i) \/ Ac!SetDefaults(i)
             \/ \E again \in BOOLEAN : Ac!Fail(i, again)
             \/ \E complete, lost \in BOOLEAN : Ac!MailProgress(i, complete, lost)
      PROVE  Goal
  BY <1>5, <1>e
     DEF Ac!SavePending, Ac!SaveVerified, Ac!RemoveTarget, Ac!PatchDigest, Ac!PatchCalendar,
         Ac!PatchOnboarding, Ac!CreateRule, Ac!SetDefaults, Ac!Fail, Ac!MailProgress
<1>6. ASSUME NEW i \in Lambdas,
             \/ Ac!AskHook(i) \/ Ac!MailToken(i) \/ Ac!CheckRules(i) \/ Ac!ReadDigest(i)
             \/ Ac!SaveOwner(i) \/ Ac!ReadDefaults(i) \/ \E received \in BOOLEAN : Ac!RecordProgress(i, received)
      PROVE  Goal
  <2>1. v18' = v18
    BY <1>6 DEF Ac!AskHook, Ac!MailToken, Ac!CheckRules, Ac!ReadDigest, Ac!SaveOwner, Ac!ReadDefaults,
                Ac!RecordProgress
  <2> QED
    BY <1>6, <2>1, AcGoesOn DEF Goal
<1>7. Goal
  BY <1>1, <1>2, <1>3, <1>4, <1>5, <1>6 DEF Ac!Next
<1> QED
  BY <1>7 DEF Goal

\* Whoever begins next to a request it meets puts both on record.
LEMMA AcMeets == Ac!StateOK /\ Ac!Met /\ Ac!Next => Ac!Met' /\ v18 \subseteq v18'
<1> SUFFICES ASSUME Ac!StateOK, Ac!Met, Ac!Next PROVE Ac!Met' /\ v18 \subseteq v18'
  OBVIOUS
<1>0. v12 \in [Lambdas -> Ac!Jobs(v7)]
  BY DEF Ac!StateOK
<1>1. CASE v12' = v12 /\ v18' = v18
  BY <1>1 DEF Ac!Met
<1>2. ASSUME NEW i \in Lambdas, NEW w, v12' = [v12 EXCEPT ![i] = w], v18' = v18,
             w.op = "idle" \/ w.op = v12[i].op
      PROVE  Ac!Met'
  <2>1. v12'[i] = w /\ \A j \in Lambdas : j # i => v12'[j] = v12[j]
    BY <1>0, <1>2
  <2>2. \A x : "idle" \notin Ac!Clash(x)
    BY DEF Ac!Clash
  <2>3. \A j \in Lambdas : v12'[j].op = "idle" \/ v12'[j].op = v12[j].op
    BY <1>2, <2>1
  <2>4. Ac!Clash("idle") = {}
    BY DEF Ac!Clash
  <2>5. \A j, l \in Lambdas :
          j # l /\ v12'[l].op \in Ac!Clash(v12'[j].op) /\ v12'[j].op \in Ac!Clash(v12'[l].op) => v12'[j].op \in v18
    BY <2>2, <2>3, <2>4 DEF Ac!Met
  <2> QED
    BY <1>2, <2>5 DEF Ac!Met
<1>3. ASSUME NEW i \in Lambdas, NEW w, Ac!Start(i, w) PROVE Ac!Met' /\ v18 \subseteq v18'
  <2>1. v12' = [v12 EXCEPT ![i] = w] /\ v18 \subseteq v18'
    BY <1>3 DEF Ac!Start, Ac!Goto
  <2>2. v12'[i] = w /\ \A j \in Lambdas : j # i => v12'[j] = v12[j]
    BY <1>0, <2>1
  <2>3. v12[i].op = "idle"
    BY <1>3 DEF Ac!Start, Ac!Idle
  <2>4. ASSUME NEW j \in Lambdas, j # i, v12[j].op \in Ac!Clash(w.op)
        PROVE  w.op \in v18' /\ v12[j].op \in v18'
    <3>1. j \in Ac!Running(Ac!Clash(w.op))
      BY <2>4 DEF Ac!Running
    <3>2. v18' = v18 \union {w.op} \union {v12[l].op : l \in Ac!Running(Ac!Clash(w.op))}
      BY <1>3, <3>1 DEF Ac!Start
    <3> QED
      BY <3>1, <3>2
  <2>5. \A j, l \in Lambdas :
          j # l /\ v12'[l].op \in Ac!Clash(v12'[j].op) /\ v12'[j].op \in Ac!Clash(v12'[l].op) => v12'[j].op \in v18'
    <3> SUFFICES ASSUME NEW j \in Lambdas, NEW l \in Lambdas, j # l,
                        v12'[l].op \in Ac!Clash(v12'[j].op), v12'[j].op \in Ac!Clash(v12'[l].op)
                 PROVE  v12'[j].op \in v18'
      OBVIOUS
    <3>1. CASE j = i
      BY <2>2, <2>4, <3>1
    <3>2. CASE l = i
      BY <2>2, <2>4, <3>2
    <3>3. CASE j # i /\ l # i
      <4>1. v12'[j] = v12[j] /\ v12'[l] = v12[l]
        BY <2>2, <3>3
      <4>2. v12[j].op \in v18
        BY <4>1 DEF Ac!Met
      <4> QED
        BY <2>1, <4>1, <4>2
    <3> QED
      BY <3>1, <3>2, <3>3
  <2> QED
    BY <2>1, <2>5 DEF Ac!Met
<1> QED
  BY <1>1, <1>2, <1>3, AcMoves

\* A token that is held has been drawn.
LEMMA AcHeldIsDrawn ==
  ASSUME Ac!StateOK, NEW t \in Targets, NEW k, Ac!Holds(t, k)
  PROVE  k \in 1 .. v7
<1>1. /\ v5 \in [Targets -> Ac!TargetRows(v7) \union {None}] /\ v8 \subseteq Targets \X (1 .. v7)
  BY DEF Ac!StateOK, Ac!TypeOK, Ac!TargetRows
<1>2. CASE v5[t] # None /\ v5[t].token = k
  BY <1>1, <1>2 DEF Ac!TargetRows
<1>3. CASE <<t, k>> \in v8
  BY <1>1, <1>3
<1>4. CASE \E i \in Lambdas : v12[i].op \in {"post", "verify"} /\ v12[i].t = t /\ v12[i].new.token = k
  <2>1. PICK i \in Lambdas : v12[i].op \in {"post", "verify"} /\ v12[i].t = t /\ v12[i].new.token = k
    BY <1>4
  <2>2. v12[i] \in Ac!Posts(v7) \/ v12[i] \in Ac!Verifies(v7)
    BY <2>1, AcJobIs
  <2> QED
    BY <2>1, <2>2 DEF Ac!Posts, Ac!Verifies, Ac!TargetRows
<1> QED
  BY <1>2, <1>3, <1>4 DEF Ac!Holds

\* Tokens stay with their targets.
LEMMA AcConsents == Ac!StateOK /\ Ac!Consented /\ Ac!Next => Ac!Consented'
<1> SUFFICES ASSUME Ac!StateOK, Ac!Consented, Ac!Next PROVE Ac!Consented'
  OBVIOUS
<1>0. /\ v7 \in Nat /\ v12 \in [Lambdas -> Ac!Jobs(v7)]
      /\ v5 \in [Targets -> Ac!TargetRows(v7) \union {None}] /\ v8 \subseteq Targets \X (1 .. v7)
  BY DEF Ac!StateOK, Ac!TypeOK, Ac!TargetRows
<1>i. Ac!Idle.op = "idle"
  BY DEF Ac!Idle
<1>w. /\ \A t \in Targets : Ac!Verified(t) => t \in Hooks \union {Login} \/ t \in v17
      /\ \A t, u \in Targets, k \in 1 .. v7 : Ac!Holds(t, k) /\ Ac!Holds(u, k) => t = u
      /\ \A j \in Lambdas : /\ v12[j].op = "post" /\ v12[j].new.status = "verified" => v12[j].t \in Hooks
                            /\ v12[j].op = "verify" => v12[j].t \in v17
  BY DEF Ac!Consented, Ac!Consent
\* Who holds a token after a step.
<1>h. ASSUME NEW i \in Lambdas, NEW w, v12' = [v12 EXCEPT ![i] = w], NEW t, NEW k, Ac!Holds(t, k)'
      PROVE  \/ v5'[t] # None /\ v5'[t].token = k
             \/ <<t, k>> \in v8'
             \/ w.op \in {"post", "verify"} /\ w.t = t /\ w.new.token = k
             \/ Ac!Holds(t, k)
  <2>1. v12'[i] = w /\ \A j \in Lambdas : j # i => v12'[j] = v12[j]
    BY <1>0, <1>h
  <2> QED
    BY <1>h, <2>1 DEF Ac!Holds
\* One invocation goes on, and at most one target gets a new token.
<1>k. ASSUME NEW i \in Lambdas, NEW w, v12' = [v12 EXCEPT ![i] = w],
             v7' = v7 \/ v7' = v7 + 1, v17 \subseteq v17',
             \/ \A t \in Targets : \A k : Ac!Holds(t, k)' => Ac!Holds(t, k)
             \/ /\ \A t \in Targets : \A k : Ac!Holds(t, k)' => Ac!Holds(t, k) \/ k = v7 + 1
                /\ \A t, u \in Targets : \A k : k = v7 + 1 /\ Ac!Holds(t, k)' /\ Ac!Holds(u, k)' => t = u,
             w.op = "post" /\ w.new.status = "verified" => w.t \in Hooks,
             w.op = "verify" => w.t \in v17',
             \A t \in Targets : Ac!Verified(t)' => Ac!Verified(t) \/ t \in Hooks \union {Login} \/ t \in v17'
      PROVE  Ac!Consented'
  <2>1. v12'[i] = w /\ \A j \in Lambdas : j # i => v12'[j] = v12[j]
    BY <1>0, <1>k
  <2>2. Ac!Consent'
    BY <1>k, <1>w DEF Ac!Consent
  <2>3. ASSUME NEW t \in Targets, NEW u \in Targets, NEW k, Ac!Holds(t, k)', Ac!Holds(u, k)'
        PROVE  t = u
    <3>1. CASE Ac!Holds(t, k) /\ Ac!Holds(u, k)
      BY <1>w, <3>1, AcHeldIsDrawn
    <3>2. CASE k = v7 + 1
      <4>1. ~Ac!Holds(t, k)
        BY <1>0, <3>2, AcHeldIsDrawn
      <4>2. \A x, y \in Targets : Ac!Holds(x, k)' /\ Ac!Holds(y, k)' => x = y
        BY <1>k, <2>3, <3>2, <4>1
      <4> QED
        BY <2>3, <3>2, <4>2
    <3> QED
      BY <1>k, <2>3, <3>1, <3>2
  <2>4. \A j \in Lambdas : /\ v12'[j].op = "post" /\ v12'[j].new.status = "verified" => v12'[j].t \in Hooks
                           /\ v12'[j].op = "verify" => v12'[j].t \in v17'
    BY <1>k, <1>w, <2>1
  <2> QED
    BY <2>2, <2>3, <2>4 DEF Ac!Consented
\* Rows and mails are left alone.
<1>q. ASSUME NEW i \in Lambdas, NEW w, v12' = [v12 EXCEPT ![i] = w], UNCHANGED <<v5, v8, v17>>, v7' = v7,
             w.op \notin {"post", "verify"}
      PROVE  Ac!Consented'
  <2>1. \A t \in Targets : \A k : Ac!Holds(t, k)' => Ac!Holds(t, k)
    BY <1>h, <1>q DEF Ac!Holds
  <2>2. \A t \in Targets : Ac!Verified(t)' => Ac!Verified(t)
    BY <1>q DEF Ac!Verified
  <2> QED
    BY <1>k, <1>q, <2>1, <2>2
<1>s. ASSUME NEW i \in Lambdas, NEW w, Ac!Start(i, w), UNCHANGED <<v5, v8, v17>>, v7' = v7,
             w.op \notin {"post", "verify"}
      PROVE  Ac!Consented'
  BY <1>q, <1>s DEF Ac!Start, Ac!Goto
<1>e. ASSUME NEW i \in Lambdas, Ac!End(i), UNCHANGED <<v5, v8, v17>>, v7' = v7
      PROVE  Ac!Consented'
  BY <1>e, <1>i, <1>q DEF Ac!End, Ac!Goto
<1>n. UNCHANGED <<v5, v7, v8, v12, v17>> => Ac!Consented'
  BY DEF Ac!Consented, Ac!Consent, Ac!Verified, Ac!Holds
<1>1. ASSUME Ac!StartWorkflow \/ Ac!CreateAccount \/ Ac!Unsubscribe PROVE Ac!Consented'
  BY <1>1, <1>n DEF Ac!StartWorkflow, Ac!CreateAccount, Ac!Unsubscribe, Ac!work, Ac!row
<1>2. ASSUME NEW t \in Targets, Ac!DisableRule(t) \/ Ac!DeleteRule(t) PROVE Ac!Consented'
  BY <1>2, <1>n DEF Ac!DisableRule, Ac!DeleteRule, Ac!work
<1>3. ASSUME NEW i \in Lambdas, NEW t \in Targets, Ac!ReadForPost(i, t) PROVE Ac!Consented'
  <2>1. PICK w : /\ Ac!Start(i, w)
                 /\ w = IF Ac!Verified(t) THEN Ac!Idle
                        ELSE [op |-> "post", pc |-> "send", t |-> t, new |-> Ac!Pending(v7 + 1)]
    BY <1>3 DEF Ac!ReadForPost
  <2>2. CASE Ac!Verified(t)
    BY <1>3, <1>i, <1>s, <2>1, <2>2 DEF Ac!ReadForPost, Ac!row
  <2>3. CASE ~Ac!Verified(t)
    <3>1. w.op = "post" /\ w.t = t /\ w.new.token = v7 + 1 /\ w.new.status = "pending"
      BY <2>1, <2>3 DEF Ac!Pending
    <3>2. v12' = [v12 EXCEPT ![i] = w] /\ v7' = v7 + 1 /\ UNCHANGED <<v5, v8, v17>>
      BY <1>3, <2>1, <2>3 DEF Ac!ReadForPost, Ac!Start, Ac!Goto
    <3>3. \A u \in Targets : \A k : Ac!Holds(u, k)' => Ac!Holds(u, k) \/ (k = v7 + 1 /\ u = t)
      BY <1>h, <3>1, <3>2 DEF Ac!Holds
    <3>4. \A u \in Targets : Ac!Verified(u)' => Ac!Verified(u)
      BY <3>2 DEF Ac!Verified
    <3>5. w.op # "verify" /\ w.new.status # "verified" /\ v17 \subseteq v17'
      BY <3>1, <3>2
    <3>6. /\ \A u \in Targets : \A k : Ac!Holds(u, k)' => Ac!Holds(u, k) \/ k = v7 + 1
          /\ \A x, u \in Targets : \A k : k = v7 + 1 /\ Ac!Holds(x, k)' /\ Ac!Holds(u, k)' => x = u
      <4>1. \A u \in Targets : ~Ac!Holds(u, v7 + 1)
        BY <1>0, AcHeldIsDrawn
      <4>2. ASSUME NEW u \in Targets, NEW k, k = v7 + 1, Ac!Holds(u, k)' PROVE u = t
        BY <3>3, <4>1, <4>2
      <4>3. \A u \in Targets : \A k : Ac!Holds(u, k)' => Ac!Holds(u, k) \/ k = v7 + 1
        BY <3>3
      <4> QED
        BY <4>2, <4>3
    <3> QED
      BY <1>k, <3>2, <3>4, <3>5, <3>6
  <2> QED
    BY <2>2, <2>3
<1>4. ASSUME NEW i \in Lambdas, NEW t \in Targets, NEW k \in 1 .. v7, Ac!ReadForVerify(i, t, k) PROVE Ac!Consented'
  <2>1. PICK w : /\ Ac!Start(i, w)
                 /\ w = IF Ac!Redeems(t, k)
                        THEN [op |-> "verify", pc |-> "save", t |-> t, new |-> [v5[t] EXCEPT !.status = "verified"]]
                        ELSE Ac!Idle
    BY <1>4 DEF Ac!ReadForVerify
  <2>2. v12' = [v12 EXCEPT ![i] = w] /\ v7' = v7 /\ UNCHANGED <<v5, v8>> /\ v17 \subseteq v17'
    BY <1>4, <2>1 DEF Ac!ReadForVerify, Ac!Start, Ac!Goto
  <2>3. \A u \in Targets : Ac!Verified(u)' => Ac!Verified(u)
    BY <2>2 DEF Ac!Verified
  <2>4. CASE ~Ac!Redeems(t, k)
    <3>1. w.op = "idle"
      BY <1>i, <2>1, <2>4
    <3>2. \A u \in Targets : \A n : Ac!Holds(u, n)' => Ac!Holds(u, n)
      BY <1>h, <2>2, <3>1 DEF Ac!Holds
    <3> QED
      BY <1>k, <2>2, <2>3, <3>1, <3>2
  <2>5. CASE Ac!Redeems(t, k)
    <3>1. v5[t] \in Ac!TargetRows(v7) /\ v5[t] # None /\ v5[t].token = k
      BY <1>0, <2>5 DEF Ac!Redeems
    <3>2. PICK n : n = [v5[t] EXCEPT !.status = "verified"] /\ w = [op |-> "verify", pc |-> "save", t |-> t, new |-> n]
      BY <2>1, <2>5
    <3>3. n.token = k
      BY <3>1, <3>2 DEF Ac!TargetRows
    <3>4. w.op = "verify" /\ w.t = t /\ w.new.token = k
      BY <3>2, <3>3
    <3>5. Ac!Holds(t, k)
      BY <3>1 DEF Ac!Holds
    <3>6. \A u \in Targets : \A m : Ac!Holds(u, m)' => Ac!Holds(u, m)
      BY <1>h, <2>2, <3>4, <3>5 DEF Ac!Holds
    <3>7. t \in v17'
      <4>1. PICK m \in v8 : k = m[2]
        BY <1>4 DEF Ac!ReadForVerify
      <4>2. PICK u \in Targets : m = <<u, k>>
        <5>1. m \in Targets \X (1 .. v7)
          BY <1>0
        <5>2. m = <<m[1], m[2]>> /\ m[1] \in Targets
          BY <5>1
        <5> QED
          BY <4>1, <5>2
      <4>3. Ac!Holds(u, k)
        BY <4>1, <4>2 DEF Ac!Holds
      <4>4. u = t
        BY <1>w, <3>5, <4>3
      <4> QED
        BY <1>4, <4>1, <4>2, <4>4 DEF Ac!ReadForVerify
    <3> QED
      BY <1>k, <2>2, <2>3, <3>4, <3>6, <3>7
  <2> QED
    BY <2>4, <2>5
<1>5. ASSUME NEW i \in Lambdas, NEW t \in Targets,
             Ac!CheckDigest(i, t) \/ Ac!CheckCalendar(i, t) \/ Ac!CheckForward(i, t)
      PROVE  Ac!Consented'
  <2>1. PICK w : /\ Ac!Start(i, w)
                 /\ \/ w = Ac!Idle
                    \/ w = [op |-> "delete", pc |-> "rules", t |-> t]
                    \/ w = [op |-> "calendar", pc |-> "update", new |-> t]
                    \/ w = [op |-> "rule", pc |-> "create", t |-> t]
    BY <1>5 DEF Ac!CheckDigest, Ac!CheckCalendar, Ac!CheckForward
  <2>2. w.op \notin {"post", "verify"}
    <3>1. w = [op |-> "delete", pc |-> "rules", t |-> t] => w.op = "delete"
      OBVIOUS
    <3>2. w = [op |-> "calendar", pc |-> "update", new |-> t] => w.op = "calendar"
      OBVIOUS
    <3>3. w = [op |-> "rule", pc |-> "create", t |-> t] => w.op = "rule"
      OBVIOUS
    <3> QED
      BY <1>i, <2>1, <3>1, <3>2, <3>3
  <2>3. UNCHANGED <<v5, v7, v8, v17>>
    BY <1>5 DEF Ac!CheckDigest, Ac!CheckCalendar, Ac!CheckForward
  <2> QED
    BY <1>s, <2>1, <2>2, <2>3
<1>6. ASSUME NEW i \in Lambdas, NEW d \in Ac!Digests \union {None}, Ac!CheckTarget(i, d) PROVE Ac!Consented'
  <2>1. PICK w : /\ Ac!Start(i, w)
                 /\ w = Ac!Idle \/ w = [op |-> "patch", pc |-> "read", new |-> d, was |-> None]
    BY <1>6 DEF Ac!CheckTarget
  <2>2. w.op \notin {"post", "verify"}
    <3>1. w = [op |-> "patch", pc |-> "read", new |-> d, was |-> None] => w.op = "patch"
      OBVIOUS
    <3> QED
      BY <1>i, <2>1, <3>1
  <2> QED
    BY <1>6, <1>s, <2>1, <2>2 DEF Ac!CheckTarget
<1>7. ASSUME NEW i \in Lambdas,
             \/ Ac!ReadOnboarding(i) \/ Ac!StartSetup(i)
             \/ \E task \in {"followup", "cleanup"} : Ac!StartProgress(i, task)
      PROVE  Ac!Consented'
  <2>1. \E w : Ac!Start(i, w) /\ w.op \in {"onboard", "setup", "progress"}
    BY <1>7 DEF Ac!ReadOnboarding, Ac!StartSetup, Ac!StartProgress
  <2>2. UNCHANGED <<v5, v7, v8, v17>>
    BY <1>7 DEF Ac!ReadOnboarding, Ac!StartSetup, Ac!StartProgress
  <2> QED
    BY <1>s, <2>1, <2>2
<1>8. ASSUME NEW i \in Lambdas, Ac!AskHook(i) \/ Ac!MailToken(i) PROVE Ac!Consented'
  <2> DEFINE job == v12[i]
  <2>1. job \in Ac!Posts(v7) /\ job.op = "post"
    BY <1>8, AcJobIs DEF Ac!AskHook, Ac!MailToken, Ac!At
  <2>2. PICK w : /\ v12' = [v12 EXCEPT ![i] = w]
                 /\ \/ w = [job EXCEPT !.pc = "save", !.new.status = "verified"] /\ Ac!AskHook(i)
                    \/ w = [job EXCEPT !.pc = "save"] /\ Ac!MailToken(i)
    BY <1>8 DEF Ac!AskHook, Ac!MailToken, Ac!Goto
  <2>3. w.op = "post" /\ w.t = job.t /\ w.new.token = job.new.token
    <3>1. CASE w = [job EXCEPT !.pc = "save", !.new.status = "verified"]
      <4>1. PICK n : n = [job.new EXCEPT !.status = "verified"]
        OBVIOUS
      <4>2. n.token = job.new.token
        BY <2>1, <4>1 DEF Ac!Posts, Ac!TargetRows
      <4>3. w.op = "post" /\ w.t = job.t /\ w.new = n
        BY <2>1, <3>1, <4>1 DEF Ac!Posts
      <4> QED
        BY <4>2, <4>3
    <3>2. CASE w = [job EXCEPT !.pc = "save"]
      BY <2>1, <3>2 DEF Ac!Posts
    <3> QED
      BY <2>2, <3>1, <3>2
  <2>4. w.new.status = "verified" => w.t \in Hooks
    <3>1. CASE Ac!AskHook(i)
      BY <2>3, <3>1 DEF Ac!AskHook
    <3>2. CASE w = [job EXCEPT !.pc = "save"]
      <4>1. w.new = job.new
        BY <2>1, <3>2 DEF Ac!Posts
      <4> QED
        BY <1>w, <2>1, <2>3, <4>1
    <3> QED
      BY <2>2, <3>1, <3>2
  <2>5. Ac!Holds(job.t, job.new.token)
    BY <2>1 DEF Ac!Holds
  <2>6. v5' = v5 /\ v17' = v17 /\ v7' = v7 /\ v8' \subseteq v8 \union {<<job.t, job.new.token>>}
    BY <1>8 DEF Ac!AskHook, Ac!MailToken
  <2>7. \A u \in Targets : \A k : Ac!Holds(u, k)' => Ac!Holds(u, k)
    <3> SUFFICES ASSUME NEW u \in Targets, NEW k, Ac!Holds(u, k)' PROVE Ac!Holds(u, k)
      OBVIOUS
    <3>1. <<u, k>> \in v8' => <<u, k>> \in v8 \/ (u = job.t /\ k = job.new.token)
      BY <2>6
    <3>2. \/ v5[u] # None /\ v5[u].token = k
          \/ <<u, k>> \in v8'
          \/ u = job.t /\ k = job.new.token
          \/ Ac!Holds(u, k)
      BY <1>h, <2>2, <2>3, <2>6
    <3>3. v5[u] # None /\ v5[u].token = k => Ac!Holds(u, k)
      BY DEF Ac!Holds
    <3>4. <<u, k>> \in v8 => Ac!Holds(u, k)
      BY DEF Ac!Holds
    <3> QED
      BY <2>5, <3>1, <3>2, <3>3, <3>4
  <2>8. \A u \in Targets : Ac!Verified(u)' => Ac!Verified(u)
    BY <2>6 DEF Ac!Verified
  <2> QED
    BY <1>k, <2>2, <2>3, <2>4, <2>6, <2>7, <2>8
<1>9. ASSUME NEW i \in Lambdas, Ac!SavePending(i) \/ Ac!SaveVerified(i) PROVE Ac!Consented'
  <2> DEFINE job == v12[i]
  <2>1. /\ job.t \in Targets /\ job.new \in Ac!TargetRows(v7) /\ job.op \in {"post", "verify"}
        /\ v5' = [v5 EXCEPT ![job.t] = job.new] /\ v12' = [v12 EXCEPT ![i] = Ac!Idle]
        /\ UNCHANGED <<v7, v8, v17>>
    <3>1. job \in Ac!Posts(v7) \/ job \in Ac!Verifies(v7)
      BY <1>9, AcJobIs DEF Ac!SavePending, Ac!SaveVerified, Ac!At
    <3>2. job.t \in Targets /\ job.new \in Ac!TargetRows(v7)
      BY <3>1 DEF Ac!Posts, Ac!Verifies, Ac!TargetRows
    <3> QED
      BY <1>9, <3>2 DEF Ac!SavePending, Ac!SaveVerified, Ac!At, Ac!SaveTarget, Ac!End, Ac!Goto
  <2>2. v5'[job.t] = job.new /\ \A u \in Targets : u # job.t => v5'[u] = v5[u]
    BY <1>0, <2>1
  <2>3. \A u \in Targets : \A k : Ac!Holds(u, k)' => Ac!Holds(u, k)
    <3> SUFFICES ASSUME NEW u \in Targets, NEW k, Ac!Holds(u, k)' PROVE Ac!Holds(u, k)
      OBVIOUS
    <3>1. (v5'[u] # None /\ v5'[u].token = k) \/ <<u, k>> \in v8 \/ Ac!Holds(u, k)
      BY <1>h, <1>i, <2>1
    <3>2. (v5'[u] # None /\ v5'[u].token = k) => Ac!Holds(u, k)
      BY <2>1, <2>2 DEF Ac!Holds
    <3>3. <<u, k>> \in v8 => Ac!Holds(u, k)
      BY DEF Ac!Holds
    <3> QED
      BY <3>1, <3>2, <3>3
  <2>4. \A u \in Targets : Ac!Verified(u)' => Ac!Verified(u) \/ u \in Hooks \/ u \in v17
    <3>1. job.new.status = "verified" => job.t \in Hooks \/ job.t \in v17
      BY <1>w, <2>1
    <3> QED
      BY <2>2, <3>1 DEF Ac!Verified
  <2> QED
    BY <1>i, <1>k, <2>1, <2>3, <2>4
<1>10. ASSUME NEW i \in Lambdas, Ac!RemoveTarget(i) PROVE Ac!Consented'
  <2>1. /\ v5' = [v5 EXCEPT ![v12[i].t] = None] /\ v12' = [v12 EXCEPT ![i] = Ac!Idle]
        /\ UNCHANGED <<v7, v8, v17>>
    BY <1>10 DEF Ac!RemoveTarget, Ac!DeleteTarget, Ac!End, Ac!Goto
  <2>2. \A u \in Targets : v5'[u] = v5[u] \/ v5'[u] = None
    BY <1>0, <2>1
  <2>3. \A u \in Targets : \A k : Ac!Holds(u, k)' => Ac!Holds(u, k)
    BY <1>h, <1>i, <2>1, <2>2 DEF Ac!Holds
  <2>4. \A u \in Targets : Ac!Verified(u)' => Ac!Verified(u)
    BY <2>2 DEF Ac!Verified
  <2> QED
    BY <1>i, <1>k, <2>1, <2>3, <2>4
<1>11. ASSUME NEW i \in Lambdas, Ac!SaveOwner(i) PROVE Ac!Consented'
  <2>1. PICK n, w : /\ n = [status |-> "verified", token |-> v7 + 1] /\ w = [v12[i] EXCEPT !.pc = "read"]
                    /\ v5' = [v5 EXCEPT ![Login] = n] /\ v12' = [v12 EXCEPT ![i] = w]
                    /\ v7' = v7 + 1 /\ UNCHANGED <<v8, v17>>
    BY <1>11 DEF Ac!SaveOwner, Ac!SaveTarget, Ac!Goto
  <2>2. w.op = "setup"
    <3>1. v12[i] \in Ac!Setups
      BY <1>11, AcJobIs DEF Ac!SaveOwner, Ac!At, Ac!FillsIn
    <3> QED
      BY <2>1, <3>1 DEF Ac!Setups
  <2>3. n.token = v7 + 1
    BY <2>1
  <2>4. v5'[Login] = n /\ \A u \in Targets : u # Login => v5'[u] = v5[u]
    BY <1>0, <2>1, LoginAssumption
  <2>5. \A u \in Targets : \A k : Ac!Holds(u, k)' => Ac!Holds(u, k) \/ (k = v7 + 1 /\ u = Login)
    BY <1>h, <2>1, <2>2, <2>3, <2>4 DEF Ac!Holds
  <2>6. \A u \in Targets : Ac!Verified(u)' => Ac!Verified(u) \/ u = Login
    BY <2>4 DEF Ac!Verified
  <2>7. w.op # "post" /\ w.op # "verify" /\ v17 \subseteq v17' /\ v7' = v7 + 1 /\ v12' = [v12 EXCEPT ![i] = w]
    BY <2>1, <2>2
  <2>8. \A u \in Targets : Ac!Verified(u)' => Ac!Verified(u) \/ u \in Hooks \union {Login} \/ u \in v17'
    BY <2>6
  <2>9. /\ \A u \in Targets : \A k : Ac!Holds(u, k)' => Ac!Holds(u, k) \/ k = v7 + 1
        /\ \A x, u \in Targets : \A k : k = v7 + 1 /\ Ac!Holds(x, k)' /\ Ac!Holds(u, k)' => x = u
    <3>1. \A u \in Targets : ~Ac!Holds(u, v7 + 1)
      BY <1>0, AcHeldIsDrawn
    <3>2. ASSUME NEW u \in Targets, NEW k, k = v7 + 1, Ac!Holds(u, k)' PROVE u = Login
      BY <2>5, <3>1, <3>2
    <3>3. \A u \in Targets : \A k : Ac!Holds(u, k)' => Ac!Holds(u, k) \/ k = v7 + 1
      BY <2>5
    <3> QED
      BY <3>2, <3>3
  <2> QED
    BY <1>k, <2>7, <2>8, <2>9
<1>12. ASSUME NEW i \in Lambdas, Ac!CheckRules(i) \/ Ac!ReadDigest(i) \/ Ac!ReadDefaults(i) PROVE Ac!Consented'
  <2>1. UNCHANGED <<v5, v7, v8, v17>>
    BY <1>12 DEF Ac!CheckRules, Ac!ReadDigest, Ac!ReadDefaults
  <2>2. /\ v12[i].op = "delete" => v12[i] \in Ac!Deletes
        /\ v12[i].op = "patch" => v12[i] \in Ac!Patches
        /\ v12[i].op = "setup" => v12[i] \in Ac!Setups \/ v12[i] \in Ac!FillsIn
    BY AcJobIs
  <2>3. PICK w : /\ v12' = [v12 EXCEPT ![i] = w]
                 /\ \/ w = Ac!Idle
                    \/ w = [v12[i] EXCEPT !.pc = "delete"] /\ v12[i].op = "delete"
                    \/ w = [v12[i] EXCEPT !.pc = "update", !.was = v2] /\ v12[i].op = "patch"
                    \/ w = [v12[i] EXCEPT !.pc = "update", !.was = [digest |-> v2, calendar |-> v3]] /\ v12[i].op = "setup"
    BY <1>12 DEF Ac!CheckRules, Ac!ReadDigest, Ac!ReadDefaults, Ac!Goto, Ac!At
  <2>4. w.op \notin {"post", "verify"}
    <3>1. CASE w = [v12[i] EXCEPT !.pc = "delete"] /\ v12[i].op = "delete"
      <4>1. w.op = "delete"
        BY <2>2, <3>1 DEF Ac!Deletes
      <4> QED
        BY <4>1
    <3>2. CASE w = [v12[i] EXCEPT !.pc = "update", !.was = v2] /\ v12[i].op = "patch"
      <4>1. w.op = "patch"
        BY <2>2, <3>2 DEF Ac!Patches
      <4> QED
        BY <4>1
    <3>3. CASE w = [v12[i] EXCEPT !.pc = "update", !.was = [digest |-> v2, calendar |-> v3]] /\ v12[i].op = "setup"
      <4>1. w.op = "setup"
        BY <2>2, <3>3 DEF Ac!Setups, Ac!FillsIn
      <4> QED
        BY <4>1
    <3> QED
      BY <1>i, <2>3, <3>1, <3>2, <3>3
  <2> QED
    BY <1>q, <2>1, <2>3, <2>4
<1>13. ASSUME NEW i \in Lambdas,
              \/ Ac!PatchDigest(i) \/ Ac!PatchCalendar(i) \/ Ac!PatchOnboarding(i) \/ Ac!CreateRule(i)
              \/ Ac!SetDefaults(i) \/ \E again \in BOOLEAN : Ac!Fail(i, again)
              \/ \E complete, lost \in BOOLEAN : Ac!MailProgress(i, complete, lost)
       PROVE  Ac!Consented'
  BY <1>13, <1>e
     DEF Ac!PatchDigest, Ac!PatchCalendar, Ac!PatchOnboarding, Ac!CreateRule, Ac!SetDefaults, Ac!Fail,
         Ac!MailProgress
<1>14. ASSUME NEW i \in Lambdas, NEW received \in BOOLEAN, Ac!RecordProgress(i, received) PROVE Ac!Consented'
  <2>1. PICK w : v12' = [v12 EXCEPT ![i] = w] /\ w = [v12[i] EXCEPT !.pc = "mail"]
    BY <1>14 DEF Ac!RecordProgress, Ac!Goto
  <2>2. w.op = "progress"
    BY <1>14, <2>1, AcJobIs DEF Ac!RecordProgress, Ac!At, Ac!Progresses
  <2> QED
    BY <1>14, <1>q, <2>1, <2>2 DEF Ac!RecordProgress
<1> QED
  BY <1>1, <1>2, <1>3, <1>4, <1>5, <1>6, <1>7, <1>8, <1>9, <1>10, <1>11, <1>12, <1>13, <1>14 DEF Ac!Next

\* What is pointed at, or is about to be, stays verified.
LEMMA AcRefers ==
  ASSUME Ac!StateOK, Ac!Met, Ac!Met', v18 \subseteq v18', Ac!Referred, Ac!Next
  PROVE  Ac!Referred'
<1> USE DEF Ac!Undone
<1>0. /\ v12 \in [Lambdas -> Ac!Jobs(v7)]
      /\ v5 \in [Targets -> Ac!TargetRows(v7) \union {None}] /\ v6 \in [Targets -> {None, "active", "disabled"}]
      /\ v2 \in Ac!Digests \union {None}
  BY DEF Ac!StateOK, Ac!TypeOK, Ac!TargetRows
<1>u. CASE Ac!Undone'
  BY <1>u DEF Ac!Referred, Ac!ReferencesLive
<1> SUFFICES ASSUME ~Ac!Undone' PROVE Ac!Referred'
  BY <1>u
<1>w. /\ ~Ac!Undone /\ \A j \in Lambdas : Ac!Checked(v12[j])
      /\ \A t \in Targets : Ac!DigestTo(v2) = t \/ v6[t] # None => Ac!Verified(t)
  BY DEF Ac!Referred, Ac!ReferencesLive
<1>i. Ac!Idle.op = "idle" /\ Ac!Checked(Ac!Idle) /\ Ac!Checked(Ac!Idle)'
  <2>1. Ac!Idle.op = "idle"
    BY DEF Ac!Idle
  <2> QED
    BY <2>1 DEF Ac!Checked
\* Nobody runs next to a request that undoes what he has checked.
<1>x. ASSUME NEW i \in Lambdas, NEW j \in Lambdas, i # j, v12[i].op \in {"post", "delete"}
      PROVE  v12[j].op \notin {"patch", "calendar", "rule", "setup", "verify", "post", "delete"}
  BY <1>w, <1>x DEF Ac!Met, Ac!Clash
\* Requests that undo nothing, next to a step that leaves rows verified.
<1>g. ASSUME NEW i \in Lambdas, NEW w, v12' = [v12 EXCEPT ![i] = w], Ac!Checked(w)',
             v12[i].op \in {"patch", "calendar", "rule", "setup", "verify"},
             \A t \in Targets : Ac!Verified(t) => Ac!Verified(t)',
             Ac!ReferencesLive'
      PROVE  Ac!Referred'
  <2>1. v12'[i] = w /\ \A j \in Lambdas : j # i => v12'[j] = v12[j]
    BY <1>0, <1>g
  <2>2. ASSUME NEW j \in Lambdas, j # i PROVE Ac!Checked(v12[j])'
    <3>1. v12[j].op \notin {"post", "delete"}
      BY <1>g, <1>x, <2>2
    <3>2. /\ v12[j].op = "patch" /\ v12[j].new # None => Ac!DigestTo(v12[j].new) \in Targets
          /\ v12[j].op = "rule" => v12[j].t \in Targets
      BY AcJobIs, NoneAssumption DEF Ac!Patches, Ac!Forwards, Ac!DigestTo, Ac!Digests
    <3>3. Ac!Checked(v12[j]) /\ v12'[j] = v12[j]
      BY <1>w, <2>1, <2>2
    <3> QED
      BY <1>g, <3>1, <3>2, <3>3, LoginAssumption DEF Ac!Checked, Ac!DigestTo
  <2>3. \A j \in Lambdas : Ac!Checked(v12[j])'
    <3>1. \A j \in Lambdas : j = i => (Ac!Checked(v12[j])' <=> Ac!Checked(w)')
      BY <2>1 DEF Ac!Checked
    <3> QED
      BY <1>g, <2>2, <3>1
  <2> QED
    BY <1>g, <2>3 DEF Ac!Referred
\* What is pointed at and what is verified stays the same.
<1>q. ASSUME NEW i \in Lambdas, NEW w, v12' = [v12 EXCEPT ![i] = w], UNCHANGED <<v2, v5, v6>>, Ac!Checked(w)
      PROVE  Ac!Referred'
  <2>1. \A j \in Lambdas : v12'[j] = IF j = i THEN w ELSE v12[j]
    BY <1>0, <1>q
  <2>2. \A d : Ac!Checked(d) => Ac!Checked(d)'
    BY <1>q DEF Ac!Checked, Ac!Verified, Ac!UsedByDigest, Ac!DigestTo
  <2>3. \A j \in Lambdas : Ac!Checked(v12[j])'
    <3> SUFFICES ASSUME NEW j \in Lambdas PROVE Ac!Checked(v12[j])'
      OBVIOUS
    <3>1. PICK d : d = v12'[j] /\ Ac!Checked(d)
      BY <1>q, <1>w, <2>1
    <3> QED
      BY <2>2, <3>1 DEF Ac!Checked
  <2>4. Ac!ReferencesLive'
    BY <1>q, <1>w DEF Ac!ReferencesLive, Ac!Verified, Ac!DigestTo
  <2> QED
    BY <2>3, <2>4 DEF Ac!Referred
<1>s. ASSUME NEW i \in Lambdas, NEW w, Ac!Start(i, w), UNCHANGED <<v2, v5, v6>>, Ac!Checked(w)
      PROVE  Ac!Referred'
  BY <1>q, <1>s DEF Ac!Start, Ac!Goto
<1>e. ASSUME NEW i \in Lambdas, Ac!End(i), UNCHANGED <<v2, v5, v6>> PROVE Ac!Referred'
  BY <1>e, <1>i, <1>q DEF Ac!End, Ac!Goto
<1>1. ASSUME Ac!StartWorkflow \/ Ac!CreateAccount PROVE Ac!Referred'
  <2>1. UNCHANGED <<v2, v5, v6, v12>>
    BY <1>1 DEF Ac!StartWorkflow, Ac!CreateAccount, Ac!work, Ac!row
  <2> QED
    BY <1>w, <2>1 DEF Ac!Referred, Ac!ReferencesLive, Ac!Checked, Ac!Verified, Ac!UsedByDigest, Ac!DigestTo
<1>2. ASSUME Ac!Unsubscribe PROVE Ac!Referred'
  <2>1. UNCHANGED <<v5, v6, v12>> /\ v2' = None
    BY <1>2 DEF Ac!Unsubscribe, Ac!UpdateDigest, Ac!work
  <2>2. \A t \in Targets : Ac!DigestTo(v2)' # t
    BY <2>1, NoneAssumption DEF Ac!DigestTo
  <2>3. \A j \in Lambdas : v12[j].op = "delete" => v12[j].t \in Targets
    BY AcJobIs DEF Ac!Deletes
  <2>4. Ac!ReferencesLive'
    BY <1>w, <2>1, <2>2 DEF Ac!ReferencesLive, Ac!Verified
  <2>5. \A j \in Lambdas : Ac!Checked(v12[j])'
    BY <1>w, <2>1, <2>2, <2>3 DEF Ac!Checked, Ac!Verified, Ac!UsedByDigest, Ac!DigestTo
  <2> QED
    BY <2>4, <2>5 DEF Ac!Referred
<1>3. ASSUME NEW t \in Targets, Ac!DisableRule(t) \/ Ac!DeleteRule(t) PROVE Ac!Referred'
  <2>1. /\ UNCHANGED <<v2, v5, v12>> /\ v6[t] # None
        /\ v6' = [v6 EXCEPT ![t] = "disabled"] \/ v6' = [v6 EXCEPT ![t] = None]
    BY <1>3, NoneAssumption DEF Ac!DisableRule, Ac!DeleteRule, Ac!work, Ac!row
  <2>2. \A u \in Targets : v6[u] = None => v6'[u] = None
    BY <1>0, <2>1
  <2>3. \A j \in Lambdas : v12[j].op = "delete" => v12[j].t \in Targets
    BY AcJobIs DEF Ac!Deletes
  <2>4. Ac!ReferencesLive'
    BY <1>w, <2>1, <2>2 DEF Ac!ReferencesLive, Ac!Verified, Ac!DigestTo
  <2>5. \A j \in Lambdas : Ac!Checked(v12[j])'
    BY <1>w, <2>1, <2>2, <2>3 DEF Ac!Checked, Ac!Verified, Ac!UsedByDigest, Ac!DigestTo
  <2> QED
    BY <2>4, <2>5 DEF Ac!Referred
<1>4. ASSUME NEW i \in Lambdas, NEW t \in Targets,
             \/ Ac!ReadForPost(i, t) \/ Ac!CheckDigest(i, t) \/ Ac!CheckCalendar(i, t) \/ Ac!CheckForward(i, t)
             \/ \E k \in 1 .. v7 : Ac!ReadForVerify(i, t, k)
      PROVE  Ac!Referred'
  <2>1. UNCHANGED <<v2, v5, v6>>
    BY <1>4 DEF Ac!ReadForPost, Ac!CheckDigest, Ac!CheckCalendar, Ac!CheckForward, Ac!ReadForVerify, Ac!row
  <2>2. PICK w, n : /\ Ac!Start(i, w)
                    /\ \/ w = Ac!Idle
                       \/ w = [op |-> "post", pc |-> "send", t |-> t, new |-> n] /\ ~Ac!Verified(t)
                       \/ w = [op |-> "delete", pc |-> "rules", t |-> t] /\ ~Ac!UsedByDigest(t)
                       \/ w = [op |-> "calendar", pc |-> "update", new |-> t]
                       \/ w = [op |-> "rule", pc |-> "create", t |-> t] /\ Ac!Verified(t)
                       \/ w = [op |-> "verify", pc |-> "save", t |-> t, new |-> n]
    BY <1>4 DEF Ac!ReadForPost, Ac!CheckDigest, Ac!CheckCalendar, Ac!CheckForward, Ac!ReadForVerify
  <2>3. Ac!Checked(w)
    <3>1. CASE w = [op |-> "post", pc |-> "send", t |-> t, new |-> n] /\ ~Ac!Verified(t)
      BY <3>1 DEF Ac!Checked
    <3>2. CASE w = [op |-> "delete", pc |-> "rules", t |-> t] /\ ~Ac!UsedByDigest(t)
      BY <3>2 DEF Ac!Checked
    <3>3. CASE w = [op |-> "calendar", pc |-> "update", new |-> t]
      BY <3>3 DEF Ac!Checked
    <3>4. CASE w = [op |-> "rule", pc |-> "create", t |-> t] /\ Ac!Verified(t)
      BY <3>4 DEF Ac!Checked
    <3>5. CASE w = [op |-> "verify", pc |-> "save", t |-> t, new |-> n]
      BY <3>5 DEF Ac!Checked
    <3> QED
      BY <1>i, <2>2, <3>1, <3>2, <3>3, <3>4, <3>5
  <2> QED
    BY <1>s, <2>1, <2>2, <2>3
<1>5. ASSUME NEW i \in Lambdas, NEW d \in Ac!Digests \union {None}, Ac!CheckTarget(i, d) PROVE Ac!Referred'
  <2>1. PICK w : /\ Ac!Start(i, w)
                 /\ \/ w = Ac!Idle
                    \/ /\ w = [op |-> "patch", pc |-> "read", new |-> d, was |-> None]
                       /\ d = None \/ Ac!Verified(Ac!DigestTo(d))
    BY <1>5 DEF Ac!CheckTarget
  <2>2. Ac!Checked(w)
    <3>1. CASE w = Ac!Idle
      BY <1>i, <3>1
    <3>2. CASE /\ w = [op |-> "patch", pc |-> "read", new |-> d, was |-> None]
               /\ d = None \/ Ac!Verified(Ac!DigestTo(d))
      BY <3>2 DEF Ac!Checked
    <3> QED
      BY <2>1, <3>1, <3>2
  <2>3. UNCHANGED <<v2, v5, v6>>
    BY <1>5 DEF Ac!CheckTarget, Ac!row
  <2> QED
    BY <1>s, <2>1, <2>2, <2>3
<1>6. ASSUME NEW i \in Lambdas,
             \/ Ac!ReadOnboarding(i) \/ Ac!StartSetup(i)
             \/ \E task \in {"followup", "cleanup"} : Ac!StartProgress(i, task)
      PROVE  Ac!Referred'
  <2>1. PICK w : /\ Ac!Start(i, w)
                 /\ \/ w.op \in {"onboard", "progress"}
                    \/ w.op = "setup" /\ (w.pc # "save" => Ac!Verified(Login))
    <3>1. CASE Ac!StartSetup(i)
      <4>1. PICK w : Ac!Start(i, w) /\ w = [op |-> "setup", task |-> "setup", was |-> None,
                                            pc |-> IF Ac!Verified(Login) THEN "read" ELSE "save"]
        BY <3>1 DEF Ac!StartSetup
      <4>2. w.op = "setup" /\ w.pc = IF Ac!Verified(Login) THEN "read" ELSE "save"
        BY <4>1
      <4> QED
        BY <4>1, <4>2
    <3> QED
      BY <1>6, <3>1 DEF Ac!ReadOnboarding, Ac!StartProgress
  <2>2. Ac!Checked(w)
    BY <2>1 DEF Ac!Checked
  <2>3. UNCHANGED <<v2, v5, v6>>
    BY <1>6 DEF Ac!ReadOnboarding, Ac!StartSetup, Ac!StartProgress, Ac!row
  <2> QED
    BY <1>s, <2>1, <2>2, <2>3
<1>7. ASSUME NEW i \in Lambdas, Ac!AskHook(i) \/ Ac!MailToken(i) PROVE Ac!Referred'
  <2>1. v12[i] \in Ac!Posts(v7) /\ v12[i].op = "post" /\ Ac!Checked(v12[i])
    BY <1>7, <1>w, AcJobIs DEF Ac!AskHook, Ac!MailToken, Ac!At
  <2>2. PICK w : /\ v12' = [v12 EXCEPT ![i] = w]
                 /\ w = [v12[i] EXCEPT !.pc = "save", !.new.status = "verified"] \/ w = [v12[i] EXCEPT !.pc = "save"]
    BY <1>7 DEF Ac!AskHook, Ac!MailToken, Ac!Goto
  <2>3. w.op = "post" /\ w.t = v12[i].t
    BY <2>1, <2>2 DEF Ac!Posts
  <2>4. Ac!Checked(w)
    BY <2>1, <2>3 DEF Ac!Checked
  <2> QED
    BY <1>7, <1>q, <2>2, <2>4 DEF Ac!AskHook, Ac!MailToken, Ac!row
<1>8. ASSUME NEW i \in Lambdas, Ac!SavePending(i) \/ Ac!RemoveTarget(i) PROVE Ac!Referred'
  <2> DEFINE t == v12[i].t
  <2>1. /\ t \in Targets /\ v12[i].op \in {"post", "delete"} /\ UNCHANGED <<v2, v6>>
        /\ v12' = [v12 EXCEPT ![i] = Ac!Idle]
        /\ \E n : v5' = [v5 EXCEPT ![t] = n]
    BY <1>8, AcJobIs DEF Ac!SavePending, Ac!RemoveTarget, Ac!SaveTarget, Ac!DeleteTarget, Ac!End, Ac!Goto, Ac!At,
                         Ac!Posts, Ac!Deletes, Ac!row
  <2>2. \A u \in Targets : u # t => v5'[u] = v5[u]
    BY <1>0, <2>1
  <2>3. Ac!DigestTo(v2) # t /\ v6[t] = None
    <3>1. CASE Ac!SavePending(i)
      BY <1>w, <2>1, <3>1 DEF Ac!SavePending, Ac!At, Ac!Checked
    <3>2. CASE Ac!RemoveTarget(i)
      BY <1>w, <3>2 DEF Ac!RemoveTarget, Ac!At, Ac!Checked, Ac!UsedByDigest
    <3> QED
      BY <1>8, <3>1, <3>2
  <2>4. Ac!ReferencesLive'
    BY <1>w, <2>1, <2>2, <2>3 DEF Ac!ReferencesLive, Ac!Verified, Ac!DigestTo
  <2>5. ASSUME NEW j \in Lambdas PROVE Ac!Checked(v12[j])'
    <3>1. j = i => v12'[j].op = "idle"
      BY <1>0, <1>i, <2>1
    <3>2. j # i => v12'[j] = v12[j] /\ v12[j].op \notin {"patch", "rule", "setup", "post", "delete"}
      BY <1>0, <1>x, <2>1
    <3>3. v12'[j].op \notin {"patch", "rule", "setup", "post", "delete"}
      BY <3>1, <3>2
    <3> QED
      BY <3>3 DEF Ac!Checked
  <2> QED
    BY <2>4, <2>5 DEF Ac!Referred
<1>9. ASSUME NEW i \in Lambdas, Ac!SaveVerified(i) PROVE Ac!Referred'
  <2> DEFINE t == v12[i].t
  <2> DEFINE n == v12[i].new
  <2>1. /\ t \in Targets /\ n.status = "verified" /\ n # None /\ v5' = [v5 EXCEPT ![t] = n]
        /\ v12' = [v12 EXCEPT ![i] = Ac!Idle] /\ v12[i].op = "verify" /\ UNCHANGED <<v2, v6>>
    <3>1. v12[i] \in Ac!Verifies(v7) /\ v12[i].op = "verify"
      BY <1>9, AcJobIs DEF Ac!SaveVerified, Ac!At
    <3>2. t \in Targets /\ n \in [status : {"verified"}, token : 1 .. v7]
      BY <3>1 DEF Ac!Verifies
    <3>3. None \notin [status : {"verified"}, token : 1 .. v7]
      BY NoneAssumption
    <3> QED
      BY <1>9, <3>1, <3>2, <3>3 DEF Ac!SaveVerified, Ac!SaveTarget, Ac!End, Ac!Goto, Ac!row
  <2>2. v5'[t] = n /\ \A u \in Targets : u # t => v5'[u] = v5[u]
    BY <1>0, <2>1
  <2>3. \A u \in Targets : Ac!Verified(u) => Ac!Verified(u)'
    BY <2>1, <2>2 DEF Ac!Verified
  <2>4. Ac!ReferencesLive'
    BY <1>w, <2>1, <2>3 DEF Ac!ReferencesLive, Ac!DigestTo
  <2> QED
    BY <1>g, <1>i, <2>1, <2>3, <2>4
<1>10. ASSUME NEW i \in Lambdas, Ac!SaveOwner(i) PROVE Ac!Referred'
  <2>1. PICK n, w : /\ n = [status |-> "verified", token |-> v7 + 1] /\ w = [v12[i] EXCEPT !.pc = "read"]
                    /\ v5' = [v5 EXCEPT ![Login] = n] /\ v12' = [v12 EXCEPT ![i] = w]
                    /\ UNCHANGED <<v2, v6>> /\ v12[i].op = "setup"
    BY <1>10 DEF Ac!SaveOwner, Ac!SaveTarget, Ac!Goto, Ac!row, Ac!At
  <2>2. n.status = "verified" /\ n # None
    <3>1. n \in [status : {"pending", "verified"}, token : Nat]
      BY <2>1 DEF Ac!StateOK
    <3> QED
      BY <2>1, <3>1, NoneAssumption
  <2>3. w.op = "setup"
    BY <1>10, <2>1, AcJobIs DEF Ac!Setups, Ac!FillsIn
  <2>4. v5'[Login] = n /\ \A u \in Targets : u # Login => v5'[u] = v5[u]
    BY <1>0, <2>1, LoginAssumption
  <2>5. \A u \in Targets : Ac!Verified(u) => Ac!Verified(u)'
    BY <2>2, <2>4 DEF Ac!Verified
  <2>6. Ac!ReferencesLive'
    BY <1>w, <2>1, <2>5 DEF Ac!ReferencesLive, Ac!DigestTo
  <2>7. Ac!Checked(w)'
    BY <2>2, <2>3, <2>4 DEF Ac!Checked, Ac!Verified
  <2> QED
    BY <1>g, <2>1, <2>5, <2>6, <2>7
<1>11. ASSUME NEW i \in Lambdas, Ac!PatchDigest(i) \/ Ac!SetDefaults(i) PROVE Ac!Referred'
  <2>1. /\ v12[i].op \in {"patch", "setup"} /\ v12' = [v12 EXCEPT ![i] = Ac!Idle] /\ UNCHANGED <<v5, v6>>
        /\ Ac!Checked(v12[i])
    BY <1>11, <1>w DEF Ac!PatchDigest, Ac!SetDefaults, Ac!At, Ac!End, Ac!Goto
  <2>2. \A t \in Targets : Ac!Verified(t) <=> Ac!Verified(t)'
    BY <2>1 DEF Ac!Verified
  <2>3. PICK d : d = v2' /\ (d = v2 \/ d = None \/ (Ac!DigestTo(d) \in Targets => Ac!Verified(Ac!DigestTo(d))))
    <3>1. CASE Ac!PatchDigest(i)
      BY <2>1, <3>1 DEF Ac!PatchDigest, Ac!UpdateDigest, Ac!Checked, Ac!At
    <3>2. CASE Ac!SetDefaults(i)
      <4>1. Ac!Verified(Login)
        BY <2>1, <3>2 DEF Ac!SetDefaults, Ac!At, Ac!Checked
      <4>2. v2' = v2 \/ v2' = [to |-> Login, often |-> "monthly"]
        BY <3>2 DEF Ac!SetDefaults, Ac!UpdateDigest, Ac!FillIn
      <4>3. [to |-> Login, often |-> "monthly"] \in Ac!Digests
        BY LoginAssumption DEF Ac!Digests, Ac!Frequencies
      <4>4. \A d : d = [to |-> Login, often |-> "monthly"] => Ac!DigestTo(d) = Login
        BY <4>3, NoneAssumption DEF Ac!DigestTo
      <4> QED
        BY <4>1, <4>2, <4>4
    <3> QED
      BY <1>11, <3>1, <3>2
  <2>4. Ac!ReferencesLive'
    <3>1. ASSUME NEW t \in Targets, Ac!DigestTo(d) = t PROVE Ac!Verified(t)
      BY <1>w, <2>3, <3>1, NoneAssumption DEF Ac!DigestTo
    <3> QED
      BY <1>w, <2>1, <2>2, <2>3, <3>1 DEF Ac!ReferencesLive, Ac!DigestTo
  <2> QED
    BY <1>g, <1>i, <2>1, <2>2, <2>4
<1>12. ASSUME NEW i \in Lambdas, Ac!CreateRule(i) PROVE Ac!Referred'
  <2>1. /\ v12[i].op = "rule" /\ v12' = [v12 EXCEPT ![i] = Ac!Idle] /\ UNCHANGED <<v2, v5>>
        /\ v6' = [v6 EXCEPT ![v12[i].t] = "active"] /\ Ac!Verified(v12[i].t)
    BY <1>12, <1>w DEF Ac!CreateRule, Ac!At, Ac!End, Ac!Goto, Ac!Checked, Ac!row
  <2>2. \A t \in Targets : Ac!Verified(t) <=> Ac!Verified(t)'
    BY <2>1 DEF Ac!Verified
  <2>3. \A t \in Targets : t # v12[i].t => v6'[t] = v6[t]
    BY <1>0, <2>1
  <2>4. Ac!ReferencesLive'
    BY <1>w, <2>1, <2>2, <2>3 DEF Ac!ReferencesLive, Ac!DigestTo
  <2> QED
    BY <1>g, <1>i, <2>1, <2>2, <2>4
<1>13. ASSUME NEW i \in Lambdas, Ac!CheckRules(i) PROVE Ac!Referred'
  <2>1. UNCHANGED <<v2, v5, v6>> /\ v12[i].op = "delete" /\ v12[i] \in Ac!Deletes /\ Ac!Checked(v12[i])
    BY <1>13, <1>w, AcJobIs DEF Ac!CheckRules, Ac!At, Ac!row
  <2>2. CASE v6[v12[i].t] # None
    BY <1>13, <1>e, <2>1, <2>2 DEF Ac!CheckRules, Ac!End
  <2>3. CASE v6[v12[i].t] = None
    <3>1. PICK w : w = [v12[i] EXCEPT !.pc = "delete"] /\ v12' = [v12 EXCEPT ![i] = w]
      BY <1>13, <2>3 DEF Ac!CheckRules, Ac!Goto
    <3>2. w.op = "delete" /\ w.t = v12[i].t
      BY <2>1, <3>1 DEF Ac!Deletes
    <3>3. Ac!Checked(w)
      BY <2>1, <2>3, <3>2 DEF Ac!Checked
    <3> QED
      BY <1>q, <2>1, <3>1, <3>3
  <2> QED
    BY <2>2, <2>3
<1>14. ASSUME NEW i \in Lambdas, Ac!ReadDigest(i) \/ Ac!ReadDefaults(i) PROVE Ac!Referred'
  <2>1. UNCHANGED <<v2, v5, v6>> /\ Ac!Checked(v12[i])
    BY <1>14, <1>w DEF Ac!ReadDigest, Ac!ReadDefaults, Ac!row
  <2>2. PICK w : /\ v12' = [v12 EXCEPT ![i] = w]
                 /\ \/ w = [v12[i] EXCEPT !.pc = "update", !.was = v2] /\ Ac!At(i, "patch", "read")
                    \/ /\ w = [v12[i] EXCEPT !.pc = "update", !.was = [digest |-> v2, calendar |-> v3]]
                       /\ Ac!At(i, "setup", "read")
    BY <1>14 DEF Ac!ReadDigest, Ac!ReadDefaults, Ac!Goto
  <2>3. CASE w = [v12[i] EXCEPT !.pc = "update", !.was = v2] /\ Ac!At(i, "patch", "read")
    <3>1. v12[i] \in Ac!Patches /\ v12[i].op = "patch"
      BY <2>3, AcJobIs DEF Ac!At
    <3>2. w.op = "patch" /\ w.new = v12[i].new
      BY <2>3, <3>1 DEF Ac!Patches
    <3>3. Ac!Checked(w)
      BY <2>1, <3>1, <3>2 DEF Ac!Checked
    <3> QED
      BY <1>q, <2>1, <2>2, <3>3
  <2>4. CASE /\ w = [v12[i] EXCEPT !.pc = "update", !.was = [digest |-> v2, calendar |-> v3]]
             /\ Ac!At(i, "setup", "read")
    <3>1. v12[i].op = "setup" /\ v12[i].pc = "read"
      BY <2>4 DEF Ac!At
    <3>2. w.op = "setup"
      BY <2>4, <3>1, AcJobIs DEF Ac!Setups, Ac!FillsIn
    <3>3. Ac!Checked(w)
      BY <2>1, <3>1, <3>2 DEF Ac!Checked
    <3> QED
      BY <1>q, <2>1, <2>2, <3>3
  <2> QED
    BY <2>2, <2>3, <2>4
<1>15. ASSUME NEW i \in Lambdas,
              \/ Ac!PatchCalendar(i) \/ Ac!PatchOnboarding(i) \/ \E again \in BOOLEAN : Ac!Fail(i, again)
              \/ \E complete, lost \in BOOLEAN : Ac!MailProgress(i, complete, lost)
       PROVE  Ac!Referred'
  BY <1>15, <1>e DEF Ac!PatchCalendar, Ac!PatchOnboarding, Ac!Fail, Ac!MailProgress, Ac!row
<1>16. ASSUME NEW i \in Lambdas, NEW received \in BOOLEAN, Ac!RecordProgress(i, received) PROVE Ac!Referred'
  <2>1. PICK w : v12' = [v12 EXCEPT ![i] = w] /\ w = [v12[i] EXCEPT !.pc = "mail"]
    BY <1>16 DEF Ac!RecordProgress, Ac!Goto
  <2>2. w.op = "progress"
    BY <1>16, <2>1, AcJobIs DEF Ac!RecordProgress, Ac!At, Ac!Progresses
  <2>3. Ac!Checked(w)
    BY <2>2 DEF Ac!Checked
  <2> QED
    BY <1>16, <1>q, <2>1, <2>3 DEF Ac!RecordProgress
<1> QED
  BY <1>1, <1>2, <1>3, <1>4, <1>5, <1>6, <1>7, <1>8, <1>9, <1>10, <1>11, <1>12, <1>13, <1>14, <1>15, <1>16
     DEF Ac!Next

\* Flags are added to the ones there are.
LEMMA AcFlags ==
  ASSUME Ac!StateOK, Ac!Met, Ac!Met', v18 \subseteq v18', Ac!Flagged, Ac!Next
  PROVE  Ac!Flagged'
<1>0. v12 \in [Lambdas -> Ac!Jobs(v7)]
  BY DEF Ac!StateOK
<1>u. CASE v18' \intersect {"onboard", "progress"} # {}
  BY <1>u DEF Ac!Flagged, Ac!OnboardingKept
<1> SUFFICES ASSUME v18' \intersect {"onboard", "progress"} = {} PROVE Ac!Flagged'
  BY <1>u
<1>w. /\ v18 \intersect {"onboard", "progress"} = {} /\ v4 = v16
      /\ \A j \in Lambdas : /\ v12[j].op = "onboard" => v12[j].new = v4 \union {"completed"}
                            /\ v12[j].op = "progress" /\ v12[j].pc = "update" => v12[j].was = v4
  BY DEF Ac!Flagged, Ac!OnboardingKept, Ac!At
<1>i. Ac!Idle.op = "idle"
  BY DEF Ac!Idle
<1>x. ASSUME NEW i \in Lambdas, NEW j \in Lambdas, i # j, v12[i].op \in {"onboard", "progress"}
      PROVE  v12[j].op \notin {"onboard", "progress"}
  BY <1>w, <1>x DEF Ac!Met, Ac!Clash
<1>q. ASSUME NEW i \in Lambdas, NEW w, v12' = [v12 EXCEPT ![i] = w], UNCHANGED <<v4, v16>>,
             w.op = "onboard" => w.new = v4 \union {"completed"},
             w.op = "progress" /\ w.pc = "update" => w.was = v4
      PROVE  Ac!Flagged'
  <2>1. v12'[i] = w /\ \A j \in Lambdas : j # i => v12'[j] = v12[j]
    BY <1>0, <1>q
  <2> QED
    BY <1>q, <1>w, <2>1 DEF Ac!Flagged, Ac!OnboardingKept, Ac!At
<1>s. ASSUME NEW i \in Lambdas, NEW w, Ac!Start(i, w), UNCHANGED <<v4, v16>>,
             w.op \notin {"onboard", "progress"}
      PROVE  Ac!Flagged'
  BY <1>q, <1>s DEF Ac!Start, Ac!Goto
<1>e. ASSUME NEW i \in Lambdas, Ac!End(i), UNCHANGED <<v4, v16>> PROVE Ac!Flagged'
  BY <1>e, <1>i, <1>q DEF Ac!End, Ac!Goto
\* The one who is adding a flag has no company.
<1>f. ASSUME NEW i \in Lambdas, NEW w, v12' = [v12 EXCEPT ![i] = w], v4' = v16',
             v12[i].op \in {"onboard", "progress"},
             w.op # "onboard", w.op = "progress" => w.pc # "update"
      PROVE  Ac!Flagged'
  <2>1. v12'[i] = w /\ \A j \in Lambdas : j # i => v12'[j] = v12[j]
    BY <1>0, <1>f
  <2> QED
    BY <1>f, <1>x, <2>1 DEF Ac!Flagged, Ac!OnboardingKept, Ac!At
<1>1. ASSUME Ac!StartWorkflow \/ Ac!CreateAccount \/ Ac!Unsubscribe
             \/ \E t \in Targets : Ac!DisableRule(t) \/ Ac!DeleteRule(t)
      PROVE  Ac!Flagged'
  <2>1. UNCHANGED <<v4, v12, v16>>
    BY <1>1 DEF Ac!StartWorkflow, Ac!CreateAccount, Ac!Unsubscribe, Ac!DisableRule, Ac!DeleteRule, Ac!work, Ac!row
  <2> QED
    BY <1>w, <2>1 DEF Ac!Flagged, Ac!OnboardingKept, Ac!At
<1>2. ASSUME NEW i \in Lambdas, NEW t \in Targets,
             \/ Ac!ReadForPost(i, t) \/ Ac!CheckDigest(i, t) \/ Ac!CheckCalendar(i, t) \/ Ac!CheckForward(i, t)
             \/ \E k \in 1 .. v7 : Ac!ReadForVerify(i, t, k)
      PROVE  Ac!Flagged'
  <2>1. UNCHANGED <<v4, v16>>
    BY <1>2 DEF Ac!ReadForPost, Ac!CheckDigest, Ac!CheckCalendar, Ac!CheckForward, Ac!ReadForVerify, Ac!row
  <2>2. PICK w, n : /\ Ac!Start(i, w)
                    /\ \/ w = Ac!Idle
                       \/ w = [op |-> "post", pc |-> "send", t |-> t, new |-> n]
                       \/ w = [op |-> "delete", pc |-> "rules", t |-> t]
                       \/ w = [op |-> "calendar", pc |-> "update", new |-> t]
                       \/ w = [op |-> "rule", pc |-> "create", t |-> t]
                       \/ w = [op |-> "verify", pc |-> "save", t |-> t, new |-> n]
    BY <1>2 DEF Ac!ReadForPost, Ac!CheckDigest, Ac!CheckCalendar, Ac!CheckForward, Ac!ReadForVerify
  <2>3. w.op \notin {"onboard", "progress"}
    <3>1. w = [op |-> "post", pc |-> "send", t |-> t, new |-> n] => w.op = "post"
      OBVIOUS
    <3>2. w = [op |-> "delete", pc |-> "rules", t |-> t] => w.op = "delete"
      OBVIOUS
    <3>3. w = [op |-> "calendar", pc |-> "update", new |-> t] => w.op = "calendar"
      OBVIOUS
    <3>4. w = [op |-> "rule", pc |-> "create", t |-> t] => w.op = "rule"
      OBVIOUS
    <3>5. w = [op |-> "verify", pc |-> "save", t |-> t, new |-> n] => w.op = "verify"
      OBVIOUS
    <3> QED
      BY <1>i, <2>2, <3>1, <3>2, <3>3, <3>4, <3>5
  <2> QED
    BY <1>s, <2>1, <2>2, <2>3
<1>3. ASSUME NEW i \in Lambdas, NEW d \in Ac!Digests \union {None}, Ac!CheckTarget(i, d) PROVE Ac!Flagged'
  <2>1. PICK w : /\ Ac!Start(i, w)
                 /\ w = Ac!Idle \/ w = [op |-> "patch", pc |-> "read", new |-> d, was |-> None]
    BY <1>3 DEF Ac!CheckTarget
  <2>2. w.op \notin {"onboard", "progress"}
    <3>1. w = [op |-> "patch", pc |-> "read", new |-> d, was |-> None] => w.op = "patch"
      OBVIOUS
    <3> QED
      BY <1>i, <2>1, <3>1
  <2>3. UNCHANGED <<v4, v16>>
    BY <1>3 DEF Ac!CheckTarget, Ac!row
  <2> QED
    BY <1>s, <2>1, <2>2, <2>3
<1>4. ASSUME NEW i \in Lambdas, Ac!StartSetup(i) PROVE Ac!Flagged'
  <2>1. \E w : Ac!Start(i, w) /\ w.op = "setup"
    BY <1>4 DEF Ac!StartSetup
  <2>2. UNCHANGED <<v4, v16>>
    BY <1>4 DEF Ac!StartSetup, Ac!row
  <2> QED
    BY <1>s, <2>1, <2>2
<1>5. ASSUME NEW i \in Lambdas, Ac!ReadOnboarding(i) PROVE Ac!Flagged'
  <2>1. PICK w : Ac!Start(i, w) /\ w = [op |-> "onboard", pc |-> "update", new |-> Ac!Merged(v4, {"completed"})]
    BY <1>5 DEF Ac!ReadOnboarding
  <2>2. w.op = "onboard" /\ w.new = v4 \union {"completed"} /\ v12' = [v12 EXCEPT ![i] = w]
    BY <2>1 DEF Ac!Merged, Ac!Start, Ac!Goto
  <2>3. UNCHANGED <<v4, v16>>
    BY <1>5 DEF Ac!ReadOnboarding, Ac!row
  <2> QED
    BY <1>q, <2>2, <2>3
<1>6. ASSUME NEW i \in Lambdas, NEW task, Ac!StartProgress(i, task) PROVE Ac!Flagged'
  <2>1. PICK w : Ac!Start(i, w) /\ w = [op |-> "progress", task |-> task, pc |-> "update", was |-> v4]
    BY <1>6 DEF Ac!StartProgress
  <2>2. w.op = "progress" /\ w.was = v4 /\ v12' = [v12 EXCEPT ![i] = w]
    BY <2>1 DEF Ac!Start, Ac!Goto
  <2>3. UNCHANGED <<v4, v16>>
    BY <1>6 DEF Ac!StartProgress, Ac!row
  <2> QED
    BY <1>q, <2>2, <2>3
<1>7. ASSUME NEW i \in Lambdas,
             \/ Ac!SavePending(i) \/ Ac!SaveVerified(i) \/ Ac!RemoveTarget(i) \/ Ac!PatchDigest(i)
             \/ Ac!PatchCalendar(i) \/ Ac!CreateRule(i) \/ Ac!SetDefaults(i)
             \/ \E again \in BOOLEAN : Ac!Fail(i, again)
             \/ \E complete, lost \in BOOLEAN : Ac!MailProgress(i, complete, lost)
      PROVE  Ac!Flagged'
  BY <1>7, <1>e
     DEF Ac!SavePending, Ac!SaveVerified, Ac!RemoveTarget, Ac!PatchDigest, Ac!PatchCalendar, Ac!CreateRule,
         Ac!SetDefaults, Ac!Fail, Ac!MailProgress, Ac!row
<1>8. ASSUME NEW i \in Lambdas,
             \/ Ac!AskHook(i) \/ Ac!MailToken(i) \/ Ac!CheckRules(i) \/ Ac!ReadDigest(i)
             \/ Ac!SaveOwner(i) \/ Ac!ReadDefaults(i)
      PROVE  Ac!Flagged'
  <2>1. v12[i].op \in {"post", "delete", "patch", "setup"} /\ UNCHANGED <<v4, v16>> /\ v18' = v18
    BY <1>8 DEF Ac!AskHook, Ac!MailToken, Ac!CheckRules, Ac!ReadDigest, Ac!SaveOwner, Ac!ReadDefaults, Ac!At, Ac!row
  <2>2. PICK w : v12' = [v12 EXCEPT ![i] = w] /\ (w.op = "idle" \/ w.op = v12[i].op)
    BY <1>8, AcGoesOn
  <2> QED
    BY <1>q, <2>1, <2>2
<1>9. ASSUME NEW i \in Lambdas, Ac!PatchOnboarding(i) PROVE Ac!Flagged'
  BY <1>9, <1>f, <1>i, <1>w DEF Ac!PatchOnboarding, Ac!UpdateFlags, Ac!At, Ac!End, Ac!Goto
<1>10. ASSUME NEW i \in Lambdas, NEW received \in BOOLEAN, Ac!RecordProgress(i, received) PROVE Ac!Flagged'
  <2>1. PICK w : v12' = [v12 EXCEPT ![i] = w] /\ w = [v12[i] EXCEPT !.pc = "mail"]
    BY <1>10 DEF Ac!RecordProgress, Ac!Goto
  <2>2. w.op = "progress" /\ w.pc = "mail"
    BY <1>10, <2>1, AcJobIs DEF Ac!RecordProgress, Ac!At, Ac!Progresses
  <2>3. v12[i].op = "progress" /\ v4' = v16'
    BY <1>10, <1>w DEF Ac!RecordProgress, Ac!At, Ac!UpdateFlags, Ac!Merged
  <2> QED
    BY <1>f, <2>1, <2>2, <2>3
<1> QED
  BY <1>1, <1>2, <1>3, <1>4, <1>5, <1>6, <1>7, <1>8, <1>9, <1>10 DEF Ac!Next

\* A digest the user chose is not one that setup found missing.
LEMMA AcChooses ==
  ASSUME Ac!StateOK, Ac!Met, Ac!Met', v18 \subseteq v18', Ac!Chosen, Ac!Next
  PROVE  Ac!Chosen'
<1>0. v12 \in [Lambdas -> Ac!Jobs(v7)]
  BY DEF Ac!StateOK
<1>u. CASE "setup" \in v18'
  BY <1>u DEF Ac!Chosen, Ac!ChoiceStands
<1> SUFFICES ASSUME "setup" \notin v18' PROVE Ac!Chosen'
  BY <1>u
<1>w. /\ "setup" \notin v18 /\ (v15 = None \/ v2 = v15)
      /\ \A j \in Lambdas : v12[j].op = "setup" /\ v12[j].pc = "update" /\ v12[j].was.digest = None => v15 = None
  BY DEF Ac!Chosen, Ac!ChoiceStands, Ac!At
<1>i. Ac!Idle.op = "idle"
  BY DEF Ac!Idle
<1>x. ASSUME NEW i \in Lambdas, NEW j \in Lambdas, i # j, v12[i].op \in {"setup", "patch"}
      PROVE  v12[j].op # "setup"
  BY <1>w, <1>x DEF Ac!Met, Ac!Clash
<1>q. ASSUME NEW i \in Lambdas, NEW w, v12' = [v12 EXCEPT ![i] = w], UNCHANGED <<v2, v15>>,
             w.op = "setup" => w.pc # "update"
      PROVE  Ac!Chosen'
  <2>1. v12'[i] = w /\ \A j \in Lambdas : j # i => v12'[j] = v12[j]
    BY <1>0, <1>q
  <2> QED
    BY <1>q, <1>w, <2>1 DEF Ac!Chosen, Ac!ChoiceStands, Ac!At
<1>s. ASSUME NEW i \in Lambdas, NEW w, Ac!Start(i, w), UNCHANGED <<v2, v15>>,
             w.op = "setup" => w.pc # "update"
      PROVE  Ac!Chosen'
  BY <1>q, <1>s DEF Ac!Start, Ac!Goto
<1>e. ASSUME NEW i \in Lambdas, Ac!End(i), UNCHANGED <<v2, v15>> PROVE Ac!Chosen'
  BY <1>e, <1>i, <1>q DEF Ac!End, Ac!Goto
<1>1. ASSUME Ac!StartWorkflow \/ Ac!CreateAccount
             \/ \E t \in Targets : Ac!DisableRule(t) \/ Ac!DeleteRule(t)
      PROVE  Ac!Chosen'
  <2>1. UNCHANGED <<v2, v12, v15>>
    BY <1>1 DEF Ac!StartWorkflow, Ac!CreateAccount, Ac!DisableRule, Ac!DeleteRule, Ac!work, Ac!row
  <2> QED
    BY <1>w, <2>1 DEF Ac!Chosen, Ac!ChoiceStands, Ac!At
<1>2. ASSUME Ac!Unsubscribe PROVE Ac!Chosen'
  BY <1>2 DEF Ac!Unsubscribe, Ac!Chosen, Ac!ChoiceStands
<1>3. ASSUME NEW i \in Lambdas, NEW t \in Targets,
             \/ Ac!ReadForPost(i, t) \/ Ac!CheckDigest(i, t) \/ Ac!CheckCalendar(i, t) \/ Ac!CheckForward(i, t)
             \/ \E k \in 1 .. v7 : Ac!ReadForVerify(i, t, k)
      PROVE  Ac!Chosen'
  <2>1. UNCHANGED <<v2, v15>>
    BY <1>3 DEF Ac!ReadForPost, Ac!CheckDigest, Ac!CheckCalendar, Ac!CheckForward, Ac!ReadForVerify, Ac!row
  <2>2. PICK w, n : /\ Ac!Start(i, w)
                    /\ \/ w = Ac!Idle
                       \/ w = [op |-> "post", pc |-> "send", t |-> t, new |-> n]
                       \/ w = [op |-> "delete", pc |-> "rules", t |-> t]
                       \/ w = [op |-> "calendar", pc |-> "update", new |-> t]
                       \/ w = [op |-> "rule", pc |-> "create", t |-> t]
                       \/ w = [op |-> "verify", pc |-> "save", t |-> t, new |-> n]
    BY <1>3 DEF Ac!ReadForPost, Ac!CheckDigest, Ac!CheckCalendar, Ac!CheckForward, Ac!ReadForVerify
  <2>3. w.op # "setup"
    <3>1. w = [op |-> "post", pc |-> "send", t |-> t, new |-> n] => w.op = "post"
      OBVIOUS
    <3>2. w = [op |-> "delete", pc |-> "rules", t |-> t] => w.op = "delete"
      OBVIOUS
    <3>3. w = [op |-> "calendar", pc |-> "update", new |-> t] => w.op = "calendar"
      OBVIOUS
    <3>4. w = [op |-> "rule", pc |-> "create", t |-> t] => w.op = "rule"
      OBVIOUS
    <3>5. w = [op |-> "verify", pc |-> "save", t |-> t, new |-> n] => w.op = "verify"
      OBVIOUS
    <3> QED
      BY <1>i, <2>2, <3>1, <3>2, <3>3, <3>4, <3>5
  <2> QED
    BY <1>s, <2>1, <2>2, <2>3
<1>4. ASSUME NEW i \in Lambdas, NEW d \in Ac!Digests \union {None}, Ac!CheckTarget(i, d) PROVE Ac!Chosen'
  <2>1. PICK w : /\ Ac!Start(i, w)
                 /\ w = Ac!Idle \/ w = [op |-> "patch", pc |-> "read", new |-> d, was |-> None]
    BY <1>4 DEF Ac!CheckTarget
  <2>2. w.op # "setup"
    <3>1. w = [op |-> "patch", pc |-> "read", new |-> d, was |-> None] => w.op = "patch"
      OBVIOUS
    <3> QED
      BY <1>i, <2>1, <3>1
  <2>3. UNCHANGED <<v2, v15>>
    BY <1>4 DEF Ac!CheckTarget, Ac!row
  <2> QED
    BY <1>s, <2>1, <2>2, <2>3
<1>5. ASSUME NEW i \in Lambdas,
             \/ Ac!ReadOnboarding(i) \/ Ac!StartSetup(i)
             \/ \E task \in {"followup", "cleanup"} : Ac!StartProgress(i, task)
      PROVE  Ac!Chosen'
  <2>1. PICK w : Ac!Start(i, w) /\ (w.op \in {"onboard", "progress"} \/ w.pc \in {"read", "save"})
    BY <1>5 DEF Ac!ReadOnboarding, Ac!StartSetup, Ac!StartProgress
  <2>2. UNCHANGED <<v2, v15>>
    BY <1>5 DEF Ac!ReadOnboarding, Ac!StartSetup, Ac!StartProgress, Ac!row
  <2> QED
    BY <1>s, <2>1, <2>2
<1>6. ASSUME NEW i \in Lambdas,
             \/ Ac!SavePending(i) \/ Ac!SaveVerified(i) \/ Ac!RemoveTarget(i) \/ Ac!PatchOnboarding(i)
             \/ Ac!PatchCalendar(i) \/ Ac!CreateRule(i)
             \/ \E again \in BOOLEAN : Ac!Fail(i, again)
             \/ \E complete, lost \in BOOLEAN : Ac!MailProgress(i, complete, lost)
      PROVE  Ac!Chosen'
  BY <1>6, <1>e
     DEF Ac!SavePending, Ac!SaveVerified, Ac!RemoveTarget, Ac!PatchOnboarding, Ac!PatchCalendar, Ac!CreateRule,
         Ac!Fail, Ac!MailProgress, Ac!row
<1>7. ASSUME NEW i \in Lambdas,
             \/ Ac!AskHook(i) \/ Ac!MailToken(i) \/ Ac!CheckRules(i) \/ Ac!ReadDigest(i)
             \/ \E received \in BOOLEAN : Ac!RecordProgress(i, received)
      PROVE  Ac!Chosen'
  <2>1. v12[i].op \in {"post", "delete", "patch", "progress"} /\ UNCHANGED <<v2, v15>>
    BY <1>7 DEF Ac!AskHook, Ac!MailToken, Ac!CheckRules, Ac!ReadDigest, Ac!RecordProgress, Ac!At, Ac!row
  <2>2. PICK w : v12' = [v12 EXCEPT ![i] = w] /\ (w.op = "idle" \/ w.op = v12[i].op)
    BY <1>7, AcGoesOn
  <2> QED
    BY <1>q, <2>1, <2>2
<1>8. ASSUME NEW i \in Lambdas, Ac!SaveOwner(i) PROVE Ac!Chosen'
  <2>1. PICK w : v12' = [v12 EXCEPT ![i] = w] /\ w = [v12[i] EXCEPT !.pc = "read"]
    BY <1>8 DEF Ac!SaveOwner, Ac!Goto
  <2>2. w.pc = "read"
    BY <1>8, <2>1, AcJobIs DEF Ac!SaveOwner, Ac!At, Ac!Setups, Ac!FillsIn
  <2> QED
    BY <1>8, <1>q, <2>1, <2>2 DEF Ac!SaveOwner, Ac!row
<1>9. ASSUME NEW i \in Lambdas, Ac!ReadDefaults(i) PROVE Ac!Chosen'
  <2>1. PICK was, w : /\ was = [digest |-> v2, calendar |-> v3] /\ w = [v12[i] EXCEPT !.pc = "update", !.was = was]
                      /\ v12' = [v12 EXCEPT ![i] = w] /\ UNCHANGED <<v2, v15>>
    BY <1>9 DEF Ac!ReadDefaults, Ac!Goto, Ac!row
  <2>2. w.was = was /\ was.digest = v2
    BY <1>9, <2>1, AcJobIs DEF Ac!ReadDefaults, Ac!At, Ac!Setups, Ac!FillsIn
  <2>3. v12'[i] = w /\ \A j \in Lambdas : j # i => v12'[j] = v12[j]
    BY <1>0, <2>1
  <2>4. w.was.digest = None => v15 = None
    BY <1>w, <2>2
  <2> QED
    BY <1>w, <2>1, <2>3, <2>4 DEF Ac!Chosen, Ac!ChoiceStands, Ac!At
<1>10. ASSUME NEW i \in Lambdas, Ac!PatchDigest(i) PROVE Ac!Chosen'
  <2>1. v12' = [v12 EXCEPT ![i] = Ac!Idle] /\ v2' = v15' /\ v12[i].op = "patch"
    BY <1>10 DEF Ac!PatchDigest, Ac!UpdateDigest, Ac!End, Ac!Goto, Ac!At
  <2>2. \A j \in Lambdas : v12'[j].op # "setup"
    BY <1>0, <1>i, <1>x, <2>1
  <2> QED
    BY <2>1, <2>2 DEF Ac!Chosen, Ac!ChoiceStands, Ac!At
<1>11. ASSUME NEW i \in Lambdas, Ac!SetDefaults(i) PROVE Ac!Chosen'
  <2>1. /\ v12' = [v12 EXCEPT ![i] = Ac!Idle] /\ v15' = v15 /\ v12[i].op = "setup"
        /\ v2' = v2 \/ v12[i].was.digest = None
    BY <1>11 DEF Ac!SetDefaults, Ac!UpdateDigest, Ac!FillIn, Ac!End, Ac!Goto, Ac!At
  <2>2. v15' = None \/ v2' = v15'
    BY <1>11, <1>w, <2>1 DEF Ac!SetDefaults, Ac!At
  <2>3. \A j \in Lambdas : v12'[j].op # "setup"
    BY <1>0, <1>i, <1>x, <2>1
  <2> QED
    BY <2>2, <2>3 DEF Ac!Chosen, Ac!ChoiceStands, Ac!At
<1> QED
  BY <1>1, <1>2, <1>3, <1>4, <1>5, <1>6, <1>7, <1>8, <1>9, <1>10, <1>11 DEF Ac!Next

\* A target that mail goes to has agreed and is there; onboarding takes back nothing that the user settled.
THEOREM AccountIsKept == ProvedSpec => []AccountHolds
<1>1. ProvedInit => (part = "account" => Ac!Inductive)
  <2>1. SUFFICES ASSUME ProvedInit, part = "account" PROVE Ac!Inductive
    OBVIOUS
  <2>2. Ac!Init
    BY <2>1 DEF ProvedInit
  <2> QED
    BY <2>2, AcInitial
<1>2. (part = "account" => Ac!Inductive) /\ [ProvedNext]_values => (part = "account" => Ac!Inductive)'
  <2> SUFFICES ASSUME part = "account" => Ac!Inductive, [ProvedNext]_values, part' = "account"
               PROVE  Ac!Inductive'
    OBVIOUS
  <2>1. CASE UNCHANGED <<part, v2, v3, v4, v5, v6, v7, v8, v12, v15, v16, v17, v18>>
    <3>1. Ac!Inductive
      BY <2>1
    <3>2. Ac!StateOK' /\ Ac!Met'
      BY <2>1, <3>1 DEF Ac!Inductive, Ac!StateOK, Ac!TypeOK, Ac!Met
    <3>3. Ac!Consented'
      BY <2>1, <3>1 DEF Ac!Inductive, Ac!Consented, Ac!Consent, Ac!Verified, Ac!Holds
    <3>4. Ac!Referred'
      BY <2>1, <3>1 DEF Ac!Inductive, Ac!Referred, Ac!ReferencesLive, Ac!Undone, Ac!Checked, Ac!Verified,
                        Ac!DigestTo, Ac!UsedByDigest
    <3>5. Ac!Flagged' /\ Ac!Chosen'
      BY <2>1, <3>1 DEF Ac!Inductive, Ac!Flagged, Ac!OnboardingKept, Ac!Chosen, Ac!ChoiceStands, Ac!At
    <3> QED
      BY <3>2, <3>3, <3>4, <3>5 DEF Ac!Inductive
  <2>2. CASE Ac!Inductive /\ Ac!Next
    <3>1. Ac!StateOK /\ Ac!Consented /\ Ac!Met /\ Ac!Referred /\ Ac!Flagged /\ Ac!Chosen /\ Ac!Next
      BY <2>2 DEF Ac!Inductive
    <3>2. Ac!StateOK' /\ Ac!Consented' /\ Ac!Met' /\ v18 \subseteq v18'
      BY <3>1, AcTyped, AcConsents, AcMeets
    <3>3. Ac!Referred' /\ Ac!Flagged' /\ Ac!Chosen'
      BY <3>1, <3>2, AcRefers, AcFlags, AcChooses
    <3> QED
      BY <3>2, <3>3 DEF Ac!Inductive
  <2> QED
    BY <2>1, <2>2 DEF ProvedNext, values, Rest10, Rest11, Rest12, Rest18
<1>3. (part = "account" => Ac!Inductive) => AccountHolds
  BY DEF AccountHolds, Ac!Inductive, Ac!StateOK, Ac!Consented, Ac!Referred, Ac!Flagged, Ac!Chosen
<1> QED
  BY <1>1, <1>2, <1>3, PTL DEF ProvedSpec

-----------------------------------------------------------------------------
(* Digest: v1 today, v2 account, v3 queue, v4 lambda, v5 sent, v6 twice,     *)
(* v7 token, v8 excused, v9 faults, v10 changes, v11 opted.                  *)

\* A message names an account or, if it starts the day's dispatch, none.
LEMMA DiMessageIs ==
  ASSUME NEW m \in Di!Dispatches \union Di!Mailings
  PROVE  /\ m.day \in 1 .. Days /\ m.receives \in 0 .. MaxReceives /\ m.n \in Nat
         /\ m.for = None => m \in Di!Dispatches /\ m.n = 0
         /\ m.for # None => m \in Di!Mailings /\ m.for \in Accounts
         /\ m.for \in Accounts \union {None}
<1>1. CASE m \in Di!Dispatches
  BY <1>1 DEF Di!Dispatches
<1>2. CASE m \in Di!Mailings
  BY <1>2, NoneAssumption DEF Di!Mailings
<1> QED
  BY <1>1, <1>2

\* Receiving it makes it the same message once more.
LEMMA DiReceived ==
  ASSUME NEW m \in Di!Dispatches \union Di!Mailings, m.receives < MaxReceives
  PROVE  /\ Di!Received(m).for = m.for /\ Di!Received(m).day = m.day /\ Di!Received(m).n = m.n
         /\ Di!Received(m).receives = m.receives + 1 /\ Di!Received(m) # m
         /\ Di!Received(m) \in Di!Dispatches \union Di!Mailings
         /\ m.for = None => Di!Received(m) \in Di!Dispatches
         /\ m.for # None => Di!Received(m) \in Di!Mailings
<1>0. MaxReceives \in Nat
  BY BoundsAssumption
<1>1. CASE m \in Di!Dispatches
  BY <1>0, <1>1 DEF Di!Dispatches, Di!Received
<1>2. CASE m \in Di!Mailings
  BY <1>0, <1>2, NoneAssumption DEF Di!Mailings, Di!Received
<1> QED
  BY <1>1, <1>2

\* What an invocation holds at each point.
LEMMA DiJobIs ==
  ASSUME Di!StateOK, NEW i \in Lambdas
  PROVE  /\ v4[i] # Di!Idle <=> v4[i].pc \in {"failed", "batch", "send", "skip", "sent"}
         /\ v4[i].pc = "failed" => v4[i].message \in Di!Dispatches \union Di!Mailings
         /\ v4[i].pc = "batch" => v4[i].message \in Di!Dispatches /\ v4[i].left \subseteq Accounts
         /\ v4[i].pc \in {"send", "skip", "sent"} => v4[i].message \in Di!Mailings
         /\ v4[i].pc = "send" => v4[i].opted \in Nat /\ v4[i].day \in 1 .. v1
<1>1. v4[i] \in Di!Jobs /\ (v4[i].pc = "send" => v4[i].day <= v1) /\ v1 \in 1 .. Days
  BY DEF Di!StateOK, Di!TypeOK
<1>2. Di!Idle.pc = "idle"
  BY DEF Di!Idle
<1>3. CASE v4[i] = Di!Idle
  BY <1>2, <1>3
<1>4. CASE v4[i] \in [pc : {"failed"}, message : Di!Dispatches \union Di!Mailings]
  BY <1>2, <1>4
<1>5. CASE v4[i] \in [pc : {"batch"}, message : Di!Dispatches, left : SUBSET Accounts]
  BY <1>2, <1>5
<1>6. CASE v4[i] \in [pc : {"send"}, message : Di!Mailings, opted : Nat, day : 1 .. Days]
  BY <1>1, <1>2, <1>6
<1>7. CASE v4[i] \in [pc : {"skip", "sent"}, message : Di!Mailings]
  BY <1>2, <1>7
<1> QED
  BY <1>1, <1>3, <1>4, <1>5, <1>6, <1>7 DEF Di!Jobs

\* The state at the start: the first day's dispatch is queued.
LEMMA DiInitial == Di!Init => Di!Inductive
<1> SUFFICES ASSUME Di!Init PROVE Di!Inductive
  OBVIOUS
<1> USE DEF Di!Init
<1>0. Days \in Nat \ {0} /\ MaxReceives \in Nat
  BY BoundsAssumption
<1>1. /\ v1 = 1 /\ v2 \in [Accounts -> {None, "daily", "weekly"}] /\ v3 = {Di!DispatchOf(1)} /\ v5 = {} /\ v6 = {}
      /\ v7 = {} /\ v8 = {} /\ v9 = 0 /\ v10 = 0 /\ v11 = [a \in Accounts |-> 0]
      /\ \A i \in Lambdas : v4[i] = Di!Idle /\ v4[i].pc = "idle"
  BY DEF Di!Idle
<1>2. /\ Di!DispatchOf(1) \in Di!Dispatches /\ Di!DispatchOf(1).for = None /\ Di!DispatchOf(1).day = 1
      /\ Di!DispatchOf(1).receives = 0
  BY <1>0 DEF Di!DispatchOf, Di!Dispatches
<1>3. Di!StateOK
  <2>1. Di!TypeOK
    BY <1>0, <1>1, <1>2 DEF Di!TypeOK
  <2> QED
    BY <1>1, <1>2, <2>1 DEF Di!StateOK, Di!Jobs
<1>4. Di!Kept /\ Di!TriesDiffer
  BY <1>1, <1>2 DEF Di!Kept, Di!TriesDiffer
<1>5. Di!Silent /\ Di!OnceEach
  BY <1>1, <1>2 DEF Di!Silent, Di!OnceEach
<1>6. Di!Owed
  <2>1. ASSUME NEW a \in Accounts, NEW d \in 1 .. v1 PROVE Di!Waits(a, d)
    <3>1. d = 1
      BY <1>1, <2>1
    <3> QED
      BY <1>1, <1>2, <3>1 DEF Di!Waits
  <2> QED
    BY <1>1, <2>1 DEF Di!Owed
<1> QED
  BY <1>3, <1>4, <1>5, <1>6 DEF Di!Inductive

\* Types.
LEMMA DiTyped == Di!StateOK /\ Di!Kept /\ Di!Next => Di!StateOK'
<1> SUFFICES ASSUME Di!StateOK, Di!Kept, Di!Next PROVE Di!StateOK'
  OBVIOUS
<1>0. /\ v1 \in 1 .. Days /\ v2 \in [Accounts -> {None, "daily", "weekly"}]
      /\ \A m \in v3 : m.for \in Accounts \union {None} /\ m.day \in 1 .. v1 /\ m.receives \in 0 .. MaxReceives
      /\ v7 \subseteq Accounts /\ v9 \in Nat /\ v10 \in Nat /\ v11 \in [Accounts -> Nat]
      /\ v3 \subseteq Di!Dispatches \union Di!Mailings /\ v4 \in [Lambdas -> Di!Jobs]
      /\ v5 \subseteq [for : Accounts, day : 1 .. v1, on : 1 .. v1]
      /\ \A i \in Lambdas : v4[i].pc = "send" => v4[i].day <= v1
  BY DEF Di!StateOK, Di!TypeOK
<1>b. Days \in Nat \ {0} /\ MaxReceives \in Nat
  BY BoundsAssumption
<1>k. \A i \in Lambdas : v4[i].pc # "idle" => v4[i].message \in v3
  BY DEF Di!Kept, Di!Idle
<1>i. Di!Idle \in Di!Jobs /\ Di!Idle.pc = "idle"
  BY DEF Di!Jobs, Di!Idle
<1>t. ASSUME NEW i \in Lambdas, NEW w \in Di!Jobs, v4' = [v4 EXCEPT ![i] = w],
             v3' \subseteq Di!Dispatches \union Di!Mailings, \A m \in v3' : m.day <= v1,
             w.pc = "send" => w.day <= v1,
             v5' \subseteq [for : Accounts, day : 1 .. v1, on : 1 .. v1],
             v9' = v9 \/ v9' = v9 + 1, v7' \subseteq Accounts, UNCHANGED <<v1, v2, v10, v11>>
      PROVE  Di!StateOK'
  <2>1. v4' \in [Lambdas -> Di!Jobs] /\ v4'[i] = w /\ \A j \in Lambdas : j # i => v4'[j] = v4[j]
    BY <1>0, <1>t
  <2>2. \A m \in v3' : m.for \in Accounts \union {None} /\ m.day \in 1 .. v1 /\ m.receives \in 0 .. MaxReceives
    BY <1>0, <1>t, DiMessageIs
  <2>3. Di!TypeOK'
    BY <1>0, <1>t, <2>2 DEF Di!TypeOK
  <2> QED
    BY <1>0, <1>t, <2>1, <2>3 DEF Di!StateOK
<1>f. ASSUME NEW failed \in BOOLEAN, Di!MayFail(failed) PROVE v9' = v9 \/ v9' = v9 + 1
  BY <1>f DEF Di!MayFail
<1>d. /\ v3 \subseteq Di!Dispatches \union Di!Mailings /\ v7 \subseteq Accounts
      /\ v5 \subseteq [for : Accounts, day : 1 .. v1, on : 1 .. v1]
      /\ \A m \in v3 : m.day <= v1
  BY <1>0
<1>1. CASE Di!Midnight
  <2>1. v1' \in 1 .. Days /\ v1' = v1 + 1 /\ UNCHANGED <<v2, v4, v5, v7, v9, v10, v11>>
        /\ v3' = v3 \union {Di!DispatchOf(v1')}
    BY <1>0, <1>1, <1>b DEF Di!Midnight
  <2>2. \A d \in 1 .. Days : /\ Di!DispatchOf(d) \in Di!Dispatches /\ Di!DispatchOf(d).day = d
    BY <1>b DEF Di!DispatchOf, Di!Dispatches
  <2>3. v3' \subseteq Di!Dispatches \union Di!Mailings /\ \A m \in v3' : m.day \in 1 .. v1'
    <3>1. \A d : d = v1' => Di!DispatchOf(d) \in Di!Dispatches /\ Di!DispatchOf(d).day = d
      BY <2>1, <2>2
    <3> QED
      BY <1>0, <2>1, <3>1
  <2>4. Di!TypeOK'
    BY <1>0, <2>1, <2>3, DiMessageIs DEF Di!TypeOK
  <2>5. 1 .. v1 \subseteq 1 .. v1'
    BY <1>0, <2>1
  <2>6. v5' \subseteq [for : Accounts, day : 1 .. v1', on : 1 .. v1']
    BY <1>0, <2>1, <2>5
  <2>7. \A i \in Lambdas : v4'[i].pc = "send" => v4'[i].day <= v1'
    BY <1>0, <2>1, DiJobIs
  <2> QED
    BY <1>0, <2>1, <2>3, <2>4, <2>6, <2>7 DEF Di!StateOK
<1>2. ASSUME NEW a \in Accounts,
             Di!Unsubscribe(a) \/ \E f \in {None, "daily", "weekly"} : Di!Configure(a, f)
      PROVE  Di!StateOK'
  <2>1. /\ UNCHANGED <<v1, v3, v4, v5, v7, v9>> /\ (v10' = v10 \/ v10' = v10 + 1)
        /\ \E f \in {None, "daily", "weekly"} : v2' = [v2 EXCEPT ![a] = f]
        /\ v11' = v11 \/ v11' = [v11 EXCEPT ![a] = @ + 1]
    BY <1>2 DEF Di!Unsubscribe, Di!Configure
  <2>2. v2' \in [Accounts -> {None, "daily", "weekly"}] /\ v11' \in [Accounts -> Nat] /\ v10' \in Nat
    BY <1>0, <2>1
  <2> QED
    BY <1>0, <2>1, <2>2 DEF Di!StateOK, Di!TypeOK
<1>3. ASSUME NEW i \in Lambdas, NEW m \in v3, NEW failed \in BOOLEAN,
             Di!StartDispatch(i, m, failed) \/ Di!LoadAccount(i, m, failed)
      PROVE  Di!StateOK'
  <2>1. /\ v3' = (v3 \ {m}) \union {Di!Received(m)} /\ m.receives < MaxReceives
        /\ UNCHANGED <<v1, v2, v5, v7, v10, v11>> /\ (v9' = v9 \/ v9' = v9 + 1)
    BY <1>3, <1>f DEF Di!StartDispatch, Di!LoadAccount, Di!Receive
  <2>2. PICK r : /\ r = Di!Received(m) /\ r \in Di!Dispatches \union Di!Mailings /\ r.day = m.day
                 /\ m.for = None => r \in Di!Dispatches
                 /\ m.for # None => r \in Di!Mailings
    BY <1>0, <2>1, DiReceived
  <2>3. v3' \subseteq Di!Dispatches \union Di!Mailings /\ \A o \in v3' : o.day <= v1
    BY <1>0, <2>1, <2>2
  <2>4. PICK w : /\ v4' = [v4 EXCEPT ![i] = w] /\ w \in Di!Jobs
                 /\ w.pc = "send" => w.day <= v1
    <3>1. CASE Di!StartDispatch(i, m, failed)
      <4>1. PICK w : v4' = [v4 EXCEPT ![i] = w] /\ w = IF failed THEN [pc |-> "failed", message |-> r]
                       ELSE [pc |-> "batch", message |-> r, left |-> Di!Qualifying]
        BY <2>2, <3>1 DEF Di!StartDispatch, Di!Goto
      <4>2. m.for = None /\ Di!Qualifying \in SUBSET Accounts
        BY <3>1 DEF Di!StartDispatch, Di!Qualifying
      <4>3. w \in Di!Jobs /\ w.pc # "send"
        BY <2>2, <4>1, <4>2 DEF Di!Jobs
      <4> QED
        BY <4>1, <4>3
    <3>2. CASE Di!LoadAccount(i, m, failed)
      <4>1. PICK w : /\ v4' = [v4 EXCEPT ![i] = w]
                     /\ w = IF failed THEN [pc |-> "failed", message |-> r]
                              ELSE IF Di!StillDue(m.for) THEN [pc |-> "send", message |-> r, opted |-> v11[m.for], day |-> v1]
                              ELSE [pc |-> "skip", message |-> r]
        BY <2>2, <3>2 DEF Di!LoadAccount, Di!Goto
      <4>2. m.for # None /\ m.for \in Accounts /\ v11[m.for] \in Nat
        BY <1>0, <3>2 DEF Di!LoadAccount
      <4> DEFINE good == w \in Di!Jobs /\ (w.pc = "send" => w.day <= v1)
      <4>3. ASSUME w = [pc |-> "failed", message |-> r] PROVE good
        <5>1. w \in Di!Jobs /\ w.pc # "send"
          BY <2>2, <4>3 DEF Di!Jobs
        <5> QED
          BY <5>1
      <4>4. ASSUME w = [pc |-> "send", message |-> r, opted |-> v11[m.for], day |-> v1] PROVE good
        <5>1. w \in Di!Jobs /\ w.day = v1
          BY <1>0, <2>2, <4>2, <4>4 DEF Di!Jobs
        <5> QED
          BY <1>0, <5>1
      <4>5. ASSUME w = [pc |-> "skip", message |-> r] PROVE good
        <5>1. w \in Di!Jobs /\ w.pc # "send"
          BY <2>2, <4>2, <4>5 DEF Di!Jobs
        <5> QED
          BY <5>1
      <4>6. good
        BY <4>1, <4>3, <4>4, <4>5
      <4> QED
        BY <4>1, <4>6
    <3> QED
      BY <1>3, <3>1, <3>2
  <2> QED
    BY <1>0, <1>t, <2>1, <2>3, <2>4
<1>4. ASSUME NEW i \in Lambdas, NEW batch \in SUBSET Accounts, NEW accepted \in SUBSET Accounts,
             Di!SendBatch(i, batch, accepted)
      PROVE  Di!StateOK'
  <2> DEFINE w == v4[i]
  <2>1. w.message \in Di!Dispatches /\ w.left \subseteq Accounts /\ w.pc = "batch" /\ w \in Di!Jobs
    BY <1>0, <1>4, DiJobIs DEF Di!SendBatch
  <2>2. /\ v3' = v3 \union Di!Enqueued(w, accepted) /\ UNCHANGED <<v1, v2, v5, v7, v10, v11>>
        /\ (v9' = v9 \/ v9' = v9 + 1)
    BY <1>4, <1>f DEF Di!SendBatch
  <2>3. w.message.day \in 1 .. Days /\ w.message.day <= v1 /\ w.message.receives \in Nat
    BY <1>0, <1>b, <1>k, <2>1, DiMessageIs
  <2>4. PICK u : v4' = [v4 EXCEPT ![i] = u] /\ u = Di!AfterBatch(w, batch, accepted)
    BY <1>4 DEF Di!SendBatch, Di!Goto
  <2>5. u \in Di!Jobs /\ u.pc # "send"
    <3>1. CASE accepted = batch
      <4>1. u = [w EXCEPT !.left = @ \ batch]
        BY <2>4, <3>1 DEF Di!AfterBatch
      <4>2. w \in [pc : {"batch"}, message : Di!Dispatches, left : SUBSET Accounts]
        BY <2>1, <1>i DEF Di!Jobs
      <4>3. u \in [pc : {"batch"}, message : Di!Dispatches, left : SUBSET Accounts]
        BY <4>1, <4>2
      <4> QED
        BY <4>3 DEF Di!Jobs
    <3>2. CASE accepted # batch
      BY <2>1, <2>4, <3>2 DEF Di!AfterBatch, Di!Jobs
    <3> QED
      BY <3>1, <3>2
  <2>6. \A o \in Di!Enqueued(w, accepted) : o \in Di!Mailings /\ o.day <= v1
    <3>1. MaxReceives \in Nat
      BY <1>b
    <3> QED
      BY <2>3, <3>1 DEF Di!Enqueued, Di!SendFor, Di!Mailings
  <2>7. v3' \subseteq Di!Dispatches \union Di!Mailings /\ \A o \in v3' : o.day <= v1
    BY <1>0, <2>2, <2>6
  <2> QED
    BY <1>0, <1>t, <2>2, <2>4, <2>5, <2>7
<1>5. ASSUME NEW i \in Lambdas, Di!Delete(i), v9' = v9 \/ v9' = v9 + 1, UNCHANGED <<v1, v2, v5, v7, v10, v11>>
      PROVE  Di!StateOK'
  <2>1. v3' \subseteq v3 /\ v4' = [v4 EXCEPT ![i] = Di!Idle]
    BY <1>5 DEF Di!Delete, Di!Goto
  <2> QED
    BY <1>5, <1>d, <1>i, <1>t, <2>1
<1>6. ASSUME NEW i \in Lambdas, v4[i].pc \in {"batch", "send", "sent"}, UNCHANGED <<v1, v2, v3, v5, v7, v10, v11>>,
             Di!Goto(i, [pc |-> "failed", message |-> v4[i].message]), v9' = v9 \/ v9' = v9 + 1
      PROVE  Di!StateOK'
  <2>1. v4[i].message \in Di!Dispatches \union Di!Mailings
    BY <1>6, DiJobIs
  <2>2. PICK w : v4' = [v4 EXCEPT ![i] = w] /\ w = [pc |-> "failed", message |-> v4[i].message]
    BY <1>6 DEF Di!Goto
  <2>3. w \in Di!Jobs /\ w.pc # "send"
    BY <2>1, <2>2 DEF Di!Jobs
  <2> QED
    BY <1>6, <1>d, <1>t, <2>2, <2>3
<1>7. ASSUME NEW i \in Lambdas, Di!Send(i) PROVE Di!StateOK'
  <2> DEFINE w == v4[i]
             d == [for |-> w.message.for, day |-> w.message.day, on |-> w.day]
  <2>1. /\ w.pc = "send" /\ w.message \in Di!Mailings /\ w.message \in v3 /\ w.day \in 1 .. v1
    BY <1>7, <1>k, DiJobIs DEF Di!Send
  <2>2. w.message.for \in Accounts /\ w.message.day \in 1 .. v1
    BY <1>0, <2>1 DEF Di!Mailings
  <2>3. v5' = v5 \union {d} /\ v7' = v7 \union {w.message.for} /\ UNCHANGED <<v1, v2, v3, v9, v10, v11>>
    BY <1>7 DEF Di!Send
  <2>4. d \in [for : Accounts, day : 1 .. v1, on : 1 .. v1]
    BY <2>1, <2>2
  <2>5. PICK u : v4' = [v4 EXCEPT ![i] = u] /\ u = [pc |-> "sent", message |-> w.message]
    BY <1>7 DEF Di!Send, Di!Goto
  <2>6. u \in Di!Jobs /\ u.pc # "send"
    BY <2>1, <2>5 DEF Di!Jobs
  <2>7. v5' \subseteq [for : Accounts, day : 1 .. v1, on : 1 .. v1] /\ v7' \subseteq Accounts
    BY <1>0, <2>2, <2>3, <2>4
  <2> QED
    BY <1>d, <1>t, <2>3, <2>5, <2>6, <2>7
<1>8. ASSUME NEW i \in Lambdas, Di!ReturnError(i) PROVE Di!StateOK'
  <2>1. v3' \subseteq v3 /\ v4' = [v4 EXCEPT ![i] = Di!Idle] /\ UNCHANGED <<v1, v2, v5, v7, v9, v10, v11>>
    BY <1>8 DEF Di!ReturnError, Di!Goto
  <2> QED
    BY <1>8, <1>d, <1>i, <1>t, <2>1
<1>9. ASSUME NEW i \in Lambdas, Di!Step(i) PROVE Di!StateOK'
  <2>1. CASE Di!FinishDispatch(i) \/ Di!Skip(i) \/ Di!NothingToSend(i) \/ Di!Rejected(i) \/ Di!FinishSend(i)
    <3>1. Di!Delete(i) /\ UNCHANGED <<v1, v2, v5, v7, v10, v11>> /\ (v9' = v9 \/ v9' = v9 + 1)
      BY <2>1, <1>f DEF Di!FinishDispatch, Di!Skip, Di!NothingToSend, Di!Rejected, Di!FinishSend
    <3> QED
      BY <1>5, <1>9, <3>1
  <2>2. CASE Di!Transient(i) \/ Di!Crash(i)
    <3>1. /\ v4[i].pc \in {"batch", "send", "sent"} /\ UNCHANGED <<v1, v2, v3, v5, v7, v10, v11>>
          /\ Di!Goto(i, [pc |-> "failed", message |-> v4[i].message]) /\ (v9' = v9 \/ v9' = v9 + 1)
      BY <2>2, <1>f DEF Di!Transient, Di!Crash
    <3> QED
      BY <1>6, <1>9, <3>1
  <2>3. CASE Di!Send(i) \/ Di!ReturnError(i)
    BY <1>7, <1>8, <1>9, <2>3
  <2>4. CASE \E m \in v3, failed \in BOOLEAN : Di!StartDispatch(i, m, failed) \/ Di!LoadAccount(i, m, failed)
    BY <1>3, <1>9, <2>4
  <2>5. CASE \E batch, accepted \in SUBSET Accounts : Di!SendBatch(i, batch, accepted)
    BY <1>4, <1>9, <2>5
  <2> QED
    BY <1>9, <2>1, <2>2, <2>3, <2>4, <2>5 DEF Di!Step
<1> QED
  BY <1>1, <1>2, <1>9 DEF Di!Next

\* An invocation takes a message up: what it holds then.
LEMMA DiTakes ==
  ASSUME Di!StateOK, NEW i \in Lambdas, NEW m \in v3, NEW failed \in BOOLEAN,
         Di!StartDispatch(i, m, failed) \/ Di!LoadAccount(i, m, failed)
  PROVE  /\ v4[i] = Di!Idle /\ ~Di!Running(m) /\ m.receives < MaxReceives
         /\ v3' = (v3 \ {m}) \union {Di!Received(m)}
         /\ v4'[i].message = Di!Received(m) /\ v4'[i].pc \in {"failed", "batch", "send", "skip"}
         /\ v4'[i].pc = "failed" => v9' = v9 + 1
         /\ v9' = v9 \/ v9' = v9 + 1
         /\ v4'[i].pc = "batch" => m.for = None /\ v4'[i].left = Di!Qualifying
         /\ v4'[i].pc = "send" =>
              /\ m.for # None /\ Di!StillDue(m.for) /\ v4'[i].opted = v11[m.for] /\ v4'[i].day = v1
         /\ v4'[i].pc = "skip" => m.for # None /\ ~Di!StillDue(m.for)
         /\ \A j \in Lambdas : j # i => v4'[j] = v4[j]
         /\ v8' = IF m.day < v1 THEN v8 \union {<<m.for, m.day>>} ELSE v8
         /\ UNCHANGED <<v1, v2, v5, v6, v7, v10, v11>>
<1>0. v4 \in [Lambdas -> Di!Jobs]
  BY DEF Di!StateOK
<1>1. /\ v4[i] = Di!Idle /\ ~Di!Running(m) /\ m.receives < MaxReceives
      /\ v3' = (v3 \ {m}) \union {Di!Received(m)}
      /\ v8' = IF m.day < v1 THEN v8 \union {<<m.for, m.day>>} ELSE v8
      /\ UNCHANGED <<v1, v2, v5, v6, v7, v10, v11>> /\ v9' = IF failed THEN v9 + 1 ELSE v9
  BY DEF Di!StartDispatch, Di!LoadAccount, Di!Receive, Di!MayFail
<1>2. CASE Di!StartDispatch(i, m, failed)
  <2>1. PICK w : /\ w = IF failed THEN [pc |-> "failed", message |-> Di!Received(m)]
                        ELSE [pc |-> "batch", message |-> Di!Received(m), left |-> Di!Qualifying]
                 /\ v4' = [v4 EXCEPT ![i] = w]
    BY <1>2 DEF Di!StartDispatch, Di!Goto
  <2>2. v4'[i] = w /\ \A j \in Lambdas : j # i => v4'[j] = v4[j]
    BY <1>0, <2>1
  <2>3. m.for = None
    BY <1>2 DEF Di!StartDispatch
  <2>4. CASE failed
    BY <1>1, <2>1, <2>2, <2>3, <2>4
  <2>5. CASE ~failed
    BY <1>1, <2>1, <2>2, <2>3, <2>5
  <2> QED
    BY <2>4, <2>5
<1>3. CASE Di!LoadAccount(i, m, failed)
  <2>1. PICK w : /\ w = IF failed THEN [pc |-> "failed", message |-> Di!Received(m)]
                          ELSE IF Di!StillDue(m.for) THEN [pc |-> "send", message |-> Di!Received(m), opted |-> v11[m.for], day |-> v1]
                          ELSE [pc |-> "skip", message |-> Di!Received(m)]
                 /\ v4' = [v4 EXCEPT ![i] = w]
    BY <1>3 DEF Di!LoadAccount, Di!Goto
  <2>2. v4'[i] = w /\ \A j \in Lambdas : j # i => v4'[j] = v4[j]
    BY <1>0, <2>1
  <2>3. m.for # None
    BY <1>3 DEF Di!LoadAccount
  <2>4. CASE failed
    <3>1. w = [pc |-> "failed", message |-> Di!Received(m)]
      BY <1>3, <2>1, <2>4 DEF Di!LoadAccount, Di!MayFail
    <3> QED
      BY <1>1, <2>2, <2>3, <2>4, <3>1
  <2>5. CASE ~failed /\ Di!StillDue(m.for)
    <3>1. w = [pc |-> "send", message |-> Di!Received(m), opted |-> v11[m.for], day |-> v1]
      BY <2>1, <2>5
    <3> QED
      BY <1>1, <2>2, <2>3, <2>5, <3>1
  <2>6. CASE ~failed /\ ~Di!StillDue(m.for)
    <3>1. w = [pc |-> "skip", message |-> Di!Received(m)]
      BY <2>1, <2>6
    <3> QED
      BY <1>1, <2>2, <2>3, <2>6, <3>1
  <2> QED
    BY <2>4, <2>5, <2>6
<1> QED
  BY <1>2, <1>3

\* The messages of a batch: one for each account, of the dispatch's day and try.
LEMMA DiEnqueued ==
  ASSUME NEW w, NEW accepted \in SUBSET Accounts, NEW o \in Di!Enqueued(w, accepted)
  PROVE  /\ o.for \in accepted /\ o.for # None /\ o.day = w.message.day /\ o.n = w.message.receives
         /\ o.receives = 0 /\ o = Di!SendFor(o.for, o.day, o.n)
<1>1. PICK a \in accepted : o = Di!SendFor(a, w.message.day, w.message.receives)
  BY DEF Di!Enqueued
<1>2. o.for = a /\ o.day = w.message.day /\ o.n = w.message.receives /\ o.receives = 0
  BY <1>1 DEF Di!SendFor
<1> QED
  BY <1>1, <1>2, NoneAssumption

\* A dispatch queues a batch, or ends with what SQS took of it.
LEMMA DiQueues ==
  ASSUME Di!StateOK, Di!Kept, NEW i \in Lambdas, NEW batch \in SUBSET Accounts, NEW accepted \in SUBSET Accounts,
         Di!SendBatch(i, batch, accepted)
  PROVE  /\ v4[i].pc = "batch" /\ v4[i].message \in Di!Dispatches /\ v4[i].message \in v3
         /\ v4[i].message.for = None /\ v4[i].message.n = 0
         /\ v4[i].left \subseteq Accounts /\ batch \subseteq v4[i].left /\ accepted \subseteq batch
         /\ v3' = v3 \union Di!Enqueued(v4[i], accepted)
         /\ v4'[i].message = v4[i].message
         /\ accepted = batch => v4'[i].pc = "batch" /\ v4'[i].left = v4[i].left \ batch /\ v9' = v9
         /\ accepted # batch => v4'[i].pc = "failed" /\ v9' = v9 + 1
         /\ \A j \in Lambdas : j # i => v4'[j] = v4[j]
         /\ UNCHANGED <<v1, v2, v5, v6, v7, v8, v10, v11>>
<1> DEFINE w == v4[i]
<1>0. v4 \in [Lambdas -> Di!Jobs]
  BY DEF Di!StateOK
<1>1. w.message \in Di!Dispatches /\ w.left \subseteq Accounts /\ w.pc = "batch" /\ w \in Di!Jobs /\ w.message \in v3
  BY <1>0, DiJobIs DEF Di!SendBatch, Di!Kept, Di!Idle
<1>2. w.message.for = None /\ w.message.n = 0
  BY <1>1 DEF Di!Dispatches
<1>3. /\ batch \subseteq w.left /\ accepted \subseteq batch /\ v3' = v3 \union Di!Enqueued(w, accepted)
      /\ UNCHANGED <<v1, v2, v5, v6, v7, v8, v10, v11>>
  BY DEF Di!SendBatch, Di!Batches
<1>5. PICK u : v4' = [v4 EXCEPT ![i] = u] /\ u = Di!AfterBatch(w, batch, accepted)
  BY DEF Di!SendBatch, Di!Goto
<1>6. v4'[i] = u /\ \A j \in Lambdas : j # i => v4'[j] = v4[j]
  BY <1>0, <1>5
<1>7. /\ u.message = w.message
      /\ accepted = batch => u.pc = "batch" /\ u.left = w.left \ batch /\ v9' = v9
      /\ accepted # batch => u.pc = "failed" /\ v9' = v9 + 1
  <2>1. CASE accepted = batch
    <3>1. u = [w EXCEPT !.left = @ \ batch] /\ v9' = v9
      BY <1>5, <2>1 DEF Di!AfterBatch, Di!SendBatch, Di!MayFail
    <3>2. w \in [pc : {"batch"}, message : Di!Dispatches, left : SUBSET Accounts]
      BY <1>1 DEF Di!Jobs, Di!Idle
    <3> QED
      BY <2>1, <3>1, <3>2
  <2>2. CASE accepted # batch
    BY <1>5, <2>2 DEF Di!AfterBatch, Di!SendBatch, Di!MayFail
  <2> QED
    BY <2>1, <2>2
<1> QED
  BY <1>1, <1>2, <1>3, <1>6, <1>7

\* An invocation ends: its message is deleted or, after an error, comes back.
LEMMA DiEnds ==
  ASSUME Di!StateOK, Di!Kept, NEW i \in Lambdas,
         \/ Di!FinishDispatch(i) \/ Di!Skip(i) \/ Di!NothingToSend(i) \/ Di!Rejected(i) \/ Di!FinishSend(i)
         \/ Di!ReturnError(i)
  PROVE  /\ v4[i] # Di!Idle /\ v4'[i] = Di!Idle /\ v4[i].message \in v3
         /\ \A j \in Lambdas : j # i => v4'[j] = v4[j]
         /\ \/ v3' = v3 \ {v4[i].message}
            \/ v4[i].pc = "failed" /\ v3' = v3 /\ v8' = v8
         /\ v3' # v3 =>
              \/ v4[i].pc = "batch" /\ v4[i].left = {}
              \/ v4[i].pc = "skip" \/ v4[i].pc = "sent"
              \/ v8' = v8 \union {<<v4[i].message.for, v4[i].message.day>>}
         /\ v8 \subseteq v8' /\ (v9' = v9 \/ v9' = v9 + 1)
         /\ UNCHANGED <<v1, v2, v5, v6, v7, v10, v11>>
<1>0. v4 \in [Lambdas -> Di!Jobs]
  BY DEF Di!StateOK
<1>1. v4[i].pc \in {"batch", "skip", "send", "sent", "failed"}
  BY DEF Di!FinishDispatch, Di!Skip, Di!NothingToSend, Di!Rejected, Di!FinishSend, Di!ReturnError
<1>2. v4[i] # Di!Idle /\ v4[i].message \in v3
  BY <1>1 DEF Di!Idle, Di!Kept
<1>3. v4' = [v4 EXCEPT ![i] = Di!Idle] /\ UNCHANGED <<v1, v2, v5, v6, v7, v10, v11>>
  BY DEF Di!FinishDispatch, Di!Skip, Di!NothingToSend, Di!Rejected, Di!FinishSend, Di!ReturnError, Di!Delete, Di!Goto
<1>4. v4'[i] = Di!Idle /\ \A j \in Lambdas : j # i => v4'[j] = v4[j]
  BY <1>0, <1>3
<1>5. v8 \subseteq v8' /\ (v9' = v9 \/ v9' = v9 + 1)
  BY DEF Di!FinishDispatch, Di!Skip, Di!NothingToSend, Di!Rejected, Di!FinishSend, Di!ReturnError, Di!Excuse, Di!MayFail
<1>6. CASE Di!ReturnError(i)
  BY <1>2, <1>3, <1>4, <1>5, <1>6 DEF Di!ReturnError, Di!Excuse
<1>7. CASE Di!FinishDispatch(i) \/ Di!Skip(i) \/ Di!FinishSend(i)
  BY <1>2, <1>3, <1>4, <1>5, <1>7 DEF Di!FinishDispatch, Di!Skip, Di!FinishSend, Di!Delete
<1>8. CASE Di!NothingToSend(i) \/ Di!Rejected(i)
  BY <1>2, <1>3, <1>4, <1>5, <1>8 DEF Di!NothingToSend, Di!Rejected, Di!Delete, Di!Excuse
<1> QED
  BY <1>6, <1>7, <1>8

\* A mail goes out, or a fault ends the work on a message that stays queued.
LEMMA DiHolds ==
  ASSUME Di!StateOK, Di!Kept, NEW i \in Lambdas, Di!Transient(i) \/ Di!Crash(i) \/ Di!Send(i)
  PROVE  /\ v4[i] # Di!Idle /\ v4[i].pc \in {"batch", "send", "sent"} /\ v4[i].message \in v3
         /\ v4'[i] # Di!Idle /\ v4'[i].message = v4[i].message
         /\ \/ /\ v4'[i].pc = "failed" /\ v9' = v9 + 1 /\ UNCHANGED <<v5, v6>>
            \/ /\ Di!Send(i) /\ v4[i].pc = "send" /\ v4'[i].pc = "sent" /\ v9' = v9
               /\ LET d == [for |-> v4[i].message.for, day |-> v4[i].message.day, on |-> v4[i].day] IN
                  v5' = v5 \union {d} /\ v6' = IF d \in v5 THEN v6 \union {d} ELSE v6
         /\ \A j \in Lambdas : j # i => v4'[j] = v4[j]
         /\ UNCHANGED <<v1, v2, v3, v8, v10, v11>>
<1>0. v4 \in [Lambdas -> Di!Jobs]
  BY DEF Di!StateOK
<1>1. v4[i].pc \in {"batch", "send", "sent"}
  BY DEF Di!Transient, Di!Crash, Di!Send
<1>2. v4[i] # Di!Idle /\ v4[i].message \in v3
  BY <1>1 DEF Di!Idle, Di!Kept
<1>3. UNCHANGED <<v1, v2, v3, v8, v10, v11>>
  BY DEF Di!Transient, Di!Crash, Di!Send
<1>4. CASE Di!Transient(i) \/ Di!Crash(i)
  <2>1. PICK u : v4' = [v4 EXCEPT ![i] = u] /\ u = [pc |-> "failed", message |-> v4[i].message]
    BY <1>4 DEF Di!Transient, Di!Crash, Di!Goto
  <2>2. v9' = v9 + 1 /\ UNCHANGED <<v5, v6>>
    BY <1>4 DEF Di!Transient, Di!Crash, Di!MayFail
  <2>3. v4'[i] = u /\ \A j \in Lambdas : j # i => v4'[j] = v4[j]
    BY <1>0, <2>1
  <2>4. u # Di!Idle /\ u.pc = "failed" /\ u.message = v4[i].message
    BY <2>1 DEF Di!Idle
  <2> QED
    BY <1>1, <1>2, <1>3, <2>2, <2>3, <2>4
<1>5. CASE Di!Send(i)
  <2>1. PICK u : v4' = [v4 EXCEPT ![i] = u] /\ u = [pc |-> "sent", message |-> v4[i].message]
    BY <1>5 DEF Di!Send, Di!Goto
  <2>2. /\ v9' = v9 /\ v4[i].pc = "send"
        /\ LET d == [for |-> v4[i].message.for, day |-> v4[i].message.day, on |-> v4[i].day] IN
           v5' = v5 \union {d} /\ v6' = IF d \in v5 THEN v6 \union {d} ELSE v6
    BY <1>5 DEF Di!Send
  <2>3. v4'[i] = u /\ \A j \in Lambdas : j # i => v4'[j] = v4[j]
    BY <1>0, <2>1
  <2>4. u # Di!Idle /\ u.pc = "sent" /\ u.message = v4[i].message
    BY <2>1 DEF Di!Idle
  <2> QED
    BY <1>1, <1>2, <1>3, <1>5, <2>2, <2>3, <2>4
<1> QED
  BY <1>4, <1>5

\* A message is in one invocation's hands, and no two are alike.
LEMMA DiKeeps == Di!StateOK /\ Di!Kept /\ Di!TriesDiffer /\ Di!Next => (Di!Kept /\ Di!TriesDiffer)'
<1> SUFFICES ASSUME Di!StateOK, Di!Kept, Di!TriesDiffer, Di!Next PROVE Di!Kept' /\ Di!TriesDiffer'
  OBVIOUS
<1>0. /\ v3 \subseteq Di!Dispatches \union Di!Mailings /\ v1 \in Nat
      /\ \A m \in v3 : m.day <= v1 /\ m.day \in Nat /\ m.n \in Nat /\ m.receives \in Nat
      /\ \A m \in v3 : m.for = None => m.n = 0
  <2>1. v1 \in 1 .. Days /\ Days \in Nat /\ MaxReceives \in Nat
    BY BoundsAssumption DEF Di!StateOK, Di!TypeOK
  <2>2. v3 \subseteq Di!Dispatches \union Di!Mailings /\ \A m \in v3 : m.day \in 1 .. v1
    BY DEF Di!StateOK, Di!TypeOK
  <2> QED
    BY <2>1, <2>2, DiMessageIs
<1>1. /\ \A i \in Lambdas : v4[i] # Di!Idle => v4[i].message \in v3 /\ v4[i].message.receives > 0
      /\ \A i, j \in Lambdas : i # j /\ v4[i] # Di!Idle /\ v4[j] # Di!Idle => v4[i].message # v4[j].message
      /\ \A m, o \in v3 : m.for = o.for /\ m.day = o.day /\ m.n = o.n => m = o
  BY DEF Di!Kept
<1>2. /\ \A m, o \in v3 : m.for = None /\ o.for # None /\ m.day = o.day => o.n <= m.receives
      /\ \A i \in Lambdas, o \in v3 : v4[i].pc = "batch" /\ o.for \in v4[i].left /\ o.day = v4[i].message.day =>
           o.n < v4[i].message.receives
  BY DEF Di!TriesDiffer
<1>p. Di!Idle.pc = "idle"
  BY DEF Di!Idle
<1>l. \A i \in Lambdas : v4[i].pc = "batch" => None \notin v4[i].left /\ v4[i].message \in Di!Dispatches
  BY DiJobIs, NoneAssumption
<1>3. CASE Di!Midnight
  <2>a. PICK k : k = Di!DispatchOf(v1 + 1)
    OBVIOUS
  <2>1. k = Di!DispatchOf(v1 + 1) /\ k.for = None /\ k.day = v1 + 1 /\ k.n = 0 /\ k.receives = 0
    BY <2>a DEF Di!DispatchOf
  <2>2. v3' = v3 \union {k} /\ v4' = v4
    BY <1>3, <2>1 DEF Di!Midnight
  <2>3. k \notin v3 /\ \A m \in v3 : m.day # k.day
    BY <1>0, <2>1
  <2>4. Di!Kept'
    <3>1. \A m, o \in v3' : m.for = o.for /\ m.day = o.day /\ m.n = o.n => m = o
      BY <1>1, <2>2, <2>3
    <3> QED
      BY <1>1, <2>2, <3>1 DEF Di!Kept
  <2>5. Di!TriesDiffer'
    <3>1. \A m, o \in v3' : m.for = None /\ o.for # None /\ m.day = o.day => o.n <= m.receives
      BY <1>2, <2>1, <2>2, <2>3
    <3>2. ASSUME NEW i \in Lambdas, NEW o \in v3', v4'[i].pc = "batch", o.for \in v4'[i].left, o.day = v4'[i].message.day
          PROVE  o.n < v4'[i].message.receives
      BY <1>2, <1>l, <2>1, <2>2, <3>2
    <3> QED
      BY <3>1, <3>2 DEF Di!TriesDiffer
  <2> QED
    BY <2>4, <2>5
<1>4. ASSUME UNCHANGED <<v3, v4>> PROVE Di!Kept' /\ Di!TriesDiffer'
  BY <1>1, <1>2, <1>4 DEF Di!Kept, Di!TriesDiffer
<1>5. ASSUME NEW i \in Lambdas, NEW m \in v3, NEW failed \in BOOLEAN,
             Di!StartDispatch(i, m, failed) \/ Di!LoadAccount(i, m, failed)
      PROVE  Di!Kept' /\ Di!TriesDiffer'
  <2>0. /\ v4[i] = Di!Idle /\ ~Di!Running(m) /\ m.receives < MaxReceives
        /\ v3' = (v3 \ {m}) \union {Di!Received(m)}
        /\ v4'[i].message = Di!Received(m) /\ v4'[i].pc \in {"failed", "batch", "send", "skip"}
        /\ v4'[i].pc = "batch" => m.for = None /\ v4'[i].left = Di!Qualifying
        /\ \A j \in Lambdas : j # i => v4'[j] = v4[j]
    BY <1>5, DiTakes
  <2>1. PICK r : /\ r = Di!Received(m) /\ r.for = m.for /\ r.day = m.day /\ r.n = m.n /\ r.receives = m.receives + 1
    BY <1>0, <2>0, DiReceived
  <2>2. v3' = (v3 \ {m}) \union {r} /\ v4'[i].message = r
    BY <2>0, <2>1
  <2>3. \A j \in Lambdas : j # i /\ v4[j] # Di!Idle => v4[j].message \in v3 \ {m} /\ v4[j].message # r
    BY <1>1, <2>0, <2>1 DEF Di!Running
  <2>4. Di!Kept'
    <3>1. \A j \in Lambdas : v4'[j] # Di!Idle => v4'[j].message \in v3' /\ v4'[j].message.receives > 0
      BY <1>0, <1>1, <2>0, <2>1, <2>2, <2>3
    <3>2. \A j, l \in Lambdas : j # l /\ v4'[j] # Di!Idle /\ v4'[l] # Di!Idle => v4'[j].message # v4'[l].message
      BY <1>1, <2>0, <2>2, <2>3
    <3>3. \A u, o \in v3' : u.for = o.for /\ u.day = o.day /\ u.n = o.n => u = o
      BY <1>1, <2>1, <2>2
    <3> QED
      BY <3>1, <3>2, <3>3 DEF Di!Kept
  <2>5. Di!TriesDiffer'
    <3>1. \A u, o \in v3' : u.for = None /\ o.for # None /\ u.day = o.day => o.n <= u.receives
      BY <1>0, <1>2, <2>1, <2>2
    <3>2. ASSUME NEW j \in Lambdas, NEW o \in v3', v4'[j].pc = "batch", o.for \in v4'[j].left, o.day = v4'[j].message.day
          PROVE  o.n < v4'[j].message.receives
      <4>1. CASE j = i
        <5>1. o.for # None /\ m.for = None
          BY <2>0, <3>2, <4>1, NoneAssumption DEF Di!Qualifying
        <5>2. o \in v3 /\ o.n <= m.receives
          BY <1>2, <2>1, <2>2, <3>2, <4>1, <5>1
        <5> QED
          BY <1>0, <2>1, <2>2, <4>1, <5>2
      <4>2. CASE j # i
        <5>1. v4'[j] = v4[j]
          BY <2>0, <4>2
        <5>2. PICK u \in v3 : u.for = o.for /\ u.day = o.day /\ u.n = o.n
          BY <2>1, <2>2
        <5> QED
          BY <1>2, <3>2, <5>1, <5>2
      <4> QED
        BY <4>1, <4>2
    <3> QED
      BY <3>1, <3>2 DEF Di!TriesDiffer
  <2> QED
    BY <2>4, <2>5
<1>6. ASSUME NEW i \in Lambdas, NEW batch \in SUBSET Accounts, NEW accepted \in SUBSET Accounts,
             Di!SendBatch(i, batch, accepted)
      PROVE  Di!Kept' /\ Di!TriesDiffer'
  <2> DEFINE w == v4[i]
  <2>a. /\ w.pc = "batch" /\ w.message \in v3 /\ w.message.for = None /\ w.message.n = 0
        /\ w.left \subseteq Accounts /\ batch \subseteq w.left /\ accepted \subseteq batch
    BY <1>6, DiQueues
  <2>b. /\ v4'[i].message = w.message
        /\ accepted = batch => v4'[i].pc = "batch" /\ v4'[i].left = w.left \ batch
        /\ accepted # batch => v4'[i].pc = "failed"
    BY <1>6, DiQueues
  <2>c. \A j \in Lambdas : j # i => v4'[j] = v4[j]
    BY <1>6, DiQueues
  <2>0. /\ w.pc = "batch" /\ w.message \in v3 /\ w.message.for = None /\ w.message.n = 0
        /\ w.left \subseteq Accounts /\ batch \subseteq w.left /\ accepted \subseteq batch
        /\ v4'[i].message = w.message
        /\ accepted = batch => v4'[i].pc = "batch" /\ v4'[i].left = w.left \ batch
        /\ accepted # batch => v4'[i].pc = "failed"
        /\ \A j \in Lambdas : j # i => v4'[j] = v4[j]
    BY <2>a, <2>b, <2>c
  <2> DEFINE new == Di!Enqueued(w, accepted)
  <2>1. /\ v3' = v3 \union new
        /\ \A o \in new : /\ o.for \in accepted /\ o.for # None /\ o.day = w.message.day
                          /\ o.n = w.message.receives /\ o = Di!SendFor(o.for, o.day, o.n)
    <3>1. v3' = v3 \union new
      BY <1>6, DiQueues
    <3>2. ASSUME NEW o \in new
          PROVE  /\ o.for \in accepted /\ o.for # None /\ o.day = w.message.day
                 /\ o.n = w.message.receives /\ o = Di!SendFor(o.for, o.day, o.n)
      BY <3>2, DiEnqueued
    <3> QED
      BY <3>1, <3>2
  <2> HIDE DEF new
  <2>2. \A o \in new, m \in v3 : m.for = o.for /\ m.day = o.day => m.n < o.n
    BY <1>2, <2>0, <2>1
  <2>3. w # Di!Idle
    BY <1>p, <2>0
  <2>4. Di!Kept'
    <3>1. \A j \in Lambdas : v4'[j] # Di!Idle => v4'[j].message \in v3' /\ v4'[j].message.receives > 0
      BY <1>1, <2>0, <2>1, <2>3
    <3>2. \A j, l \in Lambdas : j # l /\ v4'[j] # Di!Idle /\ v4'[l] # Di!Idle => v4'[j].message # v4'[l].message
      BY <1>1, <2>0, <2>3
    <3>3. \A m, o \in v3' : m.for = o.for /\ m.day = o.day /\ m.n = o.n => m = o
      <4>1. \A m, o \in new : m.for = o.for /\ m.day = o.day /\ m.n = o.n => m = o
        BY <2>1
      <4>2. \A m \in v3, o \in new : ~(m.for = o.for /\ m.day = o.day /\ m.n = o.n)
        BY <1>0, <2>0, <2>1, <2>2
      <4> QED
        BY <1>1, <2>1, <4>1, <4>2
    <3> QED
      BY <3>1, <3>2, <3>3 DEF Di!Kept
  <2>5. Di!TriesDiffer'
    <3>0. \A m \in v3 : m.for = None /\ m.day = w.message.day => m = w.message
      BY <1>0, <1>1, <2>0
    <3>1. \A m, o \in v3' : m.for = None /\ o.for # None /\ m.day = o.day => o.n <= m.receives
      BY <1>0, <1>2, <2>0, <2>1, <3>0
    <3>2. ASSUME NEW j \in Lambdas, NEW o \in v3', v4'[j].pc = "batch", o.for \in v4'[j].left, o.day = v4'[j].message.day
          PROVE  o.n < v4'[j].message.receives
      <4>1. CASE j = i
        <5>1. accepted = batch /\ v4'[j].left = w.left \ batch /\ v4'[j].message = w.message
          BY <2>0, <3>2, <4>1
        <5>2. o \in v3
          BY <2>1, <3>2, <5>1
        <5> QED
          BY <1>2, <2>0, <3>2, <5>1, <5>2
      <4>2. CASE j # i
        <5>1. v4'[j] = v4[j] /\ v4[j] # Di!Idle
          BY <1>p, <2>0, <3>2, <4>2
        <5>2. v4[j].message # w.message /\ v4[j].message \in v3 /\ v4[j].message.for = None
          BY <1>1, <1>l, <2>3, <3>2, <4>2, <5>1 DEF Di!Dispatches
        <5>3. o \in v3
          BY <2>1, <3>0, <3>2, <5>1, <5>2
        <5> QED
          BY <1>2, <3>2, <5>1, <5>3
      <4> QED
        BY <4>1, <4>2
    <3> QED
      BY <3>1, <3>2 DEF Di!TriesDiffer
  <2> QED
    BY <2>4, <2>5
<1>7. ASSUME NEW i \in Lambdas,
             \/ Di!FinishDispatch(i) \/ Di!Skip(i) \/ Di!NothingToSend(i) \/ Di!Rejected(i) \/ Di!FinishSend(i)
             \/ Di!ReturnError(i)
      PROVE  Di!Kept' /\ Di!TriesDiffer'
  <2>0. /\ v4[i] # Di!Idle /\ v4'[i] = Di!Idle
        /\ \A j \in Lambdas : j # i => v4'[j] = v4[j]
        /\ v3' = v3 \ {v4[i].message} \/ v3' = v3
    BY <1>7, DiEnds
  <2>1. v3' \subseteq v3 /\ \A j \in Lambdas : v4'[j] = Di!Idle \/ v4'[j] = v4[j]
    BY <2>0
  <2>2. Di!Kept'
    <3>1. \A j \in Lambdas : v4'[j] # Di!Idle => v4'[j].message \in v3' /\ v4'[j].message.receives > 0
      BY <1>1, <2>0
    <3> QED
      BY <1>1, <2>1, <3>1 DEF Di!Kept
  <2>3. Di!TriesDiffer'
    BY <1>2, <1>p, <2>1 DEF Di!TriesDiffer
  <2> QED
    BY <2>2, <2>3
<1>8. ASSUME NEW i \in Lambdas, Di!Transient(i) \/ Di!Crash(i) \/ Di!Send(i)
      PROVE  Di!Kept' /\ Di!TriesDiffer'
  <2>0. /\ v4[i] # Di!Idle /\ v4'[i].message = v4[i].message /\ v4'[i].pc \in {"failed", "sent"} /\ v3' = v3
        /\ \A j \in Lambdas : j # i => v4'[j] = v4[j]
    BY <1>8, DiHolds
  <2>1. Di!Kept'
    BY <1>1, <2>0 DEF Di!Kept
  <2>2. Di!TriesDiffer'
    BY <1>2, <2>0 DEF Di!TriesDiffer
  <2> QED
    BY <2>1, <2>2
<1>9. ASSUME NEW i \in Lambdas, Di!Step(i) PROVE Di!Kept' /\ Di!TriesDiffer'
  <2>1. CASE \E m \in v3, failed \in BOOLEAN : Di!StartDispatch(i, m, failed) \/ Di!LoadAccount(i, m, failed)
    BY <1>5, <1>9, <2>1
  <2>2. CASE \E batch, accepted \in SUBSET Accounts : Di!SendBatch(i, batch, accepted)
    BY <1>6, <1>9, <2>2
  <2> QED
    BY <1>7, <1>8, <1>9, <2>1, <2>2 DEF Di!Step
<1>10. ASSUME NEW a \in Accounts, Di!Unsubscribe(a) \/ \E f \in {None, "daily", "weekly"} : Di!Configure(a, f)
       PROVE  UNCHANGED <<v3, v4>>
  BY <1>10 DEF Di!Unsubscribe, Di!Configure
<1> QED
  BY <1>3, <1>4, <1>9, <1>10 DEF Di!Next

\* The worker's reading is as old as what it counted.
LEMMA DiSilent == Di!StateOK /\ Di!Kept /\ Di!Silent /\ Di!Next => Di!Silent'
<1> SUFFICES ASSUME Di!StateOK, Di!Kept, Di!Silent, Di!Next, NEW j \in Lambdas, v4'[j].pc = "send"
             PROVE  /\ v4'[j].opted <= v11'[v4'[j].message.for]
                    /\ v2'[v4'[j].message.for] # None \/ v4'[j].opted < v11'[v4'[j].message.for]
  BY DEF Di!Silent
<1>0. /\ v11 \in [Accounts -> Nat] /\ v2 \in [Accounts -> {None, "daily", "weekly"}]
      /\ v3 \subseteq Di!Dispatches \union Di!Mailings
  BY DEF Di!StateOK, Di!TypeOK
<1>1. ASSUME v4[j].pc = "send"
      PROVE  /\ v4[j].opted <= v11[v4[j].message.for] /\ v4[j].opted \in Nat
             /\ v2[v4[j].message.for] # None \/ v4[j].opted < v11[v4[j].message.for]
             /\ v4[j].message.for \in Accounts
  BY <1>1, DiJobIs DEF Di!Silent, Di!Mailings
<1>2. CASE v4'[j] = v4[j] /\ UNCHANGED <<v2, v11>>
  BY <1>1, <1>2
<1>3. ASSUME NEW i \in Lambdas, NEW m \in v3, NEW failed \in BOOLEAN,
             Di!StartDispatch(i, m, failed) \/ Di!LoadAccount(i, m, failed), i = j
      PROVE  /\ v4'[j].opted <= v11'[v4'[j].message.for]
             /\ v2'[v4'[j].message.for] # None \/ v4'[j].opted < v11'[v4'[j].message.for]
  <2>1. /\ m.for # None /\ Di!StillDue(m.for) /\ v4'[j].opted = v11[m.for] /\ m.receives < MaxReceives
        /\ v4'[j].message = Di!Received(m) /\ UNCHANGED <<v2, v11>>
    BY <1>3, DiTakes
  <2>2. m.for \in Accounts /\ v4'[j].message.for = m.for
    BY <1>0, <2>1, DiMessageIs, DiReceived
  <2> QED
    BY <1>0, <2>1, <2>2 DEF Di!StillDue
<1>4. ASSUME NEW a \in Accounts, Di!Unsubscribe(a) \/ \E f \in {None, "daily", "weekly"} : Di!Configure(a, f)
      PROVE  /\ v4'[j].opted <= v11'[v4'[j].message.for]
             /\ v2'[v4'[j].message.for] # None \/ v4'[j].opted < v11'[v4'[j].message.for]
  <2>1. v4' = v4
    BY <1>4 DEF Di!Unsubscribe, Di!Configure
  <2>2. PICK b \in Accounts : b = v4[j].message.for
    BY <1>1, <2>1
  <2>3. CASE v11' = [v11 EXCEPT ![a] = @ + 1] /\ v2' = [v2 EXCEPT ![a] = None]
    BY <1>0, <1>1, <2>1, <2>2, <2>3
  <2>4. CASE v11' = v11 /\ \E f : f # None /\ v2' = [v2 EXCEPT ![a] = f]
    BY <1>0, <1>1, <2>1, <2>2, <2>4
  <2> QED
    BY <1>4, <2>3, <2>4 DEF Di!Unsubscribe, Di!Configure
<1>5. ASSUME NEW i \in Lambdas, Di!Step(i)
      PROVE  /\ v4'[j].opted <= v11'[v4'[j].message.for]
             /\ v2'[v4'[j].message.for] # None \/ v4'[j].opted < v11'[v4'[j].message.for]
  <2>1. CASE \E m \in v3, failed \in BOOLEAN : Di!StartDispatch(i, m, failed) \/ Di!LoadAccount(i, m, failed)
    <3>1. PICK m \in v3 : \E failed \in BOOLEAN : Di!StartDispatch(i, m, failed) \/ Di!LoadAccount(i, m, failed)
      BY <2>1
    <3>2. PICK failed \in BOOLEAN : Di!StartDispatch(i, m, failed) \/ Di!LoadAccount(i, m, failed)
      BY <3>1
    <3>3. CASE i = j
      BY <1>3, <1>5, <3>2, <3>3
    <3>4. CASE i # j
      <4>1. v4'[j] = v4[j] /\ UNCHANGED <<v2, v11>>
        BY <1>5, <3>2, <3>4, DiTakes
      <4> QED
        BY <1>2, <4>1
    <3> QED
      BY <3>3, <3>4
  <2>2. CASE \E batch, accepted \in SUBSET Accounts : Di!SendBatch(i, batch, accepted)
    <3>1. PICK batch \in SUBSET Accounts : \E accepted \in SUBSET Accounts : Di!SendBatch(i, batch, accepted)
      BY <2>2
    <3>2. PICK accepted \in SUBSET Accounts : Di!SendBatch(i, batch, accepted)
      BY <3>1
    <3>3. v4'[i].pc # "send" /\ (i # j => v4'[j] = v4[j]) /\ UNCHANGED <<v2, v11>>
      BY <1>5, <3>2, DiQueues
    <3> QED
      BY <1>2, <3>3
  <2>3. CASE \/ Di!FinishDispatch(i) \/ Di!Skip(i) \/ Di!NothingToSend(i) \/ Di!Rejected(i) \/ Di!FinishSend(i)
             \/ Di!ReturnError(i)
    <3>1. v4'[i] = Di!Idle /\ (i # j => v4'[j] = v4[j]) /\ UNCHANGED <<v2, v11>>
      BY <1>5, <2>3, DiEnds
    <3> QED
      BY <1>2, <3>1 DEF Di!Idle
  <2>4. CASE Di!Transient(i) \/ Di!Crash(i) \/ Di!Send(i)
    <3>1. v4'[i].pc \in {"failed", "sent"} /\ (i # j => v4'[j] = v4[j]) /\ UNCHANGED <<v2, v11>>
      BY <1>5, <2>4, DiHolds
    <3> QED
      BY <1>2, <3>1
  <2> QED
    BY <1>5, <2>1, <2>2, <2>3, <2>4 DEF Di!Step
<1>6. CASE Di!Midnight
  BY <1>2, <1>6 DEF Di!Midnight
<1> QED
  BY <1>4, <1>5, <1>6 DEF Di!Next

\* Without a fault nothing is queued or sent a second time.
LEMMA DiOnce == Di!StateOK /\ Di!Kept /\ Di!TriesDiffer /\ Di!OnceEach /\ Di!Next => Di!OnceEach'
<1> SUFFICES ASSUME Di!StateOK, Di!Kept, Di!TriesDiffer, Di!OnceEach, Di!Next, v9' = 0 PROVE Di!OnceEach'
  BY DEF Di!OnceEach
<1>0. /\ v3 \subseteq Di!Dispatches \union Di!Mailings /\ v1 \in Nat /\ v9 \in Nat
      /\ \A m \in v3 : /\ m.day \in Nat /\ m.day <= v1 /\ m.for \in Accounts \union {None}
                       /\ m.receives \in Nat /\ (m.for = None => m.n = 0)
      /\ \A s \in v5 : s.for \in Accounts /\ s.day <= v1 /\ s.day \in Nat
  <2>1. v1 \in 1 .. Days /\ Days \in Nat /\ MaxReceives \in Nat /\ v9 \in Nat
    BY BoundsAssumption DEF Di!StateOK, Di!TypeOK
  <2>2. v3 \subseteq Di!Dispatches \union Di!Mailings /\ \A m \in v3 : m.day \in 1 .. v1
    BY DEF Di!StateOK, Di!TypeOK
  <2>3. \A s \in v5 : s.for \in Accounts /\ s.day \in 1 .. v1
    BY DEF Di!StateOK
  <2> QED
    BY <2>1, <2>2, <2>3, DiMessageIs
<1>n. None \notin Accounts /\ Di!Idle.pc = "idle"
  BY NoneAssumption DEF Di!Idle
<1>k. /\ \A i \in Lambdas : v4[i] # Di!Idle => v4[i].message \in v3 /\ v4[i].message.receives > 0
      /\ \A i, j \in Lambdas : i # j /\ v4[i] # Di!Idle /\ v4[j] # Di!Idle => v4[i].message # v4[j].message
      /\ \A m, o \in v3 : m.for = o.for /\ m.day = o.day /\ m.n = o.n => m = o
  BY DEF Di!Kept
<1>l. \A i \in Lambdas : v4[i].pc = "batch" => v4[i].left \subseteq Accounts /\ v4[i].message.for = None
  BY DiJobIs DEF Di!Dispatches
<1>s. ASSUME NEW j \in Lambdas, NEW l \in Lambdas, v4[j].pc = "batch", v4[l].pc = "batch", v4[j].message.day = v4[l].message.day
      PROVE  j = l
  BY <1>0, <1>k, <1>l, <1>n, <1>s
<1>1. v9 = 0 =>
      /\ v6 = {} /\ \A i \in Lambdas : v4[i].pc # "failed"
      /\ \A m \in v3 : m.receives = 0 \/ Di!Running(m)
      /\ \A m, o \in v3 : m.for # None /\ m.for = o.for /\ m.day = o.day => m = o
      /\ \A m \in v3 : m.for = None /\ m.receives = 0 =>
           (\A o \in v3 : o.day = m.day => o.for = None) /\ \A s \in v5 : s.day # m.day
      /\ \A i \in Lambdas : v4[i].pc = "batch" =>
           \A x \in v3 \union v5 : x.for \in v4[i].left => x.day # v4[i].message.day
      /\ \A o \in v3, s \in v5 : s.for = o.for /\ s.day = o.day =>
           \E i \in Lambdas : v4[i].pc = "sent" /\ v4[i].message = o
  BY DEF Di!OnceEach
<1>g. ASSUME v6' = {}, \A i \in Lambdas : v4'[i].pc # "failed",
             \A m \in v3' : m.receives = 0 \/ Di!Running(m)',
             \A m, o \in v3' : m.for # None /\ m.for = o.for /\ m.day = o.day => m = o,
             \A m \in v3' : m.for = None /\ m.receives = 0 =>
               (\A o \in v3' : o.day = m.day => o.for = None) /\ \A s \in v5' : s.day # m.day,
             \A i \in Lambdas : v4'[i].pc = "batch" =>
               \A x \in v3' \union v5' : x.for \in v4'[i].left => x.day # v4'[i].message.day,
             \A o \in v3', s \in v5' : s.for = o.for /\ s.day = o.day =>
               \E i \in Lambdas : v4'[i].pc = "sent" /\ v4'[i].message = o
      PROVE  Di!OnceEach'
  BY <1>g DEF Di!OnceEach
<1>r. \A m : Di!Running(m) <=> \E i \in Lambdas : v4[i] # Di!Idle /\ v4[i].message = m
  BY DEF Di!Running
<1>q. \A m : Di!Running(m)' <=> \E i \in Lambdas : v4'[i] # Di!Idle /\ v4'[i].message = m
  BY DEF Di!Running
<1>2. CASE UNCHANGED <<v3, v4, v5, v6, v9>>
  BY <1>2 DEF Di!OnceEach, Di!Running
<1>3. CASE Di!Midnight
  <2>a. PICK k : k = Di!DispatchOf(v1 + 1)
    OBVIOUS
  <2>0. k.for = None /\ k.day = v1 + 1 /\ k.n = 0 /\ k.receives = 0
    BY <2>a DEF Di!DispatchOf
  <2>1. v3' = v3 \union {k} /\ UNCHANGED <<v4, v5, v6>> /\ v9 = 0
    BY <1>3, <2>a DEF Di!Midnight
  <2>2. \A m \in v3 \union v5 : m.day # k.day
    BY <1>0, <2>0
  <2>3. \A m \in v3' : m.receives = 0 \/ Di!Running(m)'
    BY <1>1, <1>r, <1>q, <2>0, <2>1
  <2>4. \A m, o \in v3' : m.for # None /\ m.for = o.for /\ m.day = o.day => m = o
    BY <1>1, <2>0, <2>1
  <2>5. \A m \in v3' : m.for = None /\ m.receives = 0 =>
          (\A o \in v3' : o.day = m.day => o.for = None) /\ \A s \in v5' : s.day # m.day
    BY <1>1, <2>0, <2>1, <2>2
  <2>6. \A i \in Lambdas : v4'[i].pc = "batch" =>
          \A x \in v3' \union v5' : x.for \in v4'[i].left => x.day # v4'[i].message.day
    BY <1>1, <1>l, <1>n, <2>0, <2>1
  <2>7. \A o \in v3', s \in v5' : s.for = o.for /\ s.day = o.day =>
          \E i \in Lambdas : v4'[i].pc = "sent" /\ v4'[i].message = o
    BY <1>1, <2>1, <2>2
  <2> QED
    BY <1>1, <1>g, <2>1, <2>3, <2>4, <2>5, <2>6, <2>7
<1>4. ASSUME NEW i \in Lambdas, NEW m \in v3, NEW failed \in BOOLEAN,
             Di!StartDispatch(i, m, failed) \/ Di!LoadAccount(i, m, failed)
      PROVE  Di!OnceEach'
  <2>0. /\ v4[i] = Di!Idle /\ ~Di!Running(m) /\ m.receives < MaxReceives
        /\ v3' = (v3 \ {m}) \union {Di!Received(m)}
        /\ v4'[i].message = Di!Received(m) /\ v4'[i].pc \in {"failed", "batch", "send", "skip"}
        /\ v4'[i].pc = "failed" => v9' = v9 + 1
        /\ v9' = v9 \/ v9' = v9 + 1
        /\ v4'[i].pc = "batch" => m.for = None /\ v4'[i].left = Di!Qualifying
        /\ \A j \in Lambdas : j # i => v4'[j] = v4[j]
        /\ UNCHANGED <<v5, v6>>
    BY <1>4, DiTakes
  <2>1. PICK r : /\ r = Di!Received(m) /\ r.for = m.for /\ r.day = m.day /\ r.n = m.n /\ r.receives = m.receives + 1
    BY <1>0, <2>0, DiReceived
  <2>2. v3' = (v3 \ {m}) \union {r} /\ v4'[i].message = r
    BY <2>0, <2>1
  <2>3. v9 = 0 /\ v4'[i].pc # "failed" /\ v4'[i] # Di!Idle
    BY <1>0, <1>n, <2>0
  <2>4. m.receives = 0 /\ r.receives = 1
    BY <1>1, <2>0, <2>1, <2>3
  <2>5. \A o \in v3' : o.receives = 0 \/ Di!Running(o)'
    <3>1. Di!Running(r)'
      BY <1>q, <2>2, <2>3
    <3>2. ASSUME NEW o \in v3 PROVE o.receives = 0 \/ Di!Running(o)'
      BY <1>1, <1>r, <1>q, <2>0, <2>3
    <3> QED
      BY <2>2, <3>1, <3>2
  <2>6. \A o, u \in v3' : o.for # None /\ o.for = u.for /\ o.day = u.day => o = u
    BY <1>1, <2>1, <2>2, <2>3
  <2>7. \A o \in v3' : o.for = None /\ o.receives = 0 =>
          (\A u \in v3' : u.day = o.day => u.for = None) /\ \A s \in v5' : s.day # o.day
    BY <1>1, <2>0, <2>1, <2>2, <2>3, <2>4
  <2>8. ASSUME NEW j \in Lambdas, v4'[j].pc = "batch", NEW x \in v3' \union v5', x.for \in v4'[j].left
        PROVE  x.day # v4'[j].message.day
    <3>1. CASE j = i
      <4>1. m.for = None /\ x.for \in Accounts
        BY <2>0, <2>8, <3>1 DEF Di!Qualifying
      <4>2. \A o \in v3 : o.day = m.day => o.for = None
        BY <1>1, <2>3, <2>4, <4>1
      <4>3. \A s \in v5 : s.day # m.day
        BY <1>1, <2>3, <2>4, <4>1
      <4>4. x # r
        BY <1>n, <2>1, <4>1
      <4> QED
        BY <1>n, <2>0, <2>1, <2>2, <2>8, <3>1, <4>1, <4>2, <4>3, <4>4
    <3>2. CASE j # i
      <4>1. v4'[j] = v4[j]
        BY <2>0, <3>2
      <4>2. \E u \in v3 \union v5 : u.for = x.for /\ u.day = x.day
        BY <2>0, <2>1, <2>2, <2>8
      <4> QED
        BY <1>1, <2>3, <2>8, <4>1, <4>2
    <3> QED
      BY <3>1, <3>2
  <2>9. ASSUME NEW o \in v3', NEW s \in v5', s.for = o.for, s.day = o.day
        PROVE  \E j \in Lambdas : v4'[j].pc = "sent" /\ v4'[j].message = o
    <3>1. PICK u \in v3 : u.for = o.for /\ u.day = o.day /\ ((o = r /\ u = m) \/ o = u)
      BY <2>1, <2>2
    <3>2. PICK j \in Lambdas : v4[j].pc = "sent" /\ v4[j].message = u
      BY <1>1, <2>0, <2>3, <2>9, <3>1
    <3>3. v4[j] # Di!Idle /\ j # i
      BY <1>n, <2>0, <3>2
    <3>4. u # m
      BY <1>r, <2>0, <3>2, <3>3
    <3> QED
      BY <2>0, <3>1, <3>2, <3>3, <3>4
  <2>10. v6' = {} /\ \A j \in Lambdas : v4'[j].pc # "failed"
    BY <1>1, <2>0, <2>3
  <2> QED
    BY <1>g, <2>5, <2>6, <2>7, <2>8, <2>9, <2>10
<1>5. ASSUME NEW i \in Lambdas, NEW batch \in SUBSET Accounts, NEW accepted \in SUBSET Accounts,
             Di!SendBatch(i, batch, accepted)
      PROVE  Di!OnceEach'
  <2> DEFINE w == v4[i]
             new == Di!Enqueued(w, accepted)
  <2>a. /\ w.pc = "batch" /\ w.message \in v3 /\ w.message.for = None /\ w.message.n = 0
        /\ w.left \subseteq Accounts /\ batch \subseteq w.left /\ accepted \subseteq batch
    BY <1>5, DiQueues
  <2>b. v4'[i].message = w.message
    BY <1>5, DiQueues
  <2>d. accepted = batch => v4'[i].pc = "batch" /\ v4'[i].left = w.left \ batch /\ v9' = v9
    BY <1>5, DiQueues
  <2>e. ASSUME accepted # batch PROVE v4'[i].pc = "failed" /\ v9' = v9 + 1
    <3>1. v4'[i].pc = "failed"
      BY <1>5, <2>e, DiQueues
    <3>2. v9' = v9 + 1
      BY <1>5, <2>e DEF Di!SendBatch, Di!MayFail
    <3> QED
      BY <3>1, <3>2
  <2>c. /\ \A j \in Lambdas : j # i => v4'[j] = v4[j]
        /\ v3' = v3 \union new /\ UNCHANGED <<v5, v6>>
    BY <1>5, DiQueues
  <2>0. /\ w.pc = "batch" /\ w.message \in v3 /\ w.message.for = None /\ w.message.n = 0
        /\ w.left \subseteq Accounts /\ batch \subseteq w.left /\ accepted \subseteq batch
        /\ v4'[i].message = w.message
        /\ accepted = batch => v4'[i].pc = "batch" /\ v4'[i].left = w.left \ batch /\ v9' = v9
        /\ accepted # batch => v4'[i].pc = "failed" /\ v9' = v9 + 1
        /\ \A j \in Lambdas : j # i => v4'[j] = v4[j]
        /\ v3' = v3 \union new /\ UNCHANGED <<v5, v6>>
    BY <2>a, <2>b, <2>c, <2>d, <2>e
  <2>1. \A o \in new : /\ o.for \in accepted /\ o.for # None /\ o.day = w.message.day /\ o.receives = 0
                       /\ o = Di!SendFor(o.for, o.day, w.message.receives)
    <3>1. ASSUME NEW o \in new
          PROVE  /\ o.for \in accepted /\ o.for # None /\ o.day = w.message.day /\ o.receives = 0
                 /\ o = Di!SendFor(o.for, o.day, w.message.receives)
      BY <3>1, DiEnqueued
    <3> QED
      BY <3>1
  <2> HIDE DEF new
  <2>2. /\ v9 = 0 /\ accepted = batch /\ v4'[i].pc = "batch" /\ v4'[i].left = w.left \ batch
        /\ w # Di!Idle /\ v4'[i] # Di!Idle
    BY <1>0, <1>n, <2>0
  <2>3. \A o \in v3' : o.receives = 0 \/ Di!Running(o)'
    <3>1. ASSUME NEW o \in v3, Di!Running(o) PROVE Di!Running(o)'
      BY <1>r, <1>q, <2>0, <2>2, <3>1
    <3> QED
      BY <1>1, <2>0, <2>1, <2>2, <3>1
  <2>4. \A x \in v3 \union v5 : x.for \in w.left => x.day # w.message.day
    BY <1>1, <2>0, <2>2
  <2>5. \A m, o \in v3' : m.for # None /\ m.for = o.for /\ m.day = o.day => m = o
    <3>1. \A m, o \in new : m.for = o.for /\ m.day = o.day => m = o
      BY <2>1
    <3>2. \A m \in v3, o \in new : ~(m.for = o.for /\ m.day = o.day)
      BY <2>0, <2>1, <2>4
    <3> QED
      BY <1>1, <2>0, <2>2, <3>1, <3>2
  <2>6. ASSUME NEW m \in v3', m.for = None, m.receives = 0
        PROVE  (\A o \in v3' : o.day = m.day => o.for = None) /\ \A s \in v5' : s.day # m.day
    <3>1. m \in v3
      BY <2>0, <2>1, <2>6
    <3>2. m # w.message
      BY <1>0, <1>k, <2>0, <2>2, <2>6
    <3>3. m.day # w.message.day
      BY <1>0, <1>k, <2>0, <2>6, <3>1, <3>2
    <3> QED
      BY <1>1, <2>0, <2>1, <2>2, <2>6, <3>1, <3>3
  <2>7. ASSUME NEW j \in Lambdas, v4'[j].pc = "batch", NEW x \in v3' \union v5', x.for \in v4'[j].left
        PROVE  x.day # v4'[j].message.day
    <3>1. CASE j = i
      <4>1. x \in v3 \union v5 /\ x.for \in w.left
        BY <2>0, <2>1, <2>2, <2>7, <3>1
      <4> QED
        BY <2>0, <2>4, <3>1, <4>1
    <3>2. CASE j # i
      <4>1. v4'[j] = v4[j]
        BY <2>0, <3>2
      <4>2. v4[j].message.day # w.message.day
        BY <1>s, <2>0, <2>7, <3>2, <4>1
      <4> QED
        BY <1>1, <2>0, <2>1, <2>2, <2>7, <4>1, <4>2
    <3> QED
      BY <3>1, <3>2
  <2>8. ASSUME NEW o \in v3', NEW s \in v5', s.for = o.for, s.day = o.day
        PROVE  \E j \in Lambdas : v4'[j].pc = "sent" /\ v4'[j].message = o
    <3>1. o \in v3
      BY <2>0, <2>1, <2>4, <2>8
    <3>2. PICK j \in Lambdas : v4[j].pc = "sent" /\ v4[j].message = o
      BY <1>1, <2>0, <2>2, <2>8, <3>1
    <3> QED
      BY <2>0, <3>2
  <2>9. v6' = {} /\ \A j \in Lambdas : v4'[j].pc # "failed"
    BY <1>1, <2>0, <2>2
  <2> QED
    BY <1>g, <2>3, <2>5, <2>6, <2>7, <2>8, <2>9
<1>6. ASSUME NEW i \in Lambdas,
             \/ Di!FinishDispatch(i) \/ Di!Skip(i) \/ Di!NothingToSend(i) \/ Di!Rejected(i) \/ Di!FinishSend(i)
             \/ Di!ReturnError(i)
      PROVE  Di!OnceEach'
  <2>0. /\ v4[i] # Di!Idle /\ v4'[i] = Di!Idle
        /\ \A j \in Lambdas : j # i => v4'[j] = v4[j]
        /\ v3' = v3 \ {v4[i].message} \/ (v4[i].pc = "failed" /\ v3' = v3)
        /\ UNCHANGED <<v5, v6>> /\ (v9' = v9 \/ v9' = v9 + 1)
    BY <1>6, DiEnds
  <2>1. v9 = 0 /\ v3' = v3 \ {v4[i].message}
    BY <1>0, <1>1, <2>0
  <2>2. \A o \in v3' : o.receives = 0 \/ Di!Running(o)'
    <3>1. ASSUME NEW o \in v3', Di!Running(o) PROVE Di!Running(o)'
      BY <1>r, <1>q, <2>0, <2>1, <3>1
    <3> QED
      BY <1>1, <2>1, <3>1
  <2>3. \A m, o \in v3' : m.for # None /\ m.for = o.for /\ m.day = o.day => m = o
    BY <1>1, <2>1
  <2>4. \A m \in v3' : m.for = None /\ m.receives = 0 =>
          (\A o \in v3' : o.day = m.day => o.for = None) /\ \A s \in v5' : s.day # m.day
    BY <1>1, <2>0, <2>1
  <2>5. \A j \in Lambdas : v4'[j].pc = "batch" =>
          \A x \in v3' \union v5' : x.for \in v4'[j].left => x.day # v4'[j].message.day
    BY <1>1, <1>n, <2>0, <2>1
  <2>6. \A o \in v3', s \in v5' : s.for = o.for /\ s.day = o.day =>
          \E j \in Lambdas : v4'[j].pc = "sent" /\ v4'[j].message = o
    BY <1>1, <2>0, <2>1
  <2>7. v6' = {} /\ \A j \in Lambdas : v4'[j].pc # "failed"
    BY <1>1, <1>n, <2>0, <2>1
  <2> QED
    BY <1>g, <2>2, <2>3, <2>4, <2>5, <2>6, <2>7
<1>7. ASSUME NEW i \in Lambdas, Di!Transient(i) \/ Di!Crash(i) \/ Di!Send(i)
      PROVE  Di!OnceEach'
  <2> DEFINE w == v4[i]
             d == [for |-> w.message.for, day |-> w.message.day, on |-> w.day]
  <2>0. /\ w # Di!Idle /\ w.message \in v3 /\ v4'[i] # Di!Idle /\ v4'[i].message = w.message
        /\ \/ v9' = v9 + 1
           \/ /\ w.pc = "send" /\ v4'[i].pc = "sent" /\ v9' = v9
              /\ v5' = v5 \union {d} /\ v6' = IF d \in v5 THEN v6 \union {d} ELSE v6
        /\ \A j \in Lambdas : j # i => v4'[j] = v4[j]
        /\ v3' = v3
    BY <1>7, DiHolds
  <2>1. /\ v9 = 0 /\ w.pc = "send" /\ v4'[i].pc = "sent" /\ v5' = v5 \union {d}
        /\ v6' = IF d \in v5 THEN v6 \union {d} ELSE v6
    BY <1>0, <2>0
  <2>2. w.message.for # None /\ d.for = w.message.for /\ d.day = w.message.day
    BY <1>n, <2>1, DiJobIs DEF Di!Mailings
  <2> HIDE DEF d
  <2>3. \A s \in v5 : ~(s.for = w.message.for /\ s.day = w.message.day)
    <3>1. ASSUME NEW s \in v5, s.for = w.message.for, s.day = w.message.day PROVE FALSE
      <4>1. PICK j \in Lambdas : v4[j].pc = "sent" /\ v4[j].message = w.message
        BY <1>1, <2>0, <2>1, <3>1
      <4>2. j # i /\ v4[j] # Di!Idle
        BY <1>n, <2>1, <4>1
      <4> QED
        BY <1>k, <2>0, <4>1, <4>2
    <3> QED
      BY <3>1
  <2>4. v6' = {} /\ \A j \in Lambdas : v4'[j].pc # "failed"
    BY <1>1, <2>0, <2>1, <2>2, <2>3
  <2>5. \A o \in v3' : o.receives = 0 \/ Di!Running(o)'
    <3>1. ASSUME NEW o \in v3, Di!Running(o) PROVE Di!Running(o)'
      BY <1>r, <1>q, <2>0, <3>1
    <3> QED
      BY <1>1, <2>0, <2>1, <3>1
  <2>6. \A m, o \in v3' : m.for # None /\ m.for = o.for /\ m.day = o.day => m = o
    BY <1>1, <2>0, <2>1
  <2>7. \A m \in v3' : m.for = None /\ m.receives = 0 =>
          (\A o \in v3' : o.day = m.day => o.for = None) /\ \A s \in v5' : s.day # m.day
    BY <1>1, <2>0, <2>1, <2>2
  <2>8. \A j \in Lambdas : v4'[j].pc = "batch" =>
          \A x \in v3' \union v5' : x.for \in v4'[j].left => x.day # v4'[j].message.day
    BY <1>1, <2>0, <2>1, <2>2
  <2>9. ASSUME NEW o \in v3', NEW s \in v5', s.for = o.for, s.day = o.day
        PROVE  \E j \in Lambdas : v4'[j].pc = "sent" /\ v4'[j].message = o
    <3>1. CASE s = d
      <4>1. o = w.message
        BY <1>1, <2>0, <2>1, <2>2, <2>9, <3>1
      <4> QED
        BY <2>0, <2>1, <4>1
    <3>2. CASE s \in v5
      <4>1. PICK j \in Lambdas : v4[j].pc = "sent" /\ v4[j].message = o
        BY <1>1, <2>0, <2>1, <2>9, <3>2
      <4> QED
        BY <2>0, <2>1, <4>1
    <3> QED
      BY <2>1, <3>1, <3>2
  <2> QED
    BY <1>g, <2>4, <2>5, <2>6, <2>7, <2>8, <2>9
<1>8. ASSUME NEW i \in Lambdas, Di!Step(i) PROVE Di!OnceEach'
  <2>1. CASE \E m \in v3, failed \in BOOLEAN : Di!StartDispatch(i, m, failed) \/ Di!LoadAccount(i, m, failed)
    BY <1>4, <1>8, <2>1
  <2>2. CASE \E batch, accepted \in SUBSET Accounts : Di!SendBatch(i, batch, accepted)
    BY <1>5, <1>8, <2>2
  <2> QED
    BY <1>6, <1>7, <1>8, <2>1, <2>2 DEF Di!Step
<1>9. ASSUME NEW a \in Accounts, Di!Unsubscribe(a) \/ \E f \in {None, "daily", "weekly"} : Di!Configure(a, f)
      PROVE  UNCHANGED <<v3, v4, v5, v6, v9>>
  BY <1>9 DEF Di!Unsubscribe, Di!Configure
<1> QED
  BY <1>2, <1>3, <1>8, <1>9 DEF Di!Next

\* Who is owed a digest has it, has a reason not to, or has a message on its way.
LEMMA DiOwes == Di!StateOK /\ Di!Kept /\ Di!TriesDiffer /\ Di!Owed /\ Di!Next => Di!Owed'
<1> SUFFICES ASSUME Di!StateOK, Di!Kept, Di!TriesDiffer, Di!Owed, Di!Next PROVE Di!Owed'
  OBVIOUS
<1>0. /\ v3 \subseteq Di!Dispatches \union Di!Mailings /\ v1 \in Nat /\ v10 \in Nat
      /\ v2 \in [Accounts -> {None, "daily", "weekly"}] /\ v11 \in [Accounts -> Nat]
      /\ \A m \in v3 : /\ m.day \in 1 .. v1 /\ m.for \in Accounts \union {None}
                       /\ m.receives \in Nat /\ (m.for = None => m.n = 0)
  <2>1. v1 \in 1 .. Days /\ Days \in Nat /\ MaxReceives \in Nat /\ v10 \in Nat
    BY BoundsAssumption DEF Di!StateOK, Di!TypeOK
  <2>2. /\ v3 \subseteq Di!Dispatches \union Di!Mailings /\ \A m \in v3 : m.day \in 1 .. v1
        /\ v2 \in [Accounts -> {None, "daily", "weekly"}] /\ v11 \in [Accounts -> Nat]
    BY DEF Di!StateOK, Di!TypeOK
  <2> QED
    BY <2>1, <2>2, DiMessageIs
<1>n. None \notin Accounts /\ Di!Idle.pc = "idle"
  BY NoneAssumption DEF Di!Idle
<1>k. /\ \A i \in Lambdas : v4[i] # Di!Idle => v4[i].message \in v3
      /\ \A i, j \in Lambdas : i # j /\ v4[i] # Di!Idle /\ v4[j] # Di!Idle => v4[i].message # v4[j].message
      /\ \A m, o \in v3 : m.for = o.for /\ m.day = o.day /\ m.n = o.n => m = o
  BY DEF Di!Kept
<1>s. \A i \in Lambdas : v4[i].pc = "sent" => \E s \in v5 : s.for = v4[i].message.for /\ s.day = v4[i].message.day
  BY DEF Di!Owed
<1>o. /\ v10 = 0 => \A a \in Accounts, d \in 1 .. v1 : Di!Steady(a, d) => Di!Settled(a, d) \/ Di!Waits(a, d)
      /\ v10 = 0 => \A j \in Lambdas : \A a, d :
           v4[j].pc = "skip" /\ v4[j].message.for = a /\ v4[j].message.day = d /\ Di!Steady(a, d) => Di!Settled(a, d)
  BY DEF Di!Owed
<1>w. ASSUME NEW a, NEW d, NEW m \in v3', m.for = a \/ m.for = None, m.day = d,
             \A j \in Lambdas : v4'[j] # Di!Idle /\ v4'[j].message = m => Di!Owes(v4'[j], a)
      PROVE  Di!Waits(a, d)'
  BY <1>w DEF Di!Waits
<1>v. ASSUME NEW a, NEW d, Di!Waits(a, d)
      PROVE  \E m \in v3 : /\ m.for = a \/ m.for = None
                           /\ m.day = d
                           /\ \A j \in Lambdas : v4[j] # Di!Idle /\ v4[j].message = m => Di!Owes(v4[j], a)
  BY <1>v DEF Di!Waits
<1>d. ASSUME v8 \subseteq v8', v5 \subseteq v5', NEW a, NEW d, Di!Settled(a, d) PROVE Di!Settled(a, d)'
  BY <1>d DEF Di!Settled
<1>x. ASSUME NEW a, NEW d, <<a, d>> \in v8' \/ <<None, d>> \in v8' PROVE Di!Settled(a, d)'
  BY <1>x DEF Di!Settled
<1>q. ASSUME NEW a, NEW d, Di!Steady(a, d) PROVE v11[a] = 0 /\ v2[a] # None /\ Di!shouldDispatchDigest(v2[a], d)
  BY <1>q, NoneAssumption DEF Di!Steady, Di!shouldDispatchDigest
<1>y. ASSUME UNCHANGED <<v2, v11>>, NEW a, NEW d, Di!Steady(a, d)' PROVE Di!Steady(a, d)
  BY <1>y DEF Di!Steady
\* What is left of it when the steps of an invocation i are looked at.
<1>g. ASSUME \A j \in Lambdas : v4'[j].pc = "sent" =>
               \E s \in v5' : s.for = v4'[j].message.for /\ s.day = v4'[j].message.day,
             v10' = 0 => \A a \in Accounts, d \in 1 .. v1' :
               Di!Steady(a, d)' => Di!Settled(a, d)' \/ Di!Waits(a, d)',
             v10' = 0 => \A j \in Lambdas : \A a, d :
               v4'[j].pc = "skip" /\ v4'[j].message.for = a /\ v4'[j].message.day = d /\ Di!Steady(a, d)' =>
                 Di!Settled(a, d)'
      PROVE  Di!Owed'
  BY <1>g DEF Di!Owed, Di!Steady, Di!Settled
<1>1. CASE Di!Midnight
  <2>a. PICK k : k = Di!DispatchOf(v1 + 1)
    OBVIOUS
  <2>0. k.for = None /\ k.day = v1 + 1
    BY <2>a DEF Di!DispatchOf
  <2>1. v3' = v3 \union {k} /\ v1' = v1 + 1 /\ UNCHANGED <<v2, v4, v5, v8, v10, v11>>
    BY <1>1, <2>a DEF Di!Midnight
  <2>2. k \notin v3 /\ \A j \in Lambdas : v4'[j] # Di!Idle => v4'[j].message # k
    BY <1>0, <1>k, <2>0, <2>1
  <2>3. ASSUME v10' = 0, NEW a \in Accounts, NEW d \in 1 .. v1', Di!Steady(a, d)'
        PROVE  Di!Settled(a, d)' \/ Di!Waits(a, d)'
    <3>1. CASE d = v1 + 1
      BY <1>w, <2>0, <2>1, <2>2, <3>1
    <3>2. CASE d # v1 + 1
      <4>1. d \in 1 .. v1 /\ Di!Steady(a, d)
        BY <1>0, <1>y, <2>1, <2>3, <3>2
      <4>2. CASE Di!Settled(a, d)
        BY <1>d, <2>1, <4>2
      <4>3. CASE Di!Waits(a, d)
        BY <1>v, <1>w, <2>1, <4>3
      <4> QED
        BY <1>o, <2>1, <2>3, <4>1, <4>2, <4>3
    <3> QED
      BY <3>1, <3>2
  <2>4. ASSUME v10' = 0, NEW j \in Lambdas, NEW a, NEW d, v4'[j].pc = "skip", v4'[j].message.for = a,
               v4'[j].message.day = d, Di!Steady(a, d)'
        PROVE  Di!Settled(a, d)'
    BY <1>d, <1>o, <1>y, <2>1, <2>4
  <2>5. \A j \in Lambdas : v4'[j].pc = "sent" => \E s \in v5' : s.for = v4'[j].message.for /\ s.day = v4'[j].message.day
    BY <1>s, <2>1
  <2> QED
    BY <1>g, <2>3, <2>4, <2>5
<1>2. ASSUME NEW b \in Accounts, Di!Unsubscribe(b) \/ \E f \in {None, "daily", "weekly"} : Di!Configure(b, f)
      PROVE  Di!Owed'
  <2>1. UNCHANGED <<v1, v3, v4, v5, v8>> /\ (v10' = v10 + 1 \/ v10' = v10)
    BY <1>2 DEF Di!Unsubscribe, Di!Configure
  <2>2. v10' = 0 => v10 = 0 /\ v2' = [v2 EXCEPT ![b] = None] /\ v11' = [v11 EXCEPT ![b] = @ + 1]
    BY <1>0, <1>2 DEF Di!Unsubscribe, Di!Configure
  <2>3. ASSUME v10' = 0, NEW a \in Accounts, NEW d, Di!Steady(a, d)' PROVE Di!Steady(a, d)
    <3>1. a # b
      BY <1>0, <2>2, <2>3 DEF Di!Steady
    <3> QED
      BY <1>0, <2>2, <2>3, <3>1 DEF Di!Steady
  <2>4. ASSUME v10' = 0, NEW a \in Accounts, NEW d \in 1 .. v1', Di!Steady(a, d)'
        PROVE  Di!Settled(a, d)' \/ Di!Waits(a, d)'
    <3>1. Di!Settled(a, d) \/ Di!Waits(a, d)
      BY <1>o, <2>1, <2>2, <2>3, <2>4
    <3>2. CASE Di!Settled(a, d)
      BY <1>d, <2>1, <3>2
    <3>3. CASE Di!Waits(a, d)
      BY <1>v, <1>w, <2>1, <3>3
    <3> QED
      BY <3>1, <3>2, <3>3
  <2>5. ASSUME v10' = 0, NEW j \in Lambdas, NEW a, NEW d, v4'[j].pc = "skip", v4'[j].message.for = a,
               v4'[j].message.day = d, Di!Steady(a, d)'
        PROVE  Di!Settled(a, d)'
    <3>1. a \in Accounts
      BY <2>1, <2>5, DiJobIs DEF Di!Mailings
    <3> QED
      BY <1>d, <1>o, <2>1, <2>2, <2>3, <2>5, <3>1
  <2>6. \A j \in Lambdas : v4'[j].pc = "sent" => \E s \in v5' : s.for = v4'[j].message.for /\ s.day = v4'[j].message.day
    BY <1>s, <2>1
  <2> QED
    BY <1>g, <2>4, <2>5, <2>6
<1>3. ASSUME NEW i \in Lambdas, NEW m \in v3, NEW failed \in BOOLEAN,
             Di!StartDispatch(i, m, failed) \/ Di!LoadAccount(i, m, failed)
      PROVE  Di!Owed'
  <2>0. /\ v4[i] = Di!Idle /\ ~Di!Running(m) /\ m.receives < MaxReceives
        /\ v3' = (v3 \ {m}) \union {Di!Received(m)}
        /\ v4'[i].message = Di!Received(m) /\ v4'[i].pc \in {"failed", "batch", "send", "skip"}
        /\ v4'[i].pc = "batch" => m.for = None /\ v4'[i].left = Di!Qualifying
        /\ v4'[i].pc = "skip" => m.for # None /\ ~Di!StillDue(m.for)
        /\ \A j \in Lambdas : j # i => v4'[j] = v4[j]
        /\ v8' = IF m.day < v1 THEN v8 \union {<<m.for, m.day>>} ELSE v8
        /\ UNCHANGED <<v1, v2, v5, v10, v11>>
    BY <1>3, DiTakes
  <2>1. PICK r : /\ r = Di!Received(m) /\ r.for = m.for /\ r.day = m.day /\ r.n = m.n /\ r.receives = m.receives + 1
    BY <1>0, <2>0, DiReceived
  <2>2. v3' = (v3 \ {m}) \union {r} /\ v4'[i].message = r /\ v8 \subseteq v8'
    BY <2>0, <2>1
  <2>3. \A j \in Lambdas : j # i /\ v4[j] # Di!Idle => v4[j].message \in v3 \ {m} /\ v4[j].message # r
    BY <1>k, <2>0, <2>1 DEF Di!Running
  <2>4. m.day \in 1 .. v1 /\ (m.day < v1 => <<m.for, m.day>> \in v8')
    BY <1>0, <2>0
  \* A mail that is for a, or for all, and whose time has come.
  <2>5. ASSUME NEW a \in Accounts, Di!Steady(a, m.day)
        PROVE  /\ m.day < v1 /\ (m.for = a \/ m.for = None) => Di!Settled(a, m.day)'
               /\ m.day = v1 => a \in Di!Qualifying /\ Di!StillDue(a)
    <3>1. ASSUME m.day < v1, m.for = a \/ m.for = None PROVE Di!Settled(a, m.day)'
      BY <1>x, <2>4, <3>1
    <3>2. ASSUME m.day = v1 PROVE a \in Di!Qualifying /\ Di!StillDue(a)
      BY <1>q, <2>5, <3>2 DEF Di!Qualifying, Di!StillDue
    <3> QED
      BY <3>1, <3>2
  <2>6. ASSUME v10' = 0, NEW a \in Accounts, NEW d \in 1 .. v1', Di!Steady(a, d)'
        PROVE  Di!Settled(a, d)' \/ Di!Waits(a, d)'
    <3>0. Di!Steady(a, d) /\ d \in 1 .. v1
      BY <1>y, <2>0, <2>6
    <3>1. CASE Di!Settled(a, d)
      BY <1>d, <2>0, <2>2, <3>1
    <3>2. CASE Di!Waits(a, d)
      <4>1. PICK x \in v3 : /\ x.for = a \/ x.for = None
                            /\ x.day = d
                            /\ \A j \in Lambdas : v4[j] # Di!Idle /\ v4[j].message = x => Di!Owes(v4[j], a)
        BY <1>v, <3>2
      <4>2. CASE x # m
        <5>1. x \in v3' /\ x # r
          BY <1>k, <2>1, <2>2, <4>2
        <5>2. \A j \in Lambdas : v4'[j] # Di!Idle /\ v4'[j].message = x => Di!Owes(v4'[j], a)
          BY <2>0, <2>2, <4>1, <5>1
        <5> QED
          BY <1>w, <4>1, <5>1, <5>2
      <4>3. CASE x = m /\ Di!Owes(v4'[i], a)
        <5>1. r \in v3' /\ (r.for = a \/ r.for = None) /\ r.day = d
          BY <2>1, <2>2, <4>1, <4>3
        <5>2. \A j \in Lambdas : v4'[j] # Di!Idle /\ v4'[j].message = r => Di!Owes(v4'[j], a)
          BY <2>0, <2>3, <4>3
        <5> QED
          BY <1>w, <5>1, <5>2
      <4>4. CASE x = m /\ ~Di!Owes(v4'[i], a)
        <5>1. (v4'[i].pc = "batch" /\ a \notin Di!Qualifying) \/ v4'[i].pc = "skip"
          BY <2>0, <4>4 DEF Di!Owes
        <5>2. v4'[i].pc = "skip" => m.for = a /\ ~Di!StillDue(a)
          BY <2>0, <4>1, <4>4
        <5>3. m.day # v1
          BY <2>5, <3>0, <4>1, <4>4, <5>1, <5>2
        <5>4. m.day < v1
          BY <1>0, <2>4, <5>3
        <5> QED
          BY <2>5, <3>0, <4>1, <4>4, <5>4
      <4> QED
        BY <4>2, <4>3, <4>4
    <3> QED
      BY <1>o, <2>0, <2>6, <3>0, <3>1, <3>2
  <2>7. ASSUME v10' = 0, NEW j \in Lambdas, NEW a, NEW d, v4'[j].pc = "skip", v4'[j].message.for = a,
               v4'[j].message.day = d, Di!Steady(a, d)'
        PROVE  Di!Settled(a, d)'
    <3>0. Di!Steady(a, d)
      BY <1>y, <2>0, <2>7
    <3>1. CASE j = i
      <4>1. m.for = a /\ m.day = d /\ ~Di!StillDue(a) /\ a # None
        BY <2>0, <2>1, <2>2, <2>7, <3>1
      <4>2. a \in Accounts
        BY <1>0, <4>1
      <4>3. m.day < v1
        BY <1>0, <2>4, <2>5, <3>0, <4>1, <4>2
      <4> QED
        BY <2>5, <3>0, <4>1, <4>2, <4>3
    <3>2. CASE j # i
      <4>1. v4'[j] = v4[j]
        BY <2>0, <3>2
      <4>2. Di!Settled(a, d)
        BY <1>o, <2>0, <2>7, <3>0, <4>1
      <4> QED
        BY <1>d, <2>0, <2>2, <4>2
    <3> QED
      BY <3>1, <3>2
  <2>8. \A j \in Lambdas : v4'[j].pc = "sent" => \E s \in v5' : s.for = v4'[j].message.for /\ s.day = v4'[j].message.day
    BY <1>s, <2>0
  <2> QED
    BY <1>g, <2>6, <2>7, <2>8
<1>4. ASSUME NEW i \in Lambdas, NEW batch \in SUBSET Accounts, NEW accepted \in SUBSET Accounts,
             Di!SendBatch(i, batch, accepted)
      PROVE  Di!Owed'
  <2> DEFINE w == v4[i]
             new == Di!Enqueued(w, accepted)
  <2>0. /\ w.pc = "batch" /\ w.message \in v3 /\ w.message.for = None
        /\ w.left \subseteq Accounts /\ batch \subseteq w.left
    BY <1>4, DiQueues
  <2>1. v3' = v3 \union new /\ UNCHANGED <<v1, v2, v5, v8, v10, v11>> /\ \A j \in Lambdas : j # i => v4'[j] = v4[j]
    BY <1>4, DiQueues
  <2>2. v4'[i].message = w.message
    BY <1>4, DiQueues
  <2>3. \/ v4'[i].pc = "failed"
        \/ v4'[i].pc = "batch" /\ v4'[i].left = w.left \ batch /\ accepted = batch
    BY <1>4, DiQueues
  <2>4. w # Di!Idle
    BY <1>n, <2>0
  <2> HIDE DEF new
  <2>5. ASSUME v10' = 0, NEW a \in Accounts, NEW d \in 1 .. v1', Di!Steady(a, d)'
        PROVE  Di!Settled(a, d)' \/ Di!Waits(a, d)'
    <3>0. Di!Steady(a, d) /\ d \in 1 .. v1
      BY <1>y, <2>1, <2>5
    <3>1. CASE Di!Settled(a, d)
      BY <1>d, <2>1, <3>1
    <3>2. CASE Di!Waits(a, d)
      <4>1. PICK x \in v3 : /\ x.for = a \/ x.for = None
                            /\ x.day = d
                            /\ \A j \in Lambdas : v4[j] # Di!Idle /\ v4[j].message = x => Di!Owes(v4[j], a)
        BY <1>v, <3>2
      <4>2. CASE x # w.message \/ Di!Owes(v4'[i], a)
        <5>1. \A j \in Lambdas : v4'[j] # Di!Idle /\ v4'[j].message = x => Di!Owes(v4'[j], a)
          BY <2>1, <2>2, <4>1, <4>2
        <5> QED
          BY <1>w, <2>1, <4>1, <5>1
      <4>3. CASE x = w.message /\ ~Di!Owes(v4'[i], a)
        <5>1. a \in w.left
          BY <2>0, <2>4, <4>1, <4>3 DEF Di!Owes
        <5>2. accepted = batch /\ a \in batch
          BY <2>3, <4>3, <5>1 DEF Di!Owes
        <5>3. PICK o : o = Di!SendFor(a, w.message.day, w.message.receives)
          OBVIOUS
        <5>4. o.for = a /\ o.day = d /\ o.n = w.message.receives /\ o \in new
          BY <4>1, <4>3, <5>2, <5>3 DEF new, Di!Enqueued, Di!SendFor
        <5>5. \A u \in v3 : u.for = a /\ u.day = d => u.n < w.message.receives
          BY <2>0, <4>1, <4>3, <5>1 DEF Di!TriesDiffer
        <5>6. o \notin v3
          BY <1>0, <2>0, <5>4, <5>5
        <5>7. \A j \in Lambdas : v4'[j] # Di!Idle => v4'[j].message # o
          BY <1>k, <2>0, <2>1, <2>2, <2>4, <5>6
        <5> QED
          BY <1>w, <2>1, <5>4, <5>7
      <4> QED
        BY <4>2, <4>3
    <3> QED
      BY <1>o, <2>1, <2>5, <3>0, <3>1, <3>2
  <2>6. ASSUME v10' = 0, NEW j \in Lambdas, NEW a, NEW d, v4'[j].pc = "skip", v4'[j].message.for = a,
               v4'[j].message.day = d, Di!Steady(a, d)'
        PROVE  Di!Settled(a, d)'
    <3>1. v4'[j] = v4[j]
      BY <2>1, <2>3, <2>6
    <3> QED
      BY <1>d, <1>o, <1>y, <2>1, <2>6, <3>1
  <2>7. \A j \in Lambdas : v4'[j].pc = "sent" => \E s \in v5' : s.for = v4'[j].message.for /\ s.day = v4'[j].message.day
    BY <1>s, <2>1, <2>3
  <2> QED
    BY <1>g, <2>5, <2>6, <2>7
<1>5. ASSUME NEW i \in Lambdas,
             \/ Di!FinishDispatch(i) \/ Di!Skip(i) \/ Di!NothingToSend(i) \/ Di!Rejected(i) \/ Di!FinishSend(i)
             \/ Di!ReturnError(i)
      PROVE  Di!Owed'
  <2> DEFINE w == v4[i]
  <2>0. /\ w # Di!Idle /\ v4'[i] = Di!Idle /\ w.message \in v3
        /\ v3' = v3 \ {w.message} \/ v3' = v3
        /\ v3' # v3 =>
             \/ w.pc = "batch" /\ w.left = {}
             \/ w.pc = "skip" \/ w.pc = "sent"
             \/ v8' = v8 \union {<<w.message.for, w.message.day>>}
    BY <1>5, DiEnds
  <2>1. /\ v8 \subseteq v8' /\ UNCHANGED <<v1, v2, v5, v10, v11>>
        /\ \A j \in Lambdas : j # i => v4'[j] = v4[j]
    BY <1>5, DiEnds
  <2>2. ASSUME v10' = 0, NEW a \in Accounts, NEW d \in 1 .. v1', Di!Steady(a, d)'
        PROVE  Di!Settled(a, d)' \/ Di!Waits(a, d)'
    <3>0. Di!Steady(a, d) /\ d \in 1 .. v1
      BY <1>y, <2>1, <2>2
    <3>1. CASE Di!Settled(a, d)
      BY <1>d, <2>1, <3>1
    <3>2. CASE Di!Waits(a, d)
      <4>1. PICK x \in v3 : /\ x.for = a \/ x.for = None
                            /\ x.day = d
                            /\ \A j \in Lambdas : v4[j] # Di!Idle /\ v4[j].message = x => Di!Owes(v4[j], a)
        BY <1>v, <3>2
      <4>2. CASE x \in v3'
        <5>1. \A j \in Lambdas : v4'[j] # Di!Idle /\ v4'[j].message = x => Di!Owes(v4'[j], a)
          BY <2>0, <2>1, <4>1
        <5> QED
          BY <1>w, <4>1, <4>2, <5>1
      <4>3. CASE x \notin v3'
        <5>1. x = w.message /\ v3' # v3 /\ Di!Owes(w, a)
          BY <2>0, <4>1, <4>3
        <5>2. v8' = v8 \union {<<x.for, d>>}
          BY <2>0, <4>1, <5>1 DEF Di!Owes
        <5> QED
          BY <1>x, <4>1, <5>2
      <4> QED
        BY <4>2, <4>3
    <3> QED
      BY <1>o, <2>1, <2>2, <3>0, <3>1, <3>2
  <2>3. ASSUME v10' = 0, NEW j \in Lambdas, NEW a, NEW d, v4'[j].pc = "skip", v4'[j].message.for = a,
               v4'[j].message.day = d, Di!Steady(a, d)'
        PROVE  Di!Settled(a, d)'
    <3>1. v4'[j] = v4[j]
      BY <1>n, <2>0, <2>1, <2>3
    <3> QED
      BY <1>d, <1>o, <1>y, <2>1, <2>3, <3>1
  <2>4. \A j \in Lambdas : v4'[j].pc = "sent" => \E s \in v5' : s.for = v4'[j].message.for /\ s.day = v4'[j].message.day
    BY <1>n, <1>s, <2>0, <2>1
  <2> QED
    BY <1>g, <2>2, <2>3, <2>4
<1>6. ASSUME NEW i \in Lambdas, Di!Transient(i) \/ Di!Crash(i) \/ Di!Send(i)
      PROVE  Di!Owed'
  <2> DEFINE w == v4[i]
             s == [for |-> w.message.for, day |-> w.message.day, on |-> w.day]
  <2>0. /\ w # Di!Idle /\ w.message \in v3 /\ v4'[i] # Di!Idle /\ v4'[i].message = w.message
        /\ \/ v4'[i].pc = "failed" /\ v5' = v5
           \/ w.pc = "send" /\ v4'[i].pc = "sent" /\ v5' = v5 \union {s}
        /\ \A j \in Lambdas : j # i => v4'[j] = v4[j]
        /\ UNCHANGED <<v1, v2, v3, v8, v10, v11>>
    BY <1>6, DiHolds
  <2>1. s.for = w.message.for /\ s.day = w.message.day
    OBVIOUS
  <2> HIDE DEF s
  <2>2. ASSUME v10' = 0, NEW a \in Accounts, NEW d \in 1 .. v1', Di!Steady(a, d)'
        PROVE  Di!Settled(a, d)' \/ Di!Waits(a, d)'
    <3>0. Di!Steady(a, d) /\ d \in 1 .. v1
      BY <1>y, <2>0, <2>2
    <3>1. CASE Di!Settled(a, d)
      BY <1>d, <2>0, <3>1
    <3>2. CASE Di!Waits(a, d)
      <4>1. PICK x \in v3 : /\ x.for = a \/ x.for = None
                            /\ x.day = d
                            /\ \A j \in Lambdas : v4[j] # Di!Idle /\ v4[j].message = x => Di!Owes(v4[j], a)
        BY <1>v, <3>2
      <4>2. CASE x # w.message \/ v4'[i].pc = "failed"
        <5>1. \A j \in Lambdas : v4'[j] # Di!Idle /\ v4'[j].message = x => Di!Owes(v4'[j], a)
          BY <2>0, <4>1, <4>2 DEF Di!Owes
        <5> QED
          BY <1>w, <2>0, <4>1, <5>1
      <4>3. CASE x = w.message /\ v4'[i].pc # "failed"
        <5>1. w.pc = "send" /\ v5' = v5 \union {s}
          BY <2>0, <4>3
        <5>2. w.message.for # None
          BY <1>n, <5>1, DiJobIs DEF Di!Mailings
        <5> QED
          BY <2>1, <4>1, <4>3, <5>1, <5>2 DEF Di!Settled
      <4> QED
        BY <4>2, <4>3
    <3> QED
      BY <1>o, <2>0, <2>2, <3>0, <3>1, <3>2
  <2>3. ASSUME v10' = 0, NEW j \in Lambdas, NEW a, NEW d, v4'[j].pc = "skip", v4'[j].message.for = a,
               v4'[j].message.day = d, Di!Steady(a, d)'
        PROVE  Di!Settled(a, d)'
    <3>1. v4'[j] = v4[j]
      BY <2>0, <2>3
    <3> QED
      BY <1>d, <1>o, <1>y, <2>0, <2>3, <3>1
  <2>4. \A j \in Lambdas : v4'[j].pc = "sent" => \E u \in v5' : u.for = v4'[j].message.for /\ u.day = v4'[j].message.day
    BY <1>s, <2>0, <2>1
  <2> QED
    BY <1>g, <2>2, <2>3, <2>4
<1>7. ASSUME NEW i \in Lambdas, Di!Step(i) PROVE Di!Owed'
  <2>1. CASE \E m \in v3, failed \in BOOLEAN : Di!StartDispatch(i, m, failed) \/ Di!LoadAccount(i, m, failed)
    BY <1>3, <1>7, <2>1
  <2>2. CASE \E batch, accepted \in SUBSET Accounts : Di!SendBatch(i, batch, accepted)
    BY <1>4, <1>7, <2>2
  <2> QED
    BY <1>5, <1>6, <1>7, <2>1, <2>2 DEF Di!Step
<1> QED
  BY <1>1, <1>2, <1>7 DEF Di!Next

\* A digest comes to whom it is due, twice only with a cause, and to nobody who has switched it off
\* since (digest-dispatcher, digest-worker, unsubscribeApi).
THEOREM DigestsAreKept == ProvedSpec => []DigestHolds
<1> DEFINE Keeps == part = "digest" /\ Di!Inductive
<1>1. ProvedInit => (part \in {"digest", "digests"} => Keeps)
  BY DiInitial DEF ProvedInit
<1>2. (part \in {"digest", "digests"} => Keeps) /\ [ProvedNext]_values => (part \in {"digest", "digests"} => Keeps)'
  <2> SUFFICES ASSUME part \in {"digest", "digests"} => Keeps, [ProvedNext]_values, part' \in {"digest", "digests"}
               PROVE  Keeps'
    OBVIOUS
  <2>1. part' = part /\ Keeps
    BY DEF ProvedNext, values, Rest10, Rest11, Rest12, Rest18
  <2>2. Di!StateOK /\ Di!Kept /\ Di!TriesDiffer /\ Di!Silent /\ Di!OnceEach /\ Di!Owed
    BY <2>1 DEF Di!Inductive
  <2>3. CASE Di!Next
    BY <2>1, <2>2, <2>3, DiTyped, DiKeeps, DiSilent, DiOnce, DiOwes DEF Di!Inductive
  <2>4. CASE UNCHANGED values
    <3>1. UNCHANGED <<v1, v2, v3, v4, v5, v6, v7, v8, v9, v10, v11>>
      BY <2>4 DEF values
    <3>2. Di!StateOK' /\ Di!Kept' /\ Di!TriesDiffer'
      BY <2>2, <3>1 DEF Di!StateOK, Di!TypeOK, Di!Kept, Di!TriesDiffer
    <3>3. Di!Silent' /\ Di!OnceEach'
      BY <2>2, <3>1 DEF Di!Silent, Di!OnceEach, Di!Running
    <3>4. Di!Owed'
      BY <2>2, <3>1 DEF Di!Owed, Di!Settled, Di!Waits, Di!Owes, Di!Steady
    <3> QED
      BY <2>1, <3>2, <3>3, <3>4 DEF Di!Inductive
  <2>5. Di!Next \/ UNCHANGED values
    BY <2>1 DEF ProvedNext
  <2> QED
    BY <2>3, <2>4, <2>5
<1>3. (part \in {"digest", "digests"} => Keeps) => DigestHolds
  <2> SUFFICES ASSUME Keeps PROVE Di!TypeOK /\ Di!SwitchedOffIsSilent /\ Di!TwiceNeedsCause /\ Di!NobodyForgotten
    BY DEF DigestHolds
  <2>1. Di!TypeOK
    BY DEF Di!Inductive, Di!StateOK
  <2>2. Di!SwitchedOffIsSilent
    <3> SUFFICES ASSUME NEW i \in Lambdas, v4[i].pc = "send"
                 PROVE  v2[v4[i].message.for] # None \/ v11[v4[i].message.for] > v4[i].opted
      BY DEF Di!SwitchedOffIsSilent
    <3>1. v4[i].message.for \in Accounts /\ v4[i].opted \in Nat /\ v11 \in [Accounts -> Nat]
      BY DiJobIs DEF Di!Inductive, Di!StateOK, Di!Mailings
    <3> QED
      BY <3>1 DEF Di!Inductive, Di!Silent
  <2>3. Di!TwiceNeedsCause
    <3> SUFFICES ASSUME NEW s \in v5, NEW t \in v5, s # t \/ s \in v6, s.for = t.for, s.on = t.on, ~(v9 > 0), s.day = t.day
                 PROVE  FALSE
      BY DEF Di!TwiceNeedsCause
    <3>1. v9 = 0 /\ v6 = {}
      BY DEF Di!Inductive, Di!StateOK, Di!OnceEach
    <3>2. v5 \subseteq [for : Accounts, day : 1 .. v1, on : 1 .. v1]
      BY DEF Di!Inductive, Di!StateOK
    <3>3. s = t
      BY <3>2
    <3> QED
      BY <3>1, <3>3
  <2>4. Di!NobodyForgotten
    BY DEF Di!NobodyForgotten, Di!Inductive, Di!Owed, Di!Waits, Di!Steady, Di!Settled
  <2> QED
    BY <2>1, <2>2, <2>3, <2>4
<1> QED
  BY <1>1, <1>2, <1>3, PTL DEF ProvedSpec
=============================================================================
