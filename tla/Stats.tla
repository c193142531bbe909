------------------------------- MODULE Stats --------------------------------
(***************************************************************************)
(* The counters of one account: a row per day that every processed mail    *)
(* adds one to, under an idempotency key kept in the row's history, and a  *)
(* snapshot per month that a daily job sums up from the month before.      *)
(* One metric stands for all; they share the rows and never mix.           *)
(***************************************************************************)
EXTENDS Integers, Sequences, FiniteSets, FiniteSetsExt

CONSTANTS
  Keys,          \* idempotency keys: one per mail counted, or alias made
  None,
  Lambdas,       \* concurrent invocations
  Days, PerMonth,
  HistoryMax,    \* 100 in the code
  TrimBy,        \* 10 in the code
  ReadMax,       \* 400 in the code, more than the rows of a year
  MaxTries,      \* deliveries of one key
  MaxFaults

VARIABLES
  day,           \* today
  diff,          \* None, or the row of a day: its count and its history of keys
  snapshot,      \* None, or what a month began with
  job,           \* the daily job, of the month it found today to be in
  lambda, tries, faults,
  trimmed,       \* keys that have left a history
  straddled,     \* history: keys counted on a day after the first they were tried on
  late,          \* history: a write was still under way at a month's end
  gap            \* history: a month's snapshot was made without the month before's

vars == <<day, diff, snapshot, job, lambda, tries, faults, trimmed, straddled, late, gap>>

Idle == [pc |-> "idle"]
Goto(i, w) == lambda' = [lambda EXCEPT ![i] = w]
MonthOf(d) == d \div PerMonth
Months == {MonthOf(d) : d \in 0 .. Days - 1}

Init ==
  /\ day = 0 /\ diff = [d \in 0 .. Days - 1 |-> None] /\ snapshot = [m \in Months |-> None]
  /\ job = Idle
  /\ lambda = [i \in Lambdas |-> Idle] /\ tries = [k \in Keys |-> 0] /\ faults = 0
  /\ trimmed = {} /\ straddled = {} /\ late = FALSE /\ gap = FALSE

In(k, row) == \E n \in 1 .. Len(row.history) : row.history[n] = k

-----------------------------------------------------------------------------
(* writeDiffMetric.                                                          *)

\* Of a message delivered again, when it has not come through; the day is read once.
Begin(i, k) ==
  /\ lambda[i].pc = "idle" /\ tries[k] < MaxTries
  /\ \A j \in Lambdas : lambda[j].pc # "idle" => lambda[j].key # k
  /\ tries' = [tries EXCEPT ![k] = @ + 1]
  /\ Goto(i, [pc |-> "add", key |-> k, day |-> day])
  /\ straddled' = IF \E d \in 0 .. day - 1 : diff[d] # None /\ (In(k, diff[d]) \/ k \in trimmed)
                  THEN straddled \union {k} ELSE straddled
  /\ UNCHANGED <<day, diff, snapshot, job, faults, trimmed, late, gap>>

\* Mutant: the row only has to exist.
Exists(row, k) == row # None
MayAdd(row, k) == row # None /\ ~In(k, row)

NewRow(k) == [count |-> 1, history |-> <<k>>]
Added(row, k) == [count |-> row.count + 1, history |-> Append(row.history, k)]

\* One conditional update adds to the count and to the history.
AddToRow(i) ==
  LET w == lambda[i] IN
  /\ w.pc = "add"
  /\ IF MayAdd(diff[w.day], w.key)
     THEN /\ diff' = [diff EXCEPT ![w.day] = Added(@, w.key)]
          /\ Goto(i, [w EXCEPT !.pc = "trim"])
     ELSE /\ UNCHANGED diff
          /\ Goto(i, [w EXCEPT !.pc = "disambiguate"])
  /\ UNCHANGED <<day, snapshot, job, tries, faults, trimmed, straddled, late, gap>>

\* The second time a failed condition is taken for a duplicate.
AddAgain(i) ==
  LET w == lambda[i] IN
  /\ w.pc = "addAgain"
  /\ IF MayAdd(diff[w.day], w.key)
     THEN /\ diff' = [diff EXCEPT ![w.day] = Added(@, w.key)]
          /\ Goto(i, [w EXCEPT !.pc = "trim"])
     ELSE UNCHANGED diff /\ Goto(i, Idle)
  /\ UNCHANGED <<day, snapshot, job, tries, faults, trimmed, straddled, late, gap>>

\* Why did the condition fail?
Disambiguate(i) ==
  LET w == lambda[i] IN
  /\ w.pc = "disambiguate"
  /\ Goto(i, IF diff[w.day] = None THEN [w EXCEPT !.pc = "create"]
             ELSE IF In(w.key, diff[w.day]) THEN Idle ELSE [w EXCEPT !.pc = "addAgain"])
  /\ UNCHANGED <<day, diff, snapshot, job, tries, faults, trimmed, straddled, late, gap>>

\* Put on the condition that there is no row; another one's row is added to.
CreateRow(i) ==
  LET w == lambda[i] IN
  /\ w.pc = "create"
  /\ IF diff[w.day] = None
     THEN /\ diff' = [diff EXCEPT ![w.day] = NewRow(w.key)]
          /\ Goto(i, Idle)
     ELSE /\ UNCHANGED diff
          /\ Goto(i, [w EXCEPT !.pc = "addAgain"])
  /\ UNCHANGED <<day, snapshot, job, tries, faults, trimmed, straddled, late, gap>>

\* The first keys leave a history found too long, whatever it has become since.
ReadHistory(i) ==
  LET w == lambda[i] IN
  /\ w.pc = "trim"
  /\ Goto(i, IF Len(diff[w.day].history) > HistoryMax THEN [w EXCEPT !.pc = "remove"] ELSE Idle)
  /\ UNCHANGED <<day, diff, snapshot, job, tries, faults, trimmed, straddled, late, gap>>

Trim(i) ==
  LET w == lambda[i]
      history == diff[w.day].history IN
  /\ w.pc = "remove"
  /\ diff' = [diff EXCEPT ![w.day].history = SubSeq(history, TrimBy + 1, Len(history))]
  /\ trimmed' = trimmed \union {history[n] : n \in 1 .. IF TrimBy < Len(history) THEN TrimBy ELSE Len(history)}
  /\ Goto(i, Idle)
  /\ UNCHANGED <<day, snapshot, job, tries, faults, straddled, late, gap>>

\* A request to the database fails, or its answer is lost once it was carried out.
Fail(i) ==
  /\ lambda[i].pc # "idle"
  /\ faults < MaxFaults /\ faults' = faults + 1
  /\ Goto(i, Idle)
  /\ UNCHANGED <<day, diff, snapshot, job, tries, trimmed, straddled, late, gap>>

-----------------------------------------------------------------------------
(* ensureStatsSnapshot, in the daily job.                                    *)

DiffsOf(rows, ms) == FoldSet(LAMBDA d, n : n + (IF rows[d] = None THEN 0 ELSE rows[d].count),
                             0, {d \in 0 .. Days - 1 : MonthOf(d) \in ms})

\* computeSnapshot of the snapshot of the month before and of that month's days.
NewSnapshot(base, rows, m) == base + DiffsOf(rows, {m - 1})

Zero(base) == IF base = None THEN 0 ELSE base

\* Rows from the month before on; nothing to do once this month has its snapshot.
ReadStats ==
  LET m    == MonthOf(day)
      base == IF m = 0 THEN None ELSE snapshot[m - 1] IN
  /\ job = Idle /\ snapshot[m] = None
  /\ job' = [pc |-> "write", month |-> m, new |-> NewSnapshot(Zero(base), diff, m),
             partial |-> base = None /\ \E d \in 0 .. Days - 1 : MonthOf(d) < m - 1 /\ diff[d] # None]
  /\ UNCHANGED <<day, diff, snapshot, lambda, tries, faults, trimmed, straddled, late, gap>>

WriteSnapshot ==
  /\ job.pc = "write"
  /\ snapshot' = [snapshot EXCEPT ![job.month] = job.new]
  /\ gap' = (gap \/ job.partial)
  /\ job' = Idle
  /\ UNCHANGED <<day, diff, lambda, tries, faults, trimmed, straddled, late>>

\* The account's run is skipped, by an error or because it has no domain.
JobFails ==
  /\ job.pc = "write"
  /\ faults < MaxFaults /\ faults' = faults + 1
  /\ job' = Idle
  /\ UNCHANGED <<day, diff, snapshot, lambda, tries, trimmed, straddled, late, gap>>

NextDay ==
  /\ day < Days - 1
  /\ day' = day + 1
  /\ late' = (late \/ (MonthOf(day + 1) # MonthOf(day) /\ \E i \in Lambdas : lambda[i].pc # "idle"))
  /\ UNCHANGED <<diff, snapshot, job, lambda, tries, faults, trimmed, straddled, gap>>

Next ==
  \/ \E i \in Lambdas :
       \/ \E k \in Keys : Begin(i, k)
       \/ AddToRow(i) \/ AddAgain(i) \/ Disambiguate(i) \/ CreateRow(i) \/ ReadHistory(i) \/ Trim(i) \/ Fail(i)
  \/ ReadStats \/ WriteSnapshot \/ JobFails \/ NextDay

Spec == Init /\ [][Next]_vars

-----------------------------------------------------------------------------
\* The newest ReadMax rows, of getStats; a snapshot comes before the days of its month.
PlaceOfDay(d) == 2 * d + 1
PlaceOfMonth(m) == 2 * m * PerMonth
Rows == {PlaceOfDay(d) : d \in {e \in 0 .. Days - 1 : diff[e] # None}}
          \union {PlaceOfMonth(m) : m \in {n \in Months : snapshot[n] # None}}
IsRead(place) == Cardinality({r \in Rows : r > place}) < ReadMax
DaysRead == [d \in 0 .. Days - 1 |-> IF IsRead(PlaceOfDay(d)) THEN diff[d] ELSE None]
Snapshots == {m \in Months : snapshot[m] # None /\ IsRead(PlaceOfMonth(m))}

\* aggregateStatsRows, for GET of the stats: the last snapshot and the days from its
\* month on.
Totals ==
  IF Snapshots = {} THEN DiffsOf(DaysRead, Months)
  ELSE snapshot[Max(Snapshots)] + DiffsOf(DaysRead, {m \in Months : m >= Max(Snapshots)})

\* An account without a domain never gets a snapshot: its older days are not read any more.
CutOff == Snapshots = {} /\ \E r \in Rows : ~IsRead(r)

Counted == DiffsOf(diff, Months)
Keyed == {k \in Keys : k \in trimmed \/ \E d \in 0 .. Days - 1 : diff[d] # None /\ In(k, diff[d])}

TypeOK ==
  /\ day \in 0 .. Days - 1
  /\ \A d \in 0 .. Days - 1 : diff[d] # None =>
       diff[d].count \in Nat /\ Len(diff[d].history) <= diff[d].count

\* A mail is counted once, however often its message comes: unless it comes again on
\* another day, whose row knows nothing of the first, or after its key was trimmed.
CountedOnce == straddled = {} /\ trimmed = {} => Counted = Cardinality(Keyed)

\* The totals a user sees are the sum of all days, snapshot or not, unless a write of
\* a month ended in the next, the job missed a whole month, or there is no snapshot among
\* the rows that are read and not all are.
TotalsAreSums == late \/ gap \/ CutOff \/ Totals = Counted
=============================================================================
