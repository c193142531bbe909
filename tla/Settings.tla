------------------------------ MODULE Settings -----------------------------
(***************************************************************************)
(* The rows of an account the user edits through the API: views, labels    *)
(* and reply templates.  A request reads, checks and then writes without a *)
(* condition, so requests that overlap meet each other's results.  A       *)
(* change of a template's functions is audited before it is made.          *)
(***************************************************************************)
EXTENDS Integers, FiniteSets, FiniteSetsExt

CONSTANTS
  Views, Labels, Templates,   \* ids; a view's or template's is used once, a label's is its name
  Functions,     \* versions of a template's code that pass validation
  None,
  Lambdas,       \* concurrent requests
  MaxRequests, MaxFaults

VARIABLES
  view,          \* [view -> None or its position; Broken when the row has none]
  label,         \* [label -> None, "whole" or "partial"]
  template,      \* [template -> None or [whole, functions]]
  used,          \* ids handed out
  audit,         \* audited changes: <<template, functions before, functions after>>
  lambda, requests, faults,
  raced,         \* history: rows deleted while a request that had read them went on
  unaudited,     \* history: templates a change of which could not be audited
  shared         \* history: positions given by the user, or to views made at once

vars == <<view, label, template, used, audit, lambda, requests, faults, raced, unaudited, shared>>

Broken == -1
Idle == [pc |-> "idle"]
Goto(i, w) == lambda' = [lambda EXCEPT ![i] = w]
Rows == Views \union Labels \union Templates

Init ==
  /\ view = [v \in Views |-> None] /\ label = [l \in Labels |-> None]
  /\ template = [t \in Templates |-> None]
  /\ used = {} /\ audit = {} /\ lambda = [i \in Lambdas |-> Idle]
  /\ requests = 0 /\ faults = 0
  /\ raced = {} /\ unaudited = {} /\ shared = {}

Begin(i, w) ==
  /\ lambda[i] = Idle /\ requests < MaxRequests /\ requests' = requests + 1
  /\ Goto(i, w)

MayFail(failed) == /\ failed => faults < MaxFaults
                   /\ faults' = IF failed THEN faults + 1 ELSE faults

Exists(row) ==
  \/ row \in Views /\ view[row] # None
  \/ row \in Labels /\ label[row] # None
  \/ row \in Templates /\ template[row] # None

-----------------------------------------------------------------------------
(* Views.                                                                    *)

Positions == {view[v] : v \in {u \in Views : view[u] # None}}

\* Mutant: the number of views.
CountOf(v) == Cardinality({u \in Views : view[u] # None})
\* One more than the highest position.
NextPosition(v) == IF Positions = {} THEN 0 ELSE Max(Positions) + 1

\* createView reads the views there are.  A row without a position makes the next one
\* no number, which DynamoDB refuses.
CreateView(i, v) ==
  /\ v \notin used
  /\ IF Broken \in Positions
       THEN Begin(i, Idle) /\ UNCHANGED used
       ELSE Begin(i, [pc |-> "put view", row |-> v, position |-> NextPosition(v)]) /\ used' = used \union {v}
  /\ UNCHANGED <<view, label, template, audit, faults, raced, unaudited, shared>>

Putting == {lambda[j].position : j \in {k \in Lambdas : lambda[k].pc = "put view"}}

PutView(i) ==
  LET w == lambda[i] IN
  /\ w.pc = "put view"
  /\ view' = [view EXCEPT ![w.row] = w.position]
  /\ shared' = IF \E j \in Lambdas \ {i} : lambda[j].pc = "put view" THEN shared \union Putting ELSE shared
  /\ Goto(i, Idle)
  /\ UNCHANGED <<label, template, used, audit, requests, faults, raced, unaudited>>

\* updateView sets what it is given, on whatever is there.  position: None when the
\* request has none.
UpdateView(i) ==
  LET w == lambda[i] IN
  /\ w.pc = "write" /\ w.row \in Views
  /\ view' = [view EXCEPT ![w.row] = IF w.position # None THEN w.position ELSE IF @ = None THEN Broken ELSE @]
  /\ shared' = IF w.position = None THEN shared ELSE shared \union {w.position}
  /\ Goto(i, Idle)
  /\ UNCHANGED <<label, template, used, audit, requests, faults, raced, unaudited>>

-----------------------------------------------------------------------------
(* Labels.                                                                   *)

\* A label of that name is replaced.
CreateLabel(i, l) ==
  /\ Begin(i, Idle)
  /\ label' = [label EXCEPT ![l] = "whole"]
  /\ UNCHANGED <<view, template, used, audit, faults, raced, unaudited, shared>>

\* Color and icon alone; a request with neither only reads.
UpdateLabel(i) ==
  LET w == lambda[i] IN
  /\ w.pc = "write" /\ w.row \in Labels
  /\ label' = [label EXCEPT ![w.row] = IF @ = None THEN "partial" ELSE @]
  /\ Goto(i, Idle)
  /\ UNCHANGED <<view, template, used, audit, requests, faults, raced, unaudited, shared>>

-----------------------------------------------------------------------------
(* Templates.                                                                *)

\* saveAuditEvent: best effort.
Audit(t, before, after, failed) ==
  /\ MayFail(failed)
  /\ audit' = IF failed THEN audit ELSE audit \union {<<t, before, after>>}
  /\ unaudited' = IF failed THEN unaudited \union {t} ELSE unaudited

\* The functions have passed validation, or there are none.
CreateTemplate(i, t, functions, failed) ==
  /\ t \notin used /\ used' = used \union {t}
  /\ Begin(i, [pc |-> "put template", row |-> t, functions |-> functions])
  /\ IF functions # None THEN Audit(t, None, functions, failed)
     ELSE ~failed /\ UNCHANGED <<audit, unaudited, faults>>
  /\ UNCHANGED <<view, label, template, raced, shared>>

\* The audit event comes first; the row may then fail to be written.
PutTemplate(i, failed) ==
  LET w == lambda[i] IN
  /\ w.pc = "put template" /\ MayFail(failed)
  /\ template' = IF failed THEN template ELSE [template EXCEPT ![w.row] = [whole |-> TRUE, functions |-> w.functions]]
  /\ Goto(i, Idle)
  /\ UNCHANGED <<view, label, used, audit, requests, raced, unaudited, shared>>

AuditsChange(w) == w.functions # None

\* What the request has read is the audit's "before".
AuditUpdate(i, failed) ==
  LET w == lambda[i] IN
  /\ w.pc = "audit"
  /\ IF AuditsChange(w) THEN Audit(w.row, w.before, w.functions, failed)
     ELSE ~failed /\ UNCHANGED <<audit, unaudited, faults>>
  /\ Goto(i, [w EXCEPT !.pc = "write"])
  /\ UNCHANGED <<view, label, template, used, requests, raced, shared>>

\* updateTemplate sets what it is given.  PUT gives name, subject and body; without
\* functions it leaves the ones there are.
UpdateTemplate(i, failed) ==
  LET w == lambda[i] IN
  /\ w.pc = "write" /\ w.row \in Templates /\ MayFail(failed)
  /\ template' = IF failed THEN template ELSE
       [template EXCEPT ![w.row] =
          [whole     |-> @ # None /\ @.whole,
           functions |-> IF w.functions # None THEN w.functions ELSE IF @ = None THEN None ELSE @.functions]]
  /\ Goto(i, Idle)
  /\ UNCHANGED <<view, label, used, audit, requests, raced, unaudited, shared>>

-----------------------------------------------------------------------------
(* PATCH, PUT and DELETE read the row first: 404 when it is not there.       *)

Found(row) == Exists(row)

PatchView(i, v, position) ==
  /\ Found(v)
  /\ Begin(i, [pc |-> "write", row |-> v, position |-> position])
  /\ UNCHANGED <<view, label, template, used, audit, faults, raced, unaudited, shared>>

PatchLabel(i, l) ==
  /\ Found(l)
  /\ Begin(i, [pc |-> "write", row |-> l])
  /\ UNCHANGED <<view, label, template, used, audit, faults, raced, unaudited, shared>>

ReadTemplate(i, t, method, functions) ==
  /\ Exists(t)
  /\ Begin(i, [pc |-> "audit", row |-> t, method |-> method, before |-> template[t].functions, functions |-> functions])
  /\ UNCHANGED <<view, label, template, used, audit, faults, raced, unaudited, shared>>

PatchTemplate(i, t, functions) == ReadTemplate(i, t, "patch", functions)
ReplaceTemplate(i, t, functions) == ReadTemplate(i, t, "put", functions)

StartDelete(i, row) ==
  /\ Exists(row)
  /\ Begin(i, [pc |-> "delete", row |-> row])
  /\ UNCHANGED <<view, label, template, used, audit, faults, raced, unaudited, shared>>

\* Nothing that names the row is looked at: a rule's template, a view's label, the
\* labels of threads.
Delete(i) ==
  LET row == lambda[i].row IN
  /\ lambda[i].pc = "delete" /\ Goto(i, Idle)
  /\ view' = IF row \in Views THEN [view EXCEPT ![row] = None] ELSE view
  /\ label' = IF row \in Labels THEN [label EXCEPT ![row] = None] ELSE label
  /\ template' = IF row \in Templates THEN [template EXCEPT ![row] = None] ELSE template
  /\ raced' = IF \E j \in Lambdas : lambda[j].pc \in {"audit", "write"} /\ lambda[j].row = row
                THEN raced \union {row} ELSE raced
  /\ UNCHANGED <<used, audit, requests, faults, unaudited, shared>>

Step(i) ==
  \/ \E v \in Views : CreateView(i, v) \/ \E p \in {None, 0} : PatchView(i, v, p)
  \/ \E l \in Labels : CreateLabel(i, l) \/ PatchLabel(i, l)
  \/ \E t \in Templates, f \in Functions \union {None} :
       \/ PatchTemplate(i, t, f) \/ ReplaceTemplate(i, t, f)
       \/ \E failed \in BOOLEAN : CreateTemplate(i, t, f, failed)
  \/ \E row \in Rows : StartDelete(i, row)
  \/ \E failed \in BOOLEAN : PutTemplate(i, failed) \/ AuditUpdate(i, failed) \/ UpdateTemplate(i, failed)
  \/ PutView(i) \/ UpdateView(i) \/ UpdateLabel(i) \/ Delete(i)

Next == \E i \in Lambdas : Step(i)

Spec == Init /\ [][Next]_vars

-----------------------------------------------------------------------------
TypeOK ==
  /\ \A v \in Views : view[v] # None => view[v] \in Broken .. MaxRequests
  /\ label \in [Labels -> {None, "whole", "partial"}]
  /\ \A t \in Templates : template[t] # None => template[t].functions \in Functions \union {None}

\* No row is a remnant (without a name, a view without a position) unless the row was
\* deleted between the reading and the writing of another request.
RowsAreWhole ==
  /\ \A v \in Views : view[v] = Broken => v \in raced
  /\ \A l \in Labels : label[l] = "partial" => l \in raced
  /\ \A t \in Templates : template[t] # None /\ ~template[t].whole => t \in raced

\* Two views have the same place only when the user put one there or they were made at
\* the same time; a deleted view leaves no place to be taken twice.
PlacesDiffer ==
  \A u, v \in Views : u # v /\ view[u] = view[v] /\ view[u] \notin {None, Broken} => view[u] \in shared

\* The code a template runs has been audited, unless an audit write failed.
CodeIsAudited ==
  \A t \in Templates : template[t] # None /\ template[t].functions # None /\ t \notin unaudited =>
    \E e \in audit : e[1] = t /\ e[3] = template[t].functions

-----------------------------------------------------------------------------
(* Why they hold.                                                            *)

Bodies == [whole : BOOLEAN, functions : Functions \union {None}]

\* What a request may be doing when n of them have come.
PutsView(n)    == [pc : {"put view"}, row : Views, position : 0 .. n]
WritesView     == [pc : {"write"}, row : Views, position : {None, 0}]
WritesLabel    == [pc : {"write"}, row : Labels]
PutsTemplate   == [pc : {"put template"}, row : Templates, functions : Functions \union {None}]
WritesTemplate == [pc : {"audit", "write"}, row : Templates, method : {"patch", "put"},
                   before : Functions \union {None}, functions : Functions \union {None}]
Deletes        == [pc : {"delete"}, row : Rows]

Jobs(n) ==
  {Idle} \union PutsView(n) \union WritesView \union WritesLabel \union PutsTemplate
    \union WritesTemplate \union Deletes

StateOK ==
  /\ requests \in 0 .. MaxRequests
  /\ view \in [Views -> (Broken .. requests) \union {None}]
  /\ label \in [Labels -> {None, "whole", "partial"}]
  /\ template \in [Templates -> Bodies \union {None}]
  /\ lambda \in [Lambdas -> Jobs(requests)]

\* A request that goes on after the row was deleted has its row on record.
ReadersKnow ==
  /\ RowsAreWhole
  /\ \A i \in Lambdas : lambda[i].pc \in {"audit", "write"} => Exists(lambda[i].row) \/ lambda[i].row \in raced

\* The place of a view that is still to be put is free, or shared.
PlacesFree ==
  /\ PlacesDiffer
  /\ \A i \in Lambdas, v \in Views :
       lambda[i].pc = "put view" /\ view[v] = lambda[i].position => lambda[i].position \in shared

\* Functions are audited before they are written.
Audited(t, functions) == t \in unaudited \/ \E e \in audit : e[1] = t /\ e[3] = functions

AuditedFirst ==
  /\ CodeIsAudited
  /\ \A i \in Lambdas :
       /\ lambda[i].pc \in {"put template", "write"} /\ lambda[i].row \in Templates
       /\ lambda[i].functions # None
       => Audited(lambda[i].row, lambda[i].functions)

Inductive == StateOK /\ ReadersKnow /\ PlacesFree /\ AuditedFirst
=============================================================================
