------------------------------ MODULE Collapse ------------------------------
(***************************************************************************)
(* The cards a client sees for the calendar events of a thread: the loaded *)
(* snapshots of one event are collapsed into the latest, which is marked   *)
(* as cancelled, or shown with what changed since the one before it.  The  *)
(* module is a pure function of the snapshots in the order they were       *)
(* loaded; its only step is that one more of them is loaded.  Of the fields that   *)
(* are compared one stands for all, the organizer is there or not.         *)
(***************************************************************************)
EXTENDS Naturals, Sequences, FiniteSets

CONSTANTS Events, Sequence, Times, Fields, None, MaxLoaded

VARIABLE loaded     \* the snapshots, in the order of the query

Methods == {"REQUEST", "CANCEL"}
Snapshots == [event : Events, sequence : Sequence, at : Times, method : Methods,
              organizer : BOOLEAN, field : Fields]

Init == loaded = <<>>

Load(s) == Len(loaded) < MaxLoaded /\ loaded' = Append(loaded, s)

Next == \E s \in Snapshots : Load(s)
Spec == Init /\ [][Next]_loaded

TypeOK == loaded \in Seq(Snapshots) /\ Len(loaded) <= MaxLoaded

-----------------------------------------------------------------------------
GroupOf(l, e) == {i \in DOMAIN l : l[i].event = e}

\* orderInGroup: the sequence number first, the time of arrival between equals.
InOrder(s, t) == s.sequence < t.sequence \/ (s.sequence = t.sequence /\ s.at < t.at)

\* The sort is stable: between equals the place in the query decides.
Sorted(l, i, j) == InOrder(l[i], l[j]) \/ (~InOrder(l[j], l[i]) /\ i < j)
LastOf(l, S) == CHOOSE i \in S : \A j \in S \ {i} : Sorted(l, j, i)

Winner(l, e) == LastOf(l, GroupOf(l, e))
Superseded(l) == {i \in DOMAIN l : i # Winner(l, l[i].event)}

\* The card of an event: what the client is told beside the winner's own fields.
Prior(l, e) == LET S == GroupOf(l, e) \ {Winner(l, e)}
               IN  IF S = {} THEN None ELSE LastOf(l, S)

\* Mutant: any cancellation in the group cancels the event.
AnyCancel(l, e) == \E i \in GroupOf(l, e) : l[i].method = "CANCEL"
IsCancel(l, e) == l[Winner(l, e)].method = "CANCEL"

PreviousValue(l, e) ==
  LET p == Prior(l, e)
  IN  IF p = None \/ l[p].field = l[Winner(l, e)].field THEN None ELSE l[p].field

Card(l, e) ==
  LET w == l[Winner(l, e)]
  IN  [rsvpable      |-> w.method = "REQUEST" /\ w.organizer,
       cancelledAt   |-> IF IsCancel(l, e) THEN w.at ELSE None,
       previousValue |-> IF ~IsCancel(l, e) /\ w.sequence > 0 THEN PreviousValue(l, e) ELSE None]

-----------------------------------------------------------------------------
Shown(l) == {l[i].event : i \in DOMAIN l}
\* The latest states of an event, by definition: no snapshot of it is a later revision, and
\* none of the same revision arrived later.
Latest(l, e) == {i \in GroupOf(l, e) : \A j \in GroupOf(l, e) :
                   /\ l[j].sequence <= l[i].sequence
                   /\ l[j].sequence = l[i].sequence => l[j].at <= l[i].at}

\* One snapshot of an event is left to be shown, a latest one; it is shown as cancelled exactly when
\* that is, and nobody is asked to answer an event that is withdrawn.
CancelledIsLatest ==
  \A e \in Shown(loaded) :
    LET card == Card(loaded, e)
        left == GroupOf(loaded, e) \ Superseded(loaded)
    IN  /\ Cardinality(left) = 1 /\ left \subseteq Latest(loaded, e)
        /\ card.cancelledAt # None => \E i \in Latest(loaded, e) : loaded[i].method = "CANCEL" /\ loaded[i].at = card.cancelledAt
        /\ card.cancelledAt = None => \E i \in Latest(loaded, e) : loaded[i].method # "CANCEL"
        /\ ~(card.rsvpable /\ card.cancelledAt # None)

\* The change a card shows is the one from the state that held just before: no snapshot of the
\* event lies between the two.
ChangeIsFromThePrior ==
  \A e \in Shown(loaded) :
    Card(loaded, e).previousValue # None =>
      \E i \in GroupOf(loaded, e), w \in Latest(loaded, e) :
        /\ i # w /\ loaded[i].field = Card(loaded, e).previousValue
        /\ \A j \in GroupOf(loaded, e) \ {i, w} : ~InOrder(loaded[i], loaded[j])
=============================================================================
