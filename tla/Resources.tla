----------------------------- MODULE Resources -----------------------------
(***************************************************************************)
(* The resources of one thread: what its mails say is due (here events,    *)
(* the one kind whose resources are merged).  A mail creates or updates    *)
(* the item of its key; only the user sets a status.  Mails that name one  *)
(* event in different words make several items, which every read merges    *)
(* anew, and a change of status goes to the whole group.                   *)
(***************************************************************************)
EXTENDS Integers, FiniteSets, Sequences, SequencesExt

CONSTANTS
  Names,         \* 1 .. n: the words mails use for an event; neighbours match
  Tickets,       \* numbers above them: ticket references, which are keys of their own
  None,
  Lambdas,       \* concurrent PATCH requests
  MaxMails, MaxPatches, MaxFaults, MaxExpiries

VARIABLES
  item,          \* [key -> None or the stored resource]
  clock,         \* updatedAt of the next write
  seen,          \* ids the user has been given: of a list or of an answer
  lambda,
  mails, patches, faults, expiries,
  set            \* history: the last status change answered with 200, if no other
                 \* change of status and no expiry came since

vars == <<item, clock, seen, lambda, mails, patches, faults, expiries, set>>

Keys == Names \union Tickets
Idle == [pc |-> "idle"]
Statuses == {"active", "complete"}

Init ==
  /\ item = [k \in Keys |-> None] /\ clock = 1 /\ seen = {}
  /\ lambda = [i \in Lambdas |-> Idle]
  /\ mails = 0 /\ patches = 0 /\ faults = 0 /\ expiries = 0 /\ set = None

-----------------------------------------------------------------------------
(* collapseResources.                                                        *)

\* Substrings of one another, on the same day: not transitive ("Gala", "Gala Evening",
\* "Evening").
Matches(a, b) == a - b \in {-1, 0, 1}

\* A merged resource takes the fields of the side updated last; resolvedAt is kept
\* where the other side has none.
mergeInto(target, other) ==
  IF other.updated > target.updated
    THEN [other EXCEPT !.resolved = @ \/ target.resolved]
    ELSE target

\* One resource after another, in key order, joins the first group it matches as the
\* group looks by then.
Place(merged, r) ==
  LET j == SelectInSeq(merged, LAMBDA m : Matches(m.resource.name, r.name)) IN
  IF j = 0
    THEN Append(merged, [resource |-> r, members |-> {r.key}])
    ELSE [merged EXCEPT ![j] = [resource |-> mergeInto(@.resource, r), members |-> @.members \union {r.key}]]

Stored(items) ==
  LET keys == SetToSortSeq({k \in Keys : items[k] # None}, LAMBDA a, b : a < b) IN
  [n \in 1 .. Len(keys) |-> items[keys[n]]]

collapseResources(items) == ToSet(FoldLeft(Place, <<>>, Stored(items)))

\* res- or res-cmp- and the key of the surviving item.
IdOf(group) == [key |-> group.resource.key, compound |-> Cardinality(group.members) > 1]

-----------------------------------------------------------------------------
(* A mail (incoming-email-processor) and the clock.                          *)

\* Mutant: a mail reopens what it is about.
Reopened(was, key, name) ==
  [key |-> key, name |-> name, updated |-> clock, status |-> "active", resolved |-> was # None /\ was.resolved]
\* saveResource: status only when the item is new.
saveResource(was, key, name) ==
  [key |-> key, name |-> name, updated |-> clock,
   status |-> IF was = None THEN "active" ELSE was.status, resolved |-> was # None /\ was.resolved]

\* The natural key: the ticket reference, else the name.
Mail(name, ticket) ==
  LET key == IF ticket = None THEN name ELSE ticket IN
  /\ mails < MaxMails /\ mails' = mails + 1
  /\ item' = [item EXCEPT ![key] = saveResource(@, key, name)]
  /\ clock' = clock + 1
  /\ UNCHANGED <<seen, lambda, patches, faults, expiries, set>>

\* The mail cannot save its resource: logged, and the mail goes on.  The same when its
\* date cannot be read.
MailWithout == mails < MaxMails /\ mails' = mails + 1
            /\ UNCHANGED <<item, clock, seen, lambda, patches, faults, expiries, set>>

Disturbed(l) == [i \in Lambdas |-> IF l[i] = Idle THEN Idle ELSE [l[i] EXCEPT !.alone = FALSE]]

\* A year after it was due.
Expire(k) ==
  /\ item[k] # None /\ expiries < MaxExpiries /\ expiries' = expiries + 1
  /\ item' = [item EXCEPT ![k] = None]
  /\ set' = None /\ lambda' = Disturbed(lambda)
  /\ UNCHANGED <<clock, seen, mails, patches, faults>>

-----------------------------------------------------------------------------
(* The API.                                                                  *)

\* The list, of all statuses or of one: the groups are those of what is listed.
List(status) ==
  /\ seen' = seen \union
       {IdOf(g) : g \in collapseResources([k \in Keys |->
          IF item[k] # None /\ (status = "all" \/ item[k].status = status) THEN item[k] ELSE None])}
  /\ seen' # seen
  /\ UNCHANGED <<item, clock, lambda, mails, patches, faults, expiries, set>>

\* resolveCompoundMemberSks: the members of the group the id's item survives in, now.
\* Empty when another item has taken its place.
Shown(key) == UNION {g.members : g \in {h \in collapseResources(item) : h.resource.key = key}}
Members(id) == IF id.compound THEN Shown(id.key) ELSE {id.key}

\* The item of the id is read, then the thread's items.  Not found: 404.
Patch(i, id, status) ==
  /\ lambda[i] = Idle /\ id \in seen /\ item[id.key] # None
  /\ patches < MaxPatches /\ patches' = patches + 1
  /\ lambda' = [lambda EXCEPT ![i] = [pc |-> "members", id |-> id, status |-> status, alone |-> TRUE]]
  /\ UNCHANGED <<item, clock, seen, mails, faults, expiries, set>>

Resolve(i) ==
  LET w == lambda[i] IN
  /\ w.pc = "members"
  /\ lambda' = [lambda EXCEPT ![i] = [pc |-> "write", id |-> w.id, status |-> w.status, alone |-> w.alone,
                  shown |-> IF w.id.compound THEN Shown(w.id.key) ELSE {w.id.key}, at |-> clock,
                  left |-> Members(w.id), size |-> Cardinality(Members(w.id)), primary |-> FALSE, err |-> FALSE]]
  /\ clock' = clock + 1
  /\ UNCHANGED <<item, seen, mails, patches, faults, expiries, set>>

\* setResourceStatus: only an item that is there.
setResourceStatus(was, w, k) ==
  IF was = None THEN None
  ELSE [was EXCEPT !.status = w.status, !.updated = w.at, !.resolved = w.status = "complete"]

\* The writes go out together and land in any order; updatedAt is the moment they
\* were made.
Write(i, k, failed) ==
  LET w == lambda[i] IN
  /\ w.pc = "write" /\ k \in w.left
  /\ failed => faults < MaxFaults
  /\ faults' = IF failed THEN faults + 1 ELSE faults
  /\ item' = IF failed THEN item ELSE [item EXCEPT ![k] = setResourceStatus(@, w, k)]
  /\ set' = None
  /\ lambda' = [Disturbed(lambda) EXCEPT ![i] =
       [w EXCEPT !.left = @ \ {k}, !.err = @ \/ failed,
                 !.primary = @ \/ (k = w.id.key /\ ~failed /\ item[k] # None)]]
  /\ UNCHANGED <<clock, seen, mails, patches, expiries>>

\* 500 when a write failed, 404 when the id's own item was not among those written.
Answer(i) ==
  LET w == lambda[i]
      ok == ~w.err /\ w.primary
      id == [key |-> w.id.key, compound |-> w.size > 1]
  IN
  /\ w.pc = "write" /\ w.left = {}
  /\ lambda' = [lambda EXCEPT ![i] = Idle]
  /\ seen' = IF ok THEN seen \union {id} ELSE seen
  /\ set' = IF ok /\ w.alone THEN [id |-> id, status |-> w.status, shown |-> w.shown, at |-> w.at + 1]
            ELSE IF ok THEN None ELSE set
  /\ UNCHANGED <<item, clock, mails, patches, faults, expiries>>

Next ==
  \/ \E name \in Names, ticket \in Tickets \union {None} : Mail(name, ticket)
  \/ MailWithout
  \/ \E k \in Keys : Expire(k)
  \/ \E s \in Statuses \union {"all"} : List(s)
  \/ \E i \in Lambdas :
       \/ \E id \in seen, s \in Statuses : Patch(i, id, s)
       \/ Resolve(i) \/ Answer(i)
       \/ \E k \in Keys, failed \in BOOLEAN : Write(i, k, failed)

Spec == Init /\ [][Next]_vars

-----------------------------------------------------------------------------
TypeOK ==
  /\ \A k \in Keys : item[k] # None => item[k].key = k /\ item[k].status \in Statuses /\ item[k].updated < clock
  /\ \A id \in seen : id.key \in Keys

\* No item comes into being but by a mail: a status change that meets one that has
\* expired leaves nothing behind.
NoPartialItem == \A k \in Keys : item[k] # None => item[k].name \in Names

\* A status change answered with 200 reached every item that was shown as the resource,
\* and no mail undoes it: until the user changes a status again or an item expires, all
\* of them have it.
PatchReachesAll == set # None => \A k \in set.shown : item[k].status = set.status

\* "A reshuffled group self-corrects": the id of an answer stands for a resource the list
\* shows, as long as nothing has changed.
\* It fails: a group whose items swap places is listed under another of their ids.
IdSelfCorrects ==
  set # None /\ set.at = clock => \E g \in collapseResources(item) : g.resource.key = set.id.key
=============================================================================
