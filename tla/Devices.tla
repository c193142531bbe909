------------------------------ MODULE Devices ------------------------------
(***************************************************************************)
(* Who hears of a mail at once: the WebSocket connections of one account,  *)
(* the rows that list them, and the notifier that writes to each listed    *)
(* connection and tells its caller, a side-effect message that is tried    *)
(* again, whether anyone was reached.  A row is written before its         *)
(* connection opens and is removed only when a write finds it gone or its  *)
(* two hours pass.                                                         *)
(*                                                                         *)
(* No code path saves a mobile device, so the mobile branches of the store *)
(* and the deliverer for them are left out.                                *)
(***************************************************************************)
EXTENDS Naturals, FiniteSets

CONSTANTS
  Conns,         \* connection ids; one is used once
  None,
  Lambdas,       \* concurrent notifications
  MaxNotices, MaxTries, MaxFaults

VARIABLES
  socket,        \* [connection -> what API Gateway knows: new, opening, open, closed]
  row,           \* [connection -> the device row: None, "live", "expired"]
  lambda,
  tries,         \* times each notice has been started
  notices,       \* [notice -> "queued", "delivered", "dropped"]
  reached,       \* history: <<notice, connection>> written to an open connection
  unsaved,       \* history: connections whose row could not be saved
  removed,       \* history: connections whose row a write removed before they opened
  gone,          \* history: <<notice, connection>> found gone, <<notice, None>> nobody listed
  faults

vars == <<socket, row, lambda, tries, notices, reached, unsaved, removed, gone, faults>>

Notices == 1 .. MaxNotices
Idle == [pc |-> "idle"]
Goto(i, w) == lambda' = [lambda EXCEPT ![i] = w]
MayFail(failed) == /\ failed => faults < MaxFaults
                   /\ faults' = IF failed THEN faults + 1 ELSE faults

Init ==
  /\ socket = [c \in Conns |-> "new"] /\ row = [c \in Conns |-> None]
  /\ lambda = [i \in Lambdas |-> Idle]
  /\ tries = [n \in Notices |-> 0] /\ notices = [n \in Notices |-> "queued"]
  /\ reached = {} /\ unsaved = {} /\ removed = {} /\ gone = {} /\ faults = 0

-----------------------------------------------------------------------------
(* Connections.                                                              *)

\* $connect saves the row; the connection opens whether or not that worked.
Connect(c, failed) ==
  /\ socket[c] = "new" /\ MayFail(failed)
  /\ socket' = [socket EXCEPT ![c] = "opening"]
  /\ row' = IF failed THEN row ELSE [row EXCEPT ![c] = "live"]
  /\ unsaved' = IF failed THEN unsaved \union {c} ELSE unsaved
  /\ UNCHANGED <<lambda, tries, notices, reached, removed, gone>>

\* API Gateway opens the connection when $connect has answered.
Open(c) ==
  /\ socket[c] = "opening" /\ socket' = [socket EXCEPT ![c] = "open"]
  /\ UNCHANGED <<row, lambda, tries, notices, reached, unsaved, removed, gone, faults>>

\* $disconnect leaves the row where it is.
Disconnect(c) ==
  /\ socket[c] = "open" /\ socket' = [socket EXCEPT ![c] = "closed"]
  /\ UNCHANGED <<row, lambda, tries, notices, reached, unsaved, removed, gone, faults>>

\* Two hours after $connect, when API Gateway has closed the connection.
TtlPasses(c) ==
  /\ socket[c] = "closed" /\ row[c] = "live"
  /\ row' = [row EXCEPT ![c] = "expired"]
  /\ UNCHANGED <<socket, lambda, tries, notices, reached, unsaved, removed, gone, faults>>

\* DynamoDB removes an expired row, up to two days later.
Sweep(c) ==
  /\ row[c] = "expired" /\ row' = [row EXCEPT ![c] = None]
  /\ UNCHANGED <<socket, lambda, tries, notices, reached, unsaved, removed, gone, faults>>

-----------------------------------------------------------------------------
(* DeviceNotifier.deliver, as the consumer of a side-effect message.         *)

Listed == {c \in Conns : row[c] = "live"}

List(i, n, failed) ==
  /\ lambda[i] = Idle /\ notices[n] = "queued" /\ tries[n] < MaxTries
  /\ \A j \in Lambdas : lambda[j] # Idle => lambda[j].notice # n
  /\ MayFail(failed)
  /\ tries' = [tries EXCEPT ![n] = @ + 1]
  /\ Goto(i, IF failed THEN [pc |-> "failed", notice |-> n]
             ELSE [pc |-> "deliver", notice |-> n, left |-> Listed, listed |-> Listed, ok |-> {}])
  /\ gone' = IF ~failed /\ Listed = {} THEN gone \union {<<n, None>>} ELSE gone
  /\ UNCHANGED <<socket, row, notices, reached, unsaved, removed>>

Written(i, c, counts) ==
  Goto(i, [lambda[i] EXCEPT !.left = @ \ {c}, !.ok = IF counts THEN @ \union {c} ELSE @])

CanWrite(i, c) == lambda[i].pc = "deliver" /\ c \in lambda[i].left

WriteToOpen(i, c) ==
  /\ CanWrite(i, c) /\ socket[c] = "open"
  /\ reached' = reached \union {<<lambda[i].notice, c>>}
  /\ Written(i, c, TRUE)
  /\ UNCHANGED <<socket, row, tries, notices, unsaved, removed, gone, faults>>

\* The connection is closed, or not open yet: its row is removed, and this too counts
\* as a delivery.  A failure to remove it is ignored.
WriteToGone(i, c, failed) ==
  /\ CanWrite(i, c) /\ socket[c] # "open" /\ MayFail(failed)
  /\ row' = IF failed THEN row ELSE [row EXCEPT ![c] = None]
  /\ removed' = IF failed \/ socket[c] = "closed" THEN removed ELSE removed \union {c}
  /\ gone' = gone \union {<<lambda[i].notice, c>>}
  /\ Written(i, c, TRUE)
  /\ UNCHANGED <<socket, tries, notices, reached, unsaved>>

WriteFails(i, c) ==
  /\ CanWrite(i, c) /\ MayFail(TRUE)
  /\ Written(i, c, FALSE)
  /\ UNCHANGED <<socket, row, tries, notices, reached, unsaved, removed, gone>>

Succeeded(w) == w.ok # {} \/ w.listed = {}

Verdict(i) ==
  LET w == lambda[i] IN
  /\ w.pc = "deliver" /\ w.left = {}
  /\ IF Succeeded(w)
       THEN Goto(i, Idle) /\ notices' = [notices EXCEPT ![w.notice] = "delivered"]
       ELSE Goto(i, [pc |-> "failed", notice |-> w.notice]) /\ UNCHANGED notices
  /\ UNCHANGED <<socket, row, tries, reached, unsaved, removed, gone, faults>>

\* The error goes back to the queue, which drops the message in the end.
GiveBack(i) ==
  LET n == lambda[i].notice IN
  /\ lambda[i].pc = "failed" /\ Goto(i, Idle)
  /\ notices' = IF tries[n] >= MaxTries THEN [notices EXCEPT ![n] = "dropped"] ELSE notices
  /\ UNCHANGED <<socket, row, tries, reached, unsaved, removed, gone, faults>>

Next ==
  \/ \E c \in Conns :
       \/ \E failed \in BOOLEAN : Connect(c, failed)
       \/ Open(c) \/ Disconnect(c) \/ TtlPasses(c) \/ Sweep(c)
  \/ \E i \in Lambdas :
       \/ \E n \in Notices, failed \in BOOLEAN : List(i, n, failed)
       \/ \E c \in Conns, failed \in BOOLEAN : WriteToGone(i, c, failed)
       \/ \E c \in Conns : WriteToOpen(i, c) \/ WriteFails(i, c)
       \/ Verdict(i) \/ GiveBack(i)

Spec == Init /\ [][Next]_vars

-----------------------------------------------------------------------------
TypeOK ==
  /\ socket \in [Conns -> {"new", "opening", "open", "closed"}]
  /\ row \in [Conns -> {None, "live", "expired"}]
  /\ notices \in [Notices -> {"queued", "delivered", "dropped"}]

\* An open connection is listed, so that it hears of the next mail, unless its row
\* could not be saved or a notice met it in the moment before it opened.
OpenIsListed ==
  \A c \in Conns : socket[c] = "open" => row[c] = "live" \/ c \in unsaved \union removed

\* A notice taken as delivered was written to an open connection, unless nobody was
\* listed or a listed connection was found gone, in this or an earlier try.
DeliveredIsHeard ==
  \A n \in Notices : notices[n] = "delivered" =>
    \E c \in Conns \union {None} : <<n, c>> \in reached \union gone

-----------------------------------------------------------------------------
(* Why they hold.                                                            *)

Delivery == [pc : {"deliver"}, notice : Notices, left : SUBSET Conns, listed : SUBSET Conns,
             ok : SUBSET Conns]
Failure  == [pc : {"failed"}, notice : Notices]

StateOK ==
  /\ TypeOK
  /\ lambda \in [Lambdas -> {Idle} \union Delivery \union Failure]
  /\ tries \in [Notices -> Nat]

\* A row is written before its connection opens and ends after it has closed, so from
\* the first on it is there unless it could not be saved or a write removed it.
ListedWhileOpen == \A c \in Conns :
  /\ socket[c] \in {"opening", "open"} => row[c] = "live" \/ c \in unsaved \union removed
  /\ row[c] = "expired" => socket[c] = "closed"

\* What counts as a delivery left its trace.
OkIsHeard ==
  /\ DeliveredIsHeard
  /\ \A i \in Lambdas : lambda[i].pc = "deliver" =>
       /\ \A c \in lambda[i].ok : <<lambda[i].notice, c>> \in reached \union gone
       /\ lambda[i].listed = {} => <<lambda[i].notice, None>> \in gone

Inductive == StateOK /\ ListedWhileOpen /\ OkIsHeard
=============================================================================
