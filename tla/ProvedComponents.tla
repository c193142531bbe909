-------------------------- MODULE ProvedComponents -------------------------
(***************************************************************************)
(* The components that module ComponentsProofs is about, side by side: a   *)
(* behaviour is of the one component that `part` names.  Its variables are *)
(* the first of v1, v2, ... in the order its module declares them; the     *)
(* rest stay empty.                                                        *)
(***************************************************************************)
EXTENDS Integers

CONSTANT None

\* Who and what there is, and how much of it may happen.
CONSTANTS
  Lambdas, Accounts, Conns, Receivers, Own, Mailbox, Targets, Login, Hooks,
  Views, Labels, Templates, Functions,
  MaxRequests, MaxAccountRequests, MaxExchanges, MaxFaults, MaxDeviceFaults, MaxTries,
  MaxPosts, MaxChecks, MaxChanges, MaxNotices, MaxReports, MaxAttempts, MaxExpiries,
  Days, Sundays, BatchSize, MaxReceives

VARIABLES part, v1, v2, v3, v4, v5, v6, v7, v8, v9,
                v10, v11, v12, v13, v14, v15, v16, v17, v18

Al == INSTANCE Aliases WITH
        domain <- v1, alias <- v2, sender <- v3, exchanges <- v4, minted <- v5,
        lambda <- v6, requests <- v7, faults <- v8, wish <- v9, lifted <- v10, excused <- v11,
        strays <- v12
Do == INSTANCE Domains WITH
        row <- v1, clock <- v2, ses <- v3, dns <- v4,
        lambda <- v5, posts <- v6, checks <- v7, faults <- v8, changes <- v9, contested <- v10,
        botched <- v11, index <- v12
Ac == INSTANCE Account WITH
        Owner <- Login, MaxRequests <- MaxAccountRequests, exists <- v1, digest <- v2, calendar <- v3,
        flags <- v4, target <- v5, rule <- v6, tokens <- v7, mailed <- v8, workflow <- v9,
        nudges <- v10, digests <- v11, lambda <- v12, requests <- v13, faults <- v14,
        chosen <- v15, told <- v16, agreed <- v17, overlap <- v18
Se == INSTANCE Settings WITH
        view <- v1, label <- v2,
        template <- v3, used <- v4, audit <- v5, lambda <- v6, requests <- v7, faults <- v8,
        raced <- v9, unaudited <- v10, shared <- v11
Fe == INSTANCE Feedback WITH
        Addresses <- Receivers, list <- v1, draft <- v2,
        ruled <- v3, reports <- v4, surfaced <- v5, lambda <- v6, faults <- v7, expiries <- v8,
        handled <- v9, outdated <- v10
De == INSTANCE Devices WITH
        MaxFaults <- MaxDeviceFaults, socket <- v1, row <- v2, lambda <- v3, tries <- v4, notices <- v5, reached <- v6,
        unsaved <- v7, removed <- v8, gone <- v9, faults <- v10
Di == INSTANCE Digest WITH
        today <- v1, account <- v2, queue <- v3, lambda <- v4, sent <- v5, twice <- v6,
        token <- v7, excused <- v8, faults <- v9, changes <- v10, opted <- v11

\* The value of what is not there is none of the values that are.
ASSUME NoneAssumption ==
  /\ None \notin Accounts /\ None \notin Targets /\ None \notin Int
  /\ None \notin {"live", "expired", "whole", "partial", "active", "disabled", "daily", "weekly"}
  /\ None \notin Do!Row /\ None \notin Fe!Entry /\ None \notin Se!Bodies
  /\ None \notin Ac!Digests /\ None \notin [status : {"pending", "verified"}, token : Nat]
\* The address the user signs in with is one that may be a target.
ASSUME LoginAssumption == Login \in Targets
\* The mailbox's address is on a foreign domain.
ASSUME MailboxAssumption == Mailbox \notin Own
\* A row is known with its kind.
ASSUME KindsAssumption ==
  Views \intersect Labels = {} /\ Views \intersect Templates = {} /\ Labels \intersect Templates = {}
ASSUME BoundsAssumption ==
  /\ MaxReports \in Nat /\ MaxTries \in Nat /\ MaxAttempts \in Nat
  /\ MaxRequests \in Nat /\ MaxExchanges \in Nat
  /\ Days \in Nat \ {0} /\ MaxReceives \in Nat

\* What a component of n variables leaves alone.
Rest1 == <<part, v2, v3, v4, v5, v6, v7, v8, v9, v10, v11, v12, v13, v14, v15, v16, v17, v18>>
Rest5 == <<part, v6, v7, v8, v9, v10, v11, v12, v13, v14, v15, v16, v17, v18>>
Rest9 == <<part, v10, v11, v12, v13, v14, v15, v16, v17, v18>>
Rest10 == <<part, v11, v12, v13, v14, v15, v16, v17, v18>>
Rest11 == <<part, v12, v13, v14, v15, v16, v17, v18>>
Rest12 == <<part, v13, v14, v15, v16, v17, v18>>
Rest13 == <<part, v14, v15, v16, v17, v18>>
Rest14 == <<part, v15, v16, v17, v18>>
Rest16 == <<part, v17, v18>>
Rest17 == <<part, v18>>
Rest18 == part

\* None of them holds anything.
Unused17 == v18 = 0
Unused16 == v17 = 0 /\ Unused17
Unused14 == v15 = 0 /\ v16 = 0 /\ Unused16
Unused13 == v14 = 0 /\ Unused14
Unused12 == v13 = 0 /\ Unused13
Unused11 == v12 = 0 /\ Unused12
Unused10 == v11 = 0 /\ Unused11
Unused9 == v10 = 0 /\ Unused10
Unused5 == v6 = 0 /\ v7 = 0 /\ v8 = 0 /\ v9 = 0 /\ Unused9
Unused1 == v2 = 0 /\ v3 = 0 /\ v4 = 0 /\ v5 = 0 /\ Unused5

ProvedInit ==
  \/ part = "aliases" /\ Al!Init /\ Unused12
  \/ part = "domains" /\ Do!Init /\ Unused12
  \/ part = "account" /\ Ac!Init
  \/ part = "settings" /\ Se!Init /\ Unused11
  \/ part = "feedback" /\ Fe!Init /\ Unused10
  \/ part = "devices" /\ De!Init /\ Unused10
  \/ part = "digest" /\ Di!Init /\ Unused11

ProvedNext ==
  \/ part = "aliases" /\ Al!Next /\ UNCHANGED Rest12
  \/ part = "domains" /\ Do!Next /\ UNCHANGED Rest12
  \/ part = "account" /\ Ac!Next /\ UNCHANGED Rest18
  \/ part = "settings" /\ Se!Next /\ UNCHANGED Rest11
  \/ part = "feedback" /\ Fe!Next /\ UNCHANGED Rest10
  \/ part = "devices" /\ De!Next /\ UNCHANGED Rest10
  \/ part = "digest" /\ Di!Next /\ UNCHANGED Rest11

values == <<part, v1, v2, v3, v4, v5, v6, v7, v8, v9, v10, v11, v12, v13, v14, v15, v16, v17, v18>>

ProvedSpec == ProvedInit /\ [][ProvedNext]_values

-----------------------------------------------------------------------------
\* An address the user blocked stays blocked, an address of a mailbox stays linked to one that is
\* there, and a domain is dropped without addresses (aliasesApi, externalExchangesApi, domainsApi).
AliasesHold == part = "aliases" =>
  Al!TypeOK /\ Al!BlockHolds /\ Al!LinksLive /\ Al!DroppedDomainIsEmpty

\* A domain is one account's, and listed as ready only with all that SES was told
\* (domainsApi, domain-identity-service).
DomainsHold == part = "domains" => Do!TypeOK /\ Do!SoleRegistrant /\ Do!ReadyWhenListed

\* A target that mail goes to has agreed and is there, and neither a retry nor a slow request takes
\* back what onboarding or the user settled (aliasesApi, accountsApi, onboarding-task-handler).
AccountHolds == part = "account" =>
  Ac!TypeOK /\ Ac!Consent /\ Ac!ReferencesLive /\ Ac!OnboardingKept /\ Ac!ChoiceStands

\* Rows of settings are whole, places of views differ, and what code runs is in the audit log
\* (viewsApi, labelsApi, templatesApi).
SettingsHold == part = "settings" =>
  Se!TypeOK /\ Se!RowsAreWhole /\ Se!PlacesDiffer /\ Se!CodeIsAudited

\* Every report of SES takes effect, a draft comes back only when its mail bounced, and a device
\* that is open is told (ses-feedback-processor, bounce-handler, ws-deliverer, device-notifier).
NotificationsHold ==
  /\ part = "feedback" => Fe!TypeOK /\ Fe!HandledIsKept /\ Fe!RevertIsDeserved
  /\ part = "devices" => De!TypeOK /\ De!OpenIsListed /\ De!DeliveredIsHeard

\* A digest comes to whom it is due and to nobody else, twice only with a cause
\* (digest-dispatcher, digest-worker, unsubscribeApi).
DigestHolds == part \in {"digest", "digests"} =>
  Di!TypeOK /\ Di!SwitchedOffIsSilent /\ Di!TwiceNeedsCause /\ Di!NobodyForgotten
=============================================================================
