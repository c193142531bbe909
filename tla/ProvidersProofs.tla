-------------------------- MODULE ProvidersProofs --------------------------
(***************************************************************************)
(* What holds of every attempt to send through a mailbox, for any number   *)
(* of attempts and failures: the adapters implement SendContract.          *)
(***************************************************************************)
EXTENDS Providers, TLAPS

Results == {"pending", "accepted", "refused", "expired", "failed"}
Steps == {"token", "draft", "upload", "send", "done"}

\* An attempt has a result when it is done; what it sent, it sent with a request that was
\* accepted or with one that was not answered, and the latter are counted. Only JMAP
\* repeats a request.
AttemptInv ==
  /\ pc \in Steps /\ result \in Results /\ taken \in BOOLEAN
  /\ attempts \in Nat /\ sent \in Nat /\ unclear \in Nat
  /\ (result = "pending") <=> (pc # "done")
  /\ repeats \in Nat
  /\ repeats > 0 => platform = "jmap"
  /\ result \in {"pending", "refused", "expired"} => (taken => repeats > 0)
  /\ pc \in {"token", "draft", "upload"} => repeats = 0
  /\ sent <= unclear + 1
  /\ result # "accepted" => sent <= unclear

\* The first request after the token is one of the three.
LEMMA HandoverSteps ==
  Handover \in {"draft", "upload", "send"} /\ (platform = "outlook" => Handover = "draft")
BY DEF Handover

\* A refusal leaves the attempt done and not sent.
LEMMA RefusedResult ==
  ASSUME Refused
  PROVE  /\ pc' = "done" /\ result' \in {"refused", "expired"}
         /\ result' = "expired" => platform # "jmap"
BY DEF Refused, Done

LEMMA AttemptInit == Init => AttemptInv
<1> SUFFICES ASSUME Init PROVE AttemptInv
  OBVIOUS
<1>1. pc = "token" /\ result = "pending" /\ attempts = 1 /\ sent = 0 /\ unclear = 0
      /\ repeats = 0
  BY DEF Init
<1>2. taken = FALSE
  BY DEF Init
<1>3. taken \in BOOLEAN /\ (taken => repeats > 0)
  BY <1>2
<1>4. pc \in Steps /\ result \in Results /\ ((result = "pending") <=> (pc # "done"))
  BY <1>1 DEF Steps, Results
<1>5. attempts \in Nat /\ sent \in Nat /\ unclear \in Nat /\ sent <= unclear + 1 /\ sent <= unclear
      /\ repeats \in Nat /\ ~(repeats > 0)
  BY <1>1
<1> QED BY <1>1, <1>3, <1>4, <1>5, Zenon DEF AttemptInv

LEMMA AttemptStep == AttemptInv /\ [Next]_vars => AttemptInv'
<1> SUFFICES ASSUME AttemptInv, [Next]_vars PROVE AttemptInv'
  OBVIOUS
<1> USE DEF AttemptInv, Steps, Results
<1>1. CASE GetToken
  BY <1>1, HandoverSteps DEF GetToken, Done, effects, mailbox
<1>2. CASE CreateDraft
  <2>1. CASE pc' = "send" /\ UNCHANGED <<result, events>>
    BY <1>2, <2>1 DEF CreateDraft
  <2>2. CASE Refused
    BY <1>2, <2>2, RefusedResult DEF CreateDraft
  <2>3. CASE NoAnswer("draft")
    BY <1>2, <2>3 DEF CreateDraft, NoAnswer, Done
  <2> QED BY <1>2, <2>1, <2>2, <2>3 DEF CreateDraft
<1>3. CASE PrepareJmap
  BY <1>3 DEF PrepareJmap, Done, effects, mailbox
<1>4. CASE Send
  <2>0. UNCHANGED <<platform, attempts, repeats>>
    BY <1>4 DEF Send
  <2>1. CASE Sending /\ Done("accepted") /\ UNCHANGED <<unclear, events>>
    BY <1>4, <2>0, <2>1 DEF Send, Sending, Done
  <2>2. CASE Refused /\ UNCHANGED <<taken, sent, threadable, unclear>>
    BY <1>4, <2>0, <2>2, RefusedResult DEF Send
  <2>3. CASE NoAnswer("import") /\ UNCHANGED <<taken, mailbox>>
    BY <1>4, <2>0, <2>3 DEF Send, NoAnswer, Done, mailbox
  <2>4. CASE NoAnswer("send") /\ Sending /\ unclear' = unclear + 1
    BY <1>4, <2>0, <2>4 DEF Send, Sending, NoAnswer, Done
  <2>5. CASE NoAnswer("send") /\ unclear' = unclear + 1 /\ UNCHANGED <<taken, sent, threadable>>
    BY <1>4, <2>0, <2>5 DEF Send, NoAnswer, Done
  <2> QED BY <1>4, <2>1, <2>2, <2>3, <2>4, <2>5 DEF Send
<1>5. CASE Repeat
  <2>1. /\ platform = "jmap" /\ repeats' = repeats + 1 /\ pc = "send"
        /\ UNCHANGED <<platform, pc, result, attempts>>
        /\ result = "pending" /\ sent <= unclear
    BY <1>5 DEF Repeat
  <2>2. /\ taken' \in BOOLEAN
        /\ sent' \in Nat /\ unclear' \in Nat /\ sent' <= unclear' /\ sent' <= unclear' + 1
    <3>1. CASE UNCHANGED <<taken, mailbox>>
      BY <2>1, <3>1 DEF mailbox
    <3>2. CASE Sending /\ unclear' = unclear + 1
      BY <2>1, <3>2 DEF Sending
    <3>3. CASE unclear' = unclear + 1 /\ UNCHANGED <<taken, sent, threadable>>
      BY <2>1, <3>3
    <3> QED BY <1>5, <3>1, <3>2, <3>3 DEF Repeat
  <2>3. repeats' \in Nat /\ repeats' > 0
    BY <2>1
  <2>4. /\ pc' \in Steps /\ result' \in Results /\ platform' = "jmap" /\ attempts' \in Nat
        /\ (result' = "pending") <=> (pc' # "done")
        /\ pc' \notin {"token", "draft", "upload"}
    BY <2>1
  <2> HIDE DEF Steps, Results
  <2> QED BY <2>2, <2>3, <2>4, Zenon
<1>6. CASE Retry
  <2>1. pc' = "token" /\ result' = "pending" /\ attempts' = attempts + 1 /\ repeats' = 0
        /\ platform' = platform
        /\ sent' = sent /\ unclear' = unclear /\ sent <= unclear
    BY <1>6 DEF Retry, MayRetry, mailbox
  <2>2. taken' = FALSE
    BY <1>6 DEF Retry
  <2>3. taken' \in BOOLEAN /\ (taken' => repeats' > 0)
    BY <2>2
  <2>4. pc' \in Steps /\ result' \in Results /\ ((result' = "pending") <=> (pc' # "done"))
    BY <2>1
  <2>5. attempts' \in Nat /\ sent' \in Nat /\ unclear' \in Nat /\ repeats' \in Nat
        /\ sent' <= unclear' + 1 /\ sent' <= unclear' /\ ~(repeats' > 0)
    BY <2>1
  <2> HIDE DEF Steps, Results
  <2> QED BY <2>1, <2>3, <2>4, <2>5, Zenon
<1>7. CASE UNCHANGED vars
  BY <1>7 DEF vars
<1> QED BY <1>1, <1>2, <1>3, <1>4, <1>5, <1>6, <1>7 DEF Next

LEMMA AttemptAlways == Spec => []AttemptInv
BY AttemptInit, AttemptStep, PTL DEF Spec

\* Every adapter, whatever its provider answers, implements the contract the send path
\* relies on: what it calls accepted was sent, what it calls refused was not but with a
\* request it repeated, as JMAP's does, and only an attempt that is open or met an expired
\* token is made again.
THEOREM ImplementsContract == Spec => ContractKept
<1>1. Init => Contract!Init
  BY DEF Init, Contract!Init
<1>2. AttemptInv /\ [Next]_vars
        => [Contract!Next]_<<result, taken, repeats > 0, attempts>>
  <2> SUFFICES ASSUME AttemptInv, [Next]_vars
               PROVE  Contract!Next \/ UNCHANGED <<result, taken, repeats > 0, attempts>>
    OBVIOUS
  <2> USE DEF AttemptInv, Results
  <2>1. CASE GetToken
    BY <2>1 DEF GetToken, Done, effects, Contract!Next, Contract!Attempt
  <2>2. CASE CreateDraft
    BY <2>2, RefusedResult DEF CreateDraft, NoAnswer, Done, Contract!Next, Contract!Attempt
  <2>3. CASE PrepareJmap
    BY <2>3 DEF PrepareJmap, Done, effects, Contract!Next, Contract!Attempt
  <2>4. CASE Send
    <3>0. pc = "send" /\ result = "pending" /\ UNCHANGED <<platform, attempts, repeats>>
      BY <2>4 DEF Send
    <3>1. CASE Sending /\ Done("accepted")
      BY <3>0, <3>1 DEF Sending, Done, Contract!Next, Contract!Attempt
    <3>2. CASE Refused /\ UNCHANGED taken
      <4>1. result' = "expired" => ~(repeats > 0) /\ taken = FALSE
        BY <3>0, <3>2, RefusedResult
      <4>2. QED
        BY <3>0, <3>2, <4>1, RefusedResult DEF Contract!Next, Contract!Attempt
    <3>3. CASE result' = "failed" /\ (UNCHANGED taken \/ Sending)
      BY <3>0, <3>3 DEF Sending, Contract!Next, Contract!Attempt
    <3> QED BY <2>4, <3>1, <3>2, <3>3 DEF Send, NoAnswer, Done
  <2>5. CASE Repeat
    <3>1. pc = "send" /\ repeats' = repeats + 1 /\ UNCHANGED <<result, attempts>>
      BY <2>5 DEF Repeat
    <3>2. result = "pending" /\ repeats' > 0
      BY <3>1
    <3>3. taken' \in {taken, TRUE}
      BY <2>5 DEF Repeat, Sending
    <3>4. QED
      BY <3>1, <3>2, <3>3 DEF Contract!Next, Contract!Repeat
  <2>6. CASE Retry
    <3>1. repeats' = 0
      BY <2>6 DEF Retry
    <3>2. QED
      BY <2>6, <3>1 DEF Retry, MayRetry, Contract!Next, Contract!Retry
  <2>7. CASE UNCHANGED vars
    BY <2>7 DEF vars
  <2> QED BY <2>1, <2>2, <2>3, <2>4, <2>5, <2>6, <2>7 DEF Next
<1> QED BY <1>1, <1>2, AttemptAlways, PTL DEF Spec, ContractKept, Contract!Spec

\* A mail the user is told was refused went out only with a request nothing answered, in
\* an earlier attempt or, where the JMAP adapter repeats its request, in this one.
THEOREM RefusedWasNotSent == Spec => []RefusedIsNotSent
<1>1. AttemptInv => RefusedIsNotSent
  BY DEF AttemptInv, RefusedIsNotSent
<1> QED BY <1>1, AttemptAlways, PTL

\* A mail goes out twice only after a request to send that nothing answered, whoever made
\* the next one.
THEOREM RepeatsNeedSilence == Spec => []TwiceNeedsSilence
<1>1. AttemptInv => TwiceNeedsSilence
  BY DEF AttemptInv, TwiceNeedsSilence
<1> QED BY <1>1, AttemptAlways, PTL
=============================================================================
