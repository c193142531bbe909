----------------------------- MODULE Classifier -----------------------------
(***************************************************************************)
(* What becomes of the answer of the language model that classifies a      *)
(* mail.  The model was shown the mail with its links replaced by numbered *)
(* references, and may answer anything: nothing, half a text, values of    *)
(* another type, references that lead nowhere.  The module is a pure       *)
(* function of the answer; its only step is that one comes.                *)
(*                                                                         *)
(* A text is a sequence of parts: links of the mail, references to links,  *)
(* and words.  The same text stands in a field for a link and in a plain   *)
(* one.  Of the mail's links every one has a reference.                    *)
(***************************************************************************)
EXTENDS Naturals, Sequences, SequencesExt

CONSTANTS
  Texts,         \* what a field or an action may hold
  None

VARIABLE answer

Links == {"a.example", "b.example"}
linkMap == [r \in {"[link-1]", "[link-2]"} |-> IF r = "[link-1]" THEN "a.example" ELSE "b.example"]
References == {"[link-1]", "[link-2]", "[link-9]"}

Types == {"string", "enum", "number", "boolean", "array"}
\* JSON values: an enumerated word in other letters, a word, "42", "1" and "yes" are texts.
Values == {"Member", "word", "42", "1", "yes", "none", "number", "one", "true", "list", "object"}

Failures == {"no answer", "no JSON", "truncated"}
Answer(kind, workflow, text, listed, unsubscribe, actions, type, value, tags, labels) ==
  [kind |-> kind, workflow |-> workflow,
   text |-> text, listed |-> listed,      \* the link's field is one that buildSignal knows
   unsubscribe |-> unsubscribe,           \* the link of the mail's headers or body
   actions |-> actions, type |-> type, value |-> value, tags |-> tags, labels |-> labels]

\* What does not bear on one another is not varied together.
Answers ==
  {Answer("json", "known", t, l, u, a, "string", "word", {}, {}) :
     t \in Texts \union {None}, l \in BOOLEAN, u \in {None, "a.example"},
     a \in {<<>>} \union {<<x>> : x \in Texts} \union {<<x, y>> : x, y \in Texts}}
  \union
  {Answer(k, w, None, TRUE, None, <<>>, y, v, g, b) :
     k \in Failures \union {"json"}, w \in {"known", "plural", "reserved", "unknown", "none"}, y \in Types,
     v \in Values, g \in {{}, {"phishing", "invented"}}, b \in {{}, {"own", "invented"}}}

Init == answer = None
Classify == answer = None /\ answer' \in Answers
Next == Classify
Spec == Init /\ [][Next]_answer

TypeOK == answer = None \/ (answer.text \in Texts \union {None} /\ answer.type \in Types /\ answer.value \in Values)

-----------------------------------------------------------------------------
(* coerceWorkflowData                                                        *)

TextValues == {"Member", "word", "42", "1", "yes", "none"}

coerceString(v) == CASE v \in TextValues      -> v
                     [] v = "number"          -> "42"
                     [] v = "one"             -> "1"
                     [] v = "true"            -> "word"
                     [] OTHER                 -> None
coerceNumericToString(v) == CASE v \in {"42", "number"} -> "42"
                              [] v \in {"1", "one"}     -> "1"
                              [] OTHER                  -> None
coerceBoolean(v) == IF v \in {"true", "yes", "1", "one"} THEN "true" ELSE None
coerceEnumValue(v) == IF v = "Member" THEN "member" ELSE None

\* A placeholder counts as nothing before any of this.
coerceWorkflowData(type, v) ==
  IF v = "none" THEN None
  ELSE CASE type = "string"  -> coerceString(v)
         [] type = "number"  -> coerceNumericToString(v)
         [] type = "boolean" -> coerceBoolean(v)
         [] type = "enum"    -> coerceEnumValue(v)
         [] OTHER            -> IF v = "list" THEN v ELSE None

-----------------------------------------------------------------------------
(* classify                                                                  *)

isValidUrl(t) == t # <<>> /\ t[1] \in Links

\* In a field for links: a link or a whole reference, else nothing.
KeptLink(t) == IF t = None \/ isValidUrl(t) \/ (Len(t) = 1 /\ t[1] \in References) THEN t ELSE None

Resolved(part) == IF part \in DOMAIN linkMap THEN linkMap[part] ELSE part
\* References in a text become links; those that lead nowhere go, and with the only one
\* the text.
resolveLinkTokens(t) ==
  IF t = None \/ t \in {<<r>> : r \in References \ DOMAIN linkMap} THEN None
  ELSE LET known == SelectSeq(t, LAMBDA part : part \notin References \ DOMAIN linkMap)
       IN  [i \in DOMAIN known |-> Resolved(known[i])]

\* Of an action only a whole reference is resolved; what then is no link goes.
ValidActions(actions) ==
  SelectSeq([i \in DOMAIN actions |-> IF Len(actions[i]) = 1 THEN <<Resolved(actions[i][1])>> ELSE actions[i]],
            isValidUrl)

\* A near name is taken for the workflow, a placeholder for none; the one that is only for
\* the health check is not refused.
Workflow(a) == CASE a.workflow = "none"     -> "unspecified"
                 [] a.workflow = "reserved" -> "healthcheck"
                 [] OTHER                   -> "known"

Unspecified == [workflow |-> "unspecified", link |-> None, note |-> None, value |-> None,
                tags |-> {}, labels |-> {}, actions |-> <<>>]

\* What the model says cannot fail the mail: without an answer that can be read the mail
\* goes on unspecified.
classify(a) ==
  IF a.kind \in Failures \/ a.workflow = "unknown" THEN Unspecified
  ELSE [workflow |-> Workflow(a), link |-> resolveLinkTokens(KeptLink(a.text)), note |-> resolveLinkTokens(a.text),
        value |-> coerceWorkflowData(a.type, a.value), tags |-> a.tags \intersect {"phishing"},
        labels |-> a.labels \intersect {"own"}, actions |-> ValidActions(a.actions)]

\* buildSignal: an action goes whose link is that of an earlier one, of the field, if that is
\* one of those known, or of the way to unsubscribe.
Claimed(a, c) == ({<<a.unsubscribe>>} \ {<<None>>}) \union (IF a.listed THEN {c.link} \ {None} ELSE {})
Deduplicated(a, c) ==
  FoldLeft(LAMBDA kept, x : IF x \in Claimed(a, c) \union ToSet(kept) THEN kept ELSE Append(kept, x), <<>>, c.actions)

buildSignal(a) == LET c == classify(a) IN [c EXCEPT !.actions = Deduplicated(a, c)]

-----------------------------------------------------------------------------
Referring(t) == t # None /\ \E i \in DOMAIN t : t[i] \in References

\* No reference reaches a field the client shows, and none an action unless it stands
\* behind a link; a field for links holds a link or nothing, and so does every action.
NoReferenceIsShown == answer # None =>
  LET s == buildSignal(answer)
  IN  /\ ~Referring(s.link) /\ ~Referring(s.note)
      /\ s.link # None => isValidUrl(s.link)
      /\ \A i \in DOMAIN s.actions : isValidUrl(s.actions[i]) /\ (Referring(s.actions[i]) => Len(s.actions[i]) > 1)

\* A link is offered once: no two actions have the same, and no action that of a field or of
\* the way to unsubscribe, but for a field that is missing from the list (eventUrl).
OfferedOnce == answer # None =>
  LET s == buildSignal(answer)
  IN  \A i \in DOMAIN s.actions :
        /\ \A j \in DOMAIN s.actions : s.actions[i] = s.actions[j] => i = j
        /\ s.actions[i] # <<answer.unsubscribe>>
        /\ s.actions[i] = s.link => ~answer.listed

\* And nothing else goes: a link the model found for an action is offered somewhere.
NoLinkIsLost == answer # None =>
  LET s == buildSignal(answer)
  IN  answer.kind \notin Failures /\ answer.workflow # "unknown" =>
        \A i \in DOMAIN answer.actions : isValidUrl(answer.actions[i]) =>
          answer.actions[i] \in ToSet(s.actions) \union {s.link, <<answer.unsubscribe>>}

\* Every field has its type or nothing, no placeholder stands for a value, and what has the
\* type is not lost.
FieldsAreTyped == answer # None =>
  LET v == coerceWorkflowData(answer.type, answer.value)
      Typed == [string |-> TextValues \ {"none"}, enum |-> {"member"}, number |-> {"42", "1"}, boolean |-> {"true"}, array |-> {"list"}]
  IN  /\ v = None \/ v \in Typed[answer.type]
      /\ answer.value \in Typed[answer.type] => v = answer.value
=============================================================================
