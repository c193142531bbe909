------------------------------- MODULE Dates -------------------------------
(***************************************************************************)
(* The dates of an event as a mail states them, and as the account is      *)
(* shown them: what the classifier copied from the mail is read as a day,  *)
(* an hour and an offset, once, when the mail is classified, and what the  *)
(* event's resource is due is derived from that.                           *)
(*                                                                         *)
(* A stated date is its parts: where words stand, in which language and    *)
(* with which punctuation is left out.  The module is a pure function of   *)
(* the mail, which is read in the year it came; its only step is that a    *)
(* mail comes.  Of the zone abbreviations one names a single offset, one   *)
(* several, one none.                                                      *)
(***************************************************************************)
EXTENDS Integers

CONSTANTS
  Moments,       \* when mails come: a day and an hour, UTC
  Days,          \* the days events are on
  Hours,         \* the hours they are at
  None

VARIABLE mail

Orders == {"day_then_month", "month_then_day"}
Abbreviations == {"CET", "IST", "XYZ"}
Places == {"Berlin", "Dublin", "Jerusalem", "Kolkata"}
Numerals == {"+02:00"}

\* Ordered as numbers; the midnight of a day, and a moment in it.
Key(d) == d.year * 10000 + d.month * 100 + d.day
Midnight(d) == Key(d) * 100
At(moment) == Key(moment.day) * 100 + moment.hour

\* Only words and slashes go without a year; of the zones that slashes drop one will do.
Stated == [form : {"slash", "words", "iso", "text"}, yearless : BOOLEAN,
           hour : Hours \union {None}, zone : Numerals \union Abbreviations \union {None}]
Statable == {s \in Stated :
  /\ s.form = "text" => ~s.yearless /\ s.hour = None /\ s.zone = None
  /\ s.form = "iso" => ~s.yearless /\ (s.zone # None => s.hour # None)
  /\ s.zone \in Abbreviations => s.form = "words"}

Mail == [at : Moments, how : Stated, start : Days, end : Days \union {None},
         order : Orders, ambiguousDateFormat : Orders \union {"skip"}, account : Places]
Mails == {m \in [at : Moments, how : Statable, start : Days, end : Days \union {None},
                 order : Orders, ambiguousDateFormat : Orders \union {"skip"}, account : Places \ {"Kolkata"}] :
  /\ m.end # None => Key(m.start) <= Key(m.end)
  \* What makes no difference is not varied.
  /\ m.how.form # "slash" => m.order = "day_then_month" /\ m.ambiguousDateFormat = "skip"}

Init == mail = None
Arrive == mail = None /\ mail' \in Mails
Next == Arrive
Spec == Init /\ [][Next]_mail

TypeOK == mail = None \/ mail \in Mail

-----------------------------------------------------------------------------
(* Luxon: which days there are.                                              *)

Length(year, month) == CASE month = 2              -> IF year % 4 = 0 THEN 29 ELSE 28
                         [] month \in {4, 6, 9, 11} -> 30
                         [] OTHER                  -> 31
Valid(d) == d.month \in 1 .. 12 /\ d.day \in 1 .. Length(d.year, d.month)
Day(year, month, day) == [year |-> year, month |-> month, day |-> day]

-----------------------------------------------------------------------------
(* coerceDate                                                                *)

\* An occurrence that is no day is not after anything; the next year's may be none either.
resolveYearFree(month, day, at) ==
  LET candidate == Day(at.day.year, month, day)
  IN  IF Valid(candidate) /\ Midnight(candidate) > At(at) THEN candidate
      ELSE Day(at.day.year + 1, month, day)

Display(d, hour, offset) == [day |-> d, hour |-> hour, offset |-> offset]
InvalidDate == Display(None, None, None)      \* "Invalid DateTime", a text that is shown

\* The month and the day of the two numbers.
MonthAndDay(first, second, ambiguousDateFormat) ==
  CASE first > 12 /\ second > 12              -> None
    [] first > 12 /\ second <= 12             -> <<second, first>>
    [] first <= 12 /\ second > 12             -> <<first, second>>
    [] first <= 12 /\ second <= 12            ->
         CASE ambiguousDateFormat = "skip"           -> None
           [] ambiguousDateFormat = "month_then_day" -> <<first, second>>
           [] OTHER                                  -> <<second, first>>

\* Whatever zone follows is dropped.
coerceSlashDate(m, meant) ==
  LET read == IF m.order = "month_then_day" THEN MonthAndDay(meant.month, meant.day, m.ambiguousDateFormat)
                                            ELSE MonthAndDay(meant.day, meant.month, m.ambiguousDateFormat)
      d == IF m.how.yearless THEN resolveYearFree(read[1], read[2], m.at) ELSE Day(meant.year, read[1], read[2])
  IN  IF read # None /\ Valid(d) THEN Display(d, m.how.hour, None) ELSE None

NumericOffset == [z \in Numerals |-> 120]
Candidates == [CET |-> {"Berlin"}, IST |-> {"Dublin", "Jerusalem", "Kolkata"}, XYZ |-> {}]
Preference == [CET |-> None, IST |-> "Dublin", XYZ |-> None]
Winter == [Berlin |-> 60, Dublin |-> 0, Jerusalem |-> 120, Kolkata |-> 330]
Summer == [Berlin |-> 120, Dublin |-> 60, Jerusalem |-> 180, Kolkata |-> 330]
isSummerAbbreviation(token) == token = "IST"

\* In minutes.  A number stands for itself; an abbreviation for the one offset of its places, else for
\* that of the account or of the preferred place in the season the abbreviation names.
resolveZoneOffset(token, account) ==
  LET offsetFor == IF isSummerAbbreviation(token) THEN Summer ELSE Winter
      places == IF token \in Numerals THEN {} ELSE Candidates[token]
      one == {offsetFor[p] : p \in places}
  IN  CASE token \in Numerals           -> NumericOffset[token]
        [] \E o \in one : one = {o}     -> CHOOSE o \in one : TRUE
        [] account \in places           -> offsetFor[account]
        [] account \notin places /\ Preference[token] \in places -> offsetFor[Preference[token]]
        [] OTHER                        -> None

\* Words are tried without the year as a day of the present year; a name of a zone is read
\* as one after a time only, and is in the way otherwise.
Parsed(how, meant, at) ==
  /\ Valid(IF how.yearless THEN Day(at.day.year, meant.month, meant.day) ELSE meant)
  /\ how.zone \in Abbreviations => how.hour # None

coerceWords(m, meant) ==
  LET d == IF m.how.yearless THEN resolveYearFree(meant.month, meant.day, m.at) ELSE meant
      offset == IF m.how.zone = None \/ m.how.hour = None THEN None
                ELSE resolveZoneOffset(m.how.zone, m.account)
  IN  IF ~Parsed(m.how, meant, m.at) THEN None
      ELSE IF Valid(d) THEN Display(d, m.how.hour, offset) ELSE InvalidDate

coerceDate(m, meant) ==
  CASE m.how.form = "slash" -> coerceSlashDate(m, meant)
    [] m.how.form = "iso"   -> IF Valid(meant) THEN Display(meant, m.how.hour, IF m.how.zone = None THEN None ELSE NumericOffset[m.how.zone])
                               ELSE None
    [] m.how.form = "words" -> coerceWords(m, meant)
    [] OTHER                -> None

\* Midnight or the hour, at the offset that is shown or in the account's zone.
displayToInstant(display, account) ==
  IF display \in {None, InvalidDate} THEN None
  ELSE [day |-> display.day, hour |-> IF display.hour = None THEN 0 ELSE display.hour,
        offset |-> display.offset, place |-> IF display.offset = None THEN account ELSE None]

\* The event's resource: shown by its start, due at its end if that has a text.
deriveResourceInfo(m) ==
  LET start == coerceDate(m, m.start)
      end == IF m.end = None THEN None ELSE coerceDate(m, m.end)
      due == displayToInstant(IF end # None THEN end ELSE start, m.account)
  IN  IF start = None \/ due = None THEN None
      ELSE [displayDate |-> start, displayDateEnd |-> end, due |-> due]

-----------------------------------------------------------------------------
Fields(m) == {m.start, m.end} \ {None}
Shown(d) == d \notin {None, InvalidDate}

\* Both numbers could be the month.
Ambiguous(m, d) == m.how.form = "slash" /\ d.day <= 12
\* The mail leaves out the year of a day that is not within a year of its coming.
Elsewhen(m, d) == m.how.yearless /\ ~(Midnight(d) > At(m.at) /\ Key(d) <= Key(m.at.day) + 10000)
LeapDay(m, d) == m.how.yearless /\ d.month = 2 /\ d.day = 29

\* The day that is shown is the day that was meant, unless both orders are possible and the
\* account's is not the sender's, or the mail leaves out the year of a day which is over by
\* midnight, or a year off; and it is in the calendar.
ShownAsMeant == mail # None => \A d \in Fields(mail) :
  LET display == coerceDate(mail, d)
  IN  Shown(display) =>
        /\ Valid(display.day)
        /\ \/ display.day = d
           \/ Ambiguous(mail, d) /\ mail.ambiguousDateFormat # mail.order
           \/ Elsewhen(mail, d)

\* A date that can be read is shown: what is lost is a day the account chose to skip, a leap
\* day without its year, a zone's name without a time.
ReadableIsShown == mail # None => \A d \in Fields(mail) :
  \/ Shown(coerceDate(mail, d))
  \/ mail.how.form = "text"
  \/ Ambiguous(mail, d) /\ mail.ambiguousDateFormat # mail.order
  \/ LeapDay(mail, d)
  \/ mail.how.zone \in Abbreviations /\ mail.how.hour = None

\* The account's zone fills in for one the mail does not state and is no other's: a mail with
\* an offset is due at the same moment for every account, unless it writes its day with
\* slashes, or its abbreviation has several meanings and is used where the account is.
OffsetIsKept == mail # None /\ deriveResourceInfo(mail) # None => \A p \in Places :
  LET there == deriveResourceInfo([mail EXCEPT !.account = p])
      zone == mail.how.zone
  IN  \/ there.due = deriveResourceInfo(mail).due
      \/ zone \in {None, "XYZ"} \/ mail.how.hour = None \/ mail.how.form = "slash"
      \/ zone = "IST" /\ {mail.account, p} \intersect Candidates["IST"] # {}

\* A resource is due at the end that was meant, or at the start of an event that has none,
\* wherever these are shown as meant; a lost end hides no start but when it is a leap day.
DueAtTheEnd == mail # None =>
  LET info == deriveResourceInfo(mail)
      last == IF mail.end = None THEN mail.start ELSE mail.end
      hidden == {d \in Fields(mail) : ~Shown(coerceDate(mail, d))}
  IN  /\ info # None /\ hidden = {} => info.due.day = coerceDate(mail, last).day
      /\ info = None => mail.start \in hidden \/ LeapDay(mail, last)
=============================================================================
