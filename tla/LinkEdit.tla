------------------------------ MODULE LinkEdit ------------------------------
(***************************************************************************)
(* The settings of one link: what the forms for a new link and for an edit *)
(* send, what the schema makes of it (schemas/appSchemas.js), and what     *)
(* createLink and updateLink write.  An edit is a page that was opened     *)
(* some time ago, and its request reads the link, hashes a password and    *)
(* only then writes: edits of two tabs interleave at each of these.        *)
(*                                                                         *)
(* A date is picked as a wall-clock time, without a zone.  Here it is the  *)
(* moment that the user's clock shows it; the server's shows it ZoneShift  *)
(* later, or earlier.                                                      *)
(***************************************************************************)
EXTENDS Integers

CONSTANTS
  Tabs,        \* edit pages of the link
  Durations,   \* durations of the drop-down, in ticks
  Dates,       \* bound: dates picked as a custom expiry
  ZoneShift,   \* how much later the same wall-clock time is in the server's zone
  MaxTime,     \* bound: last tick of the clock
  MaxShortIds  \* bound: short ids given out

Time == 1 .. MaxTime

EditAssumption ==
  /\ Durations \subseteq Nat \ {0} /\ Dates \subseteq Nat \ {0}
  /\ ZoneShift \in Int /\ \A d \in Dates : d + ZoneShift \in Nat \ {0}
  /\ MaxTime \in Nat \ {0} /\ MaxShortIds \in Nat

VARIABLES
  link,     \* the row: "none" before it is created
  tab,      \* the edit pages
  now,      \* Date.now()
  issued,   \* short ids given out; they are numbered
  overlap   \* history: two updates have been under way at the same time

vars == <<link, tab, now, issued, overlap>>

NoLink == [there |-> FALSE]
Closed == [stage |-> "closed"]
Undefined == -1

Booleans == {TRUE, FALSE}

\* What a form sends.  "choice" is the drop-down: nothing, for ever, a duration or a
\* date, of which 0 is none.
Forms == [choice : {"blank", "never", "for", "custom"}, for : Durations,
          custom : Dates \cup {0}, landing : Booleans,
          password : {"blank", "given"}]

-----------------------------------------------------------------------------
(* The schema *)

\* Mutant: "for ever" is left as it is.
MutParseExpiry(form) ==
  CASE form.choice = "custom" /\ form.custom # 0 -> form.custom + ZoneShift
    [] form.choice = "for" -> now + form.for
    [] OTHER -> Undefined

\* parseExpiryTimestamp, with new Date(customExpiry) in the server's zone.  An empty
\* choice, or a custom date that was not filled in, is undefined.
ParseExpiry(form) ==
  CASE form.choice = "custom" /\ form.custom # 0 -> form.custom + ZoneShift
    [] form.choice = "never" -> 0
    [] form.choice = "for" -> now + form.for
    [] OTHER -> Undefined

\* normalizeLinkData
Normalize(form) ==
  [expires |-> ParseExpiry(form), landing |-> form.landing,
   password |-> form.password = "given"]

-----------------------------------------------------------------------------
(* createLink and updateLink *)

\* Without a landing page there is no short id, and without an expiry it is null.
Create(form) ==
  LET data == Normalize(form)
  IN  /\ ~ link.there /\ issued < MaxShortIds
      /\ issued' = IF data.landing THEN issued + 1 ELSE issued
      /\ link' = [there |-> TRUE, landing |-> data.landing,
                  short |-> IF data.landing THEN issued' ELSE 0,
                  password |-> data.password,
                  expires |-> IF data.expires = Undefined THEN 0 ELSE data.expires]
      /\ UNCHANGED <<tab, now, overlap>>

\* renderEditLinkForm.
Open(t) ==
  /\ link.there /\ tab[t].stage \in {"closed", "saved"}
  /\ tab' = [tab EXCEPT ![t] = [stage |-> "open"]]
  /\ UNCHANGED <<link, now, issued, overlap>>

\* The user sets the switches, a password and the expiry, and submits.
Submit(t, form) ==
  /\ tab[t].stage = "open"
  /\ tab' = [tab EXCEPT ![t] = [stage |-> "sent", form |-> form, at |-> now,
                                data |-> Normalize(form)]]
  /\ UNCHANGED <<link, now, issued, overlap>>

\* Only a link that had none gets one.
NewShort(data) == data.landing /\ link.short = 0

\* Mutant: the short id of a link that loses its page is kept.
MutReadLink(t) ==
  /\ tab[t].stage = "sent"
  /\ NewShort(tab[t].data) => issued < MaxShortIds
  /\ issued' = IF NewShort(tab[t].data) THEN issued + 1 ELSE issued
  /\ tab' = [tab EXCEPT ![t] = [stage |-> "read", form |-> @.form, at |-> @.at,
                                data |-> @.data,
                                short |-> IF NewShort(@.data) THEN issued' ELSE Undefined]]
  /\ overlap' = (overlap \/ \E u \in Tabs : tab[u].stage = "read")
  /\ UNCHANGED <<link, now>>

\* updateLink reads the link and decides about the short id.
ReadLink(t) ==
  /\ tab[t].stage = "sent"
  /\ NewShort(tab[t].data) => issued < MaxShortIds
  /\ issued' = IF NewShort(tab[t].data) THEN issued + 1 ELSE issued
  /\ tab' = [tab EXCEPT ![t] = [stage |-> "read", form |-> @.form, at |-> @.at,
                                data |-> @.data,
                                short |-> IF NewShort(@.data) THEN issued'
                                          ELSE IF ~ @.data.landing THEN 0 ELSE Undefined]]
  /\ overlap' = (overlap \/ \E u \in Tabs : tab[u].stage = "read")
  /\ UNCHANGED <<link, now>>

Or(new, old) == IF new = Undefined THEN old ELSE new

\* The transaction writes what has been defined, and a password if there is one.
WriteLink(t) ==
  /\ tab[t].stage = "read"
  /\ LET data == tab[t].data
     IN  link' = [link EXCEPT !.landing = data.landing,
                              !.short = Or(tab[t].short, @), !.expires = Or(data.expires, @),
                              !.password = @ \/ data.password]
  /\ tab' = [tab EXCEPT ![t] = [stage |-> "saved", data |-> @.data]]
  /\ UNCHANGED <<now, issued, overlap>>

Tick ==
  /\ now < MaxTime
  /\ now' = now + 1
  /\ UNCHANGED <<link, tab, issued, overlap>>

-----------------------------------------------------------------------------
Init ==
  /\ link = NoLink
  /\ tab = [t \in Tabs |-> Closed]
  /\ now = 1
  /\ issued = 0
  /\ overlap = FALSE

Next ==
  \/ \E form \in Forms : Create(form)
  \/ \E t \in Tabs : Open(t) \/ ReadLink(t) \/ WriteLink(t)
  \/ \E t \in Tabs, form \in Forms : Submit(t, form)
  \/ Tick

Spec == Init /\ [][Next]_vars

-----------------------------------------------------------------------------
(* Properties *)

PageHasShortId == link.there => (link.landing <=> link.short # 0)

\* As long as no two updates have overlapped, a link has a short id exactly when it
\* has a landing page, from however old a page it was edited.
PageHasShortIdAlone == overlap \/ PageHasShortId

\* As long as no two updates have overlapped, the address of a landing page stays
\* while the link has one: people have it.
AddressStays ==
  [][~ overlap /\ link.there /\ link.landing /\ link'.landing =>
       link'.short = link.short]_vars

\* edit.ejs:75 "Keep Current Expiration" and "Make Permanent": an update writes what
\* the form meant when it was sent, however long ago the page was opened and whatever
\* others have written between: a form that keeps the expiry, or whose date was not
\* filled in, keeps theirs; a duration counts from the submit; a date is the one that
\* was picked, as the server's clock shows it.
ExpiryAsChosen ==
  [][\A t \in Tabs : tab[t].stage = "read" /\ tab'[t].stage = "saved" =>
       LET form == tab[t].form
           keeps == form.choice = "blank" \/ (form.choice = "custom" /\ form.custom = 0)
       IN  /\ keeps => link'.expires = link.expires
           /\ form.choice = "never" => link'.expires = 0
           /\ form.choice = "for" => link'.expires = tab[t].at + form.for
           /\ ~ keeps /\ form.choice = "custom" => link'.expires = form.custom + ZoneShift]_vars

\* readme.md:54 "choose a specific custom date and time": the link expires at the date
\* that the user picked.
DateAsPicked ==
  [][\A t \in Tabs :
       tab[t].stage = "read" /\ tab'[t].stage = "saved" /\ tab[t].form.choice = "custom" =>
         link'.expires \in {tab[t].form.custom, link.expires}]_vars

\* linkService.js:247 "Generate/Remove Short ID based on Landing Page toggle".
ShortIdFollowsPage == PageHasShortId

\* appSchemas.js:168 "Password accepts empty string (to remove protection)".
BlankRemovesPassword ==
  \A t \in Tabs : ~ overlap /\ tab[t].stage = "saved" /\ ~ tab[t].data.password
    /\ (\A u \in Tabs \ {t} : tab[u].stage = "closed") => ~ link.password
=============================================================================
