------------------------------ MODULE Preferences ------------------------------
(***************************************************************************)
(* A user's preferences (userPreferenceService, userPreferenceRepository   *)
(* and their controller): a save goes through the fields of the form one   *)
(* after the other, and each is looked up first and then inserted or       *)
(* updated.  A user may have several pages open.                           *)
(***************************************************************************)
EXTENDS Integers, Sequences

CONSTANTS
  Pages,     \* pages of one user
  Fields,    \* the fields of the form, in the order of the controller
  Forms,     \* the forms that can be sent: records with these fields
  None       \* no row, and JavaScript's null

Keys == {Fields[i] : i \in DOMAIN Fields}

PreferencesAssumption ==
  /\ Fields \in Seq({"expiry", "landing", "items", "email", "theme"})
  /\ \A form \in Forms : Keys \subseteq DOMAIN form
  /\ \A i, j \in DOMAIN Fields : Fields[i] = Fields[j] => i = j

VARIABLES
  rows,    \* user_preferences: of each key its row, or None
  call     \* the request of each page

vars == <<rows, call>>

Row(v) == [value |-> v]

-----------------------------------------------------------------------------
(* The values *)

\* PREFERENCE_DEFAULTS
Default(key) ==
  CASE key = "expiry" -> None
    [] key \in {"landing", "email"} -> TRUE
    [] key = "items" -> 15
    [] OTHER -> "light"

\* What the controller makes of a field that was left empty or unchecked.
Given(key, v) ==
  CASE key = "theme" /\ v = None -> "light"
    [] key \in {"landing", "email"} -> v # None
    [] OTHER -> v

\* validatePreferenceValue
IsValid(key, v) ==
  CASE key = "expiry" -> v = None \/ v >= 0
    [] key = "items" -> v \in 5 .. 100
    [] key = "theme" -> v \in {"light", "dark"}
    [] OTHER -> TRUE

NoneAssumption == \A form \in Forms, key \in Keys : Row(Given(key, form[key])) # None

\* getAllPreferences
Shown(key) == IF rows[key] = None THEN Default(key) ELSE rows[key].value

-----------------------------------------------------------------------------
(* Requests *)

Idle == [stage |-> "idle"]

\* Somebody else's request has overlapped those under way.
Overlap(p) ==
  [q \in Pages |-> IF q # p /\ call[q].stage \notin {"idle", "saved", "refused"}
                   THEN [call[q] EXCEPT !.alone = FALSE] ELSE call[q]]

Busy(q) == call[q].stage \in {"next", "found", "missing"}

\* updatePreferences takes the form.
Save(p, form) ==
  /\ ~ Busy(p)
  /\ call' = [Overlap(p) EXCEPT ![p] =
       [stage |-> "next", form |-> form, pos |-> 1, alone |-> \A q \in Pages : ~ Busy(q)]]
  /\ UNCHANGED rows

Field(p) == Fields[call[p].pos]
Value(p) == Given(Field(p), call[p].form[Field(p)])

\* Mutant: a field that is not valid is skipped.
MutSkipField(p) ==
  /\ call[p].stage = "next" /\ call[p].pos <= Len(Fields)
  /\ call' = [call EXCEPT ![p] =
       IF ~ IsValid(Field(p), Value(p)) THEN [@ EXCEPT !.pos = @ + 1]
       ELSE [@ EXCEPT !.stage = IF rows[Field(p)] # None THEN "found" ELSE "missing"]]
  /\ UNCHANGED rows

\* setPreference validates and upsert looks the row up; what is not valid ends the
\* request.
FindField(p) ==
  /\ call[p].stage = "next" /\ call[p].pos <= Len(Fields)
  /\ call' = [call EXCEPT ![p].stage =
       IF ~ IsValid(Field(p), Value(p)) THEN "refused"
       ELSE IF rows[Field(p)] # None THEN "found" ELSE "missing"]
  /\ UNCHANGED rows

\* An update of a row that is gone changes nothing, and is no error.
UpdateField(p) ==
  /\ call[p].stage = "found"
  /\ rows' = IF rows[Field(p)] = None THEN rows ELSE [rows EXCEPT ![Field(p)] = Row(Value(p))]
  /\ call' = [call EXCEPT ![p].stage = "next", ![p].pos = @ + 1]

\* The pair of user and key is unique: an insert after another one fails.
InsertField(p) ==
  /\ call[p].stage = "missing"
  /\ IF rows[Field(p)] = None
     THEN /\ rows' = [rows EXCEPT ![Field(p)] = Row(Value(p))]
          /\ call' = [call EXCEPT ![p].stage = "next", ![p].pos = @ + 1]
     ELSE /\ call' = [call EXCEPT ![p].stage = "refused"]
          /\ UNCHANGED rows

SaveDone(p) ==
  /\ call[p].stage = "next" /\ call[p].pos > Len(Fields)
  /\ call' = [call EXCEPT ![p].stage = "saved"]
  /\ UNCHANGED rows

\* resetAllPreferences
ResetAll(p) ==
  /\ ~ Busy(p)
  /\ rows' = [key \in Keys |-> None]
  /\ call' = [Overlap(p) EXCEPT ![p] = Idle]

Init ==
  /\ rows = [key \in Keys |-> None]
  /\ call = [p \in Pages |-> Idle]

Next == \E p \in Pages :
  \/ \E form \in Forms : Save(p, form)
  \/ FindField(p) \/ UpdateField(p) \/ InsertField(p) \/ SaveDone(p)
  \/ ResetAll(p)

Spec == Init /\ [][Next]_vars

-----------------------------------------------------------------------------
(* Properties *)

\* The rows, and the stages of a request, each with a place in the form.
TypeOK ==
  /\ rows = [key \in Keys |-> rows[key]]
  /\ \A key \in Keys : rows[key] = None \/
       \E form \in Forms : rows[key] = Row(Given(key, form[key]))
  /\ call \in [Pages -> {Idle} \cup
       [stage : {"next", "found", "missing", "saved", "refused"}, form : Forms,
        pos : 1 .. (Len(Fields) + 1), alone : BOOLEAN]]
  /\ \A p \in Pages : call[p].stage \in {"found", "missing", "refused"} => call[p].pos <= Len(Fields)

\* Whatever saves overlap, a value that is stored is a valid one.
RowsAreValid ==
  /\ \A key \in Keys : rows[key] = None \/ IsValid(key, rows[key].value)
  /\ \A p \in Pages : call[p].stage \in {"found", "missing"} => IsValid(Field(p), Value(p))

\* While nobody overlaps a save, the page would show the fields it has passed as they
\* were given: none is skipped, and none is replaced by its default.
PrefixIsShown ==
  \A p \in Pages : Busy(p) /\ call[p].alone =>
    \A i \in 1 .. (call[p].pos - 1) :
      Shown(Fields[i]) = Given(Fields[i], call[p].form[Fields[i]])

\* A save is refused because of a field, or of another request at the same time.
RefusedForAReason ==
  \A p \in Pages : call[p].stage = "refused" /\ call[p].alone =>
    ~ IsValid(Field(p), Value(p))

\* A save that nobody has overlapped is the only one, and finds what it looked up.
AloneIsAlone ==
  \A p \in Pages : Busy(p) /\ call[p].alone =>
    /\ \A q \in Pages : Busy(q) => q = p
    /\ call[p].stage = "found" => rows[Field(p)] # None
    /\ call[p].stage = "missing" => rows[Field(p)] = None

\* The inductive invariant.
PreferencesInv ==
  TypeOK /\ RowsAreValid /\ PrefixIsShown /\ RefusedForAReason /\ AloneIsAlone

\* userPreferenceRepository.js:33 "Create or update a preference": a save of fields
\* that are valid is not refused.
ValidIsSaved ==
  \A p \in Pages : call[p].stage = "refused" => ~ IsValid(Field(p), Value(p))
=============================================================================
