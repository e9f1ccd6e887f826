------------------------------ MODULE MCMyLinks ------------------------------
(***************************************************************************)
(* The pages of the owner of links: their list, LinkList, and the form     *)
(* that edits one of them, LinkEdit.  The two share no variable: a         *)
(* behaviour is one of the first or one of the second, as `part` says from *)
(* the start.                                                              *)
(***************************************************************************)
EXTENDS LinkList, TLC

CONSTANTS Tabs, Durations, Dates, ZoneShift, EditTime, MaxShortIds

VARIABLES link, tab, editNow, issued, overlap, part

Edit == INSTANCE LinkEdit WITH now <- editNow, MaxTime <- EditTime

ASSUME EditFormsAssumption == Edit!EditAssumption

editVars == <<link, tab, editNow, issued, overlap>>

\* The list of what has not expired, which is all that was created for ever, and a
\* search in the trash.
MCFilters == {WithStatus("active"),
              [All("trash") EXCEPT !.name = CHOOSE n \in Names : TRUE]}

Symmetry == Permutations(Tabs)

Listing == part = "list"
Editing == part = "edit"

MyLinksInit == part \in {"list", "edit"} /\ Init /\ Edit!Init

MyLinksNext ==
  \/ Listing /\ Next /\ UNCHANGED <<editVars, part>>
  \/ Editing /\ Edit!Next /\ UNCHANGED <<vars, part>>

MyLinksSpec == MyLinksInit /\ [][MyLinksNext]_<<vars, editVars, part>>

-----------------------------------------------------------------------------
(* Properties *)

\* The counts and the filters agree, the badge and the collector are never ahead of
\* them, and a link has an address exactly when it has a page.
MyLinksInv ==
  /\ StatsMatchLists /\ ExpiredEverywhere
  /\ Edit!PageHasShortIdAlone

\* LinkEdit's: an address stays, and an expiry is kept, or is what the form chose when
\* it was sent.
EditsAsChosen == Edit!AddressStays /\ Edit!ExpiryAsChosen
=============================================================================
