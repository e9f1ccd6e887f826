-------------------------------- MODULE MCUsers --------------------------------
(***************************************************************************)
(* Users and their passwords, Accounts, and what they prefer, Preferences. *)
(* The two share no variable: a behaviour is one of the first or one of    *)
(* the second, as `part` says from the start.                              *)
(***************************************************************************)
EXTENDS Accounts, Sequences, TLC

CONSTANTS Pages, Fields, Forms

VARIABLES rows, request, part

Prefs == INSTANCE Preferences WITH call <- request

ASSUME PrefsAssumption == Prefs!PreferencesAssumption /\ Prefs!NoneAssumption

prefVars == <<rows, request>>

Joining == part = "joining"
Preferring == part = "preferring"

AllFields == <<"expiry", "landing", "items", "email", "theme">>

\* Forms on each bound, and beyond it; the theme "blue" is none.
Filled(expiry, landing, items, email, theme) ==
  [expiry |-> expiry, landing |-> landing, items |-> items, email |-> email, theme |-> theme]

SomeForms == {Filled(None, "on", 5, None, "dark"), Filled(0, None, 100, "on", None),
              Filled(-1, "on", 5, "on", "dark"), Filled(0, None, 4, None, "dark"),
              Filled(None, None, 101, "on", "dark"), Filled(0, "on", 100, None, "blue")}

Symmetry == Permutations(Callers) \cup Permutations(Passwords) \cup Permutations(Emails)

\* Of the initial states of the part that rests one will do.
UsersInit ==
  /\ part \in {"joining", "preferring"} /\ Init /\ Prefs!Init
  /\ Preferring => routed /\ \A n \in Names : users[n] = None

UsersNext ==
  \/ Joining /\ Next /\ UNCHANGED <<prefVars, part>>
  \/ Preferring /\ Prefs!Next /\ UNCHANGED <<vars, part>>

UsersSpec == UsersInit /\ [][UsersNext]_<<vars, prefVars, part>>

-----------------------------------------------------------------------------
(* Properties *)

\* No address is of two users, nobody unapproved is logged in, and the server that
\* was seeded has an administrator; a save of preferences skips no field, stores no
\* value that is not valid, and is refused for a reason.
UsersInv == AccountsInv /\ Prefs!PreferencesInv

\* A password changes by a token that was mailed to its owner, and a role by an
\* administrator.
RightsChangeByRight == PasswordByMailedToken /\ AdminByAdmin
=============================================================================
