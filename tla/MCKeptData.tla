------------------------------ MODULE MCKeptData ------------------------------
(* Small instances of what the program keeps in its database, one of the      *)
(* three from the start: UsageHistory with five records over six days,        *)
(* UsageWindow with the pages of one date, and Preferences with three edits.  *)
EXTENDS UsageHistory, UsageWindow, Preferences

VARIABLE subject

MCDayOf == <<1, 2, 3, 4, 5>>

mcvars == <<vars, wvars, prefVars, subject>>

\* An account without usage: nothing of it is left to be read.
NothingToRead ==
  /\ today = FirstToday /\ site = {} /\ cache = {}
  /\ history = [earliest |-> 0, completed |-> 0, active |-> 0, scanned |-> 0]
  /\ task = Idle /\ disturbed = FALSE

MCInit ==
  /\ WindowInit /\ PreferencesInit
  /\ \/ subject = "history" /\ Init /\ open /\ rows = {}
     \/ subject = "window" /\ Init
     \/ subject = "edits" /\ NothingToRead /\ open /\ rows = {}

MCNext ==
  \/ subject = "history" /\ Next /\ UNCHANGED <<wvars, prefVars, subject>>
  \/ subject = "window" /\ WindowNext /\ UNCHANGED <<vars, prefVars, subject>>
  \/ subject = "edits" /\ PreferencesNext /\ UNCHANGED <<vars, wvars, subject>>

MCSpec == MCInit /\ [][MCNext]_mcvars

\* Only what moves is fair; the pages of one date have no property that needs it.
MCFairSpec ==
  /\ MCSpec
  /\ \/ subject = "history" /\ Fairness
     \/ subject = "edits" /\ PreferencesFairness

=============================================================================
