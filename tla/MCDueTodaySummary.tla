------------------------- MODULE MCDueTodaySummary ---------------------------
(* Model-checking instances of DueTodaySummary.                             *)
EXTENDS DueTodaySummary

CONSTANTS restAccount, davAccount
Both == {restAccount, davAccount}
One == {restAccount}
DavOnly == {davAccount}
NoDav == {}
==============================================================================
