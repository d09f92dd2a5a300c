--------------------------- MODULE MCLinuxRunner ----------------------------
(* A behavior is one of the menus, of the dialogs, of the first weekday, of  *)
(* the window or of the icons, so that TLC explores the sum of them and not  *)
(* their product.                                                            *)
EXTENDS LinuxRunner

CONSTANTS z1, h1, d1, file1, file2, link

VARIABLE part

MCZoneCalls == {z1}
MCTimeCalls == {h1}
MCZones == 1..4
MCRegion == <<2, 1, 2, 1>>
MCSearches == {s \in [MCZones -> -1..1] :
                   s[1] = 1 /\ Cardinality({z \in MCZones : s[z] = -1}) <= 1}
MCItems == {file1, file2, link}

MCInit ==
    /\ part \in {"menus", "dialogs", "weekday", "window", "icons"}
    /\ RunnerInit
    /\ part # "weekday" => schema
    /\ part # "icons" => screen = 1 /\ scale = 1

MCNext ==
    /\ UNCHANGED part
    /\ \/ part = "menus" /\ MenusStep
       \/ part = "dialogs" /\ DialogsStep
       \/ part = "weekday" /\ WeekdayStep
       \/ part = "window" /\ WindowStep
       \/ part = "icons" /\ IconsStep

MCSpec == MCInit /\ [][MCNext]_<<runnerVars, part>>
=============================================================================
