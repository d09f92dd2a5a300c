--------------------------- MODULE MCWindowsRunner ---------------------------
(* A behavior is one of the guard or one of the notification icon, so that  *)
(* TLC explores the sum of the two and not their product.                   *)
EXTENDS WindowsRunner

CONSTANTS p1, p2, t1

VARIABLE part

MCProcesses == {p1, p2, t1}
MCToasts == {t1}

MCInit ==
    /\ part \in {"guard", "tray"}
    /\ RunnerInit
    /\ part = "guard" => settings = "plain" /\ ~override

MCNext ==
    /\ UNCHANGED part
    /\ \/ part = "guard" /\ Next /\ UNCHANGED trayVars
       \/ part = "tray" /\ Tray!Next /\ UNCHANGED vars

TrayRuns == part = "tray"

MCSpec ==
    /\ MCInit /\ [][MCNext]_<<vars, trayVars, part>>
    /\ Fairness
    /\ WF_trayVars(TrayRuns /\ Tray!TaskbarCreated)
    /\ WF_trayVars(TrayRuns /\ (Tray!HandleCall \/ Tray!HandleQuit))
    /\ WF_trayVars(TrayRuns /\ Tray!Configure)
    /\ WF_trayVars(TrayRuns /\ Tray!DartReceives)
    /\ WF_trayVars(TrayRuns /\ Tray!Minute)
==============================================================================
