-------------------------- MODULE MCDomainSchedule ---------------------------
(* Model-checking instance of DomainSchedule: the engine of the user        *)
(* interface and the one of a background worker, one account.               *)
EXTENDS DomainSchedule

CONSTANTS uiEngine, workerEngine, uiCall, workerCall, account

BothEngines == {uiEngine, workerEngine}
OnlyWorker == {workerEngine}
OneAccount == {account}
TwoCalls == {uiCall, workerCall}
CallEngine == [c \in Calls |-> IF c = workerCall THEN workerEngine ELSE uiEngine]
CallAccount == [c \in Calls |-> account]
==============================================================================
