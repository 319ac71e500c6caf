--------------------------- MODULE MCGrpcService ---------------------------
(* Timeouts of none, zero and one tick; one tick is slow already.  So that *)
(* the run stays small, midnight passes only where time is otherwise of no *)
(* account.                                                                *)
EXTENDS GrpcService

Settings(timeout, logging, requestLog, slowLog) ==
  [timeout |-> timeout, logging |-> logging, requestLog |-> requestLog, slowLog |-> slowLog]

Timeless == Settings(None, TRUE, TRUE, FALSE)
Full == Settings(1, TRUE, TRUE, TRUE)

MCConfigs == {Full, Settings(0, TRUE, FALSE, TRUE), Settings(1, FALSE, TRUE, TRUE), Timeless}

OneThingAtATime == IF config = Timeless THEN UNCHANGED clock ELSE UNCHANGED today

\* Every line enabled, with a timeout.
MCLogged == {Full}

\* A timeout of zero.
MCZero == {Settings(0, TRUE, TRUE, TRUE)}
=============================================================================
