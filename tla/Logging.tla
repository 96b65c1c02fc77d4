------------------------------- MODULE Logging -------------------------------
(***************************************************************************)
(* The parts of spdlog that can go wrong between calls: the queue of the   *)
(* asynchronous loggers, the rotating file that the program's own logger,  *)
(* a synchronous one, writes to under the sink's mutex, and the daily      *)
(* file.  They share nothing, so a behaviour uses one of them, chosen in   *)
(* the beginning, and the others stay in one of their initial states.      *)
(***************************************************************************)
EXTENDS AsyncLog, RotatingFile, DailyFile

VARIABLES used              \* "queue", "file" or "daily"

vars == <<used, asyncVars, rotatingVars, dailyVars>>

Init ==
  /\ used \in {"queue", "file", "daily"}
  /\ InitAsync /\ InitRotating /\ InitDaily
  /\ used # "queue" => setting = CHOOSE s \in Settings : TRUE
  /\ used # "daily" => rotation = (CHOOSE r \in RotationTimes : TRUE) /\ truncate_ /\ inOrder

Next ==
  \/ used = "queue" /\ AsyncNext /\ UNCHANGED <<used, rotatingVars, dailyVars>>
  \/ used = "file" /\ RotatingNext /\ UNCHANGED <<used, asyncVars, dailyVars>>
  \/ used = "daily" /\ DailyNext /\ UNCHANGED <<used, asyncVars, rotatingVars>>

Spec == Init /\ [][Next]_vars /\ AsyncFairness
=============================================================================
