------------------------------ MODULE DailyFile ------------------------------
(***************************************************************************)
(* spdlog's daily file sink: a file per day, changed at a time of the day. *)
(* A message is given its time when it is logged and may be handled later, *)
(* by a thread that had to wait for the sink's mutex or by one of a pool.  *)
(* The handling holds the mutex and is one action, in which time does not  *)
(* pass.  The clock, external, goes forward, and a day has 24 hours.  The  *)
(* file system, external, may refuse to open and to write; what is in a    *)
(* stream's buffer is taken to be in the file.                             *)
(***************************************************************************)
EXTENDS Integers, FiniteSets

CONSTANTS
  DayLength,                \* 24 hours
  RotationTimes,            \* rotation_h_ and rotation_m_, as a time of day
  MaxNow,                   \* bound: the last time
  MaxWaiting                \* bound: messages logged and not handled

ASSUME DailyAssumption ==
  /\ DayLength \in Nat \ {0} /\ RotationTimes \subseteq 0..(DayLength - 1)
  /\ MaxNow \in Nat /\ MaxWaiting \in Nat

VARIABLES
  rotation, truncate_,      \* arguments of the constructor
  inOrder,                  \* the messages are handled as they were logged
  now,
  process,                  \* "down", "starting", "up", or "crashed"
  waiting,                  \* messages to be handled: their times
  opened,                   \* the day whose file is open, or None
  rotation_tp_,
  contents,                 \* per day: the messages in its file
  reckonedAt                \* history: per day, when the time to rotate from
                            \* its file was reckoned last

argumentVars == <<rotation, truncate_, inOrder>>
dailyVars == <<argumentVars, now, process, waiting, opened, rotation_tp_,
               contents, reckonedAt>>

Day(time) == time \div DayLength     \* calc_filename()
Days == 0..Day(MaxNow)
None == -1

(* next_rotation_tp_()                                                     *)
NextRotation(time) ==
  LET today == Day(time) * DayLength + rotation
  IN  IF today > time THEN today ELSE today + DayLength

InitDaily ==
  /\ rotation \in RotationTimes /\ truncate_ \in BOOLEAN /\ inOrder \in BOOLEAN
  /\ now = 0 /\ process = "down" /\ waiting = {}
  /\ opened = None /\ rotation_tp_ = 0
  /\ contents = [day \in Days |-> {}] /\ reckonedAt = [day \in Days |-> 0]

-----------------------------------------------------------------------------
(* What is in a day's file once it is open.                                *)
Reopened(day) == IF truncate_ THEN {} ELSE contents[day]

(* The constructor looks at the clock, opens the file (or throws, and      *)
(* there is no sink), after up to five tries, and then looks at the clock  *)
(* again, to reckon the next rotation.                                     *)
StartDaily ==
  /\ process = "down" /\ process' = "starting"
  /\ opened' = Day(now)
  /\ contents' = [contents EXCEPT ![Day(now)] = Reopened(Day(now))]
  /\ UNCHANGED <<argumentVars, now, waiting, rotation_tp_, reckonedAt>>

Reckons(day) ==
  /\ rotation_tp_' = NextRotation(now)
  /\ reckonedAt' = [reckonedAt EXCEPT ![day] = now]

ReckonDaily ==
  /\ process = "starting" /\ process' = "up"
  /\ Reckons(opened)
  /\ UNCHANGED <<argumentVars, now, waiting, opened, contents>>

ExitDaily ==
  /\ process = "up" /\ waiting = {} /\ process' = "down"
  /\ opened' = None
  /\ UNCHANGED <<argumentVars, now, waiting, rotation_tp_, contents, reckonedAt>>

(* A message is made, with its time.                                       *)
LogDaily ==
  /\ process = "up" /\ Cardinality(waiting) < MaxWaiting
  /\ waiting' = waiting \cup {now}
  /\ UNCHANGED <<argumentVars, now, process, opened, rotation_tp_, contents,
                 reckonedAt>>

-----------------------------------------------------------------------------
(* sink_it_() takes one of those that wait.                                *)
Takes(m) ==
  /\ process = "up" /\ m \in waiting
  /\ inOrder => \A n \in waiting : m <= n
  /\ waiting' = waiting \ {m}
  /\ UNCHANGED <<argumentVars, now>>

(* Faulty variants of the operation, Bug<n>_..., stand before it: the      *)
(* property below tells them apart.                                        *)

(* the file has the name of the day on which the message is handled        *)
Bug1_RotateDaily(m) ==
  /\ Takes(m) /\ m >= rotation_tp_
  /\ opened' = Day(now) /\ Reckons(Day(now))
  /\ \E written \in SUBSET {m} :
       contents' = [contents EXCEPT ![Day(now)] = Reopened(Day(now)) \cup written]
  /\ UNCHANGED process

(* It is time to rotate: the file is named after the message, the next     *)
(* rotation is reckoned from the clock.                                    *)
RotateDaily(m) ==
  /\ Takes(m) /\ m >= rotation_tp_
  /\ opened' = Day(m) /\ Reckons(Day(m))
  /\ \E written \in SUBSET {m} :
       contents' = [contents EXCEPT ![Day(m)] = Reopened(Day(m)) \cup written]
  /\ UNCHANGED process

(* the next rotation is reckoned before the file is opened                 *)
Bug1_RotateDailyFails(m) ==
  /\ Takes(m) /\ m >= rotation_tp_
  /\ opened' = None /\ rotation_tp_' = NextRotation(now)
  /\ UNCHANGED <<process, contents, reckonedAt>>

(* The old file is closed, and the new one cannot be opened.               *)
RotateDailyFails(m) ==
  /\ Takes(m) /\ m >= rotation_tp_
  /\ opened' = None
  /\ UNCHANGED <<process, rotation_tp_, contents, reckonedAt>>

(* It is not: the message goes to the file that is open, or, when there is *)
(* none, to a null pointer.                                                *)
WriteDaily(m) ==
  /\ Takes(m) /\ m < rotation_tp_
  /\ IF opened = None THEN process' = "crashed" /\ UNCHANGED contents
     ELSE /\ \E written \in SUBSET {m} :
               contents' = [contents EXCEPT ![opened] = @ \cup written]
          /\ UNCHANGED process
  /\ UNCHANGED <<opened, rotation_tp_, reckonedAt>>

SinkDaily(m) == RotateDaily(m) \/ RotateDailyFails(m) \/ WriteDaily(m)

-----------------------------------------------------------------------------
Tick ==
  /\ now < MaxNow
  /\ now' = now + 1
  /\ UNCHANGED <<argumentVars, process, waiting, opened, rotation_tp_, contents,
                 reckonedAt>>

DailyNext ==
  \/ StartDaily \/ ReckonDaily \/ ExitDaily \/ LogDaily \/ Tick
  \/ \E m \in waiting : SinkDaily(m)

DailySpec == InitDaily /\ [][DailyNext]_dailyVars

-----------------------------------------------------------------------------
(* A message that is handled in order is not in the file of a day to come, *)
(* and no time to rotate has passed between the reckoning of the rotation  *)
(* from its file and the message: the sink never misses the rotation it    *)
(* has reckoned, through restarts, failed opens and messages that come     *)
(* late, and writes to no file that could not be opened.  (How late a      *)
(* reckoning can be after the day of its file is another matter.)          *)
RightFile(m, day) == day * DayLength <= m /\ m < NextRotation(reckonedAt[day])

EachDayItsFile ==
  inOrder => /\ process # "crashed"
             /\ \A day \in Days : \A m \in contents[day] : RightFile(m, day)
=============================================================================
