---------------------------- MODULE RotatingFile ----------------------------
(***************************************************************************)
(* spdlog's rotating file sink: log.txt, and MaxFiles older files into     *)
(* which it is moved on as it grows.  A call holds the sink's mutex from   *)
(* its first step to its last, so one call is under way at a time; between *)
(* any two steps the process may be killed, and start again later.  The    *)
(* file system, external, may refuse to open, to rename and to write.      *)
(* What happens to a message's bytes is not modelled beyond their number:  *)
(* a message whose write fails is taken not to be in the file.             *)
(***************************************************************************)
EXTENDS Integers

CONSTANTS
  MaxFiles,                 \* max_files_
  MaxSize,                  \* max_size_
  Sizes,                    \* the sizes a formatted message may have
  MaxMessages               \* bound: messages logged

ASSUME RotatingAssumption ==
  /\ MaxFiles \in Nat /\ MaxSize \in Nat /\ MaxMessages \in Nat
  /\ Sizes \subseteq Nat

Indexes == 0..MaxFiles      \* calc_filename(): 0 is log.txt, i log.<i>.txt

VARIABLES
  present,                  \* the files that exist
  file, bytes,              \* per file: the messages in it, and their size
  buffered, onDisk,         \* those of log.txt still in the stream's buffer,
                            \* and the size of it without them
  open,                     \* fd_ # nullptr
  current_size_,
  step,                     \* what the call does next; "down": no process
  index, failed,                \* rotate_()'s loop variable, and whether the
                            \* first rename_file() failed
  msg, size                 \* number of the last message, and its size

diskVars == <<present, file, bytes, buffered, onDisk>>
sinkVars == <<open, current_size_>>
callVars == <<step, index, failed, msg, size>>
rotatingVars == <<diskVars, sinkVars, callVars>>

InitRotating ==
  /\ present = {}
  /\ file = [j \in Indexes |-> {}] /\ bytes = [j \in Indexes |-> 0]
  /\ buffered = {} /\ onDisk = 0
  /\ open = FALSE /\ current_size_ = 0
  /\ step = "down" /\ index = 0 /\ failed = FALSE
  /\ msg = 0 /\ size = 0

-----------------------------------------------------------------------------
(* Faulty variants of the operations, Bug<n>_..., stand before the          *)
(* operation they replace: the properties below tell them apart.           *)

(* a constructor that does not measure the file it appends to              *)
Bug1_Start ==
  /\ step = "down"
  /\ present' = present \cup {0}
  /\ open' = TRUE /\ current_size_' = 0
  /\ step' = "idle"
  /\ UNCHANGED <<file, bytes, buffered, onDisk, index, failed, msg, size>>

(* The constructor opens log.txt for appending, and measures it; if it     *)
(* cannot, it throws and there is no sink.                                 *)
Start ==
  /\ step = "down"
  /\ present' = present \cup {0}
  /\ open' = TRUE /\ current_size_' = bytes[0]
  /\ step' = "idle"
  /\ UNCHANGED <<file, bytes, buffered, onDisk, index, failed, msg, size>>

(* the count starts again before the rotation has come to its end          *)
Bug1_SinkIt(s) ==
  /\ step = "idle" /\ msg < MaxMessages
  /\ msg' = msg + 1 /\ size' = s
  /\ IF current_size_ + s > MaxSize
     THEN step' = "close" /\ current_size_' = s
     ELSE step' = "write" /\ current_size_' = current_size_ + s
  /\ UNCHANGED <<diskVars, open, index, failed>>

(* sink_it_() counts first, and may have to rotate before it writes.       *)
SinkIt(s) ==
  /\ step = "idle" /\ msg < MaxMessages
  /\ msg' = msg + 1 /\ size' = s
  /\ current_size_' = current_size_ + s
  /\ step' = IF current_size_ + s > MaxSize THEN "close" ELSE "write"
  /\ UNCHANGED <<diskVars, open, index, failed>>

(* The buffer is written out: by flush_(), or because it is full.          *)
Spill == buffered' = {} /\ onDisk' = bytes[0]

Flush ==
  /\ step = "idle" /\ open
  /\ Spill
  /\ UNCHANGED <<present, file, bytes, sinkVars, callVars>>

Write ==
  /\ step = "write"
  /\ step' = "idle"
  /\ \/ UNCHANGED <<file, bytes, buffered>>          \* fwrite() fails
     \/ /\ file' = [file EXCEPT ![0] = @ \cup {msg}]
        /\ bytes' = [bytes EXCEPT ![0] = @ + size]
        /\ buffered' = buffered \cup {msg}
  /\ UNCHANGED <<present, onDisk, sinkVars, index, failed, msg, size>>

-----------------------------------------------------------------------------
(* rotate_(): closes log.txt ...                                           *)
Close ==
  /\ step = "close"
  /\ IF open THEN Spill ELSE UNCHANGED <<buffered, onDisk>>
  /\ open' = FALSE
  /\ step' = "next" /\ index' = MaxFiles /\ failed' = FALSE
  /\ UNCHANGED <<present, file, bytes, current_size_, msg, size>>

(* ... and moves each file to the next index, the oldest first, leaving    *)
(* out what does not exist.                                                *)
Skip ==
  /\ step = "next" /\ index > 0 /\ index - 1 \notin present
  /\ index' = index - 1
  /\ UNCHANGED <<diskVars, sinkVars, step, failed, msg, size>>

(* a loop that does not ask whether the file exists                        *)
Bug1_Remove ==
  /\ step = "next" /\ index > 0
  /\ \/ UNCHANGED <<present, file, bytes>>
     \/ /\ present' = present \ {index}
        /\ file' = [file EXCEPT ![index] = {}] /\ bytes' = [bytes EXCEPT ![index] = 0]
  /\ step' = "rename"
  /\ UNCHANGED <<buffered, onDisk, sinkVars, index, failed, msg, size>>

(* rename_file() removes the target, or fails to ...                       *)
Remove ==
  /\ step = "next" /\ index > 0 /\ index - 1 \in present
  /\ \/ UNCHANGED <<present, file, bytes>>
     \/ /\ present' = present \ {index}
        /\ file' = [file EXCEPT ![index] = {}] /\ bytes' = [bytes EXCEPT ![index] = 0]
  /\ step' = "rename"
  /\ UNCHANGED <<buffered, onDisk, sinkVars, index, failed, msg, size>>

(* ... and renames the file, which is tried twice.                         *)
Rename ==
  /\ step = "rename" /\ index - 1 \in present
  /\ present' = (present \ {index - 1}) \cup {index}
  /\ file' = [file EXCEPT ![index] = file[index - 1], ![index - 1] = {}]
  /\ bytes' = [bytes EXCEPT ![index] = bytes[index - 1], ![index - 1] = 0]
  /\ onDisk' = IF index = 1 THEN 0 ELSE onDisk
  /\ step' = "next" /\ index' = index - 1 /\ failed' = FALSE
  /\ UNCHANGED <<buffered, sinkVars, msg, size>>

RenameFails ==
  /\ step = "rename"
  /\ step' = IF failed THEN "give up" ELSE "next"
  /\ failed' = TRUE
  /\ UNCHANGED <<diskVars, sinkVars, index, msg, size>>

(* Then log.txt is opened anew, empty; if a rename failed, for the next    *)
(* call.                                                                   *)
Reopens == (step = "next" /\ index = 0) \/ step = "give up"

Reopen ==
  /\ Reopens
  /\ present' = present \cup {0}
  /\ file' = [file EXCEPT ![0] = {}] /\ bytes' = [bytes EXCEPT ![0] = 0]
  /\ onDisk' = 0
  /\ open' = TRUE
  /\ IF step = "give up"
     THEN step' = "idle" /\ UNCHANGED current_size_
     ELSE step' = "write" /\ current_size_' = size
  /\ UNCHANGED <<buffered, index, failed, msg, size>>

(* Five attempts fail: the call ends in an exception.                      *)
ReopenFails ==
  /\ Reopens
  /\ step' = "idle"
  /\ UNCHANGED <<diskVars, sinkVars, index, failed, msg, size>>

-----------------------------------------------------------------------------
(* The process ends, or is killed and what it had buffered with it.        *)
Exit ==
  /\ step = "idle"
  /\ Spill
  /\ open' = FALSE /\ step' = "down"
  /\ UNCHANGED <<present, file, bytes, current_size_, index, failed, msg, size>>

Crash ==
  /\ step # "down"
  /\ file' = [file EXCEPT ![0] = @ \ buffered]
  /\ bytes' = [bytes EXCEPT ![0] = onDisk]
  /\ buffered' = {}
  /\ open' = FALSE /\ step' = "down"
  /\ UNCHANGED <<present, onDisk, current_size_, index, failed, msg, size>>

RotatingNext ==
  \/ Start \/ Flush \/ Write \/ Exit \/ Crash
  \/ \E s \in Sizes : SinkIt(s)
  \/ Close \/ Skip \/ Remove \/ Rename \/ RenameFails \/ Reopen \/ ReopenFails

RotatingSpec == InitRotating /\ [][RotatingNext]_rotatingVars

-----------------------------------------------------------------------------
RotatingTypeOK ==
  /\ present \subseteq Indexes
  /\ file \in [Indexes -> SUBSET (1..MaxMessages)]
  /\ bytes \in [Indexes -> Nat]
  /\ buffered \subseteq file[0] /\ onDisk \in Nat
  /\ open \in BOOLEAN /\ current_size_ \in Nat
  /\ step \in {"down", "idle", "close", "next", "rename", "give up", "write"}
  /\ index \in Indexes /\ failed \in BOOLEAN
  /\ msg \in 0..MaxMessages /\ size \in Nat

(* write() is not reached with fd_ null: a sink that could not reopen its  *)
(* file still counts more than max_size_, and so rotates again first.      *)
NeverWritesClosed == step = "write" => open

(* No file is longer than max_size_, but for one that holds a single       *)
(* message: after crashes, restarts, failed writes and failed rotations.   *)
SizeBounded ==
  \A j \in Indexes : bytes[j] > MaxSize => \E m \in file[j] : file[j] = {m}

(* A message that has reached the disk is lost only when it is older than  *)
(* all that are kept, or with log.txt after two failures to rename a file  *)
(* that is there: never because a rotation was cut short, and left a gap.  *)
Written == (UNION {file[j] : j \in Indexes}) \ buffered

OnlyOldestLost ==
  [][\A m \in Written \ Written' :
       \/ \A n \in Written' : m < n
       \/ step = "give up" /\ index - 1 \in present /\ m \in file[0]]_rotatingVars
=============================================================================
