------------------------------ MODULE AsyncLog ------------------------------
(***************************************************************************)
(* spdlog's asynchronous loggers: threads of the program, each with a      *)
(* logger of its own, post to the queue of one thread pool, whose threads  *)
(* write to the sinks; a periodic flusher posts a flush to every logger;   *)
(* and shutdown() ends it all.  The pool is destroyed by whoever drops the *)
(* last reference to it: shutdown(), or a thread whose log call outlives   *)
(* it.                                                                     *)
(*                                                                         *)
(* A critical section of the queue's mutex is one action; a notification   *)
(* is sent after the unlock and is an action of its own.  Sinks are        *)
(* external.  Levels are left out, and so are set_tp(), which would        *)
(* replace the pool, and the mutex of the registry's map, for which none   *)
(* of these threads ever waits: shutdown() has stopped the flusher before. *)
(***************************************************************************)
EXTENDS CircularQueue, FiniteSets

CONSTANTS
  Clients,                  \* threads that log, and their loggers
  Workers,                  \* threads of the pool
  Settings,                 \* what pool and policies there may be, with the
                            \* bounds: log calls per client, flusher's rounds
  MaxCalls                  \* bound: the most log calls of a client

Main == "main"
Flusher == "flusher"
Registry == "registry"
Posters == Clients \cup {Main, Flusher}

ASSUME AsyncAssumption ==
  /\ Clients \cap {Main, Flusher, Registry} = {}
  /\ IsFiniteSet(Workers)
  /\ MaxCalls \in Nat
  /\ Settings \subseteq [pool : (SUBSET Workers) \ {{}}, rounds : 0..1,
                          policy : [Clients -> {"block", "overrun_oldest"}],
                          calls : [Clients -> 0..MaxCalls]]

VARIABLES
  setting,                  \* the pool and the policies of this behaviour
  holders,                  \* who holds a shared_ptr to the pool
  pc, item,                 \* per posting thread: where it is, what it posts
  terminates,               \* messages ~thread_pool() has still to post
  worker, job,              \* per worker: where it is, the message in hand
  active, rounds, toFlush,  \* periodic_worker::active_, rounds to make, and the
                            \* loggers flush_all() has still to visit
  calls,                    \* per client: log calls to make
  accepted,                 \* history per client: messages that were queued
  handled, overrun          \* history per client: what became of them

threadVars == <<pc, item, terminates>>
workerVars == <<worker, job>>
flusherVars == <<active, rounds, toFlush>>
historyVars == <<accepted, handled, overrun>>
asyncVars == <<ringVars, setting, holders, threadVars, workerVars,
               flusherVars, calls, historyVars>>

pool == setting.pool        \* thread_pool::threads_
policy == setting.policy    \* per logger: overflow_policy_

LogMsg(c, n) == [type |-> "log", by |-> c, n |-> n]
FlushMsg(c) == [type |-> "flush", by |-> c, n |-> accepted[c]]
TerminateMsg == [type |-> "terminate", by |-> Main, n |-> 0]

InitAsync ==
  /\ InitRing
  /\ setting \in Settings
  /\ calls = setting.calls /\ rounds = setting.rounds
  /\ holders = {Registry}
  /\ pc = [t \in Posters |-> "idle"] /\ item = [t \in Posters |-> Nothing]
  /\ terminates = 0
  /\ worker = [w \in Workers |-> "dequeue"] /\ job = [w \in Workers |-> Nothing]
  /\ active = TRUE /\ toFlush = {}
  /\ accepted = [c \in Clients |-> 0]
  /\ handled = [c \in Clients |-> <<>>] /\ overrun = [c \in Clients |-> {}]

-----------------------------------------------------------------------------
(* A log call: sink_it_() locks the weak pointer to the pool, and throws,  *)
(* into the logger's error handler, if there is no pool any more.          *)
Expired == holders = {}

Log(c) ==
  /\ pc[c] = "idle" /\ calls[c] > 0
  /\ calls' = [calls EXCEPT ![c] = @ - 1]
  /\ IF Expired THEN UNCHANGED <<holders, pc, item>>
     ELSE /\ holders' = holders \cup {c}
          /\ item' = [item EXCEPT ![c] = LogMsg(c, accepted[c] + 1)]
          /\ pc' = [pc EXCEPT ![c] = "post"]
  /\ UNCHANGED <<ringVars, setting, terminates, workerVars, flusherVars,
                 historyVars>>

-----------------------------------------------------------------------------
(* Faulty variants of the operations, Bug<n>_..., stand before the          *)
(* operation they replace: the properties below tell them apart.           *)

(* a terminate message that overruns what it finds                         *)
Bug1_Waits(t) ==
  item[t].type # "terminate" /\ policy[item[t].by] = "block"

(* Posting: enqueue() waits for room, asleep on pop_cv_; enqueue_nowait()  *)
(* does not.  A terminate message always waits.                            *)
Waits(t) ==
  item[t].type # "terminate" => policy[item[t].by] = "block"

Enqueue(t) ==
  /\ pc[t] = "post"
  /\ \/ /\ Waits(t) /\ Full
        /\ pc' = [pc EXCEPT ![t] = "asleep"]
        /\ UNCHANGED <<ringVars, accepted, overrun>>
     \/ /\ ~(Waits(t) /\ Full)
        /\ pc' = [pc EXCEPT ![t] = "notify"]
        /\ PushBack(item[t])
        /\ accepted' = IF item[t].type = "log"
                       THEN [accepted EXCEPT ![item[t].by] = @ + 1] ELSE accepted
        /\ overrun' = IF Full /\ Front.type = "log"
                      THEN [overrun EXCEPT ![Front.by] = @ \cup {Front.n}]
                      ELSE overrun
  /\ UNCHANGED <<setting, holders, item, terminates, workerVars,
                 flusherVars, calls, handled>>

(* a push without a notification                                           *)
Bug1_WakeWorker == UNCHANGED worker

(* push_cv_.notify_one() wakes a worker, if one sleeps.                    *)
WakeWorker ==
  LET asleep == {w \in pool : worker[w] = "asleep"}
  IN IF asleep = {} THEN UNCHANGED worker
     ELSE \E w \in asleep : worker' = [worker EXCEPT ![w] = "dequeue"]

Returns(t) ==
  CASE t = Flusher -> "next" [] t = Main -> "done" [] OTHER -> "idle"

(* one terminate message for all the threads                               *)
Bug1_Releases(t, who) ==
  /\ holders' = holders \ {who}
  /\ IF holders' = {}
     THEN /\ pc' = [pc EXCEPT ![t] = "post"]
          /\ item' = [item EXCEPT ![t] = TerminateMsg]
          /\ terminates' = 1
     ELSE /\ pc' = [pc EXCEPT ![t] = Returns(t)]
          /\ item' = [item EXCEPT ![t] = Nothing]
          /\ UNCHANGED terminates

(* Whoever drops the last reference destroys the pool, and starts to post  *)
(* a terminate message for each of its threads.                            *)
Releases(t, who) ==
  /\ holders' = holders \ {who}
  /\ IF holders' = {}
     THEN /\ pc' = [pc EXCEPT ![t] = "post"]
          /\ item' = [item EXCEPT ![t] = TerminateMsg]
          /\ terminates' = Cardinality(pool)
     ELSE /\ pc' = [pc EXCEPT ![t] = Returns(t)]
          /\ item' = [item EXCEPT ![t] = Nothing]
          /\ UNCHANGED terminates

(* The notification, and the end of the call.                              *)
Posted(t) ==
  /\ pc[t] = "notify" /\ item[t] # TerminateMsg
  /\ WakeWorker
  /\ Releases(t, t)
  /\ UNCHANGED <<ringVars, setting, job, flusherVars, calls, historyVars>>

(* The notification for a terminate message, and the next.                 *)
PostedTerminate(t) ==
  /\ pc[t] = "notify" /\ item[t] = TerminateMsg
  /\ WakeWorker
  /\ terminates' = terminates - 1
  /\ pc' = [pc EXCEPT ![t] = IF terminates = 1 THEN "join" ELSE "post"]
  /\ UNCHANGED <<ringVars, setting, holders, item, job, flusherVars, calls,
                 historyVars>>

Join(t) ==
  /\ pc[t] = "join" /\ \A w \in pool : worker[w] = "gone"
  /\ pc' = [pc EXCEPT ![t] = Returns(t)]
  /\ item' = [item EXCEPT ![t] = Nothing]
  /\ UNCHANGED <<ringVars, setting, holders, terminates, workerVars,
                 flusherVars, calls, historyVars>>

(* pop_cv_.wait() may return by itself, and looks again.                   *)
SpuriousWakeup(t) ==
  /\ pc[t] = "asleep"
  /\ pc' = [pc EXCEPT ![t] = "post"]
  /\ UNCHANGED <<ringVars, setting, holders, item, terminates, workerVars,
                 flusherVars, calls, historyVars>>

-----------------------------------------------------------------------------
(* The threads of the pool: worker_loop_(), process_next_msg_().           *)
Dequeue(w) ==
  /\ worker[w] = "dequeue"
  /\ \/ /\ Empty
        /\ worker' = [worker EXCEPT ![w] = "asleep"]
        /\ UNCHANGED <<ringVars, job>>
     \/ /\ ~Empty
        /\ worker' = [worker EXCEPT ![w] = "notify"]
        /\ job' = [job EXCEPT ![w] = Front]
        /\ PopFront
  /\ UNCHANGED <<setting, holders, threadVars, flusherVars, calls,
                 historyVars>>

(* The wait ends after ten seconds, or by itself, and begins again.        *)
Timeout(w) ==
  /\ worker[w] = "asleep"
  /\ worker' = [worker EXCEPT ![w] = "dequeue"]
  /\ UNCHANGED <<ringVars, setting, holders, threadVars, job, flusherVars,
                 calls, historyVars>>

(* pop_cv_.notify_one() wakes a thread that waits for room.                *)
NotifyPop(w) ==
  /\ worker[w] = "notify"
  /\ worker' = [worker EXCEPT ![w] = "process"]
  /\ LET asleep == {t \in Posters : pc[t] = "asleep"}
     IN IF asleep = {} THEN UNCHANGED pc
        ELSE \E t \in asleep : pc' = [pc EXCEPT ![t] = "post"]
  /\ UNCHANGED <<ringVars, setting, holders, item, terminates, job,
                 flusherVars, calls, historyVars>>

(* backend_log_() hands the message to the sinks, and what they throw to   *)
(* the error handler: either way the message is done with.                 *)
BackendLog(m) == handled' = [handled EXCEPT ![m.by] = Append(@, m.n)]

(* A flush touches no message; terminate ends the thread.                  *)
Process(w) ==
  /\ worker[w] = "process"
  /\ worker' = [worker EXCEPT ![w] =
                  IF job[w].type = "terminate" THEN "gone" ELSE "dequeue"]
  /\ IF job[w].type = "log" THEN BackendLog(job[w]) ELSE UNCHANGED handled
  /\ job' = [job EXCEPT ![w] = Nothing]
  /\ UNCHANGED <<ringVars, setting, holders, threadVars, flusherVars, calls,
                 accepted, overrun>>

-----------------------------------------------------------------------------
(* The periodic flusher: flush_all() posts a flush to each logger in turn. *)
FlushAll ==
  /\ pc[Flusher] = "idle" /\ active
  /\ rounds > 0
  /\ rounds' = rounds - 1
  /\ toFlush' = Clients
  /\ pc' = [pc EXCEPT ![Flusher] = "next"]
  /\ UNCHANGED <<ringVars, setting, holders, item, terminates, workerVars,
                 active, calls, historyVars>>

FlushNext ==
  /\ pc[Flusher] = "next"
  /\ \/ /\ toFlush = {}
        /\ pc' = [pc EXCEPT ![Flusher] = "idle"]
        /\ UNCHANGED <<toFlush, holders, item>>
     \/ \E c \in toFlush :
          /\ toFlush' = toFlush \ {c}
          /\ IF Expired THEN UNCHANGED <<holders, item, pc>>
             ELSE /\ holders' = holders \cup {Flusher}
                  /\ item' = [item EXCEPT ![Flusher] = FlushMsg(c)]
                  /\ pc' = [pc EXCEPT ![Flusher] = "post"]
  /\ UNCHANGED <<ringVars, setting, terminates, workerVars, active, rounds,
                 calls, historyVars>>

FlusherEnds ==
  /\ pc[Flusher] = "idle" /\ ~active
  /\ pc' = [pc EXCEPT ![Flusher] = "gone"]
  /\ UNCHANGED <<ringVars, setting, holders, item, terminates, workerVars,
                 flusherVars, calls, historyVars>>

-----------------------------------------------------------------------------
(* shutdown(): ~periodic_worker() needs the mutex that the flusher holds   *)
(* while it works ...                                                      *)
Shutdown ==
  /\ pc[Main] = "idle"
  /\ pc' = [pc EXCEPT ![Main] = "deactivate"]
  /\ UNCHANGED <<ringVars, setting, holders, item, terminates, workerVars,
                 flusherVars, calls, historyVars>>

StopFlusher ==
  /\ pc[Main] = "deactivate" /\ pc[Flusher] = "idle"
  /\ active' = FALSE
  /\ pc' = [pc EXCEPT ![Main] = "join flusher"]
  /\ UNCHANGED <<ringVars, setting, holders, item, terminates, workerVars,
                 rounds, toFlush, calls, historyVars>>

(* ... and joins the thread; then goes the registry's reference.           *)
DropPool ==
  /\ pc[Main] = "join flusher" /\ pc[Flusher] = "gone"
  /\ Releases(Main, Registry)
  /\ UNCHANGED <<ringVars, setting, workerVars, flusherVars, calls,
                 historyVars>>

-----------------------------------------------------------------------------
Post(t) == Enqueue(t) \/ Posted(t) \/ PostedTerminate(t) \/ Join(t)

Pooled(w) == Dequeue(w) \/ NotifyPop(w) \/ Process(w)

AsyncNext ==
  \/ \E t \in Posters : Post(t) \/ SpuriousWakeup(t)
  \/ \E c \in Clients : Log(c)
  \/ \E w \in pool : Pooled(w) \/ Timeout(w)
  \/ FlushAll \/ FlushNext \/ FlusherEnds
  \/ Shutdown \/ StopFlusher \/ DropPool

(* Threads inside a call go on; nobody need log, and neither the timeouts  *)
(* nor spurious wake-ups are relied upon.                                  *)
AsyncFairness ==
  /\ \A t \in Posters : WF_asyncVars(Post(t))
  /\ \A w \in Workers : WF_asyncVars(w \in pool /\ Pooled(w))
  /\ WF_asyncVars(FlushNext \/ FlusherEnds)
  /\ WF_asyncVars(StopFlusher \/ DropPool)

AsyncSpec == InitAsync /\ [][AsyncNext]_asyncVars /\ AsyncFairness

-----------------------------------------------------------------------------
(* The queue is a FIFO of MaxItems items where a new item displaces the    *)
(* oldest if there is no room, and overrun_counter() counts them.          *)
Messages == [type : {"log", "flush", "terminate"}, by : Posters, n : 0..MaxCalls]

Ring == INSTANCE BoundedQueue WITH
          Items <- Messages, items <- Content, displaced <- overrun_counter_

RingSpec == Ring!Spec

(* "logs all remaining messages in the queue before destructing": once the *)
(* threads are gone nothing is left in the queue, and each message queued  *)
(* has been handled or overrun; and no message at all is overrun unless a  *)
(* logger has that policy.                                                 *)
HandledOf(c) == {handled[c][i] : i \in 1..Len(handled[c])}

NothingLeft ==
  /\ (\A w \in pool : worker[w] = "gone") =>
       Empty /\ \A c \in Clients : HandledOf(c) \cup overrun[c] = 1..accepted[c]
  /\ (\A c \in Clients : policy[c] = "block") => overrun_counter_ = 0

(* With one thread in the pool a logger's messages are handled in the      *)
(* order of the calls, and a flush comes after all the messages that were  *)
(* queued before it was asked for.                                         *)
OneThreadInOrder ==
  Cardinality(pool) = 1 =>
    /\ \A c \in Clients : \A i, j \in 1..Len(handled[c]) :
         i < j => handled[c][i] < handled[c][j]
    /\ \A w \in pool : worker[w] = "process" /\ job[w].type = "flush" =>
         1..job[w].n \subseteq HandledOf(job[w].by) \cup overrun[job[w].by]

(* shutdown() returns, whoever destroys the pool, with the queue full and  *)
(* the flusher amid its round.                                             *)
ShutdownEnds == pc[Main] # "idle" ~> pc[Main] = "done"

(* A message that a call has begun to post is handled or overrun, and the  *)
(* caller returns, without waiting for a timeout.                          *)
EverythingHandled ==
  \A c \in Clients : \A n \in 1..MaxCalls :
    item[c] = LogMsg(c, n) ~> n \in HandledOf(c) \cup overrun[c] /\ pc[c] = "idle"
=============================================================================
