----------------------------- MODULE IngestPipeline -----------------------------
(***************************************************************************)
(* The ingester's event pipeline (apps/ingester/src/index.ts): captured    *)
(* events wait in a BullMQ queue, a worker stores each in the database,    *)
(* announces it on Redis and queues it for downstream processing.  The     *)
(* same event may be captured several times (overlapping polls, reconnects *)
(* of the stream): jobs differ, the paging token is the same.              *)
(*                                                                         *)
(* Each await of the job handler is a step of its own; in between, other   *)
(* jobs run, the process may crash, or a shutdown closes one connection    *)
(* after the other.  BullMQ (external): a job whose handler throws is      *)
(* retried after a backoff until its attempts are used up, one whose       *)
(* process died is put back once (maxStalledCount) and then failed.        *)
(***************************************************************************)
EXTENDS Integers, FiniteSets

CONSTANTS
  Tokens,        \* paging tokens, one per on-chain event
  Jobs,          \* jobs of the raw queue
  TokenOf,       \* TokenOf[j]: paging token of the captured event
  NoJob,         \* no job has inserted the row
  Attempts,      \* defaultJobOptions.attempts
  Concurrency,   \* concurrency of the worker
  MaxStalled,    \* BullMQ maxStalledCount
  MaxFaults,     \* bound: failed database and Redis calls
  MaxCrashes,    \* bound: crashes of the process
  MaxShutdowns   \* bound: graceful shutdowns

ASSUME PipelineAssumption ==
  /\ TokenOf \in [Jobs -> Tokens] /\ NoJob \notin Jobs
  /\ Attempts \in Nat \ {0} /\ Concurrency \in Nat \ {0}
  /\ MaxStalled \in Nat
  /\ MaxFaults \in Nat /\ MaxCrashes \in Nat /\ MaxShutdowns \in Nat

VARIABLES
  where,       \* where[j]: the queue's set the job is in, or the next await of its handler
  made,        \* attemptsMade
  stalls,      \* stalledCounter
  creator,     \* creator[p]: job that inserted the event's row
  announced,   \* messages published for the event
  queued,      \* jobs added to processed-events for the event
  deadLetters, \* jobs added to dead-letter-events
  stage,       \* where main() or shutdown() is
  faults, crashes, shutdowns,      \* used up of the bounds
  refused,     \* history: attempts that threw although no call of theirs failed
  unseen,      \* history: jobs whose add took effect and whose end the queue did not see
  unlettered   \* history: jobs given up whose dead letter was not added

output == <<creator, announced, queued>>
bounds == <<faults, crashes, shutdowns>>
history == <<refused, unseen, unlettered>>
vars   == <<where, made, stalls, output, deadLetters, stage, bounds, history>>

Init ==
  /\ where = [j \in Jobs |-> "new"]
  /\ made = [j \in Jobs |-> 0]
  /\ stalls = [j \in Jobs |-> 0]
  /\ creator = [p \in Tokens |-> NoJob]
  /\ announced = [p \in Tokens |-> 0]
  /\ queued = [p \in Tokens |-> 0]
  /\ deadLetters = {}
  /\ stage = "starting"
  /\ faults = 0 /\ crashes = 0 /\ shutdowns = 0
  /\ refused = [j \in Jobs |-> 0] /\ unseen = {} /\ unlettered = {}

HandlerSteps == {"check", "create", "publish", "enqueue", "finish"}
Active(j)    == where[j] \in HandlerSteps
Stored(p)    == creator[p] # NoJob

Goto(j, step) == where' = [where EXCEPT ![j] = step]

Fault == faults < MaxFaults /\ faults' = faults + 1

(* Seeded bug: one attempt too many.                                       *)
ThrowOnceMore(j) ==
  /\ made' = [made EXCEPT ![j] = @ + 1]
  /\ Goto(j, IF made[j] + 1 > Attempts THEN "dying" ELSE "delayed")

(* Seeded bug: every failed attempt is dead-lettered.                      *)
ThrowToDeadLetters(j) ==
  /\ made' = [made EXCEPT ![j] = @ + 1]
  /\ Goto(j, "dying")

(* The handler throws: BullMQ counts the attempt and delays the job or,    *)
(* after the last attempt, fails it and calls the 'failed' handler.        *)
Throw(j) ==
  /\ made' = [made EXCEPT ![j] = @ + 1]
  /\ Goto(j, IF made[j] + 1 >= Attempts THEN "dying" ELSE "delayed")

(* An attempt that throws on the handler's own account: the insert was     *)
(* refused, or the queue it adds to is closed.                             *)
Refused(j) == Throw(j) /\ refused' = [refused EXCEPT ![j] = @ + 1]

(* Jobs whose last step before the acknowledgement was their own add.      *)
AddedByItself(j) ==
  where[j] = "finish" /\ creator[TokenOf[j]] = j /\ queued[TokenOf[j]] > 0

-----------------------------------------------------------------------------
(* The queue *)

(* startHorizonStream and startSorobanPolling add a job per message. *)
Capture(j) ==
  /\ where[j] = "new"
  /\ stage \in {"running", "pubClosed"}
  /\ Goto(j, "waiting")
  /\ UNCHANGED <<made, stalls, output, deadLetters, stage, bounds, history>>

(* The worker is created, and runs, before main() has connected anything.  *)
Pick(j) ==
  /\ where[j] = "waiting"
  /\ stage # "draining"
  /\ Cardinality({k \in Jobs : Active(k)}) < Concurrency
  /\ Goto(j, "check")
  /\ UNCHANGED <<made, stalls, output, deadLetters, stage, bounds, history>>

BackoffElapses(j) ==
  /\ where[j] = "delayed"
  /\ Goto(j, "waiting")
  /\ UNCHANGED <<made, stalls, output, deadLetters, stage, bounds, history>>

-----------------------------------------------------------------------------
(* The handler of a job *)

(* Seeded bug: the duplicate check is left to the unique column.           *)
CheckNotDone(j) ==
  /\ where[j] = "check"
  /\ Goto(j, "create")
  /\ UNCHANGED <<made, faults, stalls, output, deadLetters, stage, crashes, shutdowns, history>>

Check(j) ==
  /\ where[j] = "check"
  /\ \/ /\ Goto(j, IF Stored(TokenOf[j]) THEN "finish" ELSE "create")
        /\ UNCHANGED <<made, faults>>
     \/ Fault /\ Throw(j)
  /\ UNCHANGED <<stalls, output, deadLetters, stage, crashes, shutdowns, history>>

(* Seeded bug: the catch block logs a failed insert and does not rethrow.  *)
CreateSwallowed(j) ==
  LET p == TokenOf[j]
  IN  /\ where[j] = "create"
      /\ \/ ~Stored(p) /\ creator' = [creator EXCEPT ![p] = j] /\ Goto(j, "publish")
            /\ UNCHANGED faults
         \/ Stored(p) /\ Goto(j, "finish") /\ UNCHANGED <<creator, faults>>
         \/ Fault /\ Goto(j, "finish") /\ UNCHANGED creator
      /\ UNCHANGED <<made, stalls, announced, queued, deadLetters, stage, crashes, shutdowns, history>>

(* Seeded bug: an upsert instead of the insert.                            *)
CreateUpsert(j) ==
  /\ where[j] = "create"
  /\ creator' = [creator EXCEPT ![TokenOf[j]] = IF @ = NoJob THEN j ELSE @]
  /\ Goto(j, "publish")
  /\ UNCHANGED <<made, faults, stalls, announced, queued, deadLetters, stage, crashes, shutdowns,
                 history>>

(* pagingToken is unique: the insert that comes second throws.  An insert  *)
(* whose reply is lost throws as well, committed or not.                   *)
Create(j) ==
  LET p == TokenOf[j]
  IN  /\ where[j] = "create"
      /\ \/ /\ ~Stored(p)
            /\ creator' = [creator EXCEPT ![p] = j]
            /\ Goto(j, "publish")
            /\ UNCHANGED <<made, faults, refused>>
         \/ /\ Stored(p)
            /\ Refused(j)
            /\ UNCHANGED <<creator, faults>>
         \/ /\ Fault /\ Throw(j) /\ UNCHANGED refused
            /\ \/ UNCHANGED creator
               \/ ~Stored(p) /\ creator' = [creator EXCEPT ![p] = j]
      /\ UNCHANGED <<stalls, announced, queued, deadLetters, stage, crashes, shutdowns, unseen,
                     unlettered>>

(* Best effort: without a client (main() has none yet, or shutdown() has   *)
(* closed it) or when Redis fails, the job goes on unannounced.            *)
Publish(j) ==
  /\ where[j] = "publish"
  /\ Goto(j, "enqueue")
  /\ \/ /\ stage = "running"
        /\ announced' = [announced EXCEPT ![TokenOf[j]] = @ + 1]
        /\ UNCHANGED faults
     \/ stage # "running" /\ UNCHANGED <<announced, faults>>
     \/ Fault /\ UNCHANGED announced
  /\ UNCHANGED <<made, stalls, creator, queued, deadLetters, stage, crashes, shutdowns, history>>

(* processedEventQueue.add; on a closed queue it throws, and a lost reply  *)
(* does not tell whether the job was added.                                *)
Enqueue(j) ==
  LET added == queued' = [queued EXCEPT ![TokenOf[j]] = @ + 1]
      open  == stage \notin {"processedClosed", "draining"}
  IN  /\ where[j] = "enqueue"
      /\ \/ open /\ added /\ Goto(j, "finish") /\ UNCHANGED <<made, faults, refused, unseen>>
         \/ /\ open /\ Fault /\ Throw(j) /\ UNCHANGED refused
            /\ \/ added /\ unseen' = unseen \cup {j}
               \/ UNCHANGED <<queued, unseen>>
         \/ ~open /\ Refused(j) /\ UNCHANGED <<queued, faults, unseen>>
      /\ UNCHANGED <<stalls, creator, announced, deadLetters, stage, crashes, shutdowns, unlettered>>

(* The handler returns, BullMQ moves the job to completed. *)
Finish(j) ==
  /\ where[j] = "finish"
  /\ Goto(j, "completed")
  /\ UNCHANGED <<made, stalls, output, deadLetters, stage, bounds, history>>

(* The 'failed' handler.  If its add throws the rejection is unhandled:    *)
(* the job has no dead letter, and the process may die (a Crash step).     *)
DeadLetter(j) ==
  /\ where[j] = "dying"
  /\ Goto(j, "failed")
  /\ \/ /\ stage # "draining"
        /\ deadLetters' = deadLetters \cup {j}
        /\ UNCHANGED <<faults, unlettered>>
     \/ /\ (stage = "draining" /\ UNCHANGED faults) \/ Fault
        /\ unlettered' = unlettered \cup {j}
        /\ UNCHANGED deadLetters
  /\ UNCHANGED <<made, stalls, output, stage, crashes, shutdowns, refused, unseen>>

-----------------------------------------------------------------------------
(* The process *)

(* main() has its connections and starts the capture loops. *)
Started ==
  /\ stage = "starting"
  /\ stage' = "running"
  /\ UNCHANGED <<where, made, stalls, output, deadLetters, bounds, history>>

NextStage == [pubClosed |-> "rawClosed", rawClosed |-> "processedClosed",
              processedClosed |-> "draining"]

(* SIGTERM: shutdown() closes the Pub/Sub client first, then the queues,   *)
(* and the worker that still uses them last.                               *)
Shutdown ==
  /\ stage = "running" /\ shutdowns < MaxShutdowns
  /\ stage' = "pubClosed"
  /\ shutdowns' = shutdowns + 1
  /\ UNCHANGED <<where, made, stalls, output, deadLetters, faults, crashes, history>>

CloseNext ==
  /\ stage \in DOMAIN NextStage
  /\ stage' = NextStage[stage]
  /\ UNCHANGED <<where, made, stalls, output, deadLetters, bounds, history>>

(* Seeded bug: the shutdown waits for the jobs that wait in the queue.     *)
ExitWhenQueueEmpty ==
  /\ stage = "draining"
  /\ \A j \in Jobs : where[j] \in {"new", "completed", "failed"}
  /\ stage' = "starting"
  /\ UNCHANGED <<where, made, stalls, output, deadLetters, bounds, history>>

(* eventProcessor.close() has waited for the active jobs; process.exit(0)  *)
(* does not wait for a 'failed' handler.  The service is started again.    *)
Exit ==
  /\ stage = "draining"
  /\ \A j \in Jobs : ~Active(j)
  /\ stage' = "starting"
  /\ where' = [j \in Jobs |-> IF where[j] = "dying" THEN "failed" ELSE where[j]]
  /\ unlettered' = unlettered \cup {j \in Jobs : where[j] = "dying"}
  /\ UNCHANGED <<made, stalls, output, deadLetters, bounds, refused, unseen>>

Crash ==
  /\ crashes < MaxCrashes
  /\ crashes' = crashes + 1
  /\ stage' = "starting"
  /\ where' = [j \in Jobs |->
                 CASE Active(j) /\ stalls[j] < MaxStalled -> "waiting"
                   [] Active(j) /\ stalls[j] >= MaxStalled -> "failed"
                   [] where[j] = "dying" -> "failed"
                   [] OTHER -> where[j]]
  /\ stalls' = [j \in Jobs |-> IF Active(j) THEN stalls[j] + 1 ELSE stalls[j]]
  /\ unseen' = unseen \cup {j \in Jobs : AddedByItself(j)}
  /\ unlettered' = unlettered \cup {j \in Jobs : where[j] = "dying"}
  /\ UNCHANGED <<made, output, deadLetters, faults, shutdowns, refused>>

Handle(j) ==
  Check(j) \/ Create(j) \/ Publish(j) \/ Enqueue(j) \/ Finish(j) \/ DeadLetter(j)

Process == Started \/ CloseNext \/ Exit

Next ==
  \/ \E j \in Jobs : Capture(j) \/ Pick(j) \/ BackoffElapses(j) \/ Handle(j)
  \/ Process \/ Shutdown \/ Crash

(* BullMQ serves waiting jobs and retries delayed ones, database and Redis *)
(* calls settle, startup and shutdown run to their end.  Nothing has to be *)
(* captured, and nothing has to fail.                                      *)
Fairness ==
  /\ \A j \in Jobs : WF_vars(Pick(j)) /\ WF_vars(BackoffElapses(j)) /\ WF_vars(Handle(j))
  /\ WF_vars(Process)

Spec == Init /\ [][Next]_vars /\ Fairness

-----------------------------------------------------------------------------
(* Properties *)

TypeOK ==
  /\ where \in [Jobs -> HandlerSteps \cup
                        {"new", "waiting", "delayed", "dying", "completed", "failed"}]
  /\ made \in [Jobs -> 0..Attempts]
  /\ stalls \in [Jobs -> 0..(MaxStalled + 1)]
  /\ creator \in [Tokens -> Jobs \cup {NoJob}]
  /\ announced \in [Tokens -> Nat] /\ queued \in [Tokens -> Nat]
  /\ deadLetters \in SUBSET Jobs
  /\ stage \in {"starting", "running", "pubClosed", "rawClosed", "processedClosed", "draining"}
  /\ faults \in 0..MaxFaults /\ crashes \in 0..MaxCrashes /\ shutdowns \in 0..MaxShutdowns
  /\ refused \in [Jobs -> Nat] /\ unseen \in SUBSET Jobs /\ unlettered \in SUBSET Jobs

(* A job leaves the queue as completed only when its event is in the       *)
(* database, its own insert or a duplicate's (index.ts:232-262).           *)
CompletedIsStored ==
  \A j \in Jobs : where[j] = "completed" => Stored(TokenOf[j])

(* The dead letters of index.ts:325-330, job by job.  A job that has one   *)
(* used up its attempts, all but one of them on database or Redis calls of *)
(* its own that failed: a retry that finds the row stored ends as a        *)
(* duplicate, so losing the insert and a queue closed by shutdown() cost   *)
(* one attempt at most.  It did not hand its event on, unless the queue    *)
(* could not see that its own add had taken effect.  A job given up        *)
(* without a letter stalled too often, or its letter was lost itself.      *)
DeadLettersEarned ==
  \A j \in Jobs :
    /\ j \in deadLetters =>
         /\ where[j] = "failed" /\ made[j] = Attempts
         /\ made[j] - refused[j] >= Attempts - 1
         /\ creator[TokenOf[j]] = j /\ queued[TokenOf[j]] > 0 => j \in unseen
    /\ where[j] = "failed" /\ j \notin deadLetters =>
         j \in unlettered \/ stalls[j] > MaxStalled

(* However often an event is captured, retried, interrupted by a crash or  *)
(* a shutdown: one row, at most one announcement, at most one downstream   *)
(* job, in that order (index.ts:224-322).                                  *)
Handoff == INSTANCE EventHandoff WITH stored <- [p \in Tokens |-> Stored(p)]

HandedOffOnce == Handoff!Spec

(* Every captured event is decided: its job completes or fails for good,   *)
(* through any bounded number of faults, crashes and shutdowns.            *)
CapturedIsDecided ==
  \A j \in Jobs : where[j] = "waiting" ~> where[j] \in {"completed", "failed"}

(* index.ts:304: "Queue for downstream processing (notifications,          *)
(* webhooks, WebSocket broadcast)", for every event that is stored.  The   *)
(* code does not keep this: a job interrupted between the insert and the   *)
(* add is retried as a duplicate of itself.                                *)
StoredIsQueued ==
  \A p \in Tokens : Stored(p) ~> queued[p] > 0
=============================================================================
