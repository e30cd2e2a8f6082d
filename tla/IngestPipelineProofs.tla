-------------------------- MODULE IngestPipelineProofs --------------------------
(***************************************************************************)
(* Theorems about IngestPipeline, for any number of jobs, captures of the  *)
(* same event, faults, crashes and shutdowns.                              *)
(***************************************************************************)
EXTENDS IngestPipeline, TLAPS

USE DEF output, bounds, history, vars, HandlerSteps, Active, Stored, Goto, Fault, Refused

(* Attempts are left until the handler has thrown for the last time, and   *)
(* restarts until BullMQ has failed the job for stalling.                  *)
AttemptsLeft ==
  \A j \in Jobs :
    /\ where[j] \notin {"dying", "failed"} => made[j] < Attempts
    /\ where[j] # "failed" => stalls[j] <= MaxStalled

(* The unique insert makes one job the creator of the row; only that job   *)
(* gets past the insert, and it does so with nothing announced or queued.  *)
CreatorHandsOff ==
  /\ \A j \in Jobs :
       /\ where[j] = "publish" =>
            creator[TokenOf[j]] = j /\ announced[TokenOf[j]] = 0 /\ queued[TokenOf[j]] = 0
       /\ where[j] = "enqueue" => creator[TokenOf[j]] = j /\ queued[TokenOf[j]] = 0
       /\ where[j] \in {"finish", "completed"} => Stored(TokenOf[j])
  /\ \A p \in Tokens : ~Stored(p) => announced[p] = 0 /\ queued[p] = 0

PInv == TypeOK /\ AttemptsLeft /\ CreatorHandsOff

LEMMA TokenTyped == \A j \in Jobs : TokenOf[j] \in Tokens
BY PipelineAssumption

LEMMA PipelineInit == Init => PInv
BY PipelineAssumption, TokenTyped DEF Init, PInv, TypeOK, AttemptsLeft, CreatorHandsOff

LEMMA PipelineStep == PInv /\ [Next]_vars => PInv'
<1> SUFFICES ASSUME PInv, [Next]_vars
             PROVE  PInv'
  OBVIOUS
<1> USE PipelineAssumption, TokenTyped DEF PInv, TypeOK, AttemptsLeft, CreatorHandsOff
<1>1. ASSUME NEW j \in Jobs, Capture(j)
      PROVE  PInv'
  BY <1>1 DEF Capture
<1>2. ASSUME NEW j \in Jobs, Pick(j)
      PROVE  PInv'
  BY <1>2 DEF Pick
<1>3. ASSUME NEW j \in Jobs, BackoffElapses(j)
      PROVE  PInv'
  BY <1>3 DEF BackoffElapses
<1>4. ASSUME NEW j \in Jobs, Check(j)
      PROVE  PInv'
  BY <1>4 DEF Check, Throw
<1>5. ASSUME NEW j \in Jobs, Create(j)
      PROVE  PInv'
  BY <1>5 DEF Create, Throw
<1>6. ASSUME NEW j \in Jobs, Publish(j)
      PROVE  PInv'
  BY <1>6 DEF Publish
<1>7. ASSUME NEW j \in Jobs, Enqueue(j)
      PROVE  PInv'
  BY <1>7 DEF Enqueue, Throw
<1>8. ASSUME NEW j \in Jobs, Finish(j)
      PROVE  PInv'
  BY <1>8 DEF Finish
<1>9. ASSUME NEW j \in Jobs, DeadLetter(j)
      PROVE  PInv'
  BY <1>9 DEF DeadLetter
<1>10. ASSUME Started \/ CloseNext \/ Shutdown
       PROVE  PInv'
  BY <1>10 DEF Started, CloseNext, Shutdown, NextStage
<1>11. ASSUME Exit
       PROVE  PInv'
  BY <1>11 DEF Exit
<1>12. ASSUME Crash
       PROVE  PInv'
  <2>1. ASSUME NEW j \in Jobs
        PROVE  /\ where'[j] \in {"new", "waiting", "delayed", "completed", "failed"}
               /\ where'[j] = "completed" => where[j] = "completed"
               /\ where'[j] # "failed" => where[j] \notin {"dying", "failed"}
               /\ stalls'[j] \in Nat
    BY <1>12, <2>1 DEF Crash
  <2>2. \A j \in Jobs : stalls'[j] \in 0..(MaxStalled + 1)
    BY <1>12 DEF Crash
  <2>3. QED
    BY <1>12, <2>1, <2>2 DEF Crash
<1>13. CASE UNCHANGED vars
  BY <1>13
<1>14. QED
  BY <1>1, <1>2, <1>3, <1>4, <1>5, <1>6, <1>7, <1>8, <1>9, <1>10, <1>11, <1>12, <1>13
     DEF Next, Handle, Process

THEOREM PipelineInvariance == Spec => []PInv
<1>1. QED
  BY PipelineInit, PipelineStep, PTL DEF Spec

(* Types, with both retry limits: no job is attempted more than Attempts   *)
(* times, and none is put back more than MaxStalled times.                 *)
THEOREM PipelineTypesKept == Spec => []TypeOK
<1>1. PInv => TypeOK
  BY DEF PInv
<1>2. QED
  BY <1>1, PipelineInvariance, PTL

(* No job is acknowledged for an event that is not in the database.        *)
THEOREM CompletedStored == Spec => []CompletedIsStored
<1>1. PInv => CompletedIsStored
  BY DEF PInv, CreatorHandsOff, CompletedIsStored
<1>2. QED
  BY <1>1, PipelineInvariance, PTL

-----------------------------------------------------------------------------
(* The pipeline implements the handoff: one row, then at most one          *)
(* announcement, then at most one downstream job per event.                *)

LEMMA HandoffInit == Init => Handoff!Init
BY DEF Init, Handoff!Init

LEMMA HandoffStep ==
  PInv /\ [Next]_vars => [Handoff!Next]_<<[p \in Tokens |-> Stored(p)], announced, queued>>
<1> DEFINE stored == [p \in Tokens |-> Stored(p)]
<1> SUFFICES ASSUME PInv, [Next]_vars
             PROVE  Handoff!Next \/ UNCHANGED <<stored, announced, queued>>
  OBVIOUS
<1> USE PipelineAssumption, TokenTyped DEF PInv, TypeOK, CreatorHandsOff
<1>1. ASSUME NEW j \in Jobs, Create(j)
      PROVE  Handoff!Next \/ UNCHANGED <<stored, announced, queued>>
  <2>1. CASE UNCHANGED creator
    BY <1>1, <2>1 DEF Create
  <2>2. CASE ~Stored(TokenOf[j]) /\ creator' = [creator EXCEPT ![TokenOf[j]] = j]
    <3>1. stored' = [stored EXCEPT ![TokenOf[j]] = TRUE]
      BY <2>2
    <3>2. Handoff!Store(TokenOf[j])
      BY <1>1, <2>2, <3>1 DEF Create, Handoff!Store
    <3>3. QED
      BY <3>2 DEF Handoff!Next
  <2>3. QED
    BY <1>1, <2>1, <2>2 DEF Create
<1>2. ASSUME NEW j \in Jobs, Publish(j)
      PROVE  Handoff!Next \/ UNCHANGED <<stored, announced, queued>>
  <2>1. CASE UNCHANGED announced
    BY <1>2, <2>1 DEF Publish
  <2>2. CASE announced' = [announced EXCEPT ![TokenOf[j]] = @ + 1]
    <3>1. where[j] = "publish" /\ TokenOf[j] \in Tokens /\ UNCHANGED <<creator, queued>>
      BY <1>2 DEF Publish
    <3>2. creator[TokenOf[j]] = j /\ announced[TokenOf[j]] = 0 /\ queued[TokenOf[j]] = 0
      BY <3>1
    <3>3. stored[TokenOf[j]] /\ UNCHANGED stored
      BY <3>1, <3>2
    <3>4. announced' = [announced EXCEPT ![TokenOf[j]] = 1]
      BY <2>2, <3>2
    <3>5. Handoff!Announce(TokenOf[j])
      BY <3>1, <3>2, <3>3, <3>4 DEF Handoff!Announce
    <3>6. QED
      BY <3>1, <3>5 DEF Handoff!Next
  <2>3. QED
    BY <1>2, <2>1, <2>2 DEF Publish
<1>3. ASSUME NEW j \in Jobs, Enqueue(j)
      PROVE  Handoff!Next \/ UNCHANGED <<stored, announced, queued>>
  <2>1. CASE UNCHANGED queued
    BY <1>3, <2>1 DEF Enqueue
  <2>2. CASE queued' = [queued EXCEPT ![TokenOf[j]] = @ + 1]
    <3>1. where[j] = "enqueue" /\ TokenOf[j] \in Tokens /\ UNCHANGED <<creator, announced>>
      BY <1>3 DEF Enqueue
    <3>2. creator[TokenOf[j]] = j /\ queued[TokenOf[j]] = 0
      BY <3>1
    <3>3. stored[TokenOf[j]] /\ UNCHANGED stored
      BY <3>1, <3>2
    <3>4. queued' = [queued EXCEPT ![TokenOf[j]] = 1]
      BY <2>2, <3>2
    <3>5. Handoff!HandOff(TokenOf[j])
      BY <3>1, <3>2, <3>3, <3>4 DEF Handoff!HandOff
    <3>6. QED
      BY <3>1, <3>5 DEF Handoff!Next
  <2>3. QED
    BY <1>3, <2>1, <2>2 DEF Enqueue
<1>4. ASSUME NEW j \in Jobs,
             \/ Capture(j) \/ Pick(j) \/ BackoffElapses(j) \/ Check(j)
             \/ Finish(j) \/ DeadLetter(j)
      PROVE  UNCHANGED output
  BY <1>4 DEF Capture, Pick, BackoffElapses, Check, Finish, DeadLetter
<1>5. ASSUME Process \/ Shutdown \/ Crash
      PROVE  UNCHANGED output
  BY <1>5 DEF Process, Started, CloseNext, Exit, Shutdown, Crash
<1>6. UNCHANGED output => UNCHANGED <<stored, announced, queued>>
  OBVIOUS
<1>7. QED
  BY <1>1, <1>2, <1>3, <1>4, <1>5, <1>6 DEF Next, Handle

(* However often an event is captured and its jobs are retried, stalled or *)
(* shut down: stored once, announced and queued at most once, in order.    *)
THEOREM HandedOff == Spec => HandedOffOnce
<1>1. QED
  BY HandoffInit, HandoffStep, PipelineInvariance, PTL
     DEF Spec, HandedOffOnce, Handoff!Spec

-----------------------------------------------------------------------------
(* Dead letters *)

(* An attempt is refused only once the row is there, and with the row      *)
(* there the next attempt ends at the duplicate check: no attempt that     *)
(* gets past the check has been refused before.                            *)
RefusedOnce ==
  \A j \in Jobs :
    /\ refused[j] \in 0..1
    /\ refused[j] = 1 => Stored(TokenOf[j])
    /\ where[j] \in {"create", "publish", "enqueue"} => refused[j] = 0

(* A job that is to run again, or to be given up, after its own add took   *)
(* effect is one the queue did not see to its end; one about to insert has *)
(* not inserted.                                                           *)
AddsAccounted ==
  \A j \in Jobs :
    /\ where[j] \in {"new", "create"} => creator[TokenOf[j]] # j
    /\ where[j] \in {"waiting", "check", "delayed", "dying"} /\ creator[TokenOf[j]] = j
         /\ queued[TokenOf[j]] > 0 => j \in unseen

(* A job without attempts left is dying or has failed.                     *)
LettersAccounted ==
  \A j \in Jobs :
    /\ where[j] = "dying" => made[j] = Attempts /\ j \notin deadLetters
    /\ j \in deadLetters =>
         /\ where[j] = "failed" /\ made[j] = Attempts
         /\ creator[TokenOf[j]] = j /\ queued[TokenOf[j]] > 0 => j \in unseen
    /\ where[j] = "failed" /\ j \notin deadLetters =>
         j \in unlettered \/ stalls[j] > MaxStalled

DInv == RefusedOnce /\ AddsAccounted /\ LettersAccounted

LEMMA LettersStep ==
  ASSUME PInv, DInv, [Next]_vars
  PROVE  DInv'
<1> USE PipelineAssumption, TokenTyped
    DEF PInv, TypeOK, AttemptsLeft, CreatorHandsOff, DInv, RefusedOnce, AddsAccounted, LettersAccounted
<1>1. ASSUME NEW j \in Jobs, Capture(j) \/ Pick(j) \/ BackoffElapses(j)
      PROVE  DInv'
  BY <1>1 DEF Capture, Pick, BackoffElapses
<1>2. ASSUME NEW j \in Jobs, Check(j)
      PROVE  DInv'
  BY <1>2 DEF Check, Throw
<1>3. ASSUME NEW j \in Jobs, Create(j)
      PROVE  DInv'
  <2>1. RefusedOnce'
    BY <1>3 DEF Create, Throw
  <2>2. AddsAccounted'
    BY <1>3 DEF Create, Throw
  <2>3. LettersAccounted'
    BY <1>3 DEF Create, Throw
  <2>4. QED
    BY <2>1, <2>2, <2>3
<1>4. ASSUME NEW j \in Jobs, Publish(j)
      PROVE  DInv'
  BY <1>4 DEF Publish
<1>5. ASSUME NEW j \in Jobs, Enqueue(j)
      PROVE  DInv'
  <2>1. RefusedOnce'
    BY <1>5 DEF Enqueue, Throw
  <2>2. AddsAccounted'
    BY <1>5 DEF Enqueue, Throw
  <2>3. LettersAccounted'
    BY <1>5 DEF Enqueue, Throw
  <2>4. QED
    BY <2>1, <2>2, <2>3
<1>6. ASSUME NEW j \in Jobs, Finish(j)
      PROVE  DInv'
  BY <1>6 DEF Finish
<1>7. ASSUME NEW j \in Jobs, DeadLetter(j)
      PROVE  DInv'
  BY <1>7 DEF DeadLetter
<1>8. ASSUME Started \/ CloseNext \/ Shutdown
      PROVE  DInv'
  BY <1>8 DEF Started, CloseNext, Shutdown
<1>9. ASSUME Exit
      PROVE  DInv'
  BY <1>9 DEF Exit
<1>10. ASSUME Crash
      PROVE  DInv'
  <2>1. \A j \in Jobs :
          /\ where'[j] \in {"new", "waiting", "delayed", "completed", "failed"}
          /\ where'[j] = "new" => where[j] = "new"
          /\ where'[j] = "delayed" => where[j] = "delayed"
          /\ where'[j] = "waiting" => where[j] = "waiting" \/ Active(j)
          /\ where[j] = "failed" => where'[j] = "failed"
    BY <1>10 DEF Crash
  <2>2. UNCHANGED <<made, creator, queued, faults, deadLetters, refused>>
    BY <1>10 DEF Crash
  <2>3. /\ unseen' = unseen \cup {j \in Jobs : AddedByItself(j)}
        /\ unlettered' = unlettered \cup {j \in Jobs : where[j] = "dying"}
    BY <1>10 DEF Crash
  <2>4. RefusedOnce'
    BY <2>1, <2>2
  <2>5. AddsAccounted'
    BY <2>1, <2>2, <2>3 DEF AddedByItself
  <2>6. ASSUME NEW j \in Jobs, where'[j] = "failed", j \notin deadLetters
        PROVE  j \in unlettered' \/ stalls'[j] > MaxStalled
    <3>1. CASE where[j] = "failed"
      BY <1>10, <2>3, <2>6, <3>1 DEF Crash
    <3>2. CASE where[j] = "dying"
      BY <2>3, <3>2
    <3>3. CASE Active(j) /\ stalls[j] >= MaxStalled
      BY <1>10, <3>3 DEF Crash
    <3>4. QED
      BY <1>10, <2>6, <3>1, <3>2, <3>3 DEF Crash
  <2>7. LettersAccounted'
    BY <2>1, <2>2, <2>3, <2>6
  <2>8. QED
    BY <2>4, <2>5, <2>7
<1>11. CASE UNCHANGED vars
  BY <1>11
<1>12. QED
  BY <1>1, <1>2, <1>3, <1>4, <1>5, <1>6, <1>7, <1>8, <1>9, <1>10, <1>11 DEF Next, Handle, Process

(* A dead letter costs Attempts - 1 failed calls of the job it is for, and *)
(* it stands for an event this job did not hand on, except the very jobs   *)
(* whose own add the queue could not see; a job given up without a letter  *)
(* stalled too often, or its letter was lost.                              *)
THEOREM DeadLettersSound == Spec => []DeadLettersEarned
<1>1. Init => DInv
  BY PipelineAssumption, TokenTyped DEF Init, DInv, RefusedOnce, AddsAccounted, LettersAccounted
<1>2. PInv /\ DInv /\ [Next]_vars => DInv'
  BY LettersStep
<1>3. PInv /\ DInv => DeadLettersEarned
  <2>1. SUFFICES ASSUME PInv, DInv, NEW j \in Jobs
                 PROVE  j \in deadLetters => made[j] - refused[j] >= Attempts - 1
    BY DEF DInv, LettersAccounted, DeadLettersEarned
  <2>2. refused[j] \in 0..1 /\ Attempts \in Nat
    BY <2>1, PipelineAssumption DEF DInv, RefusedOnce
  <2>3. j \in deadLetters => made[j] = Attempts
    BY <2>1 DEF DInv, LettersAccounted
  <2>4. QED
    BY <2>2, <2>3
<1>4. QED
  BY <1>1, <1>2, <1>3, PipelineInvariance, PTL DEF Spec
=============================================================================
