-------------------------- MODULE TaskPipelineProofs --------------------------
(***************************************************************************)
(* TaskPipeline, for every number of tasks, slots, requests, attempts,     *)
(* redeliveries, faults and crashes, with lost replies and lost locks:     *)
(* types and the bounds on attempts; erasure is final; and the pipeline    *)
(* implements DocumentCustody.                                             *)
(***************************************************************************)
EXTENDS TaskPipeline, TLAPS

(* How the queue and the program counters hang together. *)

JobInv ==
  \A t \in Task :
    /\ upload[t] \in {"idle", "create", "enqueue"} => job[t].state = "none"
    /\ job[t].state \in {"none", "waiting", "active", "delayed"}
         => job[t].attempts < Attempts

SlotInv ==
  /\ \A w \in Slot : slot[w].pc # "idle" => slot[w].task \in Task
  /\ \A t \in Task, w \in Slot :
       holder[t] = w => /\ job[t].state = "active"
                        /\ slot[w].pc # "idle"
                        /\ slot[w].task = t

DeletionInv ==
  \A d \in Eraser :
    deletion[d].pc \in {"object", "record", "commit"} => deletion[d].task \in Task

TypeInv == TypeOK /\ JobInv /\ SlotInv /\ DeletionInv

LEMMA InitTypeInv == Init => TypeInv
  <1> SUFFICES ASSUME Init PROVE TypeInv
    OBVIOUS
  <1>1. TypeOK
    BY PipelineAssumption DEF Init, TypeOK, UploadState, Job, SlotState, Deletion,
       IdleSlot, IdleDeletion, NoRecord
  <1>2. JobInv /\ SlotInv /\ DeletionInv
    BY PipelineAssumption DEF Init, JobInv, SlotInv, DeletionInv, IdleSlot,
       IdleDeletion
  <1> QED BY <1>1, <1>2 DEF TypeInv

(* One lemma per group of actions. *)

LEMMA UploadTypeInv ==
  ASSUME TypeInv, NEW t \in Task, UploadStep(t) \/ UploadCrash(t)
  PROVE  TypeInv'
  <1> USE PipelineAssumption
      DEF TypeInv, TypeOK, JobInv, SlotInv, DeletionInv, StepUpload, Returns,
          Throws, UpdateRecord, UploadState, TaskRecord, Job, dataVars,
          queueVars, slotVars, eraseVars, faultVars
  <1>1. CASE UploadStore(t)
    BY <1>1 DEF UploadStore, PutObject
  <1>2. CASE UploadCreate(t)
    <2>1. record' \in [Task -> TaskRecord \cup {NoRecord}] /\ faults' \in 0..MaxFaults
      <3>1. QueuedRecord \in TaskRecord
        BY DEF QueuedRecord
      <3>2. InsertRecord(t) \/ UNCHANGED record
        BY <1>2 DEF UploadCreate
      <3>3. faults' \in 0..MaxFaults
        BY <1>2 DEF UploadCreate
      <3> HIDE DEF TaskRecord
      <3> QED BY <3>1, <3>2, <3>3 DEF InsertRecord
    <2>2. upload' \in [Task -> UploadState]
      BY <1>2 DEF UploadCreate
    <2>3. JobInv'
      BY <1>2 DEF UploadCreate
    <2> QED BY <1>2, <2>1, <2>2, <2>3 DEF UploadCreate
  <1>3. CASE UploadUndo(t)
    BY <1>3 DEF UploadUndo, DropObject
  <1>4. CASE UploadEnqueue(t)
    <2>1. job' \in [Task -> Job] /\ faults' \in 0..MaxFaults
      <3>1. [job[t] EXCEPT !.state = "waiting"] \in Job
        OBVIOUS
      <3>2. job' = job \/ job' = [job EXCEPT ![t] = [job[t] EXCEPT !.state = "waiting"]]
        BY <1>4 DEF UploadEnqueue, AddJob
      <3>3. faults' \in 0..MaxFaults
        BY <1>4 DEF UploadEnqueue
      <3> HIDE DEF Job
      <3> QED BY <3>1, <3>2, <3>3
    <2>2. upload' \in [Task -> UploadState]
      BY <1>4 DEF UploadEnqueue
    <2>3. TypeOK'
      BY <1>4, <2>1, <2>2 DEF UploadEnqueue
    <2>4. job[t].state = "none" /\ \A u \in Task \ {t} : job'[u] = job[u]
      BY <1>4 DEF UploadEnqueue, AddJob
    <2>5. SlotInv'
      BY <1>4, <2>4 DEF UploadEnqueue
    <2>6. JobInv'
      BY <1>4 DEF UploadEnqueue, AddJob
    <2>7. DeletionInv'
      BY <1>4 DEF UploadEnqueue
    <2> QED BY <2>3, <2>5, <2>6, <2>7
  <1>5. CASE UploadMarkFailed(t)
    <2>1. record' \in [Task -> TaskRecord \cup {NoRecord}] /\ faults' \in 0..MaxFaults
      BY <1>5 DEF UploadMarkFailed
    <2>2. upload' \in [Task -> UploadState]
      BY <1>5 DEF UploadMarkFailed
    <2>3. JobInv'
      BY <1>5 DEF UploadMarkFailed
    <2> QED BY <1>5, <2>1, <2>2, <2>3 DEF UploadMarkFailed
  <1>6. CASE UploadCrash(t)
    BY <1>6 DEF UploadCrash, InFlight
  <1> QED
    BY <1>1, <1>2, <1>3, <1>4, <1>5, <1>6 DEF UploadStep

LEMMA QueueTypeInv ==
  ASSUME TypeInv, NEW t \in Task, NEW w \in Slot,
         Deliver(w, t) \/ LoseLock(w) \/ SlotCrash(w)
  PROVE  TypeInv'
  <1> USE PipelineAssumption
      DEF TypeInv, TypeOK, JobInv, SlotInv, DeletionInv, UploadState, Job,
          SlotState, RunPc, CatchPc, IdleSlot, dataVars, queueVars,
          slotVars, eraseVars, faultVars
  <1>1. CASE Deliver(w, t)
    BY <1>1 DEF Deliver, Doomed
  <1>2. CASE LoseLock(w)
    BY <1>2 DEF LoseLock
  <1>3. CASE SlotCrash(w)
    BY <1>3 DEF SlotCrash
  <1> QED
    BY <1>1, <1>2, <1>3

LEMMA RedeliveryTypeInv ==
  ASSUME TypeInv, NEW t \in Task, Promote(t) \/ Stall(t)
  PROVE  TypeInv'
  <1>1. job[t] \in Job /\ job[t].state \in {"active", "delayed"}
        /\ job[t].attempts < Attempts
    BY DEF TypeInv, TypeOK, JobInv, Promote, Stall
  <1>2. UNCHANGED <<upload, dataVars, holder, slotVars, eraseVars, expired, faultVars>>
    BY DEF Promote, Stall
  <1>3. PICK j \in Job : /\ job' = [job EXCEPT ![t] = j]
                        /\ j.attempts = job[t].attempts
                        /\ j.state \in {"waiting", "failed"}
    <2>1. CASE Promote(t)
      <3>1. [job[t] EXCEPT !.state = "waiting"] \in Job
        BY <1>1 DEF Job
      <3> QED BY <1>1, <2>1, <3>1 DEF Promote, Job
    <2>2. CASE Stall(t)
      <3> DEFINE n == IF Doomed(t) THEN job[t].stalls ELSE job[t].stalls + 1
                 j == [job[t] EXCEPT !.state = "waiting", !.stalls = n]
      <3>1. n \in 0..(MaxStalled + 1)
        BY <1>1, PipelineAssumption DEF Job, Doomed
      <3>2. j \in Job /\ j.attempts = job[t].attempts /\ j.state = "waiting"
        BY <1>1, <3>1 DEF Job
      <3>3. job' = [job EXCEPT ![t] = j]
        BY <1>1, <2>2 DEF Stall, TypeInv, TypeOK
      <3> QED BY <3>2, <3>3
    <2> QED BY <2>1, <2>2
  <1>4. TypeOK'
    BY <1>2, <1>3 DEF TypeInv, TypeOK, dataVars, slotVars, eraseVars, faultVars
  <1>5. JobInv'
    BY <1>1, <1>2, <1>3 DEF TypeInv, TypeOK, JobInv
  <1>6. holder[t] = NoSlot \/ job[t].state # "active"
    BY DEF Promote, Stall
  <1>7. SlotInv'
    BY <1>2, <1>3, <1>6, PipelineAssumption DEF TypeInv, TypeOK, SlotInv, slotVars
  <1>8. DeletionInv'
    BY <1>2 DEF TypeInv, DeletionInv, eraseVars
  <1> QED BY <1>4, <1>5, <1>7, <1>8 DEF TypeInv

(* What every step of processTaskJob but the last two has in common: the   *)
(* slot stays with its task and only moves its program counter.            *)

Moves(w) ==
  /\ slot[w].pc # "idle"
  /\ slot' \in [Slot -> SlotState]
  /\ slot'[w].pc # "idle"
  /\ slot'[w].task = slot[w].task
  /\ \A v \in Slot \ {w} : slot'[v] = slot[v]

LEMMA SlotMoves ==
  ASSUME slot \in [Slot -> SlotState], NEW w \in Slot, slot[w].pc # "idle",
         NEW pc \in RunPc \cup CatchPc, NEW stage \in {"parse", "scan"},
         \/ slot' = [slot EXCEPT ![w].pc = pc]
         \/ slot' = [slot EXCEPT ![w].pc = pc, ![w].stage = stage]
  PROVE  Moves(w) /\ slot'[w].pc = pc
  BY DEF Moves, SlotState, RunPc, CatchPc

LEMMA AdvanceEffect ==
  ASSUME TypeOK, NEW w \in Slot, slot[w].task \in Task,
         NEW stage \in {"parse", "scan"}, NEW next \in {"scan", "risks"},
         Advance(w, stage, next)
  PROVE  /\ Moves(w)
         /\ record' \in [Task -> TaskRecord \cup {NoRecord}]
         /\ faults' \in 0..MaxFaults
  <1>1. slot \in [Slot -> SlotState] /\ slot[w].pc # "idle"
    BY DEF Advance, TypeOK
  <1>2. PICK pc \in RunPc \cup CatchPc :
          slot' = [slot EXCEPT ![w].pc = pc, ![w].stage = stage]
    BY DEF Advance, RunPc, CatchPc
  <1>3. Moves(w)
    BY <1>1, <1>2, SlotMoves
  <1>4. record' \in [Task -> TaskRecord \cup {NoRecord}]
    BY DEF Advance, TypeOK, Returns, Throws, UpdateRecord, TaskRecord
  <1>5. faults' \in 0..MaxFaults
    BY PipelineAssumption DEF Advance, TypeOK, Returns, Throws
  <1> QED BY <1>3, <1>4, <1>5

LEMMA PublishEffect ==
  ASSUME TypeOK, NEW w \in Slot, slot[w].task \in Task,
         NEW pc \in RunPc, NEW table \in Tables, NEW next \in RunPc,
         Publish(w, pc, table, next)
  PROVE  /\ Moves(w)
         /\ results' \in [Task -> SUBSET Tables]
         /\ faults' \in 0..MaxFaults
  <1>1. slot \in [Slot -> SlotState] /\ slot[w].pc # "idle"
    BY DEF Publish, TypeOK, RunPc
  <1>2. PICK to \in RunPc \cup CatchPc : slot' = [slot EXCEPT ![w].pc = to]
    BY DEF Publish, StepSlot, RunPc, CatchPc
  <1>3. Moves(w)
    BY <1>1, <1>2, SlotMoves
  <1>4. results' \in [Task -> SUBSET Tables]
    BY DEF Publish, TypeOK, Returns, Throws, InsertRows
  <1>5. faults' \in 0..MaxFaults
    BY PipelineAssumption DEF Publish, TypeOK, Returns, Throws
  <1> QED BY <1>3, <1>4, <1>5

LEMMA CompleteEffect ==
  ASSUME TypeOK, NEW w \in Slot, slot[w].task \in Task, Complete(w)
  PROVE  /\ Moves(w)
         /\ record' \in [Task -> TaskRecord \cup {NoRecord}]
         /\ faults' \in 0..MaxFaults
  <1>1. slot \in [Slot -> SlotState] /\ slot[w].pc # "idle"
    BY DEF Complete, TypeOK
  <1>2. PICK to \in RunPc \cup CatchPc : slot' = [slot EXCEPT ![w].pc = to]
    BY DEF Complete, StepSlot, RunPc, CatchPc
  <1>3. Moves(w)
    BY <1>1, <1>2, SlotMoves
  <1>4. record' \in [Task -> TaskRecord \cup {NoRecord}]
    BY DEF Complete, TypeOK, Returns, Throws, UpdateRecord, TaskRecord
  <1>5. faults' \in 0..MaxFaults
    BY PipelineAssumption DEF Complete, TypeOK, Returns, Throws
  <1> QED BY <1>3, <1>4, <1>5

LEMMA WithdrawEffect ==
  ASSUME TypeOK, NEW w \in Slot, slot[w].task \in Task,
         NEW pc \in CatchPc, NEW table \in Tables, NEW next \in CatchPc,
         Withdraw(w, pc, table, next)
  PROVE  /\ Moves(w)
         /\ results' \in [Task -> SUBSET Tables]
         /\ faults' \in 0..MaxFaults
  <1>1. slot \in [Slot -> SlotState] /\ slot[w].pc # "idle"
    BY DEF Withdraw, TypeOK, CatchPc
  <1>2. PICK to \in RunPc \cup CatchPc : slot' = [slot EXCEPT ![w].pc = to]
    BY DEF Withdraw, StepSlot, RunPc, CatchPc
  <1>3. Moves(w)
    BY <1>1, <1>2, SlotMoves
  <1>4. results' \in [Task -> SUBSET Tables]
    BY DEF Withdraw, TypeOK, Returns, Throws, DeleteRows
  <1>5. faults' \in 0..MaxFaults
    BY PipelineAssumption DEF Withdraw, TypeOK, Returns, Throws
  <1> QED BY <1>3, <1>4, <1>5

LEMMA FailEffect ==
  ASSUME TypeOK, NEW w \in Slot, slot[w].task \in Task, Fail(w)
  PROVE  /\ Moves(w)
         /\ record' \in [Task -> TaskRecord \cup {NoRecord}]
         /\ faults' \in 0..MaxFaults
  <1>1. slot \in [Slot -> SlotState] /\ slot[w].pc # "idle"
    BY DEF Fail, TypeOK
  <1>2. PICK to \in RunPc \cup CatchPc : slot' = [slot EXCEPT ![w].pc = to]
    BY DEF Fail, StepSlot, RunPc, CatchPc
  <1>3. Moves(w)
    BY <1>1, <1>2, SlotMoves
  <1>4. record' \in [Task -> TaskRecord \cup {NoRecord}]
    BY <1>1 DEF Fail, TypeOK, Returns, Throws, UpdateRecord, TaskRecord, SlotState
  <1>5. faults' \in 0..MaxFaults
    BY PipelineAssumption DEF Fail, TypeOK, Returns, Throws
  <1> QED BY <1>3, <1>4, <1>5

\* What Ack, Nack and Refuse do to the queue.
SettledAs(t, w, j) ==
  /\ holder[t] = w
  /\ holder' = [holder EXCEPT ![t] = NoSlot]
  /\ job' = [job EXCEPT ![t] = j]
  /\ j.state \in {"active", "delayed", "completed", "failed"}
  /\ j.state \in {"active", "delayed"} => j.attempts < Attempts

Releases(w) == slot' = [slot EXCEPT ![w] = IdleSlot] /\ \A t \in Task : holder'[t] # w

LEMMA SettleJobEffect ==
  ASSUME TypeInv, NEW w \in Slot, slot[w].pc # "idle",
         NEW j \in Job, SettleJob(w, j),
         j.state \in {"delayed", "completed", "failed"},
         j.state = "delayed" => j.attempts < Attempts
  PROVE  /\ \E t \in Task, k \in Job : SettledAs(t, w, k)
         /\ \A t \in Task : holder'[t] # w
  <1>1. slot[w].task \in Task /\ SettledAs(slot[w].task, w, j)
    <2>1. holder[slot[w].task] = w /\ slot[w].task \in Task
      <3>1. holder[slot[w].task] = w
        BY DEF SettleJob
      <3>2. slot[w].pc # "idle"
        OBVIOUS
      <3> QED BY <3>1, <3>2 DEF TypeInv, SlotInv
    <2> QED BY <2>1 DEF SettleJob, SettledAs
  <1>2. \A t \in Task : holder'[t] # w
    BY <1>1, PipelineAssumption DEF SettledAs, TypeInv, TypeOK, SlotInv
  <1> QED BY <1>1, <1>2

LEMMA MoveToFailedEffect ==
  ASSUME TypeInv, NEW w \in Slot, NEW pc \in {"nack", "refuse"},
         NEW state \in {"delayed", "failed"}, MoveToFailed(w, pc, state),
         state = "delayed" => Retried(job[slot[w].task])
  PROVE  /\ Releases(w)
         /\ UNCHANGED queueVars \/ \E t \in Task, j \in Job : SettledAs(t, w, j)
         /\ faults' \in 0..MaxFaults
  <1> DEFINE t == slot[w].task
             j == [job[t] EXCEPT !.attempts = job[t].attempts + 1, !.state = state]
  <1>1. t \in Task /\ job[t] \in Job /\ slot[w].pc # "idle"
    BY DEF MoveToFailed, TypeInv, TypeOK, SlotInv
  <1>2. faults' \in 0..MaxFaults
    BY PipelineAssumption DEF MoveToFailed, Returns, Throws, TypeInv, TypeOK
  <1>3. slot' = [slot EXCEPT ![w] = IdleSlot]
    BY DEF MoveToFailed
  <1>4. CASE SettleJob(w, j)
    <2>1. job[t].attempts < Attempts /\ job[t].attempts \in Nat
      BY <1>1, <1>4 DEF SettleJob, TypeInv, JobInv, SlotInv, Job
    <2>2. job[t].attempts + 1 \in 0..Attempts
      BY <2>1, PipelineAssumption
    <2>3. j \in Job /\ j.state = state /\ j.attempts = job[t].attempts + 1
      BY <1>1, <2>2 DEF Job
    <2>4. state = "delayed" => j.attempts < Attempts
      BY <2>3 DEF Retried
    <2> HIDE DEF j
    <2>5. /\ \E u \in Task, k \in Job : SettledAs(u, w, k)
          /\ \A u \in Task : holder'[u] # w
      BY <1>1, <1>4, <2>3, <2>4, SettleJobEffect
    <2> QED BY <1>2, <1>3, <2>5 DEF Releases
  <1>5. CASE NoLock(w) /\ UNCHANGED queueVars
    <2>1. \A u \in Task : holder'[u] # w
      BY <1>5 DEF NoLock, queueVars, TypeInv, SlotInv
    <2> QED BY <1>2, <1>3, <1>5, <2>1 DEF Releases
  <1>6. CASE Abandon(w) /\ holder[t] = w
    <2>1. SettledAs(t, w, job[t])
      BY <1>1, <1>6 DEF Abandon, SettledAs, TypeInv, TypeOK, SlotInv, JobInv, Job
    <2>2. \A u \in Task : holder'[u] # w
      BY <2>1, PipelineAssumption DEF SettledAs, TypeInv, TypeOK, SlotInv
    <2> QED BY <1>1, <1>2, <1>3, <2>1, <2>2 DEF Releases
  <1>7. CASE Abandon(w) /\ holder[t] # w
    <2>1. UNCHANGED queueVars /\ NoLock(w)
      BY <1>7 DEF Abandon, NoLock, queueVars
    <2> QED BY <1>5, <2>1
  <1> QED BY <1>4, <1>5, <1>6, <1>7 DEF MoveToFailed, Returns, Throws

LEMMA SettleEffect ==
  ASSUME TypeInv, NEW w \in Slot, Ack(w) \/ Nack(w) \/ Refuse(w)
  PROVE  /\ Moves(w) \/ Releases(w)
         /\ UNCHANGED queueVars \/ \E t \in Task, j \in Job : SettledAs(t, w, j)
         /\ faults' \in 0..MaxFaults
  <1> DEFINE t == slot[w].task
  <1>1. CASE Ack(w)
    <2>1. /\ t \in Task /\ job[t] \in Job /\ slot \in [Slot -> SlotState]
          /\ slot[w].pc # "idle"
      BY <1>1 DEF Ack, TypeInv, TypeOK, SlotInv
    <2>2. faults' \in 0..MaxFaults
      BY <1>1, PipelineAssumption DEF Ack, Returns, Throws, TypeInv, TypeOK
    <2> DEFINE j == [job[t] EXCEPT !.state = "completed"]
    <2>3. j \in Job /\ j.state = "completed"
      BY <2>1 DEF Job
    <2>4. StepSlot(w, "nack") => Moves(w)
      BY <1>1, <2>1 DEF Ack, StepSlot, Moves, SlotState, CatchPc
    <2>5. CASE SettleJob(w, j)
      <3> HIDE DEF j
      <3>1. /\ \E u \in Task, k \in Job : SettledAs(u, w, k)
            /\ \A u \in Task : holder'[u] # w
        BY <2>1, <2>3, <2>5, SettleJobEffect
      <3>2. StepSlot(w, "nack") \/ slot' = [slot EXCEPT ![w] = IdleSlot]
        BY <1>1 DEF Ack
      <3> QED BY <2>2, <2>4, <3>1, <3>2 DEF Releases
    <2>6. CASE UNCHANGED queueVars /\ StepSlot(w, "nack")
      BY <2>2, <2>4, <2>6
    <2> QED BY <1>1, <2>5, <2>6 DEF Ack, Returns, Throws
  <1>2. CASE Nack(w)
    BY <1>2, MoveToFailedEffect DEF Nack
  <1>3. CASE Refuse(w)
    BY <1>3, MoveToFailedEffect DEF Refuse
  <1> QED BY <1>1, <1>2, <1>3

LEMMA MovesTypeInv ==
  ASSUME TypeInv, NEW w \in Slot, Moves(w), UNCHANGED <<objects, slotFrame>>,
         record' \in [Task -> TaskRecord \cup {NoRecord}],
         results' \in [Task -> SUBSET Tables],
         cutShort' \subseteq Task, faults' \in 0..MaxFaults
  PROVE  TypeInv'
  <1> USE DEF slotFrame, queueVars, eraseVars
  <1>1. TypeOK'
    BY DEF TypeInv, TypeOK, Moves
  <1>2. JobInv'
    BY DEF TypeInv, JobInv
  <1>3. SlotInv'
    BY DEF TypeInv, SlotInv, Moves
  <1>4. DeletionInv'
    BY DEF TypeInv, DeletionInv
  <1> QED BY <1>1, <1>2, <1>3, <1>4 DEF TypeInv

\* The disjuncts of Process, with the facts each of them is used with.
LEMMA ProcessCases ==
  ASSUME NEW w \in Slot, Process(w)
  PROVE  \/ Advance(w, "parse", "scan") \/ Advance(w, "scan", "risks")
         \/ \E pc, next \in RunPc, table \in Tables : Publish(w, pc, table, next)
         \/ Complete(w)
         \/ \E pc, next \in CatchPc, table \in Tables : Withdraw(w, pc, table, next)
         \/ Fail(w)
         \/ Ack(w) \/ Nack(w) \/ Refuse(w)
  BY DEF Process, RunPc, CatchPc, Tables

LEMMA ProcessTypeInv ==
  ASSUME TypeInv, NEW w \in Slot, Process(w)
  PROVE  TypeInv'
  <1>1. slot[w].pc # "idle"
    BY DEF Process, Advance, Publish, Complete, Ack, Withdraw, Fail, Nack,
       Refuse, MoveToFailed
  <1>2. TypeOK /\ slot[w].task \in Task
    BY <1>1 DEF TypeInv, SlotInv
  <1>3. results \in [Task -> SUBSET Tables]
        /\ record \in [Task -> TaskRecord \cup {NoRecord}]
    BY <1>2 DEF TypeOK
  <1>4. CASE Advance(w, "parse", "scan") \/ Advance(w, "scan", "risks")
    <2>1. PICK stage \in {"parse", "scan"}, next \in {"scan", "risks"} :
            Advance(w, stage, next)
      BY <1>4
    <2>2. UNCHANGED <<objects, results, slotFrame>> /\ cutShort' \subseteq Task
      BY <1>2, <2>1 DEF Advance, TypeOK
    <2> QED BY <1>2, <1>3, <2>1, <2>2, AdvanceEffect, MovesTypeInv
  <1>5. CASE \E pc, next \in RunPc, table \in Tables : Publish(w, pc, table, next)
    <2>1. PICK pc, next \in RunPc, table \in Tables : Publish(w, pc, table, next)
      BY <1>5
    <2>2. UNCHANGED <<objects, record, slotFrame>> /\ cutShort' \subseteq Task
      BY <1>2, <2>1 DEF Publish, TypeOK
    <2> QED BY <1>2, <1>3, <2>1, <2>2, PublishEffect, MovesTypeInv
  <1>6. CASE Complete(w)
    <2>1. UNCHANGED <<objects, results, slotFrame>> /\ cutShort' \subseteq Task
      BY <1>2, <1>6 DEF Complete, TypeOK
    <2> QED BY <1>2, <1>3, <1>6, <2>1, CompleteEffect, MovesTypeInv
  <1>7. CASE \E pc, next \in CatchPc, table \in Tables : Withdraw(w, pc, table, next)
    <2>1. PICK pc, next \in CatchPc, table \in Tables : Withdraw(w, pc, table, next)
      BY <1>7
    <2>2. UNCHANGED <<objects, record, slotFrame>> /\ cutShort' \subseteq Task
      BY <1>2, <2>1 DEF Withdraw, CutShort, TypeOK
    <2> QED BY <1>2, <1>3, <2>1, <2>2, WithdrawEffect, MovesTypeInv
  <1>8. CASE Fail(w)
    <2>1. UNCHANGED <<objects, results, slotFrame>> /\ cutShort' \subseteq Task
      BY <1>2, <1>8 DEF Fail, CutShort, TypeOK
    <2> QED BY <1>2, <1>3, <1>8, <2>1, FailEffect, MovesTypeInv
  <1>9. CASE Ack(w) \/ Nack(w) \/ Refuse(w)
    <2>1. UNCHANGED settleFrame
      BY <1>9 DEF Ack, Nack, Refuse, MoveToFailed
    <2>2. Moves(w) \/ Releases(w)
      BY <1>9, SettleEffect
    <2>3. faults' \in 0..MaxFaults
      BY <1>9, SettleEffect
    <2>4. slot' \in [Slot -> SlotState]
      BY <1>2, <2>2 DEF Moves, Releases, TypeOK, SlotState, IdleSlot
    <2>5. UNCHANGED queueVars \/ \E t \in Task, j \in Job : SettledAs(t, w, j)
      BY <1>9, SettleEffect
    <2>6. /\ job' \in [Task -> Job] /\ holder' \in [Task -> Slot \cup {NoSlot}]
          /\ JobInv'
      BY <1>2, <2>1, <2>5
      DEF TypeInv, TypeOK, JobInv, SlotInv, SettledAs, queueVars, settleFrame
    <2>7. \A t \in Task, v \in Slot :
            holder'[t] = v => holder[t] = v /\ job'[t] = job[t]
      BY <1>2, <2>5, PipelineAssumption DEF TypeOK, SettledAs, queueVars
    <2>8. \A v \in Slot \ {w} : slot'[v] = slot[v]
      BY <1>2, <2>2 DEF Moves, Releases, TypeOK
    <2>9. SlotInv'
      BY <1>2, <2>2, <2>7, <2>8 DEF TypeInv, TypeOK, SlotInv, Moves, Releases, IdleSlot
    <2> QED
      BY <1>2, <2>1, <2>3, <2>4, <2>6, <2>9
      DEF TypeInv, TypeOK, DeletionInv, settleFrame, dataVars, eraseVars
  <1> QED
    BY <1>4, <1>5, <1>6, <1>7, <1>8, <1>9, ProcessCases

\* The moves of a run of deleteTaskData.
LEMMA DeletionSteps ==
  ASSUME deletion \in [Eraser -> Deletion], DeletionInv, NEW d \in Eraser,
         \/ deletion[d].pc # "idle" /\ deletion[d].task \in Task
            /\ \E pc \in {"record", "commit"} :
                 deletion' = [deletion EXCEPT ![d].pc = pc]
         \/ \E verdict \in {"ok", "failed", "crashed"} : Answer(d, verdict)
  PROVE  deletion' \in [Eraser -> Deletion] /\ DeletionInv'
  <1>1. CASE deletion[d].task \in Task
             /\ \E pc \in {"record", "commit"} :
                  deletion' = [deletion EXCEPT ![d].pc = pc]
    BY <1>1 DEF Deletion, DeletionInv
  <1>2. CASE \E verdict \in {"ok", "failed", "crashed"} : Answer(d, verdict)
    BY <1>2 DEF Deletion, DeletionInv, Answer, IdleDeletion
  <1> QED BY <1>1, <1>2

LEMMA EraseTypeInv ==
  ASSUME TypeInv,
         \/ \E t \in Task : Expire(t) \/ CleanupNext(t)
         \/ CleanupList
         \/ \E d \in Request, t \in Task : DeleteStart(d, t)
         \/ \E d \in Eraser : EraseStep(d) \/ DeleteCrash(d)
  PROVE  TypeInv'
  <1> USE PipelineAssumption
      DEF TypeInv, TypeOK, JobInv, SlotInv, DeletionInv, Deletion, Eraser,
          IdleDeletion, NoRecord, Returns, Throws, Answer, eraseFrame,
          dataVars, queueVars, slotVars, eraseVars, faultVars
  <1>1. ASSUME NEW t \in Task, Expire(t) PROVE TypeInv'
    BY <1>1 DEF Expire
  <1>2. ASSUME NEW t \in Task, CleanupNext(t) PROVE TypeInv'
    BY <1>2 DEF CleanupNext
  <1>3. CASE CleanupList
    BY <1>3 DEF CleanupList, Listed
  <1>4. ASSUME NEW d \in Request, NEW t \in Task, DeleteStart(d, t)
        PROVE  TypeInv'
    BY <1>4 DEF DeleteStart
  <1>5. ASSUME NEW d \in Eraser, DeleteObject(d) PROVE TypeInv'
    BY <1>5 DEF DeleteObject, DropObject
  <1>6. ASSUME NEW d \in Eraser, DeleteLookup(d) PROVE TypeInv'
    <2>1. deletion' \in [Eraser -> Deletion] /\ DeletionInv'
      <3>1. deletion' = [deletion EXCEPT ![d].pc = "commit"] \/ Answer(d, "failed")
        BY <1>6 DEF DeleteLookup
      <3> QED BY <1>6, <3>1, DeletionSteps DEF DeleteLookup
    <2>2. faults' \in 0..MaxFaults
      BY <1>6 DEF DeleteLookup
    <2> QED BY <1>6, <2>1, <2>2 DEF DeleteLookup
  <1>7. ASSUME NEW d \in Eraser, DeleteCommit(d) PROVE TypeInv'
    <2>1. deletion' \in [Eraser -> Deletion] /\ DeletionInv'
      <3>1. Answer(d, "ok") \/ Answer(d, "failed")
        BY <1>7 DEF DeleteCommit
      <3> QED BY <3>1, DeletionSteps
    <2>2. /\ record' \in [Task -> TaskRecord \cup {NoRecord}]
          /\ results' \in [Task -> SUBSET Tables]
          /\ forgotten' \subseteq Task /\ confirmed' \subseteq Task
      <3>1. deletion[d].task \in Task
        BY <1>7 DEF DeleteCommit
      <3>2. EraseRow(deletion[d].task) \/ UNCHANGED <<record, results, forgotten>>
        BY <1>7 DEF DeleteCommit
      <3>3. confirmed' \subseteq Task
        BY <1>7, <3>1 DEF DeleteCommit
      <3>4. record' \in [Task -> TaskRecord \cup {NoRecord}]
        BY <3>1, <3>2 DEF EraseRow
      <3>5. results' \in [Task -> SUBSET Tables]
        BY <3>1, <3>2 DEF EraseRow
      <3>6. forgotten' \subseteq Task
        BY <3>1, <3>2 DEF EraseRow
      <3> QED BY <3>3, <3>4, <3>5, <3>6
    <2>3. faults' \in 0..MaxFaults
      BY <1>7 DEF DeleteCommit
    <2> QED BY <1>7, <2>1, <2>2, <2>3 DEF DeleteCommit
  <1>8. ASSUME NEW d \in Eraser, DeleteCrash(d) PROVE TypeInv'
    BY <1>8 DEF DeleteCrash
  <1> QED
    BY <1>1, <1>2, <1>3, <1>4, <1>5, <1>6, <1>7, <1>8 DEF EraseStep

LEMMA NextTypeInv == TypeInv /\ [Next]_vars => TypeInv'
  <1> SUFFICES ASSUME TypeInv, [Next]_vars PROVE TypeInv'
    OBVIOUS
  <1>1. CASE UNCHANGED vars
    BY <1>1 DEF vars, TypeInv, TypeOK, JobInv, SlotInv, DeletionInv, dataVars,
       queueVars, slotVars, eraseVars, faultVars
  <1>2. CASE \E t \in Task : UploadStep(t) \/ UploadCrash(t)
    BY <1>2, UploadTypeInv
  <1>3. CASE \E t \in Task : Promote(t) \/ Stall(t)
    BY <1>3, RedeliveryTypeInv
  <1>4. CASE \E w \in Slot : Process(w)
    BY <1>4, ProcessTypeInv
  <1>5. CASE \E w \in Slot : LoseLock(w) \/ SlotCrash(w)
    <2>1. PICK w \in Slot : LoseLock(w) \/ SlotCrash(w)
      BY <1>5
    <2>2. slot[w].task \in Task
      BY <2>1 DEF TypeInv, SlotInv, LoseLock, SlotCrash
    <2> QED BY <2>1, <2>2, QueueTypeInv
  <1>6. CASE \E w \in Slot, t \in Task : Deliver(w, t)
    BY <1>6, QueueTypeInv
  <1>7. CASE \/ \E t \in Task : Expire(t) \/ CleanupNext(t)
             \/ CleanupList
             \/ \E d \in Request, t \in Task : DeleteStart(d, t)
             \/ \E d \in Eraser : EraseStep(d) \/ DeleteCrash(d)
    BY <1>7, EraseTypeInv
  <1> QED
    BY <1>1, <1>2, <1>3, <1>4, <1>5, <1>6, <1>7 DEF Next

\* The variables keep their types: in particular no job is attempted more
\* often than getTaskJobOptions allows nor redelivered more often than BullMQ
\* allows, whatever faults, crashes and lost locks occur.
THEOREM TypeCorrect == Spec => []TypeOK
  <1>1. TypeInv => TypeOK
    BY DEF TypeInv
  <1> QED
    BY InitTypeInv, NextTypeInv, <1>1, PTL DEF Spec

-----------------------------------------------------------------------------
(* Erasure and custody *)

Settled(t) == upload[t] \in {"accepted", "rejected", "crashed"}

Erasing(t) ==
  \E d \in Eraser :
    deletion[d].pc \in {"object", "record", "commit"} /\ deletion[d].task = t

\* Why nothing comes back.  Only an upload handler creates an object or a
\* row, and each creates its own; an eraser only takes up a task whose upload
\* handler is done; it deletes the row only after the object; and every other
\* writer needs the row.
UploadCustody ==
  \A t \in Task :
    /\ upload[t] = "idle"   => t \notin objects /\ ~Exists(t)
    /\ upload[t] = "create" => t \in objects /\ ~Exists(t)

EraserCustody ==
  /\ \A t \in Task :
       t \in expired \cup todo \/ Erasing(t)
         => Settled(t) /\ (Exists(t) \/ t \in forgotten)
  /\ \A d \in Eraser :
       deletion[d].pc \in {"record", "commit"} => deletion[d].task \notin objects

ForgottenCustody ==
  /\ confirmed \subseteq forgotten
  /\ \A t \in forgotten : Settled(t) /\ Erased(t)

ResultsCustody == \A t \in Task : results[t] # {} => Exists(t)

CustodyInv ==
  /\ TypeInv
  /\ UploadCustody
  /\ EraserCustody
  /\ ForgottenCustody
  /\ ResultsCustody

(* What each group of actions does to the data. *)

\* A worker creates no row and no object, and touches the results of one
\* task, adding to them only if the task has a row.
WorkerEffect ==
  /\ UNCHANGED <<upload, objects, eraseVars, expired>>
  /\ \A t \in Task : Exists(t)' <=> Exists(t)
  /\ \E t \in Task :
       /\ \A u \in Task \ {t} : results'[u] = results[u]
       /\ Exists(t) \/ results'[t] \subseteq results[t]

LEMMA UpdateKeepsRows ==
  ASSUME TypeOK, NEW t \in Task, NEW status \in {"queued", "processing", "failed", "completed"},
         NEW stage, NEW failure,
         UpdateRecord(t, status, stage, failure) \/ UNCHANGED record
  PROVE  \A u \in Task : Exists(u)' <=> Exists(u)
  BY DEF TypeOK, UpdateRecord, Exists, NoRecord

LEMMA ProcessEffect ==
  ASSUME TypeInv, NEW w \in Slot, Process(w)
  PROVE  WorkerEffect
  <1> DEFINE t == slot[w].task
  <1>1. t \in Task /\ TypeOK
    BY DEF TypeInv, SlotInv, Process, Advance, Publish, Complete, Ack,
       Withdraw, Fail, Nack, Refuse, MoveToFailed
  <1>2. UNCHANGED <<upload, objects, eraseVars, expired>>
    BY DEF Process, Advance, Publish, Complete, Ack, Withdraw, Fail, Nack,
       Refuse, MoveToFailed, slotFrame, settleFrame, dataVars
  <1>3. ASSUME NEW pc, NEW table \in Tables, NEW next, Publish(w, pc, table, next)
        PROVE  WorkerEffect
    <2>1. UNCHANGED record
      BY <1>3 DEF Publish
    <2>2. UNCHANGED results \/ (Exists(t) /\ InsertRows(t, table))
      BY <1>3 DEF Publish, Returns, Throws
    <2>3. /\ \A u \in Task \ {t} : results'[u] = results[u]
          /\ Exists(t) \/ results'[t] \subseteq results[t]
      BY <1>1, <2>2 DEF InsertRows, TypeOK
    <2> QED BY <1>1, <1>2, <2>1, <2>3 DEF WorkerEffect, Exists
  <1>4. ASSUME NEW pc, NEW table \in Tables, NEW next, Withdraw(w, pc, table, next)
        PROVE  WorkerEffect
    <2>1. UNCHANGED record
      BY <1>4 DEF Withdraw
    <2>2. UNCHANGED results \/ DeleteRows(t, table)
      BY <1>4 DEF Withdraw, Returns, Throws
    <2>3. /\ \A u \in Task \ {t} : results'[u] = results[u]
          /\ results'[t] \subseteq results[t]
      BY <1>1, <2>2 DEF DeleteRows, TypeOK
    <2> QED BY <1>1, <1>2, <2>1, <2>3 DEF WorkerEffect, Exists
  <1>5. CASE \/ Advance(w, "parse", "scan") \/ Advance(w, "scan", "risks")
             \/ Complete(w) \/ Fail(w)
    <2>1. UNCHANGED results
      BY <1>5 DEF Advance, Complete, Fail
    <2>2. PICK status, stage, failure :
            /\ status \in {"processing", "completed", "failed"}
            /\ UpdateRecord(t, status, stage, failure) \/ UNCHANGED record
      BY <1>5 DEF Advance, Complete, Fail, Returns, Throws
    <2>3. \A u \in Task : Exists(u)' <=> Exists(u)
      BY <1>1, <2>2, UpdateKeepsRows
    <2> QED BY <1>1, <1>2, <2>1, <2>3 DEF WorkerEffect
  <1>6. CASE Ack(w) \/ Nack(w) \/ Refuse(w)
    <2>1. UNCHANGED <<record, results>>
      BY <1>6 DEF Ack, Nack, Refuse, MoveToFailed, settleFrame, dataVars
    <2> QED BY <1>1, <1>2, <2>1 DEF WorkerEffect, Exists
  <1> QED
    BY <1>3, <1>4, <1>5, <1>6 DEF Process, Tables

LEMMA WorkerCustody ==
  ASSUME CustodyInv, TypeInv', WorkerEffect
  PROVE  CustodyInv'
  <1> USE DEF WorkerEffect, eraseVars, CustodyInv
  <1>1. UploadCustody'
    BY DEF UploadCustody
  <1>2. EraserCustody'
    BY DEF EraserCustody, Settled, Erasing
  <1>3. ResultsCustody'
    <2>1. PICK t \in Task : /\ \A u \in Task \ {t} : results'[u] = results[u]
                            /\ Exists(t) \/ results'[t] \subseteq results[t]
      OBVIOUS
    <2> QED BY <2>1 DEF ResultsCustody
  <1>4. ForgottenCustody'
    <2>1. ASSUME NEW t \in forgotten PROVE Erased(t)'
      <3>1. t \in Task /\ Erased(t)
        BY DEF ForgottenCustody, TypeInv, TypeOK
      <3> QED BY <1>3, <3>1 DEF Erased, ResultsCustody
    <2> QED BY <2>1 DEF ForgottenCustody, Settled
  <1> QED BY <1>1, <1>2, <1>3, <1>4

LEMMA QueueCustody ==
  ASSUME CustodyInv, TypeInv',
         UNCHANGED <<upload, dataVars, eraseVars, expired>>
  PROVE  CustodyInv'
  BY DEF CustodyInv, UploadCustody, EraserCustody, ForgottenCustody,
     ResultsCustody, Settled, Erasing, Erased, Exists, dataVars, eraseVars

\* An upload handler works on its own task, which no eraser has taken up.
UploadEffect(t) ==
  /\ UNCHANGED <<results, eraseVars, expired>>
  /\ ~Settled(t)
  /\ \A u \in Task \ {t} : /\ upload'[u] = upload[u]
                           /\ Exists(u)' <=> Exists(u)
                           /\ u \in objects' <=> u \in objects
  /\ Exists(t) => Exists(t)'
  /\ upload'[t] # "idle"
  /\ upload'[t] = "create" => t \in objects' /\ ~Exists(t)'

LEMMA UploadHasEffect ==
  ASSUME CustodyInv, NEW t \in Task, UploadStep(t) \/ UploadCrash(t)
  PROVE  UploadEffect(t)
  <1> USE DEF UploadEffect, Settled, StepUpload, Returns, Throws, Exists
  <1> TypeOK /\ UploadCustody
    BY DEF CustodyInv, TypeInv
  <1> USE DEF TypeOK
  <1>1. CASE UploadStore(t)
    BY <1>1 DEF UploadStore, PutObject, UploadCustody
  <1>2. CASE UploadCreate(t)
    BY <1>2 DEF UploadCreate, InsertRecord, QueuedRecord, NoRecord
  <1>3. CASE UploadUndo(t)
    BY <1>3 DEF UploadUndo, DropObject
  <1>4. CASE UploadEnqueue(t)
    BY <1>4 DEF UploadEnqueue, dataVars
  <1>5. CASE UploadMarkFailed(t)
    BY <1>5 DEF UploadMarkFailed, UpdateRecord, NoRecord
  <1>6. CASE UploadCrash(t)
    BY <1>6 DEF UploadCrash, dataVars, InFlight
  <1> QED
    BY <1>1, <1>2, <1>3, <1>4, <1>5, <1>6 DEF UploadStep

LEMMA UploadKeepsCustody ==
  ASSUME CustodyInv, TypeInv', NEW t \in Task, UploadEffect(t)
  PROVE  CustodyInv'
  <1> USE DEF UploadEffect, eraseVars, CustodyInv
  <1>1. UploadCustody'
    BY DEF UploadCustody
  <1>2. t \notin expired \cup todo /\ ~Erasing(t) /\ t \notin forgotten
    BY DEF EraserCustody, ForgottenCustody
  <1>3. \A u \in Task \ {t} : Settled(u)' <=> Settled(u)
    BY DEF Settled
  <1>4. EraserCustody'
    <2>1. ASSUME NEW u \in Task, (u \in expired \cup todo \/ Erasing(u))'
          PROVE  (Settled(u) /\ (Exists(u) \/ u \in forgotten))'
      <3>1. u \in expired \cup todo \/ Erasing(u)
        BY <2>1 DEF Erasing
      <3> QED BY <1>2, <1>3, <3>1 DEF EraserCustody
    <2>2. ASSUME NEW d \in Eraser, deletion'[d].pc \in {"record", "commit"}
          PROVE  deletion'[d].task \notin objects'
      <3>1. Erasing(deletion[d].task) /\ deletion[d].task \in Task
        BY <2>2 DEF Erasing, TypeInv, DeletionInv
      <3> QED BY <1>2, <2>2, <3>1 DEF EraserCustody
    <2> QED BY <2>1, <2>2 DEF EraserCustody
  <1>5. ResultsCustody'
    BY DEF ResultsCustody
  <1>6. ForgottenCustody'
    BY <1>2, <1>3 DEF ForgottenCustody, Erased, TypeInv, TypeOK
  <1> QED BY <1>1, <1>4, <1>5, <1>6

\* An eraser takes up a task that is done uploading, removes objects, and
\* erases a task only after its object is gone.
TakesUp(t) ==
  /\ UNCHANGED <<upload, dataVars, confirmed, forgotten>>
  /\ Settled(t) /\ (Exists(t) \/ t \in forgotten)
  /\ \A u \in Task : (u \in expired \cup todo \/ Erasing(u))'
                       => u \in expired \cup todo \/ Erasing(u) \/ u = t
  /\ \A d \in Eraser : deletion'[d].pc \in {"record", "commit"}
                         => deletion'[d] = deletion[d]

Drops(t) ==
  /\ UNCHANGED <<upload, record, results, expired, confirmed, forgotten>>
  /\ objects' = objects \/ DropObject(t)
  /\ \A u \in Task : (u \in expired \cup todo \/ Erasing(u))'
                       => u \in expired \cup todo \/ Erasing(u)
  /\ \A d \in Eraser : deletion'[d].pc \in {"record", "commit"}
       => \/ deletion'[d].task = t /\ DropObject(t)
          \/ /\ deletion[d].pc \in {"record", "commit"}
             /\ deletion'[d].task = deletion[d].task

Erases(t) ==
  /\ UNCHANGED <<upload, objects, expired>>
  /\ t \notin objects /\ Settled(t) /\ (Exists(t) \/ t \in forgotten)
  /\ EraseRow(t)
  /\ confirmed' \subseteq confirmed \cup {t}
  /\ \A u \in Task : (u \in expired \cup todo \/ Erasing(u))'
                       => u \in expired \cup todo \/ Erasing(u)
  /\ \A d \in Eraser : deletion'[d].pc \in {"record", "commit"}
                         => deletion'[d] = deletion[d]

LEMMA TakesUpCustody ==
  ASSUME CustodyInv, TypeInv', NEW t \in Task, TakesUp(t)
  PROVE  CustodyInv'
  <1> USE DEF TakesUp, CustodyInv, dataVars
  <1>1. UploadCustody'
    BY DEF UploadCustody, Exists
  <1>2. EraserCustody'
    <2>1. ASSUME NEW u \in Task, (u \in expired \cup todo \/ Erasing(u))'
          PROVE  (Settled(u) /\ (Exists(u) \/ u \in forgotten))'
      BY <2>1 DEF EraserCustody, Settled, Exists
    <2>2. ASSUME NEW d \in Eraser, deletion'[d].pc \in {"record", "commit"}
          PROVE  deletion'[d].task \notin objects'
      BY <2>2 DEF EraserCustody
    <2> QED BY <2>1, <2>2 DEF EraserCustody
  <1>3. ResultsCustody'
    BY DEF ResultsCustody, Exists
  <1>4. ForgottenCustody'
    BY DEF ForgottenCustody, Settled, Erased, Exists
  <1> QED BY <1>1, <1>2, <1>3, <1>4

LEMMA DropsCustody ==
  ASSUME CustodyInv, TypeInv', NEW t \in Task, Drops(t),
         upload[t] # "create"
  PROVE  CustodyInv'
  <1> USE DEF Drops, CustodyInv, DropObject
  <1>1. UploadCustody'
    BY DEF UploadCustody, Exists
  <1>2. EraserCustody'
    <2>1. ASSUME NEW u \in Task, (u \in expired \cup todo \/ Erasing(u))'
          PROVE  (Settled(u) /\ (Exists(u) \/ u \in forgotten))'
      BY <2>1 DEF EraserCustody, Settled, Exists
    <2>2. ASSUME NEW d \in Eraser, deletion'[d].pc \in {"record", "commit"}
          PROVE  deletion'[d].task \notin objects'
      BY <2>2 DEF EraserCustody
    <2> QED BY <2>1, <2>2 DEF EraserCustody
  <1>3. ResultsCustody'
    BY DEF ResultsCustody, Exists
  <1>4. ForgottenCustody'
    BY DEF ForgottenCustody, Settled, Erased, Exists
  <1> QED BY <1>1, <1>2, <1>3, <1>4

LEMMA ErasesCustody ==
  ASSUME CustodyInv, TypeInv', NEW t \in Task, Erases(t)
  PROVE  CustodyInv'
  <1> USE DEF Erases, CustodyInv, EraseRow
  <1>1. /\ ~Exists(t)' /\ results'[t] = {}
        /\ \A u \in Task \ {t} : /\ Exists(u)' <=> Exists(u)
                                 /\ results'[u] = results[u]
    BY DEF TypeInv, TypeOK, Exists
  <1>2. UploadCustody'
    BY <1>1 DEF UploadCustody, Settled
  <1>3. EraserCustody'
    <2>1. ASSUME NEW u \in Task, (u \in expired \cup todo \/ Erasing(u))'
          PROVE  (Settled(u) /\ (Exists(u) \/ u \in forgotten))'
      BY <1>1, <2>1 DEF EraserCustody, Settled
    <2>2. ASSUME NEW d \in Eraser, deletion'[d].pc \in {"record", "commit"}
          PROVE  deletion'[d].task \notin objects'
      BY <2>2 DEF EraserCustody
    <2> QED BY <2>1, <2>2 DEF EraserCustody
  <1>4. ResultsCustody'
    BY <1>1 DEF ResultsCustody
  <1>5. ForgottenCustody'
    <2>1. ASSUME NEW u \in forgotten' PROVE (Settled(u) /\ Erased(u))'
      <3>1. CASE u = t
        BY <1>1, <3>1 DEF Settled, Erased
      <3>2. CASE u # t
        <4>1. u \in forgotten /\ u \in Task
          BY <3>2 DEF TypeInv, TypeOK
        <4> QED BY <1>1, <3>2, <4>1 DEF ForgottenCustody, Settled, Erased
      <3> QED BY <3>1, <3>2
    <2> QED BY <2>1 DEF ForgottenCustody
  <1> QED BY <1>2, <1>3, <1>4, <1>5

\* After its answer a run of deleteTaskData no longer erases.
LEMMA Answered ==
  ASSUME TypeOK, NEW d \in Eraser, NEW verdict \in {"ok", "failed", "crashed"},
         Answer(d, verdict)
  PROVE  \A e \in Eraser :
           deletion'[e].pc \in {"object", "record", "commit"}
             => deletion'[e] = deletion[e]
  BY DEF TypeOK, Deletion, Answer, IdleDeletion

LEMMA EraserHasEffect ==
  ASSUME CustodyInv,
         \/ \E t \in Task : Expire(t) \/ CleanupNext(t)
         \/ CleanupList
         \/ \E d \in Request, t \in Task : DeleteStart(d, t)
         \/ \E d \in Eraser : EraseStep(d) \/ DeleteCrash(d)
  PROVE  \E t \in Task : \/ TakesUp(t)
                         \/ Drops(t) /\ upload[t] # "create"
                         \/ Erases(t)
  <1>1. TypeOK /\ DeletionInv /\ EraserCustody /\ UploadCustody
    BY DEF CustodyInv, TypeInv
  <1>2. ASSUME NEW t \in Task, Expire(t) PROVE TakesUp(t)
    <2>1. Settled(t)
      BY <1>1, <1>2 DEF Expire, InFlight, Settled, UploadCustody, TypeOK, UploadState
    <2> QED
      BY <1>2, <2>1 DEF Expire, TakesUp, Erasing, eraseVars, dataVars
  <1>3. ASSUME NEW t \in Task, CleanupNext(t) PROVE TakesUp(t)
    <2>1. Settled(t) /\ (Exists(t) \/ t \in forgotten)
      BY <1>1, <1>3 DEF CleanupNext, EraserCustody
    <2> QED
      BY <1>1, <1>3, <2>1 DEF CleanupNext, TakesUp, Erasing, TypeOK
  <1>4. CASE CleanupList
    <2>1. PICK t \in Listed : t \in Task /\ Settled(t) /\ Exists(t)
      BY <1>1, <1>4 DEF CleanupList, Listed, EraserCustody, TypeOK
    <2>2. TakesUp(t)
      BY <1>4, <2>1 DEF CleanupList, Listed, TakesUp, Erasing
    <2> QED BY <2>1, <2>2
  <1>5. ASSUME NEW d \in Request, NEW t \in Task, DeleteStart(d, t)
        PROVE  TakesUp(t)
    <2>1. d \in Eraser /\ deletion' = [deletion EXCEPT ![d] = [pc |-> "object", task |-> t]]
      BY <1>5 DEF DeleteStart, Eraser
    <2> QED
      BY <1>1, <1>5, <2>1 DEF DeleteStart, TakesUp, Erasing, Settled, TypeOK
  <1>6. ASSUME NEW d \in Eraser, EraseStep(d) \/ DeleteCrash(d)
        PROVE  \E t \in Task : (Drops(t) /\ upload[t] # "create") \/ Erases(t)
    <2> DEFINE t == deletion[d].task
    <2>1. /\ t \in Task /\ Settled(t) /\ upload[t] # "create"
          /\ Exists(t) \/ t \in forgotten
      BY <1>1, <1>6 DEF DeletionInv, EraserCustody, Erasing, Settled, EraseStep,
         DeleteObject, DeleteLookup, DeleteCommit, DeleteCrash
    <2> DEFINE Stops == \A e \in Eraser :
                 deletion'[e].pc \in {"object", "record", "commit"}
                   => deletion'[e] = deletion[e]
    <2>2. CASE DeleteObject(d)
      <3>1. UNCHANGED <<upload, record, results, todo, expired, confirmed, forgotten>>
        BY <2>2 DEF DeleteObject, eraseFrame
      <3>2. CASE DropObject(t) /\ deletion' = [deletion EXCEPT ![d].pc = "record"]
        BY <1>1, <3>1, <3>2, <2>2, <2>1 DEF TypeOK, Deletion, Drops, Erasing, DeleteObject
      <3>3. CASE (DropObject(t) \/ UNCHANGED objects) /\ Answer(d, "failed")
        <4>1. Stops
          BY <1>1, <3>3, Answered
        <4> QED BY <3>1, <3>3, <4>1, <2>1 DEF Drops, Erasing
      <3> QED BY <2>2, <3>2, <3>3 DEF DeleteObject, Returns, Throws
    <2>3. CASE DeleteLookup(d)
      <3>1. UNCHANGED <<upload, dataVars, todo, expired, confirmed, forgotten>>
        BY <2>3 DEF DeleteLookup, eraseFrame
      <3>2. CASE deletion' = [deletion EXCEPT ![d].pc = "commit"]
        BY <1>1, <3>1, <3>2, <2>3, <2>1
        DEF TypeOK, Deletion, Drops, Erasing, DeleteLookup, dataVars
      <3>3. CASE Answer(d, "failed")
        <4>1. Stops
          BY <1>1, <3>3, Answered
        <4> QED BY <3>1, <4>1, <2>1 DEF Drops, Erasing, dataVars
      <3> QED BY <2>3, <3>2, <3>3 DEF DeleteLookup
    <2>4. CASE DeleteCommit(d)
      <3>1. UNCHANGED <<upload, objects, todo, expired>>
        BY <2>4 DEF DeleteCommit, eraseFrame
      <3>2. Stops
        BY <1>1, <2>4, Answered DEF DeleteCommit
      <3>3. CASE EraseRow(t) /\ confirmed' \subseteq confirmed \cup {t}
        <4>1. t \notin objects
          BY <1>1, <2>4 DEF EraserCustody, DeleteCommit
        <4> QED BY <3>1, <3>2, <3>3, <4>1, <2>1 DEF Erases, Erasing
      <3>4. CASE UNCHANGED <<record, results, forgotten, confirmed>>
        BY <3>1, <3>2, <3>4, <2>1 DEF Drops, Erasing
      <3> QED BY <2>4, <3>3, <3>4 DEF DeleteCommit, Returns, Throws
    <2>5. CASE DeleteCrash(d)
      <3>1. UNCHANGED <<upload, dataVars, expired, confirmed, forgotten>>
            /\ todo' \subseteq todo
        BY <2>5 DEF DeleteCrash
      <3>2. Stops
        BY <1>1, <2>5, Answered DEF DeleteCrash
      <3> QED BY <3>1, <3>2, <2>1 DEF Drops, Erasing, dataVars
    <2> QED BY <1>6, <2>2, <2>3, <2>4, <2>5 DEF EraseStep
  <1> QED BY <1>2, <1>3, <1>4, <1>5, <1>6

\* The steps of the pipeline, by what they do to the data.
LEMMA StepEffects ==
  ASSUME CustodyInv, [Next]_vars
  PROVE  \/ UNCHANGED <<upload, dataVars, eraseVars, expired>>
         \/ WorkerEffect
         \/ \E t \in Task : UploadStep(t) \/ UploadCrash(t)
         \/ \E t \in Task : \/ TakesUp(t)
                            \/ Drops(t) /\ upload[t] # "create"
                            \/ Erases(t)
  <1>1. CASE UNCHANGED vars
    BY <1>1 DEF vars
  <1>2. CASE \/ \E t \in Task : Promote(t) \/ Stall(t)
             \/ \E w \in Slot : LoseLock(w) \/ SlotCrash(w)
             \/ \E w \in Slot, t \in Task : Deliver(w, t)
    BY <1>2 DEF Promote, Stall, LoseLock, SlotCrash, Deliver
  <1>3. CASE \E w \in Slot : Process(w)
    BY <1>3, ProcessEffect DEF CustodyInv
  <1>4. CASE \/ \E t \in Task : Expire(t) \/ CleanupNext(t)
             \/ CleanupList
             \/ \E d \in Request, t \in Task : DeleteStart(d, t)
             \/ \E d \in Eraser : EraseStep(d) \/ DeleteCrash(d)
    BY <1>4, EraserHasEffect
  <1> QED BY <1>1, <1>2, <1>3, <1>4 DEF Next

LEMMA InitCustody == Init => CustodyInv
  <1> SUFFICES ASSUME Init PROVE CustodyInv
    OBVIOUS
  <1>1. TypeInv
    BY InitTypeInv
  <1>2. UploadCustody /\ EraserCustody /\ ForgottenCustody /\ ResultsCustody
    BY DEF Init, UploadCustody, EraserCustody, ForgottenCustody, ResultsCustody,
       Exists, Erasing, IdleDeletion
  <1> QED BY <1>1, <1>2 DEF CustodyInv

LEMMA NextCustody == CustodyInv /\ [Next]_vars => CustodyInv'
  <1> SUFFICES ASSUME CustodyInv, [Next]_vars PROVE CustodyInv'
    OBVIOUS
  <1>1. TypeInv'
    BY NextTypeInv DEF CustodyInv
  <1>2. CASE \E t \in Task : UploadStep(t) \/ UploadCrash(t)
    BY <1>1, <1>2, UploadHasEffect, UploadKeepsCustody
  <1> QED
    BY <1>1, <1>2, StepEffects, QueueCustody, WorkerCustody, TakesUpCustody,
       DropsCustody, ErasesCustody

LEMMA CustodyInvariant == Spec => []CustodyInv
  BY InitCustody, NextCustody, PTL DEF Spec

\* Whatever a worker still running on a task, a retried or redelivered job,
\* a concurrent deletion, the retention cleanup, lost replies, crashes and
\* lost locks do: once a task's row is gone, or its deletion is reported,
\* nothing of the task is left and nothing comes back.
THEOREM ErasureFinal == Spec => []ErasureIsFinal
  <1>1. CustodyInv => ErasureIsFinal
    BY DEF CustodyInv, ForgottenCustody, ErasureIsFinal
  <1> QED BY CustodyInvariant, <1>1, PTL

-----------------------------------------------------------------------------
(* The refinement. *)

LEMMA LifeValues ==
  ASSUME NEW t \in Task
  PROVE  /\ t \in forgotten => LifeOf(t) = "erased"
         /\ t \notin forgotten /\ Exists(t) /\ t \in objects
              => LifeOf(t) = "registered"
         /\ t \notin forgotten /\ Exists(t) /\ t \notin objects
              => LifeOf(t) = "stripped"
         /\ t \notin forgotten /\ ~Exists(t) /\ t \in objects
              => LifeOf(t) = "stored"
         /\ t \notin forgotten /\ ~Exists(t) /\ t \notin objects
              => LifeOf(t) = IF upload[t] = "idle" THEN "new" ELSE "discarded"
  BY DEF LifeOf

\* The same on the primed state.
LEMMA LifeValuesNext ==
  ASSUME NEW t \in Task
  PROVE  /\ t \in forgotten' => LifeOf(t)' = "erased"
         /\ t \notin forgotten' /\ Exists(t)' /\ t \in objects'
              => LifeOf(t)' = "registered"
         /\ t \notin forgotten' /\ Exists(t)' /\ t \notin objects'
              => LifeOf(t)' = "stripped"
         /\ t \notin forgotten' /\ ~Exists(t)' /\ t \in objects'
              => LifeOf(t)' = "stored"
         /\ t \notin forgotten' /\ ~Exists(t)' /\ t \notin objects'
              => LifeOf(t)' = IF upload'[t] = "idle" THEN "new" ELSE "discarded"
  BY DEF LifeOf

LEMMA LifeStays ==
  ASSUME NEW t \in Task,
         t \in forgotten' <=> t \in forgotten,
         Exists(t)' <=> Exists(t),
         t \in objects' <=> t \in objects,
         upload'[t] = "idle" <=> upload[t] = "idle"
  PROVE  LifeOf(t)' = LifeOf(t)
  BY LifeValues, LifeValuesNext

LEMMA LifePasses ==
  ASSUME NEW t \in Task, NEW from, NEW to,
         LifeOf(t) = from, LifeOf(t)' = to,
         \A u \in Task \ {t} : LifeOf(u)' = LifeOf(u)
  PROVE  Custody!Pass(t, from, to)
  BY DEF Custody!Pass

LEMMA LifeUnchanged ==
  ASSUME \A t \in Task : LifeOf(t)' = LifeOf(t)
  PROVE  UNCHANGED [t \in Task |-> LifeOf(t)]
  OBVIOUS

\* A step of the pipeline stutters in DocumentCustody or is one of its steps.
CustodyStep == Custody!Next \/ UNCHANGED Custody!custodyVars

LEMMA NothingChanges ==
  ASSUME \A t \in Task : LifeOf(t)' = LifeOf(t), UNCHANGED results
  PROVE  CustodyStep
  <1>1. UNCHANGED [t \in Task |-> LifeOf(t)]
    BY LifeUnchanged
  <1> QED BY <1>1 DEF CustodyStep, Custody!custodyVars

LEMMA InitRefines == Init => Custody!Init
  <1> SUFFICES ASSUME Init PROVE Custody!Init
    OBVIOUS
  <1>1. \A t \in Task : LifeOf(t) = "new"
    BY LifeValues DEF Init, Exists
  <1> QED BY <1>1 DEF Init, Custody!Init

LEMMA WorkerRefines ==
  ASSUME CustodyInv, CustodyInv', WorkerEffect
  PROVE  CustodyStep
  <1>1. \A t \in Task : LifeOf(t)' = LifeOf(t)
    BY LifeStays DEF WorkerEffect, eraseVars
  <1>2. PICK t \in Task : /\ \A u \in Task \ {t} : results'[u] = results[u]
                          /\ Exists(t) \/ results'[t] \subseteq results[t]
    BY DEF WorkerEffect
  <1>3. CASE results'[t] = {} <=> results[t] = {}
    <2>1. UNCHANGED {u \in Task : results[u] # {}}
      BY <1>2, <1>3
    <2>2. UNCHANGED [u \in Task |-> LifeOf(u)]
      BY <1>1, LifeUnchanged
    <2> QED BY <2>1, <2>2 DEF CustodyStep, Custody!custodyVars
  <1>4. CASE ~(results'[t] = {} <=> results[t] = {})
    <2>1. Exists(t) /\ t \notin forgotten
      BY <1>2, <1>4 DEF CustodyInv, ResultsCustody, ForgottenCustody, Erased
    <2>2. LifeOf(t) \in {"registered", "stripped"}
      BY <2>1, LifeValues
    <2>3. UNCHANGED [u \in Task |-> LifeOf(u)]
      BY <1>1, LifeUnchanged
    <2>4. {u \in Task : results[u] # {}}'
            \in {{u \in Task : results[u] # {}} \cup {t},
                 {u \in Task : results[u] # {}} \ {t}}
      BY <1>2
    <2>5. Custody!Derive(t)
      BY <2>2, <2>3, <2>4 DEF Custody!Derive
    <2> QED BY <2>5 DEF CustodyStep, Custody!Next
  <1> QED BY <1>3, <1>4

\* Losing its object strips a registered task and discards another one.
LEMMA DropRefines ==
  ASSUME NEW t \in Task, UNCHANGED objects \/ DropObject(t),
         UNCHANGED <<record, results, forgotten>>,
         UNCHANGED {u \in Task : results[u] # {}},
         \A u \in Task \ {t} : LifeOf(u)' = LifeOf(u),
         upload[t] # "idle", upload'[t] # "idle"
  PROVE  CustodyStep
  <1>1. Exists(t)' <=> Exists(t)
    BY DEF Exists
  <1>2. CASE t \in objects' <=> t \in objects
    <2>1. LifeOf(t)' = LifeOf(t)
      BY <1>1, <1>2, LifeStays
    <2> QED BY <2>1, NothingChanges
  <1>3. CASE t \in forgotten
    <2>1. LifeOf(t)' = LifeOf(t)
      BY <1>3, LifeValues, LifeValuesNext
    <2> QED BY <2>1, NothingChanges
  <1>4. CASE t \notin forgotten /\ t \in objects /\ t \notin objects'
    <2>1. CASE Exists(t)
      <3>1. LifeOf(t) = "registered" /\ LifeOf(t)' = "stripped"
        BY <1>1, <1>4, <2>1, LifeValues, LifeValuesNext
      <3>2. Custody!Strip(t)
        BY <3>1, LifePasses DEF Custody!Strip
      <3> QED BY <3>2 DEF CustodyStep, Custody!Next
    <2>2. CASE ~Exists(t)
      <3>1. LifeOf(t) = "stored" /\ LifeOf(t)' = "discarded"
        BY <1>1, <1>4, <2>2, LifeValues, LifeValuesNext
      <3>2. Custody!Discard(t)
        BY <3>1, LifePasses DEF Custody!Discard
      <3> QED BY <3>2 DEF CustodyStep, Custody!Next
    <2> QED BY <2>1, <2>2
  <1> QED BY <1>2, <1>3, <1>4 DEF DropObject

LEMMA UploadRefines ==
  ASSUME CustodyInv, CustodyInv', NEW t \in Task, UploadStep(t) \/ UploadCrash(t)
  PROVE  CustodyStep
  <1>1. UploadEffect(t)
    BY UploadHasEffect
  <1>2. /\ UNCHANGED <<results, forgotten>>
        /\ t \notin forgotten
        /\ \A u \in Task \ {t} : LifeOf(u)' = LifeOf(u)
    <2>1. \A u \in Task \ {t} : LifeOf(u)' = LifeOf(u)
      BY <1>1, LifeStays DEF UploadEffect, eraseVars
    <2> QED
      BY <1>1, <2>1 DEF UploadEffect, eraseVars, CustodyInv, ForgottenCustody
  <1>3. UNCHANGED {u \in Task : results[u] # {}}
    BY <1>2
  <1>4. upload'[t] # "idle"
    BY <1>1 DEF UploadEffect
  <1>5. TypeOK /\ UploadCustody
    BY DEF CustodyInv, TypeInv
  <1>6. CASE UploadStore(t)
    <2>1. upload[t] = "idle" /\ t \notin objects /\ ~Exists(t)
      BY <1>5, <1>6 DEF UploadStore, UploadCustody
    <2>2. ~Exists(t)'
      BY <1>6, <2>1 DEF UploadStore, Exists
    <2>3. LifeOf(t) = "new" /\ LifeOf(t)' \in {"stored", "discarded"}
      BY <1>2, <1>4, <2>1, <2>2, LifeValues, LifeValuesNext
    <2>4. Custody!Store(t) \/ Custody!Refuse(t)
      BY <1>2, <1>3, <2>3, LifePasses DEF Custody!Store, Custody!Refuse
    <2> QED BY <2>4 DEF CustodyStep, Custody!Next
  <1>7. CASE UploadCreate(t)
    <2>1. /\ upload[t] = "create" /\ t \in objects /\ ~Exists(t)
          /\ t \in objects'
      BY <1>5, <1>7 DEF UploadCreate, UploadCustody
    <2>2. LifeOf(t) = "stored" /\ LifeOf(t)' \in {"stored", "registered"}
      BY <1>2, <2>1, LifeValues, LifeValuesNext
    <2>3. CASE LifeOf(t)' = "registered"
      <3>1. Custody!Register(t)
        BY <1>2, <1>3, <2>2, <2>3, LifePasses DEF Custody!Register
      <3> QED BY <3>1 DEF CustodyStep, Custody!Next
    <2>4. CASE LifeOf(t)' = "stored"
      BY <1>2, <2>2, <2>4, NothingChanges
    <2> QED BY <2>2, <2>3, <2>4
  <1>8. CASE UploadUndo(t)
    <2>1. /\ upload[t] # "idle" /\ UNCHANGED record
          /\ UNCHANGED objects \/ DropObject(t)
      BY <1>8 DEF UploadUndo, Returns, Throws
    <2> QED BY <1>2, <1>3, <1>4, <2>1, DropRefines
  <1>9. CASE UploadEnqueue(t) \/ UploadMarkFailed(t) \/ UploadCrash(t)
    <2>1. UNCHANGED objects /\ upload[t] # "idle"
      BY <1>9 DEF UploadEnqueue, UploadMarkFailed, UploadCrash, InFlight, dataVars
    <2>2. Exists(t)' <=> Exists(t)
      BY <1>5, <1>9, UpdateKeepsRows DEF UploadEnqueue, UploadMarkFailed,
         UploadCrash, Returns, Throws, Exists, dataVars
    <2>3. LifeOf(t)' = LifeOf(t)
      BY <1>2, <1>4, <2>1, <2>2, LifeStays
    <2> QED BY <1>2, <2>3, NothingChanges
  <1> QED BY <1>6, <1>7, <1>8, <1>9 DEF UploadStep

LEMMA TakesUpRefines ==
  ASSUME NEW t \in Task, TakesUp(t)
  PROVE  CustodyStep
  <1>1. \A u \in Task : LifeOf(u)' = LifeOf(u)
    BY LifeStays DEF TakesUp, dataVars, Exists
  <1> QED BY <1>1, NothingChanges DEF TakesUp, dataVars

LEMMA ErasesRefines ==
  ASSUME CustodyInv, CustodyInv', NEW t \in Task, Erases(t)
  PROVE  CustodyStep
  <1>1. /\ ~Exists(t)' /\ results'[t] = {}
        /\ \A u \in Task \ {t} : /\ Exists(u)' <=> Exists(u)
                                 /\ results'[u] = results[u]
    BY DEF CustodyInv, TypeInv, TypeOK, Exists, Erases, EraseRow
  <1>2. \A u \in Task \ {t} : LifeOf(u)' = LifeOf(u)
    BY <1>1, LifeStays DEF Erases, EraseRow
  <1>3. LifeOf(t)' = "erased"
    BY LifeValuesNext DEF Erases, EraseRow
  <1>4. CASE t \in forgotten
    <2>1. LifeOf(t) = "erased"
      BY <1>4, LifeValues
    <2>2. results[t] = {}
      BY <1>4 DEF CustodyInv, ForgottenCustody, Erased
    <2>3. UNCHANGED {u \in Task : results[u] # {}}
      BY <1>1, <2>2
    <2>4. UNCHANGED [u \in Task |-> LifeOf(u)]
      BY <1>2, <1>3, <2>1, LifeUnchanged
    <2> QED BY <2>3, <2>4 DEF CustodyStep, Custody!custodyVars
  <1>5. CASE t \notin forgotten
    <2>1. LifeOf(t) = "stripped"
      BY <1>5, LifeValues DEF Erases
    <2>2. {u \in Task : results[u] # {}}' = {u \in Task : results[u] # {}} \ {t}
      BY <1>1
    <2>3. Custody!Erase(t)
      BY <1>2, <1>3, <2>1, <2>2, LifePasses DEF Custody!Erase
    <2> QED BY <2>3 DEF CustodyStep, Custody!Next
  <1> QED BY <1>4, <1>5

\* The pipeline keeps the promise of DocumentCustody: every step stores,
\* refuses, discards, registers, strips, erases or derives, in that order of
\* a task's life, or leaves what the promise is about as it is.
THEOREM PipelineKeepsCustody == Spec => KeepsCustody
  <1>1. ASSUME CustodyInv, CustodyInv', [Next]_vars PROVE CustodyStep
    <2>1. CASE UNCHANGED <<upload, dataVars, eraseVars, expired>>
      <3>1. \A u \in Task : LifeOf(u)' = LifeOf(u)
        BY <2>1, LifeStays DEF dataVars, eraseVars, Exists
      <3> QED BY <2>1, <3>1, NothingChanges DEF dataVars
    <2>2. CASE \E t \in Task : Drops(t) /\ upload[t] # "create"
      <3>1. PICK t \in Task : Drops(t)
        BY <2>2
      <3>2. \A u \in Task \ {t} : LifeOf(u)' = LifeOf(u)
        BY <3>1, LifeStays DEF Drops, DropObject, Exists
      <3>3. UNCHANGED {u \in Task : results[u] # {}}
        BY <3>1 DEF Drops
      <3>4. CASE upload[t] = "idle"
        <4>1. t \notin objects
          BY <1>1, <3>4 DEF CustodyInv, UploadCustody
        <4>2. LifeOf(t)' = LifeOf(t)
          BY <3>1, <4>1, LifeStays DEF Drops, DropObject, Exists
        <4> QED BY <3>1, <3>2, <4>2, NothingChanges DEF Drops
      <3>5. CASE upload[t] # "idle"
        BY <3>1, <3>2, <3>3, <3>5, DropRefines DEF Drops
      <3> QED BY <3>4, <3>5
    <2> QED
      BY <1>1, <2>1, <2>2, StepEffects, WorkerRefines, UploadRefines,
         TakesUpRefines, ErasesRefines
  <1>2. CustodyInv /\ CustodyInv' /\ [Next]_vars
          => [Custody!Next]_(Custody!custodyVars)
    BY <1>1 DEF CustodyStep
  <1> QED
    BY InitRefines, CustodyInvariant, <1>2, PTL DEF Spec, KeepsCustody, Custody!Spec

=============================================================================
