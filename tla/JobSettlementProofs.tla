------------------------- MODULE JobSettlementProofs -------------------------
(***************************************************************************)
(* How a job is settled, in every interleaving of its coroutines and       *)
(* across every crash: a failed job was refunded, and a completed job was  *)
(* paid for, unless it is a voice clone; one job per key.  Where results   *)
(* come by one way alone, one product and one final status per job.        *)
(*                                                                         *)
(* The invariant adds what the handlers rely on without looking: who works *)
(* on a job works on one that exists, the caller that has not inserted the *)
(* job is alone with it, and a coroutine past a release or a capture is    *)
(* past it in the ledger.                                                  *)
(***************************************************************************)
EXTENDS GenerationProofs

RowsKnown ==
  \A j \in Job : /\ HasStage(row[j])
                 /\ exists(j) => row[j].kind \in Kinds
                 /\ ~ exists(j) => row[j].request = NoRequest

WorkersKnown ==
  \A t \in Task :
    /\ task[t].pc \in WorkLabel => jobOf(t) \in Job /\ exists(jobOf(t))
    /\ task[t].pc \in StageLabel => task[t].stage # NoStage

CallersKnown ==
  \A j \in Job :
    /\ task[Api(j)].pc \in {"idle", "reserve", "insert"} => ~ exists(j)
    /\ task[Api(j)].pc \in WorkLabel \cup {"reserve", "insert"} => jobOf(Api(j)) = j

HooksKnown == \A r \in Request : at(Hook(r), "find") => r \in DOMAIN fal

BatchEntry(b) ==
  /\ b \in [job : Job, stage : Stage \cup {NoStage}, request : Request \cup {NoRequest}]
  /\ exists(b.job) /\ HasStage(b)
BatchKnown == \A b \in batch : BatchEntry(b)

(* A coroutine past the release, or past the capture, and the rows.         *)
Settling ==
  \A t \in Task :
    /\ at(t, "mark_failed") => Released(hold, keys, jobOf(t))
    /\ task[t].pc \in {"look", "commit"} =>
         Captured(hold, keys, jobOf(t)) \/ kindOf(t) = "voice_clone"
Settled ==
  \A j \in Job :
    /\ row[j].status = "failed" => Released(hold, keys, j)
    /\ row[j].status = "completed" =>
         Captured(hold, keys, j) \/ row[j].kind = "voice_clone"

JobInv ==
  /\ TableTypeOK /\ PipelineTypeOK
  /\ RowsKnown /\ WorkersKnown /\ CallersKnown /\ HooksKnown /\ BatchKnown
  /\ Settling /\ Settled

-----------------------------------------------------------------------------
(* The coroutines are different.                                            *)
LEMMA TasksApart ==
  /\ \A j \in Job : Api(j) \in Task /\ Api(j) # Poller /\ Api(j) # Recovery
  /\ \A r \in Request : Hook(r) \in Task /\ Hook(r) # Poller /\ Hook(r) # Recovery
  /\ \A i, j \in Job : Api(i) = Api(j) => i = j
  /\ \A q, r \in Request : Hook(q) = Hook(r) => q = r
  /\ \A j \in Job, r \in Request : Api(j) # Hook(r)
  /\ Poller \in Task /\ Recovery \in Task /\ Poller # Recovery
BY DEF Task, Api, Hook, Poller, Recovery

(* What a record a coroutine moves to must satisfy.                         *)
GoodRecord(s, q) ==
  /\ q \in TaskRecord
  /\ q.pc \in WorkLabel => q.job \in Job /\ exists(q.job)
  /\ q.pc \in StageLabel => q.stage # NoStage
  /\ q.pc \notin {"mark_failed", "look", "commit"}
  /\ \A j \in Job : s = Api(j) =>
       /\ q.pc \in {"idle", "reserve", "insert"} => ~ exists(j)
       /\ q.pc \in WorkLabel \cup {"reserve", "insert"} => q.job = j
  /\ \A r \in Request : s = Hook(r) /\ q.pc = "find" => r \in DOMAIN fal

(* What a step that changes no row leaves as it was.                        *)
RowsKept ==
  /\ row' = row /\ hold' = hold /\ keys \subseteq keys'
  /\ made' = made /\ fal' \in Seq(FalRecord)
  /\ Len(fal) <= Len(fal') /\ Len(fal') <= MaxRequests
  /\ event' \in [Request -> {"none", "received", "applied"}]

(* While rows and holds stay, what the rows say of the ledger stays true.   *)
LEMMA RowsKeptFacts ==
  ASSUME JobInv, RowsKept
  PROVE  /\ TableTypeOK' /\ RowsKnown' /\ Settled'
         /\ DOMAIN fal \subseteq DOMAIN fal'
<1>1. TableTypeOK'
  BY DEF JobInv, TableTypeOK, RowsKept
<1>2. RowsKnown'
  BY DEF JobInv, RowsKnown, RowsKept, exists
<1>3. Settled'
  BY DEF JobInv, Settled, RowsKept, Released, Captured
<1>4. DOMAIN fal \subseteq DOMAIN fal'
  BY DEF JobInv, TableTypeOK, RowsKept
<1> QED
  BY <1>1, <1>2, <1>3, <1>4

(* One coroutine moves and no row changes.                                  *)
LEMMA Relocate ==
  ASSUME JobInv, RowsKept, BatchKnown',
         NEW s \in Task, NEW q, GoodRecord(s, q), task' = [task EXCEPT ![s] = q]
  PROVE  JobInv'
<1>0. /\ task \in [Task -> TaskRecord] /\ row' = row /\ hold' = hold /\ keys \subseteq keys'
      /\ task'[s] = q /\ \A t \in Task : t # s => task'[t] = task[t]
      /\ DOMAIN fal \subseteq DOMAIN fal'
  BY RowsKeptFacts DEF JobInv, PipelineTypeOK, RowsKept
<1>1. PipelineTypeOK'
  BY <1>0 DEF PipelineTypeOK, GoodRecord
<1>2. WorkersKnown'
  BY <1>0 DEF JobInv, WorkersKnown, GoodRecord, exists, jobOf
<1>3. CallersKnown'
  <2> SUFFICES ASSUME NEW j \in Job
               PROVE  /\ task'[Api(j)].pc \in {"idle", "reserve", "insert"} => ~ exists(j)'
                      /\ task'[Api(j)].pc \in WorkLabel \cup {"reserve", "insert"}
                           => task'[Api(j)].job = j
    BY DEF CallersKnown, jobOf
  <2>1. Api(j) \in Task
    BY TasksApart
  <2>2. CASE Api(j) = s
    BY <1>0, <2>2 DEF GoodRecord, exists
  <2>3. CASE Api(j) # s
    BY <1>0, <2>1, <2>3 DEF JobInv, CallersKnown, exists, jobOf
  <2> QED
    BY <2>2, <2>3
<1>4. HooksKnown'
  <2> SUFFICES ASSUME NEW r \in Request, task'[Hook(r)].pc = "find"
               PROVE  r \in DOMAIN fal'
    BY DEF HooksKnown, at
  <2>1. Hook(r) \in Task
    BY TasksApart
  <2> QED
    BY <1>0, <2>1 DEF JobInv, HooksKnown, GoodRecord, at
<1>5. Settling'
  BY <1>0 DEF JobInv, Settling, GoodRecord, at, jobOf, kindOf, Released, Captured
<1> QED
  BY <1>1, <1>2, <1>3, <1>4, <1>5, RowsKeptFacts DEF JobInv

(* No coroutine moves and no row changes.                                   *)
LEMMA Elsewhere ==
  ASSUME JobInv, RowsKept, BatchKnown', task' = task
  PROVE  JobInv'
<1>1. DOMAIN fal \subseteq DOMAIN fal'
  BY RowsKeptFacts
<1>2. PipelineTypeOK' /\ WorkersKnown' /\ CallersKnown' /\ HooksKnown' /\ Settling'
  BY <1>1 DEF JobInv, PipelineTypeOK, WorkersKnown, CallersKnown, HooksKnown, Settling,
              RowsKept, exists, at, jobOf, kindOf, Released, Captured
<1> QED
  BY <1>2, RowsKeptFacts DEF JobInv

(* The batch, when the step leaves it and no row goes away.                 *)
LEMMA BatchStays ==
  ASSUME JobInv, batch' \subseteq batch, \A j \in Job : exists(j) => row'[j].status # "absent"
  PROVE  BatchKnown'
BY DEF JobInv, BatchKnown, BatchEntry, exists, HasStage

-----------------------------------------------------------------------------
(* A coroutine that works on a job.                                         *)
LEMMA WorkerWorks ==
  ASSUME JobInv, NEW t \in Task, jobOf(t) \in Job
  PROVE  Working(t)
BY DEF JobInv, Working, WorkersKnown, RowsKnown

(* A pipeline step keeps the invariant: it is the only one that moves.      *)
LEMMA WorkKeepsJobInv ==
  ASSUME JobInv, NEW t \in Task, jobOf(t) \in Job, PipelineEffect(t), batch' = batch
  PROVE  JobInv'
<1> DEFINE j == jobOf(t)
<1>1. /\ task[t].pc \in WorkLabel /\ j \in Job /\ exists(j)
      /\ row \in [Job -> RowRecord] /\ task \in [Task -> TaskRecord]
  BY DEF PipelineEffect, JobInv, WorkersKnown, TableTypeOK, PipelineTypeOK
<1>2. PICK w \in RowRecord :
        /\ row' = [row EXCEPT ![j] = w]
        /\ w.status # "absent" /\ w.kind = kindOf(t) /\ HasStage(w)
        /\ w.status = "failed" => row[j].status = "failed" \/ at(t, "mark_failed")
        /\ w.status = "completed" => row[j].status = "completed" \/ at(t, "commit")
  BY DEF PipelineEffect, RowEffect
<1>3. PICK q \in TaskRecord :
        /\ task' = [task EXCEPT ![t] = q]
        /\ q.pc \in WorkLabel \cup {"done", "apply", "next"}
        /\ q.pc \in WorkLabel => q.job = j
        /\ q.pc \in StageLabel => q.stage # NoStage
        /\ q.pc = "mark_failed" => Released(hold', keys', j)
        /\ q.pc \in {"look", "commit"} =>
             Captured(hold', keys', j) \/ at(t, "look") \/ kindOf(t) = "voice_clone"
  BY DEF PipelineEffect, TaskEffect
<1>4. /\ made' \in [Job -> Nat]
      /\ fal' \in Seq(FalRecord) /\ Len(fal) <= Len(fal') /\ Len(fal') <= MaxRequests
      /\ event' = event /\ hold' = hold /\ keys \subseteq keys'
  BY DEF PipelineEffect, RestEffect
<1>5. /\ row'[j] = w /\ \A i \in Job : i # j => row'[i] = row[i]
      /\ task'[t] = q /\ \A s \in Task : s # t => task'[s] = task[s]
  BY <1>1, <1>2, <1>3
<1> HIDE DEF j
<1>6. /\ \A i \in Job : row'[i].kind = row[i].kind
      /\ \A i \in Job : exists(i) => row'[i].status # "absent"
      /\ \A i \in Job : row'[i].status = "absent" => row'[i] = row[i] /\ i # j
  BY <1>1, <1>2, <1>5 DEF kindOf, exists, j
<1>7. TableTypeOK' /\ PipelineTypeOK'
  BY <1>1, <1>2, <1>3, <1>4 DEF JobInv, TableTypeOK, PipelineTypeOK
<1>8. RowsKnown'
  <2> SUFFICES ASSUME NEW i \in Job
               PROVE  /\ HasStage(row'[i])
                      /\ row'[i].status # "absent" => row'[i].kind \in Kinds
                      /\ row'[i].status = "absent" => row'[i].request = NoRequest
    BY DEF RowsKnown, exists, HasStage
  <2>1. CASE i = j
    BY <1>1, <1>2, <1>5, <1>6, <2>1 DEF JobInv, RowsKnown, exists
  <2>2. CASE i # j
    BY <1>5, <2>2 DEF JobInv, RowsKnown, exists
  <2> QED
    BY <2>1, <2>2
<1>9. WorkersKnown'
  <2> SUFFICES ASSUME NEW s \in Task
               PROVE  /\ task'[s].pc \in WorkLabel =>
                           task'[s].job \in Job /\ row'[task'[s].job].status # "absent"
                      /\ task'[s].pc \in StageLabel => task'[s].stage # NoStage
    BY DEF WorkersKnown, jobOf, exists
  <2>1. CASE s = t
    BY <1>1, <1>2, <1>3, <1>5, <2>1
  <2>2. CASE s # t
    BY <1>5, <1>6, <2>2 DEF JobInv, WorkersKnown, jobOf
  <2> QED
    BY <2>1, <2>2
<1>10. CallersKnown'
  <2> SUFFICES ASSUME NEW i \in Job
               PROVE  /\ task'[Api(i)].pc \in {"idle", "reserve", "insert"}
                           => row'[i].status = "absent"
                      /\ task'[Api(i)].pc \in WorkLabel \cup {"reserve", "insert"}
                           => task'[Api(i)].job = i
    BY DEF CallersKnown, jobOf, exists
  <2>0. Api(i) \in Task
    BY TasksApart
  <2>1. CASE Api(i) = t
    <3>1. j = i
      BY <1>1, <2>1 DEF JobInv, CallersKnown, j
    <3> QED
      BY <1>3, <1>5, <2>1, <3>1 DEF WorkLabel
  <2>2. CASE Api(i) # t
    <3>1. i = j => task[Api(i)].pc \notin {"idle", "reserve", "insert"}
      BY <1>1 DEF JobInv, CallersKnown
    <3> QED
      BY <1>5, <2>0, <2>2, <3>1 DEF JobInv, CallersKnown, exists, jobOf
  <2> QED
    BY <2>1, <2>2
<1>11. HooksKnown'
  <2> SUFFICES ASSUME NEW r \in Request, task'[Hook(r)].pc = "find"
               PROVE  r \in DOMAIN fal'
    BY DEF HooksKnown, at
  <2>1. Hook(r) \in Task /\ DOMAIN fal \subseteq DOMAIN fal'
    BY <1>4, TasksApart DEF JobInv, TableTypeOK
  <2>2. "find" \notin WorkLabel \cup {"done", "apply", "next"}
    BY DEF WorkLabel
  <2> QED
    BY <1>3, <1>5, <2>1, <2>2 DEF JobInv, HooksKnown, at
<1>12. BatchKnown'
  BY <1>6, BatchStays
<1>13. Settling'
  <2> SUFFICES ASSUME NEW s \in Task
               PROVE  /\ task'[s].pc = "mark_failed" => Released(hold', keys', task'[s].job)
                      /\ task'[s].pc \in {"look", "commit"} =>
                           \/ Captured(hold', keys', task'[s].job)
                           \/ row'[task'[s].job].kind = "voice_clone"
    BY DEF Settling, at, jobOf, kindOf, Released, Captured
  <2>1. CASE s = t
    <3>1. {"mark_failed", "look", "commit"} \subseteq WorkLabel
      BY DEF WorkLabel
    <3>2. at(t, "look") =>
            Captured(hold', keys', j) \/ kindOf(t) = "voice_clone"
      BY <1>4 DEF JobInv, Settling, at, Captured, j
    <3>3. kindOf(t) = "voice_clone" => row'[j].kind = "voice_clone"
      BY <1>2, <1>5
    <3> QED
      BY <1>3, <1>5, <2>1, <3>1, <3>2, <3>3
  <2>2. CASE s # t
    <3>1. {"mark_failed", "look", "commit"} \subseteq WorkLabel
      BY DEF WorkLabel
    <3>2. task[s].pc \in WorkLabel => task[s].job \in Job
      BY DEF JobInv, WorkersKnown, jobOf
    <3> QED
      BY <1>4, <1>5, <1>6, <2>2, <3>1, <3>2
         DEF JobInv, Settling, at, jobOf, kindOf, Released, Captured
  <2> QED
    BY <2>1, <2>2
<1>14. Settled'
  <2> SUFFICES ASSUME NEW i \in Job
               PROVE  /\ row'[i].status = "failed" => Released(hold', keys', i)
                      /\ row'[i].status = "completed" =>
                           Captured(hold', keys', i) \/ row'[i].kind = "voice_clone"
    BY DEF Settled, Released, Captured
  <2>1. CASE i = j
    <3>1. row'[i].status = "failed" => Released(hold, keys, i)
      BY <1>2, <1>5, <2>1 DEF JobInv, Settled, Settling, j
    <3>2. row'[i].status = "completed" =>
            Captured(hold, keys, i) \/ row'[i].kind = "voice_clone"
      BY <1>2, <1>5, <1>6, <2>1 DEF JobInv, Settled, Settling, j, at, kindOf
    <3> QED
      BY <1>4, <3>1, <3>2 DEF Released, Captured
  <2>2. CASE i # j
    BY <1>4, <1>5, <2>2 DEF JobInv, Settled, Released, Captured
  <2> QED
    BY <2>1, <2>2
<1> QED
  BY <1>7, <1>8, <1>9, <1>10, <1>11, <1>12, <1>13, <1>14 DEF JobInv

-----------------------------------------------------------------------------
(* create_job.                                                              *)
LEMMA LookupKeepsJobInv ==
  ASSUME JobInv, NEW j \in Job, lookupKey(j), batch' = batch
  PROVE  JobInv'
<1> DEFINE pc == IF sameKey(j) = {} THEN "reserve" ELSE "done"
<1> DEFINE q == [task[Api(j)] EXCEPT !.pc = pc, !.job = j]
<1>1. /\ task[Api(j)] \in TaskRecord /\ Api(j) \in Task /\ ~ exists(j)
  BY TasksApart DEF JobInv, PipelineTypeOK, CallersKnown, lookupKey, at
<1>2. pc \in Label /\ pc \notin WorkLabel /\ pc \in {"reserve", "done"}
  BY DEF Label, WorkLabel
<1> HIDE DEF pc
<1>3. q \in TaskRecord /\ q.pc = pc /\ q.job = j
  BY <1>1, <1>2 DEF TaskRecord
<1>4. GoodRecord(Api(j), q)
  BY <1>1, <1>2, <1>3, TasksApart DEF GoodRecord, WorkLabel, StageLabel
<1>5. task' = [task EXCEPT ![Api(j)] = q]
  BY DEF lookupKey, pc
<1>6. RowsKept
  BY DEF lookupKey, RowsKept, walletVars, tableVars, JobInv, TableTypeOK
<1>7. BatchKnown'
  BY <1>6, BatchStays DEF RowsKept, exists
<1> HIDE DEF q
<1> QED
  BY <1>1, <1>4, <1>5, <1>6, <1>7, Relocate

(* The reserve gives coins to a job that no row and no coroutine but its    *)
(* caller knows yet.                                                        *)
LEMMA ReserveKeepsJobInv ==
  ASSUME WalletTypeOK, JobInv, NEW j \in Job, reserveCredits(j), batch' = batch
  PROVE  JobInv'
<1>0. /\ task \in [Task -> TaskRecord] /\ Api(j) \in Task
      /\ at(Api(j), "reserve") /\ ~ exists(j) /\ jobOf(Api(j)) = j
      /\ UNCHANGED tableVars
  BY TasksApart DEF JobInv, PipelineTypeOK, CallersKnown, reserveCredits, at
<1>1. ASSUME NEW pc \in {"insert", "done"}, goto(Api(j), pc)
      PROVE  /\ GoodRecord(Api(j), [task[Api(j)] EXCEPT !.pc = pc])
             /\ task' = [task EXCEPT ![Api(j)] = [task[Api(j)] EXCEPT !.pc = pc]]
  <2> DEFINE q == [task[Api(j)] EXCEPT !.pc = pc]
  <2>1. pc \in Label /\ pc \notin WorkLabel /\ task[Api(j)] \in TaskRecord
    BY <1>0, <1>1 DEF Label, WorkLabel
  <2>2. q \in TaskRecord /\ q.pc = pc /\ q.job = j
    BY <1>0, <2>1 DEF TaskRecord, jobOf
  <2>3. GoodRecord(Api(j), q)
    BY <1>0, <1>1, <2>1, <2>2, TasksApart DEF GoodRecord, StageLabel, WorkLabel
  <2> QED
    BY <1>1, <2>3 DEF goto
<1>2. BatchKnown'
  BY <1>0, BatchStays DEF tableVars, exists
<1>3. CASE UNCHANGED walletVars
  <2>1. RowsKept
    BY <1>0, <1>3 DEF RowsKept, walletVars, tableVars, JobInv, TableTypeOK
  <2>2. PICK pc \in {"insert", "done"} : goto(Api(j), pc)
    BY DEF reserveCredits
  <2> QED
    BY <1>0, <1>1, <1>2, <2>1, <2>2, Relocate
<1>4. ASSUME NEW p \in Prices, reserve(j, p), goto(Api(j), "insert")
      PROVE  JobInv'
  <2> DEFINE q == [task[Api(j)] EXCEPT !.pc = "insert"]
  <2>1. GoodRecord(Api(j), q) /\ task' = [task EXCEPT ![Api(j)] = q]
    BY <1>1, <1>4
  <2>2. /\ hold' = [hold EXCEPT ![j] = p] /\ keys' = keys
        /\ \A i \in Job : i # j => hold'[i] = hold[i]
    BY <1>4 DEF reserve, appendEntry, WalletTypeOK
  <2>3. TableTypeOK' /\ RowsKnown' /\ HooksKnown'
    <3>1. \A r \in Request : Hook(r) # Api(j) /\ Hook(r) \in Task
      BY TasksApart
    <3>2. HooksKnown'
      BY <1>0, <2>1, <3>1 DEF JobInv, HooksKnown, at, tableVars
    <3> QED
      BY <1>0, <3>2 DEF JobInv, TableTypeOK, RowsKnown, tableVars, exists
  <2>4. /\ task'[Api(j)] = q /\ \A s \in Task : s # Api(j) => task'[s] = task[s]
        /\ row' = row
    BY <1>0, <2>1 DEF tableVars
  <2>5. PipelineTypeOK'
    BY <1>0, <2>1 DEF PipelineTypeOK, GoodRecord
  <2>6. WorkersKnown'
    BY <2>1, <2>4 DEF JobInv, WorkersKnown, GoodRecord, exists, jobOf
  <2>7. CallersKnown'
    <3> SUFFICES ASSUME NEW i \in Job
                 PROVE  /\ task'[Api(i)].pc \in {"idle", "reserve", "insert"} => ~ exists(i)
                        /\ task'[Api(i)].pc \in WorkLabel \cup {"reserve", "insert"}
                             => task'[Api(i)].job = i
      BY <2>4 DEF CallersKnown, jobOf, exists
    <3> QED
      BY <2>1, <2>4, TasksApart DEF JobInv, CallersKnown, GoodRecord, jobOf
  <2>8. Settling'
    <3> SUFFICES ASSUME NEW s \in Task
                 PROVE  /\ task'[s].pc = "mark_failed" => Released(hold', keys, task'[s].job)
                        /\ task'[s].pc \in {"look", "commit"} =>
                             \/ Captured(hold', keys, task'[s].job)
                             \/ row[task'[s].job].kind = "voice_clone"
      BY <2>2, <2>4 DEF Settling, at, jobOf, kindOf, Released, Captured
    <3>1. CASE s = Api(j)
      BY <2>1, <2>4, <3>1 DEF GoodRecord
    <3>2. CASE s # Api(j)
      <4>1. {"mark_failed", "look", "commit"} \subseteq WorkLabel
        BY DEF WorkLabel
      <4>2. task[s].pc \in WorkLabel => task[s].job \in Job /\ task[s].job # j
        BY <1>0 DEF JobInv, WorkersKnown, jobOf
      <4> QED
        BY <2>2, <2>4, <3>2, <4>1, <4>2
           DEF JobInv, Settling, at, jobOf, kindOf, Released, Captured
    <3> QED
      BY <3>1, <3>2
  <2>9. Settled'
    <3>1. row[j].status \notin {"failed", "completed"}
      BY <1>0 DEF exists
    <3> QED
      BY <2>2, <2>4, <3>1 DEF JobInv, Settled, Released, Captured
  <2> QED
    BY <1>2, <2>3, <2>5, <2>6, <2>7, <2>8, <2>9 DEF JobInv
<1> QED
  BY <1>3, <1>4 DEF reserveCredits

(* The insert makes a row no coroutine but its caller knows yet; the losing *)
(* one of two calls makes none.                                             *)
LEMMA InsertKeepsJobInv ==
  ASSUME JobInv, NEW j \in Job, insertJob(j), batch' = batch
  PROVE  JobInv'
<1>0. /\ task \in [Task -> TaskRecord] /\ Api(j) \in Task /\ row \in [Job -> RowRecord]
      /\ task[Api(j)] \in TaskRecord
      /\ at(Api(j), "insert") /\ ~ exists(j) /\ jobOf(Api(j)) = j
      /\ UNCHANGED <<walletVars, made, fal, event>>
  BY TasksApart DEF JobInv, PipelineTypeOK, TableTypeOK, CallersKnown, insertJob, at
<1>1. CASE goto(Api(j), "done") /\ row' = row
  <2> DEFINE q == [task[Api(j)] EXCEPT !.pc = "done"]
  <2>1. q \in TaskRecord /\ q.pc = "done" /\ q.job = j
    BY <1>0 DEF TaskRecord, Label, jobOf
  <2>2. GoodRecord(Api(j), q)
    BY <1>0, <2>1, TasksApart DEF GoodRecord, StageLabel, WorkLabel
  <2>3. task' = [task EXCEPT ![Api(j)] = q]
    BY <1>1 DEF goto
  <2>4. RowsKept
    BY <1>0, <1>1 DEF RowsKept, walletVars, JobInv, TableTypeOK
  <2>5. BatchKnown'
    BY <1>1, BatchStays DEF exists
  <2> HIDE DEF q
  <2> QED
    BY <1>0, <2>2, <2>3, <2>4, <2>5, Relocate
<1>2. ASSUME NEW k \in Kinds, create(j, k), goto(Api(j), "start")
      PROVE  JobInv'
  <2> DEFINE q == [task[Api(j)] EXCEPT !.pc = "start"]
  <2> DEFINE w == [row[j] EXCEPT !.status = "created", !.kind = k]
  <2>1. q \in TaskRecord /\ q.pc = "start" /\ q.job = j
    BY <1>0 DEF TaskRecord, Label, jobOf
  <2>2. /\ row[j] \in RowRecord /\ HasStage(row[j]) /\ k \in Kind
        /\ row[j].request = NoRequest
    BY <1>0, DeliveryAssumption DEF JobInv, RowsKnown
  <2>3. /\ w \in RowRecord /\ w.status = "created" /\ w.kind = k
        /\ w.request = NoRequest /\ w.stage = row[j].stage
    BY <2>2 DEF RowRecord, ActiveStatus
  <2>4. task' = [task EXCEPT ![Api(j)] = q] /\ row' = [row EXCEPT ![j] = w]
    BY <1>2 DEF goto, create
  <2> HIDE DEF q, w
  <2>5. /\ task'[Api(j)] = q /\ \A s \in Task : s # Api(j) => task'[s] = task[s]
        /\ row'[j] = w /\ \A i \in Job : i # j => row'[i] = row[i]
        /\ hold' = hold /\ keys' = keys
    BY <1>0, <2>4 DEF walletVars
  <2>6. TableTypeOK' /\ PipelineTypeOK'
    BY <1>0, <2>1, <2>3, <2>4 DEF JobInv, TableTypeOK, PipelineTypeOK
  <2>7. RowsKnown'
    BY <2>3, <2>5 DEF JobInv, RowsKnown, HasStage, exists
  <2>8. \A s \in Task : s # Api(j) /\ task[s].pc \in WorkLabel =>
          task[s].job \in Job /\ task[s].job # j /\ exists(task[s].job)
    BY <1>0 DEF JobInv, WorkersKnown, jobOf
  <2>9. WorkersKnown'
    <3> SUFFICES ASSUME NEW s \in Task
                 PROVE  /\ task'[s].pc \in WorkLabel =>
                             task'[s].job \in Job /\ row'[task'[s].job].status # "absent"
                        /\ task'[s].pc \in StageLabel => task'[s].stage # NoStage
      BY DEF WorkersKnown, jobOf, exists
    <3>1. CASE s = Api(j)
      BY <2>1, <2>3, <2>5, <3>1 DEF StageLabel
    <3>2. CASE s # Api(j)
      BY <2>5, <2>8, <3>2 DEF JobInv, WorkersKnown, exists
    <3> QED
      BY <3>1, <3>2
  <2>10. CallersKnown'
    <3> SUFFICES ASSUME NEW i \in Job
                 PROVE  /\ task'[Api(i)].pc \in {"idle", "reserve", "insert"}
                             => row'[i].status = "absent"
                        /\ task'[Api(i)].pc \in WorkLabel \cup {"reserve", "insert"}
                             => task'[Api(i)].job = i
      BY DEF CallersKnown, jobOf, exists
    <3>1. CASE i = j
      BY <2>1, <2>5, <3>1
    <3>2. CASE i # j
      BY <2>5, <3>2, TasksApart DEF JobInv, CallersKnown, jobOf, exists
    <3> QED
      BY <3>1, <3>2
  <2>11. HooksKnown'
    <3>1. \A r \in Request : Hook(r) # Api(j) /\ Hook(r) \in Task
      BY TasksApart
    <3> QED
      BY <1>0, <2>5, <3>1 DEF JobInv, HooksKnown, at
  <2>12. BatchKnown'
    BY <2>3, <2>5, BatchStays DEF exists
  <2>13. Settling'
    <3> SUFFICES ASSUME NEW s \in Task
                 PROVE  /\ task'[s].pc = "mark_failed" => Released(hold, keys, task'[s].job)
                        /\ task'[s].pc \in {"look", "commit"} =>
                             \/ Captured(hold, keys, task'[s].job)
                             \/ row'[task'[s].job].kind = "voice_clone"
      BY <2>5 DEF Settling, at, jobOf, kindOf, Released, Captured
    <3>1. CASE s = Api(j)
      BY <2>1, <2>5, <3>1
    <3>2. CASE s # Api(j)
      <4>1. {"mark_failed", "look", "commit"} \subseteq WorkLabel
        BY DEF WorkLabel
      <4> QED
        BY <2>5, <2>8, <3>2, <4>1 DEF JobInv, Settling, at, jobOf, kindOf
    <3> QED
      BY <3>1, <3>2
  <2>14. Settled'
    <3> SUFFICES ASSUME NEW i \in Job
                 PROVE  /\ row'[i].status = "failed" => Released(hold, keys, i)
                        /\ row'[i].status = "completed" =>
                             Captured(hold, keys, i) \/ row'[i].kind = "voice_clone"
      BY <2>5 DEF Settled, Released, Captured
    <3> QED
      BY <2>3, <2>5 DEF JobInv, Settled
  <2> QED
    BY <2>6, <2>7, <2>9, <2>10, <2>11, <2>12, <2>13, <2>14 DEF JobInv
<1> QED
  BY <1>1, <1>2 DEF insertJob

(* The first transaction of a start is a pipeline step too.                 *)
LEMMA StartKeepsJobInv ==
  ASSUME JobInv, NEW j \in Job, startPipeline(j), batch' = batch
  PROVE  JobInv'
<1>1. /\ Api(j) \in Task /\ task[Api(j)].pc \in WorkLabel /\ jobOf(Api(j)) = j
      /\ "submit" \in WorkLabel /\ "submit" \notin StageLabel
  BY TasksApart DEF JobInv, CallersKnown, startPipeline, at, WorkLabel, StageLabel
<1>2. Working(Api(j))
  BY <1>1, WorkerWorks
<1>3. TaskEffect(Api(j))
  BY <1>1, <1>2, GotoEffect DEF startPipeline
<1>4. PipelineEffect(Api(j))
  BY <1>1, <1>2, <1>3, StatusStep DEF startPipeline
<1> QED
  BY <1>1, <1>4, WorkKeepsJobInv

(* All of create_job.                                                       *)
LEMMA CreateJobKeepsJobInv ==
  ASSUME WalletTypeOK, JobInv, NEW j \in Job, createJob(j)
  PROVE  JobInv'
BY LookupKeepsJobInv, ReserveKeepsJobInv, InsertKeepsJobInv, StartKeepsJobInv DEF createJob

-----------------------------------------------------------------------------
(* A request of the queue is queued or ended in one of fal's four ways.     *)
LEMMA FalState ==
  ASSUME JobInv, NEW r \in DOMAIN fal
  PROVE  fal[r].state \in {"media", "empty", "failed", "canceled", "queued"}
<1>1. fal[r] \in FalRecord
  BY DEF JobInv, TableTypeOK
<1> QED
  BY <1>1, RequestAssumption DEF FalRecord

(* The webhook.                                                             *)
LEMMA WebhookKeepsJobInv ==
  ASSUME JobInv, NEW r \in Request, webhook(r)
  PROVE  JobInv'
<1>0. /\ task \in [Task -> TaskRecord] /\ Hook(r) \in Task /\ task[Hook(r)] \in TaskRecord
      /\ \A j \in Job : Hook(r) # Api(j)
      /\ \A i \in Request : Hook(r) = Hook(i) => i = r
      /\ UNCHANGED <<walletVars, row, made, fal, batch>>
  BY TasksApart
     DEF JobInv, PipelineTypeOK, webhook, claimEvent, findJob, eventApplied, tableVars
<1>1. RowsKept /\ BatchKnown'
  <2>1. event' \in [Request -> {"none", "received", "applied"}]
    BY DEF webhook, claimEvent, findJob, eventApplied, try_record, mark_applied, tableVars,
           JobInv, TableTypeOK
  <2>2. RowsKept
    BY <1>0, <2>1 DEF RowsKept, walletVars, JobInv, TableTypeOK
  <2> QED
    BY <1>0, <2>2, BatchStays DEF exists
<1>2. ASSUME NEW pc \in {"find", "done"}, goto(Hook(r), pc), pc = "find" => r \in DOMAIN fal
      PROVE  JobInv'
  <2> DEFINE q == [task[Hook(r)] EXCEPT !.pc = pc]
  <2>1. q \in TaskRecord /\ q.pc = pc
    BY <1>0, <1>2 DEF TaskRecord, Label
  <2>2. task' = [task EXCEPT ![Hook(r)] = q]
    BY <1>2 DEF goto
  <2>3. GoodRecord(Hook(r), q)
    BY <1>0, <1>2, <2>1 DEF GoodRecord, WorkLabel, StageLabel
  <2> HIDE DEF q
  <2> QED
    BY <1>0, <1>1, <2>2, <2>3, Relocate
<1>3. CASE claimEvent(r)
  BY <1>2, <1>3 DEF claimEvent, finished
<1>4. CASE eventApplied(r)
  BY <1>2, <1>4 DEF eventApplied
<1>5. CASE findJob(r)
  <2>1. CASE goto(Hook(r), "done")
    BY <1>2, <2>1
  <2>2. ASSUME NEW j \in find_by_request_id(r),
               task' = [task EXCEPT ![Hook(r)].pc = "load", ![Hook(r)].job = j,
                                    ![Hook(r)].stage = row[j].stage,
                                    ![Hook(r)].result = fal[r].state]
        PROVE  JobInv'
    <3> DEFINE q == [task[Hook(r)] EXCEPT !.pc = "load", !.job = j,
                                          !.stage = row[j].stage, !.result = fal[r].state]
    <3>1. r \in DOMAIN fal /\ fal \in Seq(FalRecord) /\ row \in [Job -> RowRecord]
      BY <1>5 DEF findJob, JobInv, HooksKnown, TableTypeOK
    <3>2. fal[r].state \in {"media", "empty", "failed", "canceled", "queued"}
      BY <3>1, FalState
    <3>3. r # NoRequest
      BY RequestAssumption DEF Request, NoRequest
    <3>4. /\ j \in Job /\ row[j].stage \in Stage /\ exists(j)
      BY <3>1, <3>3 DEF find_by_request_id, JobInv, RowsKnown, HasStage, RowRecord
    <3>5. /\ q \in TaskRecord /\ q.pc = "load" /\ q.job = j /\ q.stage \in Stage
      BY <1>0, <3>2, <3>4 DEF TaskRecord, Label
    <3>6. task' = [task EXCEPT ![Hook(r)] = q]
      BY <2>2
    <3>7. NoStage \notin Stage
      BY DEF NoStage, Stage
    <3> HIDE DEF q
    <3>8. GoodRecord(Hook(r), q)
      BY <1>0, <3>4, <3>5, <3>7 DEF GoodRecord
    <3> QED
      BY <1>0, <1>1, <3>6, <3>8, Relocate
  <2> QED
    BY <1>5, <2>1, <2>2 DEF findJob
<1> QED
  BY <1>3, <1>4, <1>5 DEF webhook

(* The poller.                                                              *)
LEMMA PollKeepsJobInv ==
  ASSUME JobInv, poll
  PROVE  JobInv'
<1>0. /\ task \in [Task -> TaskRecord] /\ Poller \in Task /\ task[Poller] \in TaskRecord
      /\ \A j \in Job : Poller # Api(j)
      /\ \A i \in Request : Poller # Hook(i)
      /\ row \in [Job -> RowRecord]
      /\ UNCHANGED <<walletVars, tableVars>>
  BY TasksApart
     DEF JobInv, PipelineTypeOK, TableTypeOK, poll, pollActive, pollEnds, pollAnswered,
         pollSkipped
<1>1. RowsKept
  BY <1>0 DEF RowsKept, walletVars, tableVars, JobInv, TableTypeOK
<1>2. ASSUME NEW pc \in {"next", "idle"}, goto(Poller, pc), BatchKnown'
      PROVE  JobInv'
  <2> DEFINE q == [task[Poller] EXCEPT !.pc = pc]
  <2>1. q \in TaskRecord /\ q.pc = pc
    BY <1>0, <1>2 DEF TaskRecord, Label
  <2>2. task' = [task EXCEPT ![Poller] = q]
    BY <1>2 DEF goto
  <2>3. GoodRecord(Poller, q)
    BY <1>0, <1>2, <2>1 DEF GoodRecord, WorkLabel, StageLabel
  <2> HIDE DEF q
  <2> QED
    BY <1>0, <1>1, <2>2, <2>3, Relocate, <1>2
<1>3. CASE pollActive
  <2>1. PICK S \in SUBSET list_active_with_request :
          batch' = {[job |-> j, stage |-> row[j].stage, request |-> row[j].request] : j \in S}
    BY <1>3 DEF pollActive
  <2>2. BatchKnown'
    <3> SUFFICES ASSUME NEW b \in batch' PROVE BatchEntry(b)'
      BY DEF BatchKnown
    <3>1. PICK j \in S : b = [job |-> j, stage |-> row[j].stage, request |-> row[j].request]
      BY <2>1
    <3>2. j \in Job /\ row[j] \in RowRecord /\ exists(j) /\ HasStage(row[j])
      BY <1>0 DEF list_active_with_request, active, ActiveStatus, exists, JobInv, RowsKnown
    <3> QED
      BY <1>0, <3>1, <3>2 DEF BatchEntry, HasStage, exists, RowRecord, tableVars
  <2> QED
    BY <1>2, <1>3, <2>2 DEF pollActive
<1>4. CASE pollEnds
  BY <1>0, <1>2, <1>4, BatchStays DEF pollEnds, tableVars, exists
<1>5. ASSUME NEW b \in batch, pollSkipped(b)
      PROVE  JobInv'
  <2>1. batch' \subseteq batch /\ task' = task
    BY <1>5 DEF pollSkipped
  <2>2. BatchKnown'
    BY <1>0, <2>1, BatchStays DEF tableVars, exists
  <2> QED
    BY <1>1, <2>1, <2>2, Elsewhere
<1>6. ASSUME NEW b \in batch, pollAnswered(b)
      PROVE  JobInv'
  <2>1. PICK result \in fetched(b) :
          task' = [task EXCEPT ![Poller].pc = "load", ![Poller].job = b.job,
                               ![Poller].stage = b.stage, ![Poller].result = result]
    BY <1>6 DEF pollAnswered
  <2>2. /\ b.job \in Job /\ exists(b.job) /\ b.stage \in Stage \cup {NoStage}
        /\ b.request \in Request \cup {NoRequest} /\ HasStage(b)
        /\ b.request \in DOMAIN fal /\ fal \in Seq(FalRecord)
    BY <1>6 DEF JobInv, BatchKnown, BatchEntry, pollAnswered, finished, TableTypeOK
  <2>3. b.stage # NoStage
    BY <2>2 DEF HasStage, NoRequest
  <2>4. result \in {"media", "empty", "failed", "canceled", "queued"}
    <3>1. fal[b.request].state \in {"media", "empty", "failed", "canceled", "queued"}
      BY <2>2, FalState
    <3> QED
      BY <2>1, <3>1 DEF fetched
  <2> DEFINE q == [task[Poller] EXCEPT !.pc = "load", !.job = b.job,
                                       !.stage = b.stage, !.result = result]
  <2>5. /\ q \in TaskRecord /\ q.pc = "load" /\ q.job = b.job /\ q.stage = b.stage
    BY <1>0, <2>2, <2>4 DEF TaskRecord, Label
  <2>6. task' = [task EXCEPT ![Poller] = q]
    BY <2>1
  <2> HIDE DEF q
  <2>7. GoodRecord(Poller, q)
    BY <1>0, <2>2, <2>3, <2>5 DEF GoodRecord
  <2>8. BatchKnown'
    BY <1>0, <1>6, BatchStays DEF pollAnswered, tableVars, exists
  <2> QED
    BY <1>0, <1>1, <2>6, <2>7, <2>8, Relocate
<1> QED
  BY <1>3, <1>4, <1>5, <1>6 DEF poll

(* A crash loses coroutines and no row: what runs on knows what it knew.    *)
LEMMA CrashKeepsJobInv ==
  ASSUME JobInv, Crash
  PROVE  JobInv'
<1>0. /\ task \in [Task -> TaskRecord]
      /\ UNCHANGED <<walletVars, tableVars>> /\ batch' = {}
      /\ task' = [t \in Task |->
                    IF t \in {Poller, Recovery} THEN Fresh
                    ELSE IF running(t) THEN [Fresh EXCEPT !.pc = "dead"] ELSE task[t]]
  BY DEF JobInv, PipelineTypeOK, Crash
<1>1. RowsKept /\ BatchKnown'
  BY <1>0 DEF RowsKept, walletVars, tableVars, JobInv, TableTypeOK, BatchKnown
<1>2. \A t \in Task : /\ task'[t] \in TaskRecord
                      /\ task'[t].pc \in {"idle", "done", "dead"}
                      /\ task'[t].pc = "idle" =>
                           task[t].pc = "idle" \/ t \in {Poller, Recovery}
  <2> TAKE t \in Task
  <2>1. /\ Fresh \in TaskRecord /\ Fresh.pc = "idle"
        /\ [Fresh EXCEPT !.pc = "dead"] \in TaskRecord
        /\ [Fresh EXCEPT !.pc = "dead"].pc = "dead"
    BY DEF Fresh, TaskRecord, Label
  <2>2. ~ running(t) => task[t].pc \in {"idle", "done", "dead"}
    BY DEF running
  <2> QED
    BY <1>0, <2>1, <2>2
<1>3. PipelineTypeOK'
  BY <1>0, <1>2 DEF PipelineTypeOK
<1>4. WorkersKnown' /\ Settling'
  BY <1>2 DEF WorkersKnown, Settling, WorkLabel, StageLabel, at
<1>5. CallersKnown' /\ HooksKnown'
  BY <1>0, <1>2, TasksApart
     DEF JobInv, CallersKnown, HooksKnown, WorkLabel, at, exists, tableVars
<1> QED
  BY <1>1, <1>3, <1>4, <1>5, RowsKeptFacts DEF JobInv

(* The recovery at the start.                                               *)
LEMMA RecoveryKeepsJobInv ==
  ASSUME JobInv, Restart \/ recoverNext \/ Serve
  PROVE  JobInv'
<1>0. /\ task \in [Task -> TaskRecord] /\ Recovery \in Task /\ task[Recovery] \in TaskRecord
      /\ \A j \in Job : Recovery # Api(j)
      /\ \A i \in Request : Recovery # Hook(i)
      /\ row \in [Job -> RowRecord]
      /\ UNCHANGED <<walletVars, tableVars>>
  BY TasksApart DEF JobInv, PipelineTypeOK, TableTypeOK, Restart, recoverNext, Serve
<1>1. RowsKept
  BY <1>0 DEF RowsKept, walletVars, tableVars, JobInv, TableTypeOK
<1>2. ASSUME NEW pc \in {"next", "idle"}, goto(Recovery, pc), BatchKnown'
      PROVE  JobInv'
  <2> DEFINE q == [task[Recovery] EXCEPT !.pc = pc]
  <2>1. q \in TaskRecord /\ q.pc = pc
    BY <1>0, <1>2 DEF TaskRecord, Label
  <2>2. task' = [task EXCEPT ![Recovery] = q]
    BY <1>2 DEF goto
  <2>3. GoodRecord(Recovery, q)
    BY <1>0, <1>2, <2>1 DEF GoodRecord, WorkLabel, StageLabel
  <2> HIDE DEF q
  <2> QED
    BY <1>0, <1>1, <1>2, <2>2, <2>3, Relocate
<1>3. CASE Restart
  <2>1. BatchKnown'
    <3> SUFFICES ASSUME NEW b \in batch' PROVE BatchEntry(b)'
      BY DEF BatchKnown
    <3>1. PICK j \in list_orphans :
            b = [job |-> j, stage |-> row[j].stage, request |-> NoRequest]
      BY <1>3 DEF Restart
    <3>2. j \in Job /\ row[j] \in RowRecord /\ exists(j)
      BY <1>0 DEF list_orphans, exists
    <3> QED
      BY <1>0, <3>1, <3>2 DEF BatchEntry, HasStage, exists, RowRecord, tableVars
  <2> QED
    BY <1>2, <1>3, <2>1 DEF Restart
<1>4. CASE Serve
  BY <1>0, <1>2, <1>4, BatchStays DEF Serve, tableVars, exists
<1>5. CASE recoverNext
  <2>1. PICK b \in batch :
          /\ task' = [task EXCEPT ![Recovery].pc = "release", ![Recovery].job = b.job]
          /\ batch' = batch \ {b}
    BY <1>5 DEF recoverNext
  <2>2. b.job \in Job /\ exists(b.job)
    BY DEF JobInv, BatchKnown, BatchEntry
  <2> DEFINE q == [task[Recovery] EXCEPT !.pc = "release", !.job = b.job]
  <2>3. q \in TaskRecord /\ q.pc = "release" /\ q.job = b.job
    BY <1>0, <2>2 DEF TaskRecord, Label
  <2>4. task' = [task EXCEPT ![Recovery] = q]
    BY <2>1
  <2> HIDE DEF q
  <2>5. GoodRecord(Recovery, q)
    BY <1>0, <2>2, <2>3 DEF GoodRecord, StageLabel
  <2>6. BatchKnown'
    BY <1>0, <2>1, BatchStays DEF tableVars, exists
  <2> QED
    BY <1>0, <1>1, <2>4, <2>5, <2>6, Relocate
<1> QED
  BY <1>3, <1>4, <1>5

(* What goes on beside the jobs: fal ends a request, a user buys coins.     *)
LEMMA OutsideKeepsJobInv ==
  ASSUME JobInv,
         \/ \E r \in Request : falStep(r)
         \/ \E u \in User, k \in OpKey, n \in Amounts : purchase(u, k, n)
  PROVE  JobInv'
<1>1. CASE \E r \in Request : falStep(r)
  <2>1. PICK r \in Request, o \in Outcomes :
          /\ r \in DOMAIN fal /\ fal' = [fal EXCEPT ![r].state = o]
          /\ UNCHANGED <<walletVars, row, made, event, task, batch>>
    BY <1>1 DEF falStep, falEnds
  <2>2. fal \in Seq(FalRecord) /\ fal[r] \in FalRecord /\ Len(fal) <= MaxRequests
    BY <2>1 DEF JobInv, TableTypeOK
  <2>3. [fal[r] EXCEPT !.state = o] \in FalRecord
    BY <2>2 DEF FalRecord
  <2>4. fal' \in Seq(FalRecord) /\ Len(fal') = Len(fal)
    BY <2>1, <2>2, <2>3
  <2>5. RowsKept
    BY <2>1, <2>2, <2>4 DEF RowsKept, walletVars, JobInv, TableTypeOK
  <2>6. BatchKnown'
    BY <2>1, BatchStays DEF exists
  <2> QED
    BY <2>1, <2>5, <2>6, Elsewhere
<1>2. CASE \E u \in User, k \in OpKey, n \in Amounts : purchase(u, k, n)
  <2>1. UNCHANGED <<tableVars, task, batch>> /\ hold' = hold /\ keys \subseteq keys'
    BY <1>2 DEF purchase, grantCoins, appendKeyed, walletVars
  <2>2. RowsKept
    BY <2>1 DEF RowsKept, tableVars, JobInv, TableTypeOK
  <2>3. BatchKnown'
    BY <2>1, BatchStays DEF tableVars, exists
  <2> QED
    BY <2>1, <2>2, <2>3, Elsewhere
<1> QED
  BY <1>1, <1>2

-----------------------------------------------------------------------------
(* Nobody works on anything at first.                                       *)
LEMMA InitJobInv == Init => JobInv
<1> SUFFICES ASSUME Init PROVE JobInv
  OBVIOUS
<1>1. /\ row = [j \in Job |-> NoRow] /\ task = [t \in Task |-> Fresh] /\ fal = <<>>
      /\ made = [j \in Job |-> 0] /\ event = [r \in Request |-> "none"] /\ batch = {}
  BY DEF Init, TableInit, PipelineInit
<1>2. TableTypeOK
  <2>1. NoRow \in RowRecord
    BY DEF NoRow, RowRecord, Kind
  <2> QED
    BY <1>1, <2>1, RequestAssumption DEF TableTypeOK
<1>3. PipelineTypeOK
  <2>1. Fresh \in TaskRecord
    BY DEF Fresh, TaskRecord, Label
  <2> QED
    BY <1>1, <2>1 DEF PipelineTypeOK
<1>4. RowsKnown /\ Settled
  BY <1>1 DEF RowsKnown, Settled, NoRow, HasStage, exists
<1>5. WorkersKnown /\ CallersKnown /\ HooksKnown /\ Settling
  BY <1>1, TasksApart
     DEF WorkersKnown, CallersKnown, HooksKnown, Settling, Fresh, NoRow, WorkLabel,
         StageLabel, at, exists
<1>6. BatchKnown
  BY <1>1 DEF BatchKnown
<1> QED
  BY <1>2, <1>3, <1>4, <1>5, <1>6 DEF JobInv

(* Every step keeps the invariant, stuttering included.                     *)
LEMMA NextJobInv ==
  ASSUME WalletTypeOK, JobInv, [Next]_vars
  PROVE  JobInv'
<1>1. CASE UNCHANGED vars
  <2>1. RowsKept /\ task' = task
    BY <1>1 DEF vars, RowsKept, walletVars, tableVars, JobInv, TableTypeOK
  <2>2. BatchKnown'
    BY <1>1, BatchStays DEF vars, tableVars, exists
  <2> QED
    BY <2>1, <2>2, Elsewhere
<1>2. ASSUME NEW t \in Task, pipelineStep(t)
      PROVE  JobInv'
  <2>1. jobOf(t) \in Job /\ batch' = batch
    BY <1>2 DEF pipelineStep
  <2>2. PipelineEffect(t)
    BY <1>2, <2>1, WorkerWorks, StepEffectOfPipeline
  <2> QED
    BY <2>1, <2>2, WorkKeepsJobInv
<1> QED
  BY <1>1, <1>2, CreateJobKeepsJobInv, WebhookKeepsJobInv, PollKeepsJobInv,
     CrashKeepsJobInv, RecoveryKeepsJobInv, OutsideKeepsJobInv DEF Next

(* The strengthening is an invariant of every generation.                   *)
LEMMA JobInvariant == Spec => []JobInv
<1>1. JobInv /\ WalletTypeOK /\ [Next]_vars => JobInv'
  BY NextJobInv
<1>2. Spec => []WalletTypeOK
  BY GenerationLedger, PTL
<1> QED
  BY <1>1, <1>2, InitJobInv, PTL DEF Spec

(* The rows, the queue and the webhook events stay well typed: no handler   *)
(* stores what another cannot read.                                         *)
THEOREM GenerationTypes == Spec => []TableTypeOK
<1>1. JobInv => TableTypeOK
  BY DEF JobInv
<1> QED
  BY <1>1, JobInvariant, PTL

(* The coroutines stay well typed, whatever they were handed: a row that a  *)
(* crash left half-way, a batch read before, a result that never came.      *)
THEOREM CoroutineTypes == Spec => []PipelineTypeOK
<1>1. JobInv => PipelineTypeOK
  BY DEF JobInv
<1> QED
  BY <1>1, JobInvariant, PTL

(* A failed job gave its coins back, whoever failed it (the start, the      *)
(* webhook, the poller, the recovery) and whatever raced or crashed.        *)
THEOREM FailedReleased == Spec => []FailedIsReleased
<1>1. JobInv => FailedIsReleased
  BY DEF JobInv, Settled, FailedIsReleased, Released
<1> QED
  BY <1>1, JobInvariant, PTL

(* A completed job was paid for, when voice clones are not among the kinds: *)
(* the capture is committed before the status, also across a crash.         *)
THEOREM CompletedCaptured ==
  ASSUME "voice_clone" \notin Kinds
  PROVE  Spec => []CompletedIsCaptured
<1>1. JobInv => CompletedIsCaptured
  BY DEF JobInv, Settled, RowsKnown, CompletedIsCaptured, Captured, exists
<1> QED
  BY <1>1, JobInvariant, PTL


-----------------------------------------------------------------------------
(* A row comes into being only in insert, under an unused Idempotency-Key.  *)
LEMMA RowsGained ==
  ASSUME JobInv, [Next]_vars
  PROVE  \/ \A i \in Job : exists(i)' => exists(i)
         \/ \E j \in Job : /\ sameKey(j) = {}
                           /\ \A i \in Job : exists(i)' => exists(i) \/ i = j
<1>0. row \in [Job -> RowRecord]
  BY DEF JobInv, TableTypeOK
<1>1. CASE row' = row
  BY <1>1 DEF exists
<1>2. ASSUME NEW t \in Task, pipelineStep(t)
      PROVE  \A i \in Job : exists(i)' => exists(i)
  <2>1. jobOf(t) \in Job
    BY <1>2 DEF pipelineStep
  <2>2. PipelineEffect(t)
    BY <1>2, <2>1, WorkerWorks, StepEffectOfPipeline
  <2>3. exists(jobOf(t)) /\ \A i \in Job : i # jobOf(t) => row'[i] = row[i]
    BY <1>0, <2>1, <2>2 DEF PipelineEffect, RowEffect, JobInv, WorkersKnown
  <2> QED
    BY <2>3 DEF exists
<1>3. ASSUME NEW j \in Job, startPipeline(j)
      PROVE  \A i \in Job : exists(i)' => exists(i)
  <2>1. Api(j) \in Task /\ task[Api(j)].pc \in WorkLabel /\ task[Api(j)].pc = "start"
    BY <1>3, TasksApart DEF startPipeline, at, WorkLabel
  <2>2. exists(j)
    BY <2>1 DEF JobInv, WorkersKnown, CallersKnown, jobOf
  <2>3. \A i \in Job : i # j => row'[i] = row[i]
    BY <1>0, <1>3 DEF startPipeline, set_status
  <2> QED
    BY <2>2, <2>3 DEF exists
<1>4. ASSUME NEW j \in Job, insertJob(j), row' # row
      PROVE  sameKey(j) = {} /\ \A i \in Job : exists(i)' => exists(i) \/ i = j
  BY <1>0, <1>4 DEF insertJob, create, exists
<1>5. row' = row \/ (\E t \in Task : pipelineStep(t))
        \/ (\E j \in Job : startPipeline(j) \/ insertJob(j))
  BY DEF Next, vars, tableVars, createJob, lookupKey, reserveCredits, webhook, claimEvent,
         findJob, eventApplied, poll, pollActive, pollAnswered, pollSkipped, pollEnds,
         purchase, falStep, recoverNext, Crash, Restart, Serve
<1> QED
  BY <1>1, <1>2, <1>3, <1>4, <1>5

(* The calls of a user with one Idempotency-Key make one job: the unique    *)
(* index decides between calls that overlap and both find no row.           *)
THEOREM KeyMakesOneJob == Spec => []OneJobPerKey
<1>1. Init => OneJobPerKey
  BY DEF Init, TableInit, NoRow, OneJobPerKey, exists
<1>2. JobInv /\ OneJobPerKey /\ [Next]_vars => OneJobPerKey'
  <2> SUFFICES ASSUME JobInv, OneJobPerKey, [Next]_vars,
                      NEW i \in Job, NEW j \in Job, i # j, exists(i)', exists(j)',
                      ClientKeyOf[i] # NoKey, ClientKeyOf[i] = ClientKeyOf[j],
                      OwnerOf[i] = OwnerOf[j]
               PROVE  FALSE
    BY DEF OneJobPerKey, exists
  <2>1. CASE \A k \in Job : exists(k)' => exists(k)
    BY <2>1 DEF OneJobPerKey
  <2>2. ASSUME NEW k \in Job, sameKey(k) = {},
               \A h \in Job : exists(h)' => exists(h) \/ h = k
        PROVE  FALSE
    <3>1. CASE exists(i) /\ exists(j)
      BY <3>1 DEF OneJobPerKey
    <3>2. CASE i = k /\ exists(j)
      BY <2>2, <3>2 DEF sameKey
    <3>3. CASE j = k /\ exists(i)
      BY <2>2, <3>3 DEF sameKey
    <3> QED
      BY <2>2, <3>1, <3>2, <3>3
  <2> QED
    BY <2>1, <2>2, RowsGained
<1> QED
  BY <1>1, <1>2, JobInvariant, PTL DEF Spec


-----------------------------------------------------------------------------
(***************************************************************************)
(* One delivery.  Where results come by the webhook or by the poller, not  *)
(* both, no two coroutines ever work on one job: its caller works on it    *)
(* before it has a request, a webhook on the job of its own request, the   *)
(* poller only while there are no webhooks, the recovery while nothing     *)
(* else runs.  So a job makes one product, and until a crash cuts a        *)
(* settlement in two it is settled one way.                                *)
(***************************************************************************)
works(t) == task[t].pc \in WorkLabel

(* Who runs while what.                                                     *)
RunnersKnown ==
  /\ delivery \in Deliveries /\ crashes \in Nat
  /\ \A r \in Request : running(Hook(r)) => "webhook" \in delivery /\ event[r] # "none"
  /\ task[Poller].pc # "idle" => "poller" \in delivery
  /\ task[Recovery].pc # "idle" => server = "recovering"
  /\ server # "serving" =>
       /\ crashes > 0 /\ task[Poller].pc = "idle"
       /\ \A t \in Task \ {Recovery} : ~ running(t)

(* Who works on a row with which request.                                   *)
PlacesKnown ==
  /\ \A j \in Job : works(Api(j)) => row[j].request = NoRequest
  /\ \A r \in Request : works(Hook(r)) => row[jobOf(Hook(r))].request = r
  /\ works(Poller) => row[jobOf(Poller)].request # NoRequest
  /\ works(Recovery) => row[jobOf(Recovery)].request = NoRequest

(* What the poller and the recovery read before is still so when they come  *)
(* to it.                                                                   *)
BatchFresh ==
  /\ \A b \in batch :
       /\ active(b.job)
       /\ \/ task[Poller].pc # "idle" /\ row[b.job].request # NoRequest
          \/ task[Recovery].pc # "idle" /\ row[b.job].request = NoRequest
       /\ \A t \in {Poller, Recovery} : works(t) => jobOf(t) # b.job
  /\ \A b, c \in batch : b.job = c.job => b = c

(* No coroutine takes the job up again.                                     *)
Over(j) ==
  /\ terminal(j)
  /\ \A r \in Request :
       row[j].request = r /\ "webhook" \in delivery
         => event[r] # "none" /\ ~ at(Hook(r), "find")

(* A job with a product is over, and nobody works on it.                    *)
ProductsKnown ==
  /\ \A t \in Task : works(t) => made[jobOf(t)] = 0
  /\ \A j \in Job : made[j] > 0 => made[j] = 1 /\ Over(j)

(* Until a crash: a job with a settlement is over, or someone works on it   *)
(* and is past the capture or past the release.                             *)
PaymentsKnown ==
  crashes = 0 =>
    /\ \A t \in Task :
         /\ works(t) /\ task[t].pc \notin {"look", "commit"} => captureKey(jobOf(t)) \notin keys
         /\ works(t) /\ task[t].pc # "mark_failed" => releaseKey(jobOf(t)) \notin keys
    /\ \A j \in Job :
         /\ captureKey(j) \notin keys \/ releaseKey(j) \notin keys
         /\ captureKey(j) \in keys \/ releaseKey(j) \in keys
              => Over(j) \/ \E t \in Task : works(t) /\ jobOf(t) = j

SoleInv ==
  RunnersKnown /\ PlacesKnown /\ BatchFresh /\ ProductsKnown /\ PaymentsKnown


(* What a step of a pipeline means for the job: the coroutine goes on with  *)
(* it, perhaps settling it, or it leaves it, as it was or ended.            *)
RequestStays(t) == row'[jobOf(t)].request = row[jobOf(t)].request

GoesOn(t) ==
  /\ task[t].pc # "mark_failed" /\ task'[t].pc \in WorkLabel
  /\ task[t].pc \in {"look", "commit"} => task'[t].pc \in {"look", "commit"}
  /\ RequestStays(t) /\ made' = made
  /\ \/ keys' = keys
     \/ task'[t].pc \in {"look", "commit"} /\ keys' = keys \cup {captureKey(jobOf(t))}
     \/ task'[t].pc = "mark_failed" /\ keys' = keys \cup {releaseKey(jobOf(t))}

Leaves(t) ==
  /\ task'[t].pc = after(t) /\ keys' = keys
  /\ task[t].pc \notin {"look", "commit", "mark_failed"} /\ made' = made

Ends(t) ==
  /\ task'[t].pc = after(t) /\ keys' = keys
  /\ row'[jobOf(t)].status \in TerminalStatus /\ RequestStays(t)
  /\ \E n \in {made[jobOf(t)], made[jobOf(t)] + 1} : made' = [made EXCEPT ![jobOf(t)] = n]

Course(t) == GoesOn(t) \/ Leaves(t) \/ Ends(t)

(* A coroutine that goes to a label and leaves the wallet alone.            *)
LEMMA GotoGoesOn ==
  ASSUME NEW t, Working(t), NEW label \in WorkLabel, goto(t, label),
         task[t].pc \notin {"mark_failed", "look", "commit"},
         RequestStays(t), made' = made, UNCHANGED walletVars
  PROVE  Course(t)
<1>1. task'[t].pc = label
  BY DEF goto, Working, PipelineTypeOK, TaskRecord
<1> QED
  BY <1>1 DEF Course, GoesOn, walletVars

(* The patches of the row keep its request.                                 *)
LEMMA PatchKeepsRequest ==
  ASSUME NEW t, Working(t),
         \/ row' = row
         \/ \E status : set_status(jobOf(t), status)
         \/ \E runtime : persist_runtime(jobOf(t), runtime)
         \/ set_fallback_used(jobOf(t))
  PROVE  RequestStays(t)
<1>1. row \in [Job -> RowRecord] /\ jobOf(t) \in Job
  BY DEF Working, TableTypeOK
<1> QED
  BY <1>1 DEF RequestStays, set_status, persist_runtime, set_fallback_used, RowRecord

(* The steps of the coroutine alone.                                        *)
LEMMA MoveGoesOn ==
  ASSUME NEW t, Working(t), NEW label \in WorkLabel, goto(t, label),
         task[t].pc \notin {"mark_failed", "look", "commit"},
         UNCHANGED <<walletVars, tableVars>>
  PROVE  Course(t)
<1>1. RequestStays(t)
  BY PatchKeepsRequest DEF tableVars
<1> QED
  BY <1>1, GotoGoesOn DEF tableVars

(* A handler that returns is at the label after it.                         *)
LEMMA ReturnLabel ==
  ASSUME NEW t, Working(t), return(t)
  PROVE  task'[t].pc = after(t)
BY DEF return, Working, PipelineTypeOK, Fresh

(* The steps of BasePipeline.                                               *)
LEMMA BaseCourse ==
  ASSUME NEW t, Working(t), BaseStep(t)
  PROVE  Course(t)
<1>0. /\ t \in Task /\ task \in [Task -> TaskRecord] /\ task[t] \in TaskRecord
      /\ row \in [Job -> RowRecord] /\ jobOf(t) \in Job /\ made \in [Job -> Nat]
  BY DEF Working, PipelineTypeOK, TableTypeOK
<1>1. CASE dropped(t)
  BY <1>1, ReturnLabel DEF dropped, Course, Leaves, at, walletVars, tableVars
<1>2. CASE readRuntime(t) \/ rereadRuntime(t)
  <2>1. task'[t].pc \in {"persist", "finalize"} /\ task[t].pc \in {"runtime", "reread"}
    BY <1>0, <1>2 DEF readRuntime, rereadRuntime, at, TaskRecord
  <2>2. RequestStays(t)
    BY <1>2, PatchKeepsRequest DEF readRuntime, rereadRuntime, tableVars
  <2> QED
    BY <1>2, <2>1, <2>2
       DEF readRuntime, rereadRuntime, Course, GoesOn, WorkLabel, walletVars, tableVars
<1>3. CASE setCurrentStage(t)
  BY <1>3, ReturnLabel DEF setCurrentStage, Course, Leaves, at, walletVars
<1>4. CASE releaseCredits(t)
  <2>1. task'[t].pc = "mark_failed" /\ task[t].pc = "release"
    BY <1>0, <1>4 DEF releaseCredits, goto, at, TaskRecord
  <2>2. RequestStays(t)
    BY <1>4, PatchKeepsRequest DEF releaseCredits, tableVars
  <2>3. keys' = keys \/ keys' = keys \cup {releaseKey(jobOf(t))}
    BY <1>4 DEF releaseCredits, release, appendKeyed, walletVars
  <2> QED
    BY <1>4, <2>1, <2>2, <2>3 DEF releaseCredits, Course, GoesOn, WorkLabel, tableVars
<1>5. CASE markFailed(t)
  <2>1. RequestStays(t) /\ task'[t].pc = after(t)
    BY <1>5, PatchKeepsRequest, ReturnLabel DEF markFailed, mark_failed
  <2>2. row'[jobOf(t)].status = "failed"
    BY <1>0, <1>5 DEF markFailed, mark_failed, set_status, RowRecord
  <2>3. made' = [made EXCEPT ![jobOf(t)] = made[jobOf(t)]]
    BY <1>0, <1>5 DEF markFailed
  <2> QED
    BY <1>5, <2>1, <2>2, <2>3 DEF markFailed, Course, Ends, TerminalStatus, walletVars
<1> QED
  BY <1>1, <1>2, <1>3, <1>4, <1>5 DEF BaseStep

(* A submit, accepted or refused.                                           *)
LEMMA SubmittedCourse ==
  ASSUME NEW t, Working(t), NEW stage, NEW key, NEW label \in {"set_stage", "flag"},
         task[t].pc \in {"submit", "fallback"}, submitted(t, stage, key, label)
  PROVE  Course(t)
<1>1. t \in Task /\ task \in [Task -> TaskRecord] /\ task[t] \in TaskRecord
  BY DEF Working, PipelineTypeOK
<1>2. task'[t].pc = label
  BY <1>1 DEF submitted, TaskRecord
<1>3. RequestStays(t)
  BY PatchKeepsRequest DEF submitted
<1> QED
  BY <1>2, <1>3 DEF submitted, Course, GoesOn, WorkLabel, walletVars

LEMMA RefusedCourse ==
  ASSUME NEW t, Working(t), NEW label \in {"release", "reread"},
         task[t].pc \in {"submit", "fallback"}, refused(t, label)
  PROVE  Course(t)
<1>1. label \in WorkLabel
  BY DEF WorkLabel
<1> QED
  BY <1>1, MoveGoesOn DEF refused

LEMMA SubmitCourse ==
  ASSUME NEW t, Working(t), NEW stage, submitFirst(t, stage) \/ submitSecond(t, stage)
  PROVE  Course(t)
<1>1. task[t].pc \in {"submit", "fallback"}
  BY DEF submitFirst, submitSecond, at
<1>2. \/ \E key \in SubmitKey : submitted(t, stage, key, "set_stage")
      \/ \E label \in {"release", "reread"} : refused(t, label)
  BY DEF submitFirst, submitSecond, SubmitKey
<1>3. "set_stage" \in {"set_stage", "flag"}
  OBVIOUS
<1> QED
  BY <1>1, <1>2, <1>3, SubmittedCourse, RefusedCourse

(* The steps of a finalize.                                                 *)
LEMMA PostProcessCourse ==
  ASSUME NEW t, Working(t), NEW yes, postProcess(t, yes)
  PROVE  Course(t)
<1>1. RequestStays(t)
  BY PatchKeepsRequest DEF postProcess
<1>2. /\ goto(t, "capture") \/ goto(t, "release")
      /\ {"capture", "release"} \subseteq WorkLabel
      /\ task[t].pc \notin {"mark_failed", "look", "commit"}
      /\ made' = made /\ UNCHANGED walletVars
  BY DEF postProcess, at, WorkLabel
<1> QED
  BY <1>1, <1>2, GotoGoesOn

LEMMA CaptureCourse ==
  ASSUME NEW t, Working(t), NEW label \in {"look", "commit"}, captureCredits(t, label)
  PROVE  Course(t)
<1>1. t \in Task /\ task \in [Task -> TaskRecord] /\ task[t] \in TaskRecord
  BY DEF Working, PipelineTypeOK
<1>2. task'[t].pc = label /\ task[t].pc = "capture"
  BY <1>1 DEF captureCredits, goto, at, TaskRecord
<1>3. RequestStays(t)
  BY PatchKeepsRequest DEF captureCredits, tableVars
<1>4. keys' = keys \/ keys' = keys \cup {captureKey(jobOf(t))}
  BY DEF captureCredits, capture, appendKeyed, walletVars
<1> QED
  BY <1>2, <1>3, <1>4 DEF captureCredits, Course, GoesOn, WorkLabel, tableVars

LEMMA LookCourse ==
  ASSUME NEW t, Working(t), lookForTrack(t)
  PROVE  Course(t)
<1>1. t \in Task /\ task \in [Task -> TaskRecord] /\ task[t] \in TaskRecord
  BY DEF Working, PipelineTypeOK
<1>2. task'[t].pc = "commit" /\ task[t].pc = "look"
  BY <1>1 DEF lookForTrack, at, TaskRecord
<1>3. RequestStays(t)
  BY PatchKeepsRequest DEF lookForTrack, tableVars
<1> QED
  BY <1>2, <1>3 DEF lookForTrack, Course, GoesOn, WorkLabel, walletVars, tableVars

LEMMA CommitCourse ==
  ASSUME NEW t, Working(t), NEW isNew, commitProduct(t, isNew)
  PROVE  Course(t)
<1>1. row \in [Job -> RowRecord] /\ jobOf(t) \in Job /\ made \in [Job -> Nat]
  BY DEF Working, TableTypeOK
<1>2. RequestStays(t) /\ task'[t].pc = after(t)
  BY PatchKeepsRequest, ReturnLabel DEF commitProduct, mark_succeeded
<1>3. row'[jobOf(t)].status = "completed"
  BY <1>1 DEF commitProduct, mark_succeeded, set_status, RowRecord
<1>4. \E n \in {made[jobOf(t)], made[jobOf(t)] + 1} : made' = [made EXCEPT ![jobOf(t)] = n]
  BY DEF commitProduct
<1> QED
  BY <1>2, <1>3, <1>4 DEF commitProduct, Course, Ends, TerminalStatus, walletVars

LEMMA FinalizeCourse ==
  ASSUME NEW t, Working(t),
         \/ \E yes \in BOOLEAN : postProcess(t, yes)
         \/ \E label \in {"look", "commit"} : captureCredits(t, label)
         \/ lookForTrack(t)
         \/ \E isNew \in BOOLEAN : commitProduct(t, isNew)
  PROVE  Course(t)
BY PostProcessCourse, CaptureCourse, LookCourse, CommitCourse

(* Saving a stage result or the fallback flag.                              *)
LEMMA SaveCourse ==
  ASSUME NEW t, Working(t), NEW label \in {"submit", "finalize", "reread", "set_stage"},
         \/ \E runtime : persist_runtime(jobOf(t), runtime)
         \/ set_fallback_used(jobOf(t)),
         task[t].pc \in {"persist", "flag"}, goto(t, label),
         UNCHANGED <<walletVars, made, fal, event>>
  PROVE  Course(t)
<1>1. RequestStays(t)
  BY PatchKeepsRequest
<1>2. label \in WorkLabel /\ task[t].pc \notin {"mark_failed", "look", "commit"}
  BY DEF WorkLabel
<1> QED
  BY <1>1, <1>2, GotoGoesOn

(* The steps of each pipeline.                                              *)
LEMMA SongCourse ==
  ASSUME NEW t, Working(t), SongStep(t)
  PROVE  Course(t)
<1>1. CASE songAdvance(t) \/ songFail(t)
  BY <1>1, MoveGoesOn DEF songAdvance, songFail, at, WorkLabel
<1>2. CASE songPersist(t) \/ songFlag(t)
  BY <1>2, SaveCourse DEF songPersist, songFlag, at
<1>3. CASE songFallback(t)
  BY <1>3, SubmittedCourse, RefusedCourse DEF songFallback, at
<1>4. CASE songSubmit(t)
  BY <1>4, SubmitCourse DEF songSubmit
<1>5. CASE songFinalize(t)
  <2>1. /\ ("music_generation" \in task[t].runtime) \in BOOLEAN
        /\ (task[t].seen = 0) \in BOOLEAN
    OBVIOUS
  <2> QED
    BY <1>5, <2>1, FinalizeCourse DEF songFinalize
<1> QED
  BY <1>1, <1>2, <1>3, <1>4, <1>5 DEF SongStep

LEMMA CoverCourse ==
  ASSUME NEW t, Working(t), CoverStep(t)
  PROVE  Course(t)
<1>1. CASE coverAdvance(t) \/ coverFail(t)
  BY <1>1, MoveGoesOn DEF coverAdvance, coverFail, at, WorkLabel
<1>2. CASE coverPersist(t)
  BY <1>2, SaveCourse DEF coverPersist, at
<1>3. CASE coverSubmit(t)
  BY <1>3, SubmitCourse DEF coverSubmit
<1>4. CASE coverFinalize(t)
  <2>1. /\ ("voice_conversion" \in task[t].runtime) \in BOOLEAN
        /\ (task[t].seen = 0) \in BOOLEAN
    OBVIOUS
  <2> QED
    BY <1>4, <2>1, FinalizeCourse DEF coverFinalize
<1> QED
  BY <1>1, <1>2, <1>3, <1>4 DEF CoverStep

LEMMA VideoCourse ==
  ASSUME NEW t, Working(t), VideoStep(t)
  PROVE  Course(t)
<1>1. CASE videoAdvance(t) \/ videoFail(t)
  BY <1>1, MoveGoesOn DEF videoAdvance, videoFail, at, WorkLabel
<1>2. CASE videoSubmit(t)
  BY <1>2, SubmitCourse DEF videoSubmit
<1>3. CASE videoFinalize(t)
  BY <1>3, FinalizeCourse DEF videoFinalize
<1> QED
  BY <1>1, <1>2, <1>3 DEF VideoStep

LEMMA VoiceCloneCourse ==
  ASSUME NEW t, Working(t), VoiceCloneStep(t)
  PROVE  Course(t)
<1>1. CASE cloneVoice(t)
  BY <1>1, MoveGoesOn DEF cloneVoice, at, WorkLabel
<1>2. CASE clonePostProcess(t)
  <2>1. RequestStays(t)
    BY <1>2, PatchKeepsRequest DEF clonePostProcess
  <2>2. "commit" \in WorkLabel
    BY DEF WorkLabel
  <2> QED
    BY <1>2, <2>1, <2>2, GotoGoesOn DEF clonePostProcess, at
<1>3. CASE cloneCommit(t)
  BY <1>3, FinalizeCourse DEF cloneCommit
<1> QED
  BY <1>1, <1>2, <1>3 DEF VoiceCloneStep

LEMMA CourseOfPipeline ==
  ASSUME NEW t, Working(t), pipelineStep(t)
  PROVE  Course(t)
BY BaseCourse, SongCourse, CoverCourse, VideoCourse, VoiceCloneCourse DEF pipelineStep


-----------------------------------------------------------------------------
(* Results come one way.                                                    *)
SingleDelivery == \A d \in Deliveries : d # {"webhook", "poller"}

(* The labels where nobody works.                                           *)
LEMMA WorkIsRunning ==
  ASSUME NEW t, works(t)
  PROVE  /\ running(t) /\ task[t].pc # "idle"
         /\ task[t].pc \notin {"find", "insert", "reserve", "apply", "next", "done", "dead"}
BY DEF works, WorkLabel, running

(* No deployment has both.                                                  *)
LEMMA NotBoth ==
  ASSUME SingleDelivery, SoleInv
  PROVE  "webhook" \notin delivery \/ "poller" \notin delivery
<1>1. delivery \in Deliveries /\ delivery \subseteq {"webhook", "poller"}
  BY DeliveryAssumption DEF SoleInv, RunnersKnown
<1>2. "webhook" \in delivery /\ "poller" \in delivery => delivery = {"webhook", "poller"}
  BY <1>1
<1> QED
  BY <1>1, <1>2 DEF SingleDelivery

(* Who works, and by which right.                                           *)
LEMMA WorkerKinds ==
  ASSUME SingleDelivery, JobInv, SoleInv, NEW t \in Task, works(t)
  PROVE  /\ jobOf(t) \in Job /\ exists(jobOf(t))
         /\ \/ /\ \E j \in Job : t = Api(j) /\ jobOf(t) = j
               /\ row[jobOf(t)].request = NoRequest /\ server = "serving"
            \/ /\ \E r \in Request : t = Hook(r) /\ row[jobOf(t)].request = r /\ event[r] # "none"
               /\ "webhook" \in delivery /\ server = "serving"
            \/ /\ t = Poller /\ row[jobOf(t)].request # NoRequest
               /\ "webhook" \notin delivery /\ server = "serving"
            \/ t = Recovery /\ row[jobOf(t)].request = NoRequest /\ server = "recovering"
<1>1. jobOf(t) \in Job /\ exists(jobOf(t)) /\ running(t) /\ task[t].pc # "idle"
  BY WorkIsRunning DEF JobInv, WorkersKnown, works
<1>2. "webhook" \notin delivery \/ "poller" \notin delivery
  BY NotBoth
<1>3. t # Recovery => server = "serving"
  BY <1>1 DEF SoleInv, RunnersKnown
<1>4. CASE \E j \in Job : t = Api(j)
  <2>1. PICK j \in Job : t = Api(j)
    BY <1>4
  <2>2. jobOf(t) = j
    BY <2>1 DEF JobInv, CallersKnown, works
  <2> QED
    BY <1>1, <1>3, <2>1, <2>2, TasksApart DEF SoleInv, PlacesKnown
<1>5. CASE \E r \in Request : t = Hook(r)
  BY <1>1, <1>3, <1>5, TasksApart DEF SoleInv, PlacesKnown, RunnersKnown
<1>6. CASE t = Poller
  BY <1>1, <1>2, <1>3, <1>6, TasksApart DEF SoleInv, PlacesKnown, RunnersKnown
<1>7. CASE t = Recovery
  BY <1>1, <1>7 DEF SoleInv, PlacesKnown, RunnersKnown
<1> QED
  BY <1>4, <1>5, <1>6, <1>7 DEF Task

(* No two work on one job.                                                  *)
LEMMA SoleWorker ==
  ASSUME SingleDelivery, JobInv, SoleInv, NEW s \in Task, NEW t \in Task,
         works(s), works(t), jobOf(s) = jobOf(t)
  PROVE  s = t
<1>1. NoRequest \notin Request
  BY RequestAssumption DEF NoRequest, Request
<1>2. CASE server # "serving"
  BY <1>2, WorkerKinds
<1>3. CASE row[jobOf(t)].request = NoRequest /\ server = "serving"
  <2>1. /\ \E j \in Job : t = Api(j) /\ jobOf(t) = j
        /\ \E j \in Job : s = Api(j) /\ jobOf(s) = j
    BY <1>1, <1>3, WorkerKinds
  <2> QED
    BY <2>1
<1>4. CASE row[jobOf(t)].request # NoRequest /\ "webhook" \in delivery /\ server = "serving"
  <2>1. /\ t = Hook(row[jobOf(t)].request)
        /\ s = Hook(row[jobOf(s)].request)
    BY <1>4, WorkerKinds
  <2> QED
    BY <2>1
<1>5. CASE row[jobOf(t)].request # NoRequest /\ "webhook" \notin delivery /\ server = "serving"
  BY <1>5, WorkerKinds
<1> QED
  BY <1>2, <1>3, <1>4, <1>5

(* Nobody works on a job of the batch.                                      *)
LEMMA WorkerOffBatch ==
  ASSUME SingleDelivery, JobInv, SoleInv, NEW t \in Task, works(t), NEW b \in batch
  PROVE  b.job # jobOf(t)
<1>1. NoRequest \notin Request
  BY RequestAssumption DEF NoRequest, Request
<1>2. \/ task[Poller].pc # "idle" /\ row[b.job].request # NoRequest
      \/ task[Recovery].pc # "idle" /\ row[b.job].request = NoRequest
  BY DEF SoleInv, BatchFresh
<1>3. t \in {Poller, Recovery} => b.job # jobOf(t)
  BY DEF SoleInv, BatchFresh
<1>4. task[Recovery].pc # "idle" => server = "recovering"
  BY DEF SoleInv, RunnersKnown
<1>5. task[Poller].pc # "idle" /\ t # Poller => "webhook" \notin delivery
  BY NotBoth DEF SoleInv, RunnersKnown
<1> QED
  BY <1>1, <1>2, <1>3, <1>4, <1>5, WorkerKinds

(* A job that ends is over: nobody but its worker could take it up.         *)
LEMMA EndsOver ==
  ASSUME SingleDelivery, JobInv, SoleInv, NEW t \in Task, works(t), Ends(t),
         event' = event, delivery' = delivery, NEW j, j = jobOf(t)
  PROVE  Over(j)'
<1>1. NoRequest \notin Request /\ \A r \in Request : after(Hook(r)) = "apply"
  BY RequestAssumption DEF NoRequest, Request, Hook, after
<1>2. row'[j].request = row[j].request /\ row'[j].status \in TerminalStatus
      /\ task'[t].pc = after(t)
  BY DEF Ends, RequestStays
<1>3. ASSUME NEW r \in Request, row'[j].request = r, "webhook" \in delivery
      PROVE  event[r] # "none" /\ task'[Hook(r)].pc # "find"
  <2>1. t = Hook(r) /\ event[r] # "none"
    BY <1>1, <1>2, <1>3, WorkerKinds
  <2> QED
    BY <1>1, <1>2, <2>1
<1> QED
  BY <1>2, <1>3 DEF Over, terminal, at


(* What a worker leaves to the others.                                      *)
WorksAlone(t) ==
  /\ \A s \in Task : s # t => task'[s] = task[s]
  /\ \A i \in Job : i # jobOf(t) => row'[i] = row[i]
  /\ task'[t].pc \in WorkLabel => task'[t].job = jobOf(t)
  /\ UNCHANGED <<event, batch, serverVars>>

(* Where a worker is after its step.                                        *)
LEMMA CourseLabel ==
  ASSUME NEW t \in Task, Course(t)
  PROVE  /\ GoesOn(t) => task'[t].pc \in WorkLabel
         /\ Leaves(t) \/ Ends(t) => task'[t].pc \notin WorkLabel
         /\ task'[t].pc # "find"
         /\ t \in {Poller, Recovery} => task'[t].pc # "idle"
<1>1. after(t) \in {"done", "apply", "next"}
  BY DEF after
<1>2. t \in {Poller, Recovery} => after(t) = "next"
  BY DEF after, Poller, Recovery
<1> QED
  BY <1>1, <1>2 DEF Course, GoesOn, Leaves, Ends, WorkLabel

(* A worker touches the products and the keys of its own job only.          *)
LEMMA CourseElsewhere ==
  ASSUME NEW t \in Task, Course(t), TableTypeOK, NEW i \in Job, i # jobOf(t)
  PROVE  /\ made'[i] = made[i]
         /\ captureKey(i) \in keys' <=> captureKey(i) \in keys
         /\ releaseKey(i) \in keys' <=> releaseKey(i) \in keys
<1>1. made \in [Job -> Nat]
  BY DEF TableTypeOK
<1> QED
  BY <1>1, KeysApart DEF Course, GoesOn, Leaves, Ends

(* A job another works on is not touched, and one that is over stays over.  *)
LEMMA OverStays ==
  ASSUME NEW t \in Task, Course(t), WorksAlone(t), NEW i \in Job, i # jobOf(t), Over(i)
  PROVE  Over(i)'
<1>1. row'[i] = row[i] /\ event' = event /\ delivery' = delivery
  BY DEF WorksAlone, serverVars
<1>2. ASSUME NEW r \in Request, task[Hook(r)].pc # "find" PROVE task'[Hook(r)].pc # "find"
  BY <1>2, CourseLabel, TasksApart DEF WorksAlone
<1> QED
  BY <1>1, <1>2 DEF Over, terminal, at

(* A worker does its work.                                                  *)
LEMMA WorkKeepsSole ==
  ASSUME SingleDelivery, JobInv, SoleInv, NEW t \in Task, works(t), Course(t), WorksAlone(t)
  PROVE  SoleInv'
<1> SUFFICES ASSUME NEW j, j = jobOf(t) PROVE SoleInv'
  OBVIOUS
<1>0. /\ \A s \in Task : s # t => task'[s] = task[s]
      /\ \A i \in Job : i # j => row'[i] = row[i]
      /\ task'[t].pc \in WorkLabel => task'[t].job = j
      /\ event' = event /\ batch' = batch /\ delivery' = delivery /\ server' = server
      /\ crashes' = crashes
      /\ j = jobOf(t) /\ j \in Job /\ running(t) /\ task[t].pc # "idle"
  BY WorkerKinds, WorkIsRunning DEF WorksAlone, serverVars
<1>1. RunnersKnown'
  <2>1. /\ delivery \in Deliveries /\ crashes \in Nat
        /\ \A r \in Request : task'[Hook(r)].pc \notin {"idle", "done", "dead"}
             => "webhook" \in delivery /\ event[r] # "none"
    BY <1>0, TasksApart DEF SoleInv, RunnersKnown, running
  <2>2. /\ task'[Poller].pc # "idle" => "poller" \in delivery
        /\ task'[Recovery].pc # "idle" => server = "recovering"
    BY <1>0, TasksApart DEF SoleInv, RunnersKnown
  <2>3. server # "serving" =>
          /\ crashes > 0 /\ task'[Poller].pc = "idle"
          /\ \A s \in Task \ {Recovery} : task'[s].pc \in {"idle", "done", "dead"}
    BY <1>0, TasksApart DEF SoleInv, RunnersKnown, running
  <2> QED
    BY <1>0, <2>1, <2>2, <2>3 DEF RunnersKnown, running
<1>2. ASSUME NEW s \in Task, task'[s].pc \in WorkLabel, s # t
      PROVE  works(s) /\ task'[s] = task[s] /\ task[s].job \in Job /\ task[s].job # j
  <2>1. task'[s] = task[s] /\ works(s)
    BY <1>0, <1>2 DEF works
  <2> QED
    BY <2>1, <1>2, SoleWorker, WorkerKinds DEF jobOf
<1>3. task'[t].pc \in WorkLabel => GoesOn(t) /\ task'[t].job = j
  BY <1>0, CourseLabel DEF Course
<1>4. PlacesKnown'
  <2> SUFFICES ASSUME NEW s \in Task, task'[s].pc \in WorkLabel
               PROVE  /\ works(s)
                      /\ task'[s].job = task[s].job
                      /\ row'[task'[s].job].request = row[task[s].job].request
                      /\ \A i \in Job : s = Api(i) => jobOf(s) = i
    BY TasksApart DEF SoleInv, PlacesKnown, works, jobOf
  <2>1. CASE s = t
    <3>1. \A i \in Job : s = Api(i) => jobOf(s) = i
      BY <2>1 DEF JobInv, CallersKnown, works
    <3>2. task'[s].job = task[s].job /\ row'[task[s].job].request = row[task[s].job].request
      BY <1>0, <1>3, <2>1 DEF GoesOn, RequestStays, jobOf
    <3> QED
      BY <2>1, <3>1, <3>2
  <2>2. CASE s # t
    <3>1. \A i \in Job : s = Api(i) => jobOf(s) = i
      BY <1>2, <2>2 DEF JobInv, CallersKnown, works
    <3> QED
      BY <1>0, <1>2, <2>2, <3>1
  <2> QED
    BY <2>1, <2>2
<1>5. BatchFresh'
  <2>1. \A b \in batch : b.job \in Job /\ row'[b.job] = row[b.job]
    BY <1>0, WorkerOffBatch DEF JobInv, BatchKnown, BatchEntry
  <2>2. /\ task[Poller].pc # "idle" => task'[Poller].pc # "idle"
        /\ task[Recovery].pc # "idle" => task'[Recovery].pc # "idle"
    BY <1>0, CourseLabel, TasksApart
  <2>3. ASSUME NEW b \in batch, NEW s \in {Poller, Recovery}, task'[s].pc \in WorkLabel
        PROVE  task'[s].job # b.job
    <3>1. CASE s = t
      BY <1>3, <2>3, <3>1, WorkerOffBatch
    <3>2. CASE s # t
      BY <1>2, <2>3, <3>2, TasksApart DEF SoleInv, BatchFresh, jobOf
    <3> QED
      BY <3>1, <3>2
  <2> QED
    BY <1>0, <2>1, <2>2, <2>3 DEF SoleInv, BatchFresh, active, works, jobOf
<1>6. made[j] = 0 /\ made \in [Job -> Nat]
  BY DEF SoleInv, ProductsKnown, JobInv, TableTypeOK
<1>7. Ends(t) => Over(j)'
  BY <1>0, EndsOver
<1>8. ~ Ends(t) => made' = made
  BY DEF Course, GoesOn, Leaves
<1>9. ProductsKnown'
  <2>1. ASSUME NEW s \in Task, task'[s].pc \in WorkLabel
        PROVE  made'[task'[s].job] = 0
    <3>1. CASE s = t
      BY <1>3, <1>6, <2>1, <3>1 DEF GoesOn
    <3>2. CASE s # t
      BY <1>2, <2>1, <3>2, CourseElsewhere DEF SoleInv, ProductsKnown, jobOf, JobInv
    <3> QED
      BY <3>1, <3>2
  <2>2. ASSUME NEW i \in Job, made'[i] > 0
        PROVE  made'[i] = 1 /\ Over(i)'
    <3>1. CASE i = j
      BY <1>0, <1>6, <1>7, <1>8, <2>2, <3>1 DEF Ends
    <3>2. CASE i # j
      BY <2>2, <3>2, CourseElsewhere, OverStays DEF SoleInv, ProductsKnown, JobInv
    <3> QED
      BY <3>1, <3>2
  <2> QED
    BY <2>1, <2>2 DEF ProductsKnown, works, jobOf
<1>10. PaymentsKnown'
  <2> SUFFICES ASSUME crashes = 0 PROVE PaymentsKnown'
    BY <1>0 DEF PaymentsKnown
  <2>0. /\ task[t].pc \notin {"look", "commit"} => captureKey(j) \notin keys
        /\ task[t].pc # "mark_failed" => releaseKey(j) \notin keys
        /\ captureKey(j) # releaseKey(j)
    BY KeysApart DEF SoleInv, PaymentsKnown
  <2>1. GoesOn(t) =>
          /\ task'[t].pc \notin {"look", "commit"} => captureKey(j) \notin keys'
          /\ task'[t].pc # "mark_failed" => releaseKey(j) \notin keys'
    BY <2>0 DEF GoesOn
  <2>2. ASSUME NEW s \in Task, task'[s].pc \in WorkLabel
        PROVE  /\ task'[s].pc \notin {"look", "commit"} => captureKey(task'[s].job) \notin keys'
               /\ task'[s].pc # "mark_failed" => releaseKey(task'[s].job) \notin keys'
    <3>1. CASE s = t
      BY <1>3, <2>1, <2>2, <3>1
    <3>2. CASE s # t
      BY <1>2, <2>2, <3>2, CourseElsewhere DEF SoleInv, PaymentsKnown, jobOf, JobInv
    <3> QED
      BY <3>1, <3>2
  <2>3. ASSUME NEW i \in Job
        PROVE  /\ captureKey(i) \notin keys' \/ releaseKey(i) \notin keys'
               /\ captureKey(i) \in keys' \/ releaseKey(i) \in keys'
                    => Over(i)' \/ \E s \in Task : task'[s].pc \in WorkLabel /\ task'[s].job = i
    <3>1. CASE i # j
      <4>1. /\ captureKey(i) \in keys' <=> captureKey(i) \in keys
            /\ releaseKey(i) \in keys' <=> releaseKey(i) \in keys
        BY <3>1, CourseElsewhere DEF JobInv
      <4>2. Over(i) => Over(i)'
        BY <3>1, OverStays
      <4>3. ASSUME NEW s \in Task, works(s), jobOf(s) = i
            PROVE  task'[s].pc \in WorkLabel /\ task'[s].job = i
        BY <1>0, <3>1, <4>3 DEF works, jobOf
      <4> QED
        BY <4>1, <4>2, <4>3 DEF SoleInv, PaymentsKnown
    <3>2. CASE i = j /\ GoesOn(t)
      BY <1>3, <2>1, <3>2 DEF GoesOn
    <3>3. CASE i = j /\ Leaves(t)
      BY <2>0, <3>3 DEF Leaves
    <3>4. CASE i = j /\ Ends(t)
      BY <1>7, <3>4 DEF Ends, SoleInv, PaymentsKnown
    <3> QED
      BY <3>1, <3>2, <3>3, <3>4 DEF Course
  <2> QED
    BY <2>2, <2>3 DEF PaymentsKnown, works, jobOf
<1> QED
  BY <1>1, <1>4, <1>5, <1>9, <1>10 DEF SoleInv


(* The keys of the settlements are what they were.                          *)
JobKeysStay ==
  \A j \in Job : /\ captureKey(j) \in keys' <=> captureKey(j) \in keys
                 /\ releaseKey(j) \in keys' <=> releaseKey(j) \in keys

(* What every step but those of the workers leaves alone.                   *)
WorkStays ==
  /\ made' = made /\ delivery' = delivery /\ crashes' = crashes
  /\ JobKeysStay
  /\ \A r \in Request : event[r] # "none" => event'[r] # "none"

(* Nobody takes up a job.                                                   *)
LEMMA NoEntryKeepsSole ==
  ASSUME JobInv, SoleInv, WorkStays, row' = row, RunnersKnown', BatchFresh',
         \A s \in Task : task'[s] = task[s] \/ (~ works(s) /\ task'[s].pc \notin WorkLabel),
         \A r \in Request : task'[Hook(r)].pc = "find" =>
           task[Hook(r)].pc = "find" \/ (event[r] = "none" /\ "webhook" \in delivery)
  PROVE  SoleInv'
<1>1. \A s \in Task : /\ task'[s].pc \in WorkLabel => works(s) /\ task'[s] = task[s]
                      /\ works(s) => task'[s] = task[s]
  BY DEF works
<1>2. PlacesKnown'
  BY <1>1, TasksApart DEF SoleInv, PlacesKnown, works, jobOf
<1>3. ASSUME NEW j \in Job, Over(j) PROVE Over(j)'
  BY <1>3 DEF Over, terminal, at, WorkStays
<1>4. ProductsKnown'
  BY <1>1, <1>3 DEF SoleInv, ProductsKnown, works, jobOf, WorkStays
<1>5. PaymentsKnown'
  <2> SUFFICES ASSUME crashes = 0 PROVE PaymentsKnown'
    BY DEF PaymentsKnown, WorkStays
  <2>1. ASSUME NEW s \in Task, task'[s].pc \in WorkLabel
        PROVE  /\ task'[s].pc \notin {"look", "commit"} => captureKey(task'[s].job) \notin keys'
               /\ task'[s].pc # "mark_failed" => releaseKey(task'[s].job) \notin keys'
    <3>1. works(s) /\ task'[s] = task[s] /\ jobOf(s) \in Job
      BY <1>1, <2>1 DEF JobInv, WorkersKnown, works
    <3> QED
      BY <3>1 DEF SoleInv, PaymentsKnown, WorkStays, JobKeysStay, jobOf
  <2>2. ASSUME NEW i \in Job
        PROVE  /\ captureKey(i) \notin keys' \/ releaseKey(i) \notin keys'
               /\ captureKey(i) \in keys' \/ releaseKey(i) \in keys'
                    => Over(i)' \/ \E s \in Task : task'[s].pc \in WorkLabel /\ task'[s].job = i
    <3>1. ASSUME NEW s \in Task, works(s), jobOf(s) = i
          PROVE  task'[s].pc \in WorkLabel /\ task'[s].job = i
      BY <1>1, <3>1 DEF works, jobOf
    <3> QED
      BY <1>3, <3>1 DEF SoleInv, PaymentsKnown, WorkStays, JobKeysStay
  <2> QED
    BY <2>1, <2>2 DEF PaymentsKnown, works, jobOf
<1> QED
  BY <1>2, <1>4, <1>5 DEF SoleInv

(* By which right a coroutine takes up a job.                               *)
Entitled(s, j) ==
  /\ \A i \in Job : s = Api(i) => i = j /\ row[j].request = NoRequest
  /\ \A r \in Request : s = Hook(r) => row[j].request = r
  /\ s = Poller => row[j].request # NoRequest
  /\ s = Recovery => row[j].request = NoRequest

(* One takes up a job nobody works on and nobody is done with.              *)
LEMMA EntryKeepsSole ==
  ASSUME JobInv, SoleInv, WorkStays, RunnersKnown', BatchFresh',
         NEW s \in Task, ~ works(s), NEW j \in Job, Entitled(s, j), ~ Over(j),
         \A t \in Task : works(t) => jobOf(t) # j,
         task'[s].pc \in WorkLabel \ {"look", "commit", "mark_failed"}, task'[s].job = j,
         \A t \in Task : t # s => task'[t] = task[t],
         \A i \in Job : i # j => row'[i] = row[i],
         row'[j].request = row[j].request
  PROVE  SoleInv'
<1>1. ASSUME NEW t \in Task, task'[t].pc \in WorkLabel, t # s
      PROVE  works(t) /\ task'[t] = task[t] /\ jobOf(t) \in Job /\ jobOf(t) # j
  BY <1>1 DEF works, JobInv, WorkersKnown
<1>2. PlacesKnown'
  <2>1. ASSUME NEW i \in Job, task'[Api(i)].pc \in WorkLabel
        PROVE  row'[i].request = NoRequest
    <3>1. CASE Api(i) = s
      BY <3>1 DEF Entitled
    <3>2. CASE Api(i) # s
      <4>1. Api(i) \in Task /\ works(Api(i)) /\ jobOf(Api(i)) # j
        BY <1>1, <2>1, <3>2, TasksApart
      <4>2. jobOf(Api(i)) = i
        BY <4>1 DEF JobInv, CallersKnown, works
      <4> QED
        BY <4>1, <4>2 DEF SoleInv, PlacesKnown
    <3> QED
      BY <3>1, <3>2
  <2>2. ASSUME NEW r \in Request, task'[Hook(r)].pc \in WorkLabel
        PROVE  row'[task'[Hook(r)].job].request = r
    BY <1>1, <2>2, TasksApart DEF Entitled, SoleInv, PlacesKnown, jobOf
  <2>3. /\ task'[Poller].pc \in WorkLabel => row'[task'[Poller].job].request # NoRequest
        /\ task'[Recovery].pc \in WorkLabel => row'[task'[Recovery].job].request = NoRequest
    BY <1>1, TasksApart DEF Entitled, SoleInv, PlacesKnown, jobOf
  <2> QED
    BY <2>1, <2>2, <2>3 DEF PlacesKnown, works, jobOf
<1>3. ASSUME NEW i \in Job, Over(i) PROVE Over(i)'
  <2>1. i # j /\ row'[i] = row[i]
    BY <1>3
  <2>2. "find" \notin WorkLabel
    BY DEF WorkLabel
  <2>3. \A r \in Request : task[Hook(r)].pc # "find" => task'[Hook(r)].pc # "find"
    BY <2>2, TasksApart
  <2> QED
    BY <1>3, <2>1, <2>3 DEF Over, terminal, at, WorkStays
<1>4. made[j] = 0
  BY DEF SoleInv, ProductsKnown, JobInv, TableTypeOK
<1>5. ProductsKnown'
  BY <1>1, <1>3, <1>4 DEF SoleInv, ProductsKnown, works, jobOf, WorkStays
<1>6. PaymentsKnown'
  <2> SUFFICES ASSUME crashes = 0 PROVE PaymentsKnown'
    BY DEF PaymentsKnown, WorkStays
  <2>0. captureKey(j) \notin keys' /\ releaseKey(j) \notin keys'
    BY DEF SoleInv, PaymentsKnown, WorkStays, JobKeysStay
  <2>1. ASSUME NEW t \in Task, task'[t].pc \in WorkLabel
        PROVE  /\ task'[t].pc \notin {"look", "commit"} => captureKey(task'[t].job) \notin keys'
               /\ task'[t].pc # "mark_failed" => releaseKey(task'[t].job) \notin keys'
    <3>1. CASE t = s
      BY <2>0, <3>1
    <3>2. CASE t # s
      BY <1>1, <2>1, <3>2 DEF SoleInv, PaymentsKnown, WorkStays, JobKeysStay, jobOf
    <3> QED
      BY <3>1, <3>2
  <2>2. ASSUME NEW i \in Job
        PROVE  /\ captureKey(i) \notin keys' \/ releaseKey(i) \notin keys'
               /\ captureKey(i) \in keys' \/ releaseKey(i) \in keys'
                    => Over(i)' \/ \E t \in Task : task'[t].pc \in WorkLabel /\ task'[t].job = i
    <3>1. ASSUME NEW t \in Task, works(t), jobOf(t) = i
          PROVE  task'[t].pc \in WorkLabel /\ task'[t].job = i
      BY <3>1 DEF works, jobOf
    <3> QED
      BY <1>3, <3>1 DEF SoleInv, PaymentsKnown, WorkStays, JobKeysStay
  <2> QED
    BY <2>1, <2>2 DEF PaymentsKnown, works, jobOf
<1> QED
  BY <1>2, <1>5, <1>6 DEF SoleInv


(* A running coroutine goes on, or one starts while the server serves.      *)
LEMMA RunnersStay ==
  ASSUME SoleInv, UNCHANGED serverVars, NEW s \in Task,
         \A r \in Request : event[r] # "none" => event'[r] # "none",
         \A t \in Task : t # s => task'[t] = task[t],
         running(s) \/ server = "serving",
         \A r \in Request : s = Hook(r) => running(s) \/ ("webhook" \in delivery /\ event'[r] # "none"),
         s = Poller => task[s].pc # "idle" \/ "poller" \in delivery,
         s = Recovery => task[s].pc # "idle"
  PROVE  RunnersKnown'
<1>0. delivery' = delivery /\ server' = server /\ crashes' = crashes
  BY DEF serverVars
<1>1. ASSUME NEW r \in Request, task'[Hook(r)].pc \notin {"idle", "done", "dead"}
      PROVE  "webhook" \in delivery /\ event'[r] # "none"
  BY <1>1, TasksApart DEF SoleInv, RunnersKnown, running
<1>2. /\ task'[Poller].pc # "idle" => "poller" \in delivery
      /\ task'[Recovery].pc # "idle" => server = "recovering"
  BY TasksApart DEF SoleInv, RunnersKnown
<1>3. server # "serving" =>
        /\ crashes > 0 /\ task'[Poller].pc = "idle"
        /\ \A t \in Task \ {Recovery} : task'[t].pc \in {"idle", "done", "dead"}
  BY TasksApart DEF SoleInv, RunnersKnown, running
<1> QED
  BY <1>0, <1>1, <1>2, <1>3 DEF SoleInv, RunnersKnown, running

(* The batch while neither the poller nor the recovery moves.               *)
LEMMA BatchFreshStays ==
  ASSUME SoleInv, batch' \subseteq batch, \A b \in batch' : row'[b.job] = row[b.job],
         task'[Poller] = task[Poller], task'[Recovery] = task[Recovery]
  PROVE  BatchFresh'
BY DEF SoleInv, BatchFresh, active, works, jobOf

(* Its caller and nobody else knows a job that has no row.                  *)
LEMMA NoRowNoWork ==
  ASSUME JobInv, SoleInv, NEW j \in Job, ~ exists(j)
  PROVE  /\ \A t \in Task : works(t) => jobOf(t) # j
         /\ \A b \in batch : b.job # j
         /\ ~ Over(j) /\ row[j].request = NoRequest
<1>1. row[j].status = "absent"
  BY DEF exists
<1> QED
  BY <1>1
     DEF JobInv, WorkersKnown, BatchKnown, BatchEntry, RowsKnown, works, exists, Over, terminal,
         TerminalStatus

LEMMA CreateJobKeepsSole ==
  ASSUME SingleDelivery, JobInv, SoleInv, NEW j \in Job, createJob(j), UNCHANGED serverVars
  PROVE  SoleInv'
<1>0. /\ Api(j) \in Task /\ Api(j) # Poller /\ Api(j) # Recovery /\ batch' = batch
      /\ \A r \in Request : Api(j) # Hook(r)
      /\ task \in [Task -> TaskRecord] /\ row \in [Job -> RowRecord]
      /\ delivery' = delivery /\ crashes' = crashes /\ server' = server
  BY TasksApart DEF JobInv, PipelineTypeOK, TableTypeOK, createJob, serverVars
<1>1. /\ \A t \in Task : t # Api(j) => task'[t] = task[t]
      /\ made' = made /\ event' = event
  BY <1>0 DEF createJob, lookupKey, reserveCredits, insertJob, startPipeline, goto, tableVars
<1>2. server = "serving" \/ running(Api(j))
  BY DEF createJob, lookupKey, reserveCredits, insertJob, startPipeline, at, running
<1>3. RunnersKnown'
  BY <1>0, <1>1, <1>2, RunnersStay
<1>4. JobKeysStay
  BY KeysApart
     DEF createJob, lookupKey, reserveCredits, insertJob, startPipeline, reserve, appendEntry,
         walletVars, JobKeysStay
<1>5. WorkStays
  BY <1>0, <1>1, <1>4 DEF WorkStays
<1>6. ASSUME row' = row, ~ works(Api(j)), task'[Api(j)].pc \notin WorkLabel
      PROVE  SoleInv'
  <2>1. BatchFresh'
    BY <1>0, <1>1, <1>6, BatchFreshStays, TasksApart
  <2> QED
    BY <1>0, <1>1, <1>3, <1>5, <1>6, <2>1, NoEntryKeepsSole, TasksApart
<1>7. CASE lookupKey(j)
  <2>1. /\ task[Api(j)].pc = "idle" /\ task'[Api(j)].pc \in {"reserve", "done"} /\ row' = row
    BY <1>0, <1>7 DEF lookupKey, at, tableVars, TaskRecord
  <2> QED
    BY <1>6, <2>1 DEF works, WorkLabel
<1>8. CASE reserveCredits(j)
  <2>1. /\ task[Api(j)].pc = "reserve" /\ task'[Api(j)].pc \in {"insert", "done"} /\ row' = row
    BY <1>0, <1>8 DEF reserveCredits, goto, at, tableVars, TaskRecord
  <2> QED
    BY <1>6, <2>1 DEF works, WorkLabel
<1>9. CASE insertJob(j)
  <2>0. task[Api(j)].pc = "insert" /\ ~ works(Api(j)) /\ ~ exists(j) /\ jobOf(Api(j)) = j
    BY <1>9 DEF insertJob, at, works, WorkLabel, JobInv, CallersKnown
  <2>1. CASE row' = row /\ goto(Api(j), "done")
    <3>1. task'[Api(j)].pc = "done"
      BY <1>0, <2>1 DEF goto, TaskRecord
    <3> QED
      BY <1>6, <2>0, <2>1, <3>1 DEF WorkLabel
  <2>2. CASE (\E k \in Kinds : create(j, k)) /\ goto(Api(j), "start")
    <3>1. task'[Api(j)].pc = "start" /\ task'[Api(j)].job = j
      BY <1>0, <2>0, <2>2 DEF goto, TaskRecord, jobOf
    <3>2. "start" \in WorkLabel \ {"look", "commit", "mark_failed"}
      BY DEF WorkLabel
    <3>3. /\ \A i \in Job : i # j => row'[i] = row[i]
          /\ row'[j].request = row[j].request
      BY <1>0, <2>2 DEF create, RowRecord
    <3>4. BatchFresh'
      <4>1. \A b \in batch : b.job \in Job
        BY DEF JobInv, BatchKnown, BatchEntry
      <4> QED
        BY <1>0, <1>1, <2>0, <3>3, <4>1, BatchFreshStays, NoRowNoWork, TasksApart
    <3>5. Entitled(Api(j), j)
      BY <2>0, NoRowNoWork, TasksApart DEF Entitled
    <3> QED
      BY <1>0, <1>1, <1>3, <1>5, <2>0, <3>1, <3>2, <3>3, <3>4, <3>5, NoRowNoWork,
         EntryKeepsSole
  <2> QED
    BY <1>9, <2>1, <2>2 DEF insertJob
<1>10. CASE startPipeline(j)
  <2>1. task[Api(j)].pc = "start" /\ works(Api(j)) /\ jobOf(Api(j)) = j
    BY <1>10 DEF startPipeline, at, works, WorkLabel, JobInv, CallersKnown
  <2>2. task'[Api(j)].pc = "submit" /\ task'[Api(j)].job = j
    BY <1>0, <1>10, <2>1 DEF startPipeline, goto, TaskRecord, jobOf
  <2>3. /\ \A i \in Job : i # j => row'[i] = row[i]
        /\ row'[j].request = row[j].request
    BY <1>0, <1>10 DEF startPipeline, set_status, RowRecord
  <2>4. WorksAlone(Api(j))
    BY <1>0, <1>1, <2>1, <2>2, <2>3 DEF WorksAlone, serverVars
  <2>5. Course(Api(j))
    BY <1>10, <2>1, <2>2, <2>3
       DEF startPipeline, Course, GoesOn, RequestStays, WorkLabel, walletVars
  <2> QED
    BY <1>0, <2>1, <2>4, <2>5, WorkKeepsSole
<1> QED
  BY <1>7, <1>8, <1>9, <1>10 DEF createJob


LEMMA WebhookKeepsSole ==
  ASSUME SingleDelivery, JobInv, SoleInv, NEW r \in Request, webhook(r), UNCHANGED serverVars
  PROVE  SoleInv'
<1>0. /\ Hook(r) \in Task /\ Hook(r) # Poller /\ Hook(r) # Recovery /\ batch' = batch
      /\ \A j \in Job : Hook(r) # Api(j)
      /\ \A i \in Request : Hook(r) = Hook(i) => i = r
      /\ task \in [Task -> TaskRecord] /\ event \in [Request -> {"none", "received", "applied"}]
      /\ delivery' = delivery /\ crashes' = crashes /\ server' = server
  BY TasksApart DEF JobInv, PipelineTypeOK, TableTypeOK, webhook, serverVars
<1>1. /\ \A t \in Task : t # Hook(r) => task'[t] = task[t]
      /\ row' = row /\ made' = made /\ keys' = keys
  BY <1>0 DEF webhook, claimEvent, findJob, eventApplied, goto, tableVars, walletVars
<1>2. WorkStays
  BY <1>0, <1>1
     DEF webhook, claimEvent, findJob, eventApplied, try_record, mark_applied, tableVars,
         WorkStays, JobKeysStay
<1>3. /\ running(Hook(r)) \/ claimEvent(r)
      /\ claimEvent(r) => "webhook" \in delivery /\ event'[r] = "received" /\ server = "serving"
      /\ ~ works(Hook(r))
  BY <1>0
     DEF webhook, claimEvent, findJob, eventApplied, try_record, at, running, works, WorkLabel
<1>4. RunnersKnown'
  <2>1. running(Hook(r)) => server = "serving"
    BY <1>0 DEF SoleInv, RunnersKnown
  <2> QED
    BY <1>0, <1>1, <1>2, <1>3, <2>1, RunnersStay DEF WorkStays
<1>5. BatchFresh'
  BY <1>0, <1>1, BatchFreshStays, TasksApart
<1>6. CASE claimEvent(r)
  <2>1. task'[Hook(r)].pc = "find" /\ event[r] = "none" /\ "webhook" \in delivery
    BY <1>0, <1>6 DEF claimEvent, goto, try_record, TaskRecord
  <2> QED
    BY <1>0, <1>1, <1>2, <1>3, <1>4, <1>5, <2>1, NoEntryKeepsSole, TasksApart DEF WorkLabel
<1>7. CASE (findJob(r) /\ find_by_request_id(r) = {}) \/ eventApplied(r)
  <2>1. task'[Hook(r)].pc = "done"
    BY <1>0, <1>7 DEF findJob, eventApplied, goto, TaskRecord
  <2> QED
    BY <1>0, <1>1, <1>2, <1>3, <1>4, <1>5, <2>1, NoEntryKeepsSole, TasksApart DEF WorkLabel
<1>8. ASSUME findJob(r), NEW j \in find_by_request_id(r),
             task' = [task EXCEPT ![Hook(r)].pc = "load", ![Hook(r)].job = j,
                                  ![Hook(r)].stage = row[j].stage,
                                  ![Hook(r)].result = fal[r].state]
      PROVE  SoleInv'
  <2>1. j \in Job /\ row[j].request = r /\ r # NoRequest
    BY RequestAssumption DEF find_by_request_id, NoRequest, Request
  <2>2. task'[Hook(r)].pc = "load" /\ task'[Hook(r)].job = j
    BY <1>0, <1>8 DEF TaskRecord
  <2>3. "load" \in WorkLabel \ {"look", "commit", "mark_failed"}
    BY DEF WorkLabel
  <2>4. at(Hook(r), "find") /\ running(Hook(r)) /\ "webhook" \in delivery /\ server = "serving"
    BY <1>0, <1>8 DEF findJob, at, running, SoleInv, RunnersKnown
  <2>5. ~ Over(j)
    BY <2>1, <2>4 DEF Over
  <2>6. ASSUME NEW t \in Task, works(t) PROVE jobOf(t) # j
    BY <1>3, <2>1, <2>4, <2>6, WorkerKinds
  <2>7. Entitled(Hook(r), j)
    BY <1>0, <2>1 DEF Entitled
  <2>8. row'[j].request = row[j].request /\ \A i \in Job : i # j => row'[i] = row[i]
    BY <1>1
  <2> QED
    BY <1>0, <1>1, <1>2, <1>3, <1>4, <1>5, <2>1, <2>2, <2>3, <2>5, <2>6, <2>7, <2>8,
       EntryKeepsSole
<1> QED
  BY <1>6, <1>7, <1>8 DEF webhook, findJob

(* A step that moves no coroutine.                                          *)
LEMMA StillKeepsSole ==
  ASSUME JobInv, SoleInv, WorkStays, UNCHANGED serverVars, row' = row, event' = event,
         task' = task, batch' \subseteq batch
  PROVE  SoleInv'
<1>1. RunnersKnown'
  BY DEF SoleInv, RunnersKnown, serverVars, running
<1>2. BatchFresh'
  BY BatchFreshStays
<1> QED
  BY <1>1, <1>2, NoEntryKeepsSole

LEMMA PollKeepsSole ==
  ASSUME SingleDelivery, JobInv, SoleInv, poll, UNCHANGED serverVars
  PROVE  SoleInv'
<1>0. /\ Poller \in Task /\ Poller # Recovery /\ Recovery \in Task
      /\ \A j \in Job : Poller # Api(j)
      /\ \A i \in Request : Poller # Hook(i)
      /\ task \in [Task -> TaskRecord]
      /\ delivery' = delivery /\ crashes' = crashes /\ server' = server
  BY TasksApart DEF JobInv, PipelineTypeOK, serverVars
<1>1. /\ \A t \in Task : t # Poller => task'[t] = task[t]
      /\ row' = row /\ made' = made /\ keys' = keys /\ event' = event
  BY <1>0
     DEF poll, pollActive, pollAnswered, pollSkipped, pollEnds, goto, tableVars, walletVars
<1>2. WorkStays
  BY <1>0, <1>1 DEF WorkStays, JobKeysStay
<1>3. /\ task[Poller].pc \in {"idle", "next"} /\ ~ works(Poller)
      /\ task[Poller].pc = "idle" => "poller" \in delivery /\ server = "serving"
      /\ task[Poller].pc # "idle" => running(Poller)
  BY DEF poll, pollActive, pollAnswered, pollSkipped, pollEnds, at, works, WorkLabel, running
<1>4. server = "serving" /\ task[Recovery].pc = "idle"
  BY <1>0, <1>3 DEF SoleInv, RunnersKnown
<1>5. RunnersKnown'
  BY <1>0, <1>1, <1>3, <1>4, RunnersStay
<1>6. CASE pollActive
  <2>1. task'[Poller].pc = "next"
    BY <1>0, <1>6 DEF pollActive, goto, TaskRecord
  <2>2. PICK S \in SUBSET list_active_with_request :
          batch' = {[job |-> j, stage |-> row[j].stage, request |-> row[j].request] : j \in S}
    BY <1>6 DEF pollActive
  <2>3. ASSUME NEW b \in batch'
        PROVE  /\ b = [job |-> b.job, stage |-> row[b.job].stage, request |-> row[b.job].request]
               /\ row[b.job].status \in ActiveStatus /\ row[b.job].request # NoRequest
    BY <2>2 DEF list_active_with_request, active
  <2>4. BatchFresh'
    <3>1. task'[Poller].pc \notin WorkLabel /\ task'[Recovery].pc \notin WorkLabel
      BY <1>0, <1>1, <1>4, <2>1 DEF WorkLabel
    <3> QED
      BY <1>1, <2>1, <2>3, <3>1 DEF BatchFresh, active, works
  <2> QED
    BY <1>0, <1>1, <1>2, <1>3, <1>5, <2>1, <2>4, NoEntryKeepsSole, TasksApart DEF WorkLabel
<1>7. CASE pollEnds
  <2>1. task'[Poller].pc = "idle" /\ batch' = {}
    BY <1>0, <1>7 DEF pollEnds, goto, TaskRecord
  <2>2. BatchFresh'
    BY <2>1 DEF BatchFresh
  <2> QED
    BY <1>0, <1>1, <1>2, <1>3, <1>5, <2>1, <2>2, NoEntryKeepsSole, TasksApart DEF WorkLabel
<1>8. ASSUME NEW b \in batch, pollSkipped(b)
      PROVE  SoleInv'
  BY <1>1, <1>2, <1>8, StillKeepsSole DEF pollSkipped
<1>9. ASSUME NEW b \in batch, pollAnswered(b)
      PROVE  SoleInv'
  <2>1. /\ task'[Poller].pc = "load" /\ task'[Poller].job = b.job
        /\ task[Poller].pc = "next" /\ batch' = batch \ {b}
    BY <1>0, <1>9 DEF pollAnswered, TaskRecord, at
  <2>2. "load" \in WorkLabel \ {"look", "commit", "mark_failed"}
    BY DEF WorkLabel
  <2>3. b.job \in Job /\ row[b.job].request # NoRequest /\ active(b.job)
    BY <1>4 DEF JobInv, BatchKnown, BatchEntry, SoleInv, BatchFresh
  <2>4. ~ Over(b.job)
    BY <2>3 DEF Over, active, terminal, ActiveStatus, TerminalStatus
  <2>5. \A t \in Task : works(t) => jobOf(t) # b.job
    BY WorkerOffBatch
  <2>6. Entitled(Poller, b.job)
    BY <1>0, <2>3 DEF Entitled
  <2>7. BatchFresh'
    <3>1. task'[Recovery] = task[Recovery] /\ task[Recovery].pc \notin WorkLabel
      BY <1>0, <1>1, <1>4 DEF WorkLabel
    <3>2. \A c \in batch' : c \in batch /\ c.job # b.job
      BY <2>1 DEF SoleInv, BatchFresh
    <3>3. ASSUME NEW c \in batch'
          PROVE  /\ row'[c.job].status \in ActiveStatus
                 /\ task'[Poller].pc # "idle" /\ row'[c.job].request # NoRequest
                 /\ \A t \in {Poller, Recovery} :
                      task'[t].pc \in WorkLabel => task'[t].job # c.job
      BY <1>1, <1>4, <2>1, <3>1, <3>2 DEF SoleInv, BatchFresh, active
    <3> QED
      BY <3>2, <3>3 DEF SoleInv, BatchFresh, active, works, jobOf
  <2>8. row'[b.job].request = row[b.job].request /\ \A i \in Job : i # b.job => row'[i] = row[i]
    BY <1>1
  <2> QED
    BY <1>0, <1>1, <1>2, <1>3, <1>5, <2>1, <2>2, <2>3, <2>4, <2>5, <2>6, <2>7, <2>8,
       EntryKeepsSole
<1> QED
  BY <1>6, <1>7, <1>8, <1>9 DEF poll


(* A crash ends all work, and the claim of a single settlement with it.     *)
LEMMA CrashKeepsSole ==
  ASSUME JobInv, SoleInv, Crash
  PROVE  SoleInv'
<1>0. /\ task' = [t \in Task |->
                    IF t \in {Poller, Recovery} THEN Fresh
                    ELSE IF running(t) THEN [Fresh EXCEPT !.pc = "dead"] ELSE task[t]]
      /\ row' = row /\ made' = made /\ event' = event /\ batch' = {}
      /\ delivery' = delivery /\ server' = "down" /\ crashes' = crashes + 1 /\ crashes \in Nat
  BY DEF Crash, tableVars, SoleInv, RunnersKnown
<1>1. /\ \A t \in Task : /\ task'[t].pc \in {"idle", "done", "dead"}
                         /\ task'[t].pc = "idle" => task[t].pc = "idle" \/ t \in {Poller, Recovery}
      /\ task'[Poller].pc = "idle" /\ task'[Recovery].pc = "idle"
  <2>1. \A t \in Task : ~ running(t) => task[t].pc \in {"idle", "done", "dead"}
    BY DEF running
  <2> QED
    BY <1>0, <2>1, TasksApart DEF Fresh
<1>2. RunnersKnown'
  BY <1>0, <1>1, TasksApart DEF SoleInv, RunnersKnown, running
<1>3. \A t \in Task : task'[t].pc \notin WorkLabel
  BY <1>1 DEF WorkLabel
<1>4. PlacesKnown' /\ BatchFresh'
  BY <1>0, <1>3, TasksApart DEF PlacesKnown, BatchFresh, works
<1>5. ASSUME NEW j \in Job, Over(j) PROVE Over(j)'
  BY <1>0, <1>1, <1>5, TasksApart DEF Over, terminal, at
<1>6. ProductsKnown'
  BY <1>0, <1>3, <1>5 DEF SoleInv, ProductsKnown, works
<1>7. PaymentsKnown'
  BY <1>0 DEF PaymentsKnown
<1> QED
  BY <1>2, <1>4, <1>6, <1>7 DEF SoleInv

(* The recovery, alone before the server serves.                            *)
LEMMA RecoveryKeepsSole ==
  ASSUME SingleDelivery, JobInv, SoleInv, Restart \/ recoverNext \/ Serve
  PROVE  SoleInv'
<1>0. /\ Recovery \in Task /\ Poller \in Task /\ Poller # Recovery
      /\ \A j \in Job : Recovery # Api(j)
      /\ \A i \in Request : Recovery # Hook(i)
      /\ task \in [Task -> TaskRecord]
      /\ delivery' = delivery /\ crashes' = crashes
  BY TasksApart DEF JobInv, PipelineTypeOK, Restart, recoverNext, Serve, serverVars
<1>1. /\ \A t \in Task : t # Recovery => task'[t] = task[t]
      /\ row' = row /\ made' = made /\ keys' = keys /\ event' = event
  BY <1>0 DEF Restart, recoverNext, Serve, goto, tableVars, walletVars
<1>2. WorkStays
  BY <1>0, <1>1 DEF WorkStays, JobKeysStay
<1>3. /\ server # "serving" /\ task[Poller].pc = "idle" /\ crashes > 0
      /\ \A t \in Task \ {Recovery} : ~ running(t)
      /\ ~ works(Recovery)
  <2>1. server # "serving"
    BY DEF Restart, recoverNext, Serve, at, SoleInv, RunnersKnown
  <2>2. ~ works(Recovery)
    <3>1. CASE Restart
      BY <3>1 DEF Restart, SoleInv, RunnersKnown, works, WorkLabel
    <3>2. CASE recoverNext \/ Serve
      BY <3>2 DEF recoverNext, Serve, at, works, WorkLabel
    <3> QED
      BY <3>1, <3>2
  <2> QED
    BY <2>1, <2>2 DEF SoleInv, RunnersKnown
<1>4. \A t \in Task : ~ works(t)
  BY <1>3, WorkIsRunning
<1>5. CASE Restart
  <2>1. task'[Recovery].pc = "next" /\ server' = "recovering"
    BY <1>0, <1>5 DEF Restart, goto, TaskRecord
  <2>2. RunnersKnown'
    <3>1. \A t \in Task \ {Recovery} : task'[t].pc \in {"idle", "done", "dead"}
      BY <1>1, <1>3 DEF running
    <3> QED
      BY <1>0, <1>1, <1>3, <2>1, <3>1, TasksApart DEF SoleInv, RunnersKnown, running
  <2>3. ASSUME NEW b \in batch'
        PROVE  /\ b = [job |-> b.job, stage |-> row[b.job].stage, request |-> NoRequest]
               /\ row[b.job].status \in ActiveStatus /\ row[b.job].request = NoRequest
    BY <1>5 DEF Restart, list_orphans, ActiveStatus
  <2>4. BatchFresh'
    <3>1. task'[Poller].pc \notin WorkLabel /\ task'[Recovery].pc \notin WorkLabel
      BY <1>0, <1>1, <1>3, <2>1 DEF WorkLabel
    <3> QED
      BY <1>1, <2>1, <2>3, <3>1 DEF BatchFresh, active, works
  <2> QED
    BY <1>0, <1>1, <1>2, <1>4, <2>1, <2>2, <2>4, NoEntryKeepsSole, TasksApart DEF WorkLabel
<1>6. CASE Serve
  <2>1. task'[Recovery].pc = "idle" /\ server' = "serving" /\ batch' = {}
    BY <1>0, <1>6 DEF Serve, goto, TaskRecord
  <2>2. RunnersKnown'
    BY <1>0, <1>1, <1>3, <2>1, TasksApart DEF SoleInv, RunnersKnown, running
  <2>3. BatchFresh'
    BY <2>1 DEF BatchFresh
  <2> QED
    BY <1>0, <1>1, <1>2, <1>4, <2>1, <2>2, <2>3, NoEntryKeepsSole, TasksApart DEF WorkLabel
<1>7. ASSUME recoverNext, NEW b \in batch,
             task' = [task EXCEPT ![Recovery].pc = "release", ![Recovery].job = b.job],
             batch' = batch \ {b}
      PROVE  SoleInv'
  <2>1. /\ task'[Recovery].pc = "release" /\ task'[Recovery].job = b.job
        /\ task[Recovery].pc = "next" /\ UNCHANGED serverVars
    <3>1. task[Recovery] \in TaskRecord /\ at(Recovery, "next") /\ UNCHANGED serverVars
      BY <1>0, <1>7 DEF recoverNext
    <3> QED
      BY <1>0, <1>7, <3>1 DEF TaskRecord, at
  <2>2. "release" \in WorkLabel \ {"look", "commit", "mark_failed"}
    BY DEF WorkLabel
  <2>3. b.job \in Job /\ row[b.job].request = NoRequest /\ active(b.job)
    BY <1>3 DEF JobInv, BatchKnown, BatchEntry, SoleInv, BatchFresh
  <2>4. ~ Over(b.job)
    BY <2>3 DEF Over, active, terminal, ActiveStatus, TerminalStatus
  <2>5. Entitled(Recovery, b.job)
    BY <1>0, <2>3 DEF Entitled
  <2>6. RunnersKnown'
    BY <1>0, <1>1, <2>1, RunnersStay DEF running
  <2>7. BatchFresh'
    <3>1. \A c \in batch' : c \in batch /\ c.job # b.job
      BY <1>7 DEF SoleInv, BatchFresh
    <3>2. task'[Poller].pc = "idle"
      BY <1>0, <1>1, <1>3
    <3>3. ASSUME NEW c \in batch'
          PROVE  /\ row'[c.job].status \in ActiveStatus
                 /\ task'[Recovery].pc # "idle" /\ row'[c.job].request = NoRequest
                 /\ \A t \in {Poller, Recovery} :
                      task'[t].pc \in WorkLabel => task'[t].job # c.job
      <4>1. "idle" \notin WorkLabel
        BY DEF WorkLabel
      <4> QED
        BY <1>1, <1>3, <2>1, <3>1, <3>2, <4>1 DEF SoleInv, BatchFresh, active
    <3> QED
      BY <3>1, <3>3 DEF SoleInv, BatchFresh, active, works, jobOf
  <2>8. row'[b.job].request = row[b.job].request /\ \A i \in Job : i # b.job => row'[i] = row[i]
    BY <1>1
  <2> QED
    BY <1>0, <1>1, <1>2, <1>4, <2>1, <2>2, <2>3, <2>4, <2>5, <2>6, <2>7, <2>8,
       EntryKeepsSole
<1> QED
  BY <1>5, <1>6, <1>7 DEF recoverNext

LEMMA OutsideKeepsSole ==
  ASSUME JobInv, SoleInv, UNCHANGED serverVars,
         \/ \E r \in Request : falStep(r)
         \/ \E u \in User, k \in OpKey, n \in Amounts : purchase(u, k, n)
  PROVE  SoleInv'
<1>1. row' = row /\ made' = made /\ event' = event /\ task' = task /\ batch' = batch
  BY DEF falStep, purchase, tableVars
<1>2. JobKeysStay
  BY KeysApart DEF falStep, purchase, grantCoins, appendKeyed, walletVars, JobKeysStay
<1>3. WorkStays
  BY <1>1, <1>2 DEF WorkStays, serverVars
<1> QED
  BY <1>1, <1>3, StillKeepsSole

LEMMA InitSoleInv == Init => SoleInv
<1> SUFFICES ASSUME Init PROVE SoleInv
  OBVIOUS
<1>1. /\ row = [j \in Job |-> NoRow] /\ task = [t \in Task |-> Fresh]
      /\ made = [j \in Job |-> 0] /\ batch = {} /\ keys = {}
      /\ delivery \in Deliveries /\ server = "serving" /\ crashes = 0
  BY DEF Init, TableInit, PipelineInit, WalletInit
<1>2. \A t \in Task : task[t].pc = "idle" /\ ~ works(t) /\ ~ running(t)
  BY <1>1 DEF Fresh, works, running, WorkLabel
<1>3. RunnersKnown /\ PlacesKnown /\ BatchFresh
  BY <1>1, <1>2, TasksApart DEF RunnersKnown, PlacesKnown, BatchFresh
<1>4. ProductsKnown /\ PaymentsKnown
  BY <1>1, <1>2 DEF ProductsKnown, PaymentsKnown
<1> QED
  BY <1>3, <1>4 DEF SoleInv

LEMMA NextSoleInv ==
  ASSUME SingleDelivery, JobInv, SoleInv, [Next]_vars
  PROVE  SoleInv'
<1>1. CASE UNCHANGED vars
  <2>1. WorkStays
    BY <1>1 DEF vars, walletVars, tableVars, WorkStays, JobKeysStay
  <2> QED
    BY <1>1, <2>1, StillKeepsSole DEF vars, tableVars, serverVars
<1>2. ASSUME NEW t \in Task, pipelineStep(t), UNCHANGED serverVars
      PROVE  SoleInv'
  <2>1. jobOf(t) \in Job /\ batch' = batch /\ Working(t)
    BY <1>2, WorkerWorks DEF pipelineStep
  <2>2. PipelineEffect(t) /\ Course(t)
    BY <1>2, <2>1, StepEffectOfPipeline, CourseOfPipeline
  <2>3. works(t)
    BY <2>2 DEF PipelineEffect, works
  <2>4. /\ \A s \in Task : s # t => task'[s] = task[s]
        /\ task'[t].pc \in WorkLabel => task'[t].job = jobOf(t)
    BY <2>1, <2>2 DEF PipelineEffect, TaskEffect, Working, PipelineTypeOK
  <2>5. \A i \in Job : i # jobOf(t) => row'[i] = row[i]
    BY <2>1, <2>2 DEF PipelineEffect, RowEffect, Working, TableTypeOK
  <2>6. WorksAlone(t)
    BY <1>2, <2>1, <2>2, <2>4, <2>5 DEF WorksAlone, PipelineEffect, RestEffect
  <2> QED
    BY <2>2, <2>3, <2>6, WorkKeepsSole
<1> QED
  BY <1>1, <1>2, CreateJobKeepsSole, WebhookKeepsSole, PollKeepsSole, CrashKeepsSole,
     RecoveryKeepsSole, OutsideKeepsSole DEF Next

LEMMA SoleInvariant ==
  ASSUME SingleDelivery
  PROVE  Spec => []SoleInv
<1>1. JobInv /\ SoleInv /\ [Next]_vars => SoleInv'
  BY NextSoleInv
<1> QED
  BY <1>1, InitSoleInv, JobInvariant, PTL DEF Spec

(* With one way for results to come, a job makes one track or asset,        *)
(* however often its result arrives and wherever the server crashes.        *)
THEOREM MakesOneProduct ==
  ASSUME SingleDelivery
  PROVE  Spec => []OneProduct
<1>1. JobInv /\ SoleInv => OneProduct
  BY DEF JobInv, TableTypeOK, SoleInv, ProductsKnown, OneProduct
<1> QED
  BY <1>1, SoleInvariant, JobInvariant, PTL

(* With one way for results to come, no job is both paid for and refunded   *)
(* before the server first crashes.                                         *)
THEOREM SettlesOneWay ==
  ASSUME SingleDelivery
  PROVE  Spec => []SettledOnceUnlessCrashed
<1>1. SoleInv => SettledOnceUnlessCrashed
  BY DEF SoleInv, PaymentsKnown, SettledOnceUnlessCrashed, SettledOnce, CallersSettleOneWay,
         SettledOneWay
<1> QED
  BY <1>1, SoleInvariant, PTL


-----------------------------------------------------------------------------
(* Nobody works on a job that has ended, and nobody will.                   *)
FinalInv ==
  /\ \A t \in Task : works(t) => ~ terminal(jobOf(t))
  /\ \A j \in Job : terminal(j) => Over(j)

(* The two steps that give a job its last status also end it.               *)
LEMMA LastStepEnds ==
  ASSUME NEW t, Working(t), pipelineStep(t), task[t].pc \in {"mark_failed", "commit"}
  PROVE  Ends(t)
<1>0. row \in [Job -> RowRecord] /\ jobOf(t) \in Job /\ made \in [Job -> Nat]
  BY DEF Working, TableTypeOK
<1>1. markFailed(t) \/ \E isNew \in BOOLEAN : commitProduct(t, isNew)
  <2>0. (task[t].seen = 0) \in BOOLEAN
    OBVIOUS
  <2>1. ~ SongStep(t) \/ \E isNew \in BOOLEAN : commitProduct(t, isNew)
    BY <2>0 DEF SongStep, songAdvance, songPersist, songFail, songFallback, songFlag, songSubmit,
       submitFirst, submitSecond, songFinalize, postProcess, captureCredits, lookForTrack, at
  <2>2. ~ CoverStep(t) \/ \E isNew \in BOOLEAN : commitProduct(t, isNew)
    BY <2>0 DEF CoverStep, coverAdvance, coverPersist, coverFail, coverSubmit,
       submitFirst, submitSecond, coverFinalize, postProcess, captureCredits, lookForTrack, at
  <2>3. ~ VideoStep(t) \/ \E isNew \in BOOLEAN : commitProduct(t, isNew)
    BY DEF VideoStep, videoAdvance, videoFail, videoSubmit, submitFirst, videoFinalize,
       postProcess, captureCredits, at
  <2>4. ~ VoiceCloneStep(t) \/ \E isNew \in BOOLEAN : commitProduct(t, isNew)
    BY DEF VoiceCloneStep, cloneVoice, clonePostProcess, cloneCommit, at
  <2>5. ~ BaseStep(t) \/ markFailed(t)
    BY DEF BaseStep, dropped, readRuntime, rereadRuntime, setCurrentStage, releaseCredits, at
  <2> QED
    BY <2>1, <2>2, <2>3, <2>4, <2>5 DEF pipelineStep
<1>2. CASE markFailed(t)
  <2>1. RequestStays(t) /\ task'[t].pc = after(t)
    BY <1>2, PatchKeepsRequest, ReturnLabel DEF markFailed, mark_failed
  <2>2. row'[jobOf(t)].status = "failed"
    BY <1>0, <1>2 DEF markFailed, mark_failed, set_status, RowRecord
  <2>3. made' = [made EXCEPT ![jobOf(t)] = made[jobOf(t)]]
    BY <1>0, <1>2 DEF markFailed
  <2> QED
    BY <1>2, <2>1, <2>2, <2>3 DEF markFailed, Ends, TerminalStatus, walletVars
<1>3. ASSUME NEW isNew \in BOOLEAN, commitProduct(t, isNew)
      PROVE  Ends(t)
  <2>1. RequestStays(t) /\ task'[t].pc = after(t)
    BY <1>3, PatchKeepsRequest, ReturnLabel DEF commitProduct, mark_succeeded
  <2>2. row'[jobOf(t)].status = "completed"
    BY <1>0, <1>3 DEF commitProduct, mark_succeeded, set_status, RowRecord
  <2>3. \E n \in {made[jobOf(t)], made[jobOf(t)] + 1} : made' = [made EXCEPT ![jobOf(t)] = n]
    BY <1>3 DEF commitProduct
  <2> QED
    BY <1>3, <2>1, <2>2, <2>3 DEF commitProduct, Ends, TerminalStatus, walletVars
<1> QED
  BY <1>1, <1>2, <1>3

(* A worker ends its own job or keeps it open.                              *)
LEMMA WorkKeepsFinal ==
  ASSUME SingleDelivery, JobInv, SoleInv, FinalInv, NEW t \in Task, pipelineStep(t),
         UNCHANGED serverVars
  PROVE  FinalInv'
<1>1. Working(t) /\ jobOf(t) \in Job /\ batch' = batch
  BY WorkerWorks DEF pipelineStep
<1>2. PipelineEffect(t) /\ Course(t) /\ works(t)
  BY <1>1, StepEffectOfPipeline, CourseOfPipeline DEF PipelineEffect, works
<1> SUFFICES ASSUME NEW j \in Job, j = jobOf(t) PROVE FinalInv'
  BY <1>1
<1>3. /\ \A s \in Task : s # t => task'[s] = task[s]
      /\ task'[t].pc \in WorkLabel => task'[t].job = j
      /\ \A i \in Job : i # j => row'[i] = row[i]
  BY <1>1, <1>2 DEF PipelineEffect, TaskEffect, RowEffect, Working, PipelineTypeOK, TableTypeOK
<1>4. WorksAlone(t)
  BY <1>1, <1>2, <1>3 DEF WorksAlone, PipelineEffect, RestEffect
<1>5. row'[j].status \in TerminalStatus => Ends(t)
  <2>1. ~ terminal(j)
    BY <1>2 DEF FinalInv
  <2>2. PICK w \in RowRecord :
          /\ row' = [row EXCEPT ![j] = w]
          /\ w.status = "failed" => row[j].status = "failed" \/ at(t, "mark_failed")
          /\ w.status = "completed" => row[j].status = "completed" \/ at(t, "commit")
          /\ w.status = "canceled" => row[j].status = "canceled"
    BY <1>2 DEF PipelineEffect, RowEffect
  <2>3. row'[j] = w
    BY <1>1, <2>2 DEF Working, TableTypeOK
  <2>4. row'[j].status \in TerminalStatus => task[t].pc \in {"mark_failed", "commit"}
    BY <2>1, <2>2, <2>3 DEF terminal, TerminalStatus, at
  <2>5. task[t].pc \in {"mark_failed", "commit"} => Ends(t)
    <3> SUFFICES ASSUME task[t].pc \in {"mark_failed", "commit"} PROVE Ends(t)
      OBVIOUS
    <3> QED
      BY <1>1, LastStepEnds
  <2> QED
    BY <2>4, <2>5
<1>6. ASSUME NEW s \in Task, task'[s].pc \in WorkLabel
      PROVE  row'[task'[s].job].status \notin TerminalStatus
  <2>1. CASE s = t
    <3>1. ~ Ends(t) /\ task'[s].job = j
      BY <1>2, <1>3, <1>6, <2>1, CourseLabel
    <3>2. row'[j].status \notin TerminalStatus
      BY <1>5, <3>1
    <3> QED
      BY <3>1, <3>2
  <2>2. CASE s # t
    <3>1. works(s) /\ task'[s] = task[s]
      BY <1>3, <1>6, <2>2 DEF works
    <3>2. jobOf(s) \in Job /\ jobOf(s) # j
      BY <1>2, <2>2, <3>1, SoleWorker, WorkerKinds
    <3> QED
      BY <1>3, <3>1, <3>2 DEF FinalInv, terminal, jobOf
  <2> QED
    BY <2>1, <2>2
<1>7. ASSUME NEW i \in Job, row'[i].status \in TerminalStatus
      PROVE  Over(i)'
  <2>1. CASE i = j
    BY <1>2, <1>4, <1>5, <1>7, <2>1, EndsOver DEF WorksAlone, serverVars
  <2>2. CASE i # j
    <3>1. Over(i)
      BY <1>3, <1>7, <2>2 DEF FinalInv, terminal
    <3> QED
      BY <1>2, <1>4, <2>2, <3>1, OverStays
  <2> QED
    BY <2>1, <2>2
<1> QED
  BY <1>6, <1>7 DEF FinalInv, works, jobOf, terminal


(* What every other step does: no row ends and no row that has ended is     *)
(* written, and whoever takes up a job takes up an open one.                *)
LeavesEnded ==
  /\ \A i \in Job : terminal(i) => row'[i] = row[i]
  /\ \A i \in Job : row'[i].status \in TerminalStatus => terminal(i)
  /\ \A t \in Task : task'[t].pc \in WorkLabel =>
       \/ works(t) /\ task'[t].job = jobOf(t)
       \/ task'[t].job \in Job /\ ~ terminal(task'[t].job)
  /\ delivery' = delivery
  /\ \A r \in Request :
       /\ event[r] # "none" => event'[r] # "none"
       /\ task'[Hook(r)].pc = "find" => task[Hook(r)].pc = "find" \/ event[r] = "none"

LEMMA LeavesEndedKeepsFinal ==
  ASSUME JobInv, FinalInv, LeavesEnded
  PROVE  FinalInv'
<1>1. ASSUME NEW t \in Task, task'[t].pc \in WorkLabel
      PROVE  row'[task'[t].job].status \notin TerminalStatus
  <2>1. CASE works(t) /\ task'[t].job = jobOf(t)
    <3>1. jobOf(t) \in Job /\ ~ terminal(jobOf(t))
      BY <2>1 DEF FinalInv, JobInv, WorkersKnown, works
    <3> QED
      BY <2>1, <3>1 DEF LeavesEnded
  <2> QED
    BY <1>1, <2>1 DEF LeavesEnded
<1>2. ASSUME NEW i \in Job, row'[i].status \in TerminalStatus
      PROVE  Over(i)'
  <2>1. Over(i) /\ row'[i] = row[i]
    BY <1>2 DEF LeavesEnded, FinalInv
  <2> QED
    BY <1>2, <2>1 DEF Over, LeavesEnded, terminal, at
<1> QED
  BY <1>1, <1>2 DEF FinalInv, works, jobOf, terminal

(* No coroutine but t moves, no row changes and no event is lost.           *)
LEMMA MoverLeavesEnded ==
  ASSUME NEW t \in Task, row' = row, delivery' = delivery,
         \A r \in Request : event[r] # "none" => event'[r] # "none",
         \A s \in Task : s # t => task'[s] = task[s],
         \/ task'[t].pc \notin WorkLabel
         \/ task'[t].job \in Job /\ ~ terminal(task'[t].job),
         \A r \in Request : t = Hook(r) /\ task'[t].pc = "find" => event[r] = "none"
  PROVE  LeavesEnded
<1>1. ASSUME NEW s \in Task, task'[s].pc \in WorkLabel
      PROVE  \/ works(s) /\ task'[s].job = jobOf(s)
             \/ task'[s].job \in Job /\ ~ terminal(task'[s].job)
  BY <1>1 DEF works, jobOf
<1> QED
  BY <1>1, TasksApart DEF LeavesEnded, terminal

LEMMA CreateJobLeavesEnded ==
  ASSUME JobInv, FinalInv, NEW j \in Job, createJob(j), UNCHANGED serverVars
  PROVE  LeavesEnded
<1>0. /\ Api(j) \in Task /\ \A r \in Request : Api(j) # Hook(r)
      /\ task \in [Task -> TaskRecord] /\ row \in [Job -> RowRecord] /\ delivery' = delivery
  BY TasksApart DEF JobInv, PipelineTypeOK, TableTypeOK, serverVars
<1>1. /\ \A t \in Task : t # Api(j) => task'[t] = task[t]
      /\ event' = event
  BY <1>0 DEF createJob, lookupKey, reserveCredits, insertJob, startPipeline, goto, tableVars
<1>2. CASE lookupKey(j)
  <2>1. task'[Api(j)].pc \in {"reserve", "done"} /\ row' = row
    BY <1>0, <1>2 DEF lookupKey, at, tableVars, TaskRecord
  <2> QED
    BY <1>0, <1>1, <2>1, MoverLeavesEnded DEF WorkLabel
<1>3. CASE reserveCredits(j)
  <2>1. task'[Api(j)].pc \in {"insert", "done"} /\ row' = row
    BY <1>0, <1>3 DEF reserveCredits, goto, at, tableVars, TaskRecord
  <2> QED
    BY <1>0, <1>1, <2>1, MoverLeavesEnded DEF WorkLabel
<1>4. CASE insertJob(j) /\ row' = row
  <2>1. ~ terminal(j) /\ task'[Api(j)].job = j
    <3>1. row[j].status = "absent" /\ jobOf(Api(j)) = j
      BY <1>4 DEF insertJob, at, JobInv, CallersKnown, exists
    <3> QED
      BY <1>0, <1>4, <3>1 DEF insertJob, goto, TaskRecord, jobOf, terminal, TerminalStatus
  <2> QED
    BY <1>0, <1>1, <1>4, <2>1, MoverLeavesEnded
<1>5. ASSUME ~ terminal(j), row'[j].status \notin TerminalStatus,
             \A i \in Job : i # j => row'[i] = row[i], task'[Api(j)].job = j,
             task'[Api(j)].pc # "find"
      PROVE  LeavesEnded
  <2>1. ASSUME NEW s \in Task, task'[s].pc \in WorkLabel
        PROVE  \/ works(s) /\ task'[s].job = jobOf(s)
               \/ task'[s].job \in Job /\ ~ terminal(task'[s].job)
    BY <1>1, <1>5, <2>1 DEF works, jobOf
  <2> QED
    BY <1>0, <1>1, <1>5, <2>1, TasksApart DEF LeavesEnded, terminal
<1>6. CASE insertJob(j) /\ row' # row
  <2>1. row[j].status = "absent" /\ jobOf(Api(j)) = j
    BY <1>6 DEF insertJob, at, JobInv, CallersKnown, exists
  <2>2. task'[Api(j)].job = j /\ task'[Api(j)].pc = "start"
    BY <1>0, <1>6, <2>1 DEF insertJob, goto, TaskRecord, jobOf
  <2>3. row'[j].status = "created" /\ \A i \in Job : i # j => row'[i] = row[i]
    BY <1>0, <1>6 DEF insertJob, create, RowRecord
  <2> QED
    BY <1>5, <2>1, <2>2, <2>3 DEF terminal, TerminalStatus
<1>7. CASE startPipeline(j)
  <2>1. works(Api(j)) /\ jobOf(Api(j)) = j
    BY <1>7 DEF startPipeline, at, works, WorkLabel, JobInv, CallersKnown
  <2>2. task'[Api(j)].job = j /\ task'[Api(j)].pc = "submit"
    BY <1>0, <1>7, <2>1 DEF startPipeline, goto, TaskRecord, jobOf
  <2>3. row'[j].status = "running" /\ \A i \in Job : i # j => row'[i] = row[i]
    BY <1>0, <1>7 DEF startPipeline, set_status, RowRecord
  <2> QED
    BY <1>0, <1>5, <2>1, <2>2, <2>3 DEF FinalInv, TerminalStatus
<1> QED
  BY <1>2, <1>3, <1>4, <1>6, <1>7 DEF createJob

LEMMA WebhookLeavesEnded ==
  ASSUME JobInv, SoleInv, FinalInv, NEW r \in Request, webhook(r), UNCHANGED serverVars
  PROVE  LeavesEnded
<1>0. /\ Hook(r) \in Task /\ \A i \in Request : Hook(r) = Hook(i) => i = r
      /\ task \in [Task -> TaskRecord] /\ event \in [Request -> {"none", "received", "applied"}]
      /\ delivery' = delivery
  BY TasksApart DEF JobInv, PipelineTypeOK, TableTypeOK, serverVars
<1>1. /\ \A t \in Task : t # Hook(r) => task'[t] = task[t]
      /\ row' = row
      /\ \A i \in Request : event[i] # "none" => event'[i] # "none"
  BY <1>0 DEF webhook, claimEvent, findJob, eventApplied, try_record, mark_applied, goto, tableVars
<1>2. CASE claimEvent(r)
  <2>1. task'[Hook(r)].pc = "find" /\ event[r] = "none"
    BY <1>0, <1>2 DEF claimEvent, goto, try_record, TaskRecord
  <2> QED
    BY <1>0, <1>1, <2>1, MoverLeavesEnded DEF WorkLabel
<1>3. CASE (findJob(r) /\ find_by_request_id(r) = {}) \/ eventApplied(r)
  <2>1. task'[Hook(r)].pc = "done"
    BY <1>0, <1>3 DEF findJob, eventApplied, goto, TaskRecord
  <2> QED
    BY <1>0, <1>1, <2>1, MoverLeavesEnded DEF WorkLabel
<1>4. ASSUME findJob(r), NEW j \in find_by_request_id(r),
             task' = [task EXCEPT ![Hook(r)].pc = "load", ![Hook(r)].job = j,
                                  ![Hook(r)].stage = row[j].stage,
                                  ![Hook(r)].result = fal[r].state]
      PROVE  LeavesEnded
  <2>1. j \in Job /\ row[j].request = r
    BY DEF find_by_request_id
  <2>2. task'[Hook(r)].pc = "load" /\ task'[Hook(r)].job = j
    BY <1>0, <1>4 DEF TaskRecord
  <2>3. at(Hook(r), "find") /\ "webhook" \in delivery
    BY <1>0, <1>4 DEF findJob, at, running, SoleInv, RunnersKnown
  <2>4. ~ terminal(j)
    BY <2>1, <2>3 DEF FinalInv, Over
  <2> QED
    BY <1>0, <1>1, <2>1, <2>2, <2>4, MoverLeavesEnded
<1> QED
  BY <1>2, <1>3, <1>4 DEF webhook, findJob

(* The poller and the recovery take up what their list still calls active.  *)
LEMMA ListLeavesEnded ==
  ASSUME JobInv, SoleInv, FinalInv, poll \/ recoverNext \/ Restart \/ Serve,
         delivery' = delivery
  PROVE  LeavesEnded
<1>0. /\ Poller \in Task /\ Recovery \in Task
      /\ \A i \in Request : Poller # Hook(i) /\ Recovery # Hook(i)
      /\ task \in [Task -> TaskRecord]
  BY TasksApart DEF JobInv, PipelineTypeOK
<1>1. row' = row /\ event' = event
  BY DEF poll, pollActive, pollAnswered, pollSkipped, pollEnds, recoverNext, Restart, Serve,
         tableVars
<1>2. \A b \in batch : b.job \in Job /\ ~ terminal(b.job)
  BY DEF JobInv, BatchKnown, BatchEntry, SoleInv, BatchFresh, active, terminal, ActiveStatus,
         TerminalStatus
<1>3. ASSUME NEW t \in {Poller, Recovery}, NEW label \in {"next", "idle"}, goto(t, label)
      PROVE  LeavesEnded
  <2>1. task'[t].pc = label /\ \A s \in Task : s # t => task'[s] = task[s]
    BY <1>0, <1>3 DEF goto, TaskRecord
  <2>2. label \notin WorkLabel
    BY DEF WorkLabel
  <2> QED
    BY <1>0, <1>1, <2>1, <2>2, MoverLeavesEnded
<1>4. ASSUME NEW b \in batch, pollSkipped(b)
      PROVE  LeavesEnded
  <2>1. task' = task
    BY <1>4 DEF pollSkipped
  <2> QED
    BY <1>1, <2>1 DEF LeavesEnded, works, jobOf, terminal
<1>5. ASSUME NEW b \in batch, pollAnswered(b)
      PROVE  LeavesEnded
  <2>1. /\ task'[Poller].pc = "load" /\ task'[Poller].job = b.job
        /\ \A s \in Task : s # Poller => task'[s] = task[s]
    BY <1>0, <1>5 DEF pollAnswered, TaskRecord
  <2> QED
    BY <1>0, <1>1, <1>2, <2>1, MoverLeavesEnded
<1>6. ASSUME NEW b \in batch,
             task' = [task EXCEPT ![Recovery].pc = "release", ![Recovery].job = b.job]
      PROVE  LeavesEnded
  <2>1. /\ task'[Recovery].pc = "release" /\ task'[Recovery].job = b.job
        /\ \A s \in Task : s # Recovery => task'[s] = task[s]
    BY <1>0, <1>6 DEF TaskRecord
  <2> QED
    BY <1>0, <1>1, <1>2, <2>1, MoverLeavesEnded
<1> QED
  BY <1>3, <1>4, <1>5, <1>6 DEF poll, pollActive, pollEnds, recoverNext, Restart, Serve

(* A crash leaves nobody at work; fal and purchases touch neither.          *)
LEMMA OutsideLeavesEnded ==
  ASSUME JobInv,
         \/ Crash
         \/ UNCHANGED serverVars /\ \E r \in Request : falStep(r)
         \/ UNCHANGED serverVars /\ \E u \in User, k \in OpKey, n \in Amounts : purchase(u, k, n)
         \/ UNCHANGED vars
  PROVE  LeavesEnded
<1>1. CASE Crash
  <2>1. /\ \A t \in Task : task'[t] = task[t] \/ task'[t].pc \in {"idle", "dead"}
        /\ row' = row /\ event' = event /\ delivery' = delivery
    BY <1>1 DEF Crash, Fresh, tableVars
  <2>2. ASSUME NEW t \in Task, task'[t].pc \in WorkLabel \cup {"find"}
        PROVE  task'[t] = task[t]
    BY <2>1, <2>2 DEF WorkLabel
  <2>3. \A r \in Request : Hook(r) \in Task
    BY TasksApart
  <2> QED
    BY <2>1, <2>2, <2>3 DEF LeavesEnded, works, jobOf, terminal
<1>2. CASE task' = task /\ row' = row /\ event' = event /\ delivery' = delivery
  BY <1>2 DEF LeavesEnded, works, jobOf, terminal
<1> QED
  BY <1>1, <1>2 DEF falStep, purchase, tableVars, serverVars, vars

LEMMA InitFinalInv == Init => FinalInv
<1> SUFFICES ASSUME Init PROVE FinalInv
  OBVIOUS
<1>1. row = [j \in Job |-> NoRow] /\ task = [t \in Task |-> Fresh]
  BY DEF Init, TableInit, PipelineInit
<1>2. \A t \in Task : ~ works(t)
  BY <1>1 DEF Fresh, works, WorkLabel
<1>3. \A j \in Job : ~ terminal(j)
  BY <1>1 DEF terminal, NoRow, TerminalStatus
<1> QED
  BY <1>2, <1>3 DEF FinalInv

LEMMA NextFinalInv ==
  ASSUME SingleDelivery, JobInv, SoleInv, FinalInv, [Next]_vars
  PROVE  FinalInv' /\ \A j \in Job : terminal(j) => row'[j].status = row[j].status
<1>1. ASSUME NEW t \in Task, pipelineStep(t), UNCHANGED serverVars
      PROVE  FinalInv' /\ \A j \in Job : terminal(j) => row'[j].status = row[j].status
  <2>1. Working(t) /\ jobOf(t) \in Job
    BY <1>1, WorkerWorks DEF pipelineStep
  <2>2. PipelineEffect(t) /\ works(t)
    BY <1>1, <2>1, StepEffectOfPipeline DEF PipelineEffect, works
  <2>3. \A i \in Job : i # jobOf(t) => row'[i] = row[i]
    BY <2>1, <2>2 DEF PipelineEffect, RowEffect, Working, TableTypeOK
  <2> QED
    BY <1>1, <2>2, <2>3, WorkKeepsFinal DEF FinalInv
<1>2. CASE LeavesEnded
  BY <1>2, LeavesEndedKeepsFinal DEF LeavesEnded
<1>3. \/ \E t \in Task : pipelineStep(t) /\ UNCHANGED serverVars
      \/ LeavesEnded
  BY CreateJobLeavesEnded, WebhookLeavesEnded, ListLeavesEnded, OutsideLeavesEnded
     DEF Next, serverVars, recoverNext, Restart, Serve
<1> QED
  BY <1>1, <1>2, <1>3

(* With one way for results to come, a job that ended stays as it ended:    *)
(* set_status, mark_succeeded and mark_failed look at no status before they *)
(* write theirs, and nobody calls them for a job that has one.              *)
THEOREM EndedStaysEnded ==
  ASSUME SingleDelivery
  PROVE  Spec => TerminalIsFinal
<1>1. JobInv /\ SoleInv /\ FinalInv /\ [Next]_vars => FinalInv'
  BY NextFinalInv
<1>2. JobInv /\ SoleInv /\ FinalInv /\ [Next]_vars
        => [\A j \in Job : terminal(j) => row'[j].status = row[j].status]_vars
  BY NextFinalInv
<1> QED
  BY <1>1, <1>2, InitFinalInv, SoleInvariant, JobInvariant, PTL DEF Spec, TerminalIsFinal
=============================================================================
