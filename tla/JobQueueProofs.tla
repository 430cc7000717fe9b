--------------------------- MODULE JobQueueProofs ---------------------------
(***************************************************************************)
(* Proofs about the job queue, for any number of workers, videos and jobs  *)
(* and any MaxAttempts, LeaseStale, SegmentCounts and SampleBudget.        *)
(*                                                                         *)
(* The table is a value, so what a statement does to it is proved first,   *)
(* statement by statement (TableOK is kept, no row is lost); the steps of  *)
(* the system then cite those lemmas.                                      *)
(***************************************************************************)
EXTENDS JobQueue, FiniteSetTheorems, SequenceTheorems, TLAPS

-----------------------------------------------------------------------------
(* The table.                                                              *)

\* The CHECK of migration 0008: a snapshot job is the one with no video.
VideoOK(row) == row.kind = "snapshot" <=> row.video = NoVideo

TableOK(js) ==
  /\ js \in Seq(Row)
  /\ \A i \in DOMAIN js : LeaseOK(js[i]) /\ VideoOK(js[i])

\* A row an INSERT adds agrees with itself.
LEMMA NewRowOK ==
  ASSUME NEW kind \in Kinds, NEW video \in Videos \cup {NoVideo},
         kind = "snapshot" <=> video = NoVideo,
         NEW selection \in Modes \cup {"none"}, NEW frames \in SUBSET Frames
  PROVE  LET row == NewRow(kind, video, selection, frames)
         IN  row \in Row /\ LeaseOK(row) /\ VideoOK(row)
BY ThresholdsArePositive, NullsAreNoIds
   DEF NewRow, Row, LeaseOK, VideoOK, Kinds, Statuses, Ages, NoBeat

\* A row at an id is a row, and ids are naturals.
LEMMA RowAt ==
  ASSUME NEW js, TableOK(js), NEW i \in DOMAIN js
  PROVE  i \in Nat /\ js[i] \in Row /\ LeaseOK(js[i]) /\ VideoOK(js[i])
BY DEF TableOK

\* Replacing the row at one id by a good row keeps the table good.
LEMMA PutRow ==
  ASSUME NEW js, TableOK(js), NEW id \in DOMAIN js,
         NEW row \in Row, LeaseOK(row), VideoOK(row)
  PROVE  /\ TableOK([js EXCEPT ![id] = row])
         /\ DOMAIN [js EXCEPT ![id] = row] = DOMAIN js
<1>1. /\ [js EXCEPT ![id] = row] \in Seq(Row)
      /\ DOMAIN [js EXCEPT ![id] = row] = DOMAIN js
  BY DEF TableOK
<1>2. \A i \in DOMAIN js : LeaseOK([js EXCEPT ![id] = row][i])
                             /\ VideoOK([js EXCEPT ![id] = row][i])
  BY DEF TableOK
<1> QED BY <1>1, <1>2 DEF TableOK

\* Replacing every row by a good one keeps the table good.
LEMMA PutRows ==
  ASSUME NEW js, TableOK(js), NEW new,
         new = [i \in DOMAIN js |-> new[i]],
         \A i \in DOMAIN js : new[i] \in Row /\ LeaseOK(new[i]) /\ VideoOK(new[i])
  PROVE  TableOK(new) /\ DOMAIN new = DOMAIN js
<1>1. DOMAIN js = 1 .. Len(js) /\ Len(js) \in Nat
  BY DEF TableOK
<1>2. DOMAIN new = DOMAIN js
  OBVIOUS
<1>3. new \in Seq(Row)
  BY <1>1, <1>2
<1> QED BY <1>2, <1>3 DEF TableOK

\* Inserting a batch of rows keeps the table good and every row where it is.
LEMMA InsertRows ==
  ASSUME NEW js, TableOK(js), NEW more, TableOK(more)
  PROVE  /\ TableOK(js \o more)
         /\ DOMAIN js \subseteq DOMAIN (js \o more)
         /\ \A i \in DOMAIN js : (js \o more)[i] = js[i]
<1> DEFINE new == js \o more
<1>1. js \in Seq(Row) /\ more \in Seq(Row)
  BY DEF TableOK
<1>2. /\ new \in Seq(Row)
      /\ Len(new) = Len(js) + Len(more)
      /\ \A i \in 1 .. Len(js) + Len(more) :
           new[i] = IF i <= Len(js) THEN js[i] ELSE more[i - Len(js)]
  BY <1>1, ConcatProperties
<1>3. /\ DOMAIN js = 1 .. Len(js) /\ Len(js) \in Nat
      /\ DOMAIN more = 1 .. Len(more) /\ Len(more) \in Nat
      /\ DOMAIN new = 1 .. Len(js) + Len(more)
  BY <1>1, <1>2, LenProperties
<1> HIDE DEF new
<1>4. \A i \in DOMAIN js : i \in DOMAIN new /\ new[i] = js[i]
  BY <1>2, <1>3
<1>5. \A i \in DOMAIN new \ DOMAIN js :
        i - Len(js) \in DOMAIN more /\ new[i] = more[i - Len(js)]
  BY <1>2, <1>3
<1>6. TableOK(new)
  BY <1>2, <1>4, <1>5 DEF TableOK
<1> QED BY <1>2, <1>4, <1>6 DEF new

LEMMA InsertRow ==
  ASSUME NEW js, TableOK(js), NEW row \in Row, LeaseOK(row), VideoOK(row)
  PROVE  /\ TableOK(Append(js, row))
         /\ DOMAIN js \subseteq DOMAIN Append(js, row)
         /\ Len(Append(js, row)) = Len(js) + 1
         /\ \A i \in DOMAIN js : Append(js, row)[i] = js[i]
<1>1. js \in Seq(Row)
  BY DEF TableOK
<1>2. /\ Append(js, row) \in Seq(Row)
      /\ DOMAIN Append(js, row) = 1 .. Len(js) + 1
      /\ DOMAIN js = 1 .. Len(js) /\ Len(js) \in Nat
      /\ \A i \in 1 .. Len(js) + 1 :
           Append(js, row)[i] = IF i = Len(js) + 1 THEN row ELSE js[i]
  BY <1>1
<1> QED BY <1>2 DEF TableOK

-----------------------------------------------------------------------------
(* The statements.                                                         *)

\* What a statement may do: keep the table good, the rows where they are and
\* each of them on its way.
TableStep(old, new) ==
  /\ TableOK(new)
  /\ DOMAIN old \subseteq DOMAIN new
  /\ \A i \in DOMAIN old : RowStep(old[i], new[i])

LEMMA SameTable ==
  ASSUME NEW js, TableOK(js) PROVE TableStep(js, js)
BY DEF TableStep, RowStep, TableOK, Row

\* Statements that replace one row, or each row, by a good successor.
LEMMA PutRowStep ==
  ASSUME NEW js, TableOK(js), NEW id \in DOMAIN js,
         NEW row \in Row, LeaseOK(row), VideoOK(row), RowStep(js[id], row)
  PROVE  TableStep(js, [js EXCEPT ![id] = row])
<1>1. /\ TableOK([js EXCEPT ![id] = row])
      /\ DOMAIN [js EXCEPT ![id] = row] = DOMAIN js
  BY PutRow
<1>2. \A i \in DOMAIN js : RowStep(js[i], js[i])
  BY SameTable DEF TableStep
<1> QED BY <1>1, <1>2 DEF TableStep

LEMMA InsertRowStep ==
  ASSUME NEW js, TableOK(js), NEW row \in Row, LeaseOK(row), VideoOK(row)
  PROVE  TableStep(js, Append(js, row))
<1>1. \A i \in DOMAIN js : RowStep(js[i], js[i])
  BY SameTable DEF TableStep
<1> QED BY <1>1, InsertRow DEF TableStep

\* Two statements of one batch, the second of which only inserts.
LEMMA ThenInsert ==
  ASSUME NEW js, NEW mid, TableStep(js, mid), NEW new, TableStep(mid, new),
         \A i \in DOMAIN mid : new[i] = mid[i]
  PROVE  TableStep(js, new)
BY DEF TableStep

LEMMA ClaimStep ==
  ASSUME NEW js, TableOK(js), NEW id \in Pending(js), NEW w \in Workers
  PROVE  TableStep(js, Claim(js, id, w))
<1> DEFINE row == [js[id] EXCEPT !.status = "claimed", !.claimed_by = w,
                                 !.age = 0, !.attempts = js[id].attempts + 1]
<1>1. /\ id \in DOMAIN js /\ js[id].status = "pending"
      /\ js[id] \in Row /\ LeaseOK(js[id]) /\ VideoOK(js[id])
  BY RowAt DEF Pending
<1>2. row \in Row
  <2>1. js[id].attempts + 1 \in Nat /\ 0 \in Ages
    BY <1>1, ThresholdsArePositive DEF Row, Ages
  <2> QED BY <1>1, <2>1 DEF Row, Statuses
<1>3. LeaseOK(row) /\ VideoOK(row) /\ RowStep(js[id], row)
  BY <1>1, ThresholdsArePositive, NullsAreNoIds
     DEF Row, LeaseOK, VideoOK, RowStep, NoBeat
<1>4. TableStep(js, [js EXCEPT ![id] = row])
  BY <1>1, <1>2, <1>3, PutRowStep
<1> QED BY <1>4, <1>1 DEF Claim

LEMMA RenewStep ==
  ASSUME NEW js, TableOK(js), NEW id, NEW w \in Workers, HeldBy(js, id, w)
  PROVE  TableStep(js, Renew(js, id))
<1> DEFINE row == [js[id] EXCEPT !.age = 0]
<1>1. /\ id \in DOMAIN js /\ js[id].status = "claimed"
      /\ js[id] \in Row /\ LeaseOK(js[id]) /\ VideoOK(js[id])
  BY RowAt DEF HeldBy
<1>2. row \in Row
  BY <1>1, ThresholdsArePositive DEF Row, Ages, NoBeat
<1>3. LeaseOK(row) /\ VideoOK(row) /\ RowStep(js[id], row)
  BY <1>1, ThresholdsArePositive DEF Row, LeaseOK, VideoOK, RowStep, NoBeat
<1> QED BY <1>1, <1>2, <1>3, PutRowStep DEF Renew

LEMMA FinishStep ==
  ASSUME NEW js, TableOK(js), NEW id, NEW w \in Workers, HeldBy(js, id, w),
         NEW status \in {"done", "failed"}
  PROVE  TableStep(js, Finish(js, id, status))
<1> DEFINE row == [js[id] EXCEPT !.status = status, !.claimed_by = NoWorker,
                                 !.age = NoBeat,
                                 !.failure = IF status = "failed" THEN "reported"
                                                                  ELSE "none"]
<1>1. /\ id \in DOMAIN js /\ js[id].status = "claimed"
      /\ js[id] \in Row /\ LeaseOK(js[id]) /\ VideoOK(js[id])
  BY RowAt DEF HeldBy
<1>2. row \in Row
  BY <1>1 DEF Row, Statuses, Ages, NoBeat
<1>3. LeaseOK(row) /\ VideoOK(row) /\ RowStep(js[id], row)
  BY <1>1, ThresholdsArePositive DEF Row, LeaseOK, VideoOK, RowStep, NoBeat
<1> QED BY <1>1, <1>2, <1>3, PutRowStep DEF Finish

LEMMA EnqueueIfDueStep ==
  ASSUME NEW js, TableOK(js), NEW id
  PROVE  /\ TableStep(js, EnqueueIfDue(js, id))
         /\ \A i \in DOMAIN js : EnqueueIfDue(js, id)[i] = js[i]
<1>1. CASE PrelabelDue(js, id)
  <2> DEFINE row == NewRow("prelabel", js[id].video, "random", {})
  <2>1. js[id].video \in Videos /\ js[id].video # NoVideo
    BY <1>1, RowAt, NullsAreNoIds DEF PrelabelDue, Row, VideoOK
  <2>2. row \in Row /\ LeaseOK(row) /\ VideoOK(row)
    BY <2>1, NewRowOK DEF Kinds, Modes
  <2> HIDE DEF row
  <2>3. EnqueueIfDue(js, id) = Append(js, row)
    BY <1>1 DEF EnqueueIfDue, row
  <2> QED BY <2>2, <2>3, InsertRowStep, InsertRow
<1>2. CASE ~PrelabelDue(js, id)
  BY <1>2, SameTable DEF EnqueueIfDue
<1> QED BY <1>1, <1>2

LEMMA AgeRowsStep ==
  ASSUME NEW js, TableOK(js)
  PROVE  TableStep(js, AgeRows(js))
<1>1. \A i \in DOMAIN js :
        LET row == Older(js[i])
        IN  row \in Row /\ LeaseOK(row) /\ VideoOK(row) /\ RowStep(js[i], row)
  <2> TAKE i \in DOMAIN js
  <2>1. js[i] \in Row /\ LeaseOK(js[i]) /\ VideoOK(js[i])
    BY RowAt
  <2>2. Older(js[i]) \in Row
    BY <2>1, ThresholdsArePositive DEF Older, Row, Ages, NoBeat
  <2>3. /\ LeaseOK(Older(js[i])) /\ VideoOK(Older(js[i]))
        /\ RowStep(js[i], Older(js[i]))
    BY <2>1, ThresholdsArePositive DEF Older, Row, Ages, NoBeat, LeaseOK, VideoOK, RowStep
  <2> QED BY <2>2, <2>3
<1> QED BY <1>1, PutRows DEF AgeRows, TableStep

LEMMA ReapStep ==
  ASSUME NEW js, TableOK(js)
  PROVE  TableStep(js, Reap(js))
<1> DEFINE reaped(row) == IF Stale(row) THEN Reclaimed(row) ELSE row
<1>1. \A i \in DOMAIN js :
        LET row == reaped(js[i])
        IN  row \in Row /\ LeaseOK(row) /\ VideoOK(row) /\ RowStep(js[i], row)
  <2> TAKE i \in DOMAIN js
  <2>1. js[i] \in Row /\ LeaseOK(js[i]) /\ VideoOK(js[i])
    BY RowAt
  <2>2. reaped(js[i]) \in Row
    BY <2>1 DEF Stale, Reclaimed, Release, Row, Statuses, Ages, NoBeat
  <2>3. /\ LeaseOK(reaped(js[i])) /\ VideoOK(reaped(js[i]))
        /\ RowStep(js[i], reaped(js[i]))
    BY <2>1, ThresholdsArePositive
       DEF Stale, Reclaimed, Release, Row, NoBeat, LeaseOK, VideoOK, RowStep
  <2> QED BY <2>2, <2>3
<1>2. Reap(js) = [i \in DOMAIN js |-> reaped(js[i])]
  BY DEF Reap
<1> QED BY <1>1, <1>2, PutRows DEF TableStep

-----------------------------------------------------------------------------
(* The inductive invariant.                                                *)

RowsOK ==
  /\ chunks \subseteq Chunk
  /\ DOMAIN images \subseteq Frames
  /\ images \in [DOMAIN images -> Modes \cup {"none"}]
  /\ written \subseteq Nat \X Nat /\ doomed \subseteq Nat \X Nat

\* A worker with a job, and a report whose lease was found good, name a row;
\* a completion says how the job ended.
WorkersOK(ws, js) ==
  /\ ws \in [Workers -> WorkerState]
  /\ \A w \in Workers : ws[w].pc \in Holding \cup {"completing"} =>
       ws[w].job \in DOMAIN js

NetOK(n, js) ==
  /\ n \subseteq Request
  /\ \A r \in n : /\ r.checked => r.op = "report" /\ r.job \in DOMAIN js
                  /\ r.op = "complete" => r.status \in {"done", "failed"}

IInv == TableOK(jobs) /\ RowsOK /\ WorkersOK(worker, jobs) /\ NetOK(net, jobs)

LEMMA InvariantSuffices == IInv => TypeOK /\ LeaseConsistent
BY DEF IInv, TableOK, RowsOK, WorkersOK, NetOK, TypeOK, LeaseConsistent

LEMMA InitOK == Init => IInv
<1> SUFFICES ASSUME Init PROVE IInv
  OBVIOUS
<1>1. TableOK(jobs)
  BY EmptySeq DEF Init, TableOK
<1>2. RowsOK
  BY DEF Init, RowsOK
<1>3. WorkersOK(worker, jobs) /\ NetOK(net, jobs)
  BY DEF Init, WorkersOK, NetOK, WorkerState, Idle, At, Holding
<1> QED BY <1>1, <1>2, <1>3 DEF IInv

\* More rows change nothing for those who name one.
LEMMA MoreRows ==
  ASSUME NEW js, NEW more, DOMAIN js \subseteq DOMAIN more, NEW ws, NEW n,
         WorkersOK(ws, js), NetOK(n, js)
  PROVE  WorkersOK(ws, more) /\ NetOK(n, more)
BY DEF WorkersOK, NetOK

LEMMA AskOK ==
  ASSUME NEW js, NEW w \in Workers, WorkersOK(worker, js),
         NEW op \in {"claim", "heartbeat", "report"},
         NEW segments \in Nat, NEW frames \in SUBSET Frames,
         NEW status \in {"done", "failed"}
  PROVE  /\ NetOK({Ask(op, w)}, js)
         /\ NetOK({[Ask("complete", w) EXCEPT !.status = status]}, js)
         /\ NetOK({[Ask(op, w) EXCEPT !.segments = segments, !.frames = frames]}, js)
<1> DEFINE told == [Ask("complete", w) EXCEPT !.status = status]
           made == [Ask(op, w) EXCEPT !.segments = segments, !.frames = frames]
<1>1. worker[w].job \in Nat /\ worker[w].attempt \in Nat
  BY DEF WorkersOK, WorkerState
<1>2. Ask(op, w) \in Request /\ Ask("complete", w) \in Request
  BY <1>1 DEF Ask, Request
<1>3. told \in Request /\ made \in Request
  BY <1>2, Zenon DEF Request
<1>4. /\ Ask(op, w).checked = FALSE /\ told.checked = FALSE /\ made.checked = FALSE
      /\ Ask(op, w).op = op /\ told.status = status /\ made.op = op
  BY Zenon DEF Ask
<1>5. op # "complete"
  OBVIOUS
<1> HIDE DEF told, made
<1>6. NetOK({Ask(op, w)}, js) /\ NetOK({told}, js) /\ NetOK({made}, js)
  BY <1>2, <1>3, <1>4, <1>5, Zenon DEF NetOK
<1> QED BY <1>6 DEF told, made

LEMMA JoinOK ==
  ASSUME NEW js, NEW n, NetOK(n, js), NEW m, NetOK(m, js), NEW S
  PROVE  NetOK(n \cup m, js) /\ NetOK(n \ S, js)
BY DEF NetOK

\* A request stays what it asks for when its client stops waiting.
LEMMA CutOK ==
  ASSUME NEW js, NEW n, NetOK(n, js), NEW S, S \subseteq n, NEW m \in Cut(n, S)
  PROVE  NetOK(m, js)
<1>1. PICK K \in SUBSET S : m = (n \ S) \cup {[r EXCEPT !.live = FALSE] : r \in K}
  BY DEF Cut
<1>2. \A r \in K : /\ r \in Request
                   /\ r.checked => r.op = "report" /\ r.job \in DOMAIN js
                   /\ r.op = "complete" => r.status \in {"done", "failed"}
  BY DEF NetOK
<1>3. \A r \in K : [r EXCEPT !.live = FALSE] \in Request
  BY <1>2, Zenon DEF Request
<1>4. \A r \in K : /\ [r EXCEPT !.live = FALSE].checked = r.checked
                   /\ [r EXCEPT !.live = FALSE].op = r.op
                   /\ [r EXCEPT !.live = FALSE].job = r.job
                   /\ [r EXCEPT !.live = FALSE].status = r.status
  BY <1>2, Zenon DEF Request
<1> DEFINE stray(r) == [r EXCEPT !.live = FALSE]
<1>5. \A r \in K : /\ stray(r).checked =>
                        stray(r).op = "report" /\ stray(r).job \in DOMAIN js
                   /\ stray(r).op = "complete" => stray(r).status \in {"done", "failed"}
  BY <1>2, <1>4
<1> HIDE DEF stray
<1>6. NetOK({stray(r) : r \in K}, js)
  BY <1>3, <1>5 DEF NetOK, stray
<1>7. NetOK({[r EXCEPT !.live = FALSE] : r \in K}, js)
  BY <1>6 DEF stray
<1> QED BY <1>1, <1>7, JoinOK

\* What a worker goes on to.
LEMMA GoOnOK ==
  ASSUME NEW js, WorkersOK(worker, js), NEW w \in Workers, NEW next \in WorkerState,
         next.pc \in Holding \cup {"completing"} => next.job \in DOMAIN js
  PROVE  WorkersOK([worker EXCEPT ![w] = next], js)
BY DEF WorkersOK

LEMMA AnswerOK ==
  ASSUME NEW js, WorkersOK(worker, js), NEW r \in Request, NEW next \in WorkerState,
         next.pc \in Holding \cup {"completing"} => next.job \in DOMAIN js,
         Answer(r, next)
  PROVE  WorkersOK(worker', js)
<1>1. r.worker \in Workers
  BY DEF Request
<1> QED BY <1>1, GoOnOK DEF Answer

LEMMA RefuseOK ==
  ASSUME WorkersOK(worker, jobs), NetOK(net, jobs), NEW r \in net, Refuse(r)
  PROVE  WorkersOK(worker', jobs) /\ NetOK(net', jobs)
<1>1. r \in Request
  BY DEF NetOK
<1>2. Idle \in WorkerState /\ Idle.pc = "idle"
  BY DEF Idle, At, WorkerState
<1>3. WorkersOK(worker', jobs)
  BY <1>1, <1>2, AnswerOK DEF Refuse, Holding
<1>4. NetOK(net \ {r}, jobs)
  BY JoinOK
<1>5. Live(r.worker) \ {r} \subseteq net \ {r}
  BY DEF Live
<1>6. NetOK(net', jobs)
  BY <1>4, <1>5, CutOK DEF Refuse
<1> QED BY <1>3, <1>6

-----------------------------------------------------------------------------
(* The steps.                                                              *)

\* What every step does.
StepOK ==
  /\ TableStep(jobs, jobs')
  /\ RowsOK'
  /\ WorkersOK(worker', jobs') /\ NetOK(net', jobs')

\* The worker's steps leave the database alone.
LEMMA WorkerOnly ==
  ASSUME IInv, UNCHANGED <<jobs, chunks, images>>,
         written' \subseteq Nat \X Nat, doomed' \subseteq Nat \X Nat,
         WorkersOK(worker', jobs), NetOK(net', jobs)
  PROVE  StepOK
<1>1. TableStep(jobs, jobs')
  BY SameTable DEF IInv
<1>2. RowsOK'
  BY DEF IInv, RowsOK
<1> QED BY <1>1, <1>2 DEF StepOK

LEMMA SendCompleteOK ==
  ASSUME IInv, NEW w \in Workers, worker[w].pc \in Holding,
         NEW status \in {"done", "failed"}, SendComplete(w, status)
  PROVE  WorkersOK(worker', jobs) /\ NetOK(net', jobs)
<1>1. PICK n \in Cut(net, Live(w)) :
        net' = n \cup {[Ask("complete", w) EXCEPT !.status = status]}
  BY DEF SendComplete
<1>2. NetOK(n, jobs)
  BY CutOK DEF IInv, Live
<1>3. NetOK({[Ask("complete", w) EXCEPT !.status = status]}, jobs)
  BY AskOK DEF IInv
<1>4. NetOK(net', jobs)
  BY <1>1, <1>2, <1>3, JoinOK
<1>5. WorkersOK(worker', jobs)
  BY DEF IInv, SendComplete, WorkersOK, WorkerState, Holding
<1> QED BY <1>4, <1>5

LEMMA FramesForOK ==
  ASSUME NEW row \in Row, RowsOK PROVE FramesFor(row) \in SUBSET Frames
<1>1. Sample(PoolOf(row.video)) \subseteq Frames
  BY DEF Sample, PoolOf, RowsOK
<1> QED BY <1>1 DEF FramesFor, Row

LEMMA WorkerStepOK ==
  ASSUME IInv, NEW w \in Workers, WorkerStep(w)
  PROVE  StepOK
<1> USE DEF IInv
<1>0. /\ written \subseteq Nat \X Nat /\ doomed \subseteq Nat \X Nat
      /\ worker[w] \in WorkerState /\ worker[w].job \in Nat /\ worker[w].attempt \in Nat
  BY DEF RowsOK, WorkersOK, WorkerState
<1>1. CASE Poll(w)
  <2>1. NetOK(net', jobs)
    BY <1>1, AskOK, JoinOK DEF Poll
  <2>2. WorkersOK(worker', jobs)
    BY <1>1 DEF Poll, WorkersOK, WorkerState, Holding
  <2> QED BY <1>0, <1>1, <2>1, <2>2, WorkerOnly DEF Poll, rows
<1>2. CASE Beat(w)
  <2>1. NetOK(net', jobs)
    BY <1>2, AskOK, JoinOK DEF Beat
  <2> QED BY <1>0, <1>2, <2>1, WorkerOnly DEF Beat, rows
<1>3. CASE BeatFails(w)
  <2>1. NetOK(net', jobs)
    BY <1>3, CutOK DEF BeatFails, Beats, Live
  <2> QED BY <1>0, <1>3, <2>1, WorkerOnly DEF BeatFails, rows
<1>4. CASE SendReport(w)
  <2> DEFINE row == jobs[worker[w].job]
             made(n) == [Ask("report", w) EXCEPT !.segments = n, !.frames = FramesFor(row)]
  <2>1. row \in Row
    BY <1>4, RowAt DEF SendReport, WorkersOK, Holding
  <2>2. PICK n \in Nat : net' = net \cup {made(n)}
    BY <1>4, CountsArePositive DEF SendReport
  <2>3. NetOK({made(n)}, jobs)
    BY <2>1, FramesForOK, AskOK
  <2>4. NetOK(net', jobs)
    BY <2>2, <2>3, JoinOK
  <2>5. WorkersOK(worker', jobs)
    BY <1>4 DEF SendReport, WorkersOK, WorkerState, Holding
  <2> QED BY <1>0, <1>4, <2>4, <2>5, WorkerOnly DEF SendReport, rows
<1>5. CASE WorkSucceeds(w)
  <2>1. WorkersOK(worker', jobs) /\ NetOK(net', jobs)
    BY <1>5, SendCompleteOK DEF WorkSucceeds, Holding
  <2> QED BY <1>0, <1>5, <2>1, WorkerOnly DEF WorkSucceeds, rows
<1>6. CASE WorkIsDoomed(w)
  <2>1. WorkersOK(worker', jobs) /\ NetOK(net', jobs)
    BY <1>6, SendCompleteOK DEF WorkIsDoomed, Holding
  <2>2. doomed' \subseteq Nat \X Nat
    BY <1>0, <1>6 DEF WorkIsDoomed
  <2> QED BY <1>0, <1>6, <2>1, <2>2, WorkerOnly DEF WorkIsDoomed
<1>7. CASE LetGo(w)
  <2>1. NetOK(net', jobs)
    BY <1>7, CutOK DEF LetGo, Live
  <2>2. WorkersOK(worker', jobs)
    BY <1>7 DEF LetGo, WorkersOK, WorkerState, Holding, Idle, At
  <2> QED BY <1>0, <1>7, <2>1, <2>2, WorkerOnly DEF LetGo, rows
<1> QED BY <1>1, <1>2, <1>3, <1>4, <1>5, <1>6, <1>7 DEF WorkerStep

\* A handler that answers r with `next`, and what it does to the database.
LEMMA AnsweredOK ==
  ASSUME IInv, NEW r \in net, TableStep(jobs, jobs'), RowsOK', net' = net \ {r},
         NEW next \in WorkerState, Answer(r, next),
         next.pc \in Holding \cup {"completing"} => next.job \in DOMAIN jobs'
  PROVE  StepOK
<1>1. DOMAIN jobs \subseteq DOMAIN jobs' /\ r \in Request
  BY DEF TableStep, IInv, NetOK
<1>2. WorkersOK(worker, jobs') /\ NetOK(net, jobs')
  BY <1>1, MoreRows DEF IInv
<1>3. WorkersOK(worker', jobs')
  BY <1>1, <1>2, AnswerOK
<1>4. NetOK(net', jobs')
  BY <1>2, JoinOK
<1> QED BY <1>3, <1>4 DEF StepOK

\* A handler that refuses r, though an insert may follow.
LEMMA RefusedOK ==
  ASSUME IInv, NEW r \in net, Refuse(r), TableStep(jobs, jobs')
  PROVE  StepOK
<1>1. DOMAIN jobs \subseteq DOMAIN jobs' /\ RowsOK'
  BY DEF TableStep, Refuse, rows, IInv, RowsOK
<1>2. WorkersOK(worker', jobs) /\ NetOK(net', jobs)
  BY RefuseOK DEF IInv
<1> QED BY <1>1, <1>2, MoreRows DEF StepOK

LEMMA SameRows ==
  ASSUME IInv, UNCHANGED rows PROVE RowsOK'
BY DEF IInv, RowsOK, rows

LEMMA IdleOK == Idle \in WorkerState /\ Idle.pc \notin Holding \cup {"completing"}
BY DEF Idle, At, WorkerState, Holding

\* A report's batch: its job is a row, its attempt is on record.
LEMMA WriteOK ==
  ASSUME IInv, NEW r \in net, NEW kinds, Write(r, kinds),
         TableStep(jobs, jobs'),
         chunks' \subseteq Chunk,
         DOMAIN images' \subseteq Frames, images' \in [DOMAIN images' -> Modes \cup {"none"}]
  PROVE  StepOK
<1>1. r \in Request /\ r.job \in Nat /\ r.attempt \in Nat /\ r.job \in DOMAIN jobs
  BY DEF IInv, NetOK, Request, Write
<1>2. At("reported", r.job, r.attempt) \in WorkerState
  BY <1>1 DEF At, WorkerState, Holding
<1>3. written' \subseteq Nat \X Nat /\ doomed' \subseteq Nat \X Nat
  BY <1>1 DEF IInv, RowsOK, Write
<1>4. RowsOK'
  BY <1>3 DEF RowsOK
<1>5. At("reported", r.job, r.attempt).job \in DOMAIN jobs'
  BY <1>1 DEF At, TableStep
<1> QED BY <1>2, <1>4, <1>5, AnsweredOK DEF Write

LEMMA FanOutOK ==
  ASSUME IInv, NEW r \in net, FanOut(r)
  PROVE  StepOK
<1> DEFINE v == jobs[r.job].video
           missing == Missing(v, r.segments)
           idOf(s) == Len(jobs) + Cardinality({t \in missing : t <= s})
           row == NewRow("chunk", v, "none", {})
<1>1. r \in Request /\ r.segments \in Nat /\ r.job \in DOMAIN jobs
  BY DEF IInv, NetOK, Request, FanOut, Write
<1>2. v \in Videos /\ v # NoVideo
  BY <1>1, RowAt, NullsAreNoIds DEF IInv, FanOut, Write, Row, VideoOK
<1>3. missing \subseteq 0 .. r.segments - 1
  BY DEF Missing
<1>4. \A T \in SUBSET missing : Cardinality(T) \in Nat
  <2>1. IsFiniteSet(0 .. r.segments - 1)
    BY <1>1, FS_Interval
  <2> HIDE DEF missing
  <2> SUFFICES ASSUME NEW T \in SUBSET missing PROVE Cardinality(T) \in Nat
    OBVIOUS
  <2>2. T \in SUBSET (0 .. r.segments - 1)
    BY <1>3
  <2>3. IsFiniteSet(T)
    BY <2>1, <2>2, FS_Subset
  <2> QED BY <2>3, FS_CardinalityType
<1>5. row \in Row /\ LeaseOK(row) /\ VideoOK(row)
  BY <1>2, NewRowOK DEF Kinds, Modes
<1>6. TableStep(jobs, jobs')
  <2> DEFINE n == Cardinality(missing)
  <2> DEFINE more == [k \in 1 .. n |-> row]
  <2>1. jobs' = jobs \o more
    BY DEF FanOut
  <2>2. n \in Nat
    BY <1>4
  <2>3. \A i \in DOMAIN jobs : RowStep(jobs[i], jobs[i])
    BY SameTable DEF TableStep, IInv
  <2> HIDE DEF row, n
  <2>4. TableOK(more)
    BY <1>5, <2>2 DEF TableOK
  <2> HIDE DEF more
  <2>5. /\ TableOK(jobs')
        /\ DOMAIN jobs \subseteq DOMAIN jobs'
        /\ \A i \in DOMAIN jobs : jobs'[i] = jobs[i]
    BY <2>1, <2>4, InsertRows DEF IInv
  <2> QED BY <2>3, <2>5 DEF TableStep
<1>7. \A s \in missing : idOf(s) \in Nat
  <2>1. Len(jobs) \in Nat
    BY LenProperties DEF IInv, TableOK
  <2> QED BY <1>4, <2>1
<1>8. \A s \in missing :
        [job |-> idOf(s), video |-> v, segment |-> s, reported |-> FALSE] \in Chunk
  <2>1. \A s \in missing : s \in Segments
    BY <1>3 DEF Segments
  <2> HIDE DEF idOf, missing, v
  <2> QED BY <1>2, <1>7, <2>1, Zenon DEF Chunk
<1>9. chunks' \subseteq Chunk
  BY <1>8 DEF FanOut, IInv, RowsOK
<1> QED BY <1>6, <1>9, WriteOK DEF FanOut, IInv, RowsOK

LEMMA ReportImagesOK ==
  ASSUME IInv, NEW r \in net, ReportImages(r)
  PROVE  StepOK
<1>1. TableStep(jobs, jobs')
  BY SameTable DEF IInv, ReportImages
<1>2. \A c \in chunks : [c EXCEPT !.reported = TRUE] \in Chunk
  BY Zenon DEF IInv, RowsOK, Chunk
<1>3. chunks' \subseteq Chunk
  BY <1>2, Zenon DEF ReportImages, IInv, RowsOK
<1> DEFINE mine == {<<c.video, c.segment>> : c \in {d \in chunks : d.job = r.job}}
<1>4. mine \subseteq Frames
  BY DEF IInv, RowsOK, Chunk, Frames
<1>5. /\ DOMAIN images' \subseteq Frames
      /\ images' \in [DOMAIN images' -> Modes \cup {"none"}]
  BY <1>4 DEF ReportImages, IInv, RowsOK
<1> QED BY <1>1, <1>3, <1>5, WriteOK DEF ReportImages

LEMMA ReportPredictionsOK ==
  ASSUME IInv, NEW r \in net, ReportPredictions(r)
  PROVE  StepOK
<1>1. jobs[r.job] \in Row
  BY RowAt DEF IInv, NetOK, ReportPredictions, Write
<1>2. TableStep(jobs, jobs')
  BY SameTable DEF IInv, ReportPredictions
<1>3. \A f \in DOMAIN images : Stamp(f, r) \in Modes \cup {"none"}
  BY <1>1 DEF Stamp, IInv, RowsOK, Row
<1> QED BY <1>2, <1>3, WriteOK DEF ReportPredictions, IInv, RowsOK

LEMMA HandleOK ==
  ASSUME IInv, NEW r \in net, Handle(r)
  PROVE  StepOK
<1> USE DEF IInv
<1>0. r \in Request /\ r.worker \in Workers
  BY DEF NetOK, Request
<1>1. CASE ClaimGranted(r)
  <2>1. PICK id \in OldestPending(jobs) :
          /\ jobs' = Claim(jobs, id, r.worker)
          /\ Answer(r, At("working", id, jobs[id].attempts + 1))
    BY <1>1 DEF ClaimGranted
  <2>2. id \in Pending(jobs) /\ id \in DOMAIN jobs
    BY DEF OldestPending, Pending
  <2>3. TableStep(jobs, jobs')
    BY <1>0, <2>1, <2>2, ClaimStep
  <2>4. id \in Nat /\ jobs[id].attempts \in Nat
    BY <2>2, RowAt DEF Row
  <2>5. /\ At("working", id, jobs[id].attempts + 1) \in WorkerState
        /\ At("working", id, jobs[id].attempts + 1).job \in DOMAIN jobs'
    BY <2>2, <2>3, <2>4 DEF At, WorkerState, Holding, TableStep
  <2>6. RowsOK' /\ net' = net \ {r}
    BY <1>1, SameRows DEF ClaimGranted
  <2> QED BY <2>1, <2>3, <2>5, <2>6, AnsweredOK
<1>2. CASE ClaimEmpty(r)
  BY <1>2, SameTable, SameRows, IdleOK, AnsweredOK DEF ClaimEmpty
<1>3. CASE HeartbeatRenews(r)
  <2>1. TableStep(jobs, jobs')
    BY <1>0, <1>3, RenewStep DEF HeartbeatRenews
  <2>2. WorkersOK(worker, jobs') /\ NetOK(net, jobs')
    BY <2>1, MoreRows DEF TableStep
  <2>3. WorkersOK(worker', jobs') /\ NetOK(net', jobs')
    BY <1>3, <2>2, JoinOK DEF HeartbeatRenews
  <2> QED BY <1>3, <2>1, <2>3, SameRows DEF HeartbeatRenews, StepOK
<1>4. CASE HeartbeatRefused(r)
  BY <1>4, SameTable, RefusedOK DEF HeartbeatRefused
<1>5. CASE ReportChecked(r)
  <2>1. r.job \in DOMAIN jobs
    BY <1>5 DEF ReportChecked, HeldBy
  <2>2. [r EXCEPT !.checked = TRUE] \in Request
    BY <1>0, Zenon DEF Request
  <2>3. [r EXCEPT !.checked = TRUE].op = r.op /\ [r EXCEPT !.checked = TRUE].job = r.job
    BY <1>0, Zenon DEF Request
  <2>4. r.op = "report"
    BY <1>5 DEF ReportChecked
  <2>5. NetOK({[r EXCEPT !.checked = TRUE]}, jobs)
    BY <2>1, <2>2, <2>3, <2>4, "report" # "complete", Zenon DEF NetOK
  <2>6. NetOK(net', jobs)
    BY <1>5, <2>5, JoinOK DEF ReportChecked
  <2>7. UNCHANGED <<jobs, rows, worker>>
    BY <1>5 DEF ReportChecked
  <2> QED BY <2>6, <2>7, SameTable, SameRows DEF StepOK
<1>6. CASE ReportRefused(r)
  BY <1>6, SameTable, RefusedOK DEF ReportRefused
<1>7. CASE FanOut(r)
  BY <1>7, FanOutOK
<1>8. CASE ReportImages(r)
  BY <1>8, ReportImagesOK
<1>9. CASE ReportPredictions(r)
  BY <1>9, ReportPredictionsOK
<1>10. CASE ReportArtifact(r)
  BY <1>10, SameTable, WriteOK DEF ReportArtifact, RowsOK
<1>11. CASE CompleteAccepted(r)
  <2> DEFINE mid == Finish(jobs, r.job, r.status)
  <2>1. r.status \in {"done", "failed"}
    BY <1>11 DEF CompleteAccepted, NetOK
  <2>2. TableStep(jobs, mid)
    BY <1>0, <1>11, <2>1, FinishStep DEF CompleteAccepted
  <2> HIDE DEF mid
  <2>3. TableStep(mid, EnqueueIfDue(mid, r.job))
        /\ \A i \in DOMAIN mid : EnqueueIfDue(mid, r.job)[i] = mid[i]
    BY <2>2, EnqueueIfDueStep DEF TableStep
  <2>4. TableStep(jobs, jobs')
    BY <1>11, <2>2, <2>3, ThenInsert DEF CompleteAccepted, mid
  <2> QED BY <1>11, <2>4, SameRows, IdleOK, AnsweredOK DEF CompleteAccepted
<1>12. CASE CompleteRefused(r)
  BY <1>12, EnqueueIfDueStep, RefusedOK DEF CompleteRefused
<1> QED BY <1>1, <1>2, <1>3, <1>4, <1>5, <1>6, <1>7, <1>8, <1>9, <1>10, <1>11, <1>12
        DEF Handle

\* Enqueueing by hand, and time.
LEMMA EnqueueOK ==
  ASSUME IInv, NEW row \in Row, LeaseOK(row), VideoOK(row),
         jobs' = Append(jobs, row), UNCHANGED <<rows, worker, net>>
  PROVE  StepOK
<1>1. TableStep(jobs, jobs')
  BY InsertRowStep DEF IInv
<1>2. WorkersOK(worker', jobs') /\ NetOK(net', jobs')
  BY <1>1, MoreRows DEF IInv, TableStep
<1> QED BY <1>1, <1>2, SameRows DEF StepOK

LEMMA AdminOK ==
  ASSUME IInv, NEW v \in Videos, SubmitVideo(v) \/ CreatePrelabel(v) \/ CreateDryRun(v)
  PROVE  StepOK
<1>0. v # NoVideo
  BY NullsAreNoIds
<1>1. CASE SubmitVideo(v)
  <2> DEFINE row == NewRow("download", v, "none", {})
  <2>1. row \in Row /\ LeaseOK(row) /\ VideoOK(row)
    BY <1>0, NewRowOK DEF Kinds
  <2>2. jobs' = Append(jobs, row) /\ UNCHANGED <<rows, worker, net>>
    BY <1>1 DEF SubmitVideo
  <2> QED BY <2>1, <2>2, EnqueueOK
<1>2. CASE CreatePrelabel(v)
  <2>1. PICK mode \in Modes, frames \in SUBSET PoolOf(v) :
          Enqueue(NewRow("prelabel", v, mode, frames))
    BY <1>2 DEF CreatePrelabel
  <2>2. frames \in SUBSET Frames
    BY DEF PoolOf, IInv, RowsOK
  <2> DEFINE row == NewRow("prelabel", v, mode, frames)
  <2>3. row \in Row /\ LeaseOK(row) /\ VideoOK(row)
    BY <1>0, <2>2, NewRowOK DEF Kinds
  <2>4. jobs' = Append(jobs, row) /\ UNCHANGED <<rows, worker, net>>
    BY <2>1 DEF Enqueue
  <2> QED BY <2>3, <2>4, EnqueueOK
<1>3. CASE CreateDryRun(v)
  <2> DEFINE row == NewRow("dryrun", v, "none", {})
  <2>1. row \in Row /\ LeaseOK(row) /\ VideoOK(row)
    BY <1>0, NewRowOK DEF Kinds
  <2>2. jobs' = Append(jobs, row) /\ UNCHANGED <<rows, worker, net>>
    BY <1>3 DEF CreateDryRun, Enqueue
  <2> QED BY <2>1, <2>2, EnqueueOK
<1> QED BY <1>1, <1>2, <1>3

LEMMA SnapshotOK ==
  ASSUME IInv, CreateSnapshot PROVE StepOK
<1> DEFINE row == NewRow("snapshot", NoVideo, "none", {})
<1>1. row \in Row /\ LeaseOK(row) /\ VideoOK(row)
  BY NewRowOK DEF Kinds
<1>2. jobs' = Append(jobs, row) /\ UNCHANGED <<rows, worker, net>>
  BY DEF CreateSnapshot, Enqueue
<1> QED BY <1>1, <1>2, EnqueueOK

LEMMA TimeOK ==
  ASSUME IInv, Tick \/ ReapStaleJobs PROVE StepOK
<1>1. TableStep(jobs, jobs')
  BY AgeRowsStep, ReapStep DEF IInv, Tick, ReapStaleJobs
<1>2. UNCHANGED <<rows, worker, net>>
  BY DEF Tick, ReapStaleJobs
<1>3. WorkersOK(worker', jobs') /\ NetOK(net', jobs')
  BY <1>1, <1>2, MoreRows DEF IInv, TableStep
<1> QED BY <1>1, <1>2, <1>3, SameRows DEF StepOK

LEMMA StrayLostOK ==
  ASSUME IInv, NEW r \in net, StrayLost(r) PROVE StepOK
BY SameTable, SameRows, JoinOK DEF IInv, StrayLost, StepOK

LEMMA NextOK ==
  ASSUME IInv, [Next]_vars PROVE StepOK
<1>1. CASE UNCHANGED vars
  BY <1>1, SameTable, SameRows DEF IInv, vars, rows, StepOK
<1>2. CASE Next
  BY <1>2, WorkerStepOK, HandleOK, StrayLostOK, AdminOK, SnapshotOK, TimeOK DEF Next
<1> QED BY <1>1, <1>2

LEMMA StepKeepsInvariant == IInv /\ StepOK => IInv'
BY DEF IInv, StepOK, TableStep

-----------------------------------------------------------------------------
(* The theorems.                                                           *)

\* The inductive invariant holds of every reachable state.
THEOREM Invariance == Spec => []IInv
<1>1. Init => IInv
  BY InitOK
<1>2. IInv /\ [Next]_vars => IInv'
  BY NextOK, StepKeepsInvariant
<1> QED BY <1>1, <1>2, PTL DEF Spec

\* Whatever the handlers, the workers, the reaper and the network do, the
\* tables, the workers and the requests keep their types.
THEOREM TypeCorrect == Spec => []TypeOK
<1>1. IInv => TypeOK
  BY InvariantSuffices
<1> QED BY <1>1, Invariance, PTL

\* The lease columns of every row agree in every reachable state: a row
\* names a holder and has a heartbeat exactly while it is claimed, and no
\* row is ever started more than MaxAttempts times.
THEOREM LeasesAgree == Spec => []LeaseConsistent
<1>1. IInv => LeaseConsistent
  BY InvariantSuffices
<1> QED BY <1>1, Invariance, PTL

\* No step, of whichever actor, overturns the outcome of a job, drops a row,
\* changes what it asks for or counts an attempt that is not a claim.
THEOREM OutcomesStand == Spec => OutcomeNotOverturned
<1>1. IInv /\ [Next]_vars =>
        [/\ DOMAIN jobs \subseteq DOMAIN jobs'
         /\ \A i \in DOMAIN jobs : RowStep(jobs[i], jobs'[i])]_vars
  BY NextOK DEF StepOK, TableStep
<1> QED BY <1>1, Invariance, PTL DEF Spec, OutcomeNotOverturned

-----------------------------------------------------------------------------
(* The refinement.  Every step of the queue is a step of JobLifecycle, or  *)
(* changes nothing that it tells of.                                       *)

LifeOf(js) == [i \in DOMAIN js |-> [phase |-> Phase(js[i]), tries |-> js[i].attempts]]

\* What tells of a row's life is its status and its attempts.
LEMMA PhaseOf ==
  ASSUME NEW row \in Row
  PROVE  /\ Phase(row) \in Lifecycle!Phases
         /\ row.status = "pending" => Phase(row) = "waiting"
         /\ row.status = "claimed" => Phase(row) = "running"
         /\ row.status \in {"done", "failed"} => Phase(row) = row.status
<1>1. row.status \in {"pending", "claimed", "done", "failed"}
  BY DEF Row, Statuses
<1>2. CASE row.status = "pending"
  BY <1>2 DEF Phase, Lifecycle!Phases
<1>3. CASE row.status = "claimed"
  BY <1>3 DEF Phase, Lifecycle!Phases
<1>4. CASE row.status \in {"done", "failed"}
  BY <1>4 DEF Phase, Lifecycle!Phases
<1> QED BY <1>1, <1>2, <1>3, <1>4

\* The life of a table is a sequence as long as the table.
LEMMA LifeIsSequence ==
  ASSUME NEW js, TableOK(js)
  PROVE  /\ LifeOf(js) \in Seq([phase : Lifecycle!Phases, tries : Nat])
         /\ Len(LifeOf(js)) = Len(js) /\ Len(js) \in Nat
         /\ DOMAIN js = 1 .. Len(js) /\ DOMAIN LifeOf(js) = 1 .. Len(js)
<1> DEFINE Lives == [phase : Lifecycle!Phases, tries : Nat]
<1>1. DOMAIN js = 1 .. Len(js) /\ Len(js) \in Nat
  BY DEF TableOK
<1>2. \A i \in DOMAIN js : [phase |-> Phase(js[i]), tries |-> js[i].attempts] \in Lives
  <2> SUFFICES ASSUME NEW i \in DOMAIN js
               PROVE  Phase(js[i]) \in Lifecycle!Phases /\ js[i].attempts \in Nat
    OBVIOUS
  <2>1. js[i] \in Row
    BY RowAt
  <2> QED BY <2>1, PhaseOf DEF Row
<1>3. LifeOf(js) \in [1 .. Len(js) -> Lives]
  BY <1>1, <1>2 DEF LifeOf
<1>4. LifeOf(js) \in Seq(Lives)
  <2> HIDE DEF Lives
  <2> QED BY <1>1, <1>3, SeqDef
<1>5. Len(LifeOf(js)) = Len(js)
  BY <1>1, <1>3, <1>4, LenProperties
<1> QED BY <1>1, <1>3, <1>4, <1>5

\* What the life of a row is.
LEMMA LifeAt ==
  ASSUME NEW js, NEW i \in DOMAIN js
  PROVE  /\ LifeOf(js)[i] = [phase |-> Phase(js[i]), tries |-> js[i].attempts]
         /\ LifeOf(js)[i].phase = Phase(js[i])
         /\ LifeOf(js)[i].tries = js[i].attempts
BY DEF LifeOf

\* Rows that keep their status and their attempts live as before.
LEMMA LifeSame ==
  ASSUME NEW js, NEW new, DOMAIN new = DOMAIN js,
         \A i \in DOMAIN js : new[i].status = js[i].status /\ new[i].attempts = js[i].attempts
  PROVE  LifeOf(new) = LifeOf(js)
BY DEF LifeOf, Phase

\* Inserted rows arrive behind those that are there.
LEMMA LifeMore ==
  ASSUME NEW js, TableOK(js), NEW new, TableOK(new), NEW n \in Nat,
         Len(new) = Len(js) + n,
         \A i \in DOMAIN js : new[i].status = js[i].status /\ new[i].attempts = js[i].attempts,
         \A i \in DOMAIN new \ DOMAIN js : new[i].status = "pending" /\ new[i].attempts = 0
  PROVE  LifeOf(new) = LifeOf(js) \o [k \in 1 .. n |-> Lifecycle!Fresh]
<1> DEFINE L == LifeOf(js)
           M == [k \in 1 .. n |-> Lifecycle!Fresh]
           Lives == [phase : Lifecycle!Phases, tries : Nat]
<1>1. /\ L \in Seq(Lives) /\ Len(L) = Len(js) /\ Len(js) \in Nat
      /\ DOMAIN js = 1 .. Len(js) /\ DOMAIN L = 1 .. Len(js)
  BY LifeIsSequence
<1>2. /\ LifeOf(new) \in Seq(Lives) /\ Len(LifeOf(new)) = Len(new)
      /\ DOMAIN new = 1 .. Len(new) /\ DOMAIN LifeOf(new) = 1 .. Len(new)
  BY LifeIsSequence
<1>3. M \in Seq(Lives) /\ Len(M) = n
  <2>1. Lifecycle!Fresh \in Lives
    BY DEF Lifecycle!Fresh, Lifecycle!Phases
  <2>2. M \in [1 .. n -> Lives]
    BY <2>1
  <2>3. M \in Seq(Lives)
    BY <2>2, SeqDef
  <2> QED BY <2>2, <2>3, LenProperties
<1>4. ASSUME NEW i \in 1 .. Len(new)
      PROVE  LifeOf(new)[i] = IF i <= Len(js) THEN L[i] ELSE M[i - Len(js)]
  <2>1. CASE i <= Len(js)
    <3>1. i \in DOMAIN js /\ i \in DOMAIN new
      BY <1>1, <1>2, <1>4, <2>1
    <3>2. /\ LifeOf(new)[i] = [phase |-> Phase(new[i]), tries |-> new[i].attempts]
          /\ L[i] = [phase |-> Phase(js[i]), tries |-> js[i].attempts]
      BY <3>1, LifeAt
    <3>3. Phase(new[i]) = Phase(js[i])
      BY <3>1 DEF Phase
    <3> QED BY <2>1, <3>1, <3>2, <3>3
  <2>2. CASE ~(i <= Len(js))
    <3>1. i \in DOMAIN new \ DOMAIN js /\ i - Len(js) \in 1 .. n
      BY <1>1, <1>2, <1>4, <2>2
    <3>2. LifeOf(new)[i] = [phase |-> Phase(new[i]), tries |-> new[i].attempts]
      BY <3>1, LifeAt
    <3>3. Phase(new[i]) = "waiting" /\ new[i].attempts = 0
      BY <3>1, RowAt, PhaseOf
    <3> QED BY <2>2, <3>1, <3>2, <3>3 DEF Lifecycle!Fresh
  <2> QED BY <2>1, <2>2
<1> HIDE DEF L, M, Lives
<1>5. /\ L \o M \in Seq(Lives) /\ Len(L \o M) = Len(new)
      /\ \A i \in 1 .. Len(new) : (L \o M)[i] = IF i <= Len(js) THEN L[i] ELSE M[i - Len(js)]
  <2>1. /\ L \o M \in Seq(Lives) /\ Len(L \o M) = Len(L) + Len(M)
        /\ \A i \in 1 .. Len(L) + Len(M) :
             (L \o M)[i] = IF i <= Len(L) THEN L[i] ELSE M[i - Len(L)]
    BY <1>1, <1>3, ConcatProperties
  <2> QED BY <1>1, <1>3, <2>1
<1>6. LifeOf(new) = L \o M
  <2>1. LifeOf(new) \in Seq(Lives) /\ Len(LifeOf(new)) = Len(new)
    BY <1>2
  <2>2. Len(L \o M) = Len(LifeOf(new))
        /\ \A i \in 1 .. Len(LifeOf(new)) : LifeOf(new)[i] = (L \o M)[i]
    BY <1>4, <1>5, <2>1
  <2> QED BY <1>5, <2>1, <2>2, SeqEqual
<1> QED BY <1>6 DEF L, M

\* The end of an attempt may bring the automatic pass with it.
LEMMA LifeDue ==
  ASSUME NEW js, TableOK(js), NEW id
  PROVE  \/ EnqueueIfDue(js, id) = js
         \/ LifeOf(EnqueueIfDue(js, id)) = LifeOf(js) \o <<Lifecycle!Fresh>>
<1> DEFINE row == NewRow("prelabel", js[id].video, "random", {})
           new == EnqueueIfDue(js, id)
<1>1. new = js \/ new = Append(js, row)
  BY DEF EnqueueIfDue
<1>2. CASE new = Append(js, row)
  <2>1. row.status = "pending" /\ row.attempts = 0
    BY DEF NewRow
  <2>2. TableOK(new) /\ js \in Seq(Row) /\ new \in Seq(Row)
    BY EnqueueIfDueStep DEF TableStep, TableOK
  <2> HIDE DEF new, row
  <2>3. /\ Len(new) = Len(js) + 1 /\ \A i \in DOMAIN js : new[i] = js[i]
        /\ \A i \in DOMAIN new \ DOMAIN js : new[i] = row
    BY <1>2, <2>2
  <2>4. LifeOf(new) = LifeOf(js) \o [k \in 1 .. 1 |-> Lifecycle!Fresh]
    <3>1. /\ Len(new) = Len(js) + 1 /\ 1 \in Nat
          /\ \A i \in DOMAIN js : new[i].status = js[i].status /\ new[i].attempts = js[i].attempts
          /\ \A i \in DOMAIN new \ DOMAIN js : new[i].status = "pending" /\ new[i].attempts = 0
      BY <2>1, <2>3
    <3> QED BY <2>2, <3>1, LifeMore
  <2>5. [k \in 1 .. 1 |-> Lifecycle!Fresh] = <<Lifecycle!Fresh>>
    OBVIOUS
  <2> QED BY <2>4, <2>5 DEF new
<1> QED BY <1>1, <1>2

\* The mapping, of a state and of the next one.
LEMMA Mapped == life = LifeOf(jobs) /\ life' = LifeOf(jobs')
BY DEF life, LifeOf

\* What the promise tells of a job is what its row says.
LEMMA MappedAt ==
  ASSUME TableOK(jobs)
  PROVE  /\ DOMAIN life = DOMAIN jobs
         /\ \A i \in DOMAIN life : /\ life[i].phase = "waiting" <=> i \in Pending(jobs)
                                   /\ life[i].phase = "running" <=> jobs[i].status = "claimed"
                                   /\ life[i] = [phase |-> Phase(jobs[i]), tries |-> jobs[i].attempts]
                                   /\ life[i].tries = jobs[i].attempts
<1>1. DOMAIN life = DOMAIN jobs
  BY DEF life
<1>2. ASSUME NEW i \in DOMAIN jobs
      PROVE  /\ life[i].phase = "waiting" <=> i \in Pending(jobs)
             /\ life[i].phase = "running" <=> jobs[i].status = "claimed"
             /\ life[i] = [phase |-> Phase(jobs[i]), tries |-> jobs[i].attempts]
             /\ life[i].tries = jobs[i].attempts
  <2>1. /\ life[i].phase = Phase(jobs[i]) /\ life[i].tries = jobs[i].attempts
        /\ life[i] = [phase |-> Phase(jobs[i]), tries |-> jobs[i].attempts]
    BY <1>2, Mapped, LifeAt
  <2>2. jobs[i] \in Row /\ jobs[i].status \in Statuses
    BY RowAt DEF Row
  <2> QED BY <1>2, <2>1, <2>2, PhaseOf DEF Pending, Statuses
<1> QED BY <1>1, <1>2

\* Rows inserted behind the others.
LEMMA InsertsArrive ==
  ASSUME TableOK(jobs), TableOK(jobs'), NEW n \in Nat \ {0}, Len(jobs') = Len(jobs) + n,
         \A i \in DOMAIN jobs : jobs'[i] = jobs[i],
         \A i \in DOMAIN jobs' \ DOMAIN jobs : jobs'[i].status = "pending" /\ jobs'[i].attempts = 0
  PROVE  Lifecycle!Arrive
<1>1. life' = life \o [k \in 1 .. n |-> Lifecycle!Fresh]
  <2>1. LifeOf(jobs') = LifeOf(jobs) \o [k \in 1 .. n |-> Lifecycle!Fresh]
    <3>1. \A i \in DOMAIN jobs : jobs'[i].status = jobs[i].status /\ jobs'[i].attempts = jobs[i].attempts
      OBVIOUS
    <3> QED BY <3>1, LifeMore
  <2> QED BY <2>1, Mapped
<1>2. Len(life') - Len(life) = n
  <2>1. Len(LifeOf(jobs)) = Len(jobs) /\ Len(LifeOf(jobs')) = Len(jobs') /\ Len(jobs) \in Nat
    BY LifeIsSequence
  <2> QED BY <2>1, Mapped
<1> QED BY <1>1, <1>2 DEF Lifecycle!Arrive

\* A row at the end of the table is a job that arrives.
LEMMA AppendArrives ==
  ASSUME TableOK(jobs), TableOK(jobs'), NEW row, jobs' = Append(jobs, row),
         row.status = "pending", row.attempts = 0
  PROVE  Lifecycle!Arrive
<1>1. jobs \in Seq(Row) /\ jobs' \in Seq(Row)
  BY DEF TableOK
<1>2. /\ Len(jobs') = Len(jobs) + 1 /\ \A i \in DOMAIN jobs : jobs'[i] = jobs[i]
      /\ \A i \in DOMAIN jobs' \ DOMAIN jobs : jobs'[i] = row
  BY <1>1
<1> QED BY <1>2, InsertsArrive, 1 \in Nat \ {0}

\* A statement that replaces one row changes one life.
LEMMA LifePut ==
  ASSUME NEW js, TableOK(js), NEW new, DOMAIN new = DOMAIN js, NEW id \in DOMAIN js,
         \A i \in DOMAIN js : i # id => new[i] = js[i],
         NEW next, next = [phase |-> Phase(new[id]), tries |-> new[id].attempts]
  PROVE  LifeOf(new) = [LifeOf(js) EXCEPT ![id] = next]
<1>1. /\ DOMAIN LifeOf(new) = DOMAIN js /\ DOMAIN LifeOf(js) = DOMAIN js
      /\ LifeOf(new) = [i \in DOMAIN js |-> LifeOf(new)[i]]
  BY DEF LifeOf
<1>2. ASSUME NEW i \in DOMAIN js
      PROVE  LifeOf(new)[i] = IF i = id THEN next ELSE LifeOf(js)[i]
  <2>1. LifeOf(new)[i] = [phase |-> Phase(new[i]), tries |-> new[i].attempts]
    BY LifeAt
  <2>2. CASE i = id
    BY <2>1, <2>2
  <2>3. CASE i # id
    <3>1. LifeOf(js)[i] = [phase |-> Phase(js[i]), tries |-> js[i].attempts]
      BY LifeAt
    <3> QED BY <2>1, <2>3, <3>1
  <2> QED BY <2>2, <2>3
<1> QED BY <1>1, <1>2

\* The claim starts the job that has waited longest.
LEMMA ClaimStarts ==
  ASSUME IInv, NEW r \in net, ClaimGranted(r) PROVE Lifecycle!Start
<1>1. PICK id \in OldestPending(jobs) : jobs' = Claim(jobs, id, r.worker)
  BY DEF ClaimGranted
<1>2. TableOK(jobs) /\ r.worker \in Workers /\ id \in Pending(jobs) /\ id \in DOMAIN jobs
  BY DEF IInv, NetOK, Request, OldestPending, Pending
<1>3. id \in Lifecycle!Waiting /\ \A k \in Lifecycle!Waiting : id <= k
  BY <1>1, <1>2, MappedAt DEF OldestPending, Pending, Lifecycle!Waiting
<1> DEFINE row == [jobs[id] EXCEPT !.status = "claimed", !.claimed_by = r.worker,
                                   !.age = 0, !.attempts = jobs[id].attempts + 1]
<1>4. jobs[id] \in Row
  BY <1>2, RowAt
<1>5. jobs' = [jobs EXCEPT ![id] = row]
  BY <1>1 DEF Claim
<1>6. row.status = "claimed" /\ row.attempts = jobs[id].attempts + 1
  BY <1>4 DEF Row
<1> HIDE DEF row
<1>7. /\ DOMAIN jobs' = DOMAIN jobs /\ jobs'[id] = row
      /\ \A i \in DOMAIN jobs : i # id => jobs'[i] = jobs[i]
  BY <1>2, <1>5
<1>8. [phase |-> "running", tries |-> life[id].tries + 1]
        = [phase |-> Phase(jobs'[id]), tries |-> jobs'[id].attempts]
  <2>1. TableOK(jobs')
    BY <1>1, <1>2, ClaimStep DEF TableStep
  <2>2. Phase(jobs'[id]) = "running"
    BY <1>2, <1>6, <1>7, <2>1, PhaseOf, RowAt
  <2>3. life[id].tries = jobs[id].attempts
    BY <1>2, MappedAt
  <2> QED BY <1>6, <1>7, <2>2, <2>3
<1>9. life' = [life EXCEPT ![id] = [phase |-> "running", tries |-> life[id].tries + 1]]
  BY <1>2, <1>7, <1>8, LifePut, Mapped
<1> QED BY <1>3, <1>9 DEF Lifecycle!Start

\* An accepted completion ends a running job, and may bring another.
LEMMA CompletionEnds ==
  ASSUME IInv, NEW r \in net, CompleteAccepted(r) PROVE Lifecycle!End
<1> DEFINE mid == Finish(jobs, r.job, r.status)
           failure == IF r.status = "failed" THEN "reported" ELSE "none"
           row == [jobs[r.job] EXCEPT !.status = r.status, !.claimed_by = NoWorker,
                                      !.age = NoBeat, !.failure = failure]
           next == [life[r.job] EXCEPT !.phase = r.status]
<1>1. /\ TableOK(jobs) /\ HeldBy(jobs, r.job, r.worker) /\ r.worker \in Workers
      /\ r.status \in {"done", "failed"} /\ jobs' = EnqueueIfDue(mid, r.job)
  BY DEF CompleteAccepted, IInv, NetOK, Request
<1>2. r.job \in DOMAIN jobs /\ jobs[r.job].status = "claimed" /\ jobs[r.job] \in Row
  BY <1>1, RowAt DEF HeldBy
<1>3. r.job \in Lifecycle!Running
  BY <1>1, <1>2, MappedAt DEF Lifecycle!Running
<1>4. row.status = r.status /\ row.attempts = jobs[r.job].attempts
  BY <1>2 DEF Row
<1>5. mid = [jobs EXCEPT ![r.job] = row]
  BY DEF Finish
<1>6. TableOK(mid)
  BY <1>1, FinishStep DEF TableStep
<1> HIDE DEF mid, row
<1>7. /\ DOMAIN mid = DOMAIN jobs /\ mid[r.job] = row
      /\ \A i \in DOMAIN jobs : i # r.job => mid[i] = jobs[i]
  BY <1>1, <1>2, <1>5
<1>8. next = [phase |-> Phase(mid[r.job]), tries |-> mid[r.job].attempts]
  <2>1. Phase(mid[r.job]) = r.status
    BY <1>1, <1>2, <1>4, <1>6, <1>7, PhaseOf, RowAt
  <2>2. life[r.job] = [phase |-> Phase(jobs[r.job]), tries |-> jobs[r.job].attempts]
    BY <1>1, <1>2, MappedAt
  <2> QED BY <1>4, <1>7, <2>1, <2>2
<1> HIDE DEF next
<1>9. LifeOf(mid) = [life EXCEPT ![r.job] = next]
  BY <1>1, <1>2, <1>7, <1>8, LifePut, Mapped
<1>10. PICK more \in {<<>>, <<Lifecycle!Fresh>>} : life' = LifeOf(mid) \o more
  <2>1. CASE jobs' = mid
    <3>1. LifeOf(mid) \in Seq([phase : Lifecycle!Phases, tries : Nat])
      BY <1>6, LifeIsSequence
    <3>2. LifeOf(mid) \o <<>> = LifeOf(mid)
      BY <3>1, ConcatEmptySeq
    <3> QED BY <2>1, <3>2, Mapped
  <2>2. CASE LifeOf(jobs') = LifeOf(mid) \o <<Lifecycle!Fresh>>
    BY <2>2, Mapped
  <2> QED BY <1>1, <1>6, <2>1, <2>2, LifeDue
<1>11. life' = [life EXCEPT ![r.job] = next] \o more
  BY <1>9, <1>10
<1> QED BY <1>1, <1>3, <1>11 DEF Lifecycle!End, next

\* The reaper gives up on the jobs whose leases are stale.
LEMMA ReaperGivesUp ==
  ASSUME IInv, ReapStaleJobs PROVE Lifecycle!GiveUp
<1> DEFINE gone == {i \in DOMAIN jobs : Stale(jobs[i])}
           next(i) == [life[i] EXCEPT !.phase = IF life[i].tries < MaxAttempts
                                                  THEN "waiting" ELSE "failed"]
<1>0. TableOK(jobs) /\ TableOK(jobs') /\ jobs' = Reap(jobs) /\ DOMAIN jobs' = DOMAIN jobs
  BY ReapStep DEF IInv, ReapStaleJobs, Reap, TableStep
<1>1. gone \in (SUBSET Lifecycle!Running) \ {{}}
  BY <1>0, MappedAt DEF ReapStaleJobs, Stale, Lifecycle!Running
<1>2. DOMAIN life' = DOMAIN life /\ DOMAIN life = DOMAIN jobs
  BY <1>0 DEF life
<1>3. ASSUME NEW i \in DOMAIN life PROVE life'[i] = IF i \in gone THEN next(i) ELSE life[i]
  <2>0. i \in DOMAIN jobs /\ i \in DOMAIN jobs' /\ jobs[i] \in Row /\ jobs'[i] \in Row
    BY <1>0, <1>2, RowAt
  <2>1. /\ life'[i] = [phase |-> Phase(jobs'[i]), tries |-> jobs'[i].attempts]
        /\ life[i] = [phase |-> Phase(jobs[i]), tries |-> jobs[i].attempts]
    BY <2>0, LifeAt, Mapped
  <2>2. jobs'[i] = IF Stale(jobs[i]) THEN Reclaimed(jobs[i]) ELSE jobs[i]
    BY <1>0, <2>0 DEF Reap
  <2>3. CASE Stale(jobs[i])
    <3>1. /\ jobs'[i].attempts = jobs[i].attempts
          /\ jobs'[i].status = IF jobs[i].attempts < MaxAttempts THEN "pending" ELSE "failed"
      BY <2>0, <2>2, <2>3 DEF Reclaimed, Release, Row
    <3>2. Phase(jobs'[i]) = IF jobs[i].attempts < MaxAttempts THEN "waiting" ELSE "failed"
      BY <2>0, <3>1, PhaseOf
    <3>3. next(i) = [phase |-> Phase(jobs'[i]), tries |-> jobs'[i].attempts]
      BY <2>1, <3>1, <3>2
    <3> QED BY <2>0, <2>1, <2>3, <3>3
  <2>4. CASE ~Stale(jobs[i])
    BY <2>1, <2>2, <2>4
  <2> QED BY <2>3, <2>4
<1>4. life' = [i \in DOMAIN life |-> IF i \in gone THEN next(i) ELSE life[i]]
  <2>1. life' = [i \in DOMAIN life' |-> life'[i]]
    BY DEF life
  <2> QED BY <1>2, <1>3, <2>1
<1> QED BY <1>1, <1>4 DEF Lifecycle!GiveUp

\* What is inserted: nothing, or rows that wait behind the others.
LEMMA DueArrives ==
  ASSUME IInv, NEW id, jobs' = EnqueueIfDue(jobs, id)
  PROVE  Lifecycle!Arrive \/ life' = life
<1> DEFINE row == NewRow("prelabel", jobs[id].video, "random", {})
<1>1. jobs' = jobs \/ jobs' = Append(jobs, row)
  BY DEF EnqueueIfDue
<1>2. row.status = "pending" /\ row.attempts = 0
  BY DEF NewRow
<1>3. TableOK(jobs) /\ TableOK(jobs')
  BY EnqueueIfDueStep DEF IInv, TableStep
<1> HIDE DEF row
<1> QED BY <1>1, <1>2, <1>3, AppendArrives, Mapped

\* The rows of a fan-out arrive together.
LEMMA FanOutArrives ==
  ASSUME IInv, NEW r \in net, FanOut(r)
  PROVE  Lifecycle!Arrive \/ life' = life
<1> DEFINE missing == Missing(jobs[r.job].video, r.segments)
           row == NewRow("chunk", jobs[r.job].video, "none", {})
           n == Cardinality(missing)
           more == [k \in 1 .. n |-> row]
<1>1. TableOK(jobs) /\ TableOK(jobs') /\ jobs' = jobs \o more
  BY FanOutOK DEF IInv, StepOK, TableStep, FanOut
<1>2. row.status = "pending" /\ row.attempts = 0
  BY DEF NewRow
<1>3. row \in Row
  <2>1. jobs[r.job].video \in Videos
    BY RowAt, NullsAreNoIds DEF IInv, NetOK, FanOut, Write, Row, VideoOK
  <2> QED BY <2>1, NewRowOK, NullsAreNoIds DEF Kinds
<1>4. n \in Nat
  <2>1. r.segments \in Nat
    BY DEF IInv, NetOK, Request
  <2>2. missing \subseteq 0 .. r.segments - 1 /\ IsFiniteSet(0 .. r.segments - 1)
    BY <2>1, FS_Interval DEF Missing
  <2> HIDE DEF missing
  <2> QED BY <2>2, FS_Subset, FS_CardinalityType
<1> HIDE DEF missing, row, n
<1>5. jobs \in Seq(Row) /\ more \in Seq(Row) /\ Len(more) = n
  BY <1>1, <1>3, <1>4 DEF TableOK
<1>6. /\ Len(jobs') = Len(jobs) + n /\ Len(jobs) \in Nat
      /\ DOMAIN jobs = 1 .. Len(jobs) /\ DOMAIN jobs' = 1 .. Len(jobs) + n
      /\ \A i \in DOMAIN jobs : jobs'[i] = jobs[i]
      /\ \A i \in DOMAIN jobs' \ DOMAIN jobs : jobs'[i] = row
  BY <1>1, <1>4, <1>5
<1>7. CASE n = 0
  <2>1. DOMAIN jobs' = DOMAIN jobs /\ \A i \in DOMAIN jobs : jobs'[i] = jobs[i]
    BY <1>6, <1>7
  <2> QED BY <2>1, LifeSame, Mapped
<1>8. CASE n # 0
  BY <1>1, <1>2, <1>4, <1>6, <1>8, InsertsArrive
<1> QED BY <1>7, <1>8

\* What an enqueue by hand inserts.
LEMMA AdminArrives ==
  ASSUME IInv, \/ \E v \in Videos : SubmitVideo(v) \/ CreatePrelabel(v) \/ CreateDryRun(v)
               \/ CreateSnapshot
  PROVE  Lifecycle!Arrive
<1>1. PICK kind, video, selection, frames :
        jobs' = Append(jobs, NewRow(kind, video, selection, frames))
  BY DEF SubmitVideo, CreatePrelabel, CreateDryRun, CreateSnapshot, Enqueue
<1> DEFINE row == NewRow(kind, video, selection, frames)
<1>2. row.status = "pending" /\ row.attempts = 0
  BY DEF NewRow
<1>3. TableOK(jobs) /\ TableOK(jobs')
  BY AdminOK, SnapshotOK DEF IInv, StepOK, TableStep
<1> HIDE DEF row
<1> QED BY <1>1, <1>2, <1>3, AppendArrives DEF row

\* A handler is a step of the lifecycle, or none.
LEMMA HandlersRefine ==
  ASSUME IInv, NEW r \in net, Handle(r)
  PROVE  Lifecycle!Next \/ life' = life
<1>1. CASE ClaimGranted(r)
  BY <1>1, ClaimStarts DEF Lifecycle!Next
<1>2. CASE HeartbeatRenews(r)
  <2>1. TableOK(jobs) /\ HeldBy(jobs, r.job, r.worker) /\ jobs' = Renew(jobs, r.job)
    BY <1>2 DEF IInv, HeartbeatRenews
  <2> DEFINE row == [jobs[r.job] EXCEPT !.age = 0]
  <2>2. /\ row.status = jobs[r.job].status /\ row.attempts = jobs[r.job].attempts
        /\ r.job \in DOMAIN jobs
    BY <2>1, RowAt DEF HeldBy, Row
  <2>3. jobs' = [jobs EXCEPT ![r.job] = row]
    BY <2>1 DEF Renew
  <2> HIDE DEF row
  <2>4. /\ DOMAIN jobs' = DOMAIN jobs
        /\ \A i \in DOMAIN jobs : /\ jobs'[i].status = jobs[i].status
                                  /\ jobs'[i].attempts = jobs[i].attempts
    BY <2>2, <2>3
  <2> QED BY <2>4, LifeSame, Mapped
<1>3. CASE FanOut(r)
  BY <1>3, FanOutArrives DEF Lifecycle!Next
<1>4. CASE CompleteAccepted(r)
  BY <1>4, CompletionEnds DEF Lifecycle!Next
<1>5. CASE CompleteRefused(r)
  BY <1>5, DueArrives DEF CompleteRefused, Lifecycle!Next
<1>6. CASE \/ ClaimEmpty(r) \/ HeartbeatRefused(r) \/ ReportChecked(r) \/ ReportRefused(r)
           \/ ReportImages(r) \/ ReportPredictions(r) \/ ReportArtifact(r)
  BY <1>6, Mapped DEF ClaimEmpty, HeartbeatRefused, ReportChecked, ReportRefused,
     ReportImages, ReportPredictions, ReportArtifact
<1> QED BY <1>1, <1>2, <1>3, <1>4, <1>5, <1>6 DEF Handle

\* So is every step.
LEMMA StepsRefine ==
  ASSUME IInv, [Next]_vars PROVE Lifecycle!Next \/ life' = life
<1>1. ASSUME NEW w \in Workers, WorkerStep(w) PROVE life' = life
  <2>1. jobs' = jobs
    BY <1>1, Zenon DEF WorkerStep, Poll, Beat, BeatFails, SendReport, WorkSucceeds,
       WorkIsDoomed, LetGo
  <2> QED BY <2>1, Mapped
<1>2. CASE \/ \E v \in Videos : SubmitVideo(v) \/ CreatePrelabel(v) \/ CreateDryRun(v)
           \/ CreateSnapshot
  BY <1>2, AdminArrives DEF Lifecycle!Next
<1>3. CASE Tick
  <2>1. TableOK(jobs) /\ jobs' = AgeRows(jobs) /\ DOMAIN jobs' = DOMAIN jobs
    BY <1>3 DEF IInv, Tick, AgeRows
  <2>2. ASSUME NEW i \in DOMAIN jobs
        PROVE  jobs'[i].status = jobs[i].status /\ jobs'[i].attempts = jobs[i].attempts
    <3>1. jobs'[i] = Older(jobs[i]) /\ jobs[i] \in Row
      BY <2>1, RowAt DEF AgeRows
    <3> QED BY <3>1 DEF Older, Row
  <2> QED BY <2>1, <2>2, LifeSame, Mapped
<1>4. CASE ReapStaleJobs
  BY <1>4, ReaperGivesUp DEF Lifecycle!Next
<1>5. CASE UNCHANGED vars \/ \E r \in net : StrayLost(r)
  BY <1>5, Mapped DEF vars, StrayLost
<1> QED BY <1>1, <1>2, <1>3, <1>4, <1>5, HandlersRefine DEF Next

\* The queue, with its leases, its strays and its reaper, keeps the promise
\* of JobLifecycle: jobs start oldest first and MaxAttempts times at most,
\* and an ended one has ended.
THEOREM QueueKeepsLifecycle == Spec => KeepsLifecycle
<1>1. Init => Lifecycle!Init
  BY DEF Init, Lifecycle!Init, life
<1>2. IInv /\ [Next]_vars => [Lifecycle!Next]_life
  BY StepsRefine
<1> QED BY <1>1, <1>2, Invariance, PTL DEF Spec, KeepsLifecycle, Lifecycle!Spec

-----------------------------------------------------------------------------
(* THE ATTEMPTS AT A JOB: no two workers make the same one, and a job ends  *)
(* because of what one of them stored or met.                              *)
(*                                                                         *)
(* Nothing in the API says which request belongs to which attempt: a       *)
(* request names a worker and a job.  The invariant ties the three places  *)
(* an attempt is remembered in to each other: the worker, the request it   *)
(* waits for, and the row.                                                 *)
-----------------------------------------------------------------------------
(* The invariant.                                                          *)

Place(op) ==
  IF op = "claim" THEN "claiming" ELSE IF op = "report" THEN "reporting"
                                                       ELSE "completing"

Calls(n) == {r \in n : r.live /\ r.op # "heartbeat"}

\* Heartbeats apart, a worker waits for one call at a time, the one its
\* place in PollOnce makes, about the attempt it is at.
CallsOK(ws, n) ==
  /\ \A r \in Calls(n) : ws[r.worker] = At(Place(r.op), r.job, r.attempt)
  /\ \A r, q \in Calls(n) : r.worker = q.worker => r = q

\* A report is about an attempt that was started, a completion about one
\* whose report was stored or which met a Terminal error.
Started(js, job, attempt) == job \in DOMAIN js /\ attempt \in 1 .. js[job].attempts

RecordOK(r, js, stored, met) ==
  /\ r.op \in {"report", "complete"} => Started(js, r.job, r.attempt)
  /\ r.op = "complete" /\ r.status = "done" => <<r.job, r.attempt>> \in stored
  /\ r.op = "complete" /\ r.status = "failed" => <<r.job, r.attempt>> \in met

RecordsOK ==
  /\ \A r \in net : RecordOK(r, jobs, written, doomed)
  /\ \A w \in Workers :
       worker[w].pc = "reported" => <<worker[w].job, worker[w].attempt>> \in written

AttemptsInv ==
  AttemptExclusive /\ CallsOK(worker, net) /\ RecordsOK
    /\ DoneHasReport /\ TransientNeverFails

-----------------------------------------------------------------------------
(* Requests that are cut off, checked or answered.                         *)

\* What a request asks for, whoever still waits for it.
Alike(q, r) ==
  /\ q.op = r.op /\ q.worker = r.worker /\ q.job = r.job /\ q.attempt = r.attempt
  /\ q.status = r.status /\ q.frames = r.frames

\* A stray asks for what the request it was asked for.
LEMMA StrayOf ==
  ASSUME NEW r \in Request
  PROVE  ~[r EXCEPT !.live = FALSE].live /\ Alike([r EXCEPT !.live = FALSE], r)
BY Zenon DEF Request, Alike

\* So does a report whose lease was found good, and its client waits on.
LEMMA CheckedOf ==
  ASSUME NEW r \in Request
  PROVE  /\ [r EXCEPT !.checked = TRUE].live = r.live
         /\ Alike([r EXCEPT !.checked = TRUE], r)
BY Zenon DEF Request, Alike

\* Nobody waits for what was cut off, and what stays was there.
LEMMA CutLeaves ==
  ASSUME NEW n, n \subseteq Request, NEW S, S \subseteq n, NEW m \in Cut(n, S)
  PROVE  /\ Calls(m) \subseteq Calls(n) \ S
         /\ \A q \in m : \E r \in n : Alike(q, r)
<1>1. PICK K \in SUBSET S : m = (n \ S) \cup {[r EXCEPT !.live = FALSE] : r \in K}
  BY DEF Cut
<1>2. ASSUME NEW q \in m
      PROVE  (q \in n /\ q \notin S) \/ (\E r \in n : ~q.live /\ Alike(q, r))
  <2>1. CASE q \in n \ S
    BY <2>1
  <2>2. CASE q \notin n \ S
    <3>1. PICK r \in K : q = [r EXCEPT !.live = FALSE]
      BY <1>1, <1>2, <2>2
    <3>2. r \in n /\ r \in Request
      OBVIOUS
    <3> QED BY <3>1, <3>2, StrayOf
  <2> QED BY <2>1, <2>2
<1>3. \A q \in n : Alike(q, q)
  BY DEF Alike
<1>4. Calls(m) \subseteq Calls(n) \ S
  BY <1>2, Zenon DEF Calls
<1> QED BY <1>2, <1>3, <1>4

LEMMA CutAlike ==
  ASSUME IInv, NEW S \in SUBSET net, NEW m, m \in Cut(net, S)
  PROVE  \A q \in m : \E r \in net : Alike(q, r)
<1>1. net \subseteq Request
  BY DEF IInv, NetOK
<1> QED BY <1>1, CutLeaves

\* Answering a call, or cutting calls off, leaves the others as they were.
LEMMA CallsKept ==
  ASSUME NEW ws, NEW n, CallsOK(ws, n), NEW vs, NEW m, Calls(m) \subseteq Calls(n),
         \A q \in Calls(m) : vs[q.worker] = ws[q.worker]
  PROVE  CallsOK(vs, m)
BY DEF CallsOK

\* A worker that waited for nothing makes a call.
LEMMA CallsMore ==
  ASSUME NEW ws, NEW n, CallsOK(ws, n), NEW vs, NEW m, NEW a,
         Calls(m) \subseteq Calls(n),
         \A q \in Calls(m) : q.worker # a.worker /\ vs[q.worker] = ws[q.worker],
         vs[a.worker] = At(Place(a.op), a.job, a.attempt)
  PROVE  CallsOK(vs, m \cup {a})
<1>1. Calls(m \cup {a}) \subseteq Calls(m) \cup {a}
  BY DEF Calls
<1>2. CallsOK(vs, m)
  BY CallsKept
<1> QED BY <1>1, <1>2 DEF CallsOK

\* The place a worker is at says which call, if any, it waits for.
LEMMA WaitsFor ==
  ASSUME NEW ws, NEW n, CallsOK(ws, n), NEW q \in Calls(n)
  PROVE  /\ ws[q.worker].pc = Place(q.op)
         /\ ws[q.worker].job = q.job /\ ws[q.worker].attempt = q.attempt
         /\ ws[q.worker].pc \in {"claiming", "reporting", "completing"}
<1>1. ws[q.worker] = At(Place(q.op), q.job, q.attempt)
  BY DEF CallsOK
<1>2. Place(q.op) \in {"claiming", "reporting", "completing"}
  BY DEF Place
<1> QED BY <1>1, <1>2 DEF At

\* The client of a request, when it is answered or refused.
LEMMA CallsAnswered ==
  ASSUME IInv, CallsOK(worker, net), NEW r \in net, r.op # "heartbeat",
         NEW next, Answer(r, next), NEW m, Calls(m) \subseteq Calls(net) \ {r}
  PROVE  CallsOK(worker', m)
<1>1. \A q \in Calls(m) : q \in Calls(net) /\ q # r
  OBVIOUS
<1>2. CASE r.live
  <2>1. r \in Calls(net)
    BY <1>2 DEF Calls
  <2>2. \A q \in Calls(m) : q.worker # r.worker
    BY <1>1, <2>1 DEF CallsOK
  <2>3. worker' = [worker EXCEPT ![r.worker] = next]
    BY <1>2 DEF Answer
  <2>4. \A q \in Calls(net) : q.worker \in Workers
    BY DEF IInv, NetOK, Request, Calls
  <2>5. worker \in [Workers -> WorkerState]
    BY DEF IInv, WorkersOK
  <2>6. \A q \in Calls(m) : worker'[q.worker] = worker[q.worker]
    BY <1>1, <2>2, <2>3, <2>4, <2>5
  <2> QED BY <1>1, <2>6, CallsKept
<1>3. CASE ~r.live
  BY <1>1, <1>3, CallsKept DEF Answer
<1> QED BY <1>2, <1>3

LEMMA CallsRefused ==
  ASSUME IInv, CallsOK(worker, net), NEW r \in net, Refuse(r)
  PROVE  CallsOK(worker', net')
<1>0. net \subseteq Request /\ r \in Request /\ net \ {r} \subseteq Request
  BY DEF IInv, NetOK
<1>1. CASE r.live
  <2> DEFINE others == Live(r.worker) \ {r}
  <2>1. others \subseteq net \ {r} /\ net' \in Cut(net \ {r}, others)
    BY <1>1 DEF Refuse, Live
  <2> DEFINE left == net \ {r}
  <2> HIDE DEF others, left
  <2>a. others \subseteq left /\ net' \in Cut(left, others) /\ left \subseteq Request
    BY <1>0, <2>1 DEF left
  <2>2. Calls(net') \subseteq Calls(left) \ others
    BY <2>a, CutLeaves
  <2>3. \A q \in Calls(net') : q \in Calls(net) /\ q.worker # r.worker
    BY <2>2 DEF Calls, Live, left, others
  <2>4. worker' = [worker EXCEPT ![r.worker] = Idle]
    BY <1>1 DEF Refuse, Answer
  <2>5. worker \in [Workers -> WorkerState] /\ \A q \in Calls(net) : q.worker \in Workers
    BY DEF IInv, WorkersOK, NetOK, Request, Calls
  <2>6. \A q \in Calls(net') : worker'[q.worker] = worker[q.worker]
    BY <2>3, <2>4, <2>5
  <2> QED BY <2>3, <2>6, CallsKept
<1>2. CASE ~r.live
  <2>1. net' = net \ {r} /\ worker' = worker
    BY <1>2 DEF Refuse, Answer
  <2>2. Calls(net') \subseteq Calls(net)
    BY <2>1 DEF Calls
  <2> QED BY <2>1, <2>2, CallsKept
<1> QED BY <1>1, <1>2

LEMMA RefuseAlike ==
  ASSUME IInv, NEW r \in net, Refuse(r)
  PROVE  \A q \in net' : \E p \in net : Alike(q, p)
<1> DEFINE left == net \ {r}
           others == Live(r.worker) \ {r}
<1>1. left \subseteq Request /\ left \subseteq net /\ others \subseteq left
  BY DEF IInv, NetOK, Live
<1>2. net' = left \/ net' \in Cut(left, others)
  BY DEF Refuse
<1>3. \A q \in net : Alike(q, q)
  BY DEF Alike
<1> HIDE DEF left, others
<1> QED BY <1>1, <1>2, <1>3, CutLeaves

\* What a worker asks about is the attempt it is at.
LEMMA AskFields ==
  ASSUME NEW w \in Workers, NEW op, NEW status, NEW segments, NEW frames
  PROVE  LET told == [Ask("complete", w) EXCEPT !.status = status]
             made == [Ask(op, w) EXCEPT !.segments = segments, !.frames = frames]
             plain == Ask(op, w)
         IN  /\ told.op = "complete" /\ told.worker = w /\ told.status = status
             /\ told.job = worker[w].job /\ told.attempt = worker[w].attempt
             /\ made.op = op /\ made.worker = w /\ made.frames = frames
             /\ made.job = worker[w].job /\ made.attempt = worker[w].attempt
             /\ plain.op = op /\ plain.worker = w
             /\ plain.job = worker[w].job /\ plain.attempt = worker[w].attempt
BY Zenon DEF Ask

-----------------------------------------------------------------------------
(* Workers and the calls they wait for.                                    *)

\* A worker elsewhere than in a call waits for none.
LEMMA WaitsForNone ==
  ASSUME CallsOK(worker, net), NEW w,
         worker[w].pc \notin {"claiming", "reporting", "completing"}
  PROVE  \A q \in Calls(net) : q.worker # w
BY WaitsFor

\* Moving a worker on moves no other.
LEMMA MovedOn ==
  ASSUME IInv, NEW w \in Workers, NEW next, worker' = [worker EXCEPT ![w] = next]
  PROVE  /\ worker'[w] = next
         /\ \A q \in Calls(net) : q.worker # w => worker'[q.worker] = worker[q.worker]
BY DEF IInv, WorkersOK, NetOK, Request, Calls

\* The rest of a worker stays when its place changes.
LEMMA PlaceMoves ==
  ASSUME IInv, NEW w \in Workers, NEW pc
  PROVE  [worker EXCEPT ![w].pc = pc]
           = [worker EXCEPT ![w] = At(pc, worker[w].job, worker[w].attempt)]
<1>1. worker \in [Workers -> WorkerState]
  BY DEF IInv, WorkersOK
<1>2. [worker[w] EXCEPT !.pc = pc] = At(pc, worker[w].job, worker[w].attempt)
  BY <1>1 DEF WorkerState, At
<1> QED BY <1>1, <1>2

LEMMA CallsWorkerStep ==
  ASSUME IInv, CallsOK(worker, net), NEW w \in Workers, WorkerStep(w)
  PROVE  CallsOK(worker', net')
<1> DEFINE mine(pc) == At(pc, worker[w].job, worker[w].attempt)
<1>0. net \subseteq Request
  BY DEF IInv, NetOK
<1>1. CASE Poll(w)
  <2> DEFINE a == Ask("claim", w)
  <2>1. worker' = [worker EXCEPT ![w] = mine("claiming")] /\ net' = net \cup {a}
    BY <1>1, PlaceMoves DEF Poll
  <2>2. \A q \in Calls(net) : q.worker # w
    BY <1>1, WaitsForNone DEF Poll
  <2>3. /\ a.worker = w /\ a.op = "claim" /\ a.job = worker[w].job
        /\ a.attempt = worker[w].attempt
    BY AskFields
  <2> HIDE DEF a
  <2>4. /\ worker'[w] = mine("claiming")
        /\ \A q \in Calls(net) : q.worker # w => worker'[q.worker] = worker[q.worker]
    BY <2>1, MovedOn
  <2>5. worker'[a.worker] = At(Place(a.op), a.job, a.attempt)
    BY <2>3, <2>4 DEF Place
  <2>6. \A q \in Calls(net) : q.worker # a.worker /\ worker'[q.worker] = worker[q.worker]
    BY <2>2, <2>3, <2>4
  <2> QED BY <2>1, <2>5, <2>6, CallsMore
<1>2. CASE Beat(w)
  <2>1. Ask("heartbeat", w).op = "heartbeat"
    BY AskFields
  <2>2. Calls(net') \subseteq Calls(net) /\ worker' = worker
    BY <1>2, <2>1 DEF Beat, Calls
  <2> QED BY <2>2, CallsKept
<1>3. CASE BeatFails(w)
  <2>1. Calls(net') \subseteq Calls(net) /\ worker' = worker
    BY <1>0, <1>3, CutLeaves DEF BeatFails, Beats, Live
  <2> QED BY <2>1, CallsKept
<1>4. CASE SendReport(w)
  <2> DEFINE frames == FramesFor(jobs[worker[w].job])
             made(n) == [Ask("report", w) EXCEPT !.segments = n, !.frames = frames]
  <2>1. PICK n : net' = net \cup {made(n)}
    BY <1>4 DEF SendReport
  <2> DEFINE a == made(n)
  <2>2. worker' = [worker EXCEPT ![w] = mine("reporting")]
    BY <1>4, PlaceMoves DEF SendReport
  <2>3. \A q \in Calls(net) : q.worker # w
    BY <1>4, WaitsForNone DEF SendReport
  <2>4. /\ a.worker = w /\ a.op = "report" /\ a.job = worker[w].job
        /\ a.attempt = worker[w].attempt
    BY AskFields
  <2>5. net' = net \cup {a}
    BY <2>1
  <2> HIDE DEF a
  <2>6. /\ worker'[w] = mine("reporting")
        /\ \A q \in Calls(net) : q.worker # w => worker'[q.worker] = worker[q.worker]
    BY <2>2, MovedOn
  <2>7. worker'[a.worker] = At(Place(a.op), a.job, a.attempt)
    BY <2>4, <2>6 DEF Place
  <2>8. \A q \in Calls(net) : q.worker # a.worker /\ worker'[q.worker] = worker[q.worker]
    BY <2>3, <2>4, <2>6
  <2> QED BY <2>5, <2>7, <2>8, CallsMore
<1>5. ASSUME NEW status, SendComplete(w, status) PROVE CallsOK(worker', net')
  <2> DEFINE a == [Ask("complete", w) EXCEPT !.status = status]
  <2>1. PICK n \in Cut(net, Live(w)) : net' = n \cup {a}
    BY <1>5 DEF SendComplete
  <2>2. worker' = [worker EXCEPT ![w] = mine("completing")]
    BY <1>5, PlaceMoves DEF SendComplete
  <2>3. Live(w) \subseteq net
    BY DEF Live
  <2>4. Calls(n) \subseteq Calls(net) \ Live(w)
    BY <1>0, <2>3, CutLeaves
  <2>5. \A q \in Calls(n) : q \in Calls(net) /\ q.worker # w
    BY <2>4 DEF Calls, Live
  <2>6. /\ a.worker = w /\ a.op = "complete" /\ a.job = worker[w].job
        /\ a.attempt = worker[w].attempt
    BY AskFields
  <2> HIDE DEF a
  <2>7. /\ worker'[w] = mine("completing")
        /\ \A q \in Calls(net) : q.worker # w => worker'[q.worker] = worker[q.worker]
    BY <2>2, MovedOn
  <2>8. worker'[a.worker] = At(Place(a.op), a.job, a.attempt)
    BY <2>6, <2>7 DEF Place
  <2>9. /\ Calls(n) \subseteq Calls(net)
        /\ \A q \in Calls(n) : q.worker # a.worker /\ worker'[q.worker] = worker[q.worker]
    BY <2>5, <2>6, <2>7
  <2> QED BY <2>1, <2>8, <2>9, CallsMore
<1>6. CASE WorkSucceeds(w)
  BY <1>5, <1>6 DEF WorkSucceeds
<1>7. CASE WorkIsDoomed(w)
  BY <1>5, <1>7 DEF WorkIsDoomed
<1>8. CASE LetGo(w)
  <2>1. worker' = [worker EXCEPT ![w] = Idle] /\ net' \in Cut(net, Live(w))
    BY <1>8 DEF LetGo
  <2>2. Calls(net') \subseteq Calls(net) \ Live(w)
    BY <1>0, <2>1, CutLeaves DEF Live
  <2>3. \A q \in Calls(net') : q \in Calls(net) /\ q.worker # w
    BY <2>2 DEF Calls, Live
  <2>4. \A q \in Calls(net') : worker'[q.worker] = worker[q.worker]
    BY <2>1, <2>3, MovedOn
  <2> QED BY <2>3, <2>4, CallsKept
<1> QED BY <1>1, <1>2, <1>3, <1>4, <1>6, <1>7, <1>8 DEF WorkerStep

LEMMA CallsHandle ==
  ASSUME IInv, CallsOK(worker, net), NEW r \in net, Handle(r)
  PROVE  CallsOK(worker', net')
<1>0. net \subseteq Request /\ Calls(net \ {r}) \subseteq Calls(net) \ {r}
  BY DEF IInv, NetOK, Calls
<1>1. CASE ClaimGranted(r)
  BY <1>0, <1>1, CallsAnswered, "claim" # "heartbeat" DEF ClaimGranted
<1>2. CASE ClaimEmpty(r)
  BY <1>0, <1>2, CallsAnswered, "claim" # "heartbeat" DEF ClaimEmpty
<1>3. CASE HeartbeatRenews(r)
  BY <1>0, <1>3, CallsKept DEF HeartbeatRenews
<1>4. CASE HeartbeatRefused(r)
  BY <1>4, CallsRefused DEF HeartbeatRefused
<1>5. CASE ReportChecked(r)
  <2> DEFINE a == [r EXCEPT !.checked = TRUE]
  <2>1. net' = (net \ {r}) \cup {a} /\ worker' = worker /\ r.op = "report"
    BY <1>5 DEF ReportChecked
  <2>2. a.live = r.live /\ Alike(a, r)
    BY <1>0, CheckedOf
  <2> HIDE DEF a
  <2>3. CASE r.live
    <3>1. r \in Calls(net)
      BY <2>1, <2>3 DEF Calls
    <3>2. \A q \in Calls(net \ {r}) : q.worker # r.worker
      BY <1>0, <3>1 DEF CallsOK
    <3>3. worker[r.worker] = At(Place(r.op), r.job, r.attempt)
      BY <3>1 DEF CallsOK
    <3>4. worker'[a.worker] = At(Place(a.op), a.job, a.attempt)
      BY <2>1, <2>2, <3>3 DEF Alike
    <3>5. Calls(net \ {r}) \subseteq Calls(net)
      BY <1>0
    <3>6. \A q \in Calls(net \ {r}) : q.worker # a.worker /\ worker'[q.worker] = worker[q.worker]
      BY <2>1, <2>2, <3>2 DEF Alike
    <3> DEFINE left == net \ {r}
    <3> HIDE DEF left
    <3>7. CallsOK(worker', left \cup {a})
      BY <3>4, <3>5, <3>6, CallsMore DEF left
    <3> QED BY <2>1, <3>7 DEF left
  <2>4. CASE ~r.live
    <3>1. Calls(net') \subseteq Calls(net)
      BY <2>1, <2>2, <2>4, Zenon DEF Calls
    <3> QED BY <2>1, <3>1, CallsKept
  <2> QED BY <2>3, <2>4
<1>6. CASE ReportRefused(r)
  BY <1>6, CallsRefused DEF ReportRefused
<1>7. ASSUME NEW kinds, Write(r, kinds) PROVE CallsOK(worker', net')
  BY <1>0, <1>7, CallsAnswered, "report" # "heartbeat" DEF Write
<1>8. CASE FanOut(r)
  BY <1>7, <1>8 DEF FanOut
<1>9. CASE ReportImages(r)
  BY <1>7, <1>9 DEF ReportImages
<1>10. CASE ReportPredictions(r)
  BY <1>7, <1>10 DEF ReportPredictions
<1>11. CASE ReportArtifact(r)
  BY <1>7, <1>11 DEF ReportArtifact
<1>12. CASE CompleteAccepted(r)
  BY <1>0, <1>12, CallsAnswered, "complete" # "heartbeat" DEF CompleteAccepted
<1>13. CASE CompleteRefused(r)
  BY <1>13, CallsRefused DEF CompleteRefused
<1> QED BY <1>1, <1>2, <1>3, <1>4, <1>5, <1>6, <1>8, <1>9, <1>10, <1>11, <1>12, <1>13
        DEF Handle

-----------------------------------------------------------------------------
(* Steps that neither grant a claim nor accept a completion.               *)

\* Such a statement starts no attempt, moves no lease to another worker and
\* ends no job, unless its attempts are exhausted.
QuietRow(old, new) ==
  /\ new.attempts = old.attempts
  /\ new.status = "claimed" => old.status = "claimed" /\ new.claimed_by = old.claimed_by
  /\ new.status = "done" => old.status = "done"
  /\ new.status = "failed" => old.status = "failed" \/ new.failure = "exhausted"

Quiet(old, new) ==
  /\ \A i \in DOMAIN new \ DOMAIN old : new[i].status = "pending"
  /\ \A i \in DOMAIN old : i \in DOMAIN new /\ QuietRow(old[i], new[i])

LEMMA QuietSame == ASSUME NEW js PROVE Quiet(js, js)
BY DEF Quiet, QuietRow

LEMMA QuietInsert ==
  ASSUME NEW js, TableOK(js), NEW row \in Row, LeaseOK(row), VideoOK(row),
         row.status = "pending"
  PROVE  Quiet(js, Append(js, row))
<1>1. js \in Seq(Row)
  BY DEF TableOK
<1>2. /\ DOMAIN Append(js, row) = DOMAIN js \cup {Len(js) + 1}
      /\ Append(js, row)[Len(js) + 1] = row
  BY <1>1
<1> QED BY <1>2, InsertRow DEF Quiet, QuietRow

LEMMA QuietInserts ==
  ASSUME NEW js, TableOK(js), NEW n \in Nat, NEW row \in Row, row.status = "pending"
  PROVE  Quiet(js, js \o [k \in 1 .. n |-> row])
<1> DEFINE more == [k \in 1 .. n |-> row]
           new == js \o more
<1>1. js \in Seq(Row) /\ more \in Seq(Row) /\ Len(more) = n
  BY DEF TableOK
<1>2. /\ new \in Seq(Row)
      /\ Len(new) = Len(js) + n
      /\ \A i \in 1 .. Len(js) + n :
           new[i] = IF i <= Len(js) THEN js[i] ELSE more[i - Len(js)]
  BY <1>1, ConcatProperties
<1>3. /\ DOMAIN js = 1 .. Len(js) /\ Len(js) \in Nat
      /\ DOMAIN new = 1 .. Len(js) + n
  BY <1>1, <1>2, LenProperties
<1>4. \A k \in 1 .. n : more[k] = row
  OBVIOUS
<1> HIDE DEF new, more
<1>5. \A i \in DOMAIN js : i \in DOMAIN new /\ new[i] = js[i]
  BY <1>2, <1>3
<1>6. \A i \in DOMAIN new \ DOMAIN js : new[i] = row
  BY <1>2, <1>3, <1>4
<1>7. Quiet(js, new)
  BY <1>5, <1>6 DEF Quiet, QuietRow
<1> QED BY <1>7 DEF new, more

LEMMA QuietEnqueueIfDue ==
  ASSUME NEW js, TableOK(js), NEW id
  PROVE  Quiet(js, EnqueueIfDue(js, id))
<1>1. CASE PrelabelDue(js, id)
  <2> DEFINE row == NewRow("prelabel", js[id].video, "random", {})
  <2>1. js[id].video \in Videos /\ js[id].video # NoVideo
    BY <1>1, RowAt, NullsAreNoIds DEF PrelabelDue, Row, VideoOK
  <2>2. row \in Row /\ LeaseOK(row) /\ VideoOK(row)
    BY <2>1, NewRowOK DEF Kinds, Modes
  <2>3. row.status = "pending"
    BY DEF NewRow
  <2>4. EnqueueIfDue(js, id) = Append(js, row)
    BY <1>1 DEF EnqueueIfDue
  <2> HIDE DEF row
  <2> QED BY <2>2, <2>3, <2>4, QuietInsert
<1>2. CASE ~PrelabelDue(js, id)
  BY <1>2, QuietSame DEF EnqueueIfDue
<1> QED BY <1>1, <1>2

LEMMA QuietUpdates ==
  ASSUME NEW js, TableOK(js)
  PROVE  /\ \A id : Quiet(js, Renew(js, id))
         /\ Quiet(js, AgeRows(js)) /\ Quiet(js, Reap(js))
<1>1. ASSUME NEW i \in DOMAIN js
      PROVE  /\ QuietRow(js[i], js[i])
             /\ QuietRow(js[i], [js[i] EXCEPT !.age = 0])
             /\ QuietRow(js[i], Older(js[i]))
             /\ Stale(js[i]) => QuietRow(js[i], Reclaimed(js[i]))
  <2>1. js[i] \in Row
    BY RowAt
  <2>2. QuietRow(js[i], js[i]) /\ QuietRow(js[i], [js[i] EXCEPT !.age = 0])
    BY <2>1 DEF QuietRow, Row
  <2>3. QuietRow(js[i], Older(js[i]))
    BY <2>1 DEF QuietRow, Row, Older
  <2>4. Stale(js[i]) => QuietRow(js[i], Reclaimed(js[i]))
    BY <2>1 DEF QuietRow, Row, Stale, Reclaimed, Release
  <2> QED BY <2>2, <2>3, <2>4
<1>2. ASSUME NEW id PROVE Quiet(js, Renew(js, id))
  <2>1. CASE id \in DOMAIN js
    BY <1>1, <2>1 DEF Quiet, Renew
  <2>2. CASE id \notin DOMAIN js
    BY <1>1, <2>2 DEF Quiet, Renew
  <2> QED BY <2>1, <2>2
<1>3. Quiet(js, AgeRows(js))
  BY <1>1 DEF Quiet, AgeRows
<1>4. Quiet(js, Reap(js))
  BY <1>1 DEF Quiet, Reap
<1> QED BY <1>2, <1>3, <1>4

-----------------------------------------------------------------------------
(* What was started, stored and met stays so.                              *)

LEMMA StartedStays ==
  ASSUME NEW js, TableOK(js), NEW new, TableStep(js, new), NEW job, NEW attempt,
         Started(js, job, attempt)
  PROVE  Started(new, job, attempt)
<1>1. job \in DOMAIN js /\ job \in DOMAIN new /\ attempt \in 1 .. js[job].attempts
  BY DEF Started, TableStep
<1>2. js[job].attempts \in Nat /\ new[job].attempts \in Nat
  BY <1>1, RowAt DEF TableStep, Row
<1>3. new[job].attempts = js[job].attempts \/ new[job].attempts = js[job].attempts + 1
  BY <1>1 DEF TableStep, RowStep
<1> QED BY <1>1, <1>2, <1>3 DEF Started

LEMMA RecordKept ==
  ASSUME NEW js, TableOK(js), NEW new, TableStep(js, new),
         NEW stored, NEW stored2, stored \subseteq stored2,
         NEW met, NEW met2, met \subseteq met2,
         NEW r, RecordOK(r, js, stored, met), NEW q, Alike(q, r)
  PROVE  RecordOK(q, new, stored2, met2)
BY StartedStays DEF RecordOK, Alike

LEMMA HistoryGrows ==
  ASSUME [Next]_vars
  PROVE  written \subseteq written' /\ doomed \subseteq doomed'
<1>1. CASE UNCHANGED vars
  BY <1>1 DEF vars
<1>2. ASSUME NEW w \in Workers, WorkerStep(w)
      PROVE  written \subseteq written' /\ doomed \subseteq doomed'
  BY <1>2, Zenon DEF WorkerStep, Poll, Beat, BeatFails, SendReport, WorkSucceeds,
     WorkIsDoomed, LetGo, rows
<1>3. ASSUME NEW r \in net, Handle(r) \/ StrayLost(r)
      PROVE  written \subseteq written' /\ doomed \subseteq doomed'
  BY <1>3, Zenon DEF Handle, StrayLost, ClaimGranted, ClaimEmpty, HeartbeatRenews,
     HeartbeatRefused, ReportChecked, ReportRefused, FanOut, ReportImages,
     ReportPredictions, ReportArtifact, Write, CompleteAccepted, CompleteRefused,
     Refuse, rows
<1>4. ASSUME \/ \E v \in Videos : SubmitVideo(v) \/ CreatePrelabel(v) \/ CreateDryRun(v)
             \/ CreateSnapshot \/ Tick \/ ReapStaleJobs
      PROVE  written \subseteq written' /\ doomed \subseteq doomed'
  BY <1>4, Zenon DEF SubmitVideo, CreatePrelabel, CreateDryRun, CreateSnapshot, Enqueue,
     Tick, ReapStaleJobs, rows
<1> QED BY <1>1, <1>2, <1>3, <1>4 DEF Next

\* The requests there were keep their records, whoever still waits.
LEMMA RecordsKept ==
  ASSUME IInv, RecordsOK, [Next]_vars, NEW q, NEW r \in net, Alike(q, r)
  PROVE  RecordOK(q, jobs', written', doomed')
BY NextOK, HistoryGrows, RecordKept DEF IInv, StepOK, RecordsOK

\* The outcomes there were keep their reasons.
LEMMA OutcomesKept ==
  ASSUME TableStep(jobs, jobs'), Quiet(jobs, jobs'),
         written \subseteq written', doomed \subseteq doomed',
         DoneHasReport, TransientNeverFails
  PROVE  DoneHasReport' /\ TransientNeverFails'
<1>1. ASSUME NEW i \in DOMAIN jobs', jobs'[i].status \in {"done", "failed"}
      PROVE  \/ jobs'[i].failure = "exhausted" /\ jobs'[i].status = "failed"
             \/ i \in DOMAIN jobs /\ jobs'[i] = jobs[i]
  <2>1. i \in DOMAIN jobs
    BY <1>1 DEF Quiet
  <2>2. QuietRow(jobs[i], jobs'[i]) /\ RowStep(jobs[i], jobs'[i])
    BY <2>1 DEF Quiet, TableStep
  <2> QED BY <1>1, <2>1, <2>2 DEF QuietRow, RowStep
<1>2. DoneHasReport'
  <2> SUFFICES ASSUME NEW i \in DOMAIN jobs', jobs'[i].status = "done"
               PROVE  \E a \in 1 .. jobs'[i].attempts : <<i, a>> \in written'
    BY DEF DoneHasReport
  <2>1. i \in DOMAIN jobs /\ jobs'[i] = jobs[i]
    BY <1>1
  <2> QED BY <2>1 DEF DoneHasReport
<1>3. TransientNeverFails'
  <2> SUFFICES ASSUME NEW i \in DOMAIN jobs', jobs'[i].status = "failed"
               PROVE  \/ jobs'[i].failure = "exhausted"
                      \/ \E a \in 1 .. jobs'[i].attempts : <<i, a>> \in doomed'
    BY DEF TransientNeverFails
  <2>1. CASE i \in DOMAIN jobs /\ jobs'[i] = jobs[i]
    BY <2>1 DEF TransientNeverFails
  <2> QED BY <1>1, <2>1
<1> QED BY <1>2, <1>3

\* What AttemptExclusive says of one worker.
OwnOK(w) ==
  /\ worker[w].job \in DOMAIN jobs
  /\ worker[w].attempt \in 1 .. jobs[worker[w].job].attempts
  /\ (/\ jobs[worker[w].job].status = "claimed"
      /\ jobs[worker[w].job].attempts = worker[w].attempt)
       => jobs[worker[w].job].claimed_by = w
  /\ \A x \in Workers \ {w} : Believes(x) =>
       <<worker[x].job, worker[x].attempt>> # <<worker[w].job, worker[w].attempt>>

\* A worker at an attempt, when no attempt is started.
LEMMA OwnersKept ==
  ASSUME AttemptExclusive, Quiet(jobs, jobs'),
         \A w \in Workers : Believes(w)' =>
            /\ Believes(w)
            /\ worker'[w].job = worker[w].job /\ worker'[w].attempt = worker[w].attempt
  PROVE  AttemptExclusive'
<1> SUFFICES ASSUME NEW w \in Workers, Believes(w)' PROVE OwnOK(w)'
  BY DEF AttemptExclusive, OwnOK
<1>1. /\ Believes(w)
      /\ worker'[w].job = worker[w].job /\ worker'[w].attempt = worker[w].attempt
  OBVIOUS
<1>2. OwnOK(w)
  BY <1>1 DEF AttemptExclusive, OwnOK
<1>3. worker[w].job \in DOMAIN jobs' /\ QuietRow(jobs[worker[w].job], jobs'[worker[w].job])
  BY <1>2 DEF Quiet, OwnOK
<1> QED BY <1>1, <1>2, <1>3 DEF QuietRow, OwnOK

\* What a step does to a worker that is at an attempt: nothing, or its next
\* place at the same one; and a worker that has reported did store it.
Onward(w) ==
  /\ Believes(w)' =>
       /\ Believes(w)
       /\ worker'[w].job = worker[w].job /\ worker'[w].attempt = worker[w].attempt
  /\ worker'[w].pc = "reported" =>
       \/ worker[w].pc = "reported"
       \/ <<worker'[w].job, worker'[w].attempt>> \in written'

LEMMA OnwardSame == ASSUME NEW w, worker'[w] = worker[w] PROVE Onward(w)
BY DEF Onward, Believes

LEMMA OnwardPlace ==
  ASSUME IInv, NEW w \in Workers, worker[w].pc \in Holding, NEW pc, pc # "reported",
         worker' = [worker EXCEPT ![w].pc = pc]
  PROVE  \A x \in Workers : Onward(x)
<1>1. worker \in [Workers -> WorkerState]
  BY DEF IInv, WorkersOK
<1>2. \A x \in Workers \ {w} : worker'[x] = worker[x]
  BY <1>1
<1>3. /\ worker'[w].pc = pc
      /\ worker'[w].job = worker[w].job /\ worker'[w].attempt = worker[w].attempt
  BY <1>1 DEF WorkerState
<1>4. Onward(w)
  BY <1>3 DEF Onward, Believes
<1> QED BY <1>2, <1>4, OnwardSame

LEMMA OnwardNowhere ==
  ASSUME IInv, NEW w \in Workers, NEW next, next.pc \notin Holding \cup {"completing"},
         worker' = [worker EXCEPT ![w] = next]
  PROVE  \A x \in Workers : Onward(x)
<1>1. worker \in [Workers -> WorkerState]
  BY DEF IInv, WorkersOK
<1>2. \A x \in Workers \ {w} : worker'[x] = worker[x]
  BY <1>1
<1>3. worker'[w] = next
  BY <1>1
<1>4. Onward(w)
  BY <1>3 DEF Onward, Believes, Holding
<1> QED BY <1>2, <1>4, OnwardSame

LEMMA OnwardIdle ==
  ASSUME IInv, NEW r \in net, Answer(r, Idle)
  PROVE  \A w \in Workers : Onward(w)
<1>1. r.worker \in Workers
  BY DEF IInv, NetOK, Request
<1>2. CASE r.live
  <2>1. Idle.pc \notin Holding \cup {"completing"}
    BY DEF Idle, At, Holding
  <2> QED BY <1>1, <1>2, <2>1, OnwardNowhere DEF Answer
<1>3. CASE ~r.live
  BY <1>3, OnwardSame DEF Answer
<1> QED BY <1>2, <1>3

\* A stored report takes the worker that waits for its answer on, and only
\* if it is still at that attempt.
LEMMA OnwardReported ==
  ASSUME IInv, CallsOK(worker, net), NEW r \in net, NEW kinds, Write(r, kinds)
  PROVE  \A w \in Workers : Onward(w)
<1> DEFINE next == At("reported", r.job, r.attempt)
<1>1. r.worker \in Workers /\ worker \in [Workers -> WorkerState]
  BY DEF IInv, NetOK, Request, WorkersOK
<1>2. CASE r.live
  <2>1. r \in Calls(net) /\ r.op = "report"
    BY <1>2 DEF Calls, Write
  <2>2. /\ worker[r.worker].pc = "reporting"
        /\ worker[r.worker].job = r.job /\ worker[r.worker].attempt = r.attempt
    BY <2>1, WaitsFor DEF Place
  <2>3. worker' = [worker EXCEPT ![r.worker] = next]
    BY <1>2 DEF Write, Answer
  <2>4. /\ worker'[r.worker] = next
        /\ \A x \in Workers \ {r.worker} : worker'[x] = worker[x]
    BY <1>1, <2>3
  <2>5. next.job = r.job /\ next.attempt = r.attempt
    BY DEF At
  <2>6. <<r.job, r.attempt>> \in written'
    BY DEF Write
  <2> HIDE DEF next
  <2>7. Onward(r.worker)
    BY <2>2, <2>4, <2>5, <2>6 DEF Onward, Believes, Holding
  <2> QED BY <2>4, <2>7, OnwardSame
<1>3. CASE ~r.live
  BY <1>3, OnwardSame DEF Write, Answer
<1> QED BY <1>2, <1>3

LEMMA OnwardStep ==
  ASSUME \A w \in Workers : Onward(w), AttemptsInv, IInv, [Next]_vars, Quiet(jobs, jobs'),
         CallsOK(worker', net'),
         \A q \in net' : RecordOK(q, jobs', written', doomed')
  PROVE  AttemptsInv'
<1>1. written \subseteq written' /\ doomed \subseteq doomed' /\ TableStep(jobs, jobs')
  BY HistoryGrows, NextOK DEF StepOK
<1>2. AttemptExclusive'
  BY OwnersKept DEF Onward, AttemptsInv
<1>3. DoneHasReport' /\ TransientNeverFails'
  BY <1>1, OutcomesKept DEF AttemptsInv
<1>4. \A w \in Workers : worker'[w].pc = "reported" =>
        <<worker'[w].job, worker'[w].attempt>> \in written'
  <2> SUFFICES ASSUME NEW w \in Workers, worker'[w].pc = "reported"
               PROVE  <<worker'[w].job, worker'[w].attempt>> \in written'
    OBVIOUS
  <2>1. worker'[w].job = worker[w].job /\ worker'[w].attempt = worker[w].attempt
    BY DEF Onward, Believes, Holding
  <2> QED BY <1>1, <2>1 DEF Onward, AttemptsInv, RecordsOK
<1>5. RecordsOK'
  BY <1>4 DEF RecordsOK
<1> QED BY <1>2, <1>3, <1>5 DEF AttemptsInv

-----------------------------------------------------------------------------
(* The steps.                                                              *)

LEMMA AttemptsWorkerStep ==
  ASSUME IInv, AttemptsInv, NEW w \in Workers, WorkerStep(w)
  PROVE  AttemptsInv'
<1>0. /\ [Next]_vars /\ net \subseteq Request /\ CallsOK(worker', net')
      /\ worker \in [Workers -> WorkerState]
  BY CallsWorkerStep DEF Next, IInv, NetOK, AttemptsInv, WorkersOK
<1>1. jobs' = jobs
  BY Zenon DEF WorkerStep, Poll, Beat, BeatFails, SendReport, WorkSucceeds, WorkIsDoomed, LetGo
<1>2. Quiet(jobs, jobs')
  BY <1>1, QuietSame
<1>3. \A q \in net : Alike(q, q)
  BY DEF Alike
<1>4. \A q, r : r \in net /\ Alike(q, r) => RecordOK(q, jobs', written', doomed')
  BY <1>0, RecordsKept DEF AttemptsInv
<1> SUFFICES /\ \A x \in Workers : Onward(x)
             /\ \A q \in net' : q \in net \/ RecordOK(q, jobs', written', doomed')
  BY <1>0, <1>2, <1>3, <1>4, OnwardStep
<1>5. ASSUME worker[w].pc \in Holding
      PROVE  Started(jobs, worker[w].job, worker[w].attempt)
  BY <1>5 DEF AttemptsInv, AttemptExclusive, Believes, Started
<1>6. ASSUME NEW status, SendComplete(w, status), worker[w].pc \in Holding,
             status = "done" => <<worker[w].job, worker[w].attempt>> \in written',
             status = "failed" => <<worker[w].job, worker[w].attempt>> \in doomed'
      PROVE  /\ \A x \in Workers : Onward(x)
             /\ \A q \in net' : q \in net \/ RecordOK(q, jobs', written', doomed')
  <2> DEFINE a == [Ask("complete", w) EXCEPT !.status = status]
  <2>1. PICK n \in Cut(net, Live(w)) : net' = n \cup {a}
    BY <1>6 DEF SendComplete
  <2>2. \A q \in n : \E r \in net : Alike(q, r)
    BY <1>0, CutLeaves DEF Live
  <2>3. /\ a.op = "complete" /\ a.status = status
        /\ a.job = worker[w].job /\ a.attempt = worker[w].attempt
    BY AskFields
  <2> HIDE DEF a
  <2>4. RecordOK(a, jobs', written', doomed')
    BY <1>1, <1>5, <1>6, <2>3 DEF RecordOK
  <2>5. \A x \in Workers : Onward(x)
    BY <1>6, OnwardPlace DEF SendComplete
  <2> QED BY <1>4, <2>1, <2>2, <2>4, <2>5
<1>7. CASE Poll(w)
  <2>1. worker' = [worker EXCEPT ![w] = At("claiming", worker[w].job, worker[w].attempt)]
    BY <1>7, PlaceMoves DEF Poll
  <2>2. At("claiming", worker[w].job, worker[w].attempt).pc \notin Holding \cup {"completing"}
    BY DEF At, Holding
  <2>3. \A x \in Workers : Onward(x)
    BY <2>1, <2>2, OnwardNowhere
  <2>4. Ask("claim", w).op = "claim"
    BY AskFields
  <2>5. RecordOK(Ask("claim", w), jobs', written', doomed')
    BY <2>4 DEF RecordOK
  <2> QED BY <1>7, <2>3, <2>5 DEF Poll
<1>8. CASE Beat(w)
  <2>1. Ask("heartbeat", w).op = "heartbeat"
    BY AskFields
  <2>2. RecordOK(Ask("heartbeat", w), jobs', written', doomed')
    BY <2>1 DEF RecordOK
  <2> QED BY <1>8, <2>2, OnwardSame DEF Beat
<1>9. CASE BeatFails(w)
  <2>1. Beats(w) \in SUBSET net /\ net' \in Cut(net, Beats(w))
    BY <1>9 DEF BeatFails, Beats, Live
  <2>2. \A q \in net' : \E r \in net : Alike(q, r)
    BY <2>1, CutAlike
  <2>3. \A x \in Workers : Onward(x)
    BY <1>9, OnwardSame DEF BeatFails
  <2> QED BY <1>4, <2>2, <2>3
<1>10. CASE SendReport(w)
  <2> DEFINE frames == FramesFor(jobs[worker[w].job])
             made(n) == [Ask("report", w) EXCEPT !.segments = n, !.frames = frames]
  <2>1. PICK n : net' = net \cup {made(n)}
    BY <1>10 DEF SendReport
  <2> DEFINE a == made(n)
  <2>2. a.op = "report" /\ a.job = worker[w].job /\ a.attempt = worker[w].attempt
    BY AskFields
  <2>3. net' = net \cup {a}
    BY <2>1
  <2> HIDE DEF a
  <2>4. worker[w].pc \in Holding /\ worker' = [worker EXCEPT ![w].pc = "reporting"]
    BY <1>10 DEF SendReport, Holding
  <2>5. RecordOK(a, jobs', written', doomed')
    BY <1>1, <1>5, <2>2, <2>4 DEF RecordOK
  <2>6. \A x \in Workers : Onward(x)
    BY <2>4, OnwardPlace
  <2> QED BY <2>3, <2>5, <2>6
<1>11. CASE WorkSucceeds(w)
  <2>1. worker[w].pc = "reported" /\ SendComplete(w, "done")
    BY <1>11 DEF WorkSucceeds
  <2>2. <<worker[w].job, worker[w].attempt>> \in written
    BY <2>1 DEF AttemptsInv, RecordsOK
  <2>3. written \subseteq written'
    BY <1>0, HistoryGrows
  <2> QED BY <1>6, <2>1, <2>2, <2>3 DEF Holding
<1>12. CASE WorkIsDoomed(w)
  BY <1>6, <1>12 DEF WorkIsDoomed, Holding
<1>13. CASE LetGo(w)
  <2>1. \A q \in net' : \E r \in net : Alike(q, r)
    BY <1>0, <1>13, CutLeaves DEF LetGo, Live
  <2>2. Idle.pc \notin Holding \cup {"completing"}
    BY DEF Idle, At, Holding
  <2> QED BY <1>4, <1>13, <2>1, <2>2, OnwardNowhere DEF LetGo
<1> QED BY <1>7, <1>8, <1>9, <1>10, <1>11, <1>12, <1>13 DEF WorkerStep

\* What every step of a handler leaves: the requests there were, and what
\* their clients wait for.
LEMMA RequestsHandled ==
  ASSUME IInv, AttemptsInv, NEW r \in net, Handle(r)
  PROVE  /\ CallsOK(worker', net')
         /\ \A q \in net' : RecordOK(q, jobs', written', doomed')
<1>0. [Next]_vars /\ net \subseteq Request /\ CallsOK(worker', net')
  BY CallsHandle DEF Next, IInv, NetOK, AttemptsInv
<1>1. \A q \in net : Alike(q, q)
  BY DEF Alike
<1>2. CASE ReportChecked(r)
  BY <1>0, <1>1, <1>2, CheckedOf, RecordsKept DEF ReportChecked, AttemptsInv
<1>3. CASE Refuse(r)
  BY <1>0, <1>3, RefuseAlike, RecordsKept DEF AttemptsInv
<1>4. CASE net' \subseteq net
  BY <1>0, <1>1, <1>4, RecordsKept DEF AttemptsInv
<1>5. net' \subseteq net \/ Refuse(r) \/ ReportChecked(r)
  BY Zenon DEF Handle, ClaimGranted, ClaimEmpty, HeartbeatRenews, HeartbeatRefused,
     ReportRefused, FanOut, ReportImages, ReportPredictions, ReportArtifact, Write,
     CompleteAccepted, CompleteRefused
<1> QED BY <1>0, <1>2, <1>3, <1>4, <1>5

\* A claim starts an attempt that nobody can be at yet.
LEMMA ClaimExclusive ==
  ASSUME IInv, AttemptExclusive, NEW r \in net, ClaimGranted(r)
  PROVE  AttemptExclusive'
<1>1. PICK id \in OldestPending(jobs) :
        /\ jobs' = Claim(jobs, id, r.worker)
        /\ Answer(r, At("working", id, jobs[id].attempts + 1))
  BY DEF ClaimGranted
<1> DEFINE next == At("working", id, jobs[id].attempts + 1)
<1>2. /\ id \in DOMAIN jobs /\ jobs[id] \in Row /\ jobs[id].attempts \in Nat
      /\ jobs[id].status = "pending"
  BY RowAt DEF OldestPending, Pending, IInv, Row
<1>3. r.worker \in Workers /\ worker \in [Workers -> WorkerState]
  BY DEF IInv, NetOK, Request, WorkersOK
<1>4. /\ DOMAIN jobs' = DOMAIN jobs
      /\ \A i \in DOMAIN jobs \ {id} : jobs'[i] = jobs[i]
      /\ jobs'[id].attempts = jobs[id].attempts + 1
      /\ jobs'[id].claimed_by = r.worker
  BY <1>1, <1>2 DEF Claim, Row, IInv, TableOK
<1>5. next.pc = "working" /\ next.job = id /\ next.attempt = jobs[id].attempts + 1
  BY DEF At
<1>6. \A w \in Workers : worker'[w] = worker[w] \/ (w = r.worker /\ worker'[w] = next)
  BY <1>1, <1>3 DEF Answer
<1> HIDE DEF next
<1>7. ASSUME NEW w \in Workers, Believes(w)'
      PROVE  \/ w = r.worker /\ worker'[w] = next
             \/ /\ Believes(w) /\ worker'[w] = worker[w]
                /\ worker[w].job \in DOMAIN jobs
                /\ worker[w].attempt \in 1 .. jobs[worker[w].job].attempts
                /\ <<worker[w].job, worker[w].attempt>> # <<id, jobs[id].attempts + 1>>
  <2>1. CASE worker'[w] = worker[w]
    <3>1. Believes(w)
      BY <1>7, <2>1 DEF Believes
    <3>2. /\ worker[w].job \in DOMAIN jobs
          /\ worker[w].attempt \in 1 .. jobs[worker[w].job].attempts
      BY <3>1 DEF AttemptExclusive
    <3>3. worker[w].job = id => worker[w].attempt # jobs[id].attempts + 1
      BY <1>2, <3>2
    <3> QED BY <2>1, <3>1, <3>2, <3>3
  <2> QED BY <1>6, <2>1
<1> SUFFICES ASSUME NEW w \in Workers, Believes(w)' PROVE OwnOK(w)'
  BY DEF AttemptExclusive, OwnOK
<1>8. CASE w = r.worker /\ worker'[w] = next
  <2>1. worker'[w].job = id /\ worker'[w].attempt = jobs[id].attempts + 1
    BY <1>5, <1>8
  <2>2. worker'[w].attempt \in 1 .. jobs'[id].attempts
    BY <1>2, <1>4, <2>1
  <2>3. \A x \in Workers \ {w} : Believes(x)' =>
          <<worker'[x].job, worker'[x].attempt>> # <<id, jobs[id].attempts + 1>>
    BY <1>7, <1>8
  <2> QED BY <1>2, <1>4, <1>8, <2>1, <2>2, <2>3 DEF OwnOK
<1>9. CASE /\ Believes(w) /\ worker'[w] = worker[w]
           /\ worker[w].job \in DOMAIN jobs
           /\ worker[w].attempt \in 1 .. jobs[worker[w].job].attempts
           /\ <<worker[w].job, worker[w].attempt>> # <<id, jobs[id].attempts + 1>>
  <2> DEFINE job == worker[w].job
             attempt == worker[w].attempt
  <2>1. attempt \in 1 .. jobs'[job].attempts
    BY <1>2, <1>4, <1>9
  <2>2. jobs'[job].status = "claimed" /\ jobs'[job].attempts = attempt
          => jobs'[job].claimed_by = w
    <3>1. CASE job = id
      BY <1>2, <1>4, <1>9, <3>1
    <3>2. CASE job # id
      BY <1>4, <1>9, <3>2 DEF AttemptExclusive
    <3> QED BY <3>1, <3>2
  <2>3. ASSUME NEW x \in Workers \ {w}, Believes(x)'
        PROVE  <<worker'[x].job, worker'[x].attempt>> # <<job, attempt>>
    <3>1. CASE worker'[x] = next
      BY <1>5, <1>9, <3>1
    <3>2. CASE Believes(x) /\ worker'[x] = worker[x]
      BY <1>9, <3>2 DEF AttemptExclusive
    <3> QED BY <1>7, <2>3, <3>1, <3>2
  <2> QED BY <1>4, <1>9, <2>1, <2>2, <2>3 DEF OwnOK
<1> QED BY <1>7, <1>8, <1>9

\* An accepted completion ends its job for the reason it carries.
LEMMA CompletionReasoned ==
  ASSUME IInv, AttemptsInv, NEW r \in net, CompleteAccepted(r)
  PROVE  AttemptsInv'
<1> DEFINE mid == Finish(jobs, r.job, r.status)
<1>0. /\ [Next]_vars
      /\ \A q \in net' : RecordOK(q, jobs', written', doomed')
      /\ CallsOK(worker', net')
      /\ r.worker \in Workers /\ r.status \in {"done", "failed"} /\ r.op = "complete"
  BY RequestsHandled DEF Next, Handle, IInv, NetOK, Request, CompleteAccepted
<1>1. /\ HeldBy(jobs, r.job, r.worker) /\ UNCHANGED <<written, doomed>>
      /\ Answer(r, Idle) /\ jobs' = EnqueueIfDue(mid, r.job)
  BY DEF CompleteAccepted, rows
<1>2. r.job \in DOMAIN jobs /\ jobs[r.job] \in Row /\ jobs[r.job].status = "claimed"
  BY <1>1, RowAt DEF HeldBy, IInv
<1>3. /\ TableStep(jobs, mid)
      /\ DOMAIN mid = DOMAIN jobs
      /\ \A i \in DOMAIN jobs \ {r.job} : mid[i] = jobs[i]
      /\ mid[r.job].status = r.status /\ mid[r.job].attempts = jobs[r.job].attempts
  <2>1. TableStep(jobs, mid)
    BY <1>0, <1>1, FinishStep DEF IInv
  <2> QED BY <1>2, <2>1 DEF Finish, Row, IInv, TableOK
<1> HIDE DEF mid
<1>4. Quiet(mid, jobs') /\ \A i \in DOMAIN mid : jobs'[i] = mid[i]
  BY <1>1, <1>3, QuietEnqueueIfDue, EnqueueIfDueStep DEF TableStep
<1>5. /\ DOMAIN jobs \subseteq DOMAIN jobs'
      /\ \A i \in DOMAIN jobs' \ DOMAIN jobs : jobs'[i].status = "pending"
      /\ \A i \in DOMAIN jobs \ {r.job} : jobs'[i] = jobs[i]
      /\ jobs'[r.job].status = r.status /\ jobs'[r.job].attempts = jobs[r.job].attempts
  BY <1>2, <1>3, <1>4 DEF Quiet
<1>6. \A w \in Workers : Onward(w)
  BY <1>1, OnwardIdle
<1>7. r.attempt \in 1 .. jobs[r.job].attempts
  BY <1>0 DEF AttemptsInv, RecordsOK, RecordOK, Started
<1>8. /\ r.status = "done" => <<r.job, r.attempt>> \in written
      /\ r.status = "failed" => <<r.job, r.attempt>> \in doomed
  BY <1>0 DEF AttemptsInv, RecordsOK, RecordOK
<1>9. DoneHasReport'
  <2> SUFFICES ASSUME NEW i \in DOMAIN jobs', jobs'[i].status = "done"
               PROVE  \E a \in 1 .. jobs'[i].attempts : <<i, a>> \in written'
    BY DEF DoneHasReport
  <2>1. CASE i = r.job
    BY <1>1, <1>5, <1>7, <1>8, <2>1
  <2>2. CASE i # r.job
    <3>1. i \in DOMAIN jobs /\ jobs'[i] = jobs[i]
      BY <1>5, <2>2
    <3> QED BY <1>1, <3>1 DEF AttemptsInv, DoneHasReport
  <2> QED BY <2>1, <2>2
<1>10. TransientNeverFails'
  <2> SUFFICES ASSUME NEW i \in DOMAIN jobs', jobs'[i].status = "failed"
               PROVE  \/ jobs'[i].failure = "exhausted"
                      \/ \E a \in 1 .. jobs'[i].attempts : <<i, a>> \in doomed'
    BY DEF TransientNeverFails
  <2>1. CASE i = r.job
    BY <1>1, <1>5, <1>7, <1>8, <2>1
  <2>2. CASE i # r.job
    <3>1. i \in DOMAIN jobs /\ jobs'[i] = jobs[i]
      BY <1>5, <2>2
    <3> QED BY <1>1, <3>1 DEF AttemptsInv, TransientNeverFails
  <2> QED BY <2>1, <2>2
<1>11. AttemptExclusive'
  <2>1. r.status # "claimed"
    BY <1>0
  <2> SUFFICES ASSUME NEW w \in Workers, Believes(w)' PROVE OwnOK(w)'
    BY DEF AttemptExclusive, OwnOK
  <2>2. \A x \in Workers : Believes(x)' =>
          /\ Believes(x)
          /\ worker'[x].job = worker[x].job /\ worker'[x].attempt = worker[x].attempt
    BY <1>6 DEF Onward
  <2>3. OwnOK(w)
    BY <2>2 DEF AttemptsInv, AttemptExclusive, OwnOK
  <2>4. CASE worker[w].job = r.job
    BY <1>5, <2>1, <2>2, <2>3, <2>4 DEF OwnOK
  <2>5. CASE worker[w].job # r.job
    BY <1>5, <2>2, <2>3, <2>5 DEF OwnOK
  <2> QED BY <2>4, <2>5
<1>12. RecordsOK'
  <2> SUFFICES ASSUME NEW w \in Workers, worker'[w].pc = "reported"
               PROVE  <<worker'[w].job, worker'[w].attempt>> \in written'
    BY <1>0 DEF RecordsOK
  <2>1. worker'[w].job = worker[w].job /\ worker'[w].attempt = worker[w].attempt
    BY <1>6 DEF Onward, Believes, Holding
  <2> QED BY <1>1, <1>6, <2>1 DEF Onward, AttemptsInv, RecordsOK
<1> QED BY <1>0, <1>9, <1>10, <1>11, <1>12 DEF AttemptsInv

\* A claim that is granted ends nothing.
LEMMA ClaimKeepsOutcomes ==
  ASSUME IInv, AttemptsInv, NEW r \in net, ClaimGranted(r)
  PROVE  AttemptsInv'
<1>0. /\ \A q \in net' : RecordOK(q, jobs', written', doomed')
      /\ CallsOK(worker', net')
  BY RequestsHandled DEF Handle
<1>1. PICK id \in OldestPending(jobs) :
        /\ jobs' = Claim(jobs, id, r.worker)
        /\ Answer(r, At("working", id, jobs[id].attempts + 1))
  BY DEF ClaimGranted
<1>2. /\ id \in DOMAIN jobs /\ jobs[id] \in Row
      /\ UNCHANGED <<written, doomed>>
  BY RowAt DEF OldestPending, Pending, IInv, ClaimGranted, rows
<1>3. /\ DOMAIN jobs' = DOMAIN jobs
      /\ \A i \in DOMAIN jobs \ {id} : jobs'[i] = jobs[i]
      /\ jobs'[id].status = "claimed"
  BY <1>1, <1>2 DEF Claim, Row, IInv, TableOK
<1>4. DoneHasReport' /\ TransientNeverFails'
  <2>1. \A i \in DOMAIN jobs' : jobs'[i].status \in {"done", "failed"} => jobs'[i] = jobs[i]
    BY <1>3
  <2> QED BY <1>2, <1>3, <2>1 DEF AttemptsInv, DoneHasReport, TransientNeverFails
<1>5. r.worker \in Workers /\ worker \in [Workers -> WorkerState]
  BY DEF IInv, NetOK, Request, WorkersOK
<1>6. At("working", id, jobs[id].attempts + 1).pc # "reported"
  BY DEF At
<1>7. \A w \in Workers : worker'[w].pc = "reported" => worker'[w] = worker[w]
  BY <1>1, <1>5, <1>6 DEF Answer
<1>8. RecordsOK'
  BY <1>0, <1>2, <1>7 DEF RecordsOK, AttemptsInv
<1>9. AttemptExclusive'
  BY ClaimExclusive DEF AttemptsInv
<1> QED BY <1>0, <1>4, <1>8, <1>9 DEF AttemptsInv

\* Every other handler leaves the attempts alone.
LEMMA AttemptsHandle ==
  ASSUME IInv, AttemptsInv, NEW r \in net, Handle(r)
  PROVE  AttemptsInv'
<1>0. /\ [Next]_vars /\ TableOK(jobs)
      /\ CallsOK(worker', net')
      /\ \A q \in net' : RecordOK(q, jobs', written', doomed')
  BY RequestsHandled DEF Next, IInv
<1>1. ASSUME Quiet(jobs, jobs'), \A w \in Workers : Onward(w) PROVE AttemptsInv'
  BY <1>0, <1>1, OnwardStep
<1>2. CASE ClaimGranted(r)
  BY <1>2, ClaimKeepsOutcomes
<1>3. CASE CompleteAccepted(r)
  BY <1>3, CompletionReasoned
<1>4. CASE ClaimEmpty(r)
  BY <1>1, <1>4, QuietSame, OnwardIdle DEF ClaimEmpty
<1>5. CASE HeartbeatRenews(r)
  BY <1>0, <1>1, <1>5, QuietUpdates, OnwardSame DEF HeartbeatRenews
<1>6. CASE HeartbeatRefused(r)
  BY <1>1, <1>6, QuietSame, OnwardIdle DEF HeartbeatRefused, Refuse
<1>7. CASE ReportChecked(r)
  BY <1>1, <1>7, QuietSame, OnwardSame DEF ReportChecked
<1>8. CASE ReportRefused(r)
  BY <1>1, <1>8, QuietSame, OnwardIdle DEF ReportRefused, Refuse
<1>9. ASSUME NEW kinds, Write(r, kinds) PROVE \A w \in Workers : Onward(w)
  BY <1>9, OnwardReported DEF AttemptsInv
<1>10. CASE FanOut(r)
  <2> DEFINE v == jobs[r.job].video
             missing == Missing(v, r.segments)
             row == NewRow("chunk", v, "none", {})
  <2>1. r \in Request /\ r.segments \in Nat /\ r.job \in DOMAIN jobs
    BY <1>10 DEF IInv, NetOK, Request, FanOut, Write
  <2>2. v \in Videos /\ v # NoVideo
    BY <1>10, <2>1, RowAt, NullsAreNoIds DEF IInv, FanOut, Write, Row, VideoOK
  <2>3. row \in Row
    BY <2>2, NewRowOK DEF Kinds
  <2>4. row.status = "pending"
    BY DEF NewRow
  <2>5. Cardinality(missing) \in Nat
    <3>1. IsFiniteSet(0 .. r.segments - 1) /\ missing \in SUBSET (0 .. r.segments - 1)
      BY <2>1, FS_Interval DEF Missing
    <3> HIDE DEF missing
    <3>2. IsFiniteSet(missing)
      BY <3>1, FS_Subset
    <3> QED BY <3>2, FS_CardinalityType
  <2>6. jobs' = jobs \o [k \in 1 .. Cardinality(missing) |-> row]
    BY <1>10 DEF FanOut
  <2> HIDE DEF row, missing
  <2>7. Quiet(jobs, jobs')
    BY <1>0, <2>3, <2>4, <2>5, <2>6, QuietInserts
  <2> QED BY <1>1, <1>9, <1>10, <2>7 DEF FanOut
<1>11. CASE ReportImages(r)
  BY <1>1, <1>9, <1>11, QuietSame DEF ReportImages
<1>12. CASE ReportPredictions(r)
  BY <1>1, <1>9, <1>12, QuietSame DEF ReportPredictions
<1>13. CASE ReportArtifact(r)
  BY <1>1, <1>9, <1>13, QuietSame DEF ReportArtifact
<1>14. CASE CompleteRefused(r)
  BY <1>0, <1>1, <1>14, QuietEnqueueIfDue, OnwardIdle DEF CompleteRefused, Refuse
<1> QED BY <1>2, <1>3, <1>4, <1>5, <1>6, <1>7, <1>8, <1>10, <1>11, <1>12, <1>13, <1>14
        DEF Handle

\* Enqueueing, the clock and the reaper answer no one.
LEMMA AttemptsElsewhere ==
  ASSUME IInv, AttemptsInv, [Next]_vars, UNCHANGED <<worker>>, Quiet(jobs, jobs'),
         net' \subseteq net
  PROVE  AttemptsInv'
<1>1. \A w \in Workers : Onward(w)
  BY OnwardSame
<1>2. CallsOK(worker', net')
  BY CallsKept DEF AttemptsInv, Calls
<1>3. \A q \in net' : q \in net /\ Alike(q, q)
  BY DEF Alike
<1>4. \A q \in net' : RecordOK(q, jobs', written', doomed')
  BY <1>3, RecordsKept DEF AttemptsInv
<1> QED BY <1>1, <1>2, <1>4, OnwardStep

LEMMA QuietAdmin ==
  ASSUME IInv, \/ \E v \in Videos : SubmitVideo(v) \/ CreatePrelabel(v) \/ CreateDryRun(v)
               \/ CreateSnapshot
  PROVE  UNCHANGED <<worker, net>> /\ Quiet(jobs, jobs')
<1>1. ASSUME NEW kind \in Kinds, NEW video \in Videos \cup {NoVideo},
             kind = "snapshot" <=> video = NoVideo,
             NEW mode \in Modes \cup {"none"}, NEW frames \in SUBSET Frames,
             jobs' = Append(jobs, NewRow(kind, video, mode, frames))
      PROVE  Quiet(jobs, jobs')
  <2> DEFINE row == NewRow(kind, video, mode, frames)
  <2>1. row \in Row /\ LeaseOK(row) /\ VideoOK(row)
    BY <1>1, NewRowOK
  <2>2. row.status = "pending"
    BY DEF NewRow
  <2> HIDE DEF row
  <2>3. Quiet(jobs, Append(jobs, row))
    BY <2>1, <2>2, QuietInsert DEF IInv
  <2> QED BY <1>1, <2>3 DEF row
<1>2. CASE \E v \in Videos : SubmitVideo(v)
  BY <1>1, <1>2, NullsAreNoIds DEF SubmitVideo, Kinds
<1>3. CASE \E v \in Videos : CreatePrelabel(v)
  <2>1. PICK v \in Videos : CreatePrelabel(v)
    BY <1>3
  <2>2. PICK mode \in Modes, frames \in SUBSET PoolOf(v) :
          Enqueue(NewRow("prelabel", v, mode, frames))
    BY <2>1 DEF CreatePrelabel
  <2>3. frames \in SUBSET Frames /\ v # NoVideo
    BY NullsAreNoIds DEF PoolOf, IInv, RowsOK
  <2>4. /\ jobs' = Append(jobs, NewRow("prelabel", v, mode, frames))
        /\ UNCHANGED <<worker, net>>
    BY <2>2 DEF Enqueue
  <2> QED BY <1>1, <2>3, <2>4 DEF Kinds
<1>4. CASE \E v \in Videos : CreateDryRun(v)
  BY <1>1, <1>4, NullsAreNoIds DEF CreateDryRun, Enqueue, Kinds
<1>5. CASE CreateSnapshot
  BY <1>1, <1>5 DEF CreateSnapshot, Enqueue, Kinds
<1> QED BY <1>2, <1>3, <1>4, <1>5

LEMMA AttemptsStep ==
  ASSUME IInv, AttemptsInv, [Next]_vars PROVE AttemptsInv'
<1>0. TableOK(jobs)
  BY DEF IInv
<1>1. CASE UNCHANGED vars
  BY <1>1, QuietSame, AttemptsElsewhere DEF vars
<1>2. ASSUME NEW w \in Workers, WorkerStep(w) PROVE AttemptsInv'
  BY <1>2, AttemptsWorkerStep
<1>3. ASSUME NEW r \in net, Handle(r) PROVE AttemptsInv'
  BY <1>3, AttemptsHandle
<1>4. ASSUME NEW r \in net, StrayLost(r) PROVE AttemptsInv'
  BY <1>4, QuietSame, AttemptsElsewhere DEF StrayLost
<1>5. CASE \/ \E v \in Videos : SubmitVideo(v) \/ CreatePrelabel(v) \/ CreateDryRun(v)
           \/ CreateSnapshot
  BY <1>5, QuietAdmin, AttemptsElsewhere
<1>6. CASE Tick \/ ReapStaleJobs
  BY <1>0, <1>6, QuietUpdates, AttemptsElsewhere DEF Tick, ReapStaleJobs
<1> QED BY <1>1, <1>2, <1>3, <1>4, <1>5, <1>6 DEF Next

-----------------------------------------------------------------------------
(* The theorems.                                                           *)

\* Nothing has been attempted at first.
LEMMA AttemptsInit == Init => AttemptsInv
BY DEF Init, AttemptsInv, AttemptExclusive, Believes, Holding, Idle, At, CallsOK, Calls,
   RecordsOK, DoneHasReport, TransientNeverFails

\* What is known of attempts holds of every reachable state.
THEOREM AttemptsInvariant == Spec => []AttemptsInv
<1>1. Init => AttemptsInv
  BY AttemptsInit
<1>2. IInv /\ AttemptsInv /\ [Next]_vars => AttemptsInv'
  BY AttemptsStep
<1> QED BY <1>1, <1>2, Invariance, PTL DEF Spec

\* However late requests are served, no two workers are at the same attempt
\* of a job, and the newest attempt's lease is its worker's.
THEOREM AttemptsExclude == Spec => []AttemptExclusive
<1>1. AttemptsInv => AttemptExclusive
  BY DEF AttemptsInv
<1> QED BY <1>1, AttemptsInvariant, PTL

\* No job is done without a stored report of one of its attempts.
THEOREM DoneIsReported == Spec => []DoneHasReport
<1>1. AttemptsInv => DoneHasReport
  BY DEF AttemptsInv
<1> QED BY <1>1, AttemptsInvariant, PTL

\* No job fails for an error worth retrying while it has attempts left.
THEOREM FailedForGood == Spec => []TransientNeverFails
<1>1. AttemptsInv => TransientNeverFails
  BY DEF AttemptsInv
<1> QED BY <1>1, AttemptsInvariant, PTL
=============================================================================
