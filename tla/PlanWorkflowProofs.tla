--------------------------- MODULE PlanWorkflowProofs ---------------------------
(***************************************************************************)
(* Theorems about PlanWorkflow, for any sets of plans, requests, tables and *)
(* batches, and any bounds: whatever number of requests is in flight,       *)
(* interleaved in any way, with any number of restarts.                     *)
(***************************************************************************)
EXTENDS PlanWorkflow, SequenceTheorems, TLAPS

LEMMA NoDataType == NoData \in Dataset
  BY InputAssumption DEF NoData, Dataset

LEMMA NoPlanType == NoPlan \in PlanRecord
  BY DEF NoPlan, PlanRecord, Status, Intent

LEMMA IdleType == Idle \in RequestState
  BY NoDataType, NoPlanType DEF Idle, RequestState, Step, Status

LEMMA DraftType == ASSUME NEW reply \in Reply PROVE Draft(reply) \in PlanRecord
  <1>1. \A i \in Intent, T \in SUBSET Table : NewPlan(i, T) \in PlanRecord
    BY NoPlanType DEF NewPlan, NoPlan, PlanRecord, Status
  <1>2. Recognised(reply) => /\ reply.intent \in Intent
                             /\ {reply.table} \ {NoTable} \in SUBSET Table
                             /\ reply.tables \in SUBSET Table
    BY InputAssumption DEF Recognised
  <1> QED
    BY <1>1, <1>2 DEF Draft, Intent

LEMMA ActionsType == ExecuteActions \in Seq(Action) \ {<<>>}
  BY DEF ExecuteActions, Action

LEMMA PreviewActionsType ==
  ASSUME NEW data \in Dataset PROVE PreviewActions(data) \in Seq(Action) \ {<<>>}
  BY DEF PreviewActions, Action

\* What update_status() writes is a plan record.
LEMMA UpdatedType == ASSUME NEW s \in RequestState PROVE Updated(s) \in PlanRecord
  BY DEF Updated, RequestState, PlanRecord

LEMMA RecordedType ==
  ASSUME NEW h \in HistoryRecord, NEW s \in RequestState, restarts \in Nat
  PROVE  Recorded(h, s) \in HistoryRecord
  <1>1. CASE s.goal = "confirmed"
    <2> DEFINE c == h.confirms + 1
               v == s.buf.preview
    <2>1. v \in Dataset \cup {None} /\ c \in Nat
      BY DEF RequestState, PlanRecord, HistoryRecord
    <2>2. Recorded(h, s) = [h EXCEPT !.confirms = c, !.approved = v]
      BY <1>1 DEF Recorded
    <2> HIDE DEF c, v
    <2> QED
      BY <2>1, <2>2 DEF HistoryRecord
  <1>2. CASE s.goal = "executing"
    <2> DEFINE a == Append(h.runs, h.approved)
    <2>1. a \in Seq(Dataset \cup {None})
      BY DEF HistoryRecord
    <2>2. Recorded(h, s) = [h EXCEPT !.runs = a, !.started = restarts]
      BY <1>2 DEF Recorded
    <2> HIDE DEF a
    <2> QED
      BY <2>1, <2>2 DEF HistoryRecord
  <1>3. CASE s.goal = "awaiting_confirmation"
    <2>1. Recorded(h, s) = [h EXCEPT !.previewed = restarts]
      BY <1>3 DEF Recorded
    <2> QED
      BY <2>1 DEF HistoryRecord
  <1>4. CASE s.goal \notin {"confirmed", "executing", "awaiting_confirmation"}
    BY <1>4 DEF Recorded
  <1> QED
    BY <1>1, <1>2, <1>3, <1>4

LEMMA DispatchedType ==
  ASSUME NEW h \in HistoryRecord, NEW s
  PROVE  LET k == Dispatched(h, s)
         IN /\ k \in HistoryRecord /\ k.dispatched = h.dispatched + 1 /\ k.runs = h.runs
            /\ k.confirms = h.confirms /\ k.approved = h.approved
            /\ k.previewed = h.previewed /\ k.started = h.started
  <1> DEFINE n == IF Raises(s) THEN h.raised + 1 ELSE h.raised
             d == h.dispatched + 1
             k == [h EXCEPT !.dispatched = d, !.raised = n]
  <1>1. Dispatched(h, s) = k
    BY DEF Dispatched
  <1>2. n \in Nat /\ d \in Nat
    BY DEF HistoryRecord
  <1> HIDE DEF n, d
  <1>3. /\ k \in HistoryRecord /\ k.dispatched = d /\ k.runs = h.runs
        /\ k.confirms = h.confirms /\ k.approved = h.approved
        /\ k.previewed = h.previewed /\ k.started = h.started
    BY <1>2 DEF HistoryRecord
  <1> QED
    BY <1>1, <1>3 DEF d

-----------------------------------------------------------------------------
(* Type correctness *)

\* The state of a request, as TypeOK has it.
StateOK(s) == s \in RequestState /\ InPlace(s)

LEMMA IdleOK == StateOK(Idle)
  BY IdleType DEF StateOK, InPlace, Idle

LEMMA AfterUpdateOK ==
  ASSUME NEW s \in RequestState, StateOK(s), s.at = "status_write",
         history \in [PlanId -> HistoryRecord]
  PROVE  StateOK(AfterUpdate(s))
  <1>1. s.plan \in PlanId
    BY DEF StateOK, InPlace
  <1>2. CASE s.op = "preview" /\ s.data.masked # {}
    <2> DEFINE e == [s EXCEPT !.at = "cache_policy", !.todo = s.data.masked, !.buf = NoPlan]
    <2>1. s.data.masked \in SUBSET Table
      BY DEF RequestState, Dataset
    <2>2. e \in RequestState
      BY <2>1, NoPlanType DEF RequestState, Step
    <2>3. e.at = "cache_policy" /\ e.plan = s.plan
      BY DEF RequestState
    <2>4. AfterUpdate(s) = e
      BY <1>2 DEF AfterUpdate
    <2> HIDE DEF e
    <2> QED
      BY <1>1, <2>2, <2>3, <2>4 DEF StateOK, InPlace
  <1>3. CASE ~(s.op = "preview" /\ s.data.masked # {}) /\ s.goal = "executing"
    <2> DEFINE at == IF s.buf.intent = "multi_table_job" THEN "next_table" ELSE "work"
               run == Len(history[s.plan].runs) + 1
               e == [s EXCEPT !.at = at, !.todo = s.buf.targets, !.buf = NoPlan,
                              !.goal = "completed", !.run = run]
    <2>1. s.buf.targets \in SUBSET Table
      BY DEF RequestState, PlanRecord
    <2>2. run \in Nat
      <3>1. history[s.plan].runs \in Seq(Dataset \cup {None})
        BY <1>1 DEF HistoryRecord
      <3> QED
        BY <3>1, LenProperties
    <2>3. at \in {"next_table", "work"}
      OBVIOUS
    <2>4. AfterUpdate(s) = e
      BY <1>3 DEF AfterUpdate
    <2> HIDE DEF at, run
    <2>5. e \in RequestState
      BY <2>1, <2>2, <2>3, NoPlanType DEF RequestState, Step, Status
    <2>6. e.at = at /\ e.plan = s.plan
      BY DEF RequestState
    <2> HIDE DEF e
    <2> QED
      BY <1>1, <2>3, <2>4, <2>5, <2>6 DEF StateOK, InPlace
  <1>4. CASE ~(s.op = "preview" /\ s.data.masked # {}) /\ s.goal # "executing"
    BY <1>4, IdleOK DEF AfterUpdate
  <1> QED
    BY <1>2, <1>3, <1>4

LEMMA TailType ==
  ASSUME NEW q \in Seq(Action), q # <<>>, Len(q) # 1
  PROVE  Tail(q) \in Seq(Action) /\ Tail(q) # <<>>
  <1>1. Len(q) \in Nat /\ Len(q) # 0
    BY EmptySeq
  <1>2. Tail(q) \in Seq(Action) /\ Len(Tail(q)) = Len(q) - 1
    BY <1>1, HeadTailProperties
  <1>3. Len(Tail(q)) # 0
    BY <1>1, <1>2
  <1> QED
    BY <1>2, <1>3, EmptySeq, Zenon

LEMMA AfterRecordOK ==
  ASSUME NEW s \in RequestState, StateOK(s), s.at = "record"
  PROVE  StateOK(AfterRecord(s))
  <1>1. s.acts \in Seq(Action) /\ s.acts # <<>> /\ s.plan \in PlanId /\ s.table \in Table
    BY DEF StateOK, InPlace, RequestState
  <1>2. CASE Raises(s)
    BY <1>2, IdleOK DEF AfterRecord
  <1>3. CASE ~Raises(s) /\ Len(s.acts) = 1
    <2> DEFINE e == [s EXCEPT !.at = "next_table", !.table = NoTable, !.acts = <<>>, !.buf = NoPlan]
    <2>0. <<>> \in Seq(Action)
      BY EmptySeq
    <2>1. e \in RequestState
      BY <2>0, NoPlanType DEF RequestState, Step
    <2>2. e.at = "next_table" /\ e.plan = s.plan
      BY DEF RequestState
    <2>3. AfterRecord(s) = e
      BY <1>3 DEF AfterRecord
    <2> HIDE DEF e
    <2> QED
      BY <1>1, <2>1, <2>2, <2>3 DEF StateOK, InPlace
  <1>4. CASE ~Raises(s) /\ Len(s.acts) # 1
    <2> DEFINE q == Tail(s.acts)
               e == [s EXCEPT !.at = DispatchStep(q), !.acts = q, !.buf = NoPlan]
    <2>1. q \in Seq(Action) /\ q # <<>>
      BY <1>1, <1>4, TailType
    <2>2. DispatchStep(q) \in {"dispatch", "sql_gate"}
      BY DEF DispatchStep
    <2>3. AfterRecord(s) = e
      BY <1>4 DEF AfterRecord
    <2> HIDE DEF q
    <2>4. e \in RequestState
      BY <2>1, <2>2, NoPlanType DEF RequestState, Step
    <2>5. e.at \in {"dispatch", "sql_gate"} /\ e.plan = s.plan /\ e.table = s.table /\ e.acts = q
      BY <2>2 DEF RequestState
    <2> HIDE DEF e
    <2> QED
      BY <1>1, <2>1, <2>3, <2>4, <2>5 DEF StateOK, InPlace
  <1> QED
    BY <1>2, <1>3, <1>4

LEMMA RequestMoves ==
  ASSUME TypeOK, NEW r \in Request, NEW e, StateOK(e), req' = [req EXCEPT ![r] = e]
  PROVE  req' \in [Request -> RequestState] /\ \A q \in Request : InPlace(req'[q])
  <1>1. \A q \in Request : req'[q] = IF q = r THEN e ELSE req[q]
    BY DEF TypeOK
  <1> QED
    BY <1>1 DEF TypeOK, StateOK

LEMMA CreateType ==
  ASSUME TypeOK, NEW p \in PlanId, NEW reply \in Reply, CreatePlan(p, reply)
  PROVE  TypeOK'
  BY DraftType DEF TypeOK, CreatePlan, caches, bounds

LEMMA PreviewType ==
  ASSUME TypeOK, NEW r \in Request, NEW p \in PlanId,
         NEW uploaded \in Upload, NEW mask \in BOOLEAN,
         PreviewPlan(r, p, uploaded, mask)
  PROVE  TypeOK'
  <1> DEFINE rows == [t \in Table |-> IF t \in disk[p].targets THEN uploaded[t] ELSE EmptyBatch]
             data == [rows |-> rows, masked |-> PreviewPolicies(disk[p], mask)]
             e == [Idle EXCEPT !.at = "cache_rows", !.op = "preview", !.plan = p,
                               !.data = data, !.todo = disk[p].targets,
                               !.goal = "awaiting_confirmation"]
  <1>1. disk[p] \in PlanRecord /\ disk[p].targets \in SUBSET Table
    BY DEF TypeOK, PlanRecord
  <1>2. data \in Dataset
    BY <1>1, InputAssumption DEF Dataset, PreviewPolicies
  <1>3. req' = [req EXCEPT ![r] = e]
    BY DEF PreviewPlan
  <1> HIDE DEF data
  <1>4. StateOK(e)
    BY <1>1, <1>2, IdleType DEF StateOK, InPlace, RequestState, Idle, Step, Status
  <1> HIDE DEF e
  <1>5. req' \in [Request -> RequestState] /\ \A q \in Request : InPlace(req'[q])
    BY <1>3, <1>4, RequestMoves
  <1>6. served' = served + 1 /\ UNCHANGED <<disk, rowsCache, policyCache, outputs, restarts, history>>
    BY DEF PreviewPlan, caches
  <1> QED
    BY <1>5, <1>6 DEF TypeOK

LEMMA ConfirmType ==
  ASSUME TypeOK, NEW r \in Request, NEW p \in PlanId, NEW yes \in BOOLEAN, ConfirmPlan(r, p, yes)
  PROVE  TypeOK'
  <1> DEFINE e == [Idle EXCEPT !.at = "status_read", !.op = "confirm", !.plan = p,
                               !.goal = Decision(yes)]
  <1>1. req' = [req EXCEPT ![r] = e]
    BY DEF ConfirmPlan
  <1>2. StateOK(e)
    BY IdleType DEF StateOK, InPlace, RequestState, Idle, Step, Status, Decision
  <1> HIDE DEF e
  <1>3. req' \in [Request -> RequestState] /\ \A q \in Request : InPlace(req'[q])
    BY <1>1, <1>2, RequestMoves
  <1> QED
    BY <1>3 DEF TypeOK, ConfirmPlan, caches

LEMMA ExecuteType ==
  ASSUME TypeOK, NEW r \in Request, NEW p \in PlanId, ExecutePlan(r, p)
  PROVE  TypeOK'
  <1> DEFINE at == IF disk[p].targets = {} THEN "gate" ELSE "load_rows"
             e == [Idle EXCEPT !.at = at, !.op = "execute", !.plan = p,
                               !.todo = disk[p].targets, !.goal = "executing"]
  <1>1. disk[p].targets \in SUBSET Table
    BY DEF TypeOK, PlanRecord
  <1>2. req' = [req EXCEPT ![r] = e]
    BY DEF ExecutePlan
  <1>3. at \in {"gate", "load_rows"}
    OBVIOUS
  <1> HIDE DEF at
  <1>4. StateOK(e)
    BY <1>1, <1>3, IdleType DEF StateOK, InPlace, RequestState, Idle, Step, Status
  <1> HIDE DEF e
  <1>5. req' \in [Request -> RequestState] /\ \A q \in Request : InPlace(req'[q])
    BY <1>2, <1>4, RequestMoves
  <1>6. served' = served + 1 /\ UNCHANGED <<disk, rowsCache, policyCache, outputs, restarts, history>>
    BY DEF ExecutePlan, caches
  <1> QED
    BY <1>5, <1>6 DEF TypeOK

\* A step of a request that keeps the files, the bounds and the history.
LEMMA LocalMove ==
  ASSUME TypeOK, NEW r \in Request, NEW e, StateOK(e), req' = [req EXCEPT ![r] = e],
         rowsCache' \in [PlanId \X Table -> Batch],
         policyCache' \subseteq PlanId \X Table,
         outputs' \subseteq OutputRecord,
         UNCHANGED <<disk, bounds, history>>
  PROVE  TypeOK'
  BY RequestMoves DEF TypeOK, bounds

LEMMA OutputType ==
  ASSUME NEW s \in RequestState, s.plan \in PlanId, NEW t \in Table,
         NEW form \in {"csv", "script", "database"}
  PROVE  Output(s, t, form) \in OutputRecord
  BY DEF Output, OutputRecord, RequestState, Dataset

LEMMA CachingType ==
  ASSUME TypeOK, NEW r \in Request, CacheRows(r) \/ CachePolicy(r)
  PROVE  TypeOK'
  <1> DEFINE s == req[r]
  <1>1. StateOK(s)
    BY DEF TypeOK, StateOK
  <1> HIDE DEF s
  <1>2. s \in RequestState /\ s.todo \in SUBSET Table /\ s.data.rows \in [Table -> Batch]
    BY <1>1 DEF StateOK, RequestState, Dataset
  <1>3. CASE CacheRows(r)
    <2>1. s.plan \in PlanId
      BY <1>1, <1>3 DEF s, StateOK, InPlace, CacheRows
    <2>2. PICK t \in s.todo :
            /\ rowsCache' = [rowsCache EXCEPT ![<<s.plan, t>>] = s.data.rows[t]]
            /\ req' = [req EXCEPT ![r] =
                 IF s.todo # {t} THEN [s EXCEPT !.todo = @ \ {t}]
                 ELSE IF FanOut(s.plan)
                 THEN [s EXCEPT !.at = "next_table", !.todo = disk[s.plan].targets]
                 ELSE [s EXCEPT !.at = "status_read", !.todo = {}]]
      BY <1>3 DEF s, CacheRows
    <2>3. rowsCache' \in [PlanId \X Table -> Batch]
      BY <1>2, <2>1, <2>2 DEF TypeOK
    <2>4. StateOK([s EXCEPT !.todo = @ \ {t}])
      <3>1. s.at = "cache_rows"
        BY <1>3 DEF s, CacheRows
      <3> QED
        BY <1>2, <2>1, <3>1 DEF StateOK, InPlace, RequestState
    <2>5. StateOK([s EXCEPT !.at = "next_table", !.todo = disk[s.plan].targets])
      <3>1. disk[s.plan].targets \in SUBSET Table
        BY <2>1 DEF TypeOK, PlanRecord
      <3> QED
        BY <1>2, <2>1, <3>1 DEF StateOK, InPlace, RequestState, Step
    <2>6. StateOK([s EXCEPT !.at = "status_read", !.todo = {}])
      BY <1>2, <2>1 DEF StateOK, InPlace, RequestState, Step
    <2> DEFINE e == IF s.todo # {t} THEN [s EXCEPT !.todo = @ \ {t}]
                    ELSE IF FanOut(s.plan)
                    THEN [s EXCEPT !.at = "next_table", !.todo = disk[s.plan].targets]
                    ELSE [s EXCEPT !.at = "status_read", !.todo = {}]
    <2>7. StateOK(e)
      BY <2>4, <2>5, <2>6
    <2>8. req' = [req EXCEPT ![r] = e]
      BY <2>2
    <2>9. UNCHANGED <<disk, policyCache, outputs, bounds, history>>
      BY <1>3 DEF CacheRows
    <2> HIDE DEF e
    <2>10. policyCache' \subseteq PlanId \X Table /\ outputs' \subseteq OutputRecord
      BY <2>9 DEF TypeOK
    <2> QED
      BY <2>3, <2>7, <2>8, <2>9, <2>10, LocalMove
  <1>4. CASE CachePolicy(r)
    <2>1. s.plan \in PlanId /\ s.at = "cache_policy"
      BY <1>1, <1>4 DEF s, StateOK, InPlace, CachePolicy
    <2>2. PICK t \in s.todo :
            /\ policyCache' = policyCache \cup {<<s.plan, t>>}
            /\ req' = [req EXCEPT ![r] = IF s.todo = {t} THEN Idle ELSE [s EXCEPT !.todo = @ \ {t}]]
      BY <1>4 DEF s, CachePolicy
    <2>3. policyCache' \subseteq PlanId \X Table
      BY <1>2, <2>1, <2>2 DEF TypeOK
    <2>4. StateOK([s EXCEPT !.todo = @ \ {t}])
      BY <1>2, <2>1 DEF StateOK, InPlace, RequestState
    <2> DEFINE e == IF s.todo = {t} THEN Idle ELSE [s EXCEPT !.todo = @ \ {t}]
    <2>5. StateOK(e)
      BY <2>4, IdleOK
    <2>6. req' = [req EXCEPT ![r] = e]
      BY <2>2
    <2>7. UNCHANGED <<disk, rowsCache, outputs, bounds, history>>
      BY <1>4 DEF CachePolicy
    <2> HIDE DEF e
    <2>8. rowsCache' \in [PlanId \X Table -> Batch] /\ outputs' \subseteq OutputRecord
      BY <2>7 DEF TypeOK
    <2> QED
      BY <2>3, <2>5, <2>6, <2>7, <2>8, LocalMove
  <1> QED
    BY <1>3, <1>4

LEMMA LoopType ==
  ASSUME TypeOK, NEW r \in Request, NextTable(r) \/ DispatchSubagent(r) \/ UpdateStatusRead(r)
  PROVE  TypeOK'
  <1> DEFINE s == req[r]
  <1>1. s \in RequestState /\ s.plan \in PlanId /\ s.data \in Dataset /\ s.todo \in SUBSET Table
    BY DEF TypeOK, InPlace, RequestState, NextTable, DispatchSubagent, UpdateStatusRead
  <1>2. disk[s.plan] \in PlanRecord
    BY <1>1 DEF TypeOK
  <1>3. UNCHANGED <<disk, caches, bounds, history>>
    BY DEF NextTable, DispatchSubagent, UpdateStatusRead
  <1>4. rowsCache' \in [PlanId \X Table -> Batch] /\ policyCache' \subseteq PlanId \X Table
    BY <1>3 DEF TypeOK, caches
  <1>5. CASE NextTable(r)
    <2> DEFINE acts == IF s.op = "execute" THEN ExecuteActions ELSE PreviewActions(s.data)
               end == [s EXCEPT !.at = "status_read"]
               enter(t) == [s EXCEPT !.at = DispatchStep(acts), !.table = t,
                                     !.todo = @ \ {t}, !.acts = acts]
    <2>1. acts \in Seq(Action) /\ acts # <<>>
      BY <1>1, ActionsType, PreviewActionsType
    <2>2. \/ req' = [req EXCEPT ![r] = end]
          \/ \E t \in s.todo : req' = [req EXCEPT ![r] = enter(t)]
      BY <1>5 DEF NextTable
    <2>3. StateOK(end)
      BY <1>1 DEF StateOK, InPlace, RequestState, Step
    <2> HIDE DEF acts
    <2>4. DispatchStep(acts) \in {"dispatch", "sql_gate"}
      BY DEF DispatchStep
    <2>5. ASSUME NEW t \in s.todo PROVE StateOK(enter(t))
      BY <1>1, <2>1, <2>4 DEF StateOK, InPlace, RequestState, Step
    <2>6. outputs' \subseteq OutputRecord
      BY <1>5 DEF NextTable, TypeOK
    <2> HIDE DEF end, enter
    <2>7. CASE req' = [req EXCEPT ![r] = end]
      BY <1>3, <1>4, <2>3, <2>6, <2>7, LocalMove
    <2>8. CASE \E t \in s.todo : req' = [req EXCEPT ![r] = enter(t)]
      BY <1>3, <1>4, <2>5, <2>6, <2>8, LocalMove
    <2> QED
      BY <2>2, <2>7, <2>8
  <1>6. CASE DispatchSubagent(r)
    <2> DEFINE e == [s EXCEPT !.at = "record", !.buf = disk[s.plan]]
    <2>1. s.table \in Table /\ s.acts # <<>>
      BY <1>6 DEF DispatchSubagent, TypeOK, InPlace
    <2>2. StateOK(e)
      BY <1>1, <1>2, <2>1 DEF StateOK, InPlace, RequestState, Step
    <2>3. Output(s, s.table, "script") \in OutputRecord
      BY <1>1, <2>1, OutputType
    <2>4. outputs' \subseteq OutputRecord
      BY <1>6, <2>3 DEF DispatchSubagent, TypeOK
    <2>5. req' = [req EXCEPT ![r] = e]
      BY <1>6 DEF DispatchSubagent
    <2> HIDE DEF e
    <2> QED
      BY <1>3, <1>4, <2>2, <2>4, <2>5, LocalMove
  <1>7. CASE UpdateStatusRead(r)
    <2> DEFINE e == [s EXCEPT !.at = "status_write", !.buf = disk[s.plan]]
    <2>1. StateOK(e)
      BY <1>1, <1>2 DEF StateOK, InPlace, RequestState, Step
    <2>2. req' = [req EXCEPT ![r] = e] /\ outputs' \subseteq OutputRecord
      BY <1>7 DEF UpdateStatusRead, TypeOK
    <2> HIDE DEF e
    <2> QED
      BY <1>3, <1>4, <2>1, <2>2, LocalMove
  <1> QED
    BY <1>5, <1>6, <1>7

LEMMA WriteType ==
  ASSUME TypeOK, NEW r \in Request, RecordSubtask(r) \/ UpdateStatusWrite(r)
  PROVE  TypeOK'
  <1> DEFINE s == req[r]
  <1>1. s \in RequestState /\ StateOK(s) /\ s.plan \in PlanId
    BY DEF TypeOK, StateOK, InPlace, RecordSubtask, UpdateStatusWrite
  <1>2. s.buf \in PlanRecord /\ history[s.plan] \in HistoryRecord
    BY <1>1 DEF TypeOK, RequestState
  <1>3. UNCHANGED <<caches, outputs, bounds>>
    BY DEF RecordSubtask, UpdateStatusWrite
  <1>4. CASE RecordSubtask(r)
    <2>1. WithSubtask(r) \in PlanRecord
      BY <1>2 DEF WithSubtask, PlanRecord
    <2>2. disk' \in [PlanId -> PlanRecord]
      BY <1>1, <1>4, <2>1 DEF RecordSubtask, TypeOK
    <2>3. Dispatched(history[s.plan], s) \in HistoryRecord
      BY <1>2, DispatchedType
    <2>4. history' = [history EXCEPT ![s.plan] = Dispatched(history[s.plan], s)]
      BY <1>4 DEF RecordSubtask
    <2>5. history' \in [PlanId -> HistoryRecord]
      BY <1>1, <2>3, <2>4 DEF TypeOK
    <2>6. StateOK(AfterRecord(s)) /\ req' = [req EXCEPT ![r] = AfterRecord(s)]
      BY <1>1, <1>4, AfterRecordOK DEF RecordSubtask
    <2>7. req' \in [Request -> RequestState] /\ \A q \in Request : InPlace(req'[q])
      BY <2>6, RequestMoves
    <2> QED
      BY <1>3, <2>2, <2>5, <2>7 DEF TypeOK, caches, bounds
  <1>5. CASE UpdateStatusWrite(r)
    <2>1. disk' = [disk EXCEPT ![s.plan] = Updated(s)]
          /\ history' = [history EXCEPT ![s.plan] = Recorded(history[s.plan], s)]
          /\ req' = [req EXCEPT ![r] = AfterUpdate(s)]
          /\ s.at = "status_write"
      BY <1>5 DEF UpdateStatusWrite
    <2>2. disk' \in [PlanId -> PlanRecord]
      BY <1>1, <2>1, UpdatedType DEF TypeOK
    <2>3. history \in [PlanId -> HistoryRecord] /\ restarts \in Nat
      BY DEF TypeOK
    <2>4. history' \in [PlanId -> HistoryRecord]
      BY <1>1, <1>2, <2>1, <2>3, RecordedType
    <2>5. StateOK(AfterUpdate(s))
      BY <1>1, <2>1, <2>3, AfterUpdateOK
    <2>6. req' \in [Request -> RequestState] /\ \A q \in Request : InPlace(req'[q])
      BY <2>1, <2>5, RequestMoves
    <2> QED
      BY <1>3, <2>2, <2>4, <2>6 DEF TypeOK, caches, bounds
  <1> QED
    BY <1>4, <1>5

LEMMA ExecuteStepType ==
  ASSUME TypeOK, NEW r \in Request,
         LoadRows(r) \/ LoadPolicy(r) \/ Gate(r) \/ Work(r) \/ ExecuteSqlGate(r) \/ ApplyStatements(r)
  PROVE  TypeOK'
  <1> DEFINE s == req[r]
  <1>1. s \in RequestState /\ InPlace(s) /\ s.plan \in PlanId /\ s.data \in Dataset
        /\ s.todo \in SUBSET Table
    BY DEF TypeOK, InPlace, RequestState, LoadRows, LoadPolicy, Gate, Work, ExecuteSqlGate,
           ApplyStatements
  <1>2. UNCHANGED <<disk, caches, bounds, history>>
    BY DEF LoadRows, LoadPolicy, Gate, Work, ExecuteSqlGate, ApplyStatements
  <1>3. rowsCache' \in [PlanId \X Table -> Batch] /\ policyCache' \subseteq PlanId \X Table
    BY <1>2 DEF TypeOK, caches
  <1>4. outputs \subseteq OutputRecord
    BY DEF TypeOK
  <1>5. CASE LoadRows(r)
    <2>1. PICK t \in s.todo : req' = [req EXCEPT ![r] =
            [s EXCEPT !.at = "load_policy", !.table = t, !.data.rows[t] = rowsCache[<<s.plan, t>>]]]
      BY <1>5 DEF LoadRows
    <2> DEFINE b == rowsCache[<<s.plan, t>>]
               d == [s.data EXCEPT !.rows = [s.data.rows EXCEPT ![t] = b]]
               e == [s EXCEPT !.at = "load_policy", !.table = t, !.data = d]
    <2>2. b \in Batch
      BY <1>1 DEF TypeOK
    <2> HIDE DEF b
    <2>3. d \in Dataset
      BY <1>1, <2>2 DEF Dataset
    <2>4. e = [s EXCEPT !.at = "load_policy", !.table = t, !.data.rows[t] = b]
      BY <1>1 DEF RequestState, Dataset
    <2> HIDE DEF d
    <2>5. StateOK(e)
      BY <1>1, <2>3 DEF StateOK, InPlace, RequestState, Step
    <2>6. req' = [req EXCEPT ![r] = e]
      BY <2>1, <2>4 DEF b
    <2>7. outputs' \subseteq OutputRecord
      BY <1>4, <1>5 DEF LoadRows
    <2> HIDE DEF e
    <2> QED
      BY <1>2, <1>3, <2>5, <2>6, <2>7, LocalMove
  <1>6. CASE LoadPolicy(r)
    <2> DEFINE at == IF s.todo = {s.table} THEN "gate" ELSE "load_rows"
               m == IF <<s.plan, s.table>> \in policyCache
                    THEN s.data.masked \cup {s.table} ELSE s.data.masked
               d == [s.data EXCEPT !.masked = m]
               e == [s EXCEPT !.at = at, !.table = NoTable, !.todo = @ \ {s.table}, !.data = d]
    <2>1. s.table \in Table
      BY <1>1, <1>6 DEF LoadPolicy, InPlace
    <2>2. at \in {"gate", "load_rows"} /\ d \in Dataset
      BY <1>1, <2>1 DEF Dataset
    <2>3. req' = [req EXCEPT ![r] = e]
      BY <1>6 DEF LoadPolicy
    <2>4. outputs' \subseteq OutputRecord
      BY <1>4, <1>6 DEF LoadPolicy
    <2> HIDE DEF at, d
    <2>5. StateOK(e)
      BY <1>1, <2>2 DEF StateOK, InPlace, RequestState, Step
    <2> HIDE DEF e
    <2> QED
      BY <1>2, <1>3, <2>3, <2>4, <2>5, LocalMove
  <1>7. CASE Gate(r)
    <2> DEFINE on == [s EXCEPT !.at = "status_read"]
    <2>1. StateOK(on)
      BY <1>1 DEF StateOK, InPlace, RequestState, Step
    <2> DEFINE e == IF MayExecute(disk[s.plan]) THEN on ELSE Idle
    <2>2. StateOK(e)
      BY <2>1, IdleOK
    <2>3. req' = [req EXCEPT ![r] = e] /\ outputs' \subseteq OutputRecord
      BY <1>4, <1>7 DEF Gate
    <2> HIDE DEF e
    <2> QED
      BY <1>2, <1>3, <2>2, <2>3, LocalMove
  <1>8. CASE Work(r)
    <2> DEFINE masking == disk[s.plan].intent = "mask"
               d == [s.data EXCEPT !.masked = IF masking THEN s.todo ELSE {}]
               ready == [s EXCEPT !.at = "status_read", !.todo = {},
                                  !.data.masked = IF masking THEN s.todo ELSE {}]
               e == IF s.todo = {} THEN Idle ELSE ready
    <2>1. d \in Dataset
      BY <1>1 DEF Dataset
    <2>2. ready = [s EXCEPT !.at = "status_read", !.todo = {}, !.data = d]
      BY <1>1 DEF RequestState, Dataset
    <2>3. req' = [req EXCEPT ![r] = e]
      BY <1>8 DEF Work
    <2>4. outputs' = outputs \cup {Output(ready, t, "csv") :
                                    t \in {t \in s.todo : masking /\ s.data.rows[t] # EmptyBatch}}
      BY <1>8 DEF Work
    <2> HIDE DEF d
    <2>5. StateOK(ready) /\ ready.plan = s.plan
      BY <1>1, <2>1, <2>2 DEF StateOK, InPlace, RequestState, Step
    <2> HIDE DEF ready
    <2>6. StateOK(e)
      BY <2>5, IdleOK
    <2>7. \A t \in s.todo : Output(ready, t, "csv") \in OutputRecord
      BY <1>1, <2>5, OutputType DEF StateOK
    <2>8. outputs' \subseteq OutputRecord
      BY <1>4, <2>4, <2>7
    <2> HIDE DEF e
    <2> QED
      BY <1>2, <1>3, <2>3, <2>6, <2>8, LocalMove
  <1>9. CASE ExecuteSqlGate(r)
    <2> DEFINE on == [s EXCEPT !.at = "sql_apply"]
    <2>1. StateOK(on)
      BY <1>1, <1>9 DEF StateOK, InPlace, RequestState, Step, ExecuteSqlGate
    <2> DEFINE e == IF MayWrite(disk[s.plan]) THEN on ELSE Idle
    <2>2. StateOK(e)
      BY <2>1, IdleOK
    <2>3. req' = [req EXCEPT ![r] = e] /\ outputs' \subseteq OutputRecord
      BY <1>4, <1>9 DEF ExecuteSqlGate
    <2> HIDE DEF e
    <2> QED
      BY <1>2, <1>3, <2>2, <2>3, LocalMove
  <1>10. CASE ApplyStatements(r)
    <2> DEFINE e == [s EXCEPT !.at = "dispatch"]
    <2>1. s.table \in Table /\ s.acts # <<>>
      BY <1>1, <1>10 DEF ApplyStatements, InPlace
    <2>2. StateOK(e)
      BY <1>1, <2>1 DEF StateOK, InPlace, RequestState, Step
    <2>3. req' = [req EXCEPT ![r] = e]
      BY <1>10 DEF ApplyStatements
    <2>4. Output(s, s.table, "database") \in OutputRecord
      BY <1>1, <2>1, OutputType
    <2>5. outputs' \subseteq OutputRecord
      BY <1>4, <1>10, <2>4 DEF ApplyStatements
    <2> HIDE DEF e
    <2> QED
      BY <1>2, <1>3, <2>2, <2>3, <2>5, LocalMove
  <1> QED
    BY <1>5, <1>6, <1>7, <1>8, <1>9, <1>10

LEMMA RestartType == ASSUME TypeOK, Restart PROVE TypeOK'
  BY IdleOK, InputAssumption DEF TypeOK, Restart, StateOK

LEMMA TypeStep == ASSUME TypeOK, [Next]_vars PROVE TypeOK'
  <1>1. ASSUME NEW p \in PlanId, NEW reply \in Reply, CreatePlan(p, reply) PROVE TypeOK'
    BY <1>1, CreateType
  <1>2. ASSUME NEW r \in Request, Serve(r) PROVE TypeOK'
    BY <1>2, PreviewType, ConfirmType, ExecuteType DEF Serve
  <1>3. ASSUME NEW r \in Request, Continue(r) PROVE TypeOK'
    BY <1>3, CachingType, LoopType, WriteType, ExecuteStepType DEF Continue
  <1>4. CASE UNCHANGED vars
    BY <1>4 DEF TypeOK, vars
  <1> QED
    BY <1>1, <1>2, <1>3, <1>4, RestartType DEF Next

LEMMA TypeInit == Init => TypeOK
  BY IdleOK, NoPlanType, InputAssumption DEF Init, TypeOK, StateOK, Untouched, HistoryRecord

\* The state always has its type: in particular a plan's status is one that
\* PlanStatus declares, a request that runs a tool has a table to run it for, and
\* the loops over tables never take the head of an empty list of dispatches.
THEOREM TypeCorrect == Spec => []TypeOK
  <1> QED
    BY TypeInit, TypeStep, PTL DEF Spec

-----------------------------------------------------------------------------
(* Authority.  Nothing runs, and no plan shows as completed, without a      *)
(* confirmation.  execute() and execute_sql() trust the status in the plan  *)
(* file, and every request writes that file back whole from an earlier      *)
(* read, so the argument follows the authority through the plan objects     *)
(* that requests hold (Licensed) as well as through the files (Earned).     *)


\* History only grows.
Grows(h, k) == h.confirms <= k.confirms /\ Len(h.runs) <= Len(k.runs)

LEMMA EarnedLasts ==
  ASSUME NEW plan, NEW h \in HistoryRecord, NEW k \in HistoryRecord, Grows(h, k), Earned(plan, h)
  PROVE  Earned(plan, k)
  <1>1. Len(h.runs) \in Nat /\ Len(k.runs) \in Nat /\ h.confirms \in Nat /\ k.confirms \in Nat
    BY LenProperties DEF HistoryRecord
  <1> QED
    BY <1>1 DEF Earned, Grows

LEMMA LicenseLasts ==
  ASSUME NEW s, NEW h \in HistoryRecord, NEW k \in HistoryRecord, Grows(h, k), Licensed(s, h)
  PROVE  Licensed(s, k)
  <1>1. Len(h.runs) \in Nat /\ Len(k.runs) \in Nat /\ h.confirms \in Nat /\ k.confirms \in Nat
    BY LenProperties DEF HistoryRecord
  <1>2. Earned(s.buf, k)
    BY EarnedLasts DEF Licensed
  <1>3. \A n : n \in 1 .. Len(h.runs) => n \in 1 .. Len(k.runs)
    BY <1>1 DEF Grows
  <1>4. h.confirms > 0 => k.confirms > 0
    BY <1>1 DEF Grows
  <1> QED
    BY <1>2, <1>3, <1>4 DEF Licensed

LEMMA NoPlanEarned == ASSUME NEW h PROVE Earned(NoPlan, h)
  BY DEF Earned, NoPlan, Armed

\* A step of a request that writes no plan file: what it goes on to do has to be
\* licensed, and what it produces has to belong to an execution that started.
LEMMA LocalAuthority ==
  ASSUME TypeOK, Authority, NEW r \in Request, NEW e, req' = [req EXCEPT ![r] = e],
         e.at # "idle" => Licensed(e, history[e.plan]),
         \A o \in outputs' : o \in outputs \/ o.run \in 1 .. Len(history[o.plan].runs),
         UNCHANGED <<disk, history>>
  PROVE  Authority'
  <1>1. \A q \in Request : req'[q] = IF q = r THEN e ELSE req[q]
    BY DEF TypeOK
  <1>2. \A q \in Request : req'[q].at # "idle" => Licensed(req'[q], history[req'[q].plan])
    BY <1>1 DEF Authority
  <1>3. ExecutionAuthorised'
    BY DEF Authority, ExecutionAuthorised
  <1> QED
    BY <1>2, <1>3 DEF Authority

\* A step of a request that writes the file of its plan.
LEMMA WriteAuthority ==
  ASSUME TypeOK, Authority, NEW r \in Request, NEW p \in PlanId, NEW plan, NEW k \in HistoryRecord, NEW e,
         disk' = [disk EXCEPT ![p] = plan],
         history' = [history EXCEPT ![p] = k],
         req' = [req EXCEPT ![r] = e],
         Grows(history[p], k),
         Len(k.runs) > 0 => k.confirms > 0,
         Earned(plan, k),
         e.at # "idle" => e.plan = p /\ Licensed(e, k),
         UNCHANGED outputs
  PROVE  Authority'
  <1>1. /\ \A q \in Request : req'[q] = IF q = r THEN e ELSE req[q]
        /\ \A q \in PlanId : history'[q] = IF q = p THEN k ELSE history[q]
        /\ \A q \in PlanId : disk'[q] = IF q = p THEN plan ELSE disk[q]
    BY DEF TypeOK
  <1>2. \A q \in PlanId : /\ history[q] \in HistoryRecord
                          /\ history'[q] \in HistoryRecord
                          /\ Grows(history[q], history'[q])
    <2>1. \A h \in HistoryRecord : Grows(h, h)
      BY LenProperties DEF Grows, HistoryRecord
    <2> QED
      BY <1>1, <2>1 DEF TypeOK
  <1>3. \A q \in PlanId : Earned(disk'[q], history'[q])
    BY <1>1 DEF Authority
  <1>4. ASSUME NEW q \in Request, req'[q].at # "idle"
        PROVE  Licensed(req'[q], history'[req'[q].plan])
    <2>1. CASE q = r
      BY <1>1, <1>4, <2>1
    <2>2. CASE q # r
      <3>1. req'[q] = req[q] /\ req[q].plan \in PlanId
        BY <1>1, <1>4, <2>2 DEF TypeOK, InPlace
      <3>2. Licensed(req[q], history[req[q].plan])
        BY <1>4, <3>1 DEF Authority
      <3> QED
        BY <1>2, <3>1, <3>2, LicenseLasts
    <2> QED
      BY <2>1, <2>2
  <1>5. ExecutionAuthorised'
    <2>1. \A q \in PlanId : Len(history'[q].runs) > 0 => history'[q].confirms > 0
      BY <1>1 DEF Authority, ExecutionAuthorised
    <2>2. ASSUME NEW o \in outputs PROVE o.run \in 1 .. Len(history'[o.plan].runs)
      <3>1. o.plan \in PlanId /\ o.run \in Nat
        BY DEF TypeOK, OutputRecord
      <3>2. o.run \in 1 .. Len(history[o.plan].runs)
        BY DEF Authority, ExecutionAuthorised
      <3>3. Len(history[o.plan].runs) \in Nat /\ Len(history'[o.plan].runs) \in Nat
        BY <1>2, <3>1, LenProperties DEF HistoryRecord
      <3> QED
        BY <1>2, <3>1, <3>2, <3>3 DEF Grows
    <2> QED
      BY <2>1, <2>2 DEF ExecutionAuthorised
  <1> QED
    BY <1>3, <1>4, <1>5 DEF Authority

-----------------------------------------------------------------------------
(* One step per action *)

LEMMA CreateAuthority ==
  ASSUME TypeOK, Authority, NEW p \in PlanId, NEW reply \in Reply, CreatePlan(p, reply)
  PROVE  Authority'
  <1>1. Draft(reply).status \in {"planning", "awaiting_confirmation"}
    <2>1. \A i, T : NewPlan(i, T).status \in {"planning", "awaiting_confirmation"}
      BY DEF NewPlan, NoPlan
    <2> QED
      BY <2>1 DEF Draft
  <1>2. disk' = [disk EXCEPT ![p] = Draft(reply)] /\ UNCHANGED <<req, outputs, history>>
    BY DEF CreatePlan
  <1>3. \A q \in PlanId : Earned(disk'[q], history[q])
    <2>1. \A h : Earned(Draft(reply), h)
      BY <1>1 DEF Earned, Armed
    <2> QED
      BY <1>2, <2>1 DEF Authority, TypeOK
  <1> QED
    BY <1>2, <1>3 DEF Authority, ExecutionAuthorised

LEMMA ServeAuthority ==
  ASSUME TypeOK, Authority, NEW r \in Request, Serve(r)
  PROVE  Authority'
  <1>1. UNCHANGED <<disk, outputs, history>>
    BY DEF Serve, PreviewPlan, ConfirmPlan, ExecutePlan
  <1>2. <<>> \in Seq(PreviewTool)
    BY EmptySeq
  <1>3. PICK p \in PlanId :
          \/ \E uploaded \in Upload, mask \in BOOLEAN : PreviewPlan(r, p, uploaded, mask)
          \/ \E yes \in BOOLEAN : ConfirmPlan(r, p, yes)
          \/ ExecutePlan(r, p)
    BY DEF Serve
  <1>4. ASSUME NEW uploaded \in Upload, NEW mask \in BOOLEAN, PreviewPlan(r, p, uploaded, mask)
        PROVE  Authority'
    <2> DEFINE data == [rows |-> [t \in Table |-> IF t \in disk[p].targets THEN uploaded[t]
                                                                           ELSE EmptyBatch],
                        masked |-> PreviewPolicies(disk[p], mask)]
               todo == disk[p].targets
               e == [Idle EXCEPT !.at = "cache_rows", !.op = "preview", !.plan = p,
                                 !.data = data, !.todo = todo, !.goal = "awaiting_confirmation"]
    <2>1. req' = [req EXCEPT ![r] = e]
      BY <1>4 DEF PreviewPlan
    <2> HIDE DEF data, todo
    <2>2. Licensed(e, history[e.plan])
      BY <1>2, NoPlanEarned DEF Licensed, Idle, BeforeGate
    <2> HIDE DEF e
    <2> QED
      BY <1>1, <2>1, <2>2, LocalAuthority
  <1>5. ASSUME NEW yes \in BOOLEAN, ConfirmPlan(r, p, yes) PROVE Authority'
    <2> DEFINE e == [Idle EXCEPT !.at = "status_read", !.op = "confirm", !.plan = p,
                                 !.goal = Decision(yes)]
    <2>1. req' = [req EXCEPT ![r] = e]
      BY <1>5 DEF ConfirmPlan
    <2>2. Licensed(e, history[e.plan])
      BY NoPlanEarned DEF Licensed, Idle, BeforeGate, Decision
    <2> HIDE DEF e
    <2> QED
      BY <1>1, <2>1, <2>2, LocalAuthority
  <1>6. CASE ExecutePlan(r, p)
    <2> DEFINE at == IF disk[p].targets = {} THEN "gate" ELSE "load_rows"
               todo == disk[p].targets
               e == [Idle EXCEPT !.at = at, !.op = "execute", !.plan = p,
                                 !.todo = todo, !.goal = "executing"]
    <2>1. req' = [req EXCEPT ![r] = e] /\ at \in {"gate", "load_rows"}
      BY <1>6 DEF ExecutePlan
    <2> HIDE DEF at, todo
    <2>2. Licensed(e, history[e.plan])
      BY <2>1, NoPlanEarned DEF Licensed, Idle, BeforeGate
    <2> HIDE DEF e
    <2> QED
      BY <1>1, <2>1, <2>2, LocalAuthority
  <1> QED
    BY <1>3, <1>4, <1>5, <1>6

LEMMA CachingAuthority ==
  ASSUME TypeOK, Authority, NEW r \in Request, CacheRows(r) \/ CachePolicy(r)
  PROVE  Authority'
  <1> DEFINE s == req[r]
  <1>1. s \in RequestState /\ Licensed(s, history[s.plan])
    BY DEF TypeOK, Authority, CacheRows, CachePolicy
  <1>2. UNCHANGED <<disk, outputs, history>>
    BY DEF CacheRows, CachePolicy
  <1>3. CASE CacheRows(r)
    <2> DEFINE on(at, T) == [s EXCEPT !.at = at, !.todo = T]
    <2>0. PICK at \in {"cache_rows", "next_table", "status_read"} :
            \E T : req' = [req EXCEPT ![r] = on(at, T)]
      <3>1. PICK t \in s.todo : req' = [req EXCEPT ![r] =
               IF s.todo # {t} THEN [s EXCEPT !.todo = @ \ {t}]
               ELSE IF FanOut(s.plan)
               THEN [s EXCEPT !.at = "next_table", !.todo = disk[s.plan].targets]
               ELSE [s EXCEPT !.at = "status_read", !.todo = {}]]
        BY <1>3 DEF CacheRows
      <3>2. [s EXCEPT !.todo = @ \ {t}] = on("cache_rows", s.todo \ {t})
        BY <1>1, <1>3 DEF CacheRows, RequestState
      <3> HIDE DEF s
      <3> QED
        BY <3>1, <3>2
    <2>1. PICK T : req' = [req EXCEPT ![r] = on(at, T)]
      BY <2>0
    <2>2. s.at = "cache_rows"
      BY <1>3 DEF CacheRows
    <2> DEFINE e == on(at, T)
    <2>3. /\ e.at = at /\ e.op = s.op /\ e.plan = s.plan /\ e.goal = s.goal /\ e.acts = s.acts
          /\ e.run = s.run /\ e.buf = s.buf
      BY <1>1 DEF RequestState
    <2>4. req' = [req EXCEPT ![r] = e]
      BY <2>1
    <2> HIDE DEF e, s
    <2>5. Licensed(e, history[e.plan])
      BY <1>1, <2>1, <2>2, <2>3 DEF Licensed, BeforeGate
    <2> QED
      BY <1>2, <2>4, <2>5, LocalAuthority
  <1>4. CASE CachePolicy(r)
    <2>1. PICK t \in s.todo :
            req' = [req EXCEPT ![r] = IF s.todo = {t} THEN Idle ELSE [s EXCEPT !.todo = @ \ {t}]]
      BY <1>4 DEF CachePolicy
    <2> DEFINE on == [s EXCEPT !.todo = @ \ {t}]
               e == IF s.todo = {t} THEN Idle ELSE on
    <2>2. /\ on.at = s.at /\ on.op = s.op /\ on.plan = s.plan /\ on.goal = s.goal
          /\ on.acts = s.acts /\ on.run = s.run /\ on.buf = s.buf
      BY <1>1 DEF RequestState
    <2>3. req' = [req EXCEPT ![r] = e]
      BY <2>1
    <2> HIDE DEF s, on
    <2>4. Licensed(on, history[on.plan])
      BY <1>1, <2>2 DEF Licensed
    <2>5. e.at # "idle" => Licensed(e, history[e.plan])
      BY <2>4 DEF Idle
    <2> HIDE DEF e
    <2> QED
      BY <1>2, <2>3, <2>5, LocalAuthority
  <1> QED
    BY <1>3, <1>4

LEMMA PreviewToolsType ==
  ASSUME NEW data \in Dataset
  PROVE  PreviewActions(data) \in Seq(PreviewTool) /\ PreviewActions(data) # <<>>
  <1>1. {"profile_file", "diff_against_schema", "validate_batch", "classify_sensitivity",
         "propose_masking_rule", "apply_masking_dry_run"} \subseteq PreviewTool
    BY DEF PreviewTool, Action
  <1> HIDE DEF PreviewTool
  <1> QED
    BY <1>1 DEF PreviewActions

LEMMA HeadTool == ASSUME NEW S, NEW q \in Seq(S), q # <<>> PROVE Head(q) \in S
  OBVIOUS

LEMMA LoopAuthority ==
  ASSUME TypeOK, Authority, NEW r \in Request,
         NextTable(r) \/ DispatchSubagent(r) \/ UpdateStatusRead(r)
  PROVE  Authority'
  <1> DEFINE s == req[r]
             h == history[s.plan]
  <1>1. /\ s \in RequestState /\ Licensed(s, h) /\ s.plan \in PlanId /\ h \in HistoryRecord
        /\ s.acts \in Seq(Action)
    BY DEF TypeOK, Authority, InPlace, RequestState, NextTable, DispatchSubagent, UpdateStatusRead
  <1>2. Earned(disk[s.plan], h)
    BY <1>1 DEF Authority
  <1>3. UNCHANGED <<disk, history>>
    BY DEF NextTable, DispatchSubagent, UpdateStatusRead
  <1>4. CASE NextTable(r)
    <2> DEFINE acts == IF s.op = "execute" THEN ExecuteActions ELSE PreviewActions(s.data)
               end == [s EXCEPT !.at = "status_read"]
               enter(t) == [s EXCEPT !.at = DispatchStep(acts), !.table = t,
                                     !.todo = @ \ {t}, !.acts = acts]
    <2>1. /\ s.at = "next_table" /\ UNCHANGED outputs
          /\ \/ req' = [req EXCEPT ![r] = end]
             \/ \E t \in s.todo : req' = [req EXCEPT ![r] = enter(t)]
      BY <1>4 DEF NextTable
    <2>2. Licensed(end, history[end.plan])
      <3>1. /\ end.at = "status_read" /\ end.op = s.op /\ end.plan = s.plan /\ end.goal = s.goal
            /\ end.acts = s.acts /\ end.run = s.run /\ end.buf = s.buf
        BY <1>1 DEF RequestState
      <3> HIDE DEF end
      <3> QED
        BY <1>1, <2>1, <3>1 DEF Licensed, BeforeGate
    <2>3. ASSUME NEW t \in s.todo PROVE Licensed(enter(t), history[enter(t).plan])
      <3> DEFINE e == enter(t)
      <3>1. /\ e.at = DispatchStep(acts) /\ e.op = s.op /\ e.plan = s.plan /\ e.goal = s.goal
            /\ e.acts = acts /\ e.run = s.run /\ e.buf = s.buf
        BY <1>1 DEF RequestState
      <3>2. s.op = "preview" => acts \in Seq(PreviewTool) /\ acts # <<>>
        BY <1>1, PreviewToolsType DEF RequestState
      <3>3. s.op = "preview" => DispatchStep(acts) = "dispatch"
        <4> HIDE DEF acts
        <4>1. s.op = "preview" => Head(acts) \in PreviewTool
          BY <3>2, HeadTool
        <4> QED
          BY <4>1 DEF DispatchStep, PreviewTool
      <3>4. DispatchStep(acts) \in {"dispatch", "sql_gate"}
        BY DEF DispatchStep
      <3>5. s.goal # "executing"
        BY <1>1, <2>1 DEF Licensed, BeforeGate
      <3>6. s.op = "preview" \/ s.goal = "completed"
        BY <1>1, <2>1 DEF Licensed
      <3> HIDE DEF e, acts
      <3>7. Licensed(e, h)
        BY <1>1, <2>1, <3>1, <3>2, <3>3, <3>4, <3>5, <3>6 DEF Licensed, BeforeGate
      <3> QED
        BY <3>1, <3>7 DEF e
    <2> HIDE DEF end, enter
    <2>4. CASE req' = [req EXCEPT ![r] = end]
      BY <1>3, <2>1, <2>2, <2>4, LocalAuthority
    <2>5. CASE \E t \in s.todo : req' = [req EXCEPT ![r] = enter(t)]
      BY <1>3, <2>1, <2>3, <2>5, LocalAuthority
    <2> QED
      BY <2>1, <2>4, <2>5
  <1>5. CASE DispatchSubagent(r)
    <2> DEFINE e == [s EXCEPT !.at = "record", !.buf = disk[s.plan]]
    <2>1. s.at = "dispatch" /\ s.acts # <<>> /\ s.table \in Table
      BY <1>5 DEF DispatchSubagent, TypeOK, InPlace
    <2>2. /\ e.at = "record" /\ e.op = s.op /\ e.plan = s.plan /\ e.goal = s.goal
          /\ e.acts = s.acts /\ e.run = s.run /\ e.buf = disk[s.plan]
      BY <1>1 DEF RequestState
    <2>3. req' = [req EXCEPT ![r] = e]
      BY <1>5 DEF DispatchSubagent
    <2>4. \A o \in outputs' : o \in outputs \/ o.run \in 1 .. Len(history[o.plan].runs)
      <3>1. CASE Head(s.acts) # "generate_sql"
        BY <1>5, <3>1 DEF DispatchSubagent
      <3>2. CASE Head(s.acts) = "generate_sql"
        <4>1. s.op # "preview"
          BY <1>1, <2>1, <3>2, HeadTool DEF Licensed, PreviewTool
        <4>2. s.run \in 1 .. Len(h.runs)
          BY <1>1, <2>1, <4>1 DEF Licensed
        <4>3. outputs' \subseteq outputs \cup {Output(s, s.table, "script")}
          BY <1>5 DEF DispatchSubagent
        <4>4. Output(s, s.table, "script").run = s.run /\ Output(s, s.table, "script").plan = s.plan
          BY DEF Output
        <4> QED
          BY <4>2, <4>3, <4>4
      <3> QED
        BY <3>1, <3>2
    <2> HIDE DEF e
    <2>5. Licensed(e, h)
      BY <1>1, <1>2, <2>1, <2>2 DEF Licensed, BeforeGate
    <2> QED
      BY <1>3, <2>2, <2>3, <2>4, <2>5, LocalAuthority
  <1>6. CASE UpdateStatusRead(r)
    <2> DEFINE e == [s EXCEPT !.at = "status_write", !.buf = disk[s.plan]]
    <2>1. s.at = "status_read" /\ req' = [req EXCEPT ![r] = e] /\ UNCHANGED outputs
      BY <1>6 DEF UpdateStatusRead
    <2>2. /\ e.at = "status_write" /\ e.op = s.op /\ e.plan = s.plan /\ e.goal = s.goal
          /\ e.acts = s.acts /\ e.run = s.run /\ e.buf = disk[s.plan]
      BY <1>1 DEF RequestState
    <2> HIDE DEF e
    <2>3. Licensed(e, h)
      BY <1>1, <1>2, <2>1, <2>2 DEF Licensed, BeforeGate
    <2> QED
      BY <1>3, <2>1, <2>2, <2>3, LocalAuthority
  <1> QED
    BY <1>4, <1>5, <1>6

LEMMA RecordAuthority ==
  ASSUME TypeOK, Authority, NEW r \in Request, RecordSubtask(r)
  PROVE  Authority'
  <1> DEFINE s == req[r]
             h == history[s.plan]
             k == Dispatched(h, s)
             e == AfterRecord(s)
  <1>1. /\ s \in RequestState /\ s.at = "record" /\ Licensed(s, h) /\ s.plan \in PlanId
        /\ h \in HistoryRecord /\ s.acts \in Seq(Action) /\ s.acts # <<>>
    BY DEF TypeOK, Authority, InPlace, RequestState, RecordSubtask
  <1>2. /\ k \in HistoryRecord /\ k.runs = h.runs /\ k.confirms = h.confirms
    BY <1>1, DispatchedType
  <1> HIDE DEF k
  <1>3. Grows(h, k)
    BY <1>1, <1>2, LenProperties DEF Grows, HistoryRecord
  <1>4. Len(k.runs) > 0 => k.confirms > 0
    BY <1>1, <1>2 DEF Authority, ExecutionAuthorised
  <1>5. Earned(WithSubtask(r), k)
    <2>1. /\ WithSubtask(r).status = s.buf.status
          /\ WithSubtask(r).result = s.buf.result
      BY <1>1 DEF WithSubtask, RequestState, PlanRecord
    <2> QED
      BY <1>1, <1>2, <2>1 DEF Licensed, Earned
  <1>6. e.at # "idle" => e.plan = s.plan /\ Licensed(e, h)
    <2>1. CASE Raises(s)
      BY <2>1 DEF AfterRecord, Idle
    <2>2. CASE ~Raises(s) /\ Len(s.acts) = 1
      <3> DEFINE d == [s EXCEPT !.at = "next_table", !.table = NoTable, !.acts = <<>>, !.buf = NoPlan]
      <3>1. e = d
        BY <2>2 DEF AfterRecord
      <3>2. /\ d.at = "next_table" /\ d.op = s.op /\ d.plan = s.plan /\ d.goal = s.goal
            /\ d.acts = <<>> /\ d.run = s.run /\ d.buf = NoPlan
        BY <1>1 DEF RequestState
      <3>3. <<>> \in Seq(PreviewTool)
        BY EmptySeq
      <3> HIDE DEF d, e
      <3> QED
        BY <1>1, <3>1, <3>2, <3>3, NoPlanEarned DEF Licensed, BeforeGate
    <2>3. CASE ~Raises(s) /\ Len(s.acts) # 1
      <3> DEFINE q == Tail(s.acts)
                 d == [s EXCEPT !.at = DispatchStep(q), !.acts = q, !.buf = NoPlan]
      <3>1. e = d
        BY <2>3 DEF AfterRecord
      <3>2. q # <<>>
        BY <1>1, <2>3, TailType
      <3>3. s.op = "preview" => q \in Seq(PreviewTool)
        BY <1>1, HeadTailProperties DEF Licensed
      <3>4. DispatchStep(q) \in {"dispatch", "sql_gate"}
        BY DEF DispatchStep
      <3>5. s.op = "preview" => DispatchStep(q) = "dispatch"
        <4> HIDE DEF q
        <4>1. s.op = "preview" => Head(q) \in PreviewTool
          BY <3>2, <3>3, HeadTool
        <4> QED
          BY <4>1 DEF DispatchStep, PreviewTool
      <3> HIDE DEF q
      <3>6. /\ d.at = DispatchStep(q) /\ d.op = s.op /\ d.plan = s.plan /\ d.goal = s.goal
            /\ d.acts = q /\ d.run = s.run /\ d.buf = NoPlan
        BY <1>1 DEF RequestState
      <3> HIDE DEF d, e
      <3> QED
        BY <1>1, <3>1, <3>3, <3>4, <3>5, <3>6, NoPlanEarned DEF Licensed, BeforeGate
    <2> QED
      BY <2>1, <2>2, <2>3
  <1>7. e.at # "idle" => e.plan = s.plan /\ Licensed(e, k)
    BY <1>1, <1>2, <1>3, <1>6, LicenseLasts
  <1>8. /\ disk' = [disk EXCEPT ![s.plan] = WithSubtask(r)]
        /\ history' = [history EXCEPT ![s.plan] = k]
        /\ req' = [req EXCEPT ![r] = e]
        /\ UNCHANGED outputs
    BY DEF RecordSubtask, k
  <1> HIDE DEF e
  <1> QED
    BY <1>1, <1>2, <1>3, <1>4, <1>5, <1>7, <1>8, WriteAuthority

LEMMA UpdateAuthority ==
  ASSUME TypeOK, Authority, NEW r \in Request, UpdateStatusWrite(r)
  PROVE  Authority'
  <1> DEFINE s == req[r]
             h == history[s.plan]
             k == Recorded(h, s)
             e == AfterUpdate(s)
  <1>1. /\ s \in RequestState /\ s.at = "status_write" /\ Licensed(s, h) /\ s.plan \in PlanId
        /\ h \in HistoryRecord
    BY DEF TypeOK, Authority, InPlace, UpdateStatusWrite
  <1>2. Len(h.runs) \in Nat /\ h.runs \in Seq(Dataset \cup {None}) /\ h.confirms \in Nat
        /\ h.approved \in Dataset \cup {None}
    BY <1>1, LenProperties DEF HistoryRecord
  <1>3. /\ k \in HistoryRecord
        /\ k.confirms = IF s.goal = "confirmed" THEN h.confirms + 1 ELSE h.confirms
        /\ Len(k.runs) = IF s.goal = "executing" THEN Len(h.runs) + 1 ELSE Len(h.runs)
    <2>1. k \in HistoryRecord
      BY <1>1, RecordedType DEF TypeOK
    <2>2. CASE s.goal = "confirmed"
      BY <1>1, <2>1, <2>2 DEF Recorded, HistoryRecord
    <2>3. CASE s.goal = "executing"
      <3>1. k = [h EXCEPT !.runs = Append(h.runs, h.approved), !.started = restarts]
        BY <2>3 DEF Recorded
      <3>2. Len(Append(h.runs, h.approved)) = Len(h.runs) + 1
        BY <1>2, AppendProperties
      <3> QED
        BY <1>1, <2>1, <2>3, <3>1, <3>2 DEF HistoryRecord
    <2>4. CASE s.goal = "awaiting_confirmation"
      <3>1. k = [h EXCEPT !.previewed = restarts]
        BY <2>4 DEF Recorded
      <3> QED
        BY <1>1, <2>1, <2>4, <3>1 DEF HistoryRecord
    <2>5. CASE s.goal \notin {"confirmed", "executing", "awaiting_confirmation"}
      BY <2>1, <2>5 DEF Recorded
    <2> QED
      BY <2>2, <2>3, <2>4, <2>5
  <1> HIDE DEF k
  <1>4. Grows(h, k)
    BY <1>2, <1>3 DEF Grows
  <1>5. s.goal = "executing" => h.confirms > 0
    BY <1>1 DEF Licensed, BeforeGate
  <1>6. Len(k.runs) > 0 => k.confirms > 0
    <2>1. Len(h.runs) > 0 => h.confirms > 0
      BY <1>1 DEF Authority, ExecutionAuthorised
    <2> QED
      BY <1>2, <1>3, <1>5, <2>1
  <1>7. Earned(Updated(s), k)
    <2>1. /\ Updated(s).status = s.goal
          /\ s.goal = "completed" => Updated(s).result = s.data
      BY <1>1 DEF Updated, RequestState, PlanRecord
    <2>2. s.goal = "completed" => s.op = "execute" /\ Len(h.runs) > 0
      BY <1>1, <1>2 DEF Licensed
    <2>3. s.data # None
      BY <1>1, NoneAssumption DEF RequestState
    <2>4. s.goal = "completed" => h.confirms > 0
      BY <1>1, <2>2 DEF Licensed, BeforeGate
    <2> HIDE DEF s, h
    <2> QED
      BY <1>2, <1>3, <1>5, <2>1, <2>2, <2>3, <2>4 DEF Earned, Armed
  <1>8. e.at # "idle" => e.plan = s.plan /\ Licensed(e, k)
    <2>1. CASE s.op = "preview" /\ s.data.masked # {}
      <3> DEFINE m == s.data.masked
                 d == [s EXCEPT !.at = "cache_policy", !.todo = m, !.buf = NoPlan]
      <3>1. e = d
        BY <2>1 DEF AfterUpdate
      <3> HIDE DEF m
      <3>2. /\ d.at = "cache_policy" /\ d.op = s.op /\ d.plan = s.plan /\ d.goal = s.goal
            /\ d.acts = s.acts /\ d.run = s.run /\ d.buf = NoPlan
        BY <1>1 DEF RequestState
      <3> HIDE DEF d, e
      <3> QED
        BY <1>1, <2>1, <3>1, <3>2, NoPlanEarned DEF Licensed, BeforeGate
    <2>2. CASE ~(s.op = "preview" /\ s.data.masked # {}) /\ s.goal = "executing"
      <3> DEFINE at == IF s.buf.intent = "multi_table_job" THEN "next_table" ELSE "work"
                 todo == s.buf.targets
                 run == Len(h.runs) + 1
                 d == [s EXCEPT !.at = at, !.todo = todo, !.buf = NoPlan, !.goal = "completed",
                                !.run = run]
      <3>1. e = d
        BY <2>2 DEF AfterUpdate
      <3>2. at \in {"next_table", "work"}
        OBVIOUS
      <3>3. run \in 1 .. Len(k.runs)
        BY <1>2, <1>3, <2>2
      <3> HIDE DEF at, todo, run
      <3>4. /\ d.at = at /\ d.op = s.op /\ d.plan = s.plan /\ d.goal = "completed"
            /\ d.acts = s.acts /\ d.run = run /\ d.buf = NoPlan
        BY <1>1 DEF RequestState
      <3>5. s.op = "execute" /\ h.confirms > 0
        BY <1>1, <1>5, <2>2 DEF Licensed
      <3>6. k.confirms > 0
        BY <1>3, <2>2, <3>5
      <3> HIDE DEF d, e
      <3> QED
        BY <3>1, <3>2, <3>3, <3>4, <3>5, <3>6, NoPlanEarned DEF Licensed, BeforeGate
    <2>3. CASE ~(s.op = "preview" /\ s.data.masked # {}) /\ s.goal # "executing"
      BY <2>3 DEF AfterUpdate, Idle
    <2> QED
      BY <2>1, <2>2, <2>3
  <1>9. /\ disk' = [disk EXCEPT ![s.plan] = Updated(s)]
        /\ history' = [history EXCEPT ![s.plan] = k]
        /\ req' = [req EXCEPT ![r] = e]
        /\ UNCHANGED outputs
    BY DEF UpdateStatusWrite, k
  <1> HIDE DEF e
  <1> QED
    BY <1>1, <1>3, <1>4, <1>6, <1>7, <1>8, <1>9, WriteAuthority

LEMMA ExecuteStepAuthority ==
  ASSUME TypeOK, Authority, NEW r \in Request,
         LoadRows(r) \/ LoadPolicy(r) \/ Gate(r) \/ Work(r) \/ ExecuteSqlGate(r) \/ ApplyStatements(r)
  PROVE  Authority'
  <1> DEFINE s == req[r]
             h == history[s.plan]
  <1>1. /\ s \in RequestState /\ Licensed(s, h) /\ s.plan \in PlanId /\ s.data \in Dataset
    BY DEF TypeOK, Authority, InPlace, RequestState, LoadRows, LoadPolicy, Gate, Work,
           ExecuteSqlGate, ApplyStatements
  <1>2. UNCHANGED <<disk, history>>
    BY DEF LoadRows, LoadPolicy, Gate, Work, ExecuteSqlGate, ApplyStatements
  \* What a step of this part keeps of the request's state.
  <1> DEFINE Kept(e) == /\ e.op = s.op /\ e.plan = s.plan /\ e.goal = s.goal /\ e.acts = s.acts
                        /\ e.run = s.run /\ e.buf = s.buf
  <1>3. CASE LoadRows(r)
    <2>1. PICK t \in s.todo : req' = [req EXCEPT ![r] =
            [s EXCEPT !.at = "load_policy", !.table = t, !.data.rows[t] = rowsCache[<<s.plan, t>>]]]
      BY <1>3 DEF LoadRows
    <2> DEFINE e == [s EXCEPT !.at = "load_policy", !.table = t, !.data.rows[t] = rowsCache[<<s.plan, t>>]]
    <2>2. s.at = "load_rows" /\ UNCHANGED outputs /\ req' = [req EXCEPT ![r] = e]
      BY <1>3, <2>1 DEF LoadRows
    <2>3. e.at = "load_policy" /\ Kept(e)
      BY <1>1 DEF RequestState
    <2> HIDE DEF e
    <2>4. Licensed(e, h)
      BY <1>1, <2>2, <2>3 DEF Licensed, BeforeGate
    <2> QED
      BY <1>2, <2>2, <2>3, <2>4, LocalAuthority
  <1>4. CASE LoadPolicy(r)
    <2> DEFINE at == IF s.todo = {s.table} THEN "gate" ELSE "load_rows"
               todo == s.todo \ {s.table}
               d == [s.data EXCEPT !.masked = IF <<s.plan, s.table>> \in policyCache
                                              THEN @ \cup {s.table} ELSE @]
               e == [s EXCEPT !.at = at, !.table = NoTable, !.todo = todo, !.data = d]
    <2>1. s.at = "load_policy" /\ UNCHANGED outputs /\ req' = [req EXCEPT ![r] = e]
      BY <1>4 DEF LoadPolicy
    <2>2. at \in {"gate", "load_rows"}
      OBVIOUS
    <2> HIDE DEF at, todo, d
    <2>3. e.at = at /\ Kept(e)
      BY <1>1 DEF RequestState
    <2> HIDE DEF e
    <2>4. Licensed(e, h)
      BY <1>1, <2>1, <2>2, <2>3 DEF Licensed, BeforeGate
    <2> QED
      BY <1>2, <2>1, <2>3, <2>4, LocalAuthority
  <1>5. CASE Gate(r)
    <2> DEFINE on == [s EXCEPT !.at = "status_read"]
               e == IF MayExecute(disk[s.plan]) THEN on ELSE Idle
    <2>1. s.at = "gate" /\ UNCHANGED outputs /\ req' = [req EXCEPT ![r] = e]
      BY <1>5 DEF Gate
    <2>2. on.at = "status_read" /\ Kept(on)
      BY <1>1 DEF RequestState
    <2>3. MayExecute(disk[s.plan]) => h.confirms > 0
      BY <1>1 DEF MayExecute, Armed, Authority, Earned
    <2> HIDE DEF on
    <2>4. MayExecute(disk[s.plan]) => Licensed(on, h)
      BY <1>1, <2>1, <2>2, <2>3 DEF Licensed, BeforeGate
    <2>5. e.at # "idle" => Licensed(e, history[e.plan])
      BY <2>2, <2>4 DEF Idle
    <2> HIDE DEF e
    <2> QED
      BY <1>2, <2>1, <2>5, LocalAuthority
  <1>6. CASE Work(r)
    <2> DEFINE masking == disk[s.plan].intent = "mask"
               d == [s.data EXCEPT !.masked = IF masking THEN s.todo ELSE {}]
               ready == [s EXCEPT !.at = "status_read", !.todo = {}, !.data = d]
               e == IF s.todo = {} THEN Idle ELSE ready
               W == {t \in s.todo : masking /\ s.data.rows[t] # EmptyBatch}
    <2>1. /\ s.at = "work" /\ req' = [req EXCEPT ![r] = e]
          /\ outputs' = outputs \cup {Output(ready, t, "csv") : t \in W}
      BY <1>6 DEF Work
    <2> HIDE DEF d, W
    <2>2. ready.at = "status_read" /\ Kept(ready)
      BY <1>1 DEF RequestState
    <2> HIDE DEF ready
    <2>3. Licensed(ready, h) /\ s.run \in 1 .. Len(h.runs)
      BY <1>1, <2>1, <2>2 DEF Licensed, BeforeGate
    <2>4. \A t : Output(ready, t, "csv").run = s.run /\ Output(ready, t, "csv").plan = s.plan
      BY <2>2 DEF Output
    <2>5. \A o \in outputs' : o \in outputs \/ o.run \in 1 .. Len(history[o.plan].runs)
      BY <2>1, <2>3, <2>4
    <2>6. e.at # "idle" => Licensed(e, history[e.plan])
      BY <2>2, <2>3 DEF Idle
    <2> HIDE DEF e
    <2> QED
      BY <1>2, <2>1, <2>5, <2>6, LocalAuthority
  <1>7. CASE ExecuteSqlGate(r)
    <2> DEFINE on == [s EXCEPT !.at = "sql_apply"]
               e == IF MayWrite(disk[s.plan]) THEN on ELSE Idle
    <2>1. s.at = "sql_gate" /\ UNCHANGED outputs /\ req' = [req EXCEPT ![r] = e]
      BY <1>7 DEF ExecuteSqlGate
    <2>2. on.at = "sql_apply" /\ Kept(on)
      BY <1>1 DEF RequestState
    <2> HIDE DEF on
    <2>3. Licensed(on, h)
      BY <1>1, <2>1, <2>2 DEF Licensed, BeforeGate
    <2>4. e.at # "idle" => Licensed(e, history[e.plan])
      BY <2>2, <2>3 DEF Idle
    <2> HIDE DEF e
    <2> QED
      BY <1>2, <2>1, <2>4, LocalAuthority
  <1>8. CASE ApplyStatements(r)
    <2> DEFINE e == [s EXCEPT !.at = "dispatch"]
    <2>1. /\ s.at = "sql_apply" /\ req' = [req EXCEPT ![r] = e]
          /\ outputs' \subseteq outputs \cup {Output(s, s.table, "database")}
      BY <1>8 DEF ApplyStatements
    <2>2. e.at = "dispatch" /\ Kept(e)
      BY <1>1 DEF RequestState
    <2>3. Output(s, s.table, "database").run = s.run /\ Output(s, s.table, "database").plan = s.plan
      BY DEF Output
    <2>4. s.run \in 1 .. Len(h.runs)
      BY <1>1, <2>1 DEF Licensed
    <2>5. \A o \in outputs' : o \in outputs \/ o.run \in 1 .. Len(history[o.plan].runs)
      BY <2>1, <2>3, <2>4
    <2> HIDE DEF e
    <2>6. Licensed(e, h)
      BY <1>1, <2>1, <2>2 DEF Licensed, BeforeGate
    <2> QED
      BY <1>2, <2>1, <2>2, <2>5, <2>6, LocalAuthority
  <1> QED
    BY <1>3, <1>4, <1>5, <1>6, <1>7, <1>8

LEMMA RestartAuthority == ASSUME TypeOK, Authority, Restart PROVE Authority'
  BY DEF Restart, Authority, ExecutionAuthorised, Idle

LEMMA AuthorityStep == ASSUME TypeOK, Authority, [Next]_vars PROVE Authority'
  <1>1. ASSUME NEW p \in PlanId, NEW reply \in Reply, CreatePlan(p, reply) PROVE Authority'
    BY <1>1, CreateAuthority
  <1>2. ASSUME NEW r \in Request, Serve(r) PROVE Authority'
    BY <1>2, ServeAuthority
  <1>3. ASSUME NEW r \in Request, Continue(r) PROVE Authority'
    BY <1>3, CachingAuthority, LoopAuthority, RecordAuthority, UpdateAuthority, ExecuteStepAuthority
       DEF Continue
  <1>4. CASE UNCHANGED vars
    BY <1>4 DEF Authority, ExecutionAuthorised, vars
  <1> QED
    BY <1>1, <1>2, <1>3, <1>4, RestartAuthority DEF Next

LEMMA AuthorityInit == Init => Authority
  <1>1. Len(Untouched.runs) = 0
    BY DEF Untouched
  <1> QED
    BY <1>1, NoPlanEarned DEF Init, Authority, ExecutionAuthorised, Idle

-----------------------------------------------------------------------------
(* The theorems about authority *)

LEMMA AuthorityHolds == Spec => []Authority
  <1>1. TypeOK /\ Authority /\ [Next]_vars => TypeOK' /\ Authority'
    BY TypeStep, AuthorityStep
  <1> QED
    BY <1>1, TypeInit, AuthorityInit, PTL DEF Spec

\* Every execution that starts, and every script, CSV file or database row that an
\* execution produces, belongs to a plan that a human confirmed (execute(),
\* execute_fan_out(), execute_sql(), request_human_confirmation()).
THEOREM Authorised == Spec => []ExecutionAuthorised
  <1>1. Authority => ExecutionAuthorised
    BY DEF Authority
  <1> QED
    BY <1>1, AuthorityHolds, PTL

\* A plan that reads "completed" has a result, of an execution that started, also
\* when the file was last written by a request that read it earlier.
THEOREM Completed == Spec => []CompletedHasResult
  <1>1. Authority => CompletedHasResult
    BY DEF Authority, Earned, CompletedHasResult
  <1> QED
    BY <1>1, AuthorityHolds, PTL

-----------------------------------------------------------------------------
(* Parents first *)

\* Table t comes before every table of the set in the insertion order.
Earliest(t, todo) == \A u \in todo : InsertRank[t] <= InsertRank[u]

\* An execution that has started keeps its number and works on its tables.
Started(s) == s.run # 0 => /\ s.at \notin {"idle", "cache_rows"}
                           /\ s.op = "execute" /\ s.goal = "completed"

AtTable == {"dispatch", "record", "sql_gate", "sql_apply"}

\* What carries ParentsFirst: executions have numbers of their own, and what each
\* has produced, or is about to, comes before the tables it has left.
Sorted ==
  /\ \A r \in Request : Started(req[r])
  /\ \A r \in Request : req[r].op = "execute" /\ req[r].at \in AtTable
                          => Earliest(req[r].table, req[r].todo)
  /\ \A r, q \in Request :
       req[r].run # 0 /\ req[r].run = req[q].run /\ req[r].plan = req[q].plan => r = q
  /\ \A o \in outputs, r \in Request :
       req[r].run = o.run /\ req[r].plan = o.plan => Earliest(o.table, req[r].todo)

\* A request goes on with e: the same execution, if any, with no table added, and
\* what it has just produced comes before the tables it has left.
Sequel(r, e) ==
  /\ req' = [req EXCEPT ![r] = e]
  /\ e.run # 0 => /\ e.at \notin {"idle", "cache_rows"} /\ e.run = req[r].run
                  /\ e.plan = req[r].plan /\ e.op = req[r].op /\ e.goal = req[r].goal
                  /\ e.todo \subseteq req[r].todo
  /\ e.op = "execute" /\ e.at \in AtTable => Earliest(e.table, e.todo)
  /\ \A o \in outputs' \ outputs :
       /\ o.run = req[r].run /\ o.run # 0 /\ o.plan = req[r].plan
       /\ e.run # 0 => Earliest(o.table, e.todo)

LEMMA IdleUnstarted == /\ Idle.at = "idle" /\ Idle.run = 0 /\ Idle.op = "none"
                       /\ Idle.todo = {} /\ Idle.goal = "planning"
  BY DEF Idle

LEMMA IdleSequel ==
  ASSUME NEW r \in Request, req' = [req EXCEPT ![r] = Idle], UNCHANGED outputs PROVE Sequel(r, Idle)
  BY IdleUnstarted DEF Sequel

LEMMA SequelSorted ==
  ASSUME TypeOK, Authority, Sorted, NEW r \in Request, NEW e, Sequel(r, e) PROVE Sorted'
  <1> DEFINE s == req[r]
  <1>1. \A q \in Request : req'[q] = IF q = r THEN e ELSE req[q]
    BY DEF TypeOK, Sequel
  <1>2. e.run # 0 => /\ e.at \notin {"idle", "cache_rows"} /\ e.run = s.run /\ e.plan = s.plan
                     /\ e.op = s.op /\ e.goal = s.goal /\ e.todo \subseteq s.todo
    BY DEF Sequel
  <1>3. \A q \in Request : Started(req'[q])
    BY <1>1, <1>2 DEF Sorted, Started
  <1>4. \A q \in Request : req'[q].op = "execute" /\ req'[q].at \in AtTable
                             => Earliest(req'[q].table, req'[q].todo)
    BY <1>1 DEF Sorted, Sequel
  <1>5. ASSUME NEW p \in Request, NEW q \in Request,
               req'[p].run # 0, req'[p].run = req'[q].run, req'[p].plan = req'[q].plan
        PROVE  p = q
    <2>1. /\ req'[p].run = req[p].run /\ req'[p].plan = req[p].plan
          /\ req'[q].run = req[q].run /\ req'[q].plan = req[q].plan
      BY <1>1, <1>2, <1>5
    <2>2. req[p].run # 0 /\ req[p].run = req[q].run /\ req[p].plan = req[q].plan
      BY <1>5, <2>1
    <2> QED
      BY <2>2 DEF Sorted
  <1>6. ASSUME NEW o \in outputs', NEW q \in Request,
               req'[q].run = o.run, req'[q].plan = o.plan
        PROVE  Earliest(o.table, req'[q].todo)
    <2>1. CASE o \in outputs
      <3>1. o.run # 0
        <4>1. /\ o.run \in 1 .. Len(history[o.plan].runs) /\ o.plan \in PlanId
              /\ history[o.plan] \in HistoryRecord
          BY <2>1 DEF Authority, ExecutionAuthorised, TypeOK, OutputRecord
        <4> QED
          BY <4>1, LenProperties DEF HistoryRecord
      <3>2. req[q].run = o.run /\ req[q].plan = o.plan /\ req'[q].todo \subseteq req[q].todo
        BY <1>1, <1>2, <1>6, <3>1
      <3>3. Earliest(o.table, req[q].todo)
        BY <2>1, <3>2 DEF Sorted
      <3> QED
        BY <3>2, <3>3 DEF Earliest
    <2>2. CASE o \notin outputs
      <3>1. /\ o.run = s.run /\ o.run # 0 /\ o.plan = s.plan
            /\ e.run # 0 => Earliest(o.table, e.todo)
        BY <2>2 DEF Sequel
      <3>2. req[q].run = o.run /\ req[q].plan = o.plan
        BY <1>1, <1>2, <1>6, <3>1
      <3>3. q = r
        BY <3>1, <3>2 DEF Sorted
      <3> QED
        BY <1>1, <1>6, <3>1, <3>3
    <2> QED
      BY <2>1, <2>2
  <1> QED
    BY <1>3, <1>4, <1>5, <1>6 DEF Sorted, Started, Earliest

\* A request begins without a number, and takes one when it writes "executing".
LEMMA ServeSequel ==
  ASSUME TypeOK, NEW r \in Request, Serve(r) PROVE \E e : Sequel(r, e)
  <1>1. PICK p \in PlanId :
          \/ \E uploaded \in Upload, mask \in BOOLEAN : PreviewPlan(r, p, uploaded, mask)
          \/ \E yes \in BOOLEAN : ConfirmPlan(r, p, yes)
          \/ ExecutePlan(r, p)
    BY DEF Serve
  <1>2. UNCHANGED outputs
    BY DEF Serve, PreviewPlan, ConfirmPlan, ExecutePlan
  <1>3. ASSUME NEW uploaded \in Upload, NEW mask \in BOOLEAN, PreviewPlan(r, p, uploaded, mask)
        PROVE  \E e : Sequel(r, e)
    <2> DEFINE data == [rows |-> [t \in Table |-> IF t \in disk[p].targets THEN uploaded[t]
                                                                           ELSE EmptyBatch],
                        masked |-> PreviewPolicies(disk[p], mask)]
               todo == disk[p].targets
               e == [Idle EXCEPT !.at = "cache_rows", !.op = "preview", !.plan = p,
                                 !.data = data, !.todo = todo, !.goal = "awaiting_confirmation"]
    <2>1. req' = [req EXCEPT ![r] = e]
      BY <1>3 DEF PreviewPlan
    <2> HIDE DEF data, todo
    <2>2. e.run = 0 /\ e.op = "preview"
      BY DEF Idle
    <2> HIDE DEF e
    <2> QED
      BY <1>2, <2>1, <2>2 DEF Sequel
  <1>4. ASSUME NEW yes \in BOOLEAN, ConfirmPlan(r, p, yes) PROVE \E e : Sequel(r, e)
    <2> DEFINE e == [Idle EXCEPT !.at = "status_read", !.op = "confirm", !.plan = p,
                                 !.goal = Decision(yes)]
    <2>1. req' = [req EXCEPT ![r] = e] /\ e.run = 0 /\ e.op = "confirm"
      BY <1>4 DEF ConfirmPlan, Idle
    <2> HIDE DEF e
    <2> QED
      BY <1>2, <2>1 DEF Sequel
  <1>5. CASE ExecutePlan(r, p)
    <2> DEFINE at == IF disk[p].targets = {} THEN "gate" ELSE "load_rows"
               todo == disk[p].targets
               e == [Idle EXCEPT !.at = at, !.op = "execute", !.plan = p,
                                 !.todo = todo, !.goal = "executing"]
    <2>1. req' = [req EXCEPT ![r] = e] /\ at \in {"gate", "load_rows"}
      BY <1>5 DEF ExecutePlan
    <2> HIDE DEF at, todo
    <2>2. e.run = 0 /\ e.at = at
      BY DEF Idle
    <2> HIDE DEF e
    <2> QED
      BY <1>2, <2>1, <2>2 DEF Sequel, AtTable
  <1> QED
    BY <1>1, <1>3, <1>4, <1>5

LEMMA CachingSequel ==
  ASSUME TypeOK, Sorted, NEW r \in Request, CacheRows(r) \/ CachePolicy(r)
  PROVE  \E e : Sequel(r, e)
  <1> DEFINE s == req[r]
  <1>1. s \in RequestState /\ UNCHANGED outputs
    BY DEF TypeOK, CacheRows, CachePolicy
  <1>2. CASE CacheRows(r)
    <2>1. s.at = "cache_rows"
      BY <1>2 DEF CacheRows
    <2>2. s.run = 0
      BY <2>1 DEF Sorted, Started
    <2>3. PICK at \in {"cache_rows", "next_table", "status_read"} :
            \E T : req' = [req EXCEPT ![r] = [s EXCEPT !.at = at, !.todo = T]]
      <3>1. PICK t \in s.todo : req' = [req EXCEPT ![r] =
               IF s.todo # {t} THEN [s EXCEPT !.todo = @ \ {t}]
               ELSE IF FanOut(s.plan)
               THEN [s EXCEPT !.at = "next_table", !.todo = disk[s.plan].targets]
               ELSE [s EXCEPT !.at = "status_read", !.todo = {}]]
        BY <1>2 DEF CacheRows
      <3>2. [s EXCEPT !.todo = @ \ {t}] = [s EXCEPT !.at = "cache_rows", !.todo = s.todo \ {t}]
        BY <1>1, <2>1 DEF RequestState
      <3> HIDE DEF s
      <3> QED
        BY <3>1, <3>2
    <2>4. PICK T : req' = [req EXCEPT ![r] = [s EXCEPT !.at = at, !.todo = T]]
      BY <2>3
    <2> DEFINE e == [s EXCEPT !.at = at, !.todo = T]
    <2>5. req' = [req EXCEPT ![r] = e] /\ e.run = 0 /\ e.at = at
      BY <1>1, <2>2, <2>4 DEF RequestState
    <2> HIDE DEF e
    <2> QED
      BY <1>1, <2>3, <2>5 DEF Sequel, AtTable
  <1>3. CASE CachePolicy(r)
    <2>1. PICK t \in s.todo :
            req' = [req EXCEPT ![r] = IF s.todo = {t} THEN Idle ELSE [s EXCEPT !.todo = @ \ {t}]]
      BY <1>3 DEF CachePolicy
    <2>2. s.at = "cache_policy"
      BY <1>3 DEF CachePolicy
    <2> DEFINE e == [s EXCEPT !.todo = @ \ {t}]
    <2>3. /\ e.at = s.at /\ e.op = s.op /\ e.plan = s.plan /\ e.goal = s.goal /\ e.run = s.run
          /\ e.todo = s.todo \ {t}
      BY <1>1 DEF RequestState
    <2>4. CASE s.todo = {t}
      BY <1>1, <2>1, <2>4, IdleSequel
    <2>5. CASE s.todo # {t}
      <3>1. req' = [req EXCEPT ![r] = e]
        BY <2>1, <2>5
      <3> HIDE DEF e
      <3> QED
        BY <1>1, <2>2, <2>3, <3>1 DEF Sequel, AtTable
    <2> QED
      BY <2>4, <2>5
  <1> QED
    BY <1>2, <1>3

\* The loop of an execution takes the first of the tables left.
LEMMA LoopSequel ==
  ASSUME TypeOK, Authority, Sorted, NEW r \in Request,
         NextTable(r) \/ DispatchSubagent(r) \/ UpdateStatusRead(r)
  PROVE  \E e : Sequel(r, e)
  <1> DEFINE s == req[r]
  <1>1. /\ s \in RequestState /\ s.plan \in PlanId /\ s.todo \in SUBSET Table /\ s.acts \in Seq(Action)
    BY DEF TypeOK, InPlace, RequestState, NextTable, DispatchSubagent, UpdateStatusRead
  <1>2. s.run # 0 => s.at \notin {"idle", "cache_rows"}
    BY DEF Sorted, Started
  <1>3. CASE NextTable(r)
    <2> DEFINE acts == IF s.op = "execute" THEN ExecuteActions ELSE PreviewActions(s.data)
               end == [s EXCEPT !.at = "status_read"]
               enter(t) == [s EXCEPT !.at = DispatchStep(acts), !.table = t,
                                     !.todo = @ \ {t}, !.acts = acts]
    <2>1. /\ UNCHANGED outputs
          /\ \/ req' = [req EXCEPT ![r] = end]
             \/ \E t \in s.todo : MayBeNext(s.op, t, s.todo) /\ req' = [req EXCEPT ![r] = enter(t)]
      BY <1>3 DEF NextTable
    <2>2. CASE req' = [req EXCEPT ![r] = end]
      <3>1. /\ end.at = "status_read" /\ end.op = s.op /\ end.plan = s.plan /\ end.goal = s.goal
            /\ end.run = s.run /\ end.todo = s.todo
        BY <1>1 DEF RequestState
      <3> HIDE DEF end
      <3> QED
        BY <2>1, <2>2, <3>1 DEF Sequel, AtTable
    <2>3. CASE \E t \in s.todo : MayBeNext(s.op, t, s.todo) /\ req' = [req EXCEPT ![r] = enter(t)]
      <3>1. PICK t \in s.todo : MayBeNext(s.op, t, s.todo) /\ req' = [req EXCEPT ![r] = enter(t)]
        BY <2>3
      <3> DEFINE e == enter(t)
      <3>2. DispatchStep(acts) \in {"dispatch", "sql_gate"}
        BY DEF DispatchStep
      <3> HIDE DEF acts
      <3>3. /\ e.at = DispatchStep(acts) /\ e.op = s.op /\ e.plan = s.plan /\ e.goal = s.goal
            /\ e.run = s.run /\ e.todo = s.todo \ {t} /\ e.table = t
        BY <1>1 DEF RequestState
      <3>4. s.op = "execute" => Earliest(t, s.todo \ {t})
        BY <3>1 DEF MayBeNext, Earliest
      <3> HIDE DEF e
      <3>5. req' = [req EXCEPT ![r] = e]
        BY <3>1 DEF e
      <3> QED
        BY <2>1, <3>2, <3>3, <3>4, <3>5 DEF Sequel
    <2> QED
      BY <2>1, <2>2, <2>3
  <1>4. CASE DispatchSubagent(r)
    <2> DEFINE e == [s EXCEPT !.at = "record", !.buf = disk[s.plan]]
    <2>1. s.at = "dispatch" /\ s.acts # <<>> /\ req' = [req EXCEPT ![r] = e]
      BY <1>4 DEF DispatchSubagent, TypeOK, InPlace
    <2>2. /\ e.at = "record" /\ e.op = s.op /\ e.plan = s.plan /\ e.goal = s.goal
          /\ e.run = s.run /\ e.todo = s.todo /\ e.table = s.table
      BY <1>1 DEF RequestState
    <2>3. s.op = "execute" => Earliest(s.table, s.todo)
      BY <2>1 DEF Sorted, AtTable
    <2>4. ASSUME NEW o \in outputs' \ outputs
          PROVE  o.run = s.run /\ o.run # 0 /\ o.plan = s.plan /\ Earliest(o.table, s.todo)
      <3>1. Head(s.acts) = "generate_sql" /\ o = Output(s, s.table, "script")
        BY <1>4, <2>4 DEF DispatchSubagent
      <3>2. o.run = s.run /\ o.plan = s.plan /\ o.table = s.table
        BY <3>1 DEF Output
      <3>3. Licensed(s, history[s.plan]) /\ history[s.plan] \in HistoryRecord
        BY <1>1, <2>1 DEF Authority, TypeOK
      <3>4. s.op # "preview"
        BY <2>1, <3>1, <3>3, HeadTool DEF Licensed, PreviewTool
      <3>5. s.goal = "completed"
        BY <2>1, <3>3, <3>4 DEF Licensed
      <3>6. s.op = "execute" /\ s.run \in 1 .. Len(history[s.plan].runs)
        BY <3>3, <3>5 DEF Licensed
      <3>7. s.run # 0
        BY <3>3, <3>6, LenProperties DEF HistoryRecord
      <3> QED
        BY <2>3, <3>2, <3>6, <3>7
    <2> HIDE DEF e
    <2> QED
      BY <2>1, <2>2, <2>3, <2>4 DEF Sequel
  <1>5. CASE UpdateStatusRead(r)
    <2> DEFINE e == [s EXCEPT !.at = "status_write", !.buf = disk[s.plan]]
    <2>1. req' = [req EXCEPT ![r] = e] /\ UNCHANGED outputs
      BY <1>5 DEF UpdateStatusRead
    <2>2. /\ e.at = "status_write" /\ e.op = s.op /\ e.plan = s.plan /\ e.goal = s.goal
          /\ e.run = s.run /\ e.todo = s.todo
      BY <1>1 DEF RequestState
    <2> HIDE DEF e
    <2> QED
      BY <2>1, <2>2 DEF Sequel, AtTable
  <1> QED
    BY <1>3, <1>4, <1>5

LEMMA RecordSequel ==
  ASSUME TypeOK, Sorted, NEW r \in Request, RecordSubtask(r) PROVE \E e : Sequel(r, e)
  <1> DEFINE s == req[r]
             e == AfterRecord(s)
  <1>1. /\ s \in RequestState /\ s.at = "record" /\ req' = [req EXCEPT ![r] = e] /\ UNCHANGED outputs
    BY DEF TypeOK, RecordSubtask
  <1>2. s.op = "execute" => Earliest(s.table, s.todo)
    BY <1>1 DEF Sorted, AtTable
  <1>3. CASE Raises(s)
    BY <1>1, <1>3, IdleSequel DEF AfterRecord
  <1>4. CASE ~Raises(s) /\ Len(s.acts) = 1
    <2> DEFINE d == [s EXCEPT !.at = "next_table", !.table = NoTable, !.acts = <<>>, !.buf = NoPlan]
    <2>1. e = d
      BY <1>4 DEF AfterRecord
    <2>2. /\ d.at = "next_table" /\ d.op = s.op /\ d.plan = s.plan /\ d.goal = s.goal
          /\ d.run = s.run /\ d.todo = s.todo
      BY <1>1 DEF RequestState
    <2> HIDE DEF d, e
    <2> QED
      BY <1>1, <2>1, <2>2 DEF Sequel, AtTable
  <1>5. CASE ~Raises(s) /\ Len(s.acts) # 1
    <2> DEFINE next == DispatchStep(Tail(s.acts))
               rest == Tail(s.acts)
               d == [s EXCEPT !.at = next, !.acts = rest, !.buf = NoPlan]
    <2>1. e = d
      BY <1>5 DEF AfterRecord
    <2>2. next \in {"dispatch", "sql_gate"}
      BY DEF DispatchStep
    <2> HIDE DEF next, rest
    <2>3. /\ d.at = next /\ d.op = s.op /\ d.plan = s.plan /\ d.goal = s.goal
          /\ d.run = s.run /\ d.todo = s.todo /\ d.table = s.table
      BY <1>1 DEF RequestState
    <2> HIDE DEF d, e
    <2> QED
      BY <1>1, <1>2, <2>1, <2>2, <2>3 DEF Sequel
  <1> QED
    BY <1>3, <1>4, <1>5

LEMMA ExecuteStepSequel ==
  ASSUME TypeOK, Authority, Sorted, NEW r \in Request,
         LoadRows(r) \/ LoadPolicy(r) \/ Gate(r) \/ Work(r) \/ ExecuteSqlGate(r) \/ ApplyStatements(r)
  PROVE  \E e : Sequel(r, e)
  <1> DEFINE s == req[r]
             h == history[s.plan]
  <1>1. /\ s \in RequestState /\ Licensed(s, h) /\ s.plan \in PlanId /\ s.data \in Dataset
        /\ h \in HistoryRecord
    BY DEF TypeOK, Authority, InPlace, RequestState, LoadRows, LoadPolicy, Gate, Work,
           ExecuteSqlGate, ApplyStatements
  <1> DEFINE Kept(e) == /\ e.op = s.op /\ e.plan = s.plan /\ e.goal = s.goal /\ e.run = s.run
  \* A step that produces nothing and stays out of the loop.
  <1>2. ASSUME NEW e, req' = [req EXCEPT ![r] = e], Kept(e), e.todo \subseteq s.todo,
               e.at \notin {"idle", "cache_rows"} \cup AtTable, UNCHANGED outputs
        PROVE  Sequel(r, e)
    BY <1>2 DEF Sequel
  <1>3. CASE LoadRows(r)
    <2>1. PICK t \in s.todo : req' = [req EXCEPT ![r] =
            [s EXCEPT !.at = "load_policy", !.table = t, !.data.rows[t] = rowsCache[<<s.plan, t>>]]]
      BY <1>3 DEF LoadRows
    <2> DEFINE e == [s EXCEPT !.at = "load_policy", !.table = t, !.data.rows[t] = rowsCache[<<s.plan, t>>]]
    <2>2. UNCHANGED outputs /\ req' = [req EXCEPT ![r] = e]
      BY <1>3, <2>1 DEF LoadRows
    <2>3. e.at = "load_policy" /\ Kept(e) /\ e.todo = s.todo
      BY <1>1 DEF RequestState
    <2> HIDE DEF e
    <2> QED
      BY <1>2, <2>2, <2>3 DEF AtTable
  <1>4. CASE LoadPolicy(r)
    <2> DEFINE at == IF s.todo = {s.table} THEN "gate" ELSE "load_rows"
               todo == s.todo \ {s.table}
               d == [s.data EXCEPT !.masked = IF <<s.plan, s.table>> \in policyCache
                                              THEN @ \cup {s.table} ELSE @]
               e == [s EXCEPT !.at = at, !.table = NoTable, !.todo = todo, !.data = d]
    <2>1. UNCHANGED outputs /\ req' = [req EXCEPT ![r] = e]
      BY <1>4 DEF LoadPolicy
    <2>2. at \in {"gate", "load_rows"} /\ todo \subseteq s.todo
      OBVIOUS
    <2> HIDE DEF at, todo, d
    <2>3. e.at = at /\ Kept(e) /\ e.todo = todo
      BY <1>1 DEF RequestState
    <2> HIDE DEF e
    <2> QED
      BY <1>2, <2>1, <2>2, <2>3 DEF AtTable
  <1>5. CASE Gate(r)
    <2> DEFINE on == [s EXCEPT !.at = "status_read"]
    <2>1. /\ UNCHANGED outputs
          /\ req' = [req EXCEPT ![r] = IF MayExecute(disk[s.plan]) THEN on ELSE Idle]
      BY <1>5 DEF Gate
    <2>2. on.at = "status_read" /\ Kept(on) /\ on.todo = s.todo
      BY <1>1 DEF RequestState
    <2> HIDE DEF on
    <2>3. CASE MayExecute(disk[s.plan])
      BY <1>2, <2>1, <2>2, <2>3 DEF AtTable
    <2>4. CASE ~MayExecute(disk[s.plan])
      BY <2>1, <2>4, IdleSequel
    <2> QED
      BY <2>3, <2>4
  <1>6. CASE Work(r)
    <2> DEFINE masking == disk[s.plan].intent = "mask"
               d == [s.data EXCEPT !.masked = IF masking THEN s.todo ELSE {}]
               ready == [s EXCEPT !.at = "status_read", !.todo = {}, !.data = d]
               W == {t \in s.todo : masking /\ s.data.rows[t] # EmptyBatch}
    <2>1. /\ s.at = "work" /\ req' = [req EXCEPT ![r] = IF s.todo = {} THEN Idle ELSE ready]
          /\ outputs' = outputs \cup {Output(ready, t, "csv") : t \in W}
      BY <1>6 DEF Work
    <2>2. W \subseteq s.todo
      OBVIOUS
    <2> HIDE DEF d, W
    <2>3. ready.at = "status_read" /\ Kept(ready) /\ ready.todo = {}
      BY <1>1 DEF RequestState
    <2> HIDE DEF ready
    <2>4. s.run # 0
      <3>1. s.run \in 1 .. Len(h.runs)
        BY <1>1, <2>1 DEF Licensed
      <3> QED
        BY <1>1, <3>1, LenProperties DEF HistoryRecord
    <2>5. CASE s.todo = {}
      <3>1. UNCHANGED outputs
        BY <2>1, <2>2, <2>5
      <3> QED
        BY <2>1, <2>5, <3>1, IdleSequel
    <2>6. CASE s.todo # {}
      <3>1. \A o \in outputs' \ outputs : o.run = s.run /\ o.plan = s.plan
        BY <2>1, <2>3 DEF Output
      <3>2. \A t : Earliest(t, ready.todo)
        BY <2>3 DEF Earliest
      <3> QED
        BY <2>1, <2>3, <2>4, <2>6, <3>1, <3>2 DEF Sequel, AtTable
    <2> QED
      BY <2>5, <2>6
  <1>7. CASE ExecuteSqlGate(r)
    <2> DEFINE on == [s EXCEPT !.at = "sql_apply"]
    <2>1. /\ s.at = "sql_gate" /\ UNCHANGED outputs
          /\ req' = [req EXCEPT ![r] = IF MayWrite(disk[s.plan]) THEN on ELSE Idle]
      BY <1>7 DEF ExecuteSqlGate
    <2>2. on.at = "sql_apply" /\ Kept(on) /\ on.todo = s.todo /\ on.table = s.table
      BY <1>1 DEF RequestState
    <2>3. s.op = "execute" => Earliest(s.table, s.todo)
      BY <2>1 DEF Sorted, AtTable
    <2> HIDE DEF on
    <2>4. CASE MayWrite(disk[s.plan])
      BY <2>1, <2>2, <2>3, <2>4 DEF Sequel
    <2>5. CASE ~MayWrite(disk[s.plan])
      BY <2>1, <2>5, IdleSequel
    <2> QED
      BY <2>4, <2>5
  <1>8. CASE ApplyStatements(r)
    <2> DEFINE e == [s EXCEPT !.at = "dispatch"]
    <2>1. /\ s.at = "sql_apply" /\ req' = [req EXCEPT ![r] = e]
          /\ outputs' \subseteq outputs \cup {Output(s, s.table, "database")}
      BY <1>8 DEF ApplyStatements
    <2>2. e.at = "dispatch" /\ Kept(e) /\ e.todo = s.todo /\ e.table = s.table
      BY <1>1 DEF RequestState
    <2>3. s.goal = "completed"
      BY <1>1, <2>1 DEF Licensed
    <2>4. s.op = "execute" /\ s.run \in 1 .. Len(h.runs)
      BY <1>1, <2>3 DEF Licensed
    <2>5. s.run # 0
      BY <1>1, <2>4, LenProperties DEF HistoryRecord
    <2>6. Earliest(s.table, s.todo)
      BY <2>1, <2>4 DEF Sorted, AtTable
    <2>7. \A o \in outputs' \ outputs : o.run = s.run /\ o.plan = s.plan /\ o.table = s.table
      BY <2>1 DEF Output
    <2> HIDE DEF e
    <2> QED
      BY <2>1, <2>2, <2>5, <2>6, <2>7 DEF Sequel
  <1> QED
    BY <1>3, <1>4, <1>5, <1>6, <1>7, <1>8

\* An execution that starts gets a number that no output and no other execution has.
LEMMA UpdateSorted ==
  ASSUME TypeOK, Authority, Sorted, NEW r \in Request, UpdateStatusWrite(r) PROVE Sorted'
  <1> DEFINE s == req[r]
             h == history[s.plan]
             e == AfterUpdate(s)
  <1>1. /\ s \in RequestState /\ s.at = "status_write" /\ Licensed(s, h) /\ s.plan \in PlanId
        /\ h \in HistoryRecord /\ Len(h.runs) \in Nat
        /\ req' = [req EXCEPT ![r] = e] /\ UNCHANGED outputs
    BY LenProperties DEF TypeOK, Authority, InPlace, UpdateStatusWrite, HistoryRecord
  <1>2. CASE s.op = "preview" /\ s.data.masked # {}
    <2> DEFINE m == s.data.masked
               d == [s EXCEPT !.at = "cache_policy", !.todo = m, !.buf = NoPlan]
    <2>1. e = d
      BY <1>2 DEF AfterUpdate
    <2> HIDE DEF m
    <2>2. d.at = "cache_policy" /\ d.run = s.run
      BY <1>1 DEF RequestState
    <2>3. s.run = 0
      BY <1>2 DEF Sorted, Started
    <2> HIDE DEF d, e
    <2>4. Sequel(r, e)
      BY <1>1, <2>1, <2>2, <2>3 DEF Sequel, AtTable
    <2> QED
      BY <2>4, SequelSorted
  <1>3. CASE ~(s.op = "preview" /\ s.data.masked # {}) /\ s.goal # "executing"
    <2>1. e = Idle
      BY <1>3 DEF AfterUpdate
    <2> HIDE DEF e
    <2>2. Sequel(r, Idle)
      BY <1>1, <2>1, IdleSequel
    <2> QED
      BY <2>2, SequelSorted
  <1>4. CASE ~(s.op = "preview" /\ s.data.masked # {}) /\ s.goal = "executing"
    <2> DEFINE at == IF s.buf.intent = "multi_table_job" THEN "next_table" ELSE "work"
               todo == s.buf.targets
               run == Len(h.runs) + 1
               d == [s EXCEPT !.at = at, !.todo = todo, !.buf = NoPlan, !.goal = "completed",
                              !.run = run]
    <2>1. e = d
      BY <1>4 DEF AfterUpdate
    <2>2. at \in {"next_table", "work"} /\ run # 0
      BY <1>1
    <2> HIDE DEF at, todo
    <2>3. /\ d.at = at /\ d.op = s.op /\ d.plan = s.plan /\ d.goal = "completed" /\ d.run = run
      BY <1>1 DEF RequestState
    <2>4. s.op = "execute"
      BY <1>1, <1>4 DEF Licensed
    <2> HIDE DEF d, e
    <2>5. \A q \in Request : req'[q] = IF q = r THEN d ELSE req[q]
      BY <1>1, <2>1 DEF TypeOK
    <2>6. ASSUME NEW q \in Request \ {r}, req[q].plan = s.plan PROVE req[q].run # run
      <3>1. CASE req[q].run = 0
        BY <2>2, <3>1
      <3>2. CASE req[q].run # 0
        <4>1. req[q].at # "idle" /\ req[q].goal = "completed"
          BY <3>2 DEF Sorted, Started
        <4>2. Licensed(req[q], h)
          BY <2>6, <4>1 DEF Authority
        <4>3. req[q].run \in 1 .. Len(h.runs)
          BY <4>1, <4>2 DEF Licensed
        <4> QED
          BY <1>1, <4>3
      <3> QED
        BY <3>1, <3>2
    <2>7. ASSUME NEW o \in outputs, o.plan = s.plan PROVE o.run # run
      <3>1. o.run \in 1 .. Len(h.runs)
        BY <2>7 DEF Authority, ExecutionAuthorised
      <3> QED
        BY <1>1, <3>1
    <2> HIDE DEF run
    <2>8. \A q \in Request : Started(req'[q])
      BY <2>2, <2>3, <2>4, <2>5 DEF Sorted, Started
    <2>9. \A q \in Request : req'[q].op = "execute" /\ req'[q].at \in AtTable
                               => Earliest(req'[q].table, req'[q].todo)
      BY <2>2, <2>3, <2>5 DEF Sorted, AtTable
    <2>10. \A p, q \in Request :
             req'[p].run # 0 /\ req'[p].run = req'[q].run /\ req'[p].plan = req'[q].plan => p = q
      BY <2>3, <2>5, <2>6 DEF Sorted
    <2>11. \A o \in outputs', q \in Request :
             req'[q].run = o.run /\ req'[q].plan = o.plan => Earliest(o.table, req'[q].todo)
      BY <1>1, <2>3, <2>5, <2>7 DEF Sorted
    <2> QED
      BY <2>8, <2>9, <2>10, <2>11 DEF Sorted, Started, Earliest
  <1> QED
    BY <1>2, <1>3, <1>4

LEMMA SortedStep == TypeOK /\ Authority /\ Sorted /\ [Next]_vars => Sorted'
  <1> SUFFICES ASSUME TypeOK, Authority, Sorted, [Next]_vars PROVE Sorted'
    OBVIOUS
  <1>1. CASE UNCHANGED <<req, outputs>>
    BY <1>1 DEF Sorted, Started, Earliest
  <1>2. ASSUME NEW p \in PlanId, NEW reply \in Reply, CreatePlan(p, reply) PROVE Sorted'
    BY <1>1, <1>2 DEF CreatePlan
  <1>3. CASE Restart
    <2>1. /\ \A r \in Request : req'[r] = Idle
          /\ outputs' = outputs
      BY <1>3 DEF Restart
    <2> QED
      BY <2>1, IdleUnstarted DEF Sorted, Started, Earliest
  <1>4. ASSUME NEW r \in Request, Serve(r) PROVE Sorted'
    BY <1>4, ServeSequel, SequelSorted
  <1>5. ASSUME NEW r \in Request, Continue(r) PROVE Sorted'
    <2>1. CASE UpdateStatusWrite(r)
      BY <2>1, UpdateSorted
    <2>2. CASE ~UpdateStatusWrite(r)
      <3>1. \E e : Sequel(r, e)
        BY <1>5, <2>2, CachingSequel, LoopSequel, RecordSequel, ExecuteStepSequel DEF Continue
      <3> QED
        BY <3>1, SequelSorted
    <2> QED
      BY <2>1, <2>2
  <1> QED
    BY <1>1, <1>2, <1>3, <1>4, <1>5 DEF Next, vars

\* In each execution, whatever overlaps it, a table's rows follow those of the tables
\* it references: the order of execute_fan_out() is that of the schema graph, and two
\* executions of a plan never share a number.
THEOREM ParentsComeFirst == Spec => []ParentsFirst
  <1>1. Init => Sorted
    BY IdleUnstarted DEF Init, Sorted, Started, AtTable
  <1>2. TypeOK /\ Sorted => ParentsFirst
    <2> SUFFICES ASSUME TypeOK, Sorted, NEW o \in outputs, NEW t \in Parents[o.table],
                        NEW r \in Request, req[r].plan = o.plan, req[r].run = o.run,
                        t \in req[r].todo
                 PROVE  FALSE
      BY DEF ParentsFirst
    <2>1. o.table \in Table /\ t \in Table
      BY TableAssumption DEF TypeOK, OutputRecord
    <2>2. InsertRank[t] < InsertRank[o.table] /\ InsertRank[o.table] <= InsertRank[t]
      BY <2>1, TableAssumption DEF Sorted, Earliest
    <2>3. InsertRank[t] \in Nat /\ InsertRank[o.table] \in Nat
      BY <2>1, TableAssumption
    <2> QED
      BY <2>2, <2>3
  <1>3. TypeOK /\ Authority /\ Sorted /\ [Next]_vars => Sorted'
    BY SortedStep
  <1>4. Spec => []TypeOK
    BY TypeCorrect
  <1> QED
    BY <1>1, <1>2, <1>3, <1>4, AuthorityHolds, PTL DEF Spec

-----------------------------------------------------------------------------
(* One request at a time.                                                   *)
(*                                                                          *)
(* What one request at a time guarantees: the plan files implement          *)
(* PlanLifecycle, one confirmation allows one execution, and no subtask is  *)
(* lost.  Each of these fails as soon as two requests overlap (the run      *)
(* double_execution shows one of them), so the hypothesis []OneAtATime is   *)
(* what a lock around the handlers would provide: any number of threads, of *)
(* which one at a time is inside a handler.                                 *)


\* At most one request is in flight.
OneAtATime == \A r, q \in Request : req[r].at # "idle" /\ req[q].at # "idle" => r = q

\* No request but r is in flight.
Alone(r) == \A q \in Request : q # r => req[q].at = "idle"

LEMMA ServeStarts ==
  ASSUME NEW r \in Request, Serve(r)
  PROVE  \E e : req' = [req EXCEPT ![r] = e] /\ e.at # "idle"
  <1>1. ASSUME NEW p \in PlanId, NEW uploaded, NEW mask, PreviewPlan(r, p, uploaded, mask)
        PROVE  \E e : req' = [req EXCEPT ![r] = e] /\ e.at # "idle"
    <2> DEFINE data == [rows |-> [t \in Table |-> IF t \in disk[p].targets THEN uploaded[t]
                                                                           ELSE EmptyBatch],
                        masked |-> PreviewPolicies(disk[p], mask)]
               todo == disk[p].targets
               e == [Idle EXCEPT !.at = "cache_rows", !.op = "preview", !.plan = p,
                                 !.data = data, !.todo = todo, !.goal = "awaiting_confirmation"]
    <2>1. req' = [req EXCEPT ![r] = e]
      BY <1>1 DEF PreviewPlan
    <2> HIDE DEF data, todo
    <2>2. e.at # "idle"
      BY DEF Idle
    <2> HIDE DEF e
    <2> QED
      BY <2>1, <2>2
  <1>2. ASSUME NEW p \in PlanId, NEW yes, ConfirmPlan(r, p, yes)
        PROVE  \E e : req' = [req EXCEPT ![r] = e] /\ e.at # "idle"
    <2> DEFINE goal == Decision(yes)
               e == [Idle EXCEPT !.at = "status_read", !.op = "confirm", !.plan = p, !.goal = goal]
    <2>1. req' = [req EXCEPT ![r] = e]
      BY <1>2 DEF ConfirmPlan
    <2> HIDE DEF goal
    <2>2. e.at # "idle"
      BY DEF Idle
    <2> HIDE DEF e
    <2> QED
      BY <2>1, <2>2
  <1>3. ASSUME NEW p \in PlanId, ExecutePlan(r, p)
        PROVE  \E e : req' = [req EXCEPT ![r] = e] /\ e.at # "idle"
    <2> DEFINE at == IF disk[p].targets = {} THEN "gate" ELSE "load_rows"
               todo == disk[p].targets
               e == [Idle EXCEPT !.at = at, !.op = "execute", !.plan = p,
                                 !.todo = todo, !.goal = "executing"]
    <2>1. req' = [req EXCEPT ![r] = e] /\ at # "idle"
      BY <1>3 DEF ExecutePlan
    <2> HIDE DEF at, todo
    <2>2. e.at # "idle"
      BY <2>1 DEF Idle
    <2> HIDE DEF e
    <2> QED
      BY <2>1, <2>2
  <1> QED
    BY <1>1, <1>2, <1>3 DEF Serve

\* A step is taken while no other request is in flight.
LEMMA StepsAlone ==
  ASSUME TypeOK, OneAtATime, OneAtATime', NEW r \in Request, Serve(r) \/ Continue(r)
  PROVE  Alone(r)
  <1>1. CASE req[r].at # "idle"
    BY <1>1 DEF OneAtATime, Alone
  <1>2. CASE req[r].at = "idle"
    <2>1. Serve(r)
      BY <1>2 DEF Continue, CacheRows, CachePolicy, NextTable, DispatchSubagent, RecordSubtask,
                  UpdateStatusRead, UpdateStatusWrite, LoadRows, LoadPolicy, Gate, Work,
                  ExecuteSqlGate, ApplyStatements
    <2>2. \E e : req' = [req EXCEPT ![r] = e] /\ e.at # "idle"
      BY <2>1, ServeStarts
    <2>3. PICK e : req' = [req EXCEPT ![r] = e] /\ e.at # "idle"
      BY <2>2
    <2>4. \A q \in Request : req'[q] = IF q = r THEN e ELSE req[q]
      BY <2>3 DEF TypeOK
    <2> QED
      BY <2>3, <2>4 DEF OneAtATime, Alone
  <1> QED
    BY <1>1, <1>2

LEMMA WritesAlone ==
  ASSUME OneAtATime, NEW r \in Request, RecordSubtask(r) \/ UpdateStatusWrite(r)
  PROVE  Alone(r)
  <1>1. req[r].at # "idle"
    BY DEF RecordSubtask, UpdateStatusWrite
  <1> QED
    BY <1>1 DEF OneAtATime, Alone

-----------------------------------------------------------------------------
(* The two kinds of steps *)

LEMMA LocalSerial ==
  ASSUME TypeOK, Serial, NEW r \in Request, Alone(r),
         NEW e, req' = [req EXCEPT ![r] = e],
         e.at # "idle" => Fits(e, disk[e.plan]),
         UNCHANGED <<disk, history>>
  PROVE  Serial'
  <1>1. \A q \in Request : req'[q].at # "idle" => q = r /\ req'[q] = e
    BY DEF TypeOK, Alone
  <1> QED
    BY <1>1 DEF Serial

LEMMA WriteSerial ==
  ASSUME TypeOK, Serial, NEW r \in Request, Alone(r),
         NEW p \in PlanId, NEW plan, NEW k, NEW e,
         disk' = [disk EXCEPT ![p] = plan],
         history' = [history EXCEPT ![p] = k],
         req' = [req EXCEPT ![r] = e],
         Settled(plan, k),
         e.at # "idle" => e.plan = p /\ Fits(e, plan)
  PROVE  Serial'
  <1>1. \A q \in Request : req'[q].at # "idle" => q = r /\ req'[q] = e
    BY DEF TypeOK, Alone
  <1>2. \A q \in PlanId : /\ history'[q] = IF q = p THEN k ELSE history[q]
                          /\ disk'[q] = IF q = p THEN plan ELSE disk[q]
    BY DEF TypeOK
  <1> QED
    BY <1>1, <1>2 DEF Serial

-----------------------------------------------------------------------------
(* One step per action *)

\* A plan is born with a question to answer exactly when its intent is "unclear".
LEMMA DraftSettled ==
  ASSUME NEW reply \in Reply
  PROVE  /\ Draft(reply).status \in {"planning", "awaiting_confirmation"}
         /\ Draft(reply).status = "planning" => Draft(reply).intent = "unclear"
         /\ Draft(reply).subtasks = 0
  <1>1. \A i, T : /\ NewPlan(i, T).status = IF i = "unclear" THEN "planning"
                                                             ELSE "awaiting_confirmation"
                  /\ NewPlan(i, T).intent = i
                  /\ NewPlan(i, T).subtasks = 0
    BY DEF NewPlan, NoPlan
  <1> HIDE DEF NewPlan
  <1> QED
    BY <1>1 DEF Draft

LEMMA CreateSerial ==
  ASSUME TypeOK, Serial, NEW p \in PlanId, NEW reply \in Reply, CreatePlan(p, reply)
  PROVE  Serial'
  <1>1. /\ disk' = [disk EXCEPT ![p] = Draft(reply)] /\ UNCHANGED <<req, history>>
        /\ disk[p].status = "absent"
    BY DEF CreatePlan, Exists
  <1>2. \A q \in PlanId : disk'[q] = IF q = p THEN Draft(reply) ELSE disk[q]
    BY <1>1 DEF TypeOK
  <1>3. Settled(disk'[p], history'[p])
    <2>1. Settled(disk[p], history[p])
      BY DEF Serial
    <2> QED
      BY <1>1, <1>2, <2>1, DraftSettled DEF Settled
  <1>4. \A r \in Request : req[r].at # "idle" => req[r].plan \in PlanId /\ req[r].plan # p
    BY <1>1 DEF TypeOK, InPlace, Serial, Fits
  <1> QED
    BY <1>1, <1>2, <1>3, <1>4 DEF Serial

LEMMA ServeSerial ==
  ASSUME TypeOK, Serial, NEW r \in Request, Alone(r),
         Serve(r)
  PROVE  Serial'
  <1>1. UNCHANGED <<disk, history>>
    BY DEF Serve, PreviewPlan, ConfirmPlan, ExecutePlan
  <1>2. PICK p \in PlanId :
          \/ \E uploaded \in Upload, mask \in BOOLEAN : PreviewPlan(r, p, uploaded, mask)
          \/ \E yes \in BOOLEAN : ConfirmPlan(r, p, yes)
          \/ ExecutePlan(r, p)
    BY DEF Serve
  <1>3. ASSUME NEW uploaded \in Upload, NEW mask \in BOOLEAN, PreviewPlan(r, p, uploaded, mask)
        PROVE  Serial'
    <2> DEFINE data == [rows |-> [t \in Table |-> IF t \in disk[p].targets THEN uploaded[t]
                                                                           ELSE EmptyBatch],
                        masked |-> PreviewPolicies(disk[p], mask)]
               todo == disk[p].targets
               e == [Idle EXCEPT !.at = "cache_rows", !.op = "preview", !.plan = p,
                                 !.data = data, !.todo = todo, !.goal = "awaiting_confirmation"]
    <2>1. req' = [req EXCEPT ![r] = e] /\ disk[p].status # "absent" /\ disk[p].intent # "unclear"
      BY <1>3 DEF PreviewPlan, Exists
    <2> HIDE DEF data, todo
    <2>2. Fits(e, disk[e.plan])
      BY <2>1 DEF Fits, Idle, BeforeGate
    <2> HIDE DEF e
    <2> QED
      BY <1>1, <2>1, <2>2, LocalSerial
  <1>4. ASSUME NEW yes \in BOOLEAN, ConfirmPlan(r, p, yes) PROVE Serial'
    <2> DEFINE e == [Idle EXCEPT !.at = "status_read", !.op = "confirm", !.plan = p,
                                 !.goal = Decision(yes)]
    <2>1. req' = [req EXCEPT ![r] = e] /\ disk[p].status # "absent"
      BY <1>4 DEF ConfirmPlan, Exists
    <2>2. Fits(e, disk[e.plan])
      BY <2>1 DEF Fits, Idle, BeforeGate, Decision
    <2> HIDE DEF e
    <2> QED
      BY <1>1, <2>1, <2>2, LocalSerial
  <1>5. CASE ExecutePlan(r, p)
    <2> DEFINE at == IF disk[p].targets = {} THEN "gate" ELSE "load_rows"
               todo == disk[p].targets
               e == [Idle EXCEPT !.at = at, !.op = "execute", !.plan = p,
                                 !.todo = todo, !.goal = "executing"]
    <2>1. /\ req' = [req EXCEPT ![r] = e] /\ at \in {"gate", "load_rows"}
          /\ disk[p].status # "absent"
      BY <1>5 DEF ExecutePlan, Exists
    <2> HIDE DEF at, todo
    <2>2. Fits(e, disk[e.plan])
      BY <2>1 DEF Fits, Idle, BeforeGate
    <2> HIDE DEF e
    <2> QED
      BY <1>1, <2>1, <2>2, LocalSerial
  <1> QED
    BY <1>2, <1>3, <1>4, <1>5

\* Steps that go on with the same goal and the same object to write back.
LEMMA KeepSerial ==
  ASSUME TypeOK, Serial, NEW r \in Request, Alone(r),
         req[r].at # "idle",
         NEW e, req' = [req EXCEPT ![r] = e],
         e.plan = req[r].plan /\ e.op = req[r].op /\ e.goal = req[r].goal,
         e.at \in BeforeGate => req[r].at \in BeforeGate,
         e.at \notin BeforeGate => req[r].at \notin BeforeGate \/ disk[e.plan].status = "confirmed",
         e.at \in {"record", "status_write"} => e.buf = disk[e.plan],
         UNCHANGED <<disk, history>>
  PROVE  Serial'
  <1>1. Fits(req[r], disk[e.plan])
    BY DEF Serial
  <1>2. Fits(e, disk[e.plan])
    BY <1>1 DEF Fits
  <1> QED
    BY <1>2, LocalSerial

LEMMA StopSerial ==
  ASSUME TypeOK, Serial, NEW r \in Request, Alone(r),
         req' = [req EXCEPT ![r] = Idle],
         UNCHANGED <<disk, history>>
  PROVE  Serial'
  BY LocalSerial DEF Idle

LEMMA CachingSerial ==
  ASSUME TypeOK, Serial, NEW r \in Request, Alone(r),
         CacheRows(r) \/ CachePolicy(r)
  PROVE  Serial'
  <1> DEFINE s == req[r]
             on(at, T) == [s EXCEPT !.at = at, !.todo = T]
  <1>1. s \in RequestState /\ s.at \in {"cache_rows", "cache_policy"} /\ UNCHANGED <<disk, history>>
    BY DEF TypeOK, CacheRows, CachePolicy
  <1>2. \/ req' = [req EXCEPT ![r] = Idle]
        \/ \E at \in {"cache_rows", "cache_policy", "next_table", "status_read"} :
             \E T : req' = [req EXCEPT ![r] = on(at, T)]
    <2>1. CASE CacheRows(r)
      <3>1. PICK t \in s.todo : req' = [req EXCEPT ![r] =
               IF s.todo # {t} THEN [s EXCEPT !.todo = @ \ {t}]
               ELSE IF FanOut(s.plan)
               THEN [s EXCEPT !.at = "next_table", !.todo = disk[s.plan].targets]
               ELSE [s EXCEPT !.at = "status_read", !.todo = {}]]
        BY <2>1 DEF CacheRows
      <3>2. [s EXCEPT !.todo = @ \ {t}] = on("cache_rows", s.todo \ {t})
        BY <1>1, <2>1 DEF CacheRows, RequestState
      <3> HIDE DEF s
      <3> QED
        BY <3>1, <3>2
    <2>2. CASE CachePolicy(r)
      <3>1. PICK t \in s.todo :
              req' = [req EXCEPT ![r] = IF s.todo = {t} THEN Idle ELSE [s EXCEPT !.todo = @ \ {t}]]
        BY <2>2 DEF CachePolicy
      <3>2. [s EXCEPT !.todo = @ \ {t}] = on("cache_policy", s.todo \ {t})
        BY <1>1, <2>2 DEF CachePolicy, RequestState
      <3> HIDE DEF s
      <3> QED
        BY <3>1, <3>2
    <2> QED
      BY <2>1, <2>2
  <1>3. ASSUME NEW at \in {"cache_rows", "cache_policy", "next_table", "status_read"}, NEW T,
               req' = [req EXCEPT ![r] = on(at, T)]
        PROVE  Serial'
    <2> DEFINE e == on(at, T)
    <2>1. e.at = at /\ e.plan = s.plan /\ e.op = s.op /\ e.goal = s.goal
      BY <1>1 DEF RequestState
    <2>2. req' = [req EXCEPT ![r] = e]
      BY <1>3
    <2> HIDE DEF e
    <2>3. e.at \notin BeforeGate /\ req[r].at \notin BeforeGate /\ req[r].at # "idle"
          /\ e.at \notin {"record", "status_write"}
      BY <1>1, <2>1 DEF BeforeGate
    <2> QED
      BY <1>1, <2>1, <2>2, <2>3, KeepSerial
  <1> QED
    BY <1>1, <1>2, <1>3, StopSerial

LEMMA LoopSerial ==
  ASSUME TypeOK, Serial, NEW r \in Request, Alone(r),
         NextTable(r) \/ DispatchSubagent(r) \/ UpdateStatusRead(r)
  PROVE  Serial'
  <1> DEFINE s == req[r]
  <1>1. /\ s \in RequestState /\ UNCHANGED <<disk, history>>
        /\ s.at \in {"next_table", "dispatch", "status_read"}
    BY DEF TypeOK, NextTable, DispatchSubagent, UpdateStatusRead
  <1>2. s.at # "idle" /\ s.at \notin BeforeGate
    BY <1>1 DEF BeforeGate
  <1>3. CASE NextTable(r)
    <2> DEFINE acts == IF s.op = "execute" THEN ExecuteActions ELSE PreviewActions(s.data)
               end == [s EXCEPT !.at = "status_read"]
               enter(t) == [s EXCEPT !.at = DispatchStep(acts), !.table = t,
                                     !.todo = @ \ {t}, !.acts = acts]
    <2>1. \/ req' = [req EXCEPT ![r] = end]
          \/ \E t \in s.todo : req' = [req EXCEPT ![r] = enter(t)]
      BY <1>3 DEF NextTable
    <2>2. CASE req' = [req EXCEPT ![r] = end]
      <3>1. end.at = "status_read" /\ end.plan = s.plan /\ end.op = s.op /\ end.goal = s.goal
        BY <1>1 DEF RequestState
      <3> HIDE DEF end
      <3>2. end.at \notin BeforeGate
        BY <3>1 DEF BeforeGate
      <3> QED
        BY <1>1, <1>2, <2>2, <3>1, <3>2, KeepSerial
    <2>3. ASSUME NEW t \in s.todo, req' = [req EXCEPT ![r] = enter(t)] PROVE Serial'
      <3> DEFINE e == enter(t)
      <3>1. DispatchStep(acts) \in {"dispatch", "sql_gate"}
        BY DEF DispatchStep
      <3> HIDE DEF acts
      <3>2. e.at = DispatchStep(acts) /\ e.plan = s.plan /\ e.op = s.op /\ e.goal = s.goal
        BY <1>1 DEF RequestState
      <3>3. req' = [req EXCEPT ![r] = e]
        BY <2>3
      <3> HIDE DEF e
      <3>4. e.at \notin BeforeGate /\ e.at \notin {"record", "status_write"}
        BY <3>1, <3>2 DEF BeforeGate
      <3> QED
        BY <1>1, <1>2, <3>2, <3>3, <3>4, KeepSerial
    <2> QED
      BY <2>1, <2>2, <2>3
  <1>4. CASE DispatchSubagent(r) \/ UpdateStatusRead(r)
    <2>1. PICK at \in {"record", "status_write"} :
            req' = [req EXCEPT ![r] = [s EXCEPT !.at = at, !.buf = disk[s.plan]]]
      BY <1>4 DEF DispatchSubagent, UpdateStatusRead
    <2> DEFINE e == [s EXCEPT !.at = at, !.buf = disk[s.plan]]
    <2>2. e.at = at /\ e.plan = s.plan /\ e.op = s.op /\ e.goal = s.goal /\ e.buf = disk[s.plan]
      BY <1>1 DEF RequestState
    <2>3. req' = [req EXCEPT ![r] = e]
      BY <2>1
    <2> HIDE DEF e
    <2>4. e.at \notin BeforeGate
      BY <2>1, <2>2 DEF BeforeGate
    <2> QED
      BY <1>1, <1>2, <2>2, <2>3, <2>4, KeepSerial
  <1> QED
    BY <1>3, <1>4

LEMMA ExecuteStepSerial ==
  ASSUME TypeOK, Serial, NEW r \in Request, Alone(r),
         LoadRows(r) \/ LoadPolicy(r) \/ Gate(r) \/ Work(r) \/ ExecuteSqlGate(r) \/ ApplyStatements(r)
  PROVE  Serial'
  <1> DEFINE s == req[r]
             Kept(e) == e.plan = s.plan /\ e.op = s.op /\ e.goal = s.goal
  <1>1. s \in RequestState /\ UNCHANGED <<disk, history>>
    BY DEF TypeOK, LoadRows, LoadPolicy, Gate, Work, ExecuteSqlGate, ApplyStatements
  <1>2. CASE LoadRows(r)
    <2>1. PICK t \in s.todo : req' = [req EXCEPT ![r] =
            [s EXCEPT !.at = "load_policy", !.table = t, !.data.rows[t] = rowsCache[<<s.plan, t>>]]]
      BY <1>2 DEF LoadRows
    <2> DEFINE e == [s EXCEPT !.at = "load_policy", !.table = t, !.data.rows[t] = rowsCache[<<s.plan, t>>]]
    <2>2. s.at = "load_rows" /\ req' = [req EXCEPT ![r] = e]
      BY <1>2, <2>1 DEF LoadRows
    <2>3. e.at = "load_policy" /\ Kept(e)
      BY <1>1 DEF RequestState
    <2> HIDE DEF e
    <2>4. e.at \in BeforeGate /\ s.at \in BeforeGate /\ s.at # "idle"
      BY <2>2, <2>3 DEF BeforeGate
    <2> QED
      BY <1>1, <2>2, <2>3, <2>4, KeepSerial
  <1>3. CASE LoadPolicy(r)
    <2> DEFINE at == IF s.todo = {s.table} THEN "gate" ELSE "load_rows"
               todo == s.todo \ {s.table}
               d == [s.data EXCEPT !.masked = IF <<s.plan, s.table>> \in policyCache
                                              THEN @ \cup {s.table} ELSE @]
               e == [s EXCEPT !.at = at, !.table = NoTable, !.todo = todo, !.data = d]
    <2>1. s.at = "load_policy" /\ req' = [req EXCEPT ![r] = e] /\ at \in {"gate", "load_rows"}
      BY <1>3 DEF LoadPolicy
    <2> HIDE DEF at, todo, d
    <2>2. e.at = at /\ Kept(e)
      BY <1>1 DEF RequestState
    <2> HIDE DEF e
    <2>3. e.at \in BeforeGate /\ s.at \in BeforeGate /\ s.at # "idle"
          /\ e.at \notin {"record", "status_write"}
      BY <2>1, <2>2 DEF BeforeGate
    <2> QED
      BY <1>1, <2>1, <2>2, <2>3, KeepSerial
  <1>4. CASE Gate(r)
    <2> DEFINE on == [s EXCEPT !.at = "status_read"]
    <2>1. CASE MayExecute(disk[s.plan])
      <3>1. s.at = "gate" /\ req' = [req EXCEPT ![r] = on]
        BY <1>4, <2>1 DEF Gate
      <3>2. on.at = "status_read" /\ Kept(on)
        BY <1>1 DEF RequestState
      <3> HIDE DEF on
      <3>3. on.at \notin BeforeGate /\ s.at # "idle" /\ disk[on.plan].status = "confirmed"
        BY <2>1, <3>1, <3>2 DEF BeforeGate, MayExecute
      <3> QED
        BY <1>1, <3>1, <3>2, <3>3, KeepSerial
    <2>2. CASE ~MayExecute(disk[s.plan])
      BY <1>1, <1>4, <2>2, StopSerial DEF Gate
    <2> QED
      BY <2>1, <2>2
  <1>5. CASE Work(r)
    <2> DEFINE masking == disk[s.plan].intent = "mask"
               d == [s.data EXCEPT !.masked = IF masking THEN s.todo ELSE {}]
               e == [s EXCEPT !.at = "status_read", !.todo = {}, !.data = d]
    <2>1. CASE s.todo # {}
      <3>1. s.at = "work" /\ req' = [req EXCEPT ![r] = e]
        BY <1>5, <2>1 DEF Work
      <3> HIDE DEF d
      <3>2. e.at = "status_read" /\ Kept(e)
        BY <1>1 DEF RequestState
      <3> HIDE DEF e
      <3>3. e.at \notin BeforeGate /\ s.at \notin BeforeGate /\ s.at # "idle"
        BY <3>1, <3>2 DEF BeforeGate
      <3> QED
        BY <1>1, <3>1, <3>2, <3>3, KeepSerial
    <2>2. CASE s.todo = {}
      BY <1>1, <1>5, <2>2, StopSerial DEF Work
    <2> QED
      BY <2>1, <2>2
  <1>6. CASE ExecuteSqlGate(r)
    <2> DEFINE on == [s EXCEPT !.at = "sql_apply"]
    <2>1. CASE MayWrite(disk[s.plan])
      <3>1. s.at = "sql_gate" /\ req' = [req EXCEPT ![r] = on]
        BY <1>6, <2>1 DEF ExecuteSqlGate
      <3>2. on.at = "sql_apply" /\ Kept(on)
        BY <1>1 DEF RequestState
      <3> HIDE DEF on
      <3>3. on.at \notin BeforeGate /\ s.at \notin BeforeGate /\ s.at # "idle"
        BY <3>1, <3>2 DEF BeforeGate
      <3> QED
        BY <1>1, <3>1, <3>2, <3>3, KeepSerial
    <2>2. CASE ~MayWrite(disk[s.plan])
      BY <1>1, <1>6, <2>2, StopSerial DEF ExecuteSqlGate
    <2> QED
      BY <2>1, <2>2
  <1>7. CASE ApplyStatements(r)
    <2> DEFINE e == [s EXCEPT !.at = "dispatch"]
    <2>1. s.at = "sql_apply" /\ req' = [req EXCEPT ![r] = e]
      BY <1>7 DEF ApplyStatements
    <2>2. e.at = "dispatch" /\ Kept(e)
      BY <1>1 DEF RequestState
    <2> HIDE DEF e
    <2>3. e.at \notin BeforeGate /\ s.at \notin BeforeGate /\ s.at # "idle"
      BY <2>1, <2>2 DEF BeforeGate
    <2> QED
      BY <1>1, <2>1, <2>2, <2>3, KeepSerial
  <1> QED
    BY <1>2, <1>3, <1>4, <1>5, <1>6, <1>7

\* The two writes, with what they make of the plan file and of the history.
LEMMA RecordSerial ==
  ASSUME TypeOK, Serial, NEW r \in Request, Alone(r),
         RecordSubtask(r)
  PROVE  /\ Serial'
         /\ disk'[req[r].plan].status = disk[req[r].plan].status
         /\ UNCHANGED [p \in PlanId |-> history[p].runs]
  <1> DEFINE s == req[r]
             plan == disk[s.plan]
             h == history[s.plan]
             k == Dispatched(h, s)
             e == AfterRecord(s)
  <1>1. /\ s \in RequestState /\ s.plan \in PlanId /\ s.at = "record" /\ Fits(s, plan)
        /\ plan \in PlanRecord /\ h \in HistoryRecord /\ Settled(plan, h)
        /\ s.acts \in Seq(Action) /\ s.acts # <<>>
    BY DEF TypeOK, InPlace, RecordSubtask, Serial, RequestState
  <1>2. s.buf = plan
    BY <1>1 DEF Fits
  <1>3. WithSubtask(r) = [plan EXCEPT !.subtasks = plan.subtasks + 1]
    BY <1>2 DEF WithSubtask
  <1>4. /\ WithSubtask(r).status = plan.status /\ WithSubtask(r).intent = plan.intent
        /\ WithSubtask(r).subtasks = plan.subtasks + 1
    BY <1>1, <1>3 DEF PlanRecord
  <1>5. k.runs = h.runs /\ k.confirms = h.confirms /\ k.dispatched = h.dispatched + 1
    BY <1>1, DispatchedType
  <1>6. plan.status # "absent"
    BY <1>1 DEF Fits
  <1> HIDE DEF k
  <1>7. Settled(WithSubtask(r), k)
    BY <1>1, <1>4, <1>5, <1>6 DEF Settled
  <1>8. e.at # "idle" => /\ e.plan = s.plan /\ e.op = s.op /\ e.goal = s.goal
                         /\ e.at \in {"next_table", "dispatch", "sql_gate"}
    <2>1. CASE Raises(s)
      BY <2>1 DEF AfterRecord, Idle
    <2>2. CASE ~Raises(s) /\ Len(s.acts) = 1
      <3> DEFINE d == [s EXCEPT !.at = "next_table", !.table = NoTable, !.acts = <<>>, !.buf = NoPlan]
      <3>1. e = d
        BY <2>2 DEF AfterRecord
      <3>2. d.at = "next_table" /\ d.op = s.op /\ d.plan = s.plan /\ d.goal = s.goal
        BY <1>1 DEF RequestState
      <3> QED
        BY <3>1, <3>2
    <2>3. CASE ~Raises(s) /\ Len(s.acts) # 1
      <3> DEFINE q == Tail(s.acts)
                 at == DispatchStep(q)
                 d == [s EXCEPT !.at = at, !.acts = q, !.buf = NoPlan]
      <3>1. e = d
        BY <2>3 DEF AfterRecord
      <3>2. at \in {"dispatch", "sql_gate"}
        BY DEF DispatchStep
      <3> HIDE DEF q, at
      <3>3. d.at = at /\ d.op = s.op /\ d.plan = s.plan /\ d.goal = s.goal
        BY <1>1 DEF RequestState
      <3> QED
        BY <3>1, <3>2, <3>3
    <2> QED
      BY <2>1, <2>2, <2>3
  <1>9. /\ disk' = [disk EXCEPT ![s.plan] = WithSubtask(r)]
        /\ history' = [history EXCEPT ![s.plan] = k]
        /\ req' = [req EXCEPT ![r] = e]
    BY DEF RecordSubtask, k
  <1> HIDE DEF e
  <1>10. e.at # "idle" => e.plan = s.plan /\ Fits(e, WithSubtask(r))
    BY <1>1, <1>4, <1>8 DEF Fits, BeforeGate
  <1>11. Serial'
    BY <1>1, <1>7, <1>9, <1>10, WriteSerial
  <1>12. disk'[s.plan].status = plan.status
    BY <1>1, <1>4, <1>9 DEF TypeOK
  <1>13. \A p \in PlanId : history'[p].runs = history[p].runs
    BY <1>1, <1>5, <1>9 DEF TypeOK
  <1> QED
    BY <1>11, <1>12, <1>13

\* update_status() moves the status as PlanLifecycle allows.
LEMMA UpdateSerial ==
  ASSUME TypeOK, Serial, NEW r \in Request, Alone(r),
         UpdateStatusWrite(r)
  PROVE  /\ Serial'
         /\ LET p == req[r].plan
            IN /\ disk'[p].subtasks = disk[p].subtasks
               /\ history'[p].runs # history[p].runs => disk[p].status = "confirmed"
               /\ \/ disk[p].status \notin {"planning", "absent"} /\ disk'[p].status = "awaiting_confirmation"
                  \/ disk[p].status # "absent" /\ disk'[p].status \in {"confirmed", "rejected"}
                  \/ disk[p].status = "confirmed" /\ disk'[p].status = "executing"
                  \/ disk[p].status = "executing" /\ disk'[p].status = "completed"
  <1> DEFINE s == req[r]
             plan == disk[s.plan]
             h == history[s.plan]
             k == Recorded(h, s)
             e == AfterUpdate(s)
  <1>1. /\ s \in RequestState /\ s.plan \in PlanId /\ s.at = "status_write" /\ Fits(s, plan)
        /\ plan \in PlanRecord /\ h \in HistoryRecord /\ Settled(plan, h)
    BY DEF TypeOK, InPlace, UpdateStatusWrite, Serial
  <1>2. /\ s.buf = plan /\ plan.status # "absent"
        /\ s.op = "preview" => s.goal = "awaiting_confirmation" /\ plan.intent # "unclear"
        /\ s.op = "confirm" => s.goal \in {"confirmed", "rejected"}
        /\ s.op = "execute" => s.goal \in {"executing", "completed"}
        /\ s.op \in {"preview", "confirm", "execute"}
        /\ s.goal = "executing" => plan.status = "confirmed"
        /\ s.goal = "completed" => plan.status = "executing"
    BY <1>1 DEF Fits, BeforeGate, RequestState
  <1>3. /\ Updated(s).status = s.goal /\ Updated(s).intent = plan.intent
        /\ Updated(s).subtasks = plan.subtasks
    BY <1>1, <1>2 DEF Updated, PlanRecord
  <1>4. /\ Len(h.runs) \in Nat /\ h.runs \in Seq(Dataset \cup {None}) /\ h.confirms \in Nat
        /\ h.dispatched \in Nat
    BY <1>1, LenProperties DEF HistoryRecord
  <1>5. /\ k.confirms = IF s.goal = "confirmed" THEN h.confirms + 1 ELSE h.confirms
        /\ s.goal # "executing" => k.runs = h.runs
        /\ Len(k.runs) = IF s.goal = "executing" THEN Len(h.runs) + 1 ELSE Len(h.runs)
        /\ k.dispatched = h.dispatched
    <2>1. CASE s.goal = "confirmed"
      BY <1>1, <2>1 DEF Recorded, HistoryRecord
    <2>2. CASE s.goal = "executing"
      <3>1. k = [h EXCEPT !.runs = Append(h.runs, h.approved), !.started = restarts]
        BY <2>2 DEF Recorded
      <3>2. h.approved \in Dataset \cup {None}
        BY <1>1 DEF HistoryRecord
      <3>3. Len(Append(h.runs, h.approved)) = Len(h.runs) + 1
        BY <1>4, <3>2, AppendProperties
      <3> QED
        BY <1>1, <2>2, <3>1, <3>3 DEF HistoryRecord
    <2>3. CASE s.goal = "awaiting_confirmation"
      <3>1. k = [h EXCEPT !.previewed = restarts]
        BY <2>3 DEF Recorded
      <3> QED
        BY <1>1, <2>3, <3>1 DEF HistoryRecord
    <2>4. CASE s.goal \notin {"confirmed", "executing", "awaiting_confirmation"}
      BY <2>4 DEF Recorded
    <2> QED
      BY <2>1, <2>2, <2>3, <2>4
  <1>6. e.at # "idle" => /\ e.plan = s.plan /\ e.op = s.op
                         /\ \/ e.goal = "awaiting_confirmation" /\ e.at = "cache_policy" /\ s.op = "preview"
                            \/ e.goal = "completed" /\ e.at \in {"next_table", "work"}
                               /\ s.goal = "executing" /\ s.op = "execute"
    <2>1. CASE s.op = "preview" /\ s.data.masked # {}
      <3> DEFINE m == s.data.masked
                 d == [s EXCEPT !.at = "cache_policy", !.todo = m, !.buf = NoPlan]
      <3>1. e = d
        BY <2>1 DEF AfterUpdate
      <3> HIDE DEF m
      <3>2. d.at = "cache_policy" /\ d.op = s.op /\ d.plan = s.plan /\ d.goal = s.goal
        BY <1>1 DEF RequestState
      <3> QED
        BY <1>2, <2>1, <3>1, <3>2
    <2>2. CASE ~(s.op = "preview" /\ s.data.masked # {}) /\ s.goal = "executing"
      <3> DEFINE at == IF s.buf.intent = "multi_table_job" THEN "next_table" ELSE "work"
                 todo == s.buf.targets
                 run == Len(h.runs) + 1
                 d == [s EXCEPT !.at = at, !.todo = todo, !.buf = NoPlan, !.goal = "completed",
                                !.run = run]
      <3>1. e = d
        BY <2>2 DEF AfterUpdate
      <3>2. at \in {"next_table", "work"}
        OBVIOUS
      <3> HIDE DEF at, todo, run
      <3>3. d.at = at /\ d.op = s.op /\ d.plan = s.plan /\ d.goal = "completed"
        BY <1>1 DEF RequestState
      <3>4. s.op = "execute"
        BY <1>2, <2>2
      <3> HIDE DEF d
      <3> QED
        BY <2>2, <3>1, <3>2, <3>3, <3>4
    <2>3. CASE ~(s.op = "preview" /\ s.data.masked # {}) /\ s.goal # "executing"
      BY <2>3 DEF AfterUpdate, Idle
    <2> QED
      BY <2>1, <2>2, <2>3
  <1>7. /\ disk' = [disk EXCEPT ![s.plan] = Updated(s)]
        /\ history' = [history EXCEPT ![s.plan] = k]
        /\ req' = [req EXCEPT ![r] = e]
    BY DEF UpdateStatusWrite
  <1> HIDE DEF e, k
  <1>8. Settled(Updated(s), k)
    <2>1. Len(k.runs) + (IF s.goal = "confirmed" THEN 1 ELSE 0) <= k.confirms
      <3>1. Len(h.runs) + (IF plan.status = "confirmed" THEN 1 ELSE 0) <= h.confirms
        BY <1>1 DEF Settled
      <3> DEFINE ran == Len(h.runs)
                 granted == h.confirms
      <3>2. ran \in Nat /\ granted \in Nat
            /\ ran + (IF plan.status = "confirmed" THEN 1 ELSE 0) <= granted
        BY <1>4, <3>1
      <3>3. CASE s.goal = "confirmed"
        <4>1. Len(k.runs) = ran /\ k.confirms = granted + 1
          BY <1>5, <3>3
        <4> HIDE DEF ran, granted
        <4>2. ran <= granted
          BY <3>2
        <4> QED
          BY <3>2, <3>3, <4>1, <4>2
      <3>4. CASE s.goal = "executing"
        <4>1. Len(k.runs) = ran + 1 /\ k.confirms = granted /\ plan.status = "confirmed"
          BY <1>2, <1>5, <3>4
        <4> HIDE DEF ran, granted
        <4>2. ran + 1 <= granted
          BY <3>2, <4>1
        <4> QED
          BY <3>2, <3>4, <4>1, <4>2
      <3>5. CASE s.goal \notin {"confirmed", "executing"}
        <4>1. Len(k.runs) = ran /\ k.confirms = granted
          BY <1>5, <3>5
        <4> HIDE DEF ran, granted
        <4>2. ran <= granted
          BY <3>2
        <4> QED
          BY <3>2, <3>5, <4>1, <4>2
      <3> QED
        BY <3>3, <3>4, <3>5
    <2>2. plan.subtasks = h.dispatched
      BY <1>1 DEF Settled
    <2>3. s.goal \notin {"planning", "absent", "failed"}
      BY <1>2
    <2> QED
      BY <1>3, <1>5, <2>1, <2>2, <2>3 DEF Settled
  <1>9. e.at # "idle" => e.plan = s.plan /\ Fits(e, Updated(s))
    BY <1>2, <1>3, <1>6 DEF Fits, BeforeGate
  <1>10. Serial'
    BY <1>1, <1>7, <1>8, <1>9, WriteSerial
  <1>11. /\ disk'[s.plan] = Updated(s)
         /\ history'[s.plan] = k
    BY <1>1, <1>7 DEF TypeOK
  <1>12. plan.status = "planning" => s.op # "preview"
    BY <1>1, <1>2 DEF Settled
  <1> QED
    BY <1>2, <1>3, <1>5, <1>10, <1>11, <1>12

LEMMA SerialStep ==
  ASSUME TypeOK, Serial, OneAtATime, OneAtATime', [Next]_vars
  PROVE  Serial'
  <1>1. ASSUME NEW p \in PlanId, NEW reply \in Reply, CreatePlan(p, reply) PROVE Serial'
    BY <1>1, CreateSerial
  <1>2. ASSUME NEW r \in Request, Serve(r) PROVE Serial'
    BY <1>2, StepsAlone, ServeSerial
  <1>3. ASSUME NEW r \in Request, Continue(r) PROVE Serial'
    BY <1>3, StepsAlone, CachingSerial, LoopSerial, RecordSerial, UpdateSerial, ExecuteStepSerial DEF Continue
  <1>4. CASE Restart
    BY <1>4 DEF Restart, Serial, Idle
  <1>5. CASE UNCHANGED vars
    BY <1>5 DEF Serial, vars
  <1> QED
    BY <1>1, <1>2, <1>3, <1>4, <1>5 DEF Next

LEMMA SerialInit == Init => Serial
  <1>1. Len(Untouched.runs) = 0 /\ Untouched.confirms = 0 /\ Untouched.dispatched = 0
    BY DEF Untouched
  <1>2. NoPlan.status = "absent" /\ NoPlan.subtasks = 0
    BY DEF NoPlan
  <1>3. Settled(NoPlan, Untouched)
    BY <1>1, <1>2 DEF Settled
  <1> QED
    BY <1>3 DEF Init, Serial, Idle

\* What each kind of step does to the plan files: this is what the action
\* properties and the refinement need.
LEMMA DiskStep ==
  ASSUME TypeOK, Serial, OneAtATime, OneAtATime', [Next]_vars
  PROVE  \/ UNCHANGED <<disk, history>>
         \/ \E p \in PlanId : \E plan :
              /\ disk[p].status = "absent" /\ plan.status \in {"planning", "awaiting_confirmation"}
              /\ plan.subtasks = 0
              /\ disk' = [disk EXCEPT ![p] = plan] /\ UNCHANGED history
         \/ \E r \in Request : RecordSubtask(r) \/ UpdateStatusWrite(r)
  <1>1. ASSUME NEW p \in PlanId, NEW reply \in Reply, CreatePlan(p, reply)
        PROVE  \E q \in PlanId : \E plan :
                 /\ disk[q].status = "absent" /\ plan.status \in {"planning", "awaiting_confirmation"}
                 /\ plan.subtasks = 0
                 /\ disk' = [disk EXCEPT ![q] = plan] /\ UNCHANGED history
    BY <1>1, DraftSettled DEF CreatePlan, Exists
  <1>2. ASSUME NEW r \in Request, Serve(r) PROVE UNCHANGED <<disk, history>>
    BY <1>2 DEF Serve, PreviewPlan, ConfirmPlan, ExecutePlan
  <1>3. ASSUME NEW r \in Request, Continue(r)
        PROVE  UNCHANGED <<disk, history>> \/ RecordSubtask(r) \/ UpdateStatusWrite(r)
    BY <1>3 DEF Continue, CacheRows, CachePolicy, NextTable, DispatchSubagent, UpdateStatusRead,
                LoadRows, LoadPolicy, Gate, Work, ExecuteSqlGate, ApplyStatements
  <1>4. Restart => UNCHANGED <<disk, history>>
    BY DEF Restart
  <1>5. UNCHANGED vars => UNCHANGED <<disk, history>>
    BY DEF vars
  <1> QED
    BY <1>1, <1>2, <1>3, <1>4, <1>5 DEF Next

\* Writing one plan file changes the status of that plan only.
LEMMA StatusMoves ==
  ASSUME TypeOK, NEW p \in PlanId, NEW plan, disk' = [disk EXCEPT ![p] = plan]
  PROVE  /\ statuses' = [statuses EXCEPT ![p] = plan.status]
         /\ statuses[p] = disk[p].status
         /\ disk'[p] = plan
         /\ plan.status = disk[p].status => statuses' = statuses
  <1>1. \A q \in PlanId : disk'[q] = IF q = p THEN plan ELSE disk[q]
    BY DEF TypeOK
  <1>2. statuses' = [q \in PlanId |-> IF q = p THEN plan.status ELSE disk[q].status]
    BY <1>1 DEF statuses
  <1>3. statuses[p] = disk[p].status
    BY DEF statuses
  <1>4. statuses' = [statuses EXCEPT ![p] = plan.status]
    BY <1>2, Zenon DEF statuses
  <1>5. plan.status = disk[p].status => statuses' = statuses
    BY <1>2 DEF statuses
  <1> QED
    BY <1>1, <1>3, <1>4, <1>5

LEMMA LifecycleStep ==
  ASSUME TypeOK, Serial, OneAtATime, OneAtATime', [Next]_vars
  PROVE  [Lifecycle!Next]_statuses
  <1>1. CASE UNCHANGED <<disk, history>>
    BY <1>1 DEF statuses
  <1>2. ASSUME NEW p \in PlanId, NEW plan,
               disk[p].status = "absent", plan.status \in {"planning", "awaiting_confirmation"},
               disk' = [disk EXCEPT ![p] = plan]
        PROVE  Lifecycle!Next
    <2>1. Lifecycle!Propose(p)
      BY <1>2, StatusMoves DEF Lifecycle!Propose, Lifecycle!Become, Lifecycle!Drafted
    <2> QED
      BY <2>1 DEF Lifecycle!Next
  <1>3. ASSUME NEW r \in Request, RecordSubtask(r) PROVE statuses' = statuses
    <2> DEFINE p == req[r].plan
    <2>1. p \in PlanId /\ disk' = [disk EXCEPT ![p] = WithSubtask(r)]
      BY <1>3 DEF RecordSubtask, TypeOK, InPlace
    <2>2. disk'[p].status = disk[p].status
      BY <1>3, WritesAlone, RecordSerial
    <2> HIDE DEF p
    <2> QED
      BY <2>1, <2>2, StatusMoves
  <1>4. ASSUME NEW r \in Request, UpdateStatusWrite(r) PROVE Lifecycle!Next
    <2> DEFINE p == req[r].plan
               was == disk[p].status
               is == disk'[p].status
    <2>1. p \in PlanId /\ disk' = [disk EXCEPT ![p] = Updated(req[r])]
      BY <1>4 DEF UpdateStatusWrite, TypeOK, InPlace
    <2>2. \/ was \notin {"planning", "absent"} /\ is = "awaiting_confirmation"
          \/ was # "absent" /\ is \in {"confirmed", "rejected"}
          \/ was = "confirmed" /\ is = "executing"
          \/ was = "executing" /\ is = "completed"
      BY <1>4, WritesAlone, UpdateSerial
    <2>3. was \in Status \cup {"absent"}
      BY <2>1 DEF TypeOK, PlanRecord
    <2>4. statuses' = [statuses EXCEPT ![p] = is] /\ statuses[p] = was
      BY <2>1, StatusMoves
    <2>5. was # "failed"
      BY <2>1 DEF Serial, Settled
    <2> HIDE DEF p, was, is
    <2>6. \/ Lifecycle!Present(p) \/ Lifecycle!Decide(p) \/ Lifecycle!Start(p) \/ Lifecycle!Finish(p)
      BY <2>2, <2>3, <2>4, <2>5
      DEF Status, Lifecycle!Present, Lifecycle!Decide, Lifecycle!Start, Lifecycle!Finish,
          Lifecycle!Become, Lifecycle!Live, Lifecycle!Drafted
    <2> QED
      BY <2>1, <2>6 DEF Lifecycle!Next
  <1> QED
    BY <1>1, <1>2, <1>3, <1>4, DiskStep

LEMMA RunsStartConfirmed ==
  ASSUME TypeOK, Serial, OneAtATime, OneAtATime', [Next]_vars, NEW p \in PlanId,
         history'[p].runs # history[p].runs
  PROVE  disk[p].status = "confirmed"
  <1>1. ASSUME NEW r \in Request, RecordSubtask(r) PROVE FALSE
    <2>1. [q \in PlanId |-> history[q].runs]' = [q \in PlanId |-> history[q].runs]
      BY <1>1, WritesAlone, RecordSerial
    <2>2. [q \in PlanId |-> history[q].runs]'[p] = [q \in PlanId |-> history[q].runs][p]
      BY <2>1
    <2> QED
      BY <2>2
  <1>2. ASSUME NEW r \in Request, UpdateStatusWrite(r) PROVE disk[p].status = "confirmed"
    <2>1. req[r].plan \in PlanId
          /\ history' = [history EXCEPT ![req[r].plan] = Recorded(history[req[r].plan], req[r])]
      BY <1>2 DEF UpdateStatusWrite, TypeOK, InPlace
    <2>2. req[r].plan = p
      BY <2>1 DEF TypeOK
    <2> QED
      BY <1>2, <2>2, WritesAlone, UpdateSerial
  <1> QED
    BY <1>1, <1>2, DiskStep

LEMMA SubtasksKeepStatus ==
  ASSUME TypeOK, Serial, OneAtATime, OneAtATime', [Next]_vars, NEW p \in PlanId,
         disk'[p].subtasks # disk[p].subtasks
  PROVE  disk'[p].status = disk[p].status
  <1>1. ASSUME NEW q \in PlanId, NEW plan, disk[q].status = "absent", plan.subtasks = 0,
               disk' = [disk EXCEPT ![q] = plan]
        PROVE  FALSE
    <2>1. disk[q].subtasks = 0
      BY <1>1 DEF Serial, Settled
    <2> QED
      BY <1>1, <2>1 DEF TypeOK
  <1>2. ASSUME NEW r \in Request, RecordSubtask(r) PROVE disk'[p].status = disk[p].status
    <2>1. req[r].plan \in PlanId /\ disk' = [disk EXCEPT ![req[r].plan] = WithSubtask(r)]
      BY <1>2 DEF RecordSubtask, TypeOK, InPlace
    <2>2. req[r].plan = p
      BY <2>1 DEF TypeOK
    <2> QED
      BY <1>2, <2>2, WritesAlone, RecordSerial
  <1>3. ASSUME NEW r \in Request, UpdateStatusWrite(r) PROVE FALSE
    <2>1. req[r].plan \in PlanId /\ disk' = [disk EXCEPT ![req[r].plan] = Updated(req[r])]
      BY <1>3 DEF UpdateStatusWrite, TypeOK, InPlace
    <2>2. req[r].plan = p
      BY <2>1 DEF TypeOK
    <2> QED
      BY <1>3, <2>2, WritesAlone, UpdateSerial
  <1> QED
    BY <1>1, <1>2, <1>3, DiskStep

-----------------------------------------------------------------------------
(* The theorems *)

LEMMA SerialHolds == Spec /\ []OneAtATime => [](TypeOK /\ Serial)
  <1>1. TypeOK /\ Serial /\ OneAtATime /\ OneAtATime' /\ [Next]_vars => TypeOK' /\ Serial'
    BY TypeStep, SerialStep
  <1> QED
    BY <1>1, TypeInit, SerialInit, PTL DEF Spec

\* When requests do not overlap, the statuses that clients read are those of the
\* abstract machine: previews, decisions, executions and restarts in any order
\* never start a plan that is not confirmed nor complete one that is not executing.
THEOREM SerialImplementsLifecycle == Spec /\ []OneAtATime => ImplementsLifecycle
  <1>1. Init => Lifecycle!Init
    <2>1. NoPlan.status = "absent"
      BY DEF NoPlan
    <2> QED
      BY <2>1 DEF Init, statuses, Lifecycle!Init
  <1>2. TypeOK /\ Serial /\ OneAtATime /\ OneAtATime' /\ [Next]_vars => [Lifecycle!Next]_statuses
    BY LifecycleStep
  <1> QED
    BY <1>1, <1>2, SerialHolds, PTL DEF Spec, ImplementsLifecycle, Lifecycle!Spec

\* When requests do not overlap, an execution that has started uses up the
\* confirmation that allowed it (execute() moves the plan out of "confirmed").
THEOREM SerialRunsOnce == Spec /\ []OneAtATime => []OneRunPerConfirmation
  <1>1. TypeOK /\ Serial => OneRunPerConfirmation
    <2> SUFFICES ASSUME TypeOK, Serial, NEW p \in PlanId
                 PROVE  Len(history[p].runs) <= history[p].confirms
      BY DEF OneRunPerConfirmation
    <2>1. Len(history[p].runs) \in Nat /\ history[p].confirms \in Nat
      BY LenProperties DEF TypeOK, HistoryRecord
    <2> DEFINE ran == Len(history[p].runs)
               granted == history[p].confirms
               left == IF disk[p].status = "confirmed" THEN 1 ELSE 0
    <2>2. ran + left <= granted
      BY DEF Serial, Settled
    <2>3. left \in Nat
      OBVIOUS
    <2> HIDE DEF ran, granted, left
    <2>4. ran <= granted
      BY <2>1, <2>2, <2>3 DEF ran, granted
    <2> QED
      BY <2>4 DEF ran, granted
  <1> QED
    BY <1>1, SerialHolds, PTL

\* When requests do not overlap, every subtask that dispatch_subagent() ran is in
\* the plan's subtasks, across any previews, executions and restarts.
THEOREM SerialRecordsSubtasks == Spec /\ []OneAtATime => []SubtasksAllRecorded
  <1>1. Serial => SubtasksAllRecorded
    BY DEF Serial, Settled, SubtasksAllRecorded
  <1> QED
    BY <1>1, SerialHolds, PTL

\* When requests do not overlap, an execution starts only while the plan file says
\* "confirmed": the status that execute() read is still there when it writes.
THEOREM SerialStartsConfirmed == Spec /\ []OneAtATime => StartsFromConfirmed
  <1>1. TypeOK /\ Serial /\ OneAtATime /\ OneAtATime' /\ [Next]_vars =>
          [\A p \in PlanId : history'[p].runs # history[p].runs => disk[p].status = "confirmed"]_vars
    BY RunsStartConfirmed
  <1> QED
    BY <1>1, SerialHolds, PTL DEF Spec, StartsFromConfirmed

\* When requests do not overlap, recording a subtask never moves a plan's status.
THEOREM SerialDispatchKeepsStatus == Spec /\ []OneAtATime => DispatchKeepsStatus
  <1>1. TypeOK /\ Serial /\ OneAtATime /\ OneAtATime' /\ [Next]_vars =>
          [\A p \in PlanId : disk'[p].subtasks # disk[p].subtasks
                               => disk'[p].status = disk[p].status]_vars
    BY SubtasksKeepStatus
  <1> QED
    BY <1>1, SerialHolds, PTL DEF Spec, DispatchKeepsStatus

-----------------------------------------------------------------------------
(* Approved rows.  Between preview and execute the rows are in a dictionary *)
(* of the process, the preview in the plan file, and the two are written in *)
(* different steps; what is approved is the preview.  The invariant says    *)
(* where the two agree: outside of a preview, the rows of a table are those *)
(* the stored preview shows if this process stored it, and none otherwise.  *)

\* Every file uploaded has a row.  (A preview of an empty one raises after its
\* rows were cached and before the preview is stored: they no longer agree.)
FullUploads == \A u \in Upload : \A t \in Table : u[t] # EmptyBatch

\* The rows of table t in preview d, where the process that stored it is still there.
RowsKept(d, stored, now, t) == IF d # None /\ stored = now THEN d.rows[t] ELSE EmptyBatch

\* What the process that runs after `now` restarts has in its cache for table t.
Cached(plan, h, now, t) == RowsKept(plan.preview, h.previewed, now, t)

\* A plan file shows what was approved while it is confirmed or executing, and
\* completes with it.
Agreed(plan, h) ==
  /\ plan.status = "absent" => plan.preview = None
  /\ plan.status \in {"confirmed", "executing"} => h.approved = plan.preview
  /\ plan.status = "completed" =>
       \A t \in Table : plan.result.rows[t] = RowsKept(h.approved, h.previewed, h.started, t)

\* A preview that is not stored yet.
Showing(s) == s.op = "preview" /\ s.at \notin {"idle", "cache_policy"}

\* An execution has yet to load the rows of table t.
Unloaded(s, t) == t \in s.todo /\ (s.at = "load_rows" \/ (s.at = "load_policy" /\ t # s.table))

\* The rows a request in flight works with: a preview has cached those of the
\* tables it is done with, an execution has loaded what the cache had.
Working(s, plan, h, cache, now) ==
  /\ s.at = "cache_rows" => s.op = "preview"
  /\ Showing(s) =>
       /\ s.at \notin BeforeGate /\ s.todo \subseteq plan.targets
       /\ \A t \in Table : /\ s.data.rows[t] = EmptyBatch <=> t \notin plan.targets
                           /\ \/ s.at = "cache_rows" /\ t \in s.todo
                              \/ cache[<<s.plan, t>>] = s.data.rows[t]
       /\ s.at \in {"dispatch", "record"} => s.table \in plan.targets
  /\ s.op = "execute" =>
       \A t \in Table : Unloaded(s, t) \/ s.data.rows[t] = Cached(plan, h, now, t)
  /\ s.goal = "completed" => h.runs[s.run] = h.approved /\ h.started = now

\* What carries ApprovedRowsOnly and CompletedOnApproved.
Approval ==
  /\ \A p \in PlanId :
       /\ Agreed(disk[p], history[p]) /\ history[p].previewed <= restarts
       /\ \A t \in Table : t \notin disk[p].targets => rowsCache[<<p, t>>] = EmptyBatch
       /\ (\A r \in Request : req[r].plan = p => ~Showing(req[r])) =>
            \A t \in Table : rowsCache[<<p, t>>] = Cached(disk[p], history[p], restarts, t)
  /\ \A r \in Request : req[r].at # "idle" =>
       Working(req[r], disk[req[r].plan], history[req[r].plan], rowsCache, restarts)
  /\ ApprovedRowsOnly

\* A step leaves alone what Approval says of plan p.
SamePlan(p) ==
  /\ disk'[p].status = disk[p].status /\ disk'[p].targets = disk[p].targets
  /\ disk'[p].preview = disk[p].preview /\ disk'[p].result = disk[p].result
  /\ history'[p].runs = history[p].runs /\ history'[p].approved = history[p].approved
  /\ history'[p].previewed = history[p].previewed /\ history'[p].started = history[p].started

\* A step of a request that no other overlaps: it concerns one plan.
LEMMA StepApproval ==
  ASSUME TypeOK, Approval, NEW r \in Request, Alone(r), NEW e, NEW p \in PlanId,
         req' = [req EXCEPT ![r] = e], restarts' = restarts,
         req[r].at # "idle" => req[r].plan = p,
         e.at # "idle" => e.plan = p,
         \A q \in PlanId : q # p =>
           SamePlan(q) /\ \A t \in Table : rowsCache'[<<q, t>>] = rowsCache[<<q, t>>],
         Agreed(disk'[p], history'[p]), history'[p].previewed <= restarts,
         \A t \in Table : t \notin disk'[p].targets => rowsCache'[<<p, t>>] = EmptyBatch,
         \/ Showing(e)
         \/ \A t \in Table : rowsCache'[<<p, t>>] = Cached(disk'[p], history'[p], restarts, t),
         e.at # "idle" => Working(e, disk'[p], history'[p], rowsCache', restarts),
         ApprovedRowsOnly'
  PROVE  Approval'
  <1>1. \A q \in Request : req'[q] = IF q = r THEN e ELSE req[q]
    BY DEF TypeOK
  <1>2. \A q \in Request : q # r => req[q].at = "idle" /\ ~Showing(req[q])
    BY DEF Alone, Showing
  <1>3. ASSUME NEW q \in PlanId
        PROVE  /\ Agreed(disk'[q], history'[q]) /\ history'[q].previewed <= restarts
               /\ \A t \in Table : t \notin disk'[q].targets => rowsCache'[<<q, t>>] = EmptyBatch
               /\ (\A x \in Request : req'[x].plan = q => ~Showing(req'[x])) =>
                    \A t \in Table :
                      rowsCache'[<<q, t>>] = Cached(disk'[q], history'[q], restarts, t)
    <2>1. CASE q = p
      <3>1. Showing(e) => e.plan = p
        BY DEF Showing
      <3> QED
        BY <1>1, <2>1, <3>1
    <2>2. CASE q # p
      <3>1. SamePlan(q) /\ \A t \in Table : rowsCache'[<<q, t>>] = rowsCache[<<q, t>>]
        BY <2>2
      <3>2. /\ Agreed(disk[q], history[q]) /\ history[q].previewed <= restarts
            /\ \A t \in Table : t \notin disk[q].targets => rowsCache[<<q, t>>] = EmptyBatch
        BY DEF Approval
      <3>3. Showing(req[r]) => req[r].plan # q
        BY <2>2 DEF Showing
      <3>4. \A x \in Request : req[x].plan = q => ~Showing(req[x])
        BY <1>2, <3>3
      <3>5. \A t \in Table : rowsCache[<<q, t>>] = Cached(disk[q], history[q], restarts, t)
        BY <3>4 DEF Approval
      <3>6. Agreed(disk'[q], history'[q])
        BY <3>1, <3>2 DEF SamePlan, Agreed
      <3> QED
        BY <3>1, <3>2, <3>5, <3>6 DEF SamePlan, Cached
    <2> QED
      BY <2>1, <2>2
  <1>4. ASSUME NEW q \in Request, req'[q].at # "idle"
        PROVE  Working(req'[q], disk'[req'[q].plan], history'[req'[q].plan], rowsCache', restarts)
    <2>1. q = r /\ req'[q] = e /\ e.plan = p
      BY <1>1, <1>2, <1>4
    <2> QED
      BY <1>4, <2>1
  <1> QED
    BY <1>3, <1>4 DEF Approval

\* Old outputs stay approved, as an execution's number keeps its meaning.
LEMMA OutputsApproved ==
  ASSUME TypeOK, Authority, ApprovedRowsOnly,
         \A p \in PlanId : \A n \in 1 .. Len(history[p].runs) :
           history'[p].runs[n] = history[p].runs[n],
         \A o \in outputs' \ outputs : /\ history'[o.plan].runs[o.run] # None
                                       /\ o.rows = history'[o.plan].runs[o.run].rows[o.table]
  PROVE  ApprovedRowsOnly'
  <1>1. ASSUME NEW o \in outputs
        PROVE  /\ history'[o.plan].runs[o.run] # None
               /\ o.rows = history'[o.plan].runs[o.run].rows[o.table]
    <2>1. o.plan \in PlanId /\ o.run \in 1 .. Len(history[o.plan].runs)
      BY DEF TypeOK, OutputRecord, Authority, ExecutionAuthorised
    <2> QED
      BY <2>1 DEF ApprovedRowsOnly
  <1> QED
    BY <1>1 DEF ApprovedRowsOnly

\* What an execution at work may produce is what was approved when it started.
LEMMA WorkApproved ==
  ASSUME Authority, TypeOK, Serial, Approval, NEW r \in Request, req[r].at # "idle",
         req[r].goal = "completed", NEW t \in Table, req[r].data.rows[t] # EmptyBatch
  PROVE  LET s == req[r]
         IN /\ history[s.plan].runs[s.run] # None
            /\ s.data.rows[t] = history[s.plan].runs[s.run].rows[t]
  <1> DEFINE s == req[r]
             plan == disk[s.plan]
             h == history[s.plan]
  <1>1. s.plan \in PlanId
    BY DEF TypeOK, InPlace
  <1>2. Fits(s, plan) /\ Licensed(s, h) /\ Working(s, plan, h, rowsCache, restarts) /\ Agreed(plan, h)
    BY <1>1 DEF Serial, Authority, Approval
  <1>3. plan.status = "executing" /\ s.op = "execute"
    BY <1>2 DEF Fits, Licensed
  <1>4. h.approved = plan.preview /\ h.runs[s.run] = h.approved
    BY <1>2, <1>3 DEF Agreed, Working
  <1>5. s.data.rows[t] = Cached(plan, h, restarts, t)
    BY <1>2, <1>3 DEF Working, Licensed, Unloaded, BeforeGate
  <1> QED
    BY <1>4, <1>5 DEF Cached, RowsKept

\* Request r goes on with e: with the same rows or, before the gate of an execution,
\* with rows it loads; a preview does not stop before it is stored, and only an
\* execution at work produces anything.
Pursues(r, e) ==
  LET s == req[r]
  IN /\ req' = [req EXCEPT ![r] = e]
     /\ Showing(s) => Showing(e)
     /\ e.at # "idle" =>
          /\ e.at # "cache_rows" /\ e.plan = s.plan /\ e.op = s.op /\ e.goal = s.goal
          /\ e.run = s.run
          /\ e.op = "execute" => \A t \in Table : \/ Unloaded(e, t)
                                                  \/ e.data.rows[t] = s.data.rows[t]
                                                     /\ ~Unloaded(s, t)
                                                  \/ e.data.rows[t] = rowsCache[<<s.plan, t>>]
                                                     /\ s.at \in BeforeGate
     /\ Showing(e) =>
          /\ Showing(s) /\ s.at # "cache_rows" /\ e.data.rows = s.data.rows
          /\ e.at \in BeforeGate => s.at \in BeforeGate
          /\ e.todo \subseteq s.todo
          /\ e.at \in {"dispatch", "record"} =>
               e.table \in s.todo \/ (s.at \in {"dispatch", "record"} /\ e.table = s.table)
     /\ \A o \in outputs' \ outputs :
          /\ s.goal = "completed" /\ o.plan = s.plan /\ o.run = s.run
          /\ o.table \in Table /\ o.rows = s.data.rows[o.table] /\ o.rows # EmptyBatch

LEMMA PursuesApproval ==
  ASSUME TypeOK, Authority, Serial, Approval, NEW r \in Request, Alone(r),
         req[r].at # "idle", NEW e, Pursues(r, e),
         \A p \in PlanId : SamePlan(p), UNCHANGED <<rowsCache, restarts>>
  PROVE  Approval'
  <1> DEFINE s == req[r]
             p == s.plan
  <1>1. p \in PlanId
    BY DEF TypeOK, InPlace
  <1>2. /\ Agreed(disk[p], history[p]) /\ Working(s, disk[p], history[p], rowsCache, restarts)
        /\ history[p].previewed <= restarts
        /\ \A t \in Table : t \notin disk[p].targets => rowsCache[<<p, t>>] = EmptyBatch
    BY <1>1 DEF Approval
  <1>3. ~Showing(s) =>
          \A t \in Table : rowsCache[<<p, t>>] = Cached(disk[p], history[p], restarts, t)
    <2>1. \A q \in Request : q # r => ~Showing(req[q])
      BY DEF Alone, Showing
    <2> QED
      BY <1>1, <2>1 DEF Approval
  <1>4. Agreed(disk'[p], history'[p])
    BY <1>1, <1>2 DEF SamePlan, Agreed
  <1>5. SamePlan(p)
    BY <1>1
  <1>6. ASSUME e.at # "idle" PROVE Working(e, disk'[p], history'[p], rowsCache', restarts)
    <2>1. /\ e.at # "cache_rows" /\ e.plan = p /\ e.op = s.op /\ e.goal = s.goal /\ e.run = s.run
      BY <1>6 DEF Pursues
    <2>2. ASSUME Showing(e)
          PROVE  /\ e.at \notin BeforeGate /\ e.todo \subseteq disk[p].targets
                 /\ \A t \in Table : /\ e.data.rows[t] = EmptyBatch <=> t \notin disk[p].targets
                                     /\ rowsCache[<<p, t>>] = e.data.rows[t]
                 /\ e.at \in {"dispatch", "record"} => e.table \in disk[p].targets
      <3>1. /\ Showing(s) /\ s.at # "cache_rows" /\ e.data.rows = s.data.rows
            /\ e.at \in BeforeGate => s.at \in BeforeGate
            /\ e.todo \subseteq s.todo
            /\ e.at \in {"dispatch", "record"} =>
                 e.table \in s.todo \/ (s.at \in {"dispatch", "record"} /\ e.table = s.table)
        BY <2>2 DEF Pursues
      <3> QED
        BY <1>2, <3>1 DEF Working
    <2>3. ASSUME e.op = "execute", NEW t \in Table, ~Unloaded(e, t)
          PROVE  e.data.rows[t] = Cached(disk[p], history[p], restarts, t)
      <3>1. s.op = "execute" /\ ~Showing(s)
        BY <2>1, <2>3 DEF Showing
      <3>2. Unloaded(s, t) \/ s.data.rows[t] = Cached(disk[p], history[p], restarts, t)
        BY <1>2, <3>1 DEF Working
      <3>3. \/ e.data.rows[t] = s.data.rows[t] /\ ~Unloaded(s, t)
            \/ e.data.rows[t] = rowsCache[<<p, t>>]
        BY <1>6, <2>3 DEF Pursues
      <3> QED
        BY <1>3, <3>1, <3>2, <3>3
    <2>4. e.goal = "completed" => /\ history[p].runs[e.run] = history[p].approved
                                  /\ history[p].started = restarts
      BY <1>2, <2>1 DEF Working
    <2> QED
      BY <1>5, <2>1, <2>2, <2>3, <2>4 DEF SamePlan, Working, Cached
  <1>7. ApprovedRowsOnly'
    <2>1. \A o \in outputs' \ outputs : /\ history[o.plan].runs[o.run] # None
                                        /\ o.rows = history[o.plan].runs[o.run].rows[o.table]
      <3> SUFFICES ASSUME NEW o \in outputs' \ outputs
                   PROVE  /\ history[o.plan].runs[o.run] # None
                          /\ o.rows = history[o.plan].runs[o.run].rows[o.table]
        OBVIOUS
      <3>1. /\ s.goal = "completed" /\ o.plan = p /\ o.run = s.run
            /\ o.table \in Table /\ o.rows = s.data.rows[o.table] /\ o.rows # EmptyBatch
        BY DEF Pursues
      <3> QED
        BY <3>1, WorkApproved
    <2>2. \A o \in outputs' \ outputs : o.plan = p
      BY DEF Pursues
    <2>3. \A q \in PlanId : history'[q].runs = history[q].runs
      BY DEF SamePlan
    <2>4. \A o \in outputs' \ outputs : /\ history'[o.plan].runs[o.run] # None
                                        /\ o.rows = history'[o.plan].runs[o.run].rows[o.table]
      BY <1>1, <2>1, <2>2, <2>3
    <2>5. ApprovedRowsOnly
      BY DEF Approval
    <2> QED
      BY <2>3, <2>4, <2>5, OutputsApproved
  <1>8. req' = [req EXCEPT ![r] = e] /\ (Showing(s) => Showing(e))
        /\ (e.at # "idle" => e.plan = p)
    BY DEF Pursues
  <1>9. \A t \in Table : t \notin disk'[p].targets => rowsCache'[<<p, t>>] = EmptyBatch
    BY <1>2, <1>5 DEF SamePlan
  <1>10. \/ Showing(e)
         \/ \A t \in Table : rowsCache'[<<p, t>>] = Cached(disk'[p], history'[p], restarts, t)
    BY <1>3, <1>5, <1>8 DEF SamePlan, Cached
  <1>11. \A q \in PlanId : \A t \in Table : rowsCache'[<<q, t>>] = rowsCache[<<q, t>>]
    OBVIOUS
  <1>12. history'[p].previewed <= restarts
    BY <1>2, <1>5 DEF SamePlan
  <1> QED
    BY <1>1, <1>4, <1>6, <1>7, <1>8, <1>9, <1>10, <1>11, <1>12, StepApproval

\* A request that stops, and has no preview to store.
LEMMA StopPursues ==
  ASSUME NEW r \in Request, ~Showing(req[r]), req' = [req EXCEPT ![r] = Idle], UNCHANGED outputs
  PROVE  Pursues(r, Idle)
  BY IdleUnstarted DEF Pursues, Showing

LEMMA ExecutionNotShowing ==
  ASSUME Authority, Approval, NEW r \in Request,
         req[r].at \in BeforeGate \cup {"cache_policy", "work", "sql_gate", "sql_apply"}
  PROVE  ~Showing(req[r])
  <1>1. req[r].at # "idle"
    BY DEF BeforeGate
  <1>2. /\ Licensed(req[r], history[req[r].plan])
        /\ Working(req[r], disk[req[r].plan], history[req[r].plan], rowsCache, restarts)
    BY <1>1 DEF Authority, Approval
  <1>3. CASE req[r].at \in BeforeGate
    BY <1>2, <1>3 DEF Working
  <1>4. CASE req[r].at \in {"work", "sql_gate", "sql_apply"}
    BY <1>2, <1>4 DEF Licensed, Showing
  <1>5. CASE req[r].at = "cache_policy"
    BY <1>5 DEF Showing
  <1> QED
    BY <1>3, <1>4, <1>5

LEMMA LoopPursues ==
  ASSUME TypeOK, Authority, NEW r \in Request,
         NextTable(r) \/ DispatchSubagent(r) \/ UpdateStatusRead(r)
  PROVE  \E e : Pursues(r, e)
  <1> DEFINE s == req[r]
             Kept(e) == /\ e.op = s.op /\ e.plan = s.plan /\ e.goal = s.goal /\ e.run = s.run
                        /\ e.data = s.data
  <1>1. /\ s \in RequestState /\ s.plan \in PlanId /\ s.todo \in SUBSET Table /\ s.acts \in Seq(Action)
    BY DEF TypeOK, InPlace, RequestState, NextTable, DispatchSubagent, UpdateStatusRead
  <1>2. CASE NextTable(r)
    <2> DEFINE acts == IF s.op = "execute" THEN ExecuteActions ELSE PreviewActions(s.data)
               end == [s EXCEPT !.at = "status_read"]
               enter(t) == [s EXCEPT !.at = DispatchStep(acts), !.table = t,
                                     !.todo = @ \ {t}, !.acts = acts]
    <2>1. /\ UNCHANGED outputs /\ s.at = "next_table"
          /\ \/ req' = [req EXCEPT ![r] = end]
             \/ \E t \in s.todo : req' = [req EXCEPT ![r] = enter(t)]
      BY <1>2 DEF NextTable
    <2>2. CASE req' = [req EXCEPT ![r] = end]
      <3>1. end.at = "status_read" /\ Kept(end) /\ end.todo = s.todo
        BY <1>1 DEF RequestState
      <3> HIDE DEF end
      <3> QED
        BY <2>1, <2>2, <3>1 DEF Pursues, Unloaded, Showing, BeforeGate
    <2>3. CASE \E t \in s.todo : req' = [req EXCEPT ![r] = enter(t)]
      <3>1. PICK t \in s.todo : req' = [req EXCEPT ![r] = enter(t)]
        BY <2>3
      <3> DEFINE e == enter(t)
      <3>2. DispatchStep(acts) \in {"dispatch", "sql_gate"}
        BY DEF DispatchStep
      <3> HIDE DEF acts
      <3>3. e.at = DispatchStep(acts) /\ Kept(e) /\ e.todo = s.todo \ {t} /\ e.table = t
        BY <1>1 DEF RequestState
      <3>4. req' = [req EXCEPT ![r] = e]
        BY <3>1
      <3> HIDE DEF e
      <3> QED
        BY <2>1, <3>2, <3>3, <3>4 DEF Pursues, Unloaded, Showing, BeforeGate
    <2> QED
      BY <2>1, <2>2, <2>3
  <1>3. CASE DispatchSubagent(r)
    <2> DEFINE e == [s EXCEPT !.at = "record", !.buf = disk[s.plan]]
    <2>1. /\ s.at = "dispatch" /\ s.acts # <<>> /\ s.table \in Table
          /\ req' = [req EXCEPT ![r] = e]
      BY <1>3 DEF DispatchSubagent, TypeOK, InPlace
    <2>2. e.at = "record" /\ Kept(e) /\ e.todo = s.todo /\ e.table = s.table
      BY <1>1 DEF RequestState
    <2>3. ASSUME NEW o \in outputs' \ outputs
          PROVE  /\ s.goal = "completed" /\ o.plan = s.plan /\ o.run = s.run
                 /\ o.table \in Table /\ o.rows = s.data.rows[o.table] /\ o.rows # EmptyBatch
      <3>1. /\ Head(s.acts) = "generate_sql" /\ o = Output(s, s.table, "script")
            /\ s.data.rows[s.table] # EmptyBatch
        BY <1>3, <2>3 DEF DispatchSubagent
      <3>2. Licensed(s, history[s.plan])
        BY <2>1 DEF Authority
      <3>3. s.op # "preview"
        BY <2>1, <3>1, <3>2, HeadTool DEF Licensed, PreviewTool
      <3>4. s.goal = "completed"
        BY <2>1, <3>2, <3>3 DEF Licensed
      <3> QED
        BY <2>1, <3>1, <3>4 DEF Output
    <2> HIDE DEF e
    <2> QED
      BY <2>1, <2>2, <2>3 DEF Pursues, Unloaded, Showing, BeforeGate
  <1>4. CASE UpdateStatusRead(r)
    <2> DEFINE e == [s EXCEPT !.at = "status_write", !.buf = disk[s.plan]]
    <2>1. req' = [req EXCEPT ![r] = e] /\ UNCHANGED outputs /\ s.at = "status_read"
      BY <1>4 DEF UpdateStatusRead
    <2>2. e.at = "status_write" /\ Kept(e) /\ e.todo = s.todo
      BY <1>1 DEF RequestState
    <2> HIDE DEF e
    <2> QED
      BY <2>1, <2>2 DEF Pursues, Unloaded, Showing, BeforeGate
  <1> QED
    BY <1>2, <1>3, <1>4

\* A preview of rows does not raise in profile_file.
LEMMA RecordPursues ==
  ASSUME TypeOK, Approval, NEW r \in Request, RecordSubtask(r) PROVE \E e : Pursues(r, e)
  <1> DEFINE s == req[r]
             e == AfterRecord(s)
             Kept(d) == /\ d.op = s.op /\ d.plan = s.plan /\ d.goal = s.goal /\ d.run = s.run
                        /\ d.data = s.data /\ d.todo = s.todo
  <1>1. /\ s \in RequestState /\ s.at = "record" /\ req' = [req EXCEPT ![r] = e] /\ UNCHANGED outputs
        /\ s.plan \in PlanId /\ s.table \in Table
    BY DEF TypeOK, InPlace, RecordSubtask
  <1>2. CASE Raises(s)
    <2>1. Working(s, disk[s.plan], history[s.plan], rowsCache, restarts)
      BY <1>1 DEF Approval
    <2>2. s.data.rows[s.table] = EmptyBatch
      BY <1>2 DEF Raises
    <2>3. ~Showing(s)
      BY <1>1, <2>1, <2>2 DEF Working
    <2> QED
      BY <1>1, <1>2, <2>3, StopPursues DEF AfterRecord
  <1>3. CASE ~Raises(s) /\ Len(s.acts) = 1
    <2> DEFINE d == [s EXCEPT !.at = "next_table", !.table = NoTable, !.acts = <<>>, !.buf = NoPlan]
    <2>1. e = d
      BY <1>3 DEF AfterRecord
    <2>2. d.at = "next_table" /\ Kept(d)
      BY <1>1 DEF RequestState
    <2> HIDE DEF d, e
    <2> QED
      BY <1>1, <2>1, <2>2 DEF Pursues, Unloaded, Showing, BeforeGate
  <1>4. CASE ~Raises(s) /\ Len(s.acts) # 1
    <2> DEFINE next == DispatchStep(Tail(s.acts))
               rest == Tail(s.acts)
               d == [s EXCEPT !.at = next, !.acts = rest, !.buf = NoPlan]
    <2>1. e = d
      BY <1>4 DEF AfterRecord
    <2>2. next \in {"dispatch", "sql_gate"}
      BY DEF DispatchStep
    <2> HIDE DEF next, rest
    <2>3. d.at = next /\ Kept(d) /\ d.table = s.table
      BY <1>1 DEF RequestState
    <2> HIDE DEF d, e
    <2> QED
      BY <1>1, <2>1, <2>2, <2>3 DEF Pursues, Unloaded, Showing, BeforeGate
  <1> QED
    BY <1>2, <1>3, <1>4

LEMMA PolicyPursues ==
  ASSUME TypeOK, NEW r \in Request, CachePolicy(r) PROVE \E e : Pursues(r, e)
  <1> DEFINE s == req[r]
  <1>1. s \in RequestState /\ s.at = "cache_policy" /\ UNCHANGED outputs
    BY DEF TypeOK, CachePolicy
  <1>2. PICK t \in s.todo :
          req' = [req EXCEPT ![r] = IF s.todo = {t} THEN Idle ELSE [s EXCEPT !.todo = @ \ {t}]]
    BY DEF CachePolicy
  <1> DEFINE e == [s EXCEPT !.todo = @ \ {t}]
  <1>3. /\ e.at = s.at /\ e.op = s.op /\ e.plan = s.plan /\ e.goal = s.goal /\ e.run = s.run
        /\ e.data = s.data
    BY <1>1 DEF RequestState
  <1>4. CASE s.todo = {t}
    BY <1>1, <1>2, <1>4, StopPursues DEF Showing
  <1>5. CASE s.todo # {t}
    <2>1. req' = [req EXCEPT ![r] = e]
      BY <1>2, <1>5
    <2> HIDE DEF e
    <2> QED
      BY <1>1, <1>3, <2>1 DEF Pursues, Unloaded, Showing
  <1> QED
    BY <1>4, <1>5

LEMMA ExecutePursues ==
  ASSUME TypeOK, Authority, Approval, NEW r \in Request,
         LoadRows(r) \/ LoadPolicy(r) \/ Gate(r) \/ Work(r) \/ ExecuteSqlGate(r) \/ ApplyStatements(r)
  PROVE  \E e : Pursues(r, e)
  <1> DEFINE s == req[r]
             Kept(e) == /\ e.op = s.op /\ e.plan = s.plan /\ e.goal = s.goal /\ e.run = s.run
                        /\ e.data.rows = s.data.rows
  <1>1. /\ s \in RequestState /\ s.at # "idle" /\ s.data \in Dataset
        /\ s.at \in BeforeGate \cup {"work", "sql_gate", "sql_apply"}
    BY DEF TypeOK, RequestState, BeforeGate, LoadRows, LoadPolicy, Gate, Work, ExecuteSqlGate,
           ApplyStatements
  <1>2. ~Showing(s) /\ Licensed(s, history[s.plan])
    BY <1>1, ExecutionNotShowing DEF Authority
  <1>3. s.op # "preview"
    BY <1>1, <1>2 DEF Showing, BeforeGate
  \* A step that keeps its rows and produces nothing.
  <1>4. ASSUME NEW e, req' = [req EXCEPT ![r] = e], Kept(e), e.at # "cache_rows", UNCHANGED outputs,
               \A t \in Table : Unloaded(s, t) => Unloaded(e, t)
        PROVE  Pursues(r, e)
    BY <1>2, <1>3, <1>4 DEF Pursues, Showing
  <1>5. CASE LoadRows(r)
    <2>1. PICK t \in s.todo : req' = [req EXCEPT ![r] =
            [s EXCEPT !.at = "load_policy", !.table = t, !.data.rows[t] = rowsCache[<<s.plan, t>>]]]
      BY <1>5 DEF LoadRows
    <2> DEFINE e == [s EXCEPT !.at = "load_policy", !.table = t, !.data.rows[t] = rowsCache[<<s.plan, t>>]]
    <2>2. UNCHANGED outputs /\ req' = [req EXCEPT ![r] = e] /\ s.at \in BeforeGate
      BY <1>5, <2>1 DEF LoadRows, BeforeGate
    <2>3. /\ e.at = "load_policy" /\ e.op = s.op /\ e.plan = s.plan /\ e.goal = s.goal
          /\ e.run = s.run
      BY <1>1 DEF RequestState
    <2>4. /\ e.data.rows = [s.data.rows EXCEPT ![t] = rowsCache[<<s.plan, t>>]]
          /\ s.data.rows \in [Table -> Batch]
      BY <1>1 DEF RequestState, Dataset
    <2>5. e.todo = s.todo /\ e.table = t
      BY <1>1 DEF RequestState
    <2> HIDE DEF e
    <2>6. \A u \in Table : \/ Unloaded(e, u)
                           \/ e.data.rows[u] = s.data.rows[u] /\ ~Unloaded(s, u)
                           \/ e.data.rows[u] = rowsCache[<<s.plan, u>>]
      <3>1. ASSUME NEW u \in Table, u = t PROVE e.data.rows[u] = rowsCache[<<s.plan, u>>]
        BY <2>4, <3>1
      <3>2. ASSUME NEW u \in Table, u # t
            PROVE  e.data.rows[u] = s.data.rows[u] /\ (Unloaded(s, u) => Unloaded(e, u))
        <4>1. e.data.rows[u] = s.data.rows[u]
          BY <2>4, <3>2
        <4>2. ASSUME Unloaded(s, u) PROVE Unloaded(e, u)
          <5>1. u \in s.todo
            BY <4>2 DEF Unloaded
          <5>2. e.at = "load_policy" /\ u \in e.todo /\ u # e.table
            BY <2>3, <2>5, <3>2, <5>1
          <5> QED
            BY <5>2 DEF Unloaded
        <4> QED
          BY <4>1, <4>2
      <3> QED
        BY <3>1, <3>2
    <2> QED
      BY <1>2, <1>3, <2>2, <2>3, <2>6 DEF Pursues, Showing
  <1>6. CASE LoadPolicy(r)
    <2> DEFINE at == IF s.todo = {s.table} THEN "gate" ELSE "load_rows"
               todo == s.todo \ {s.table}
               d == [s.data EXCEPT !.masked = IF <<s.plan, s.table>> \in policyCache
                                              THEN @ \cup {s.table} ELSE @]
               e == [s EXCEPT !.at = at, !.table = NoTable, !.todo = todo, !.data = d]
    <2>1. UNCHANGED outputs /\ req' = [req EXCEPT ![r] = e]
      BY <1>6 DEF LoadPolicy
    <2>2. at # "cache_rows" /\ d.rows = s.data.rows
      BY <1>1 DEF Dataset
    <2>3. at = IF s.todo = {s.table} THEN "gate" ELSE "load_rows"
      OBVIOUS
    <2>4. todo = s.todo \ {s.table} /\ s.at = "load_policy"
      BY <1>6 DEF LoadPolicy
    <2> HIDE DEF at, todo, d
    <2>5. e.at = at /\ Kept(e) /\ e.todo = todo
      BY <1>1, <2>2 DEF RequestState
    <2> HIDE DEF e
    <2>6. ASSUME NEW t \in Table, Unloaded(s, t) PROVE Unloaded(e, t)
      <3>1. t \in s.todo /\ t # s.table
        BY <2>4, <2>6 DEF Unloaded
      <3>2. t \in e.todo
        BY <2>4, <2>5, <3>1
      <3>3. e.at = "load_rows"
        BY <2>3, <2>5, <3>1
      <3> QED
        BY <3>2, <3>3 DEF Unloaded
    <2> QED
      BY <1>4, <2>1, <2>2, <2>5, <2>6
  <1>7. CASE Gate(r)
    <2> DEFINE on == [s EXCEPT !.at = "status_read"]
    <2>1. /\ UNCHANGED outputs /\ s.at = "gate"
          /\ req' = [req EXCEPT ![r] = IF MayExecute(disk[s.plan]) THEN on ELSE Idle]
      BY <1>7 DEF Gate
    <2>2. on.at = "status_read" /\ Kept(on)
      BY <1>1 DEF RequestState
    <2> HIDE DEF on
    <2>3. CASE MayExecute(disk[s.plan])
      BY <1>4, <2>1, <2>2, <2>3 DEF Unloaded
    <2>4. CASE ~MayExecute(disk[s.plan])
      BY <1>2, <2>1, <2>4, StopPursues
    <2> QED
      BY <2>3, <2>4
  <1>8. CASE Work(r)
    <2> DEFINE masking == disk[s.plan].intent = "mask"
               d == [s.data EXCEPT !.masked = IF masking THEN s.todo ELSE {}]
               ready == [s EXCEPT !.at = "status_read", !.todo = {}, !.data = d]
               W == {t \in s.todo : masking /\ s.data.rows[t] # EmptyBatch}
    <2>1. /\ s.at = "work" /\ req' = [req EXCEPT ![r] = IF s.todo = {} THEN Idle ELSE ready]
          /\ outputs' = outputs \cup {Output(ready, t, "csv") : t \in W}
      BY <1>8 DEF Work
    <2>2. W \subseteq s.todo /\ s.todo \subseteq Table /\ d.rows = s.data.rows
          /\ \A t \in W : s.data.rows[t] # EmptyBatch
      BY <1>1 DEF RequestState, Dataset
    <2> HIDE DEF d, W
    <2>3. ready.at = "status_read" /\ Kept(ready)
      BY <1>1, <2>2 DEF RequestState
    <2> HIDE DEF ready
    <2>4. s.goal = "completed"
      BY <1>2, <2>1 DEF Licensed
    <2>5. CASE s.todo = {}
      <3>1. UNCHANGED outputs
        BY <2>1, <2>2, <2>5
      <3> QED
        BY <1>2, <2>1, <2>5, <3>1, StopPursues
    <2>6. CASE s.todo # {}
      <3>1. ASSUME NEW o \in outputs' \ outputs
            PROVE  /\ s.goal = "completed" /\ o.plan = s.plan /\ o.run = s.run
                   /\ o.table \in Table /\ o.rows = s.data.rows[o.table] /\ o.rows # EmptyBatch
        <4>1. PICK t \in W : o = Output(ready, t, "csv")
          BY <2>1
        <4>2. o.plan = s.plan /\ o.run = s.run /\ o.table = t /\ o.rows = s.data.rows[t]
          BY <2>3, <4>1 DEF Output
        <4> QED
          BY <2>2, <2>4, <4>1, <4>2
      <3>2. req' = [req EXCEPT ![r] = ready]
        BY <2>1, <2>6
      <3> QED
        BY <1>2, <1>3, <2>1, <2>3, <3>1, <3>2 DEF Pursues, Showing, Unloaded
    <2> QED
      BY <2>5, <2>6
  <1>9. CASE ExecuteSqlGate(r)
    <2> DEFINE on == [s EXCEPT !.at = "sql_apply"]
    <2>1. /\ UNCHANGED outputs /\ s.at = "sql_gate"
          /\ req' = [req EXCEPT ![r] = IF MayWrite(disk[s.plan]) THEN on ELSE Idle]
      BY <1>9 DEF ExecuteSqlGate
    <2>2. on.at = "sql_apply" /\ Kept(on)
      BY <1>1 DEF RequestState
    <2> HIDE DEF on
    <2>3. CASE MayWrite(disk[s.plan])
      BY <1>4, <2>1, <2>2, <2>3 DEF Unloaded
    <2>4. CASE ~MayWrite(disk[s.plan])
      BY <1>2, <2>1, <2>4, StopPursues
    <2> QED
      BY <2>3, <2>4
  <1>10. CASE ApplyStatements(r)
    <2> DEFINE e == [s EXCEPT !.at = "dispatch"]
    <2>1. /\ s.at = "sql_apply" /\ s.table \in Table /\ req' = [req EXCEPT ![r] = e]
          /\ \A o \in outputs' \ outputs : /\ o = Output(s, s.table, "database")
                                           /\ s.data.rows[s.table] # EmptyBatch
      BY <1>10 DEF ApplyStatements, TypeOK, InPlace
    <2>2. e.at = "dispatch" /\ Kept(e)
      BY <1>1 DEF RequestState
    <2>3. s.goal = "completed"
      BY <1>2, <2>1 DEF Licensed
    <2>4. \A o \in outputs' \ outputs :
            /\ o.plan = s.plan /\ o.run = s.run /\ o.table = s.table
            /\ o.rows = s.data.rows[s.table]
      BY <2>1 DEF Output
    <2> HIDE DEF e
    <2> QED
      BY <1>2, <1>3, <2>1, <2>2, <2>3, <2>4 DEF Pursues, Showing, Unloaded
  <1> QED
    BY <1>5, <1>6, <1>7, <1>8, <1>9, <1>10

LEMMA RecordSame ==
  ASSUME TypeOK, Serial, NEW r \in Request, RecordSubtask(r), NEW p \in PlanId
  PROVE  SamePlan(p)
  <1> DEFINE s == req[r]
             plan == disk[s.plan]
             h == history[s.plan]
             k == Dispatched(h, s)
  <1>1. /\ s \in RequestState /\ s.plan \in PlanId /\ s.at = "record" /\ Fits(s, plan)
        /\ plan \in PlanRecord /\ h \in HistoryRecord
    BY DEF TypeOK, InPlace, RecordSubtask, Serial
  <1>2. WithSubtask(r) = [plan EXCEPT !.subtasks = plan.subtasks + 1]
    BY <1>1 DEF Fits, WithSubtask
  <1>3. /\ WithSubtask(r).status = plan.status /\ WithSubtask(r).targets = plan.targets
        /\ WithSubtask(r).preview = plan.preview /\ WithSubtask(r).result = plan.result
    BY <1>1, <1>2 DEF PlanRecord
  <1>4. /\ k.runs = h.runs /\ k.approved = h.approved
        /\ k.previewed = h.previewed /\ k.started = h.started
    BY <1>1, DispatchedType
  <1>5. /\ disk' = [disk EXCEPT ![s.plan] = WithSubtask(r)]
        /\ history' = [history EXCEPT ![s.plan] = k]
    BY DEF RecordSubtask
  <1> HIDE DEF k
  <1>6. /\ disk'[p] = IF p = s.plan THEN WithSubtask(r) ELSE disk[p]
        /\ history'[p] = IF p = s.plan THEN k ELSE history[p]
    BY <1>1, <1>5 DEF TypeOK
  <1> QED
    BY <1>3, <1>4, <1>6 DEF SamePlan

LEMMA CacheApproval ==
  ASSUME TypeOK, Authority, Approval, NEW r \in Request, Alone(r), CacheRows(r)
  PROVE  Approval'
  <1> DEFINE s == req[r]
             p == s.plan
             plan == disk[p]
  <1>1. /\ s \in RequestState /\ p \in PlanId /\ s.at = "cache_rows"
        /\ UNCHANGED <<disk, history, outputs, restarts>>
    BY DEF TypeOK, InPlace, CacheRows, bounds
  <1>2. /\ Working(s, plan, history[p], rowsCache, restarts) /\ Agreed(plan, history[p])
        /\ history[p].previewed <= restarts
    BY <1>1 DEF Approval
  <1>3. /\ Showing(s) /\ s.op = "preview" /\ s.todo \subseteq plan.targets
        /\ \A t \in Table : s.data.rows[t] = EmptyBatch <=> t \notin plan.targets
        /\ \A t \in Table : t \in s.todo \/ rowsCache[<<p, t>>] = s.data.rows[t]
        /\ s.goal = "completed" => /\ history[p].runs[s.run] = history[p].approved
                                   /\ history[p].started = restarts
    BY <1>1, <1>2 DEF Working, Showing
  <1>4. PICK t \in s.todo :
          /\ rowsCache' = [rowsCache EXCEPT ![<<p, t>>] = s.data.rows[t]]
          /\ req' = [req EXCEPT ![r] =
               IF s.todo # {t} THEN [s EXCEPT !.todo = @ \ {t}]
               ELSE IF FanOut(s.plan)
               THEN [s EXCEPT !.at = "next_table", !.todo = disk[s.plan].targets]
               ELSE [s EXCEPT !.at = "status_read", !.todo = {}]]
    BY DEF CacheRows
  <1>5. /\ t \in Table
        /\ \A q \in PlanId, u \in Table :
             rowsCache'[<<q, u>>] = IF q = p /\ u = t THEN s.data.rows[t] ELSE rowsCache[<<q, u>>]
    <2>1. t \in Table
      BY <1>1 DEF RequestState
    <2>2. \A q \in PlanId, u \in Table : <<q, u>> \in PlanId \X Table
      OBVIOUS
    <2>3. \A q \in PlanId, u \in Table : <<q, u>> = <<p, t>> <=> q = p /\ u = t
      OBVIOUS
    <2> QED
      BY <1>4, <2>1, <2>2, <2>3 DEF TypeOK
  <1>6. PICK at \in {"cache_rows", "next_table", "status_read"} : \E T \in SUBSET plan.targets :
          /\ req' = [req EXCEPT ![r] = [s EXCEPT !.at = at, !.todo = T]]
          /\ IF at = "cache_rows" THEN T = s.todo \ {t} ELSE s.todo = {t}
    <2>1. CASE s.todo # {t}
      <3>1. [s EXCEPT !.todo = @ \ {t}] = [s EXCEPT !.at = "cache_rows", !.todo = s.todo \ {t}]
        BY <1>1 DEF RequestState
      <3> QED
        BY <1>3, <1>4, <2>1, <3>1
    <2>2. CASE s.todo = {t} /\ FanOut(s.plan)
      BY <1>4, <2>2
    <2>3. CASE s.todo = {t} /\ ~FanOut(s.plan)
      BY <1>4, <2>3
    <2> QED
      BY <2>1, <2>2, <2>3
  <1>7. PICK T \in SUBSET plan.targets :
          /\ req' = [req EXCEPT ![r] = [s EXCEPT !.at = at, !.todo = T]]
          /\ IF at = "cache_rows" THEN T = s.todo \ {t} ELSE s.todo = {t}
    BY <1>6
  <1> DEFINE e == [s EXCEPT !.at = at, !.todo = T]
  <1>8. /\ e.at = at /\ e.todo = T /\ e.op = s.op /\ e.plan = p /\ e.goal = s.goal /\ e.run = s.run
        /\ e.data = s.data
    BY <1>1 DEF RequestState
  <1>9. req' = [req EXCEPT ![r] = e]
    BY <1>7
  <1> HIDE DEF e
  <1>10. Working(e, plan, history[p], rowsCache', restarts)
    <2>1. \A u \in Table : (e.at = "cache_rows" /\ u \in e.todo) \/ rowsCache'[<<p, u>>] = e.data.rows[u]
      BY <1>1, <1>3, <1>5, <1>7, <1>8
    <2>2. e.op = "preview" /\ e.at \notin BeforeGate /\ e.at \notin {"dispatch", "record"}
      BY <1>3, <1>8 DEF BeforeGate
    <2> QED
      BY <1>3, <1>8, <2>1, <2>2 DEF Working
  <1>11. Showing(e)
    BY <1>3, <1>8 DEF Showing
  <1>12. \A u \in Table : u \notin plan.targets => rowsCache'[<<p, u>>] = EmptyBatch
    <2>1. \A u \in Table : u \notin plan.targets => rowsCache[<<p, u>>] = EmptyBatch
      BY <1>1 DEF Approval
    <2> QED
      BY <1>1, <1>3, <1>5, <2>1
  <1>13. ApprovedRowsOnly'
    BY <1>1 DEF Approval, ApprovedRowsOnly
  <1>14. \A q \in PlanId : q # p =>
           SamePlan(q) /\ \A u \in Table : rowsCache'[<<q, u>>] = rowsCache[<<q, u>>]
    BY <1>1, <1>5 DEF SamePlan
  <1>15. disk'[p] = plan /\ history'[p] = history[p]
    BY <1>1
  <1> QED
    BY <1>1, <1>2, <1>8, <1>9, <1>10, <1>11, <1>12, <1>13, <1>14, <1>15, StepApproval

\* What update_status() writes agrees with what was approved.
LEMMA UpdateAgreed ==
  ASSUME NEW s \in RequestState, NEW plan \in PlanRecord, NEW h \in HistoryRecord,
         s.at = "status_write", Fits(s, plan), Agreed(plan, h), NEW cache,
         Working(s, plan, h, cache, restarts)
  PROVE  /\ Agreed(Updated(s), Recorded(h, s))
         /\ Updated(s).targets = plan.targets
         /\ Updated(s).preview = IF s.op = "preview" THEN s.data ELSE plan.preview
         /\ \A n \in 1 .. Len(h.runs) : Recorded(h, s).runs[n] = h.runs[n]
         /\ s.goal = "executing" =>
              /\ Recorded(h, s).runs[Len(h.runs) + 1] = Recorded(h, s).approved
              /\ Recorded(h, s).started = restarts
         /\ Recorded(h, s).previewed = IF s.op = "preview" THEN restarts ELSE h.previewed
  <1> DEFINE k == Recorded(h, s)
             u == Updated(s)
  <1>1. /\ s.buf = plan
        /\ s.op = "preview" => s.goal = "awaiting_confirmation"
        /\ s.op = "confirm" => s.goal \in {"confirmed", "rejected"}
        /\ s.op = "execute" => s.goal \in {"executing", "completed"}
        /\ s.op \in {"preview", "confirm", "execute"}
        /\ s.goal = "executing" => plan.status = "confirmed"
        /\ s.goal = "completed" => plan.status = "executing"
    BY DEF Fits, BeforeGate, RequestState
  <1>2. /\ u.status = s.goal /\ u.targets = plan.targets
        /\ u.preview = IF s.op = "preview" THEN s.data ELSE plan.preview
        /\ s.goal = "completed" => u.result = s.data
    BY <1>1 DEF Updated, PlanRecord
  <1>3. /\ Len(h.runs) \in Nat /\ h.runs \in Seq(Dataset \cup {None})
        /\ h.approved \in Dataset \cup {None}
    BY LenProperties DEF HistoryRecord
  <1>4. /\ s.goal = "confirmed" => k.approved = plan.preview /\ k.runs = h.runs
        /\ s.goal = "executing" => /\ k.approved = h.approved /\ k.runs = Append(h.runs, h.approved)
                                   /\ k.started = restarts
        /\ s.goal = "awaiting_confirmation" => k.runs = h.runs
        /\ s.goal \notin {"confirmed", "executing", "awaiting_confirmation"} => k = h
        /\ k.previewed = IF s.goal = "awaiting_confirmation" THEN restarts ELSE h.previewed
    <2>1. CASE s.goal = "confirmed"
      <3> DEFINE c == h.confirms + 1
                 v == plan.preview
      <3>1. k = [h EXCEPT !.confirms = c, !.approved = v]
        BY <1>1, <2>1 DEF Recorded
      <3> HIDE DEF c, v
      <3>2. k.approved = v /\ k.runs = h.runs /\ k.previewed = h.previewed
        BY <3>1 DEF HistoryRecord
      <3> QED
        BY <2>1, <3>2 DEF v
    <2>2. CASE s.goal = "executing"
      <3> DEFINE a == Append(h.runs, h.approved)
      <3>1. k = [h EXCEPT !.runs = a, !.started = restarts]
        BY <2>2 DEF Recorded
      <3> HIDE DEF a
      <3>2. /\ k.approved = h.approved /\ k.runs = a /\ k.started = restarts
            /\ k.previewed = h.previewed
        BY <3>1 DEF HistoryRecord
      <3> QED
        BY <2>2, <3>2 DEF a
    <2>3. CASE s.goal = "awaiting_confirmation"
      <3>1. k = [h EXCEPT !.previewed = restarts]
        BY <2>3 DEF Recorded
      <3>2. k.runs = h.runs /\ k.previewed = restarts
        BY <3>1 DEF HistoryRecord
      <3> QED
        BY <2>3, <3>2
    <2>4. CASE s.goal \notin {"confirmed", "executing", "awaiting_confirmation"}
      BY <2>4 DEF Recorded
    <2> QED
      BY <2>1, <2>2, <2>3, <2>4
  <1>5. /\ \A n \in 1 .. Len(h.runs) : Append(h.runs, h.approved)[n] = h.runs[n]
        /\ Append(h.runs, h.approved)[Len(h.runs) + 1] = h.approved
    BY <1>3, AppendProperties
  <1> HIDE DEF k, u
  <1>6. Agreed(u, k)
    <2>1. CASE s.goal = "completed"
      <3>1. s.op = "execute" /\ k = h /\ h.approved = plan.preview
        BY <1>1, <1>4, <2>1 DEF Agreed
      <3>2. /\ \A t \in Table : s.data.rows[t] = Cached(plan, h, restarts, t)
            /\ h.started = restarts
        BY <2>1, <3>1 DEF Working, Unloaded
      <3> QED
        BY <1>2, <2>1, <3>1, <3>2 DEF Agreed, Cached
    <2>2. CASE s.goal = "executing"
      <3>1. s.op = "execute" /\ h.approved = plan.preview
        BY <1>1, <2>2 DEF Agreed
      <3> QED
        BY <1>2, <1>4, <2>2, <3>1 DEF Agreed
    <2>3. CASE s.goal = "confirmed"
      <3>1. s.op = "confirm"
        BY <1>1, <2>3
      <3> QED
        BY <1>2, <1>4, <2>3, <3>1 DEF Agreed
    <2>4. CASE s.goal \notin {"completed", "executing", "confirmed"}
      <3>1. s.goal \in {"awaiting_confirmation", "rejected"}
        BY <1>1, <2>4
      <3> QED
        BY <1>2, <3>1 DEF Agreed
    <2> QED
      BY <2>1, <2>2, <2>3, <2>4
  <1>7. \A n \in 1 .. Len(h.runs) : k.runs[n] = h.runs[n]
    BY <1>4, <1>5
  <1>8. s.goal = "executing" => k.runs[Len(h.runs) + 1] = k.approved /\ k.started = restarts
    BY <1>4, <1>5
  <1>9. k.previewed = IF s.op = "preview" THEN restarts ELSE h.previewed
    BY <1>1, <1>4
  <1> QED
    BY <1>2, <1>6, <1>7, <1>8, <1>9 DEF k, u

LEMMA UpdateApproval ==
  ASSUME TypeOK, Authority, Serial, Approval, NEW r \in Request, Alone(r), UpdateStatusWrite(r)
  PROVE  Approval'
  <1> DEFINE s == req[r]
             p == s.plan
             plan == disk[p]
             h == history[p]
             k == Recorded(h, s)
             u == Updated(s)
             e == AfterUpdate(s)
  <1>1. /\ s \in RequestState /\ p \in PlanId /\ s.at = "status_write" /\ plan \in PlanRecord
        /\ h \in HistoryRecord /\ UNCHANGED <<rowsCache, outputs, restarts>> /\ s.data \in Dataset
        /\ restarts \in Nat
    BY DEF TypeOK, InPlace, RequestState, UpdateStatusWrite, caches, bounds
  <1>2. /\ Fits(s, plan) /\ Agreed(plan, h) /\ Working(s, plan, h, rowsCache, restarts)
        /\ h.previewed <= restarts
    BY <1>1 DEF Serial, Approval
  <1>3. /\ Agreed(u, k) /\ u.targets = plan.targets
        /\ u.preview = IF s.op = "preview" THEN s.data ELSE plan.preview
        /\ \A n \in 1 .. Len(h.runs) : k.runs[n] = h.runs[n]
        /\ s.goal = "executing" => k.runs[Len(h.runs) + 1] = k.approved /\ k.started = restarts
        /\ k.previewed = IF s.op = "preview" THEN restarts ELSE h.previewed
    BY <1>1, <1>2, UpdateAgreed
  <1>4. e.at # "idle" =>
          /\ e.plan = p /\ e.op = s.op /\ e.data = s.data
          /\ \/ e.at = "cache_policy" /\ s.op = "preview" /\ e.goal = s.goal
             \/ /\ e.goal = "completed" /\ e.at \in {"next_table", "work"} /\ s.goal = "executing"
                /\ e.run = Len(h.runs) + 1
    <2>1. CASE s.op = "preview" /\ s.data.masked # {}
      <3> DEFINE m == s.data.masked
                 d == [s EXCEPT !.at = "cache_policy", !.todo = m, !.buf = NoPlan]
      <3>1. e = d
        BY <2>1 DEF AfterUpdate
      <3> HIDE DEF m
      <3>2. d.at = "cache_policy" /\ d.op = s.op /\ d.plan = s.plan /\ d.data = s.data /\ d.goal = s.goal
        BY <1>1 DEF RequestState
      <3> HIDE DEF d, e
      <3> QED
        BY <2>1, <3>1, <3>2
    <2>2. CASE ~(s.op = "preview" /\ s.data.masked # {}) /\ s.goal = "executing"
      <3> DEFINE at == IF s.buf.intent = "multi_table_job" THEN "next_table" ELSE "work"
                 todo == s.buf.targets
                 run == Len(h.runs) + 1
                 d == [s EXCEPT !.at = at, !.todo = todo, !.buf = NoPlan, !.goal = "completed",
                                !.run = run]
      <3>1. e = d
        BY <2>2 DEF AfterUpdate
      <3>2. at \in {"next_table", "work"}
        OBVIOUS
      <3> HIDE DEF at, todo, run
      <3>3. /\ d.at = at /\ d.op = s.op /\ d.plan = s.plan /\ d.data = s.data
            /\ d.goal = "completed" /\ d.run = run
        BY <1>1 DEF RequestState
      <3> HIDE DEF d, e
      <3> QED
        BY <2>2, <3>1, <3>2, <3>3 DEF run
    <2>3. CASE ~(s.op = "preview" /\ s.data.masked # {}) /\ s.goal # "executing"
      BY <2>3 DEF AfterUpdate, Idle
    <2> QED
      BY <2>1, <2>2, <2>3
  <1>5. /\ disk' = [disk EXCEPT ![p] = u] /\ history' = [history EXCEPT ![p] = k]
        /\ req' = [req EXCEPT ![r] = e]
    BY DEF UpdateStatusWrite
  <1> HIDE DEF e, k, u
  <1>6. \A q \in PlanId : /\ disk'[q] = IF q = p THEN u ELSE disk[q]
                          /\ history'[q] = IF q = p THEN k ELSE history[q]
    BY <1>5 DEF TypeOK
  <1>7. s.op = "execute" \/ s.goal # "executing"
    BY <1>1, <1>2 DEF Fits, RequestState
  <1>8. \A t \in Table : rowsCache[<<p, t>>] = Cached(u, k, restarts, t)
    <2>1. CASE s.op = "preview"
      <3>1. \A t \in Table : rowsCache[<<p, t>>] = s.data.rows[t]
        BY <1>1, <1>2, <2>1 DEF Working, Showing
      <3>2. u.preview = s.data /\ s.data # None
        BY <1>1, <1>3, <2>1, NoneAssumption
      <3> QED
        BY <1>3, <2>1, <3>1, <3>2 DEF Cached, RowsKept
    <2>2. CASE s.op # "preview"
      <3>1. \A q \in Request : ~Showing(req[q])
        BY <2>2 DEF Alone, Showing
      <3>2. \A t \in Table : rowsCache[<<p, t>>] = Cached(plan, h, restarts, t)
        BY <1>1, <3>1 DEF Approval
      <3> QED
        BY <1>3, <2>2, <3>2 DEF Cached
    <2> QED
      BY <2>1, <2>2
  <1>9. ASSUME e.at # "idle" PROVE Working(e, u, k, rowsCache, restarts)
    <2>1. CASE e.at = "cache_policy" /\ s.op = "preview" /\ e.goal = s.goal
      <3>1. s.goal # "completed"
        BY <1>2, <2>1 DEF Fits
      <3> QED
        BY <1>4, <1>9, <2>1, <3>1 DEF Working, Showing
    <2>2. CASE /\ e.goal = "completed" /\ e.at \in {"next_table", "work"} /\ s.goal = "executing"
               /\ e.run = Len(h.runs) + 1
      <3>1. e.op = "execute" /\ s.op = "execute" /\ e.data = s.data
        BY <1>4, <1>7, <1>9, <2>2
      <3>2. \A t \in Table : s.data.rows[t] = Cached(plan, h, restarts, t)
        BY <1>1, <1>2, <3>1 DEF Working, Unloaded
      <3>3. /\ u.preview = plan.preview /\ k.previewed = h.previewed
            /\ k.runs[e.run] = k.approved /\ k.started = restarts
        BY <1>3, <2>2, <3>1
      <3> QED
        BY <2>2, <3>1, <3>2, <3>3 DEF Working, Showing, Cached
    <2> QED
      BY <1>4, <1>9, <2>1, <2>2
  <1>10. ApprovedRowsOnly'
    <2>1. \A q \in PlanId : \A n \in 1 .. Len(history[q].runs) :
            history'[q].runs[n] = history[q].runs[n]
      BY <1>3, <1>6
    <2>2. outputs' \ outputs = {}
      BY <1>1
    <2> QED
      BY <2>1, <2>2, OutputsApproved DEF Approval
  <1>11. /\ \A t \in Table : t \notin disk'[p].targets => rowsCache'[<<p, t>>] = EmptyBatch
         /\ \A q \in PlanId : q # p =>
              SamePlan(q) /\ \A t \in Table : rowsCache'[<<q, t>>] = rowsCache[<<q, t>>]
    <2>1. \A t \in Table : t \notin plan.targets => rowsCache[<<p, t>>] = EmptyBatch
      BY <1>1 DEF Approval
    <2> QED
      BY <1>1, <1>3, <1>6, <2>1 DEF SamePlan
  <1>12. /\ disk'[p] = u /\ history'[p] = k /\ rowsCache' = rowsCache
         /\ restarts' = restarts /\ k.previewed <= restarts
    BY <1>1, <1>2, <1>3, <1>6
  <1>13. e.at # "idle" => e.plan = p
    BY <1>4
  <1>14. /\ Agreed(disk'[p], history'[p]) /\ history'[p].previewed <= restarts
         /\ \A t \in Table : rowsCache'[<<p, t>>] = Cached(disk'[p], history'[p], restarts, t)
         /\ e.at # "idle" => Working(e, disk'[p], history'[p], rowsCache', restarts)
    BY <1>3, <1>8, <1>9, <1>12
  <1> QED
    BY <1>1, <1>5, <1>10, <1>11, <1>12, <1>13, <1>14, StepApproval

\* A request begins: a preview with rows for the tables of its plan, an execution
\* with nothing loaded.
LEMMA ServeApproval ==
  ASSUME FullUploads, TypeOK, Approval, NEW r \in Request, Alone(r), Serve(r)
  PROVE  Approval'
  <1>1. PICK p \in PlanId :
          \/ \E uploaded \in Upload, mask \in BOOLEAN : PreviewPlan(r, p, uploaded, mask)
          \/ \E yes \in BOOLEAN : ConfirmPlan(r, p, yes)
          \/ ExecutePlan(r, p)
    BY DEF Serve
  <1>2. UNCHANGED <<disk, history, rowsCache, outputs, restarts>> /\ req[r].at = "idle"
    BY <1>1 DEF PreviewPlan, ConfirmPlan, ExecutePlan, caches
  <1> DEFINE plan == disk[p]
  <1>3. /\ Agreed(plan, history[p]) /\ history[p].previewed <= restarts
        /\ \A t \in Table : t \notin plan.targets => rowsCache[<<p, t>>] = EmptyBatch
        /\ \A t \in Table : rowsCache[<<p, t>>] = Cached(plan, history[p], restarts, t)
    <2>1. \A q \in Request : ~Showing(req[q])
      BY <1>2 DEF Alone, Showing
    <2> QED
      BY <2>1 DEF Approval
  <1>4. ApprovedRowsOnly'
    BY <1>2 DEF Approval, ApprovedRowsOnly
  \* It suffices that the request fits.
  <1>5. ASSUME NEW e, req' = [req EXCEPT ![r] = e], e.plan = p,
               Working(e, plan, history[p], rowsCache, restarts)
        PROVE  Approval'
    <2>1. disk' = disk /\ history' = history /\ rowsCache' = rowsCache
      BY <1>2
    <2>2. \A q \in PlanId : SamePlan(q)
      BY <2>1 DEF SamePlan
    <2> QED
      BY <1>2, <1>3, <1>4, <1>5, <2>1, <2>2, StepApproval
  <1>6. ASSUME NEW uploaded \in Upload, NEW mask \in BOOLEAN, PreviewPlan(r, p, uploaded, mask)
        PROVE  Approval'
    <2> DEFINE rows == [t \in Table |-> IF t \in disk[p].targets THEN uploaded[t] ELSE EmptyBatch]
               data == [rows |-> rows, masked |-> PreviewPolicies(disk[p], mask)]
               todo == disk[p].targets
               e == [Idle EXCEPT !.at = "cache_rows", !.op = "preview", !.plan = p,
                                 !.data = data, !.todo = todo, !.goal = "awaiting_confirmation"]
    <2>1. req' = [req EXCEPT ![r] = e]
      BY <1>6 DEF PreviewPlan
    <2>2. \A t \in Table : rows[t] = EmptyBatch <=> t \notin plan.targets
      BY InputAssumption DEF FullUploads
    <2>3. data.rows = rows
      OBVIOUS
    <2> HIDE DEF data, rows
    <2>4. /\ e.at = "cache_rows" /\ e.op = "preview" /\ e.plan = p /\ e.data = data
          /\ e.todo = plan.targets /\ e.goal = "awaiting_confirmation"
      BY DEF Idle
    <2> HIDE DEF e
    <2>5. \A t \in Table : t \in e.todo \/ rowsCache[<<e.plan, t>>] = e.data.rows[t]
      BY <1>3, <2>2, <2>3, <2>4
    <2>6. Working(e, plan, history[p], rowsCache, restarts)
      BY <2>2, <2>3, <2>4, <2>5 DEF Working, Showing, BeforeGate
    <2> QED
      BY <1>5, <2>1, <2>4, <2>6
  <1>7. ASSUME NEW yes \in BOOLEAN, ConfirmPlan(r, p, yes) PROVE Approval'
    <2> DEFINE e == [Idle EXCEPT !.at = "status_read", !.op = "confirm", !.plan = p,
                                 !.goal = Decision(yes)]
    <2>1. /\ req' = [req EXCEPT ![r] = e] /\ e.at = "status_read" /\ e.op = "confirm"
          /\ e.plan = p /\ e.goal \in {"confirmed", "rejected"}
      BY <1>7 DEF ConfirmPlan, Idle, Decision
    <2> HIDE DEF e
    <2>2. Working(e, plan, history[p], rowsCache, restarts)
      BY <2>1 DEF Working, Showing
    <2> QED
      BY <1>5, <2>1, <2>2
  <1>8. CASE ExecutePlan(r, p)
    <2> DEFINE at == IF disk[p].targets = {} THEN "gate" ELSE "load_rows"
               todo == disk[p].targets
               e == [Idle EXCEPT !.at = at, !.op = "execute", !.plan = p,
                                 !.todo = todo, !.goal = "executing"]
    <2>1. req' = [req EXCEPT ![r] = e] /\ at # "cache_rows"
      BY <1>8 DEF ExecutePlan
    <2>2. (at = "load_rows" \/ plan.targets = {}) /\ todo = plan.targets
      OBVIOUS
    <2> HIDE DEF at, todo
    <2>3. /\ e.at = at /\ e.op = "execute" /\ e.plan = p /\ e.goal = "executing" /\ e.data = NoData
          /\ e.todo = todo
      BY DEF Idle
    <2> HIDE DEF e
    <2>4. \A t \in Table : NoData.rows[t] = EmptyBatch
      BY DEF NoData
    <2>5. ASSUME NEW t \in Table, ~Unloaded(e, t)
          PROVE  e.data.rows[t] = Cached(plan, history[p], restarts, t)
      <3>1. t \notin plan.targets
        BY <2>2, <2>3, <2>5 DEF Unloaded
      <3> QED
        BY <1>3, <2>3, <2>4, <3>1
    <2>6. Working(e, plan, history[p], rowsCache, restarts)
      BY <2>1, <2>3, <2>5 DEF Working, Showing
    <2> QED
      BY <1>5, <2>1, <2>3, <2>6
  <1> QED
    BY <1>1, <1>6, <1>7, <1>8

LEMMA CreateApproval ==
  ASSUME TypeOK, Serial, Approval, NEW p \in PlanId, NEW reply \in Reply, CreatePlan(p, reply)
  PROVE  Approval'
  <1>1. /\ disk' = [disk EXCEPT ![p] = Draft(reply)] /\ disk[p].status = "absent"
        /\ UNCHANGED <<req, history, rowsCache, outputs, restarts>>
    BY DEF CreatePlan, Exists, caches
  <1>2. \A q \in PlanId : disk'[q] = IF q = p THEN Draft(reply) ELSE disk[q]
    BY <1>1 DEF TypeOK
  <1>3. /\ Draft(reply).preview = None
        /\ Draft(reply).status \in {"planning", "awaiting_confirmation"}
    <2>1. \A i, T : NewPlan(i, T).preview = None
      BY DEF NewPlan, NoPlan
    <2> HIDE DEF NewPlan
    <2> QED
      BY <2>1, DraftSettled DEF Draft
  <1>4. \A r \in Request : req[r].at # "idle" => req[r].plan \in PlanId /\ req[r].plan # p
    BY <1>1 DEF TypeOK, InPlace, Serial, Fits
  <1>5. \A t \in Table : rowsCache[<<p, t>>] = EmptyBatch
    <2>1. \A r \in Request : req[r].plan = p => ~Showing(req[r])
      BY <1>4 DEF Showing
    <2>2. disk[p].preview = None
      BY <1>1 DEF Approval, Agreed
    <2> QED
      BY <2>1, <2>2 DEF Approval, Cached, RowsKept
  <1>6. Agreed(Draft(reply), history[p])
    BY <1>3 DEF Agreed
  <1>7. ASSUME NEW q \in PlanId
        PROVE  /\ Agreed(disk'[q], history[q]) /\ history[q].previewed <= restarts
               /\ \A t \in Table : t \notin disk'[q].targets => rowsCache[<<q, t>>] = EmptyBatch
               /\ (\A x \in Request : req[x].plan = q => ~Showing(req[x])) =>
                    \A t \in Table :
                      rowsCache[<<q, t>>] = Cached(disk'[q], history[q], restarts, t)
    <2>1. CASE q = p
      BY <1>2, <1>3, <1>5, <1>6, <2>1 DEF Cached, RowsKept, Approval
    <2>2. CASE q # p
      BY <1>2, <2>2 DEF Approval
    <2> QED
      BY <2>1, <2>2
  <1>8. ASSUME NEW r \in Request, req[r].at # "idle"
        PROVE  Working(req[r], disk'[req[r].plan], history[req[r].plan], rowsCache, restarts)
    BY <1>2, <1>4, <1>8 DEF Approval
  <1>9. ApprovedRowsOnly'
    BY <1>1 DEF Approval, ApprovedRowsOnly
  <1> QED
    BY <1>1, <1>7, <1>8, <1>9 DEF Approval

LEMMA RestartApproval == ASSUME TypeOK, Approval, Restart PROVE Approval'
  <1>1. /\ UNCHANGED <<disk, history, outputs>> /\ restarts' = restarts + 1
        /\ req' = [r \in Request |-> Idle]
        /\ rowsCache' = [k \in PlanId \X Table |-> EmptyBatch]
    BY DEF Restart
  <1>2. \A r \in Request : req'[r].at = "idle"
    BY <1>1, IdleUnstarted
  <1>3. \A p \in PlanId, t \in Table : rowsCache'[<<p, t>>] = EmptyBatch
    BY <1>1
  <1>4. ApprovedRowsOnly'
    BY <1>1 DEF Approval, ApprovedRowsOnly
  <1>5. \A p \in PlanId : /\ Agreed(disk'[p], history'[p]) /\ history'[p].previewed <= restarts
                           /\ history'[p].previewed \in Nat /\ restarts \in Nat
    BY <1>1 DEF Approval, TypeOK, HistoryRecord
  <1>6. \A p \in PlanId : history'[p].previewed # restarts' /\ history'[p].previewed <= restarts'
    BY <1>1, <1>5
  <1>7. \A p \in PlanId, t \in Table : Cached(disk'[p], history'[p], restarts', t) = EmptyBatch
    BY <1>6 DEF Cached, RowsKept
  <1> QED
    BY <1>2, <1>3, <1>4, <1>5, <1>6, <1>7 DEF Approval

LEMMA ApprovalStep ==
  ASSUME FullUploads, TypeOK, Authority, Serial, Approval, OneAtATime, OneAtATime', [Next]_vars
  PROVE  Approval'
  <1>1. ASSUME NEW p \in PlanId, NEW reply \in Reply, CreatePlan(p, reply) PROVE Approval'
    BY <1>1, CreateApproval
  <1>2. ASSUME NEW r \in Request, Serve(r) PROVE Approval'
    BY <1>2, StepsAlone, ServeApproval
  <1>3. ASSUME NEW r \in Request, Continue(r) PROVE Approval'
    <2>1. Alone(r)
      BY <1>3, StepsAlone
    <2>2. CASE CacheRows(r)
      BY <2>1, <2>2, CacheApproval
    <2>3. CASE UpdateStatusWrite(r)
      BY <2>1, <2>3, UpdateApproval
    <2>4. CASE ~CacheRows(r) /\ ~UpdateStatusWrite(r)
      <3>1. \E e : Pursues(r, e)
        BY <1>3, <2>4, PolicyPursues, LoopPursues, RecordPursues, ExecutePursues DEF Continue
      <3>2. \A p \in PlanId : SamePlan(p)
        <4>1. CASE RecordSubtask(r)
          BY <4>1, RecordSame
        <4>2. CASE ~RecordSubtask(r)
          BY <1>3, <2>4, <4>2 DEF Continue, CachePolicy, NextTable, DispatchSubagent,
             UpdateStatusRead, LoadRows, LoadPolicy, Gate, Work, ExecuteSqlGate, ApplyStatements,
             SamePlan
        <4> QED
          BY <4>1, <4>2
      <3>3. UNCHANGED <<rowsCache, restarts>> /\ req[r].at # "idle"
        BY <1>3, <2>4 DEF Continue, CachePolicy, NextTable, DispatchSubagent, RecordSubtask,
           UpdateStatusRead, LoadRows, LoadPolicy, Gate, Work, ExecuteSqlGate, ApplyStatements,
           caches, bounds
      <3> QED
        BY <2>1, <3>1, <3>2, <3>3, PursuesApproval
    <2> QED
      BY <2>2, <2>3, <2>4
  <1>4. CASE Restart
    BY <1>4, RestartApproval
  <1>5. CASE UNCHANGED vars
    BY <1>5 DEF vars, Approval, ApprovedRowsOnly
  <1> QED
    BY <1>1, <1>2, <1>3, <1>4, <1>5 DEF Next

LEMMA ApprovalInit == Init => Approval
  <1> SUFFICES ASSUME Init PROVE Approval
    OBVIOUS
  <1>1. NoPlan.status = "absent" /\ NoPlan.preview = None
    BY DEF NoPlan
  <1>2. \A p \in PlanId : Agreed(disk[p], history[p])
    BY <1>1 DEF Init, Agreed
  <1>3. \A r \in Request : req[r].at = "idle"
    BY IdleUnstarted DEF Init
  <1>4. \A p \in PlanId, t \in Table : rowsCache[<<p, t>>] = EmptyBatch
    BY DEF Init
  <1>5. ApprovedRowsOnly
    BY DEF Init, ApprovedRowsOnly
  <1>6. \A p \in PlanId : disk[p].preview = None /\ history[p].previewed <= restarts
    BY <1>1 DEF Init, Untouched
  <1> QED
    BY <1>2, <1>3, <1>4, <1>5, <1>6 DEF Approval, Cached, RowsKept

LEMMA ApprovalHolds == ASSUME FullUploads PROVE Spec /\ []OneAtATime => []Approval
  <1>1. TypeOK /\ Authority /\ Serial /\ Approval /\ OneAtATime /\ OneAtATime' /\ [Next]_vars
          => Approval'
    BY ApprovalStep
  <1> QED
    BY <1>1, ApprovalInit, SerialHolds, AuthorityHolds, PTL DEF Spec

\* When requests do not overlap and every upload has rows, the rows an execution
\* produces, masked, as a script or in the database, are those the approved preview
\* showed: whatever was previewed, confirmed, rejected and executed before, and also
\* when a restart emptied the cache between the preview and the execution.
THEOREM SerialRunsApprovedRows ==
  ASSUME FullUploads PROVE Spec /\ []OneAtATime => []ApprovedRowsOnly
  <1>1. Approval => ApprovedRowsOnly
    BY DEF Approval
  <1> QED
    BY <1>1, ApprovalHolds, PTL

\* When requests do not overlap and every upload has rows, a completed plan reports,
\* for each table, exactly the rows that were approved if the process that stored their
\* preview started the execution, and none if a restart came in between.
THEOREM SerialCompletesOnApproved ==
  ASSUME FullUploads PROVE Spec /\ []OneAtATime => []CompletedOnApproved
  <1>1. Approval => CompletedOnApproved
    BY DEF Approval, Agreed, RowsKept, CompletedOnApproved
  <1> QED
    BY <1>1, ApprovalHolds, PTL
=============================================================================
