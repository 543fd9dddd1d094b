----------------------- MODULE ImportPipeline_proofs -----------------------
(***************************************************************************)
(* Proofs about ImportPipeline, for every set of jobs and every value of   *)
(* the constants: type correctness, then the safety of the pipeline.       *)
(***************************************************************************)
EXTENDS ImportPipeline, FiniteSetTheorems, TLAPS

\* A settled entry is settled as asked, the others are left alone or, in the Backend's
\* queues only, forgotten.
LEMMA SettlingsFacts ==
    ASSUME TypeOK, NEW q \in Queues, NEW j \in Jobs, NEW s \in {"completed", "failed"},
           NEW row \in Settlings(q, j, s)
    PROVE  /\ row \in [Jobs -> EntryStates]
           /\ row[j] = s
           /\ \A k \in Jobs : k # j =>
                 \/ row[k] = entry[q][k]
                 \/ q \notin ResultQueues /\ row[k] = "absent" /\ entry[q][k] = s
<1> DEFINE settled == [entry[q] EXCEPT ![j] = s]
           same == {k \in Jobs : settled[k] = s}
<1>1. entry[q] \in [Jobs -> EntryStates]
  BY DEF TypeOK
<1>2. settled \in [Jobs -> EntryStates] /\ settled[j] = s
      /\ \A k \in Jobs : k # j => settled[k] = entry[q][k]
  BY <1>1 DEF EntryStates
<1>3. \/ row = settled
      \/ /\ q \notin ResultQueues
         /\ \E k \in same \ {j} : row = [settled EXCEPT ![k] = "absent"]
  BY DEF Settlings
<1>4. CASE row = settled
  BY <1>2, <1>4
<1>5. CASE q \notin ResultQueues /\ \E k \in same \ {j} : row = [settled EXCEPT ![k] = "absent"]
  <2> HIDE DEF settled
  <2> QED BY <1>2, <1>5 DEF EntryStates
<1> QED BY <1>3, <1>4, <1>5

\* What becomes of an entry whose handler is gone.
LEMMA ReleaseFacts ==
    ASSUME TypeOK, NEW q \in Queues, NEW j \in Jobs, NEW again \in BOOLEAN,
           Release(q, j, again)
    PROVE  /\ entry' \in [Queues -> [Jobs -> EntryStates]]
           /\ step' = [step EXCEPT ![q][j] = "idle"]
           /\ entry'[q][j] = (IF again THEN "waiting" ELSE "failed")
           /\ \A p \in Queues, k \in Jobs : p # q \/ k # j =>
                 \/ entry'[p][k] = entry[p][k]
                 \/ p \notin ResultQueues /\ entry'[p][k] = "absent" /\ entry[p][k] = "failed"
<1>0. "waiting" \in EntryStates /\ ResultQueues \subseteq Queues
  BY DEF EntryStates, Queues
<1>1. CASE again
  <2>1. entry' = [entry EXCEPT ![q][j] = "waiting"] /\ step' = [step EXCEPT ![q][j] = "idle"]
    BY <1>1 DEF Release
  <2> QED BY <1>0, <1>1, <2>1 DEF TypeOK
<1>2. CASE ~again
  <2>1. PICK row \in Settlings(q, j, "failed") : entry' = [entry EXCEPT ![q] = row]
    BY <1>2 DEF Release
  <2>2. /\ row \in [Jobs -> EntryStates]
        /\ row[j] = "failed"
        /\ \A k \in Jobs : k # j =>
              \/ row[k] = entry[q][k]
              \/ q \notin ResultQueues /\ row[k] = "absent" /\ entry[q][k] = "failed"
    BY SettlingsFacts
  <2> QED BY <1>2, <2>1, <2>2 DEF Release, TypeOK, Queues
<1> QED BY <1>1, <1>2

LEMMA AddTyped ==
    ASSUME TypeOK, NEW q \in Queues, NEW j \in Jobs, Add(q, j)
    PROVE  /\ entry' \in [Queues -> [Jobs -> EntryStates]]
           /\ failures' \in [Queues -> [Jobs -> Nat]]
           /\ stalls' \in [Queues -> [Jobs -> Nat]]
<1>1. CASE entry[q][j] = "absent"
  <2>1. "waiting" \in EntryStates /\ 0 \in Nat
    BY DEF EntryStates
  <2>2. /\ entry' = [entry EXCEPT ![q][j] = "waiting"]
        /\ failures' = [failures EXCEPT ![q][j] = 0]
        /\ stalls' = [stalls EXCEPT ![q][j] = 0]
    BY <1>1 DEF Add
  <2> QED BY <2>1, <2>2 DEF TypeOK
<1>2. CASE entry[q][j] # "absent"
  BY <1>2 DEF Add, TypeOK, queueVars
<1> QED BY <1>1, <1>2

LEMMA TransitionTyped ==
    ASSUME TypeOK, NEW j \in Jobs, NEW s \in Status, Transition(j, s)
    PROVE  /\ status' \in [Jobs -> Status \cup {"NONE"}]
           /\ journal' \in [Jobs -> Seq(Status)]
<1>1. journal[j] \in Seq(Status) /\ Append(journal[j], s) \in Seq(Status)
  BY DEF TypeOK
<1> QED BY <1>1 DEF Transition, TypeOK

\* The imports that use the quota or have been let in to use it: at any time finitely many,
\* however many jobs there may ever be.
Counted    == Recorded \cup LetIn
FewCounted == IsFiniteSet(Counted)

\* The work of one job never records or lets in another.
LEMMA OneMoreCounted ==
    ASSUME TypeOK, [Next]_vars
    PROVE  \E j : Counted' \subseteq Counted \cup {j}
<1> USE DEF requestVars, jobVars, queueVars, aiVars
<1>a. ASSUME NEW j \in Jobs,
             \A k \in Jobs : k # j => request'[k] = request[k] /\ status'[k] = status[k]
      PROVE  \E i : Counted' \subseteq Counted \cup {i}
  <2>1. Counted' \subseteq Counted \cup {j}
    BY <1>a DEF Counted, Recorded, LetIn
  <2> QED BY <2>1
<1>b. request \in [Jobs -> RequestSteps] /\ status \in [Jobs -> Status \cup {"NONE"}]
  BY DEF TypeOK
<1>1. ASSUME NEW j \in Jobs,
             \/ EnforceDailyQuota(j) \/ Request(j) \/ LoseRequest(j) \/ Handle(j)
             \/ OcrWorkerFallback(j) \/ OcrResultLogFails(j)
      PROVE  \A k \in Jobs : k # j => request'[k] = request[k] /\ status'[k] = status[k]
  <2>1. CASE EnforceDailyQuota(j) \/ Request(j) \/ LoseRequest(j)
    <3>1. status' = status \/ \E s : status' = [status EXCEPT ![j] = s]
      BY <2>1 DEF EnforceDailyQuota, Request, PutObject, CreateWithAttachment, EnqueueFirst,
         MarkRunning, LoseRequest, Transition
    <3>2. \E s : request' = [request EXCEPT ![j] = s]
      BY <2>1 DEF EnforceDailyQuota, Request, PutObject, CreateWithAttachment, EnqueueFirst,
         MarkRunning, LoseRequest
    <3> QED BY <1>b, <3>1, <3>2
  <2>2. CASE Handle(j)
    <3>1. status' = status \/ \E s : status' = [status EXCEPT ![j] = s]
      BY <2>2 DEF Handle, OcrWorkerRecognise, OcrWorkerPublish, ClassifierWorkerPublish,
         OcrResultLog,
         OcrResultDone, OcrResultEnqueue, OcrResultRunning, CreateFromClassification,
         ReadyForValidation, Transition
    <3>2. request' = request
      BY <2>2 DEF Handle, OcrWorkerRecognise, OcrWorkerPublish, ClassifierWorkerPublish,
         OcrResultLog,
         OcrResultDone, OcrResultEnqueue, OcrResultRunning, CreateFromClassification,
         ReadyForValidation
    <3> QED BY <1>b, <3>1, <3>2
  <2>3. CASE OcrWorkerFallback(j) \/ OcrResultLogFails(j)
    BY <2>3 DEF OcrWorkerFallback, OcrResultLogFails
  <2> QED BY <1>1, <2>1, <2>2, <2>3
<1>2. ASSUME NEW j \in Jobs, NEW q \in Queues,
             Take(q, j) \/ Complete(q, j) \/ Throw(q, j) \/ Stall(q, j)
      PROVE  request' = request /\ status' = status
  BY <1>2 DEF Take, Complete, Throw, Stall
<1>3. CASE UNCHANGED vars
  BY <1>3 DEF vars, Counted, Recorded, LetIn
<1> QED
  BY <1>a, <1>1, <1>2, <1>3 DEF Next

LEMMA CountedStaysFinite ==
    ASSUME TypeOK, FewCounted, [Next]_vars
    PROVE  FewCounted'
<1>1. PICK j : Counted' \subseteq Counted \cup {j}
  BY OneMoreCounted
<1> DEFINE before == Counted
           after  == Counted'
<1>2. IsFiniteSet(before) /\ after \subseteq before \cup {j}
  BY <1>1 DEF FewCounted
<1> HIDE DEF before, after
<1>3. IsFiniteSet(before \cup {j})
  BY <1>2, FS_AddElement
<1>4. IsFiniteSet(after)
  BY <1>2, <1>3, FS_Subset
<1> QED BY <1>4 DEF after, FewCounted

LEMMA LetInIsNat ==
    ASSUME FewCounted
    PROVE  /\ IsFiniteSet(Recorded) /\ Cardinality(Recorded) \in Nat
           /\ IsFiniteSet(LetIn) /\ Cardinality(LetIn) \in Nat
<1>1. Recorded \subseteq Counted /\ LetIn \subseteq Counted
  BY DEF Counted
<1>2. IsFiniteSet(Recorded) /\ IsFiniteSet(LetIn)
  BY <1>1, FS_Subset DEF FewCounted
<1> QED BY <1>2, FS_CardinalityType

\* An import that is let in, and one that is refused.
LEMMA EnforceFacts ==
    ASSUME TypeOK, NEW j \in Jobs, EnforceDailyQuota(j)
    PROVE  /\ request[j] = "idle"
           /\ UNCHANGED <<documents, jobVars, queueVars, step, aiVars, candidates, faults>>
           /\ \/ /\ request' = [request EXCEPT ![j] = "refused"] /\ crowd' = crowd
              \/ /\ request' = [request EXCEPT ![j] = "store"]
                 /\ ~(MaxImportsPerDay > 0 /\ Cardinality(Recorded) >= MaxImportsPerDay)
                 /\ crowd' = IF Cardinality(LetIn) > crowd THEN Cardinality(LetIn) ELSE crowd
  BY DEF EnforceDailyQuota

THEOREM TypeCorrect == Spec => []TypeOK
<1>1. Init => TypeOK /\ FewCounted
  <2> SUFFICES ASSUME Init PROVE TypeOK /\ FewCounted
    OBVIOUS
  <2>1. << >> \in Seq(Status)
    OBVIOUS
  <2>2. Counted = {}
    BY DEF Init, Counted, Recorded, LetIn
  <2>3. FewCounted
    BY <2>2, FS_EmptySet DEF FewCounted
  <2> QED BY <2>1, <2>3 DEF Init, TypeOK, RequestSteps, EntryStates, HandlerSteps
<1>2. TypeOK /\ FewCounted /\ [Next]_vars => TypeOK' /\ FewCounted'
  <2> SUFFICES ASSUME TypeOK, FewCounted, [Next]_vars PROVE TypeOK'
    BY CountedStaysFinite
  <2> USE DEF requestVars, jobVars, queueVars, aiVars
  <2>1. ASSUME NEW j \in Jobs, EnforceDailyQuota(j) PROVE TypeOK'
    <3>1. crowd' \in Nat
      BY <2>1, EnforceFacts, LetInIsNat DEF TypeOK
    <3>2. request' \in [Jobs -> RequestSteps]
      BY <2>1, EnforceFacts DEF TypeOK, RequestSteps
    <3> QED BY <2>1, <3>1, <3>2, EnforceFacts DEF TypeOK
  <2>2. ASSUME NEW j \in Jobs, PutObject(j) PROVE TypeOK'
    BY <2>2 DEF PutObject, TypeOK, RequestSteps
  <2>3. ASSUME NEW j \in Jobs, CreateWithAttachment(j) PROVE TypeOK'
    BY <2>3, TransitionTyped, "PENDING" \in Status
       DEF CreateWithAttachment, TypeOK, RequestSteps, Status
  <2>4. ASSUME NEW j \in Jobs, EnqueueFirst(j) PROVE TypeOK'
    BY <2>4, AddTyped DEF EnqueueFirst, TypeOK, RequestSteps, Queues, BackendQueues
  <2>5. ASSUME NEW j \in Jobs, MarkRunning(j) PROVE TypeOK'
    BY <2>5, TransitionTyped DEF MarkRunning, TypeOK, RequestSteps, Status
  <2>6. ASSUME NEW j \in Jobs, LoseRequest(j) PROVE TypeOK'
    BY <2>6 DEF LoseRequest, TypeOK, RequestSteps
  <2>7. ASSUME NEW j \in Jobs, NEW q \in Queues, Take(q, j) PROVE TypeOK'
    <3>1. FirstStep(q, j) \in HandlerSteps
      BY DEF FirstStep, HandlerSteps, Queues, BackendQueues, ResultQueues
    <3>2. /\ step' \in [Queues -> [Jobs -> HandlerSteps]]
          /\ entry' \in [Queues -> [Jobs -> EntryStates]]
      BY <2>7, <3>1 DEF Take, TypeOK, EntryStates
    <3> QED BY <2>7, <3>2 DEF Take, TypeOK
  <2>8. ASSUME NEW j \in Jobs, NEW q \in Queues, Complete(q, j) PROVE TypeOK'
    BY <2>8, SettlingsFacts DEF Complete, Advance, TypeOK, HandlerSteps
  <2>9. ASSUME NEW j \in Jobs, NEW q \in Queues, Throw(q, j) PROVE TypeOK'
    <3> DEFINE again == failures[q][j] + 1 < AttemptsOf(q)
    <3>1. Release(q, j, again) /\ again \in BOOLEAN
      BY <2>9 DEF Throw
    <3> HIDE DEF again
    <3>2. /\ entry' \in [Queues -> [Jobs -> EntryStates]]
          /\ step' = [step EXCEPT ![q][j] = "idle"]
      BY <3>1, ReleaseFacts
    <3> QED BY <2>9, <3>2 DEF Throw, TypeOK, HandlerSteps
  <2>10. ASSUME NEW j \in Jobs, NEW q \in Queues, Stall(q, j) PROVE TypeOK'
    <3> DEFINE again == stalls[q][j] + 1 <= MaxStalled
    <3>1. Release(q, j, again) /\ again \in BOOLEAN
      BY <2>10 DEF Stall
    <3> HIDE DEF again
    <3>2. /\ entry' \in [Queues -> [Jobs -> EntryStates]]
          /\ step' = [step EXCEPT ![q][j] = "idle"]
      BY <3>1, ReleaseFacts
    <3> QED BY <2>10, <3>2 DEF Stall, TypeOK, HandlerSteps
  <2>11. ASSUME NEW j \in Jobs, OcrWorkerPublish(j) PROVE TypeOK'
    BY <2>11, AddTyped
       DEF OcrWorkerPublish, Advance, TypeOK, HandlerSteps, Queues, BackendQueues, ResultQueues
  <2>12. ASSUME NEW j \in Jobs, ClassifierWorkerPublish(j) PROVE TypeOK'
    BY <2>12, AddTyped
       DEF ClassifierWorkerPublish, Advance, TypeOK, HandlerSteps, Queues, BackendQueues,
           ResultQueues
  <2>13. ASSUME NEW j \in Jobs, OcrResultLog(j) PROVE TypeOK'
    <3>1. aiCalls[j] + 1 \in Nat
      BY DEF TypeOK
    <3> QED BY <2>13, <3>1 DEF OcrResultLog, Advance, TypeOK, HandlerSteps
  <2>14. ASSUME NEW j \in Jobs, OcrResultDone(j) PROVE TypeOK'
    BY <2>14, TransitionTyped DEF OcrResultDone, Advance, TypeOK, HandlerSteps, Status
  <2>15. ASSUME NEW j \in Jobs, OcrResultEnqueue(j) PROVE TypeOK'
    BY <2>15, AddTyped
       DEF OcrResultEnqueue, Advance, TypeOK, HandlerSteps, Queues, BackendQueues
  <2>16. ASSUME NEW j \in Jobs, OcrResultRunning(j) PROVE TypeOK'
    BY <2>16, TransitionTyped DEF OcrResultRunning, Advance, TypeOK, HandlerSteps, Status
  <2>17. ASSUME NEW j \in Jobs, CreateFromClassification(j) PROVE TypeOK'
    <3>1. candidates[j] + 1 \in Nat
      BY DEF TypeOK
    <3> QED BY <2>17, <3>1 DEF CreateFromClassification, Advance, TypeOK, HandlerSteps
  <2>18. ASSUME NEW j \in Jobs, ReadyForValidation(j) PROVE TypeOK'
    BY <2>18, TransitionTyped DEF ReadyForValidation, Advance, TypeOK, HandlerSteps, Status
  <2>19. ASSUME NEW j \in Jobs, OcrWorkerRecognise(j) \/ OcrWorkerFallback(j) PROVE TypeOK'
    <3>1. engine' \in [Jobs -> {"none", "internal", "ai"}]
      BY <2>19 DEF OcrWorkerRecognise, OcrWorkerFallback, Recognised, TypeOK
    <3>2. calls' \in [Jobs -> Nat]
      <4>1. calls[j] + 1 \in Nat
        BY DEF TypeOK
      <4> QED BY <2>19, <4>1 DEF OcrWorkerRecognise, OcrWorkerFallback, TypeOK
    <3>3. step' \in [Queues -> [Jobs -> HandlerSteps]]
      <4>1. "publish" \in HandlerSteps /\ step' = [step EXCEPT !["OCR"][j] = "publish"]
        BY <2>19 DEF OcrWorkerRecognise, OcrWorkerFallback, Advance, HandlerSteps
      <4> QED BY <4>1 DEF TypeOK
    <3>4. faults' \in Nat
      BY <2>19 DEF OcrWorkerRecognise, OcrWorkerFallback, TypeOK
    <3> QED
      BY <2>19, <3>1, <3>2, <3>3, <3>4 DEF OcrWorkerRecognise, OcrWorkerFallback, TypeOK
  <2>20. ASSUME NEW j \in Jobs, OcrResultLogFails(j) PROVE TypeOK'
    <3>1. "ocrDone" \in HandlerSteps /\ step' = [step EXCEPT !["OCR_RESULT"][j] = "ocrDone"]
      BY <2>20 DEF OcrResultLogFails, Advance, HandlerSteps
    <3>2. step' \in [Queues -> [Jobs -> HandlerSteps]]
      BY <3>1 DEF TypeOK
    <3> QED BY <2>20, <3>2 DEF OcrResultLogFails, TypeOK
  <2>21. CASE UNCHANGED vars
    BY <2>21 DEF vars, TypeOK
  <2> QED
    BY <2>1, <2>2, <2>3, <2>4, <2>5, <2>6, <2>7, <2>8, <2>9, <2>10, <2>11, <2>12, <2>13,
       <2>14, <2>15, <2>16, <2>17, <2>18, <2>19, <2>20, <2>21 DEF Next, Request, Handle
<1>3. QED
  BY <1>1, <1>2, PTL DEF Spec

-----------------------------------------------------------------------------
(* What the shared operators do to each entry and each journal.            *)

LEMMA AddFacts ==
    ASSUME TypeOK, NEW q \in Queues, NEW j \in Jobs, Add(q, j)
    PROVE  \A p \in Queues, k \in Jobs :
              \/ /\ p = q /\ k = j /\ entry[q][j] = "absent"
                 /\ entry'[p][k] = "waiting" /\ stalls'[p][k] = 0
              \/ /\ ~(p = q /\ k = j /\ entry[q][j] = "absent")
                 /\ entry'[p][k] = entry[p][k] /\ stalls'[p][k] = stalls[p][k]
<1>1. CASE entry[q][j] = "absent"
  <2>1. /\ entry' = [entry EXCEPT ![q][j] = "waiting"]
        /\ stalls' = [stalls EXCEPT ![q][j] = 0]
    BY <1>1 DEF Add
  <2> QED BY <1>1, <2>1 DEF TypeOK
<1>2. CASE entry[q][j] # "absent"
  BY <1>2 DEF Add, queueVars
<1> QED BY <1>1, <1>2

LEMMA AdvanceFacts ==
    ASSUME TypeOK, NEW q \in Queues, NEW j \in Jobs, NEW at, NEW next,
           Advance(q, j, at, next)
    PROVE  /\ entry[q][j] = "active" /\ step[q][j] = at
           /\ step'[q][j] = next
           /\ \A p \in Queues, k \in Jobs : p # q \/ k # j => step'[p][k] = step[p][k]
  BY DEF Advance, TypeOK

LEMMA LoggedFacts ==
    ASSUME TypeOK, NEW j \in Jobs, NEW s \in Status, Transition(j, s)
    PROVE  /\ \A k \in Jobs : status'[k] = IF k = j THEN s ELSE status[k]
           /\ \A k \in Jobs, t \in Status : Logged(k, t)' <=> Logged(k, t) \/ (k = j /\ t = s)
<1>1. /\ status' = [status EXCEPT ![j] = s]
      /\ journal' = [journal EXCEPT ![j] = Append(journal[j], s)]
  BY DEF Transition
<1>2. ASSUME NEW t \in Status
      PROVE  Logged(j, t)' <=> Logged(j, t) \/ t = s
  <2> DEFINE old == journal[j]
  <2>1. old \in Seq(Status) /\ journal'[j] = Append(old, s)
    BY <1>1 DEF TypeOK
  <2>2. /\ DOMAIN Append(old, s) = 1 .. Len(old) + 1 /\ DOMAIN old = 1 .. Len(old)
        /\ Len(old) \in Nat
        /\ \A i \in 1 .. Len(old) : Append(old, s)[i] = old[i]
        /\ Append(old, s)[Len(old) + 1] = s
    BY <2>1
  <2> HIDE DEF old
  <2>3. Logged(j, t)' <=> \E i \in 1 .. Len(old) + 1 : Append(old, s)[i] = t
    BY <2>1, <2>2 DEF Logged
  <2>4. Logged(j, t) <=> \E i \in 1 .. Len(old) : old[i] = t
    BY <2>2 DEF Logged, old
  <2> QED BY <2>2, <2>3, <2>4
<1>3. ASSUME NEW k \in Jobs, NEW t \in Status, k # j
      PROVE  Logged(k, t)' <=> Logged(k, t)
  <2>1. journal'[k] = journal[k]
    BY <1>1, <1>3 DEF TypeOK
  <2> QED BY <2>1 DEF Logged
<1>4. \A k \in Jobs : status'[k] = IF k = j THEN s ELSE status[k]
  BY <1>1 DEF TypeOK
<1> QED BY <1>2, <1>3, <1>4

\* Completing, failing and stalling: the entry of the handler that ends, and the others.
LEMMA CompleteFacts ==
    ASSUME TypeOK, NEW q \in Queues, NEW j \in Jobs, Complete(q, j)
    PROVE  /\ entry[q][j] = "active" /\ step[q][j] = "return"
           /\ entry'[q][j] = "completed" /\ step'[q][j] = "idle"
           /\ \A p \in Queues, k \in Jobs : p # q \/ k # j =>
                 /\ step'[p][k] = step[p][k]
                 /\ \/ entry'[p][k] = entry[p][k]
                    \/ p \notin ResultQueues /\ entry'[p][k] = "absent" /\ entry[p][k] = "completed"
           /\ UNCHANGED <<request, documents, status, journal, stalls, candidates>>
<1>1. PICK row \in Settlings(q, j, "completed") : entry' = [entry EXCEPT ![q] = row]
  BY DEF Complete
<1>2. /\ row \in [Jobs -> EntryStates]
      /\ row[j] = "completed"
      /\ \A k \in Jobs : k # j =>
            \/ row[k] = entry[q][k]
            \/ q \notin ResultQueues /\ row[k] = "absent" /\ entry[q][k] = "completed"
  BY SettlingsFacts
<1>3. /\ entry[q][j] = "active" /\ step[q][j] = "return"
      /\ step'[q][j] = "idle"
      /\ \A p \in Queues, k \in Jobs : p # q \/ k # j => step'[p][k] = step[p][k]
  BY AdvanceFacts DEF Complete
<1> QED BY <1>1, <1>2, <1>3 DEF Complete, requestVars, jobVars, TypeOK

\* The entry whose handler has failed or is gone: redelivered or given up.
LEMMA ThrowFacts ==
    ASSUME TypeOK, NEW q \in Queues, NEW j \in Jobs, Throw(q, j)
    PROVE  /\ entry[q][j] = "active" /\ step'[q][j] = "idle"
           /\ entry'[q][j] \in {"waiting", "failed"}
           /\ q \in ResultQueues => entry'[q][j] = "failed"
           /\ \A p \in Queues, k \in Jobs : p # q \/ k # j =>
                 /\ step'[p][k] = step[p][k]
                 /\ \/ entry'[p][k] = entry[p][k]
                    \/ p \notin ResultQueues /\ entry'[p][k] = "absent" /\ entry[p][k] = "failed"
           /\ UNCHANGED <<request, documents, status, journal, stalls, candidates>>
<1> DEFINE again == failures[q][j] + 1 < AttemptsOf(q)
<1>1. Release(q, j, again) /\ again \in BOOLEAN /\ entry[q][j] = "active"
  BY DEF Throw
<1>2. q \in ResultQueues => ~again
  <2>1. failures[q][j] \in Nat
    BY DEF TypeOK
  <2>2. q \in ResultQueues => AttemptsOf(q) = 1
    BY DEF AttemptsOf, ResultQueues, BackendQueues
  <2> QED BY <2>1, <2>2
<1> HIDE DEF again
<1>3. /\ step' = [step EXCEPT ![q][j] = "idle"]
      /\ entry'[q][j] = (IF again THEN "waiting" ELSE "failed")
      /\ \A p \in Queues, k \in Jobs : p # q \/ k # j =>
            \/ entry'[p][k] = entry[p][k]
            \/ p \notin ResultQueues /\ entry'[p][k] = "absent" /\ entry[p][k] = "failed"
  BY <1>1, ReleaseFacts
<1> QED BY <1>1, <1>2, <1>3 DEF Throw, requestVars, jobVars, TypeOK

LEMMA StallFacts ==
    ASSUME TypeOK, NEW q \in Queues, NEW j \in Jobs, Stall(q, j)
    PROVE  /\ entry[q][j] = "active" /\ step'[q][j] = "idle"
           /\ entry'[q][j] \in {"waiting", "failed"}
           /\ stalls'[q][j] = stalls[q][j] + 1
           /\ \A p \in Queues, k \in Jobs : p # q \/ k # j =>
                 /\ step'[p][k] = step[p][k]
                 /\ stalls'[p][k] = stalls[p][k]
                 /\ \/ entry'[p][k] = entry[p][k]
                    \/ p \notin ResultQueues /\ entry'[p][k] = "absent" /\ entry[p][k] = "failed"
           /\ UNCHANGED <<request, documents, status, journal, candidates>>
<1> DEFINE again == stalls[q][j] + 1 <= MaxStalled
<1>1. Release(q, j, again) /\ again \in BOOLEAN /\ entry[q][j] = "active"
      /\ stalls' = [stalls EXCEPT ![q][j] = @ + 1]
  BY DEF Stall
<1> HIDE DEF again
<1>2. /\ step' = [step EXCEPT ![q][j] = "idle"]
      /\ entry'[q][j] = (IF again THEN "waiting" ELSE "failed")
      /\ \A p \in Queues, k \in Jobs : p # q \/ k # j =>
            \/ entry'[p][k] = entry[p][k]
            \/ p \notin ResultQueues /\ entry'[p][k] = "absent" /\ entry[p][k] = "failed"
  BY <1>1, ReleaseFacts
<1>3. /\ step \in [Queues -> [Jobs -> HandlerSteps]]
      /\ stalls \in [Queues -> [Jobs -> Nat]]
  BY DEF TypeOK
<1>4. stalls'[q][j] = stalls[q][j] + 1
  BY <1>1, <1>3
<1>5. step'[q][j] = "idle"
  BY <1>2, <1>3
<1>6. \A p \in Queues, k \in Jobs : p # q \/ k # j =>
         step'[p][k] = step[p][k] /\ stalls'[p][k] = stalls[p][k]
  BY <1>1, <1>2, <1>3
<1>7. UNCHANGED <<request, documents, status, journal, candidates>>
  BY DEF Stall, requestVars, jobVars
<1>8. entry'[q][j] \in {"waiting", "failed"}
  BY <1>2
<1> QED BY <1>1, <1>2, <1>4, <1>5, <1>6, <1>7, <1>8

LEMMA TakeFacts ==
    ASSUME TypeOK, NEW q \in Queues, NEW j \in Jobs, Take(q, j)
    PROVE  /\ entry[q][j] = "waiting" /\ entry'[q][j] = "active"
           /\ step'[q][j] = FirstStep(q, j)
           /\ \A p \in Queues, k \in Jobs : p # q \/ k # j =>
                 step'[p][k] = step[p][k] /\ entry'[p][k] = entry[p][k]
           /\ UNCHANGED <<request, documents, status, journal, stalls, candidates>>
  BY DEF Take, requestVars, jobVars, TypeOK


-----------------------------------------------------------------------------
(* Each part of the invariant is preserved.                                *)

\* A handler exists exactly while its entry is active.
LEMMA HandlerStep ==
    ASSUME IInv, TypeOK', [Next]_vars
    PROVE  HandlerInv'
<1> USE DEF requestVars, jobVars, queueVars, aiVars
<1>0. TypeOK /\ HandlerInv /\ RecordInv /\ ProvenanceInv /\ CandidateInv
  BY DEF IInv
<1>q. /\ {"OCR", "CLASSIFICATION", "OCR_RESULT", "RESULT"} \subseteq Queues
      /\ {"PENDING", "OCR_RUNNING", "OCR_DONE", "CLASSIFICATION_RUNNING",
           "READY_FOR_VALIDATION"} \subseteq Status
      /\ {"OCR_RESULT", "RESULT"} \subseteq ResultQueues
  BY DEF Queues, BackendQueues, ResultQueues, Status
<1>1. ASSUME NEW j \in Jobs, EnforceDailyQuota(j) PROVE HandlerInv'
  BY <1>0, <1>q, <1>1
     DEF EnforceDailyQuota, HandlerInv
<1>2. ASSUME NEW j \in Jobs, PutObject(j) PROVE HandlerInv'
  BY <1>0, <1>q, <1>2
     DEF PutObject, HandlerInv
<1>3. ASSUME NEW j \in Jobs, CreateWithAttachment(j) PROVE HandlerInv'
  BY <1>0, <1>q, <1>3, LoggedFacts
     DEF CreateWithAttachment, HandlerInv
<1>4. ASSUME NEW j \in Jobs, EnqueueFirst(j) PROVE HandlerInv'
  BY <1>0, <1>q, <1>4, AddFacts
     DEF EnqueueFirst, HandlerInv
<1>5. ASSUME NEW j \in Jobs, MarkRunning(j) PROVE HandlerInv'
  BY <1>0, <1>q, <1>5, LoggedFacts
     DEF MarkRunning, HandlerInv
<1>6. ASSUME NEW j \in Jobs, LoseRequest(j) PROVE HandlerInv'
  BY <1>0, <1>q, <1>6
     DEF LoseRequest, HandlerInv
<1>7. ASSUME NEW j \in Jobs, NEW q \in Queues, Take(q, j) PROVE HandlerInv'
  BY <1>0, <1>q, <1>7, TakeFacts
     DEF HandlerInv, FirstStep
<1>8. ASSUME NEW j \in Jobs, NEW q \in Queues, Complete(q, j) PROVE HandlerInv'
  BY <1>0, <1>q, <1>8, CompleteFacts
     DEF HandlerInv
<1>9. ASSUME NEW j \in Jobs, NEW q \in Queues, Throw(q, j) PROVE HandlerInv'
  BY <1>0, <1>q, <1>9, ThrowFacts
     DEF HandlerInv
<1>10. ASSUME NEW j \in Jobs, NEW q \in Queues, Stall(q, j) PROVE HandlerInv'
  BY <1>0, <1>q, <1>10, StallFacts
     DEF HandlerInv
<1>11. ASSUME NEW j \in Jobs, OcrWorkerPublish(j) PROVE HandlerInv'
  BY <1>0, <1>q, <1>11, AdvanceFacts, AddFacts
     DEF OcrWorkerPublish, HandlerInv
<1>12. ASSUME NEW j \in Jobs, ClassifierWorkerPublish(j) PROVE HandlerInv'
  BY <1>0, <1>q, <1>12, AdvanceFacts, AddFacts
     DEF ClassifierWorkerPublish, HandlerInv
<1>13. ASSUME NEW j \in Jobs, OcrResultLog(j) PROVE HandlerInv'
  BY <1>0, <1>q, <1>13, AdvanceFacts
     DEF OcrResultLog, HandlerInv
<1>14. ASSUME NEW j \in Jobs, OcrResultDone(j) PROVE HandlerInv'
  BY <1>0, <1>q, <1>14, AdvanceFacts, LoggedFacts
     DEF OcrResultDone, HandlerInv
<1>15. ASSUME NEW j \in Jobs, OcrResultEnqueue(j) PROVE HandlerInv'
  BY <1>0, <1>q, <1>15, AdvanceFacts, AddFacts
     DEF OcrResultEnqueue, HandlerInv
<1>16. ASSUME NEW j \in Jobs, OcrResultRunning(j) PROVE HandlerInv'
  BY <1>0, <1>q, <1>16, AdvanceFacts, LoggedFacts
     DEF OcrResultRunning, HandlerInv
<1>17. ASSUME NEW j \in Jobs, CreateFromClassification(j) PROVE HandlerInv'
  BY <1>0, <1>q, <1>17, AdvanceFacts
     DEF CreateFromClassification, HandlerInv
<1>18. ASSUME NEW j \in Jobs, ReadyForValidation(j) PROVE HandlerInv'
  BY <1>0, <1>q, <1>18, AdvanceFacts, LoggedFacts
     DEF ReadyForValidation, HandlerInv
<1>19. ASSUME NEW j \in Jobs, OcrWorkerRecognise(j) \/ OcrWorkerFallback(j) PROVE HandlerInv'
  BY <1>0, <1>q, <1>19, AdvanceFacts
     DEF OcrWorkerRecognise, OcrWorkerFallback, HandlerInv
<1>20. ASSUME NEW j \in Jobs, OcrResultLogFails(j) PROVE HandlerInv'
  BY <1>0, <1>q, <1>20, AdvanceFacts
     DEF OcrResultLogFails, HandlerInv
<1>21. CASE UNCHANGED vars
  BY <1>0, <1>21 DEF vars, HandlerInv
<1> QED
  BY <1>1, <1>2, <1>3, <1>4, <1>5, <1>6, <1>7, <1>8, <1>9, <1>10, <1>11, <1>12, <1>13,
     <1>14, <1>15, <1>16, <1>17, <1>18, <1>19, <1>20, <1>21 DEF Next, Request, Handle

\* Requests and entries rest on a stored document and a recorded job.
LEMMA RecordStep ==
    ASSUME IInv, TypeOK', [Next]_vars
    PROVE  RecordInv'
<1> USE DEF requestVars, jobVars, queueVars, aiVars
<1>0. TypeOK /\ HandlerInv /\ RecordInv /\ ProvenanceInv /\ CandidateInv
  BY DEF IInv
<1>q. /\ {"OCR", "CLASSIFICATION", "OCR_RESULT", "RESULT"} \subseteq Queues
      /\ {"PENDING", "OCR_RUNNING", "OCR_DONE", "CLASSIFICATION_RUNNING",
           "READY_FOR_VALIDATION"} \subseteq Status
      /\ {"OCR_RESULT", "RESULT"} \subseteq ResultQueues
  BY DEF Queues, BackendQueues, ResultQueues, Status
<1>1. ASSUME NEW j \in Jobs, EnforceDailyQuota(j) PROVE RecordInv'
  <2>1. /\ \A k \in Jobs : request'[k] \in {"create", "enqueue", "mark", "done"} =>
              request'[k] = request[k]
        /\ UNCHANGED <<documents, status, journal, entry>>
    <3>1. request' = [request EXCEPT ![j] = "refused"] \/ request' = [request EXCEPT ![j] = "store"]
      BY <1>0, <1>1, EnforceFacts
    <3>2. UNCHANGED <<documents, status, journal, entry>>
      BY <1>1 DEF EnforceDailyQuota
    <3> QED BY <1>0, <3>1, <3>2 DEF TypeOK
  <2> QED BY <1>0, <2>1 DEF RecordInv, Logged
<1>2. ASSUME NEW j \in Jobs, PutObject(j) PROVE RecordInv'
  BY <1>0, <1>q, <1>2
     DEF PutObject, RecordInv, Logged
<1>3. ASSUME NEW j \in Jobs, CreateWithAttachment(j) PROVE RecordInv'
  BY <1>0, <1>q, <1>3, LoggedFacts
     DEF CreateWithAttachment, RecordInv
<1>4. ASSUME NEW j \in Jobs, EnqueueFirst(j) PROVE RecordInv'
  BY <1>0, <1>q, <1>4, AddFacts
     DEF EnqueueFirst, RecordInv, Logged
<1>5. ASSUME NEW j \in Jobs, MarkRunning(j) PROVE RecordInv'
  BY <1>0, <1>q, <1>5, LoggedFacts
     DEF MarkRunning, RecordInv
<1>6. ASSUME NEW j \in Jobs, LoseRequest(j) PROVE RecordInv'
  BY <1>0, <1>q, <1>6
     DEF LoseRequest, RecordInv, Logged
<1>7. ASSUME NEW j \in Jobs, NEW q \in Queues, Take(q, j) PROVE RecordInv'
  BY <1>0, <1>q, <1>7, TakeFacts
     DEF RecordInv, Logged
<1>8. ASSUME NEW j \in Jobs, NEW q \in Queues, Complete(q, j) PROVE RecordInv'
  BY <1>0, <1>q, <1>8, CompleteFacts
     DEF RecordInv, Logged
<1>9. ASSUME NEW j \in Jobs, NEW q \in Queues, Throw(q, j) PROVE RecordInv'
  BY <1>0, <1>q, <1>9, ThrowFacts
     DEF RecordInv, Logged
<1>10. ASSUME NEW j \in Jobs, NEW q \in Queues, Stall(q, j) PROVE RecordInv'
  BY <1>0, <1>q, <1>10, StallFacts
     DEF RecordInv, Logged
<1>11. ASSUME NEW j \in Jobs, OcrWorkerPublish(j) PROVE RecordInv'
  BY <1>0, <1>q, <1>11, AdvanceFacts, AddFacts
     DEF OcrWorkerPublish, RecordInv, Logged
<1>12. ASSUME NEW j \in Jobs, ClassifierWorkerPublish(j) PROVE RecordInv'
  BY <1>0, <1>q, <1>12, AdvanceFacts, AddFacts
     DEF ClassifierWorkerPublish, RecordInv, Logged
<1>13. ASSUME NEW j \in Jobs, OcrResultLog(j) PROVE RecordInv'
  BY <1>0, <1>q, <1>13, AdvanceFacts
     DEF OcrResultLog, RecordInv, Logged
<1>14. ASSUME NEW j \in Jobs, OcrResultDone(j) PROVE RecordInv'
  BY <1>0, <1>q, <1>14, AdvanceFacts, LoggedFacts
     DEF OcrResultDone, RecordInv
<1>15. ASSUME NEW j \in Jobs, OcrResultEnqueue(j) PROVE RecordInv'
  BY <1>0, <1>q, <1>15, AdvanceFacts, AddFacts
     DEF OcrResultEnqueue, RecordInv, Logged
<1>16. ASSUME NEW j \in Jobs, OcrResultRunning(j) PROVE RecordInv'
  BY <1>0, <1>q, <1>16, AdvanceFacts, LoggedFacts
     DEF OcrResultRunning, RecordInv
<1>17. ASSUME NEW j \in Jobs, CreateFromClassification(j) PROVE RecordInv'
  BY <1>0, <1>q, <1>17, AdvanceFacts
     DEF CreateFromClassification, RecordInv, Logged
<1>18. ASSUME NEW j \in Jobs, ReadyForValidation(j) PROVE RecordInv'
  BY <1>0, <1>q, <1>18, AdvanceFacts, LoggedFacts
     DEF ReadyForValidation, RecordInv
<1>19. ASSUME NEW j \in Jobs, OcrWorkerRecognise(j) \/ OcrWorkerFallback(j) PROVE RecordInv'
  BY <1>0, <1>q, <1>19, AdvanceFacts
     DEF OcrWorkerRecognise, OcrWorkerFallback, RecordInv, Logged
<1>20. ASSUME NEW j \in Jobs, OcrResultLogFails(j) PROVE RecordInv'
  BY <1>0, <1>q, <1>20, AdvanceFacts
     DEF OcrResultLogFails, RecordInv, Logged
<1>21. CASE UNCHANGED vars
  BY <1>0, <1>21 DEF vars, RecordInv, Logged
<1> QED
  BY <1>1, <1>2, <1>3, <1>4, <1>5, <1>6, <1>7, <1>8, <1>9, <1>10, <1>11, <1>12, <1>13,
     <1>14, <1>15, <1>16, <1>17, <1>18, <1>19, <1>20, <1>21 DEF Next, Request, Handle

\* No entry past the OCR_RESULT consumer before OCR_DONE is logged.
LEMMA ProvenanceStep ==
    ASSUME IInv, TypeOK', [Next]_vars
    PROVE  ProvenanceInv'
<1> USE DEF requestVars, jobVars, queueVars, aiVars
<1>0. TypeOK /\ HandlerInv /\ RecordInv /\ ProvenanceInv /\ CandidateInv
  BY DEF IInv
<1>q. /\ {"OCR", "CLASSIFICATION", "OCR_RESULT", "RESULT"} \subseteq Queues
      /\ {"PENDING", "OCR_RUNNING", "OCR_DONE", "CLASSIFICATION_RUNNING",
           "READY_FOR_VALIDATION"} \subseteq Status
      /\ {"OCR_RESULT", "RESULT"} \subseteq ResultQueues
  BY DEF Queues, BackendQueues, ResultQueues, Status
<1>1. ASSUME NEW j \in Jobs, EnforceDailyQuota(j) PROVE ProvenanceInv'
  BY <1>0, <1>q, TextsAreJobs, <1>1
     DEF EnforceDailyQuota, ProvenanceInv, Logged
<1>2. ASSUME NEW j \in Jobs, PutObject(j) PROVE ProvenanceInv'
  BY <1>0, <1>q, TextsAreJobs, <1>2
     DEF PutObject, ProvenanceInv, Logged
<1>3. ASSUME NEW j \in Jobs, CreateWithAttachment(j) PROVE ProvenanceInv'
  BY <1>0, <1>q, TextsAreJobs, <1>3, LoggedFacts
     DEF CreateWithAttachment, ProvenanceInv
<1>4. ASSUME NEW j \in Jobs, EnqueueFirst(j) PROVE ProvenanceInv'
  BY <1>0, <1>q, TextsAreJobs, <1>4, AddFacts
     DEF EnqueueFirst, ProvenanceInv, Logged
<1>5. ASSUME NEW j \in Jobs, MarkRunning(j) PROVE ProvenanceInv'
  BY <1>0, <1>q, TextsAreJobs, <1>5, LoggedFacts
     DEF MarkRunning, ProvenanceInv
<1>6. ASSUME NEW j \in Jobs, LoseRequest(j) PROVE ProvenanceInv'
  BY <1>0, <1>q, TextsAreJobs, <1>6
     DEF LoseRequest, ProvenanceInv, Logged
<1>7. ASSUME NEW j \in Jobs, NEW q \in Queues, Take(q, j) PROVE ProvenanceInv'
  BY <1>0, <1>q, TextsAreJobs, <1>7, TakeFacts
     DEF ProvenanceInv, FirstStep, Logged
<1>8. ASSUME NEW j \in Jobs, NEW q \in Queues, Complete(q, j) PROVE ProvenanceInv'
  BY <1>0, <1>q, TextsAreJobs, <1>8, CompleteFacts
     DEF ProvenanceInv, Logged
<1>9. ASSUME NEW j \in Jobs, NEW q \in Queues, Throw(q, j) PROVE ProvenanceInv'
  BY <1>0, <1>q, TextsAreJobs, <1>9, ThrowFacts
     DEF ProvenanceInv, Logged
<1>10. ASSUME NEW j \in Jobs, NEW q \in Queues, Stall(q, j) PROVE ProvenanceInv'
  BY <1>0, <1>q, TextsAreJobs, <1>10, StallFacts
     DEF ProvenanceInv, Logged
<1>11. ASSUME NEW j \in Jobs, OcrWorkerPublish(j) PROVE ProvenanceInv'
  BY <1>0, <1>q, TextsAreJobs, <1>11, AdvanceFacts, AddFacts
     DEF OcrWorkerPublish, ProvenanceInv, Logged
<1>12. ASSUME NEW j \in Jobs, ClassifierWorkerPublish(j) PROVE ProvenanceInv'
  BY <1>0, <1>q, TextsAreJobs, <1>12, AdvanceFacts, AddFacts
     DEF ClassifierWorkerPublish, ProvenanceInv, Logged
<1>13. ASSUME NEW j \in Jobs, OcrResultLog(j) PROVE ProvenanceInv'
  BY <1>0, <1>q, TextsAreJobs, <1>13, AdvanceFacts
     DEF OcrResultLog, ProvenanceInv, Logged
<1>14. ASSUME NEW j \in Jobs, OcrResultDone(j) PROVE ProvenanceInv'
  BY <1>0, <1>q, TextsAreJobs, <1>14, AdvanceFacts, LoggedFacts
     DEF OcrResultDone, ProvenanceInv
<1>15. ASSUME NEW j \in Jobs, OcrResultEnqueue(j) PROVE ProvenanceInv'
  BY <1>0, <1>q, TextsAreJobs, <1>15, AdvanceFacts, AddFacts
     DEF OcrResultEnqueue, ProvenanceInv, Logged
<1>16. ASSUME NEW j \in Jobs, OcrResultRunning(j) PROVE ProvenanceInv'
  BY <1>0, <1>q, TextsAreJobs, <1>16, AdvanceFacts, LoggedFacts
     DEF OcrResultRunning, ProvenanceInv
<1>17. ASSUME NEW j \in Jobs, CreateFromClassification(j) PROVE ProvenanceInv'
  BY <1>0, <1>q, TextsAreJobs, <1>17, AdvanceFacts
     DEF CreateFromClassification, ProvenanceInv, Logged
<1>18. ASSUME NEW j \in Jobs, ReadyForValidation(j) PROVE ProvenanceInv'
  BY <1>0, <1>q, TextsAreJobs, <1>18, AdvanceFacts, LoggedFacts
     DEF ReadyForValidation, ProvenanceInv
<1>19. ASSUME NEW j \in Jobs, OcrWorkerRecognise(j) \/ OcrWorkerFallback(j) PROVE ProvenanceInv'
  BY <1>0, <1>q, TextsAreJobs, <1>19, AdvanceFacts
     DEF OcrWorkerRecognise, OcrWorkerFallback, ProvenanceInv, Logged
<1>20. ASSUME NEW j \in Jobs, OcrResultLogFails(j) PROVE ProvenanceInv'
  BY <1>0, <1>q, TextsAreJobs, <1>20, AdvanceFacts
     DEF OcrResultLogFails, ProvenanceInv, Logged
<1>21. CASE UNCHANGED vars
  BY <1>0, <1>21 DEF vars, ProvenanceInv, Logged
<1> QED
  BY <1>1, <1>2, <1>3, <1>4, <1>5, <1>6, <1>7, <1>8, <1>9, <1>10, <1>11, <1>12, <1>13,
     <1>14, <1>15, <1>16, <1>17, <1>18, <1>19, <1>20, <1>21 DEF Next, Request, Handle

\* Candidates are bounded by the deliveries of the RESULT entry.
LEMMA CandidateStep ==
    ASSUME IInv, TypeOK', [Next]_vars
    PROVE  CandidateInv'
<1> USE DEF requestVars, jobVars, queueVars, aiVars
<1>0. TypeOK /\ HandlerInv /\ RecordInv /\ ProvenanceInv /\ CandidateInv
  BY DEF IInv
<1>q. /\ {"OCR", "CLASSIFICATION", "OCR_RESULT", "RESULT"} \subseteq Queues
      /\ {"PENDING", "OCR_RUNNING", "OCR_DONE", "CLASSIFICATION_RUNNING",
           "READY_FOR_VALIDATION"} \subseteq Status
      /\ {"OCR_RESULT", "RESULT"} \subseteq ResultQueues
  BY DEF Queues, BackendQueues, ResultQueues, Status
<1>n. \A k \in Jobs : candidates[k] \in Nat /\ \A p \in Queues : stalls[p][k] \in Nat
  BY <1>0 DEF TypeOK
<1>1. ASSUME NEW j \in Jobs, EnforceDailyQuota(j) PROVE CandidateInv'
  BY <1>0, <1>q, <1>1
     DEF EnforceDailyQuota, CandidateInv, Logged
<1>2. ASSUME NEW j \in Jobs, PutObject(j) PROVE CandidateInv'
  BY <1>0, <1>q, <1>2
     DEF PutObject, CandidateInv, Logged
<1>3. ASSUME NEW j \in Jobs, CreateWithAttachment(j) PROVE CandidateInv'
  BY <1>0, <1>q, <1>3, LoggedFacts
     DEF CreateWithAttachment, CandidateInv
<1>4. ASSUME NEW j \in Jobs, EnqueueFirst(j) PROVE CandidateInv'
  BY <1>0, <1>q, <1>4, AddFacts
     DEF EnqueueFirst, CandidateInv, Logged
<1>5. ASSUME NEW j \in Jobs, MarkRunning(j) PROVE CandidateInv'
  BY <1>0, <1>q, <1>5, LoggedFacts
     DEF MarkRunning, CandidateInv
<1>6. ASSUME NEW j \in Jobs, LoseRequest(j) PROVE CandidateInv'
  BY <1>0, <1>q, <1>6
     DEF LoseRequest, CandidateInv, Logged
<1>7. ASSUME NEW j \in Jobs, NEW q \in Queues, Take(q, j) PROVE CandidateInv'
  BY <1>0, <1>q, <1>7, TakeFacts
     DEF CandidateInv, FirstStep, Logged
<1>8. ASSUME NEW j \in Jobs, NEW q \in Queues, Complete(q, j) PROVE CandidateInv'
  BY <1>0, <1>q, <1>8, CompleteFacts
     DEF CandidateInv, Logged
<1>9. ASSUME NEW j \in Jobs, NEW q \in Queues, Throw(q, j) PROVE CandidateInv'
  BY <1>0, <1>q, <1>9, ThrowFacts
     DEF CandidateInv, Logged
<1>10. ASSUME NEW j \in Jobs, NEW q \in Queues, Stall(q, j) PROVE CandidateInv'
  BY <1>0, <1>q, <1>10, StallFacts, <1>n
     DEF CandidateInv, Logged
<1>11. ASSUME NEW j \in Jobs, OcrWorkerPublish(j) PROVE CandidateInv'
  BY <1>0, <1>q, <1>11, AdvanceFacts, AddFacts
     DEF OcrWorkerPublish, CandidateInv, Logged
<1>12. ASSUME NEW j \in Jobs, ClassifierWorkerPublish(j) PROVE CandidateInv'
  BY <1>0, <1>q, <1>12, AdvanceFacts, AddFacts
     DEF ClassifierWorkerPublish, CandidateInv, Logged
<1>13. ASSUME NEW j \in Jobs, OcrResultLog(j) PROVE CandidateInv'
  BY <1>0, <1>q, <1>13, AdvanceFacts
     DEF OcrResultLog, CandidateInv, Logged
<1>14. ASSUME NEW j \in Jobs, OcrResultDone(j) PROVE CandidateInv'
  BY <1>0, <1>q, <1>14, AdvanceFacts, LoggedFacts
     DEF OcrResultDone, CandidateInv
<1>15. ASSUME NEW j \in Jobs, OcrResultEnqueue(j) PROVE CandidateInv'
  BY <1>0, <1>q, <1>15, AdvanceFacts, AddFacts
     DEF OcrResultEnqueue, CandidateInv, Logged
<1>16. ASSUME NEW j \in Jobs, OcrResultRunning(j) PROVE CandidateInv'
  BY <1>0, <1>q, <1>16, AdvanceFacts, LoggedFacts
     DEF OcrResultRunning, CandidateInv
<1>17. ASSUME NEW j \in Jobs, CreateFromClassification(j) PROVE CandidateInv'
  <2>1. \A k \in Jobs : candidates'[k] = IF k = j THEN candidates[j] + 1 ELSE candidates[k]
    BY <1>0, <1>17 DEF CreateFromClassification, TypeOK
  <2> QED
    BY <1>0, <1>q, <1>n, <1>17, <2>1, AdvanceFacts
       DEF CreateFromClassification, CandidateInv, Logged
<1>18. ASSUME NEW j \in Jobs, ReadyForValidation(j) PROVE CandidateInv'
  BY <1>0, <1>q, <1>18, AdvanceFacts, LoggedFacts
     DEF ReadyForValidation, CandidateInv
<1>19. ASSUME NEW j \in Jobs, OcrWorkerRecognise(j) \/ OcrWorkerFallback(j) PROVE CandidateInv'
  BY <1>0, <1>q, <1>19, AdvanceFacts
     DEF OcrWorkerRecognise, OcrWorkerFallback, CandidateInv, Logged
<1>20. ASSUME NEW j \in Jobs, OcrResultLogFails(j) PROVE CandidateInv'
  BY <1>0, <1>q, <1>20, AdvanceFacts
     DEF OcrResultLogFails, CandidateInv, Logged
<1>21. CASE UNCHANGED vars
  BY <1>0, <1>21 DEF vars, CandidateInv, Logged
<1> QED
  BY <1>1, <1>2, <1>3, <1>4, <1>5, <1>6, <1>7, <1>8, <1>9, <1>10, <1>11, <1>12, <1>13,
     <1>14, <1>15, <1>16, <1>17, <1>18, <1>19, <1>20, <1>21 DEF Next, Request, Handle

\* The safety properties that import_pipeline checks follow from the invariant.
LEMMA IInvImplies ==
    ASSUME IInv
    PROVE  WorkHasRecord /\ CandidateHasProvenance /\ CandidatesBounded /\ ReadyHasCandidate
<1> {"OCR", "CLASSIFICATION", "OCR_RESULT", "RESULT"} \subseteq Queues
  BY DEF Queues, BackendQueues, ResultQueues
<1>1. \A j \in Jobs : candidates[j] \in Nat
  BY DEF IInv, TypeOK
<1>2. \A j \in Jobs : candidates[j] > 0 => entry["RESULT"][j] # "absent"
  BY <1>1 DEF IInv, CandidateInv
<1> QED
  BY <1>2 DEF IInv, RecordInv, ProvenanceInv, CandidateInv, WorkHasRecord,
     CandidateHasProvenance, CandidatesBounded, ReadyHasCandidate

LEMMA InitIInv == Init => IInv
<1> SUFFICES ASSUME Init PROVE IInv
  OBVIOUS
<1>1. TypeOK
  <2>1. << >> \in Seq(Status)
    OBVIOUS
  <2> QED BY <2>1 DEF Init, TypeOK, RequestSteps, EntryStates, HandlerSteps
<1>2. \A j \in Jobs, t \in Status : ~Logged(j, t)
  BY DEF Init, Logged
<1>3. {"OCR", "CLASSIFICATION", "OCR_RESULT", "RESULT"} \subseteq Queues
      /\ {"PENDING", "READY_FOR_VALIDATION"} \subseteq Status
  BY DEF Queues, BackendQueues, ResultQueues, Status
<1> QED
  BY <1>1, <1>2, <1>3, TextsAreJobs
     DEF Init, IInv, HandlerInv, RecordInv, ProvenanceInv, CandidateInv

\* The invariant holds of every behaviour.
THEOREM Inductive == Spec => []IInv
<1>1. IInv /\ TypeOK' /\ [Next]_vars => IInv'
  BY HandlerStep, RecordStep, ProvenanceStep, CandidateStep DEF IInv
<1>2. QED
  BY <1>1, InitIInv, TypeCorrect, PTL DEF Spec

\* Safety of the pipeline for every set of jobs and every retry, redelivery and retention
\* policy: nothing runs ahead of its record, every candidate has its provenance and at
\* most one delivery each, and a job is announced ready only when it has a candidate.
THEOREM PipelineSafety ==
    Spec => [](/\ WorkHasRecord /\ CandidateHasProvenance /\ CandidatesBounded
               /\ ReadyHasCandidate)
<1>1. IInv => /\ WorkHasRecord /\ CandidateHasProvenance /\ CandidatesBounded
              /\ ReadyHasCandidate
  BY IInvImplies
<1>2. QED
  BY <1>1, Inductive, PTL

\* A classification reaches the backend, and a candidate is proposed, only after the results
\* of the earlier steps were persisted, whatever fails and is tried again.
THEOREM ProvenanceKept == Spec => []CandidateHasProvenance
<1>1. IInv => CandidateHasProvenance
  BY IInvImplies
<1>2. QED
  BY <1>1, Inductive, PTL

-----------------------------------------------------------------------------
(* The daily quota.                                                        *)

\* The imports recorded or let in pass the quota by at most the largest crowd that stood
\* between count and row as one more was let in.
QuotaInv == MaxImportsPerDay > 0 => Cardinality(Counted) <= MaxImportsPerDay + crowd

\* Only the count of the quota lets an import in; every later step only moves a counted
\* import towards its row, or loses it.
LEMMA CountedKept ==
    ASSUME IInv, [Next]_vars
    PROVE  \/ Counted' \subseteq Counted /\ crowd' = crowd
           \/ \E j \in Jobs :
                 /\ Recorded' = Recorded /\ LetIn' = LetIn \cup {j}
                 /\ ~(MaxImportsPerDay > 0 /\ Cardinality(Recorded) >= MaxImportsPerDay)
                 /\ crowd' = IF Cardinality(LetIn) > crowd THEN Cardinality(LetIn) ELSE crowd
<1> USE DEF requestVars, jobVars, queueVars, aiVars
<1>0. TypeOK /\ RecordInv
  BY DEF IInv
<1>b. /\ request \in [Jobs -> RequestSteps] /\ status \in [Jobs -> Status \cup {"NONE"}]
      /\ {"OCR", "CLASSIFICATION", "OCR_RESULT", "RESULT"} \subseteq Queues
  BY <1>0 DEF TypeOK, Queues, BackendQueues, ResultQueues
<1>1. ASSUME NEW j \in Jobs, EnforceDailyQuota(j), request' = [request EXCEPT ![j] = "refused"]
      PROVE  Counted' \subseteq Counted /\ crowd' = crowd
  <2>1. crowd' = crowd /\ status' = status
    BY <1>0, <1>1, <1>b, EnforceFacts
  <2> QED BY <1>1, <1>b, <2>1 DEF Counted, Recorded, LetIn
<1>2. ASSUME NEW j \in Jobs, EnforceDailyQuota(j), request' # [request EXCEPT ![j] = "refused"]
      PROVE  /\ Recorded' = Recorded /\ LetIn' = LetIn \cup {j}
             /\ ~(MaxImportsPerDay > 0 /\ Cardinality(Recorded) >= MaxImportsPerDay)
             /\ crowd' = IF Cardinality(LetIn) > crowd THEN Cardinality(LetIn) ELSE crowd
  <2>1. /\ status' = status /\ request[j] = "idle"
        /\ request' = [request EXCEPT ![j] = "store"]
        /\ ~(MaxImportsPerDay > 0 /\ Cardinality(Recorded) >= MaxImportsPerDay)
        /\ crowd' = IF Cardinality(LetIn) > crowd THEN Cardinality(LetIn) ELSE crowd
    BY <1>0, <1>2, EnforceFacts
  <2>2. Recorded' = Recorded
    BY <2>1 DEF Recorded
  <2>3. LetIn' = LetIn \cup {j}
    BY <1>b, <2>1 DEF LetIn
  <2> QED BY <2>1, <2>2, <2>3
<1>3. ASSUME NEW j \in Jobs, Request(j) \/ LoseRequest(j)
      PROVE  Counted' \subseteq Counted /\ crowd' = crowd
  <2>1. request[j] \in {"store", "create"} \/ status[j] # "NONE"
    BY <1>0, <1>3 DEF Request, PutObject, CreateWithAttachment, EnqueueFirst, MarkRunning,
       LoseRequest, RecordInv
  <2>2. \A k \in Jobs : k # j => request'[k] = request[k] /\ status'[k] = status[k]
    <3>1. status' = status \/ \E s : status' = [status EXCEPT ![j] = s]
      BY <1>3 DEF Request, PutObject, CreateWithAttachment, EnqueueFirst, MarkRunning,
         LoseRequest, Transition
    <3>2. \E s : request' = [request EXCEPT ![j] = s]
      BY <1>3 DEF Request, PutObject, CreateWithAttachment, EnqueueFirst, MarkRunning,
         LoseRequest
    <3> QED BY <1>b, <3>1, <3>2
  <2>3. j \in Counted
    BY <2>1 DEF Counted, Recorded, LetIn
  <2>4. Counted' \subseteq Counted
    BY <2>2, <2>3 DEF Counted, Recorded, LetIn
  <2>5. crowd' = crowd
    BY <1>3 DEF Request, PutObject, CreateWithAttachment, EnqueueFirst, MarkRunning, LoseRequest
  <2> QED BY <2>4, <2>5
<1>4. ASSUME NEW j \in Jobs, Handle(j)
      PROVE  Counted' \subseteq Counted /\ crowd' = crowd
  <2>1. request' = request /\ crowd' = crowd
    BY <1>4 DEF Handle, OcrWorkerRecognise, OcrWorkerPublish, ClassifierWorkerPublish,
       OcrResultLog, OcrResultDone,
       OcrResultEnqueue, OcrResultRunning, CreateFromClassification, ReadyForValidation
  <2>2. status' = status \/ \E s : status' = [status EXCEPT ![j] = s]
    BY <1>4 DEF Handle, OcrWorkerRecognise, OcrWorkerPublish, ClassifierWorkerPublish,
       OcrResultLog, OcrResultDone,
       OcrResultEnqueue, OcrResultRunning, CreateFromClassification, ReadyForValidation,
       Transition
  <2>3. \E q \in Queues : entry[q][j] = "active"
    BY <1>4, <1>b DEF Handle, OcrWorkerRecognise, OcrWorkerPublish, ClassifierWorkerPublish,
       OcrResultLog,
       OcrResultDone, OcrResultEnqueue, OcrResultRunning, CreateFromClassification,
       ReadyForValidation, Advance
  <2>4. j \in Recorded
    BY <1>0, <2>3 DEF RecordInv, Recorded
  <2>5. \A k \in Jobs : k # j => status'[k] = status[k]
    BY <1>b, <2>2
  <2> QED BY <2>1, <2>4, <2>5 DEF Counted, Recorded, LetIn
<1>5. ASSUME NEW j \in Jobs, NEW q \in Queues,
             Take(q, j) \/ Complete(q, j) \/ Throw(q, j) \/ Stall(q, j)
      PROVE  Counted' = Counted /\ crowd' = crowd
  BY <1>5 DEF Take, Complete, Throw, Stall, Counted, Recorded, LetIn
<1>6. ASSUME NEW j \in Jobs, OcrWorkerFallback(j) \/ OcrResultLogFails(j)
      PROVE  Counted' = Counted /\ crowd' = crowd
  BY <1>6 DEF OcrWorkerFallback, OcrResultLogFails, Counted, Recorded, LetIn
<1>7. CASE UNCHANGED vars
  BY <1>7 DEF vars, Counted, Recorded, LetIn
<1> QED
  BY <1>1, <1>2, <1>3, <1>4, <1>5, <1>6, <1>7 DEF Next

LEMMA QuotaStep ==
    ASSUME IInv, FewCounted, QuotaInv, [Next]_vars
    PROVE  QuotaInv'
<1> SUFFICES ASSUME MaxImportsPerDay > 0
             PROVE  Cardinality(Counted') <= MaxImportsPerDay + crowd'
  BY DEF QuotaInv
<1>0. MaxImportsPerDay \in Nat /\ crowd \in Nat
  BY NumbersAreNat DEF IInv, TypeOK
<1> DEFINE counted == Counted
           after   == Counted'
<1>1. /\ IsFiniteSet(counted) /\ Cardinality(counted) \in Nat
      /\ Cardinality(counted) <= MaxImportsPerDay + crowd
  BY FS_CardinalityType DEF FewCounted, QuotaInv
<1>2. CASE after \subseteq counted /\ crowd' = crowd
  <2> HIDE DEF counted, after
  <2>1. IsFiniteSet(after) /\ Cardinality(after) <= Cardinality(counted)
    BY <1>1, <1>2, FS_Subset
  <2>2. Cardinality(after) \in Nat
    BY <2>1, FS_CardinalityType
  <2>3. Cardinality(after) <= MaxImportsPerDay + crowd'
    BY <1>0, <1>1, <1>2, <2>1, <2>2
  <2> QED BY <2>3 DEF after
<1>3. ASSUME NEW j \in Jobs,
             Recorded' = Recorded, LetIn' = LetIn \cup {j},
             ~(MaxImportsPerDay > 0 /\ Cardinality(Recorded) >= MaxImportsPerDay),
             crowd' = IF Cardinality(LetIn) > crowd THEN Cardinality(LetIn) ELSE crowd
      PROVE  Cardinality(after) <= MaxImportsPerDay + crowd'
  <2> DEFINE rows == Recorded
             others == LetIn
  <2>1. /\ IsFiniteSet(rows) /\ Cardinality(rows) \in Nat
        /\ IsFiniteSet(others) /\ Cardinality(others) \in Nat
    BY LetInIsNat
  <2>2. after = (rows \cup others) \cup {j}
    BY <1>3 DEF Counted
  <2>3. Cardinality(rows) < MaxImportsPerDay /\ Cardinality(others) <= crowd' /\ crowd' \in Nat
    BY <1>0, <1>3, <2>1
  <2> HIDE DEF after, rows, others
  <2>4. /\ IsFiniteSet(rows \cup others)
        /\ Cardinality(rows \cup others)
             = Cardinality(rows) + Cardinality(others) - Cardinality(rows \cap others)
    BY <2>1, FS_Union
  <2>5. Cardinality(rows \cap others) \in Nat /\ Cardinality(rows \cup others) \in Nat
    <3>1. IsFiniteSet(rows \cap others)
      BY <2>1, FS_Subset
    <3> QED BY <2>4, <3>1, FS_CardinalityType
  <2>6. Cardinality(after) <= Cardinality(rows \cup others) + 1
    <3>1. Cardinality((rows \cup others) \cup {j}) = Cardinality(rows \cup others)
          \/ Cardinality((rows \cup others) \cup {j}) = Cardinality(rows \cup others) + 1
      BY <2>4, FS_AddElement
    <3> QED BY <2>2, <2>5, <3>1
  <2>7. Cardinality(after) \in Nat
    BY <2>2, <2>4, FS_AddElement, FS_CardinalityType
  <2> QED BY <1>0, <2>1, <2>3, <2>4, <2>5, <2>6, <2>7
<1> QED
  BY <1>2, <1>3, CountedKept

\* OPE-005: on any day the imports pass the platform's quota by no more than the requests
\* that stood together between their count and their row, whatever the quota is.
THEOREM QuotaKept == Spec => []QuotaPassedByCrowdOnly
<1>1. Init => FewCounted /\ QuotaInv
  <2> SUFFICES ASSUME Init PROVE FewCounted /\ QuotaInv
    OBVIOUS
  <2>1. Counted = {} /\ crowd = 0
    BY DEF Init, Counted, Recorded, LetIn
  <2>2. MaxImportsPerDay \in Nat
    BY NumbersAreNat
  <2> QED BY <2>1, <2>2, FS_EmptySet DEF FewCounted, QuotaInv
<1>2. IInv /\ FewCounted /\ QuotaInv /\ [Next]_vars => FewCounted' /\ QuotaInv'
  <2>1. IInv => TypeOK
    BY DEF IInv
  <2> QED BY <2>1, CountedStaysFinite, QuotaStep
<1>3. IInv /\ FewCounted /\ QuotaInv => QuotaPassedByCrowdOnly
  <2> SUFFICES ASSUME IInv, FewCounted, QuotaInv, MaxImportsPerDay > 0
               PROVE  Cardinality(Recorded) <= MaxImportsPerDay + crowd
    BY DEF QuotaPassedByCrowdOnly
  <2> DEFINE counted == Counted
             rows    == Recorded
  <2>1. IsFiniteSet(counted) /\ rows \subseteq counted
        /\ Cardinality(counted) <= MaxImportsPerDay + crowd
    BY DEF FewCounted, QuotaInv, Counted
  <2>2. MaxImportsPerDay \in Nat /\ crowd \in Nat
    BY NumbersAreNat DEF IInv, TypeOK
  <2> HIDE DEF counted, rows
  <2>3. Cardinality(rows) <= Cardinality(counted) /\ IsFiniteSet(rows)
    BY <2>1, FS_Subset
  <2>4. Cardinality(rows) \in Nat /\ Cardinality(counted) \in Nat
    BY <2>1, <2>3, FS_CardinalityType
  <2>5. Cardinality(rows) <= MaxImportsPerDay + crowd
    BY <2>1, <2>2, <2>3, <2>4
  <2> QED BY <2>5 DEF rows
<1>4. QED
  BY <1>1, <1>2, <1>3, Inductive, PTL DEF Spec

-----------------------------------------------------------------------------
(* No recorded import is dropped.                                          *)

\* BullMQ keeps every failed entry: there are at most as many jobs as removeOnFail keeps.
FailuresStay == IsFiniteSet(Jobs) /\ Cardinality(Jobs) <= KeepFailed

Placed(j) == \E q \in Queues : entry[q][j] # "absent"

\* Each stage hands a job on before it lets it go: an entry is settled, and may be
\* forgotten, only when the entry of the next stage has been published or the answer logged.
HandOnInv ==
    \A j \in Jobs :
       /\ step["OCR"][j] = "return" \/ entry["OCR"][j] = "completed" =>
             entry["OCR_RESULT"][j] # "absent"
       /\ step["OCR_RESULT"][j] \in {"running", "return"} \/ entry["OCR_RESULT"][j] = "completed" =>
             entry["CLASSIFICATION"][j] # "absent" \/ entry["RESULT"][j] # "absent"
       /\ step["CLASSIFICATION"][j] = "return" \/ entry["CLASSIFICATION"][j] = "completed" =>
             entry["RESULT"][j] # "absent"
       /\ step["RESULT"][j] = "return" \/ entry["RESULT"][j] = "completed" =>
             Logged(j, "READY_FOR_VALIDATION")
       /\ request[j] \in {"mark", "done"} => Placed(j)
       /\ status[j] # "NONE" => request[j] \in {"enqueue", "mark", "done", "lost"}

\* A recorded import is about to be published, waits for or has a handler, is ready for
\* validation, or was given up: the safety part of ReadyForGoodUnlessGivenUp.
Accounted ==
    \A j \in Jobs : status[j] # "NONE" =>
       \/ request[j] = "enqueue"
       \/ \E q \in Queues : entry[q][j] \in {"waiting", "active"}
       \/ Logged(j, "READY_FOR_VALIDATION")
       \/ GivenUp(j)

LEMMA FailuresKept ==
    ASSUME TypeOK, FailuresStay, NEW q \in Queues, NEW j \in Jobs, Throw(q, j) \/ Stall(q, j)
    PROVE  \A p \in Queues, k \in Jobs : p # q \/ k # j => entry'[p][k] = entry[p][k]
<1> DEFINE settled == [entry[q] EXCEPT ![j] = "failed"]
           same    == {k \in Jobs : settled[k] = "failed"}
<1>1. Cardinality(same) <= KeepFailed
  <2> DEFINE jobs == Jobs
  <2>1. same \subseteq jobs /\ IsFiniteSet(jobs) /\ Cardinality(jobs) <= KeepFailed
    BY DEF FailuresStay
  <2> HIDE DEF same, jobs
  <2>2. IsFiniteSet(same) /\ Cardinality(same) <= Cardinality(jobs)
    BY <2>1, FS_Subset
  <2>3. Cardinality(same) \in Nat /\ Cardinality(jobs) \in Nat /\ KeepFailed \in Nat
    BY <2>1, <2>2, FS_CardinalityType, NumbersAreNat
  <2> QED BY <2>1, <2>2, <2>3
<1>2. Settlings(q, j, "failed") = {settled}
  BY <1>1 DEF Settlings
<1>3. entry' = [entry EXCEPT ![q][j] = "waiting"] \/ entry' = [entry EXCEPT ![q] = settled]
  BY <1>2 DEF Throw, Stall, Release
<1>4. \A k \in Jobs : k # j => settled[k] = entry[q][k]
  BY DEF TypeOK
<1>5. CASE entry' = [entry EXCEPT ![q][j] = "waiting"]
  BY <1>5 DEF TypeOK
<1>6. CASE entry' = [entry EXCEPT ![q] = settled]
  <2> HIDE DEF settled
  <2> QED BY <1>4, <1>6 DEF TypeOK
<1> QED BY <1>3, <1>5, <1>6

LEMMA HandOnStep ==
    ASSUME IInv, FailuresStay, HandOnInv, [Next]_vars
    PROVE  HandOnInv'
<1> USE DEF requestVars, jobVars, queueVars, aiVars
<1>0. TypeOK /\ HandlerInv /\ RecordInv /\ HandOnInv /\ FailuresStay
  BY DEF IInv
<1>q. /\ Queues = {"OCR", "CLASSIFICATION", "OCR_RESULT", "RESULT"}
      /\ {"PENDING", "OCR_RUNNING", "OCR_DONE", "CLASSIFICATION_RUNNING",
           "READY_FOR_VALIDATION"} \subseteq Status
      /\ ResultQueues = {"OCR_RESULT", "RESULT"}
  BY DEF Queues, BackendQueues, ResultQueues, Status
<1>1. ASSUME NEW j \in Jobs, EnforceDailyQuota(j) PROVE HandOnInv'
  <2>1. /\ \A k \in Jobs : request'[k] # request[k] => request[k] = "idle"
        /\ \A k \in Jobs : request'[k] \in {"mark", "done"} => request'[k] = request[k]
        /\ UNCHANGED <<status, journal, entry, step>>
    BY <1>0, <1>1, EnforceFacts DEF TypeOK
  <2> QED BY <1>0, <2>1 DEF HandOnInv, Placed, Logged
<1>2. ASSUME NEW j \in Jobs, PutObject(j) PROVE HandOnInv'
  BY <1>0, <1>q, <1>2
     DEF PutObject, HandOnInv, Placed, Logged
<1>3. ASSUME NEW j \in Jobs, CreateWithAttachment(j) PROVE HandOnInv'
  <2>1. \A k \in Jobs : Placed(k)' <=> Placed(k)
    BY <1>3 DEF CreateWithAttachment, Placed
  <2>2. \A k \in Jobs : Logged(k, "READY_FOR_VALIDATION") => Logged(k, "READY_FOR_VALIDATION")'
    BY <1>0, <1>q, <1>3, LoggedFacts DEF CreateWithAttachment
  <2>3. /\ \A k \in Jobs : k # j => request'[k] = request[k] /\ status'[k] = status[k]
        /\ request'[j] = "enqueue" /\ UNCHANGED <<entry, step>>
    BY <1>0, <1>q, <1>3, LoggedFacts DEF CreateWithAttachment, TypeOK
  <2> QED BY <1>0, <2>1, <2>2, <2>3 DEF HandOnInv
<1>4. ASSUME NEW j \in Jobs, EnqueueFirst(j) PROVE HandOnInv'
  <2> DEFINE first == IF j \in Texts THEN "CLASSIFICATION" ELSE "OCR"
  <2>1. /\ first \in Queues /\ Add(first, j) /\ request[j] = "enqueue"
        /\ \A k \in Jobs : k # j => request'[k] = request[k]
        /\ UNCHANGED <<status, journal, step>>
    BY <1>0, <1>q, <1>4 DEF EnqueueFirst, TypeOK
  <2> HIDE DEF first
  <2>2. /\ entry'[first][j] # "absent"
        /\ \A q \in Queues, k \in Jobs :
              \/ entry'[q][k] = entry[q][k]
              \/ entry[q][k] = "absent" /\ entry'[q][k] = "waiting"
    BY <1>0, <2>1, AddFacts
  <2>3. Placed(j)' /\ \A k \in Jobs : Placed(k) => Placed(k)'
    BY <2>1, <2>2 DEF Placed
  <2>4. request'[j] = "mark"
    BY <1>0, <1>4 DEF EnqueueFirst, TypeOK
  <2> QED BY <1>0, <1>q, <2>1, <2>2, <2>3, <2>4 DEF HandOnInv, Logged
<1>5. ASSUME NEW j \in Jobs, MarkRunning(j) PROVE HandOnInv'
  <2>1. \A k \in Jobs : Placed(k)' <=> Placed(k)
    BY <1>5 DEF MarkRunning, Placed
  <2>2. \A k \in Jobs : Logged(k, "READY_FOR_VALIDATION") => Logged(k, "READY_FOR_VALIDATION")'
    BY <1>0, <1>q, <1>5, LoggedFacts DEF MarkRunning
  <2>3. /\ \A k \in Jobs : k # j => request'[k] = request[k] /\ status'[k] = status[k]
        /\ request[j] = "mark" /\ request'[j] = "done" /\ UNCHANGED <<entry, step>>
    BY <1>0, <1>q, <1>5, LoggedFacts DEF MarkRunning, TypeOK
  <2> QED BY <1>0, <2>1, <2>2, <2>3 DEF HandOnInv
<1>6. ASSUME NEW j \in Jobs, LoseRequest(j) PROVE HandOnInv'
  BY <1>0, <1>q, <1>6
     DEF LoseRequest, HandOnInv, Placed, Logged, TypeOK
<1>7. ASSUME NEW j \in Jobs, NEW q \in Queues, Take(q, j) PROVE HandOnInv'
  BY <1>0, <1>q, <1>7, TakeFacts
     DEF FirstStep, HandOnInv, Placed, Logged
<1>8. ASSUME NEW j \in Jobs, NEW q \in Queues, Complete(q, j) PROVE HandOnInv'
  BY <1>0, <1>q, <1>8, CompleteFacts
     DEF HandOnInv, Placed, Logged
<1>9. ASSUME NEW j \in Jobs, NEW q \in Queues, Throw(q, j) PROVE HandOnInv'
  BY <1>0, <1>q, <1>9, ThrowFacts, FailuresKept
     DEF HandOnInv, Placed, Logged
<1>10. ASSUME NEW j \in Jobs, NEW q \in Queues, Stall(q, j) PROVE HandOnInv'
  BY <1>0, <1>q, <1>10, StallFacts, FailuresKept
     DEF HandOnInv, Placed, Logged
<1>11. ASSUME NEW j \in Jobs, OcrWorkerPublish(j) PROVE HandOnInv'
  BY <1>0, <1>q, <1>11, AdvanceFacts, AddFacts
     DEF OcrWorkerPublish, HandOnInv, Placed, Logged
<1>12. ASSUME NEW j \in Jobs, ClassifierWorkerPublish(j) PROVE HandOnInv'
  BY <1>0, <1>q, <1>12, AdvanceFacts, AddFacts
     DEF ClassifierWorkerPublish, HandOnInv, Placed, Logged
<1>13. ASSUME NEW j \in Jobs, OcrResultLog(j) PROVE HandOnInv'
  BY <1>0, <1>q, <1>13, AdvanceFacts
     DEF OcrResultLog, HandOnInv, Placed, Logged
<1>14. ASSUME NEW j \in Jobs, OcrResultDone(j) PROVE HandOnInv'
  <2>1. \A k \in Jobs : Placed(k)' <=> Placed(k)
    BY <1>14 DEF OcrResultDone, Placed
  <2>2. \A k \in Jobs : Logged(k, "READY_FOR_VALIDATION") => Logged(k, "READY_FOR_VALIDATION")'
    BY <1>0, <1>q, <1>14, LoggedFacts DEF OcrResultDone
  <2>3. /\ status[j] # "NONE" /\ UNCHANGED <<request, entry>>
        /\ \A k \in Jobs : k # j => status'[k] = status[k]
    BY <1>0, <1>q, <1>14, AdvanceFacts, LoggedFacts DEF OcrResultDone, RecordInv
  <2> QED BY <1>0, <1>q, <1>14, AdvanceFacts, <2>1, <2>2, <2>3 DEF OcrResultDone, HandOnInv
<1>15. ASSUME NEW j \in Jobs, OcrResultEnqueue(j) PROVE HandOnInv'
  BY <1>0, <1>q, <1>15, AdvanceFacts, AddFacts
     DEF OcrResultEnqueue, HandOnInv, Placed, Logged
<1>16. ASSUME NEW j \in Jobs, OcrResultRunning(j) PROVE HandOnInv'
  <2>1. \A k \in Jobs : Placed(k)' <=> Placed(k)
    BY <1>16 DEF OcrResultRunning, Placed
  <2>2. \A k \in Jobs : Logged(k, "READY_FOR_VALIDATION") => Logged(k, "READY_FOR_VALIDATION")'
    BY <1>0, <1>q, <1>16, LoggedFacts DEF OcrResultRunning
  <2>3. /\ status[j] # "NONE" /\ UNCHANGED <<request, entry>>
        /\ \A k \in Jobs : k # j => status'[k] = status[k]
    BY <1>0, <1>q, <1>16, AdvanceFacts, LoggedFacts DEF OcrResultRunning, RecordInv
  <2> QED BY <1>0, <1>q, <1>16, AdvanceFacts, <2>1, <2>2, <2>3 DEF OcrResultRunning, HandOnInv
<1>17. ASSUME NEW j \in Jobs, CreateFromClassification(j) PROVE HandOnInv'
  BY <1>0, <1>q, <1>17, AdvanceFacts
     DEF CreateFromClassification, HandOnInv, Placed, Logged
<1>18. ASSUME NEW j \in Jobs, ReadyForValidation(j) PROVE HandOnInv'
  <2>1. \A k \in Jobs : Placed(k)' <=> Placed(k)
    BY <1>18 DEF ReadyForValidation, Placed
  <2>2. \A k \in Jobs : Logged(k, "READY_FOR_VALIDATION") => Logged(k, "READY_FOR_VALIDATION")'
    BY <1>0, <1>q, <1>18, LoggedFacts DEF ReadyForValidation
  <2>3. /\ status[j] # "NONE" /\ UNCHANGED <<request, entry>>
        /\ \A k \in Jobs : k # j => status'[k] = status[k]
    BY <1>0, <1>q, <1>18, AdvanceFacts, LoggedFacts DEF ReadyForValidation, RecordInv
  <2>4. Logged(j, "READY_FOR_VALIDATION")'
    BY <1>0, <1>q, <1>18, LoggedFacts DEF ReadyForValidation
  <2> QED
    BY <1>0, <1>q, <1>18, AdvanceFacts, <2>1, <2>2, <2>3, <2>4 DEF ReadyForValidation, HandOnInv
<1>19. ASSUME NEW j \in Jobs, OcrWorkerRecognise(j) \/ OcrWorkerFallback(j) PROVE HandOnInv'
  BY <1>0, <1>q, <1>19, AdvanceFacts
     DEF OcrWorkerRecognise, OcrWorkerFallback, HandOnInv, Placed, Logged
<1>20. ASSUME NEW j \in Jobs, OcrResultLogFails(j) PROVE HandOnInv'
  BY <1>0, <1>q, <1>20, AdvanceFacts
     DEF OcrResultLogFails, HandOnInv, Placed, Logged
<1>21. CASE UNCHANGED vars
  BY <1>0, <1>21 DEF vars, HandOnInv, Placed, Logged
<1> QED
  BY <1>1, <1>2, <1>3, <1>4, <1>5, <1>6, <1>7, <1>8, <1>9, <1>10, <1>11, <1>12, <1>13,
     <1>14, <1>15, <1>16, <1>17, <1>18, <1>19, <1>20, <1>21 DEF Next, Request, Handle

LEMMA HandOnAccounts ==
    ASSUME IInv, HandOnInv
    PROVE  Accounted
<1> SUFFICES ASSUME NEW j \in Jobs, status[j] # "NONE", request[j] # "enqueue",
                    \A q \in Queues : entry[q][j] \notin {"waiting", "active"},
                    ~Logged(j, "READY_FOR_VALIDATION")
             PROVE  GivenUp(j)
  BY DEF Accounted
<1>q. Queues = {"OCR", "CLASSIFICATION", "OCR_RESULT", "RESULT"}
  BY DEF Queues, BackendQueues, ResultQueues
<1>1. \A q \in Queues : entry[q][j] \in {"absent", "completed", "failed"}
  BY DEF IInv, TypeOK, EntryStates
<1>2. CASE Placed(j)
  <2>1. \E q \in Queues : entry[q][j] = "failed"
    BY <1>q, <1>1, <1>2 DEF HandOnInv, Placed
  <2> QED BY <2>1 DEF GivenUp
<1>3. CASE ~Placed(j)
  <2>1. request[j] = "lost"
    BY <1>3 DEF HandOnInv
  <2> QED BY <1>3, <2>1 DEF Placed, GivenUp
<1> QED BY <1>2, <1>3

\* No recorded import falls between two queues, whatever handlers throw, stall and repeat: it
\* still has work under way, it is ready, its request was lost, or BullMQ keeps the failed
\* entry it was given up with.  The row does not tell which (FailureEndsFailed).  Of more
\* jobs than removeOnFail keeps a failed one may be forgotten.
THEOREM NothingDropped ==
    ASSUME FailuresStay
    PROVE  Spec => []Accounted
<1>1. Init => HandOnInv
  <2> SUFFICES ASSUME Init PROVE HandOnInv
    OBVIOUS
  <2>1. {"OCR", "CLASSIFICATION", "OCR_RESULT", "RESULT"} \subseteq Queues
    BY DEF Queues, BackendQueues, ResultQueues
  <2> QED BY <2>1 DEF Init, HandOnInv
<1>2. IInv /\ HandOnInv /\ [Next]_vars => HandOnInv'
  BY HandOnStep
<1>3. IInv /\ HandOnInv => Accounted
  BY HandOnAccounts
<1>4. QED
  BY <1>1, <1>2, <1>3, Inductive, PTL DEF Spec

-----------------------------------------------------------------------------
(* The pipeline implements its contract.                                   *)

\* A step that writes neither status, journal, candidates nor RESULT's stalls is a stutter.
LEMMA ContractStutter ==
    ASSUME UNCHANGED <<status, journal, candidates>>, stalls'["RESULT"] = stalls["RESULT"]
    PROVE  UNCHANGED Contract!vars
<1>1. {j \in Jobs : status'[j] # "NONE"} = {j \in Jobs : status[j] # "NONE"}
  OBVIOUS
<1>2. ASSUME NEW t PROVE {j \in Jobs : Logged(j, t)}' = {j \in Jobs : Logged(j, t)}
  BY DEF Logged
<1> QED BY <1>1, <1>2 DEF Contract!vars, Recorded

\* A status other than OCR_DONE and READY_FOR_VALIDATION at most records a new job.
LEMMA ContractRecord ==
    ASSUME TypeOK, NEW j \in Jobs,
           NEW s \in {"PENDING", "OCR_RUNNING", "CLASSIFICATION_RUNNING"}, Transition(j, s),
           UNCHANGED <<stalls, candidates>>
    PROVE  Contract!Record(j) \/ UNCHANGED Contract!vars
<1>1. s \in Status /\ s # "NONE" /\ {"OCR_DONE", "READY_FOR_VALIDATION"} \subseteq Status
  BY DEF Status
<1>2. {k \in Jobs : status'[k] # "NONE"} = {k \in Jobs : status[k] # "NONE"} \cup {j}
  BY <1>1, LoggedFacts
<1>3. {k \in Jobs : Logged(k, "OCR_DONE")}' = {k \in Jobs : Logged(k, "OCR_DONE")}
  BY <1>1, LoggedFacts
<1>4. {k \in Jobs : Logged(k, "READY_FOR_VALIDATION")}'
      = {k \in Jobs : Logged(k, "READY_FOR_VALIDATION")}
  BY <1>1, LoggedFacts
<1> QED BY <1>2, <1>3, <1>4 DEF Contract!Record, Contract!vars, Recorded

LEMMA ContractStep ==
    ASSUME IInv, [Next]_vars
    PROVE  [Contract!Next]_(Contract!vars)
<1> USE DEF requestVars, jobVars, queueVars, aiVars
<1>0. TypeOK /\ HandlerInv /\ RecordInv /\ ProvenanceInv /\ CandidateInv
  BY DEF IInv
<1>q. /\ {"OCR", "CLASSIFICATION", "OCR_RESULT", "RESULT"} \subseteq Queues
      /\ {"OCR_DONE", "READY_FOR_VALIDATION"} \subseteq Status
      /\ "RESULT" \in ResultQueues
  BY DEF Queues, BackendQueues, ResultQueues, Status
<1>a. ASSUME NEW j \in Jobs, NEW q \in Queues, Add(q, j), UNCHANGED <<status, journal, candidates>>
      PROVE  UNCHANGED Contract!vars
  <2>1. stalls' \in [Queues -> [Jobs -> Nat]]
    BY <1>0, <1>a, AddTyped
  <2>2. \A k \in Jobs : stalls'["RESULT"][k] = stalls["RESULT"][k]
    BY <1>0, <1>q, <1>a, AddFacts DEF CandidateInv
  <2>3. stalls'["RESULT"] = stalls["RESULT"]
    BY <1>0, <1>q, <2>1, <2>2 DEF TypeOK
  <2> QED BY <1>a, <2>3, ContractStutter
<1>1. ASSUME NEW j \in Jobs, EnforceDailyQuota(j) PROVE UNCHANGED Contract!vars
  BY <1>1, ContractStutter DEF EnforceDailyQuota
<1>2. ASSUME NEW j \in Jobs, PutObject(j) PROVE UNCHANGED Contract!vars
  BY <1>2, ContractStutter DEF PutObject
<1>3. ASSUME NEW j \in Jobs, CreateWithAttachment(j)
      PROVE  Contract!Record(j) \/ UNCHANGED Contract!vars
  BY <1>0, <1>3, ContractRecord DEF CreateWithAttachment
<1>4. ASSUME NEW j \in Jobs, EnqueueFirst(j) PROVE UNCHANGED Contract!vars
  BY <1>q, <1>4, <1>a DEF EnqueueFirst
<1>5. ASSUME NEW j \in Jobs, MarkRunning(j)
      PROVE  Contract!Record(j) \/ UNCHANGED Contract!vars
  BY <1>0, <1>5, ContractRecord DEF MarkRunning
<1>6. ASSUME NEW j \in Jobs, LoseRequest(j) PROVE UNCHANGED Contract!vars
  BY <1>6, ContractStutter DEF LoseRequest
<1>7. ASSUME NEW j \in Jobs, NEW q \in Queues, Take(q, j) PROVE UNCHANGED Contract!vars
  BY <1>7, ContractStutter DEF Take
<1>8. ASSUME NEW j \in Jobs, NEW q \in Queues, Complete(q, j) PROVE UNCHANGED Contract!vars
  BY <1>8, ContractStutter DEF Complete
<1>9. ASSUME NEW j \in Jobs, NEW q \in Queues, Throw(q, j) PROVE UNCHANGED Contract!vars
  BY <1>9, ContractStutter DEF Throw
<1>10. ASSUME NEW j \in Jobs, NEW q \in Queues, Stall(q, j)
       PROVE  Contract!Redeliver(j) \/ UNCHANGED Contract!vars
  <2>1. UNCHANGED <<status, journal, candidates>> /\ stalls' = [stalls EXCEPT ![q][j] = @ + 1]
        /\ entry[q][j] = "active"
    BY <1>10 DEF Stall
  <2>2. CASE q # "RESULT"
    BY <1>0, <1>q, <2>1, <2>2, ContractStutter DEF TypeOK
  <2>3. CASE q = "RESULT"
    <3>1. stalls'["RESULT"] = [stalls["RESULT"] EXCEPT ![j] = @ + 1]
      BY <1>0, <1>q, <2>1, <2>3 DEF TypeOK
    <3>2. j \in {k \in Jobs : status[k] # "NONE"}
      BY <1>0, <1>q, <2>1, <2>3 DEF RecordInv
    <3>3. /\ {k \in Jobs : Logged(k, "OCR_DONE")}' = {k \in Jobs : Logged(k, "OCR_DONE")}
          /\ {k \in Jobs : Logged(k, "READY_FOR_VALIDATION")}'
             = {k \in Jobs : Logged(k, "READY_FOR_VALIDATION")}
      BY <2>1 DEF Logged
    <3> QED BY <2>1, <3>1, <3>2, <3>3 DEF Contract!Redeliver, Recorded
  <2> QED BY <2>2, <2>3
<1>11. ASSUME NEW j \in Jobs, OcrWorkerPublish(j) PROVE UNCHANGED Contract!vars
  BY <1>q, <1>11, <1>a DEF OcrWorkerPublish
<1>12. ASSUME NEW j \in Jobs, ClassifierWorkerPublish(j) PROVE UNCHANGED Contract!vars
  BY <1>q, <1>12, <1>a DEF ClassifierWorkerPublish
<1>13. ASSUME NEW j \in Jobs, OcrResultLog(j) PROVE UNCHANGED Contract!vars
  BY <1>13, ContractStutter DEF OcrResultLog
<1>14. ASSUME NEW j \in Jobs, OcrResultDone(j)
       PROVE  Contract!Recognise(j) \/ UNCHANGED Contract!vars
  <2>1. /\ Transition(j, "OCR_DONE") /\ UNCHANGED <<stalls, candidates>>
        /\ entry["OCR_RESULT"][j] # "absent"
    BY <1>0, <1>q, <1>14, AdvanceFacts DEF OcrResultDone
  <2>2. j \in {k \in Jobs : status[k] # "NONE"}
    BY <1>0, <1>q, <2>1 DEF RecordInv
  <2>3. /\ \A k \in Jobs : status'[k] = IF k = j THEN "OCR_DONE" ELSE status[k]
        /\ \A k \in Jobs, t \in Status : Logged(k, t)' <=> Logged(k, t) \/ (k = j /\ t = "OCR_DONE")
    BY <1>0, <1>q, <2>1, LoggedFacts
  <2>4. {k \in Jobs : status'[k] # "NONE"} = {k \in Jobs : status[k] # "NONE"}
    BY <2>2, <2>3
  <2>5. {k \in Jobs : Logged(k, "OCR_DONE")}' = {k \in Jobs : Logged(k, "OCR_DONE")} \cup {j}
    BY <1>q, <2>3
  <2>6. {k \in Jobs : Logged(k, "READY_FOR_VALIDATION")}'
        = {k \in Jobs : Logged(k, "READY_FOR_VALIDATION")}
    BY <1>q, <2>3
  <2>7. j \notin Texts
    BY <1>0, <2>1 DEF ProvenanceInv
  <2> QED BY <2>1, <2>2, <2>4, <2>5, <2>6, <2>7 DEF Contract!Recognise, Recorded
<1>15. ASSUME NEW j \in Jobs, OcrResultEnqueue(j) PROVE UNCHANGED Contract!vars
  BY <1>q, <1>15, <1>a DEF OcrResultEnqueue
<1>16. ASSUME NEW j \in Jobs, OcrResultRunning(j)
       PROVE  Contract!Record(j) \/ UNCHANGED Contract!vars
  BY <1>0, <1>16, ContractRecord DEF OcrResultRunning
<1>17. ASSUME NEW j \in Jobs, CreateFromClassification(j) PROVE Contract!Propose(j)
  <2>1. /\ entry["RESULT"][j] = "active" /\ step["RESULT"][j] = "create"
        /\ candidates' = [candidates EXCEPT ![j] = @ + 1]
        /\ UNCHANGED <<status, journal, stalls>>
    BY <1>0, <1>q, <1>17, AdvanceFacts DEF CreateFromClassification
  <2>2. candidates[j] <= stalls["RESULT"][j]
    BY <1>0, <2>1 DEF CandidateInv
  <2>3. j \in {k \in Jobs : status[k] # "NONE"}
    BY <1>0, <1>q, <2>1 DEF RecordInv
  <2>4. j \in Texts \/ j \in {k \in Jobs : Logged(k, "OCR_DONE")}
    BY <1>0, <2>1 DEF ProvenanceInv
  <2>5. /\ {k \in Jobs : Logged(k, "OCR_DONE")}' = {k \in Jobs : Logged(k, "OCR_DONE")}
        /\ {k \in Jobs : Logged(k, "READY_FOR_VALIDATION")}'
           = {k \in Jobs : Logged(k, "READY_FOR_VALIDATION")}
    BY <2>1 DEF Logged
  <2> QED BY <2>1, <2>2, <2>3, <2>4, <2>5 DEF Contract!Propose, Recorded
<1>18. ASSUME NEW j \in Jobs, ReadyForValidation(j) PROVE Contract!Announce(j)
  <2>1. /\ entry["RESULT"][j] = "active" /\ step["RESULT"][j] = "ready"
        /\ Transition(j, "READY_FOR_VALIDATION") /\ UNCHANGED <<candidates, stalls>>
    BY <1>0, <1>q, <1>18, AdvanceFacts DEF ReadyForValidation
  <2>2. candidates[j] > 0 /\ status[j] # "NONE"
    BY <1>0, <1>q, <2>1 DEF CandidateInv, RecordInv
  <2>3. /\ \A k \in Jobs : status'[k] = IF k = j THEN "READY_FOR_VALIDATION" ELSE status[k]
        /\ \A k \in Jobs, t \in Status :
              Logged(k, t)' <=> Logged(k, t) \/ (k = j /\ t = "READY_FOR_VALIDATION")
    BY <1>0, <1>q, <2>1, LoggedFacts
  <2>4. {k \in Jobs : status'[k] # "NONE"} = {k \in Jobs : status[k] # "NONE"}
    BY <2>2, <2>3
  <2>5. {k \in Jobs : Logged(k, "OCR_DONE")}' = {k \in Jobs : Logged(k, "OCR_DONE")}
    BY <1>q, <2>3
  <2>6. {k \in Jobs : Logged(k, "READY_FOR_VALIDATION")}'
        = {k \in Jobs : Logged(k, "READY_FOR_VALIDATION")} \cup {j}
    BY <1>q, <2>3
  <2> QED BY <2>1, <2>2, <2>4, <2>5, <2>6 DEF Contract!Announce, Recorded
<1>19. ASSUME NEW j \in Jobs, OcrWorkerRecognise(j) \/ OcrWorkerFallback(j)
       PROVE  UNCHANGED Contract!vars
  BY <1>19, ContractStutter DEF OcrWorkerRecognise, OcrWorkerFallback
<1>20. ASSUME NEW j \in Jobs, OcrResultLogFails(j) PROVE UNCHANGED Contract!vars
  BY <1>20, ContractStutter DEF OcrResultLogFails
<1>21. CASE UNCHANGED vars
  BY <1>21, ContractStutter DEF vars
<1> QED
  BY <1>1, <1>2, <1>3, <1>4, <1>5, <1>6, <1>7, <1>8, <1>9, <1>10, <1>11, <1>12, <1>13,
     <1>14, <1>15, <1>16, <1>17, <1>18, <1>19, <1>20, <1>21 DEF Next, Request, Handle, Contract!Next

\* Whatever the queues and the processes do, a behaviour of the pipeline is one of the
\* contract: recorded, recognised when it is an image, proposed once per delivery, then
\* announced.
THEOREM Refinement == Spec => ImplementsContract
<1>1. Init => Contract!Init
  <2> SUFFICES ASSUME Init PROVE Contract!Init
    OBVIOUS
  <2>1. \A j \in Jobs : \A t : ~Logged(j, t)
    BY DEF Init, Logged
  <2>2. stalls["RESULT"] = [j \in Jobs |-> 0]
    BY DEF Init, Queues, ResultQueues
  <2> QED BY <2>1, <2>2 DEF Init, Contract!Init, Recorded
<1>2. IInv /\ [Next]_vars => [Contract!Next]_(Contract!vars)
  BY ContractStep
<1>3. QED
  BY <1>1, <1>2, Inductive, PTL DEF Spec, ImplementsContract, Contract!Spec

=============================================================================
