------------------------ MODULE BatchCollector_proofs ------------------------
(***************************************************************************)
(* Proofs of BatchCollector: type correctness, that nothing which has been *)
(* recorded outside of the reports' windows is lost, and that nothing is   *)
(* shown more often than reports have overlapped, for any number of        *)
(* callers, flushers and workers and any number of calls.                  *)
(***************************************************************************)
EXTENDS BatchCollector, FiniteSetTheorems, TLAPS

(***************************************************************************)
(* The shape of a report: each counter that is summed is exported at one   *)
(* place and zeroed at a later one, and these places bound its window.     *)
(***************************************************************************)
LEMMA ReportLength == Len(report) = 30 /\ DOMAIN report = 1 .. 30
  BY DEF report

Places(c, e, z) ==
  \A i \in 1 .. 30 : /\ (report[i] = <<"export", c>>) <=> (i = e)
                     /\ (report[i] = <<"reset", c>>) <=> (i = z)

LEMMA ReportPlaces ==
  ASSUME NEW c \in Summed
  PROVE  \E e, z \in 1 .. 30 : e < z /\ Places(c, e, z)
<1>1. CASE c = "writeCounts"
  <2>1. Places("writeCounts", 1, 11) BY DEF Places, report
  <2>2. 1 \in 1 .. 30 /\ 11 \in 1 .. 30 /\ 1 < 11 OBVIOUS
  <2> QED BY <2>1, <2>2, <1>1, Zenon
<1>2. CASE c = "writeSizes"
  <2>1. Places("writeSizes", 2, 10) BY DEF Places, report
  <2>2. 2 \in 1 .. 30 /\ 10 \in 1 .. 30 /\ 2 < 10 OBVIOUS
  <2> QED BY <2>1, <2>2, <1>2, Zenon
<1>3. CASE c = "writeErrors"
  <2>1. Places("writeErrors", 3, 12) BY DEF Places, report
  <2>2. 3 \in 1 .. 30 /\ 12 \in 1 .. 30 /\ 3 < 12 OBVIOUS
  <2> QED BY <2>1, <2>2, <1>3, Zenon
<1>4. CASE c = "readCounts"
  <2>1. Places("readCounts", 13, 16) BY DEF Places, report
  <2>2. 13 \in 1 .. 30 /\ 16 \in 1 .. 30 /\ 13 < 16 OBVIOUS
  <2> QED BY <2>1, <2>2, <1>4, Zenon
<1>5. CASE c = "readSizes"
  <2>1. Places("readSizes", 14, 17) BY DEF Places, report
  <2>2. 14 \in 1 .. 30 /\ 17 \in 1 .. 30 /\ 14 < 17 OBVIOUS
  <2> QED BY <2>1, <2>2, <1>5, Zenon
<1>6. CASE c = "readErrors"
  <2>1. Places("readErrors", 15, 18) BY DEF Places, report
  <2>2. 15 \in 1 .. 30 /\ 18 \in 1 .. 30 /\ 15 < 18 OBVIOUS
  <2> QED BY <2>1, <2>2, <1>6, Zenon
<1>7. CASE c = "asyncInc"
  <2>1. Places("asyncInc", 19, 25) BY DEF Places, report
  <2>2. 19 \in 1 .. 30 /\ 25 \in 1 .. 30 /\ 19 < 25 OBVIOUS
  <2> QED BY <2>1, <2>2, <1>7, Zenon
<1>8. CASE c = "asyncDec"
  <2>1. Places("asyncDec", 20, 26) BY DEF Places, report
  <2>2. 20 \in 1 .. 30 /\ 26 \in 1 .. 30 /\ 20 < 26 OBVIOUS
  <2> QED BY <2>1, <2>2, <1>8, Zenon
<1>9. CASE c = "poolAlloc"
  <2>1. Places("poolAlloc", 21, 30) BY DEF Places, report
  <2>2. 21 \in 1 .. 30 /\ 30 \in 1 .. 30 /\ 21 < 30 OBVIOUS
  <2> QED BY <2>1, <2>2, <1>9, Zenon
<1>10. CASE c = "switchCounts"
  <2>1. Places("switchCounts", 22, 27) BY DEF Places, report
  <2>2. 22 \in 1 .. 30 /\ 27 \in 1 .. 30 /\ 22 < 27 OBVIOUS
  <2> QED BY <2>1, <2>2, <1>10, Zenon
<1> QED BY <1>1, <1>2, <1>3, <1>4, <1>5, <1>6, <1>7, <1>8, <1>9, <1>10 DEF Summed, Counters, Active

LEMMA WindowSteps ==
  ASSUME NEW c \in Summed
  PROVE  /\ WindowOf[c] \subseteq 1 .. 30
         /\ 1 \notin WindowOf[c]
         /\ \A p \in 1 .. 30 :
              /\ report[p] = <<"export", c>> => p < 30 /\ p \notin WindowOf[c]
                                                     /\ p + 1 \in WindowOf[c]
              /\ report[p] = <<"reset", c>> => p \in WindowOf[c] /\ p + 1 \notin WindowOf[c]
              /\ p \notin WindowOf[c] /\ p + 1 \in WindowOf[c] => report[p] = <<"export", c>>
              /\ p \in WindowOf[c] /\ (p = 30 \/ p + 1 \notin WindowOf[c])
                   => report[p] = <<"reset", c>>
<1>1. PICK e \in 1 .. 30, z \in 1 .. 30 : e < z /\ Places(c, e, z)
  BY ReportPlaces
<1>2. WindowOf[c] = {p \in 1 .. 30 : /\ \E i \in 1 .. p - 1 : report[i] = <<"export", c>>
                                      /\ \E j \in p .. 30 : report[j] = <<"reset", c>>}
  BY ReportLength DEF WindowOf, Summed
<1>3. \A p \in 1 .. 30 : (\E i \in 1 .. p - 1 : report[i] = <<"export", c>>) <=> e < p
  BY <1>1 DEF Places
<1>4. \A p \in 1 .. 30 : (\E j \in p .. 30 : report[j] = <<"reset", c>>) <=> p <= z
  BY <1>1 DEF Places
<1>5. \A p : p \in WindowOf[c] <=> p \in 1 .. 30 /\ e < p /\ p <= z
  BY <1>2, <1>3, <1>4
<1>6. \A p \in 1 .. 30 : /\ (report[p] = <<"export", c>>) <=> (p = e)
                         /\ (report[p] = <<"reset", c>>) <=> (p = z)
  BY <1>1 DEF Places
<1> QED BY <1>1, <1>5, <1>6

(***************************************************************************)
(* Which steps the scripts are made of.                                    *)
(***************************************************************************)
LEMMA ReportSteps ==
  ASSUME NEW p \in 1 .. 30
  PROVE  /\ report[p] = <<report[p][1], report[p][2]>>
         /\ report[p][1] \in {"export", "load", "gauge", "count", "reset"}
         /\ report[p][2] \in Counters
         /\ report[p][1] \in {"load", "gauge"} => report[p][2] \in Active
         /\ report[p][1] = "count" => report[p][2] = "skipSwitchCounts"
  BY DEF report, Counters, Active

AddOrStore(s) ==
  /\ Len(s) \in Nat \ {0} /\ DOMAIN s = 1 .. Len(s)
  /\ \A p \in DOMAIN s : /\ s[p] = <<s[p][1], s[p][2]>> /\ s[p][2] \in Counters
                         /\ s[p][1] \in {"add", "store"}
                         /\ s[p][1] = "store" => s[p][2] = "switchLatency"

LEMMA RecordSteps ==
  ASSUME NEW k \in DOMAIN Records
  PROVE  AddOrStore(Records[k])
<1>1. AddOrStore(Records["RecordWrite"]) BY DEF AddOrStore, Records, Counters, Active
<1>2. AddOrStore(Records["RecordWriteError"]) BY DEF AddOrStore, Records, Counters, Active
<1>3. AddOrStore(Records["RecordRead"]) BY DEF AddOrStore, Records, Counters, Active
<1>4. AddOrStore(Records["RecordReadError"]) BY DEF AddOrStore, Records, Counters, Active
<1>5. AddOrStore(Records["RecordSwitch"]) BY DEF AddOrStore, Records, Counters, Active
<1>6. AddOrStore(Records["RecordSkip"]) BY DEF AddOrStore, Records, Counters, Active
<1>7. AddOrStore(Records["ObserveAsyncInc"]) BY DEF AddOrStore, Records, Counters, Active
<1>8. AddOrStore(Records["ObserveAsyncDec"]) BY DEF AddOrStore, Records, Counters, Active
<1>9. AddOrStore(Records["RecordPoolAlloc"]) BY DEF AddOrStore, Records, Counters, Active
<1>10. DOMAIN Records = {"RecordWrite", "RecordWriteError", "RecordRead", "RecordReadError", "RecordSwitch",
                         "RecordSkip", "ObserveAsyncInc", "ObserveAsyncDec", "RecordPoolAlloc"}
  BY DEF Records
<1> QED BY <1>1, <1>2, <1>3, <1>4, <1>5, <1>6, <1>7, <1>8, <1>9, <1>10

LEMMA ScriptSteps ==
  ASSUME NEW k \in Calls
  PROVE  /\ Len(Script[k]) \in Nat \ {0} /\ DOMAIN Script[k] = 1 .. Len(Script[k])
         /\ \A p \in DOMAIN Script[k] : /\ Script[k][p] = <<Script[k][p][1], Script[k][p][2]>>
                                        /\ Script[k][p][2] \in Counters
<1>1. CASE k = "report"
  <2>1. Script[k] = report BY <1>1 DEF Script
  <2> QED BY <2>1, ReportSteps, ReportLength
<1>2. CASE k # "report"
  <2>1. k \in DOMAIN Records /\ Script[k] = Records[k] BY <1>2 DEF Script, Calls
  <2> QED BY <2>1, RecordSteps DEF AddOrStore
<1> QED BY <1>1, <1>2

LEMMA CurrentStep ==
  ASSUME TypeOK, NEW t \in Threads, call[t] # "none"
  PROVE  /\ call[t] \in Calls /\ at[t] \in 1 .. Len(Script[call[t]])
         /\ Len(Script[call[t]]) \in Nat \ {0}
         /\ Current(t) = <<Current(t)[1], Current(t)[2]>> /\ Current(t)[2] \in Counters
<1>1. call[t] \in Calls /\ at[t] \in DOMAIN Script[call[t]]
  BY DEF TypeOK
<1> QED BY <1>1, ScriptSteps DEF Current

LEMMA StepKinds ==
  ASSUME TypeOK, NEW t \in Threads, call[t] # "none", NEW do, NEW c, Current(t) = <<do, c>>
  PROVE  /\ do \in {"export", "reset"} => call[t] = "report"
         /\ do = "add" => call[t] # "report"
         /\ do \in {"load", "gauge"} => c \in Active
         /\ do \in {"store", "load", "gauge", "count"} => c \notin Summed
<1>1. call[t] \in Calls /\ at[t] \in DOMAIN Script[call[t]]
  BY DEF TypeOK
<1>2. CASE call[t] = "report"
  <2>1. Script[call[t]] = report BY <1>1, <1>2 DEF Script
  <2>2. at[t] \in 1 .. 30 /\ report[at[t]] = <<do, c>> BY <1>1, <2>1, ReportLength DEF Current
  <2>3. report[at[t]][1] = do /\ report[at[t]][2] = c BY <2>2
  <2> QED BY <1>2, <2>2, <2>3, ReportSteps DEF Summed, Active
<1>3. CASE call[t] # "report"
  <2>1. call[t] \in DOMAIN Records /\ Script[call[t]] = Records[call[t]]
    BY <1>1, <1>3 DEF Script, Calls
  <2>2. Current(t) = Records[call[t]][at[t]] /\ at[t] \in DOMAIN Records[call[t]]
    BY <1>1, <2>1 DEF Current
  <2>3. Records[call[t]][at[t]][1] = do /\ Records[call[t]][at[t]][2] = c BY <2>2
  <2> QED BY <1>3, <2>1, <2>2, <2>3, RecordSteps DEF AddOrStore, Summed
<1> QED BY <1>2, <1>3

-----------------------------------------------------------------------------
(***************************************************************************)
(* Type correctness.                                                       *)
(***************************************************************************)
CallTypeOK ==
  /\ call \in [Threads -> Calls \cup {"none"}] /\ at \in [Threads -> Nat]
  /\ \A t \in Threads :
       IF call[t] = "none" THEN at[t] = 0 ELSE at[t] \in DOMAIN Script[call[t]]

LEMMA NoneIsNoCall == "none" \notin Calls
  BY DEF Calls, Records

LEMMA AdvanceType ==
  ASSUME TypeOK, NEW t \in Threads, call[t] # "none", Advance(t)
  PROVE  CallTypeOK'
<1>1. call \in [Threads -> Calls \cup {"none"}] /\ at \in [Threads -> Nat]
  BY DEF TypeOK
<1>2. DOMAIN Script[call[t]] = 1 .. Len(Script[call[t]]) /\ Len(Script[call[t]]) \in Nat
  BY ScriptSteps, CurrentStep
<1>3. \A u \in Threads : IF call[u] = "none" THEN at[u] = 0 ELSE at[u] \in DOMAIN Script[call[u]]
  BY DEF TypeOK
<1>4. CASE at[t] < Len(Script[call[t]])
  <2>1. at' = [at EXCEPT ![t] = at[t] + 1] /\ call' = call
    BY <1>4 DEF Advance
  <2> QED BY <1>1, <1>2, <1>3, <1>4, <2>1 DEF CallTypeOK
<1>5. CASE ~(at[t] < Len(Script[call[t]]))
  <2>1. at' = [at EXCEPT ![t] = 0] /\ call' = [call EXCEPT ![t] = "none"]
    BY <1>5 DEF Advance
  <2> QED BY <1>1, <1>3, <2>1 DEF CallTypeOK
<1> QED BY <1>4, <1>5

LEMMA EnterType ==
  ASSUME TypeOK, NEW t \in Threads, NEW name \in Calls, Enter(t, name)
  PROVE  CallTypeOK'
<1>1. call \in [Threads -> Calls \cup {"none"}] /\ at \in [Threads -> Nat]
  BY DEF TypeOK
<1>2. 1 \in DOMAIN Script[name]
  BY ScriptSteps
<1>3. \A u \in Threads : IF call[u] = "none" THEN at[u] = 0 ELSE at[u] \in DOMAIN Script[call[u]]
  BY DEF TypeOK
<1> QED BY <1>1, <1>2, <1>3, NoneIsNoCall DEF Enter, CallTypeOK

LEMMA PartFinite ==
  ASSUME NEW W \in SUBSET Threads
  PROVE  IsFiniteSet(W) /\ Cardinality(W) \in Nat
BY CollectorAssumption, FS_Subset, FS_CardinalityType

LEMMA TogetherGrows ==
  ASSUME TypeOK, NEW t \in Threads, NEW c, Export(t, c)
  PROVE  /\ together' \in Nat /\ together <= together'
         /\ Cardinality(Window(c)) + 1 <= together'
<1>1. together \in Nat
  BY DEF TypeOK
<1>2. Window(c) \in SUBSET Threads
  BY DEF Window
<1>3. Cardinality(Window(c)) \in Nat
  BY <1>2, PartFinite
<1>4. together' = IF Cardinality(Window(c)) < together THEN together ELSE Cardinality(Window(c)) + 1
  BY DEF Export
<1> QED BY <1>1, <1>3, <1>4

LEMMA TypeStep ==
  ASSUME TypeOK, [Next]_vars
  PROVE  TypeOK'
<1> USE DEF TypeOK
<1>1. ASSUME NEW t \in Threads, Step(t)
      PROVE  TypeOK'
  <2>1. PICK c : \/ Add(t, c) \/ Store(t, c) \/ Export(t, c) \/ Load(t, c)
                 \/ Gauge(t, c) \/ Count(t, c) \/ Zero(t, c)
    BY <1>1 DEF Step
  <2>2. call[t] # "none" /\ Takes(t, Current(t)[1], c)
    BY <1>1, <2>1 DEF Step, Add, Store, Export, Load, Gauge, Count, Zero, Takes
  <2>3. c \in Counters /\ CallTypeOK'
    BY <2>2, CurrentStep, AdvanceType DEF Takes
  <2>4. CASE Add(t, c) BY <2>3, <2>4 DEF Add, CallTypeOK, workVars, boundVars
  <2>5. CASE Store(t, c) BY <2>3, <2>5 DEF Store, CallTypeOK, workVars, boundVars
  <2>6. CASE Export(t, c)
    <3>1. together' \in Nat BY <2>6, TogetherGrows
    <3> QED BY <2>3, <2>6, <3>1 DEF Export, CallTypeOK, workVars, boundVars
  <2>7. CASE Load(t, c) BY <2>3, <2>7 DEF Load, CallTypeOK, workVars, boundVars, historyVars
  <2>8. CASE Gauge(t, c)
    <3>1. c \in Active BY <2>2, <2>8, StepKinds DEF Gauge, Takes
    <3> QED BY <2>3, <2>8, <3>1 DEF Gauge, CallTypeOK, workVars, boundVars, historyVars
  <2>9. CASE Count(t, c) BY <2>3, <2>9 DEF Count, CallTypeOK, workVars, boundVars, historyVars
  <2>10. CASE Zero(t, c) BY <2>3, <2>10 DEF Zero, CallTypeOK, workVars, boundVars, historyVars
  <2> QED BY <2>1, <2>4, <2>5, <2>6, <2>7, <2>8, <2>9, <2>10
<1>2. ASSUME NEW t \in Callers, NEW name \in Recorded, Record(t, name)
      PROVE  TypeOK'
  <2>1. t \in Threads /\ name \in Calls BY CollectorAssumption DEF Threads, Calls
  <2>2. CallTypeOK' BY <1>2, <2>1, EnterType DEF Record
  <2> QED BY <1>2, <2>2, CollectorAssumption DEF Record, Enter, CallTypeOK, workVars, historyVars
<1>3. ASSUME NEW t \in Flushers, Flush(t)
      PROVE  TypeOK'
  <2>1. t \in Threads /\ "report" \in Calls BY DEF Threads, Calls
  <2>2. CallTypeOK' BY <1>3, <2>1, EnterType DEF Flush, BeginReport
  <2> QED BY <1>3, <2>2, CollectorAssumption
          DEF Flush, BeginReport, Enter, CallTypeOK, workVars, historyVars
<1>4. ASSUME NEW w \in Workers, WorkerTick(w)
      PROVE  TypeOK'
  <2>1. w \in Threads /\ "report" \in Calls BY DEF Threads, Calls
  <2>2. CallTypeOK' BY <1>4, <2>1, EnterType DEF WorkerTick, BeginReport
  <2> QED BY <1>4, <2>2
          DEF WorkerTick, BeginReport, Enter, CallTypeOK, workVars, boundVars, historyVars
<1>5. ASSUME NEW w \in Workers, Start(w)
      PROVE  TypeOK'
  BY <1>5 DEF Start, callVars, boundVars, historyVars
<1>6. ASSUME NEW w \in Workers, WorkerStop(w)
      PROVE  TypeOK'
  BY <1>6 DEF WorkerStop, callVars, boundVars, historyVars
<1>7. CASE Stop
  BY <1>7 DEF Stop, callVars, boundVars, historyVars
<1>8. CASE UNCHANGED vars
  BY <1>8 DEF vars, callVars, workVars, boundVars, historyVars
<1> QED BY <1>1, <1>2, <1>3, <1>4, <1>5, <1>6, <1>7, <1>8 DEF Next

(***************************************************************************)
(* The variables keep their types: a call is always at one of its steps.   *)
(* (metrics/batch_collector.go:47)                                         *)
(***************************************************************************)
THEOREM TypeOKAlways == Spec => []TypeOK
<1>1. Init => TypeOK
  <2>1. Init => {counter, exported, recorded, safe} \subseteq [Counters -> Nat]
    BY DEF Init
  <2>2. Init => CallTypeOK /\ loaded \in [Threads -> [Active -> Nat]]
    BY DEF Init, CallTypeOK
  <2>3. Init => /\ ended \subseteq started /\ started \subseteq Workers
                /\ records \in 0 .. MaxRecords /\ flushes \in 0 .. MaxFlushes
    BY CollectorAssumption DEF Init
  <2>4. Init => closed \in BOOLEAN
    BY Zenon DEF Init
  <2>5. Init => together \in Nat
    BY DEF Init
  <2> QED BY <2>1, <2>2, <2>3, <2>4, <2>5 DEF TypeOK, CallTypeOK
<1>2. TypeOK /\ [Next]_vars => TypeOK'
  BY TypeStep
<1> QED BY <1>1, <1>2, PTL DEF Spec

-----------------------------------------------------------------------------
(***************************************************************************)
(* Who enters a window and who leaves it.                                  *)
(***************************************************************************)
LEMMA Others ==
  ASSUME TypeOK, NEW t \in Threads, Advance(t), NEW u \in Threads \ {t}
  PROVE  call'[u] = call[u] /\ at'[u] = at[u]
BY DEF Advance, TypeOK

LEMMA Moves ==
  ASSUME TypeOK, NEW t \in Threads, call[t] # "none", Advance(t), NEW c \in Summed
  PROVE  /\ \A u \in Threads \ {t} : InWindow(u, c)' <=> InWindow(u, c)
         /\ InWindow(t, c)' /\ ~InWindow(t, c) => Current(t) = <<"export", c>>
         /\ InWindow(t, c) /\ ~InWindow(t, c)' => Current(t) = <<"reset", c>>
         /\ Current(t) = <<"export", c>> => ~InWindow(t, c) /\ InWindow(t, c)'
         /\ Current(t) = <<"reset", c>> => InWindow(t, c)
         /\ \A u \in Threads : call'[u] = "report" => call[u] = "report"
<1>1. \A u \in Threads \ {t} : call'[u] = call[u] /\ at'[u] = at[u]
  BY Others
<1>2. call \in [Threads -> Calls \cup {"none"}] /\ at \in [Threads -> Nat]
  BY DEF TypeOK
<1>3. CASE call[t] = "report"
  <2>1. Script["report"] = report BY DEF Script, Calls
  <2>2. Len(report) = 30 /\ at[t] \in 1 .. 30 /\ Current(t) = report[at[t]]
    BY <1>3, <2>1, CurrentStep, ReportLength DEF Current
  <2>3. CASE at[t] < 30
    <3>1. at'[t] = at[t] + 1 /\ call' = call BY <1>2, <1>3, <2>1, <2>2, <2>3 DEF Advance
    <3> QED BY <1>1, <1>3, <2>2, <2>3, <3>1, WindowSteps DEF InWindow
  <2>4. CASE at[t] = 30
    <3>1. call'[t] = "none" BY <1>2, <1>3, <2>1, <2>2, <2>4 DEF Advance
    <3> QED BY <1>1, <1>3, <2>2, <2>4, <3>1, WindowSteps DEF InWindow
  <2> QED BY <2>2, <2>3, <2>4
<1>4. CASE call[t] # "report"
  <2>1. call'[t] # "report" BY <1>2, <1>4 DEF Advance
  <2>2. Current(t) # <<"export", c>> /\ Current(t) # <<"reset", c>> BY <1>4, StepKinds
  <2> QED BY <1>1, <1>4, <2>1, <2>2 DEF InWindow
<1> QED BY <1>3, <1>4

LEMMA EnterMoves ==
  ASSUME TypeOK, NEW t \in Threads, NEW name, Enter(t, name), NEW c \in Summed
  PROVE  /\ \A u \in Threads : InWindow(u, c)' <=> InWindow(u, c)
         /\ \A u \in Threads \ {t} : call'[u] = call[u]
         /\ call'[t] = name
BY WindowSteps DEF Enter, InWindow, TypeOK

(***************************************************************************)
(* A step that is neither an Export, nor a Zero, nor an Add of c leaves c  *)
(* and its window as they are.                                             *)
(***************************************************************************)
SameOf(c) ==
  /\ counter'[c] = counter[c] /\ exported'[c] = exported[c]
  /\ recorded'[c] = recorded[c] /\ safe'[c] = safe[c]
  /\ \A u \in Threads : InWindow(u, c)' <=> InWindow(u, c)

LEMMA StepOf ==
  ASSUME TypeOK, NEW t \in Threads, Step(t), NEW c \in Summed
  PROVE  Add(t, c) \/ Export(t, c) \/ Zero(t, c) \/ SameOf(c)
<1>1. PICK d : \/ Add(t, d) \/ Store(t, d) \/ Export(t, d) \/ Load(t, d)
               \/ Gauge(t, d) \/ Count(t, d) \/ Zero(t, d)
  BY DEF Step
<1>2. call[t] # "none" /\ Takes(t, Current(t)[1], d)
  BY <1>1 DEF Step, Add, Store, Export, Load, Gauge, Count, Zero, Takes
<1>3. c \in Counters /\ {counter, exported, recorded, safe} \subseteq [Counters -> Nat]
  BY DEF Summed, TypeOK
<1>4. SUFFICES ASSUME ~(Add(t, c) \/ Export(t, c) \/ Zero(t, c))
               PROVE  SameOf(c)
  OBVIOUS
<1>5. Current(t) # <<"export", c>> /\ Current(t) # <<"reset", c>>
  BY <1>1, <1>2, <1>4 DEF Add, Store, Export, Load, Gauge, Count, Zero, Takes
<1>6. \A u \in Threads : InWindow(u, c)' <=> InWindow(u, c)
  BY <1>2, <1>5, Moves DEF Takes
<1>7. CASE Add(t, d)
  BY <1>1, <1>3, <1>4, <1>6, <1>7 DEF Add, SameOf
<1>8. CASE Store(t, d) \/ Load(t, d) \/ Gauge(t, d) \/ Count(t, d)
  <2>1. d # c BY <1>2, <1>8, StepKinds DEF Store, Load, Gauge, Count, Takes
  <2> QED BY <1>3, <1>6, <1>8, <2>1 DEF Store, Load, Gauge, Count, SameOf, historyVars
<1>9. CASE Export(t, d)
  BY <1>3, <1>4, <1>6, <1>9 DEF Export, SameOf, historyVars
<1>10. CASE Zero(t, d)
  BY <1>3, <1>4, <1>6, <1>10 DEF Zero, SameOf, historyVars
<1> QED BY <1>1, <1>7, <1>8, <1>9, <1>10

LEMMA OtherSteps ==
  ASSUME TypeOK, [Next]_vars, ~ \E t \in Threads : Step(t), NEW c \in Summed
  PROVE  SameOf(c)
<1>1. ASSUME NEW t \in Callers, NEW name \in Recorded, Record(t, name)
      PROVE  SameOf(c)
  BY <1>1, EnterMoves DEF Record, SameOf, historyVars, Threads
<1>2. ASSUME NEW t \in Threads, Flush(t) \/ WorkerTick(t)
      PROVE  SameOf(c)
  BY <1>2, EnterMoves DEF Flush, WorkerTick, BeginReport, SameOf, historyVars
<1>3. ASSUME NEW w \in Workers, Start(w) \/ WorkerStop(w) \/ Stop
      PROVE  SameOf(c)
  BY <1>3 DEF Start, WorkerStop, Stop, SameOf, InWindow, callVars, historyVars
<1>4. CASE UNCHANGED vars \/ Stop
  BY <1>4 DEF vars, Stop, SameOf, InWindow, callVars, historyVars
<1> QED BY <1>1, <1>2, <1>3, <1>4 DEF Next, Threads

-----------------------------------------------------------------------------
(***************************************************************************)
(* SafeIsKept is not inductive: a Zero of c keeps it because what was safe *)
(* when c was loaded has been shown, and nothing becomes safe meanwhile.   *)
(***************************************************************************)
KeptOf(c) ==
  /\ safe[c] <= exported[c] + counter[c]
  /\ \A t \in Threads : InWindow(t, c) => safe[c] <= exported[c]

LEMMA KeptStep ==
  ASSUME TypeOK, [Next]_vars, NEW c \in Summed, KeptOf(c)
  PROVE  KeptOf(c)'
<1>1. /\ c \in Counters /\ counter[c] \in Nat /\ exported[c] \in Nat /\ safe[c] \in Nat
      /\ {counter, exported, recorded, safe} \subseteq [Counters -> Nat]
  BY DEF Summed, TypeOK
<1>2. ASSUME SameOf(c)
      PROVE  KeptOf(c)'
  BY <1>2 DEF SameOf, KeptOf
<1>3. ASSUME NEW t \in Threads, Step(t)
      PROVE  KeptOf(c)'
  <2>1. call[t] # "none" BY <1>3 DEF Step
  <2>2. CASE Add(t, c)
    <3>1. \A u \in Threads : InWindow(u, c)' <=> InWindow(u, c)
      BY <2>1, <2>2, Moves, StepKinds DEF Add, Takes
    <3>2. counter'[c] = counter[c] + 1 /\ exported'[c] = exported[c]
      BY <1>1, <2>2 DEF Add
    <3>3. CASE Window(c) = {}
      <4>1. safe'[c] = safe[c] + 1 BY <1>1, <2>2, <3>3 DEF Add
      <4>2. \A u \in Threads : ~InWindow(u, c)' BY <3>1, <3>3 DEF Window
      <4> QED BY <1>1, <3>2, <4>1, <4>2 DEF KeptOf
    <3>4. CASE Window(c) # {}
      <4>1. safe'[c] = safe[c] BY <2>2, <3>4 DEF Add
      <4> QED BY <1>1, <3>1, <3>2, <4>1 DEF KeptOf
    <3> QED BY <3>3, <3>4
  <2>3. CASE Export(t, c)
    <3>1. /\ counter'[c] = counter[c] /\ exported'[c] = exported[c] + counter[c]
          /\ safe'[c] = safe[c]
      BY <1>1, <2>3 DEF Export, historyVars
    <3> QED BY <1>1, <3>1 DEF KeptOf
  <2>4. CASE Zero(t, c)
    <3>1. InWindow(t, c) BY <2>1, <2>4, Moves DEF Zero, Takes
    <3>2. counter'[c] = 0 /\ exported'[c] = exported[c] /\ safe'[c] = safe[c]
      BY <1>1, <2>4 DEF Zero, historyVars
    <3> QED BY <1>1, <3>1, <3>2 DEF KeptOf
  <2> QED BY <1>2, <1>3, <2>2, <2>3, <2>4, StepOf
<1> QED BY <1>2, <1>3, OtherSteps

(***************************************************************************)
(* What is recorded outside of every report's window is in its counter or  *)
(* has been shown, for any number of reports at the same time.             *)
(* (metrics/batch_collector.go:200)                                        *)
(***************************************************************************)
THEOREM SafeIsKeptAlways == Spec => []SafeIsKept
<1>1. Init => \A c \in Summed : KeptOf(c)
  BY DEF Init, KeptOf, Summed, InWindow
<1>2. TypeOK /\ (\A c \in Summed : KeptOf(c)) /\ [Next]_vars => (\A c \in Summed : KeptOf(c))'
  BY KeptStep
<1>3. (\A c \in Summed : KeptOf(c)) => SafeIsKept
  BY DEF KeptOf, SafeIsKept
<1> QED BY <1>1, <1>2, <1>3, TypeOKAlways, PTL DEF Spec

-----------------------------------------------------------------------------
(***************************************************************************)
(* How ShownAtMostOnce counts: what is in a counter has been shown by the  *)
(* reports in its window, and may still be shown by as many as remain      *)
(* until together is reached.  Each report that enters takes one of them,  *)
(* and one that leaves has zeroed the counter.                             *)
(***************************************************************************)
TimesOf(c) ==
  /\ Cardinality(Window(c)) <= together
  /\ counter[c] <= recorded[c]
  /\ exported[c] + counter[c] * (together - Cardinality(Window(c)))
       <= recorded[c] * together

LEMMA Wider ==
  ASSUME NEW e \in Nat, NEW k \in Nat, NEW r \in Nat,
         NEW n \in Nat, NEW m \in Nat, NEW u \in Nat,
         n <= m, m <= u, k <= r, e + k * (m - n) <= r * m
  PROVE  e + k * (u - n) <= r * u
<1>1. PICK d \in Nat : u = m + d
  <2>1. u - m \in Nat /\ u = m + (u - m) OBVIOUS
  <2> QED BY <2>1
<1>2. PICK x \in Nat : m = n + x
  <2>1. m - n \in Nat /\ m = n + (m - n) OBVIOUS
  <2> QED BY <2>1
<1>3. PICK y \in Nat : r = k + y
  <2>1. r - k \in Nat /\ r = k + (r - k) OBVIOUS
  <2> QED BY <2>1
<1>4. k * (u - n) = k * x + k * d /\ k * (m - n) = k * x
  <2>1. u - n = x + d /\ m - n = x BY <1>1, <1>2
  <2>2. k * (x + d) = k * x + k * d OBVIOUS
  <2> QED BY <2>1, <2>2
<1>5. r * u = r * m + (k * d + y * d)
  <2>1. r * (m + d) = r * m + r * d OBVIOUS
  <2>2. (k + y) * d = k * d + y * d OBVIOUS
  <2> QED BY <2>1, <2>2, <1>1, <1>3
<1>6. y * d \in Nat /\ k * d \in Nat /\ k * x \in Nat /\ r * m \in Nat OBVIOUS
<1>7. e + k * x <= r * m BY <1>4
<1>8. (e + (k * x + k * d)) <= (r * m + (k * d + y * d)) BY <1>6, <1>7
<1> QED BY <1>4, <1>5, <1>8

LEMMA OneMore ==
  ASSUME NEW e \in Nat, NEW k \in Nat, NEW r \in Nat, NEW n \in Nat, NEW m \in Nat,
         n <= m, e + k * (m - n) <= r * m
  PROVE  e + (k + 1) * (m - n) <= (r + 1) * m
<1>1. m - n \in Nat /\ m - n <= m OBVIOUS
<1>2. (k + 1) * (m - n) = k * (m - n) + (m - n) BY <1>1
<1>3. (r + 1) * m = r * m + m OBVIOUS
<1>4. k * (m - n) \in Nat /\ r * m \in Nat BY <1>1
<1> QED BY <1>1, <1>2, <1>3, <1>4

LEMMA OneShown ==
  ASSUME NEW e \in Nat, NEW k \in Nat, NEW n \in Nat, NEW m \in Nat, n + 1 <= m
  PROVE  (e + k) + k * (m - (n + 1)) = e + k * (m - n)
<1>1. m - (n + 1) \in Nat /\ m - n = (m - (n + 1)) + 1 OBVIOUS
<1>2. k * ((m - (n + 1)) + 1) = k * (m - (n + 1)) + k BY <1>1
<1>3. k * (m - (n + 1)) \in Nat BY <1>1
<1> QED BY <1>1, <1>2, <1>3

LEMMA NoneShown ==
  ASSUME NEW e \in Nat, NEW k \in Nat, NEW r \in Nat, NEW n \in Nat, NEW m \in Nat,
         n <= m, e + k * (m - n) <= r * m
  PROVE  e <= r * m
<1>1. k * (m - n) \in Nat
  <2>1. m - n \in Nat OBVIOUS
  <2> QED BY <2>1
<1>2. r * m \in Nat OBVIOUS
<1> QED BY <1>1, <1>2

LEMMA TimesStep ==
  ASSUME TypeOK, [Next]_vars, NEW c \in Summed, TimesOf(c)
  PROVE  TimesOf(c)'
<1> DEFINE n == Cardinality(Window(c))
           o == Cardinality(Window(c)')
<1>1. /\ c \in Counters /\ counter[c] \in Nat /\ exported[c] \in Nat /\ recorded[c] \in Nat
      /\ {counter, exported, recorded, safe} \subseteq [Counters -> Nat]
      /\ together \in Nat
  BY DEF Summed, TypeOK
<1>2. Window(c) \in SUBSET Threads /\ Window(c)' \in SUBSET Threads
  BY DEF Window
<1>3. n \in Nat /\ o \in Nat /\ IsFiniteSet(Window(c))
  BY <1>2, PartFinite
<1>4. n <= together /\ counter[c] <= recorded[c]
      /\ exported[c] + counter[c] * (together - n) <= recorded[c] * together
  BY DEF TimesOf
<1>5. SUFFICES /\ o <= together' /\ counter'[c] <= recorded'[c]
               /\ exported'[c] + counter'[c] * (together' - o) <= recorded'[c] * together'
  BY DEF TimesOf
<1>6. together' \in Nat /\ together <= together'
  <2>1. CASE \E t \in Threads : Step(t)
    <3> PICK t \in Threads : Step(t)
      BY <2>1
    <3>1. PICK d : \/ Add(t, d) \/ Store(t, d) \/ Export(t, d) \/ Load(t, d)
                   \/ Gauge(t, d) \/ Count(t, d) \/ Zero(t, d)
      BY DEF Step
    <3>2. CASE Export(t, d) BY <3>2, TogetherGrows
    <3>3. CASE ~Export(t, d)
      <4>1. together' = together
        BY <3>1, <3>3 DEF Add, Store, Load, Gauge, Count, Zero, historyVars
      <4> QED BY <1>1, <4>1
    <3> QED BY <3>2, <3>3
  <2>2. CASE ~ \E t \in Threads : Step(t)
    <3>1. together' = together
      BY <2>2 DEF Next, Record, Flush, WorkerTick, BeginReport, Start, WorkerStop, Stop,
                  vars, historyVars
    <3> QED BY <1>1, <3>1
  <2> QED BY <2>1, <2>2
<1>7. ASSUME \A u \in Threads : InWindow(u, c)' <=> InWindow(u, c)
      PROVE  o = n
  <2>1. Window(c)' = Window(c) BY <1>7 DEF Window
  <2> QED BY <2>1
<1> HIDE DEF n, o
<1>8. CASE SameOf(c)
  <2>1. /\ counter'[c] = counter[c] /\ exported'[c] = exported[c] /\ recorded'[c] = recorded[c]
        /\ o = n
    BY <1>7, <1>8 DEF SameOf
  <2>2. exported[c] + counter[c] * (together' - n) <= recorded[c] * together'
    BY <1>1, <1>3, <1>4, <1>6, Wider
  <2> QED BY <1>1, <1>3, <1>4, <1>6, <2>1, <2>2
<1>9. ASSUME NEW t \in Threads, Step(t)
      PROVE  /\ o <= together' /\ counter'[c] <= recorded'[c]
             /\ exported'[c] + counter'[c] * (together' - o) <= recorded'[c] * together'
  <2>1. call[t] # "none" BY <1>9 DEF Step
  <2>2. CASE Add(t, c)
    <3>1. \A u \in Threads : InWindow(u, c)' <=> InWindow(u, c)
      BY <2>1, <2>2, Moves, StepKinds DEF Add, Takes
    <3>2. /\ counter'[c] = counter[c] + 1 /\ recorded'[c] = recorded[c] + 1
          /\ exported'[c] = exported[c] /\ together' = together
      BY <1>1, <2>2 DEF Add
    <3>3. o = n BY <1>7, <3>1
    <3>4. exported[c] + (counter[c] + 1) * (together - n) <= (recorded[c] + 1) * together
      BY <1>1, <1>3, <1>4, OneMore
    <3> QED BY <1>1, <1>3, <1>4, <3>2, <3>3, <3>4
  <2>3. CASE Export(t, c)
    <3>1. ~InWindow(t, c) /\ InWindow(t, c)'
          /\ \A u \in Threads \ {t} : InWindow(u, c)' <=> InWindow(u, c)
      BY <2>1, <2>3, Moves DEF Export, Takes
    <3>2. Window(c)' = Window(c) \cup {t} /\ t \notin Window(c) BY <3>1 DEF Window
    <3>3. o = n + 1 BY <1>3, <3>2, FS_AddElement DEF n, o
    <3>4. n + 1 <= together' BY <2>3, TogetherGrows DEF n
    <3>5. /\ exported'[c] = exported[c] + counter[c] /\ counter'[c] = counter[c]
          /\ recorded'[c] = recorded[c]
      BY <1>1, <2>3 DEF Export
    <3>6. exported[c] + counter[c] * (together' - n) <= recorded[c] * together'
      BY <1>1, <1>3, <1>4, <1>6, Wider
    <3>7. (exported[c] + counter[c]) + counter[c] * (together' - (n + 1))
            = exported[c] + counter[c] * (together' - n)
      BY <1>1, <1>3, <1>6, <3>4, OneShown
    <3> QED BY <1>1, <1>3, <1>4, <1>6, <3>3, <3>4, <3>5, <3>6, <3>7
  <2>4. CASE Zero(t, c)
    <3>1. \A u \in Threads : InWindow(u, c)' => InWindow(u, c)
      BY <2>1, <2>4, Moves DEF Zero, Takes
    <3>2. Window(c)' \in SUBSET Window(c) BY <3>1 DEF Window
    <3>3. o <= n BY <1>3, <3>2, FS_Subset DEF n, o
    <3>4. /\ counter'[c] = 0 /\ exported'[c] = exported[c] /\ recorded'[c] = recorded[c]
          /\ together' = together
      BY <1>1, <2>4 DEF Zero, historyVars
    <3>5. exported[c] <= recorded[c] * together BY <1>1, <1>3, <1>4, NoneShown
    <3>6. 0 * (together - o) = 0 BY <1>1, <1>3
    <3> QED BY <1>1, <1>3, <1>4, <3>3, <3>4, <3>5, <3>6
  <2> QED BY <1>8, <1>9, <2>2, <2>3, <2>4, StepOf
<1> QED BY <1>8, <1>9, OtherSteps

(***************************************************************************)
(* Prometheus shows what has been recorded at most as often as reports     *)
(* have been in a counter's window at once, for any number of reports.     *)
(* (metrics/batch_collector.go:194)                                        *)
(***************************************************************************)
THEOREM ShownAtMostOnceAlways == Spec => []ShownAtMostOnce
<1>1. Init => \A c \in Summed : TimesOf(c)
  <2> SUFFICES ASSUME Init, NEW c \in Summed PROVE TimesOf(c)
    OBVIOUS
  <2>1. Window(c) = {} BY DEF Init, Window, InWindow
  <2>2. Cardinality(Window(c)) = 0 BY <2>1, FS_EmptySet
  <2>3. counter[c] = 0 /\ exported[c] = 0 /\ recorded[c] = 0 /\ together = 0
    BY DEF Init, Summed
  <2> QED BY <2>2, <2>3 DEF TimesOf
<1>2. TypeOK /\ (\A c \in Summed : TimesOf(c)) /\ [Next]_vars => (\A c \in Summed : TimesOf(c))'
  BY TimesStep
<1>3. TypeOK /\ (\A c \in Summed : TimesOf(c)) => ShownAtMostOnce
  <2> SUFFICES ASSUME TypeOK, NEW c \in Summed, TimesOf(c)
               PROVE  exported[c] <= recorded[c] * together
    BY DEF ShownAtMostOnce
  <2>1. /\ counter[c] \in Nat /\ exported[c] \in Nat /\ recorded[c] \in Nat /\ together \in Nat
    BY DEF TypeOK, Summed
  <2>2. Window(c) \in SUBSET Threads BY DEF Window
  <2>3. Cardinality(Window(c)) \in Nat BY <2>2, PartFinite
  <2> QED BY <2>1, <2>3, NoneShown DEF TimesOf
<1> QED BY <1>1, <1>2, <1>3, TypeOKAlways, PTL DEF Spec
=============================================================================
