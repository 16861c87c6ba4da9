--------------------------- MODULE BatchCollector ---------------------------
(***************************************************************************)
(* BatchCollectImpl (metrics/batch_collector.go): callers add to counters, *)
(* one atomic operation after the other; a report, made by the worker at a *)
(* tick or by whoever calls Flush, loads each counter, passes what it has  *)
(* loaded to Prometheus (metrics/prometheus.go), and stores 0 in it later. *)
(* Nothing holds the others off meanwhile, neither callers nor reports.    *)
(*                                                                         *)
(* A call is a script of steps, one per atomic operation, in the order of  *)
(* the code.  Amounts are 1, whatever their unit.  The load of a counter   *)
(* and its addition to a Prometheus counter, to which everybody only adds, *)
(* are one step.  CollectSwitcher(true) has been called by the             *)
(* constructor, so that Prometheus is enabled.                             *)
(***************************************************************************)
EXTENDS Integers, Sequences, FiniteSets

CONSTANTS
  Callers,     \* the goroutines that record
  Flushers,    \* those that call Flush
  Workers,     \* the goroutines that Start may start, one per call
  Recorded,    \* bound: the methods of the Recorder that are called
  MaxRecords,  \* bound: how often they are
  MaxFlushes   \* bound: calls of Flush

Threads == Callers \cup Flushers \cup Workers

Active    == {"activeCounts", "activeSizes"}
Counters  == {"writeCounts", "writeSizes", "writeErrors", "readCounts", "readSizes",
              "readErrors", "asyncInc", "asyncDec", "poolAlloc", "switchCounts",
              "switchLatency", "skipSwitchCounts"} \cup Active

(* The counters whose sum is what Prometheus shows (of asyncInc and        *)
(* asyncDec it shows the difference of the two sums): switchLatency is     *)
(* overwritten, skipSwitchCounts is not passed on, Active are gauges.      *)
Summed == Counters \ ({"switchLatency", "skipSwitchCounts"} \cup Active)

(* The calls of the Recorder; a skipped switch and an error are calls with *)
(* another argument.  A switch that failed, SwitchFailure, leaves nothing. *)
Records ==
  [RecordWrite      |-> <<<<"add", "writeCounts">>, <<"add", "writeSizes">>,
                          <<"add", "activeCounts">>, <<"add", "activeSizes">>>>,
   RecordWriteError |-> <<<<"add", "writeErrors">>>>,
   RecordRead       |-> <<<<"add", "readCounts">>, <<"add", "readSizes">>>>,
   RecordReadError  |-> <<<<"add", "readErrors">>>>,
   RecordSwitch     |-> <<<<"add", "switchCounts">>, <<"store", "switchLatency">>>>,
   RecordSkip       |-> <<<<"add", "skipSwitchCounts">>>>,
   ObserveAsyncInc  |-> <<<<"add", "asyncInc">>>>,
   ObserveAsyncDec  |-> <<<<"add", "asyncDec">>>>,
   RecordPoolAlloc  |-> <<<<"add", "poolAlloc">>>>]

ASSUME CollectorAssumption ==
  /\ (Callers \cup Flushers) \cap Workers = {} /\ Recorded \subseteq DOMAIN Records
  /\ MaxRecords \in Nat /\ MaxFlushes \in Nat /\ IsFiniteSet(Threads)

report ==
  << <<"export", "writeCounts">>, <<"export", "writeSizes">>, <<"export", "writeErrors">>,
     <<"load", "activeCounts">>,  <<"load", "activeSizes">>,
     <<"gauge", "activeCounts">>, <<"gauge", "activeSizes">>,
     <<"reset", "activeCounts">>, <<"reset", "activeSizes">>, <<"reset", "writeSizes">>,
     <<"reset", "writeCounts">>,  <<"reset", "writeErrors">>,
     <<"export", "readCounts">>,  <<"export", "readSizes">>,  <<"export", "readErrors">>,
     <<"reset", "readCounts">>,   <<"reset", "readSizes">>,   <<"reset", "readErrors">>,
     <<"export", "asyncInc">>,    <<"export", "asyncDec">>,   <<"export", "poolAlloc">>,
     <<"export", "switchCounts">>, <<"export", "switchLatency">>,
     <<"count", "skipSwitchCounts">>,
     <<"reset", "asyncInc">>,     <<"reset", "asyncDec">>,    <<"reset", "switchCounts">>,
     <<"reset", "switchLatency">>, <<"reset", "skipSwitchCounts">>, <<"reset", "poolAlloc">> >>

Calls  == DOMAIN Records \cup {"report"}
Script == [c \in Calls |-> IF c = "report" THEN report ELSE Records[c]]

VARIABLES
  counter,     \* the counters of w, r and sp
  exported,    \* what Prometheus shows of each
  call, at,    \* call[t]: the call t is in, or "none"; at[t]: its next step
  loaded,      \* loaded[t]: what a report has loaded for the gauges
  started,     \* the workers that Start has started
  ended,       \* those that have seen the closed channel sem
  closed,      \* the channel sem is closed
  records, flushes,  \* how many calls there have been
  recorded,    \* history: how often each counter has been added to
  safe,        \* history: how often outside every report's window
  together     \* history: the most reports in a counter's window at once

callVars    == <<call, at, loaded>>
workVars    == <<started, ended, closed>>
boundVars   == <<records, flushes>>
historyVars == <<recorded, safe, together>>
vars == <<counter, exported, callVars, workVars, boundVars, historyVars>>

TypeOK ==
  /\ {counter, exported, recorded, safe} \subseteq [Counters -> Nat]
  /\ call \in [Threads -> Calls \cup {"none"}] /\ at \in [Threads -> Nat]
  /\ \A t \in Threads :
       IF call[t] = "none" THEN at[t] = 0 ELSE at[t] \in DOMAIN Script[call[t]]
  /\ loaded \in [Threads -> [Active -> Nat]]
  /\ ended \subseteq started /\ started \subseteq Workers /\ closed \in BOOLEAN
  /\ records \in 0 .. MaxRecords /\ flushes \in 0 .. MaxFlushes /\ together \in Nat

Init ==
  /\ counter = [c \in Counters |-> 0] /\ exported = [c \in Counters |-> 0]
  /\ call = [t \in Threads |-> "none"] /\ at = [t \in Threads |-> 0]
  /\ loaded = [t \in Threads |-> [c \in Active |-> 0]]
  /\ started = {} /\ ended = {} /\ closed = FALSE
  /\ records = 0 /\ flushes = 0
  /\ recorded = [c \in Counters |-> 0] /\ safe = [c \in Counters |-> 0]
  /\ together = 0

(***************************************************************************)
(* A report's window of a counter that it exports: it has loaded it and    *)
(* has not yet stored 0 in it.                                             *)
(***************************************************************************)
WindowOf ==
  [c \in Counters |-> {p \in DOMAIN report :
     /\ \E i \in 1 .. p - 1 : report[i] = <<"export", c>>
     /\ \E j \in p .. Len(report) : report[j] = <<"reset", c>>}]

InWindow(t, c) == call[t] = "report" /\ at[t] \in WindowOf[c]
Window(c) == {t \in Threads : InWindow(t, c)}

-----------------------------------------------------------------------------
Enter(t, name) ==
  /\ call[t] = "none"
  /\ call' = [call EXCEPT ![t] = name] /\ at' = [at EXCEPT ![t] = 1]
  /\ UNCHANGED loaded

Advance(t) ==
  IF at[t] < Len(Script[call[t]])
  THEN at' = [at EXCEPT ![t] = @ + 1] /\ UNCHANGED call
  ELSE at' = [at EXCEPT ![t] = 0] /\ call' = [call EXCEPT ![t] = "none"]

Current(t) == Script[call[t]][at[t]]

(* t takes the step do of counter c. *)
Takes(t, do, c) == Current(t) = <<do, c>> /\ Advance(t)

Add(t, c) ==
  /\ Takes(t, "add", c)
  /\ counter' = [counter EXCEPT ![c] = @ + 1]
  /\ recorded' = [recorded EXCEPT ![c] = @ + 1]
  /\ safe' = IF Window(c) = {} THEN [safe EXCEPT ![c] = @ + 1] ELSE safe
  /\ UNCHANGED <<exported, loaded, workVars, boundVars, together>>

(* The latency of the last switch. *)
Store(t, c) ==
  /\ Takes(t, "store", c)
  /\ counter' = [counter EXCEPT ![c] = 1]
  /\ recorded' = [recorded EXCEPT ![c] = @ + 1]
  /\ UNCHANGED <<exported, loaded, workVars, boundVars, safe, together>>

(* Mutant: what has been loaded is not passed on. *)
ExportNothing(t, c) ==
  /\ Takes(t, "export", c)
  /\ UNCHANGED <<counter, exported, loaded, workVars, boundVars, historyVars>>

Export(t, c) ==
  /\ Takes(t, "export", c)
  /\ exported' = [exported EXCEPT ![c] = @ + counter[c]]
  /\ together' = IF Cardinality(Window(c)) < together THEN together
                                                     ELSE Cardinality(Window(c)) + 1
  /\ UNCHANGED <<counter, loaded, workVars, boundVars, recorded, safe>>

Load(t, c) ==
  /\ Takes(t, "load", c)
  /\ loaded' = [loaded EXCEPT ![t][c] = counter[c]]
  /\ UNCHANGED <<counter, exported, workVars, boundVars, historyVars>>

(* ObserveActive: two gauges that start anew when there was no write. *)
Gauge(t, c) ==
  /\ Takes(t, "gauge", c)
  /\ exported' = [exported EXCEPT ![c] =
                    IF \A a \in Active : loaded[t][a] = 0 THEN 0 ELSE @ + loaded[t][c]]
  /\ loaded' = IF c = "activeSizes" THEN [loaded EXCEPT ![t] = [a \in Active |-> 0]]
                                    ELSE loaded
  /\ UNCHANGED <<counter, workVars, boundVars, historyVars>>

(* Inc, whatever has been loaded: all that is told of it is that it is not 0. *)
Count(t, c) ==
  /\ Takes(t, "count", c)
  /\ exported' = [exported EXCEPT ![c] = 1]
  /\ UNCHANGED <<counter, loaded, workVars, boundVars, historyVars>>

(* Mutant: the counter keeps what has been passed on. *)
ZeroNothing(t, c) ==
  /\ Takes(t, "reset", c)
  /\ UNCHANGED <<counter, exported, loaded, workVars, boundVars, historyVars>>

Zero(t, c) ==
  /\ Takes(t, "reset", c)
  /\ counter' = [counter EXCEPT ![c] = 0]
  /\ UNCHANGED <<exported, loaded, workVars, boundVars, historyVars>>

Step(t) ==
  /\ call[t] # "none"
  /\ LET c == Current(t)[2] IN \/ Add(t, c) \/ Store(t, c) \/ Export(t, c) \/ Load(t, c)
                               \/ Gauge(t, c) \/ Count(t, c) \/ Zero(t, c)

-----------------------------------------------------------------------------
BeginReport(t) ==
  /\ Enter(t, "report")
  /\ UNCHANGED <<counter, exported, workVars, historyVars>>

Record(t, name) ==
  /\ records < MaxRecords /\ records' = records + 1
  /\ Enter(t, name)
  /\ UNCHANGED <<counter, exported, workVars, flushes, historyVars>>

Flush(t) ==
  /\ flushes < MaxFlushes /\ flushes' = flushes + 1
  /\ BeginReport(t)
  /\ UNCHANGED records

Start(w) ==
  /\ w \notin started
  /\ started' = started \cup {w}
  /\ UNCHANGED <<counter, exported, callVars, ended, closed, boundVars, historyVars>>

(* A second Stop would close a closed channel. *)
Stop ==
  /\ ~closed /\ closed' = TRUE
  /\ UNCHANGED <<counter, exported, callVars, started, ended, boundVars, historyVars>>

(* Mutant: the worker does not report at a tick. *)
WorkerTickNothing(w) ==
  /\ w \in started \ ended
  /\ UNCHANGED vars

WorkerTick(w) ==
  /\ w \in started \ ended
  /\ BeginReport(w)
  /\ UNCHANGED boundVars

(* Mutant: a break that leaves the select and not the loop. *)
WorkerStopBreaks(w) ==
  /\ w \in started \ ended /\ call[w] = "none" /\ closed
  /\ UNCHANGED vars

WorkerStop(w) ==
  /\ w \in started \ ended /\ call[w] = "none" /\ closed
  /\ ended' = ended \cup {w}
  /\ UNCHANGED <<counter, exported, callVars, started, closed, boundVars, historyVars>>

Next ==
  \/ \E t \in Threads : Step(t)
  \/ \E t \in Callers, name \in Recorded : Record(t, name)
  \/ \E t \in Flushers : Flush(t)
  \/ \E w \in Workers : Start(w) \/ WorkerTick(w) \/ WorkerStop(w)
  \/ Stop

Spec == Init /\ [][Next]_vars

(***************************************************************************)
(* Fairness: every goroutine goes on, the ticker ticks, and the select of  *)
(* a worker picks one of its ready cases at random, and stop in the end.   *)
(***************************************************************************)
FairSpec ==
  /\ Spec
  /\ \A t \in Threads : WF_vars(Step(t))
  /\ \A w \in Workers : WF_vars(WorkerTick(w)) /\ SF_vars(WorkerStop(w))

-----------------------------------------------------------------------------
(***************************************************************************)
(* Prometheus shows what has been recorded at most as often as reports     *)
(* have been in a counter's window at once: as long as none overlaps there *)
(* it shows nothing twice, and n that do show an amount at most n times.   *)
(* (batch_collector.go:194: report, called by the worker and by Flush)     *)
(***************************************************************************)
ShownAtMostOnce == \A c \in Summed : exported[c] <= recorded[c] * together

(***************************************************************************)
(* What is recorded outside of every report's window is not lost: it is    *)
(* still in its counter or has been shown, however many reports overlap.   *)
(* (batch_collector.go:200: each counter is loaded, and zeroed later)      *)
(***************************************************************************)
SafeIsKept == \A c \in Summed : safe[c] <= exported[c] + counter[c]

(***************************************************************************)
(* Once a worker has been started, and unless it is stopped, all that is   *)
(* recorded outside of the windows is shown in the end, the callers having *)
(* come to rest.  (batch_collector.go: asyncWorker, report)                *)
(***************************************************************************)
SafeIsShown ==
  started # {} ~> closed \/ \A c \in Summed : exported[c] >= safe[c]

(***************************************************************************)
(* After Stop every worker ends, be it in the middle of a report.          *)
(* (batch_collector.go: Stop, asyncWorker)                                 *)
(***************************************************************************)
WorkersEnd == \A w \in Workers : w \in started /\ closed ~> w \in ended
=============================================================================
