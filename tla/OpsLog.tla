------------------------------- MODULE OpsLog -------------------------------
(***************************************************************************)
(* The log of the user's operations: a queue in the storage of the phone   *)
(* that is reported when the mini-program is opened.  (utils/opslog.ts)    *)
(*                                                                         *)
(* Storage is synchronous, the report is a request: events are logged      *)
(* while it is under way.  Events are 1, 2, ... in the order they happen.  *)
(***************************************************************************)
EXTENDS Naturals, Sequences

CONSTANTS MaxQueue,   \* MAX_QUEUE
          MaxBatch,   \* MAX_BATCH
          MaxEvents,  \* bound: events
          MaxLaunches \* bound: the mini-program is opened, a killed one anew

ASSUME OpsLogAssumption ==
  MaxQueue \in Nat \ {0} /\ MaxBatch \in 1..MaxQueue /\ MaxEvents \in Nat /\ MaxLaunches \in Nat

VARIABLES
  log,       \* the queue under STORAGE_KEY
  report,    \* the queue as the report under way read it, or empty
  logged,    \* history: events
  reported,  \* history: events the server got
  evicted,   \* history: events dropped above MAX_QUEUE, or that were not stored
  overtaken, \* history: events logged while a report was under way
  overwritten, \* history: events in the queue when it could not be read and another was logged
  launches

opsLogVars == <<log, report, logged, reported, evicted, overtaken, overwritten, launches>>

Elements(s) == {s[i] : i \in DOMAIN s}
Batch(s) == SubSeq(s, 1, IF MaxBatch < Len(s) THEN MaxBatch ELSE Len(s))
AfterBatch(s) == SubSeq(s, Len(Batch(s)) + 1, Len(s))

OpsLogInit ==
  /\ log = <<>> /\ report = <<>> /\ logged = 0 /\ reported = {}
  /\ evicted = {} /\ overtaken = {} /\ overwritten = {} /\ launches = 0

-----------------------------------------------------------------------------
\* Mutant: the newest events are dropped.
RecentFirst(s) == SubSeq(s, 1, IF Len(s) > MaxQueue THEN MaxQueue ELSE Len(s))

Recent(s) == IF Len(s) > MaxQueue THEN SubSeq(s, Len(s) - MaxQueue + 1, Len(s)) ELSE s

\* opsLog: the queue keeps the most recent.  A failing storage is ignored: the event is
\* not stored, or the queue is not read and taken for empty, and what it held is gone.
LogEvent ==
  /\ launches > 0 /\ logged < MaxEvents /\ logged' = logged + 1
  /\ LET all == Append(log, logged')
     IN  \/ /\ log' = Recent(all) /\ evicted' = evicted \cup {all[i] : i \in 1..(Len(all) - MaxQueue)}
            /\ UNCHANGED overwritten
         \/ UNCHANGED <<log, overwritten>> /\ evicted' = evicted \cup {logged'}
         \/ log' = <<logged'>> /\ overwritten' = overwritten \cup Elements(log) /\ UNCHANGED evicted
  /\ overtaken' = IF report = <<>> THEN overtaken ELSE overtaken \cup {logged'}
  /\ UNCHANGED <<report, reported, launches>>

\* Mutant: what was read is cleared before the answer.
LaunchReportsAhead ==
  /\ launches < MaxLaunches /\ launches' = launches + 1
  /\ report' = log /\ log' = AfterBatch(log)
  /\ UNCHANGED <<logged, reported, evicted, overtaken, overwritten>>

\* flushOpsLog up to its request: when the mini-program is opened, anew after
\* it was killed.  A queue that is empty, or cannot be read, is not reported.
LaunchReports ==
  /\ launches < MaxLaunches /\ launches' = launches + 1
  /\ report' \in {log, <<>>}
  /\ UNCHANGED <<log, logged, reported, evicted, overtaken, overwritten>>

\* The report arrived; its answer may be lost, or the storage may fail.
ReportAnswered ==
  /\ report # <<>> /\ report' = <<>>
  /\ \/ /\ reported' = reported \cup Elements(Batch(report))
        /\ log' \in {AfterBatch(report), log}
     \/ UNCHANGED <<log, reported>>
  /\ UNCHANGED <<logged, evicted, overtaken, overwritten, launches>>

OpsLogNext == LogEvent \/ LaunchReports \/ ReportAnswered
OpsLogSpec == OpsLogInit /\ [][OpsLogNext]_opsLogVars

-----------------------------------------------------------------------------
\* The types; the queue is bounded and holds events that happened.
OpsLogTypeOK ==
  /\ Len(log) <= MaxQueue /\ Len(report) <= MaxQueue
  /\ logged \in 0..MaxEvents /\ launches \in 0..MaxLaunches
  /\ Elements(log) \cup Elements(report) \cup reported \cup evicted \cup overwritten \subseteq 1..logged

\* No event gets lost before it is reported, unless it was the oldest of too
\* many, or the storage failed, when the event was to be stored or when a later
\* one was logged and the queue could not be read; or it was logged while a report
\* was under way: when that ends, the queue is overwritten with what it had read.
EventsAreKept ==
  \A i \in 1..logged : i \in Elements(log) \cup reported \cup evicted \cup overwritten \cup overtaken

\* The queue is in the order in which things happened.
LogInOrder == \A i, j \in DOMAIN log : i < j => log[i] < log[j]
=============================================================================
