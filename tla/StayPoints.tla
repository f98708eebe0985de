----------------------------- MODULE StayPoints -----------------------------
(***************************************************************************)
(* The stay points of automatic recording on the phone: from the queue in  *)
(* memory to the storage of the mini-program and from there to the server. *)
(* (utils/autoRecord.ts: _pushStayPoint to _clearReportedStorage)          *)
(*                                                                         *)
(* JavaScript runs one callback at a time.  A call of                      *)
(* _serialFlushAndReport is a Caller; a step ends where the code awaits a  *)
(* callback of the platform.  What continues as a microtask ("resume",     *)
(* "report") runs before any other callback (Calm).  Points are 1, 2, ...  *)
(* in the order in which they are found.  Storage may fail, an upload may  *)
(* fail before or after it reached the server, the process may be killed.  *)
(***************************************************************************)
EXTENDS Naturals, Sequences, FiniteSets

CONSTANTS Flushers,       \* calls of _serialFlushAndReport that can overlap
          NoRound,
          Cap,            \* STORAGE_MAX_SIZE
          MaxPoints,      \* bound: points that are found
          MaxFaults,      \* bound: failures of storage or network
          MaxKills        \* bound: the process is killed

ASSUME StayPointsAssumption ==
  /\ NoRound \notin Flushers
  /\ Cap \in Nat \ {0} /\ MaxPoints \in Nat /\ MaxFaults \in Nat /\ MaxKills \in Nat

VARIABLES
  queue,      \* _stayPointQueue
  store,      \* STORAGE_KEY_STAY_POINTS, which survives the process
  lead,       \* _reportedLeadingCount
  failed,     \* _reportFailureCount > 0: the next report may be skipped
  flusher,    \* the call that made _flushPromise
  reporting,  \* _reporting
  round,      \* the call that made _reportPromise
  pc, waits,  \* where each call is, and whose round it awaits
  taken,      \* pointsToFlush, then toReport
  seen,       \* combined, then points
  pushed,     \* history: points found
  uploaded,   \* history: points the server got
  acked,      \* history: points this process was told the server has
  left,       \* history: points evicted at the cap or lost with a killed process
  misled,     \* history: a write failed after lead was moved for it
  crowded,    \* history: two calls have waited for the same round
  faults, kills

memVars == <<queue, lead, failed, flusher, reporting, round, pc, waits, taken, seen, acked>>
pointsVars == <<memVars, store, pushed, uploaded, left, misled, crowded, faults, kills>>

Places == {"idle", "wait", "resume", "join", "load", "write", "report",
           "read", "upload", "clear", "clear only"}

SeqRange(s) == {s[i] : i \in 1..Len(s)}
Drop(s, n) == SubSeq(s, n + 1, Len(s))
AtMost(m, n) == IF m < n THEN m ELSE n
\* Mutant: one point too many is kept.
ExcessLate(s) == IF Len(s) > Cap + 1 THEN Len(s) - Cap ELSE 0

Excess(s) == IF Len(s) > Cap THEN Len(s) - Cap ELSE 0

PointsInit ==
  /\ queue = <<>> /\ store = <<>> /\ lead = 0 /\ failed = FALSE
  /\ flusher = NoRound /\ reporting = FALSE /\ round = NoRound
  /\ pc = [c \in Flushers |-> "idle"] /\ waits = [c \in Flushers |-> NoRound]
  /\ taken = [c \in Flushers |-> <<>>] /\ seen = [c \in Flushers |-> <<>>]
  /\ pushed = 0 /\ uploaded = {} /\ acked = {} /\ left = {} /\ misled = FALSE
  /\ crowded = FALSE /\ faults = 0 /\ kills = 0

Calm == \A c \in Flushers : pc[c] \notin {"resume", "report"}

Fault == faults < MaxFaults /\ faults' = faults + 1

-----------------------------------------------------------------------------
\* The round of a call up to its first await: it joins a flush under way, or
\* takes the queue to flush it.
Begin(c, q) ==
  /\ round' = c
  /\ \/ /\ flusher # NoRound
        /\ pc' = [pc EXCEPT ![c] = "join"]
        /\ queue' = q /\ UNCHANGED <<flusher, taken>>
     \/ /\ flusher = NoRound /\ q = <<>>
        /\ pc' = [pc EXCEPT ![c] = "report"]
        /\ queue' = q /\ UNCHANGED <<flusher, taken>>
     \/ /\ flusher = NoRound /\ q # <<>>
        /\ pc' = [pc EXCEPT ![c] = "load"]
        /\ flusher' = c
        /\ taken' = [taken EXCEPT ![c] = q] /\ queue' = <<>>
  /\ UNCHANGED <<lead, failed, reporting, seen, acked, store, uploaded, left, misled, faults, kills>>

\* Mutant: the old round is not awaited.
EnterAtOnce(c, q) == Begin(c, q) /\ UNCHANGED <<waits, crowded>>

\* _serialFlushAndReport: a round under way is awaited first.  Two calls that
\* await the same one go on together when it ends, neither awaiting the other.
Enter(c, q) ==
  \/ round = NoRound /\ Begin(c, q) /\ UNCHANGED <<waits, crowded>>
  \/ /\ round # NoRound
     /\ pc' = [pc EXCEPT ![c] = "wait"] /\ waits' = [waits EXCEPT ![c] = round]
     /\ queue' = q
     /\ crowded' = (crowded \/ \E x \in Flushers : pc[x] = "wait" /\ waits[x] = round)
     /\ UNCHANGED <<lead, failed, flusher, reporting, round, taken, seen, acked, store,
                    uploaded, left, misled, faults, kills>>

\* _pushStayPoint
PushStayPoint(c) ==
  /\ Calm /\ pc[c] = "idle" /\ pushed < MaxPoints
  /\ pushed' = pushed + 1
  /\ Enter(c, Append(queue, pushed + 1))

\* The application is shown, hidden, restored or closed.
Call(c) == Calm /\ pc[c] = "idle" /\ Enter(c, queue) /\ UNCHANGED pushed

Resume(c) ==
  /\ pc[c] = "resume"
  /\ Begin(c, queue)
  /\ waits' = [waits EXCEPT ![c] = NoRound] /\ UNCHANGED pushed

-----------------------------------------------------------------------------
(* _flushToStorage: read, append, drop the oldest above the cap, write. *)

FlushEnds(c) ==
  /\ flusher' = NoRound
  /\ pc' = [d \in Flushers |-> IF d = c \/ pc[d] = "join" THEN "report" ELSE pc[d]]
  /\ UNCHANGED <<failed, reporting, round, waits, acked, pushed, uploaded, kills>>

PutBack(c) == queue' = taken[c] \o queue

Load(c) ==
  /\ Calm /\ pc[c] = "load"
  /\ \/ LET combined == store \o taken[c]
            dropped == Excess(combined)
        IN  /\ seen' = [seen EXCEPT ![c] = Drop(combined, dropped)]
            /\ lead' = lead - AtMost(lead, dropped)
            /\ pc' = [pc EXCEPT ![c] = "write"]
            /\ UNCHANGED <<queue, failed, flusher, reporting, round, waits, taken, acked, store,
                           pushed, uploaded, left, misled, faults, kills>>
     \/ /\ Fault
        /\ PutBack(c) /\ FlushEnds(c)
        /\ UNCHANGED <<store, lead, taken, seen, left, misled>>

\* Mutant: a failed write forgets the points it could not store.
WriteForgets(c) ==
  /\ Calm /\ pc[c] = "write"
  /\ \/ /\ store' = seen[c]
        /\ left' = left \cup ((SeqRange(store) \cup SeqRange(taken[c])) \ SeqRange(seen[c]))
        /\ UNCHANGED <<queue, misled, faults>>
     \/ Fault /\ UNCHANGED <<queue, store, left, misled>>
  /\ FlushEnds(c) /\ UNCHANGED <<lead, taken, seen>>

WriteStore(c) ==
  /\ Calm /\ pc[c] = "write"
  /\ \/ /\ store' = seen[c]
        /\ left' = left \cup ((SeqRange(store) \cup SeqRange(taken[c])) \ SeqRange(seen[c]))
        /\ UNCHANGED <<queue, misled, faults>>
     \/ /\ Fault /\ PutBack(c)
        /\ misled' = (misled \/ Excess(store \o taken[c]) > 0)
        /\ UNCHANGED <<store, left>>
  /\ FlushEnds(c) /\ UNCHANGED <<lead, taken, seen>>

-----------------------------------------------------------------------------
(* _tryReportStorage: one report at a time, of what was not reported yet. *)

\* Mutant: the calls that await the round are not woken.
RoundEndsAlone(c) == round' = NoRound /\ pc' = [pc EXCEPT ![c] = "idle"]

RoundEnds(c) ==
  /\ round' = NoRound
  /\ pc' = [d \in Flushers |-> IF d = c THEN "idle"
                              ELSE IF pc[d] = "wait" /\ waits[d] = c THEN "resume" ELSE pc[d]]

Report(c) ==
  /\ pc[c] = "report"
  /\ \/ failed /\ RoundEnds(c) /\ UNCHANGED reporting
     \/ reporting /\ RoundEnds(c) /\ UNCHANGED reporting
     \/ /\ ~reporting /\ reporting' = TRUE
        /\ pc' = [pc EXCEPT ![c] = "read"] /\ UNCHANGED round
  /\ UNCHANGED <<queue, lead, failed, flusher, waits, taken, seen, acked, store, pushed, uploaded,
                 left, misled, faults, kills>>

\* A read that fails counts as no points.  If only the clearing failed before,
\* the points are not sent again; _reporting is then free before it is done.
Read(c) ==
  LET toReport == Drop(store, AtMost(lead, Len(store)))
  IN  /\ Calm /\ pc[c] = "read"
      /\ \/ /\ (store = <<>> /\ UNCHANGED faults) \/ Fault
            /\ reporting' = FALSE /\ RoundEnds(c) /\ UNCHANGED <<taken, seen>>
         \/ /\ store # <<>> /\ toReport = <<>>
            /\ reporting' = FALSE /\ pc' = [pc EXCEPT ![c] = "clear only"]
            /\ UNCHANGED <<round, taken, seen, faults>>
         \/ /\ toReport # <<>>
            /\ pc' = [pc EXCEPT ![c] = "upload"]
            /\ taken' = [taken EXCEPT ![c] = toReport] /\ seen' = [seen EXCEPT ![c] = store]
            /\ UNCHANGED <<reporting, round, faults>>
      /\ UNCHANGED <<queue, lead, failed, flusher, waits, acked, store, pushed, uploaded, left,
                     misled, kills>>

\* _reportStayPoints, its repetition after a new login included.
Upload(c) ==
  /\ Calm /\ pc[c] = "upload"
  /\ \/ /\ uploaded' = uploaded \cup SeqRange(taken[c])
        /\ acked' = acked \cup SeqRange(taken[c]) /\ failed' = FALSE
        /\ pc' = [pc EXCEPT ![c] = "clear"] /\ UNCHANGED <<reporting, round, faults>>
     \/ /\ Fault
        /\ uploaded' \in {uploaded, uploaded \cup SeqRange(taken[c])}
        /\ failed' = TRUE /\ reporting' = FALSE /\ RoundEnds(c) /\ UNCHANGED acked
  /\ UNCHANGED <<queue, lead, flusher, waits, taken, seen, store, pushed, left, misled, kills>>

\* Mutant: a failed clearing is not remembered.
ClearForgets(c) ==
  /\ Calm /\ pc[c] = "clear"
  /\ \/ store' = <<>> /\ lead' = 0 /\ UNCHANGED <<failed, faults>>
     \/ Fault /\ failed' = TRUE /\ UNCHANGED <<store, lead>>
  /\ reporting' = FALSE /\ RoundEnds(c)
  /\ UNCHANGED <<queue, flusher, waits, taken, seen, acked, pushed, uploaded, left, misled, kills>>

Clear(c) ==
  /\ Calm /\ pc[c] = "clear"
  /\ \/ store' = <<>> /\ lead' = 0 /\ UNCHANGED <<failed, faults>>
     \/ Fault /\ lead' = Len(seen[c]) /\ failed' = TRUE /\ UNCHANGED store
  /\ reporting' = FALSE /\ RoundEnds(c)
  /\ UNCHANGED <<queue, flusher, waits, taken, seen, acked, pushed, uploaded, left, misled, kills>>

\* _clearReportedStorage
ClearOnly(c) ==
  /\ Calm /\ pc[c] = "clear only"
  /\ \/ store' = <<>> /\ lead' = 0 /\ UNCHANGED faults
     \/ Fault /\ UNCHANGED <<store, lead>>
  /\ RoundEnds(c)
  /\ UNCHANGED <<queue, failed, flusher, reporting, waits, taken, seen, acked, pushed, uploaded,
                 left, misled, kills>>

\* The points a killed process had in memory only are lost with it.
InFlush == UNION {SeqRange(taken[c]) : c \in {d \in Flushers : pc[d] \in {"load", "write"}}}
Kill ==
  /\ kills < MaxKills /\ kills' = kills + 1
  /\ left' = left \cup ((SeqRange(queue) \cup InFlush) \ SeqRange(store))
  /\ queue' = <<>> /\ lead' = 0 /\ failed' = FALSE /\ flusher' = NoRound /\ reporting' = FALSE
  /\ round' = NoRound /\ acked' = {}
  /\ pc' = [c \in Flushers |-> "idle"] /\ waits' = [c \in Flushers |-> NoRound]
  /\ taken' = [c \in Flushers |-> <<>>] /\ seen' = [c \in Flushers |-> <<>>]
  /\ UNCHANGED <<store, pushed, uploaded, misled, crowded, faults>>

Continue(c) ==
  /\ \/ Resume(c) \/ Load(c) \/ WriteStore(c) \/ Report(c)
     \/ Read(c) \/ Upload(c) \/ Clear(c) \/ ClearOnly(c)
  /\ UNCHANGED crowded

PointsNext == Kill \/ \E c \in Flushers : PushStayPoint(c) \/ Call(c) \/ Continue(c)

\* Every request to the platform or the server has its callback in the end.
PointsFairness == WF_pointsVars(\E c \in Flushers : Continue(c))
PointsSpec == PointsInit /\ [][PointsNext]_pointsVars /\ PointsFairness

-----------------------------------------------------------------------------
\* The types; the storage never holds more than its cap.
PointsTypeOK ==
  /\ queue \in Seq(1..MaxPoints) /\ store \in Seq(1..MaxPoints) /\ Len(store) <= Cap
  /\ lead \in Nat /\ failed \in BOOLEAN /\ reporting \in BOOLEAN
  /\ flusher \in Flushers \cup {NoRound} /\ round \in Flushers \cup {NoRound}
  /\ pc \in [Flushers -> Places] /\ waits \in [Flushers -> Flushers \cup {NoRound}]
  /\ taken \in [Flushers -> Seq(1..MaxPoints)] /\ seen \in [Flushers -> Seq(1..MaxPoints)]
  /\ uploaded \subseteq 1..pushed /\ acked \subseteq uploaded /\ left \subseteq 1..pushed
  /\ misled \in BOOLEAN /\ crowded \in BOOLEAN /\ faults \in 0..MaxFaults /\ kills \in 0..MaxKills

\* No stay point disappears: it is in memory, in storage or on the server, or
\* it was the oldest above the cap or in the memory of a killed process.  The
\* comments at autoRecord.ts:1101-1102 expect it of every call that goes
\* through _serialFlushAndReport.
PointsKept ==
  1..pushed \subseteq SeqRange(queue) \cup InFlush \cup SeqRange(store) \cup uploaded \cup left

\* So it is until two calls have waited for the same round: one of them may
\* then flush while the other reports, which clears what was just stored.
NothingLost == ~crowded => PointsKept

\* A point the server confirmed is not sent a second time by this process,
\* even when clearing the storage failed: the server would record it twice.
SentAgain == \E c \in Flushers : pc[c] = "upload" /\ SeqRange(taken[c]) \cap acked # {}
NotSentAgain == ~misled /\ ~crowded => ~SentAgain

\* Every call returns, the ones that waited for another round included.
CallReturns == \A c \in Flushers : pc[c] # "idle" ~> pc[c] = "idle"
=============================================================================
