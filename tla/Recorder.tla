------------------------------ MODULE Recorder ------------------------------
(***************************************************************************)
(* Switching automatic recording on and off on the phone, and restoring it *)
(* when the mini-program is opened again.  (utils/autoRecord.ts:           *)
(* openAutoRecord, closeAutoRecord, tryRestoreAutoRecord, _resetState)     *)
(*                                                                         *)
(* Calls overlap: each waits for permissions, the platform's location      *)
(* service, the network, and goes on with what it finds then.  They know   *)
(* of each other by _closingGeneration, _opening, _restoring and the one   *)
(* lifecycle cancel token.  A step is what runs between two callbacks; a   *)
(* request that is cancelled is rejected before the next (RecorderCalm).   *)
(* m is the memory of the module and of the platform's location service,   *)
(* an operator on m what a function of the module does to it.              *)
(***************************************************************************)
EXTENDS Naturals, FiniteSets

CONSTANTS Opens, Restores, Closes,  \* calls that can be under way together
          NoCall,
          MaxCalls,                 \* bound: calls, retries and deaths in all
          MaxDeaths                 \* bound: the process is killed

Calls == Opens \cup Restores \cup Closes

ASSUME RecorderAssumption ==
  /\ NoCall \notin Calls /\ MaxCalls \in Nat /\ MaxDeaths \in Nat
  /\ Opens \cap Restores = {} /\ Opens \cap Closes = {} /\ Restores \cap Closes = {}

VARIABLES
  m,          \* see Fresh
  backend,    \* the switch on the server
  at,         \* where each call is
  timer,      \* of each open: its 30 seconds
  wish,       \* history: what the user asked for last, or the server answered
              \* after an opening had timed out, or a killed process had stored
  crossed,    \* history: opened while the server was asked about an opening that timed out
  deaf,     \* history: a restart that failed had removed the only way points came in,
              \* and the module goes on taking it for there
  calls, deaths

recorderVars == <<m, backend, at, timer, wish, crossed, deaf, calls, deaths>>

Stages == {"idle", "setting", "modal", "sync", "start", "undo",
           "restart", "report", "vip", "config", "restart again", "close report", "close sync"}

\* enabled is _enabledInMemory and STORAGE_KEY_ENABLED; listening is what the
\* module believes (_listenerRegistered), handler and running what is so;
\* current are the calls that started under the present _closingGeneration,
\* valid those whose cancel token was not cancelled.
Fresh(on) ==
  [alive |-> TRUE, enabled |-> on, opening |-> FALSE, restoring |-> FALSE, token |-> NoCall,
   current |-> {}, valid |-> {}, listening |-> FALSE, handler |-> FALSE, running |-> FALSE,
   fallback |-> FALSE, retry |-> FALSE]

RecorderInit ==
  /\ \E on \in BOOLEAN : m = [Fresh(on) EXCEPT !.alive = FALSE] /\ backend = on /\ wish = on
  /\ at = [c \in Calls |-> "idle"]
  /\ timer = [o \in Opens |-> "off"] /\ calls = 0 /\ deaths = 0 /\ crossed = FALSE /\ deaf = FALSE

\* A cancelled request is rejected before anything else happens.
CallRejected(c) == c \notin m.valid /\ at[c] \in {"sync", "config"}
RecorderCalm == m.alive /\ \A c \in Calls : ~CallRejected(c)

At(c, p) == RecorderCalm /\ at[c] = p
Goto(c, p) == at' = [at EXCEPT ![c] = p]
\* Bound: openings that overlap are the first two calls and the last.
CountCall == ~crossed /\ calls < MaxCalls /\ calls' = calls + 1
SameHistory == UNCHANGED <<wish, crossed, calls, deaths>>
SameWish == SameHistory /\ UNCHANGED deaf
\* Calls of a kind are alike: the next one is the first that is free.
Free(group, c) == at[c] = "idle" /\ c = CHOOSE d \in group : at[d] = "idle"

-----------------------------------------------------------------------------
(* What the helpers do to the memory. *)

Stopped(n) == [n EXCEPT !.handler = FALSE, !.running = FALSE, !.listening = FALSE, !.fallback = FALSE]
ResetState(n) == [Stopped(n) EXCEPT !.enabled = FALSE]
ResetKeeping(n) == Stopped(n)
ScheduleRetry(n) == [n EXCEPT !.retry = TRUE]
ClearRetry(n) == [n EXCEPT !.retry = FALSE]
\* The poll starts only if recording is on by then.
Registered(n) == [n EXCEPT !.handler = TRUE, !.running = TRUE, !.listening = TRUE,
                           !.fallback = @ \/ n.enabled]
Listens(n) == Registered([n EXCEPT !.enabled = TRUE])
TurnedOn(n) == [Registered(n) EXCEPT !.enabled = TRUE]
CancelToken(n) == [n EXCEPT !.valid = @ \ {n.token}]
NewToken(n, c) == [CancelToken(n) EXCEPT !.token = c, !.valid = @ \cup {c}]
NewGeneration(n) == [n EXCEPT !.current = {}]
Starts(n, c) == [n EXCEPT !.current = @ \cup {c}]
\* Mutant: a call that ends leaves its cancel token behind.
EndsWithToken(n, c) == [n EXCEPT !.current = @ \ {c}, !.valid = @ \ {c}]

CallEnds(n, c) == [n EXCEPT !.token = IF @ = c THEN NoCall ELSE @,
                        !.current = @ \ {c}, !.valid = @ \ {c}]

-----------------------------------------------------------------------------
(* openAutoRecord *)

\* finish: nothing more if the 30 seconds were over.
Finish(n, o) == IF timer[o] = "armed" THEN [CallEnds(n, o) EXCEPT !.opening = FALSE] ELSE CallEnds(n, o)
FinishedCall(o) == Goto(o, "idle") /\ timer' = [timer EXCEPT ![o] = IF @ = "armed" THEN "off" ELSE @]
Aborted(o) == ~m.opening \/ o \notin m.current

\* Without VIP only the generation moves on.
OpenAutoRecord(o) ==
  \/ /\ m' = [Starts(NewGeneration(m), o) EXCEPT !.opening = TRUE]
     /\ timer' = [timer EXCEPT ![o] = "armed"] /\ Goto(o, "setting")
  \/ m' = NewGeneration(m) /\ UNCHANGED <<at, timer>>

\* A button opens what it shows as off, once at a time: it waits for the
\* promise (_changing).  The list and the page of a day have one each, so
\* that a second opening may begin while the first, which has timed out, still
\* asks the server.
FreeButton(o) == at[o] = "idle" /\ timer[o] = "off"
Open(o) ==
  /\ RecorderCalm /\ ~m.enabled /\ ~m.opening /\ CountCall
  /\ FreeButton(o) /\ o = (CHOOSE p \in Opens : FreeButton(p))
  /\ crossed' = (\E p \in Opens : timer[p] # "off") /\ (crossed' => calls = 1)
  /\ OpenAutoRecord(o)
  /\ wish' = TRUE /\ UNCHANGED <<backend, deaf, deaths>>

\* _doOpenAutoRecord up to its first request
DoOpen(o) == m' = NewToken(m, o) /\ Goto(o, "sync") /\ UNCHANGED timer

\* wx.getSetting: the permission is there, must be asked for, or not known.
SettingAnswered(o) ==
  /\ At(o, "setting")
  /\ \/ DoOpen(o)
     \/ Goto(o, "modal") /\ UNCHANGED <<m, timer>>
     \/ m' = Finish(m, o) /\ FinishedCall(o)
  /\ UNCHANGED backend /\ SameWish

\* _showLocationSettingModal
Modal(o) ==
  /\ At(o, "modal")
  /\ \/ m.opening /\ DoOpen(o)
     \/ ~m.opening /\ m' = CallEnds(m, o) /\ Goto(o, "idle") /\ UNCHANGED timer
     \/ m' = [CallEnds(m, o) EXCEPT !.opening = FALSE] /\ FinishedCall(o)
  /\ UNCHANGED backend /\ SameWish

\* Mutant: a cancelled opening leaves things as they are.
OpenFailsQuietly(n, o) ==
  IF o \notin m.valid
  THEN m' = Finish(n, o) /\ FinishedCall(o)
  ELSE m' = n /\ Goto(o, "undo") /\ UNCHANGED timer

\* The catch of _doOpenAutoRecord: the server is switched off again first,
\* unless the call was cancelled.
OpenFails(n, o) ==
  IF o \notin m.valid
  THEN m' = Finish(ResetState(n), o) /\ FinishedCall(o)
  ELSE m' = n /\ Goto(o, "undo") /\ UNCHANGED timer

\* The server is switched on; the answer may be lost.
Sync(o) ==
  /\ At(o, "sync")
  /\ \/ /\ backend' = TRUE
        /\ IF Aborted(o) THEN OpenFails(m, o) ELSE Goto(o, "start") /\ UNCHANGED <<m, timer>>
     \/ backend' \in {backend, TRUE} /\ OpenFails(m, o)
  /\ SameWish

SyncCancelled(o) ==
  /\ m.alive /\ at[o] = "sync" /\ o \notin m.valid
  /\ backend' \in {backend, TRUE} /\ OpenFails(m, o)
  /\ SameWish

\* Mutant: a start that was closed meanwhile is taken for a success.
StartUnchecked(o) ==
  /\ At(o, "start")
  /\ \/ /\ m' = ClearRetry(Finish(TurnedOn(m), o)) /\ FinishedCall(o)
        /\ deaf' = FALSE
     \/ OpenFails(m, o) /\ UNCHANGED deaf
  /\ UNCHANGED backend /\ SameHistory

\* wx.startLocationUpdateBackground; recording is on only after it, so that an
\* opening starts no poll.
Start(o) ==
  /\ At(o, "start")
  /\ \/ /\ IF Aborted(o)
           THEN OpenFails(Registered(m), o)
           ELSE m' = ClearRetry(Finish(TurnedOn(m), o)) /\ FinishedCall(o)
        /\ deaf' = FALSE
     \/ OpenFails(m, o) /\ UNCHANGED deaf
  /\ UNCHANGED backend /\ SameHistory

Undo(o) ==
  /\ At(o, "undo")
  /\ backend' \in {backend, FALSE}
  /\ m' = Finish(ResetState(m), o) /\ FinishedCall(o)
  /\ SameWish

-----------------------------------------------------------------------------
(* tryRestoreAutoRecord *)

Restorable(n) == ~n.opening /\ n.enabled /\ ~n.restoring

\* Called with n as the memory; only a restore that gets past the guards
\* becomes a call of its own.
TryRestore(n) ==
  \/ /\ Restorable(n)
     /\ \E r \in Restores :
          /\ Free(Restores, r)
          /\ m' = [Starts(NewToken(n, r), r) EXCEPT !.restoring = TRUE, !.handler = FALSE]
          /\ Goto(r, "restart")
  \/ /\ ~Restorable(n)
     /\ m' = IF ~n.opening /\ ~n.enabled THEN ResetState(ClearRetry(n)) ELSE n
     /\ UNCHANGED at

\* The timer of an open: its requests are cancelled and the server is asked.
OpenTimeout(o) ==
  /\ RecorderCalm /\ timer[o] = "armed"
  /\ timer' = [timer EXCEPT ![o] = "query"]
  /\ m' = [CancelToken(m) EXCEPT !.opening = FALSE]
  /\ UNCHANGED <<backend, at>> /\ SameWish

OpenQuery(o) ==
  /\ RecorderCalm /\ timer[o] = "query"
  /\ timer' = [timer EXCEPT ![o] = "off"]
  /\ \/ backend /\ TryRestore([m EXCEPT !.enabled = TRUE]) /\ wish' = TRUE
     \/ m' = ResetState(m) /\ UNCHANGED <<at, wish>>
  /\ UNCHANGED <<backend, crossed, deaf, calls, deaths>>

\* The application is opened or shown, or the retry timer fires.
ShowApp ==
  /\ RecorderCalm /\ CountCall /\ TryRestore(m)
  /\ UNCHANGED <<backend, timer, wish, crossed, deaf, deaths>>
Retry ==
  /\ RecorderCalm /\ m.retry /\ CountCall /\ TryRestore(ClearRetry(m))
  /\ UNCHANGED <<backend, timer, wish, crossed, deaf, deaths>>

\* The end of onAppShow, once VIP was asked for and not denied: the poll is
\* stopped, and started again if recording is on.
FallbackRestarts ==
  /\ RecorderCalm /\ m' = [m EXCEPT !.fallback = m.enabled]
  /\ deaf' = (deaf /\ ~m.enabled)
  /\ UNCHANGED <<backend, at, timer>> /\ SameHistory

RestoreEnds(n, r) ==
  m' = [CallEnds(n, r) EXCEPT !.restoring = FALSE] /\ Goto(r, "idle")

\* What a successful start leaves: the service runs, and is listened to if
\* nobody closed the recording meanwhile.
Restarted(r) ==
  IF r \in m.current /\ m.enabled THEN Listens(m) ELSE [m EXCEPT !.running = TRUE]

\* The listener is gone since the restore began: when the restart fails too,
\* nothing tells the module, which still has it as registered.
Restart(r) ==
  /\ At(r, "restart") /\ Goto(r, "report")
  /\ \/ m' = Restarted(r) /\ deaf' = (deaf /\ ~m'.handler)
     \/ m' = m /\ deaf' = (deaf \/ (m.listening /\ ~m.handler /\ ~m.fallback))
  /\ UNCHANGED <<backend, timer>> /\ SameHistory

\* Stay points are reported first; an expired session stops the recording
\* for now.
RestoreReport(r) ==
  /\ At(r, "report") /\ Goto(r, "vip")
  /\ m' \in {m, ScheduleRetry(ResetKeeping(m))}
  /\ UNCHANGED <<backend, timer>> /\ SameWish

\* closeAutoRecord up to its first await
CloseBegins(n, c) ==
  LET k == [NewGeneration(CancelToken(ClearRetry(n))) EXCEPT !.token = NoCall]
  IN  IF n.enabled
      THEN m' = k /\ Goto(c, "close report")
      ELSE /\ m' = [CallEnds(ResetState(k), c) EXCEPT !.restoring = IF c \in Restores THEN FALSE ELSE @]
           /\ Goto(c, "idle")

\* Mutant: a failed VIP query leaves the recording stopped for good.
RestoreVipGivesUp(r) ==
  /\ At(r, "vip")
  /\ \/ RestoreEnds(ResetKeeping(m), r)
     \/ r \notin m.current /\ RestoreEnds(ResetState(m), r)
     \/ r \in m.current /\ CloseBegins(m, r)
     \/ r \in m.current /\ Goto(r, "config") /\ UNCHANGED m
  /\ UNCHANGED <<backend, timer>> /\ SameWish

\* fetchVipInfo: failed, out of date, no VIP, VIP.
RestoreVip(r) ==
  /\ At(r, "vip")
  /\ \/ RestoreEnds(ScheduleRetry(ResetKeeping(m)), r)
     \/ r \notin m.current /\ RestoreEnds(ResetState(m), r)
     \/ r \in m.current /\ CloseBegins(m, r)
     \/ r \in m.current /\ Goto(r, "config") /\ UNCHANGED m
  /\ UNCHANGED <<backend, timer>> /\ SameWish

\* The switch on the server decides.
RestoreConfig(r) ==
  /\ At(r, "config")
  /\ \/ RestoreEnds(ScheduleRetry(ResetKeeping(m)), r)
     \/ r \notin m.current /\ RestoreEnds(ResetState(m), r)
     \/ r \in m.current /\ ~backend /\ RestoreEnds(ResetState(ClearRetry(m)), r)
     \/ r \in m.current /\ backend /\ m.listening /\ RestoreEnds(ClearRetry(m), r)
     \/ r \in m.current /\ backend /\ ~m.listening /\ Goto(r, "restart again") /\ UNCHANGED m
  /\ UNCHANGED <<backend, timer>> /\ SameWish

RestoreCancelled(r) ==
  /\ m.alive /\ at[r] = "config" /\ r \notin m.valid
  /\ RestoreEnds(ScheduleRetry(ResetKeeping(m)), r)
  /\ UNCHANGED <<backend, timer>> /\ SameWish

RestartAgain(r) ==
  /\ At(r, "restart again")
  /\ \E n \in {Restarted(r), m} :
       /\ RestoreEnds(IF n.listening THEN ClearRetry(n) ELSE ScheduleRetry(ResetKeeping(n)), r)
       /\ deaf' = (deaf /\ ~n.handler)
  /\ UNCHANGED <<backend, timer>> /\ SameHistory

\* After a minute the next restore is let in; this one goes on.
Watchdog(r) ==
  /\ RecorderCalm /\ at[r] # "idle" /\ m.restoring /\ m.token = r
  /\ m' = ScheduleRetry([CancelToken(m) EXCEPT !.restoring = FALSE])
  /\ UNCHANGED <<backend, at, timer>> /\ SameWish

-----------------------------------------------------------------------------
(* closeAutoRecord: by the user, or because VIP is over *)

Close(c) ==
  /\ At(c, "idle") /\ CountCall /\ CloseBegins(m, c)
  /\ wish' = FALSE /\ UNCHANGED <<backend, timer, crossed, deaf, deaths>>

CloseReport(c) ==
  /\ At(c, "close report") /\ Goto(c, "close sync")
  /\ m' \in {m, ScheduleRetry(ResetKeeping(m))}
  /\ UNCHANGED <<backend, timer>> /\ SameWish

\* Whatever the server says, the phone stops.
CloseSync(c) ==
  /\ At(c, "close sync")
  /\ backend' \in {backend, FALSE}
  /\ IF c \in Restores THEN RestoreEnds(ResetState(m), c) ELSE m' = ResetState(m) /\ Goto(c, "idle")
  /\ UNCHANGED timer /\ SameWish

\* The process is killed: the platform stops the location service with it.
KillRecorder ==
  /\ m.alive /\ CountCall /\ deaths < MaxDeaths /\ deaths' = deaths + 1
  /\ m' = [Fresh(m.enabled) EXCEPT !.alive = FALSE]
  /\ at' = [c \in Calls |-> "idle"] /\ timer' = [o \in Opens |-> "off"]
  /\ wish' = m.enabled /\ deaf' = FALSE /\ UNCHANGED <<backend, crossed>>

\* onLaunch ends in tryRestoreAutoRecord whether the login works or not.
Launch ==
  /\ ~m.alive /\ TryRestore([m EXCEPT !.alive = TRUE])
  /\ UNCHANGED <<backend, timer>> /\ SameWish

Proceed(c) ==
  \/ c \in Opens /\ (SettingAnswered(c) \/ Modal(c) \/ Sync(c) \/ SyncCancelled(c) \/ Start(c) \/ Undo(c)
                     \/ OpenTimeout(c) \/ OpenQuery(c))
  \/ c \in Restores /\ (Restart(c) \/ RestoreReport(c) \/ RestoreVip(c) \/ RestoreConfig(c)
                        \/ RestoreCancelled(c) \/ RestartAgain(c) \/ Watchdog(c))
  \/ CloseReport(c) \/ CloseSync(c)

RecorderNext ==
  \/ \E o \in Opens : Open(o)
  \/ \E c \in Closes : Close(c)
  \/ \E c \in Calls : Proceed(c)
  \/ ShowApp \/ FallbackRestarts \/ Retry \/ KillRecorder \/ Launch

RecorderSpec == RecorderInit /\ [][RecorderNext]_recorderVars

-----------------------------------------------------------------------------
\* The types; what is valid belongs to a call under way.
RecorderTypeOK ==
  /\ m \in [alive : BOOLEAN, enabled : BOOLEAN, opening : BOOLEAN, restoring : BOOLEAN,
            token : Calls \cup {NoCall}, current : SUBSET Calls, valid : SUBSET Calls,
            listening : BOOLEAN, handler : BOOLEAN, running : BOOLEAN, fallback : BOOLEAN, retry : BOOLEAN]
  /\ backend \in BOOLEAN /\ at \in [Calls -> Stages] /\ timer \in [Opens -> {"off", "armed", "query"}]
  /\ m.valid \cup ({m.token} \ {NoCall}) \subseteq {c \in Calls : at[c] # "idle"}
  /\ crossed \in BOOLEAN /\ deaf \in BOOLEAN /\ calls \in 0..MaxCalls /\ deaths \in 0..MaxDeaths

Quiet == m.alive /\ (\A c \in Calls : at[c] = "idle") /\ (\A o \in Opens : timer[o] = "off")

\* Once every call has ended, the location service does not run on for a
\* recording that is off: a start that succeeds after the recording was
\* closed is stopped again by the call that asked for it.
NoLocationLeftOn == Quiet /\ m.running => m.enabled

\* When the user closed the recording last, it is off once every call has
\* ended, whatever opening or restore was under way.
ClosedStaysOff == Quiet /\ ~wish => ~m.enabled /\ ~m.running

\* Once every call has ended, a recording that is on listens, polls, or has a
\* retry waiting: no failure of permission, network or VIP query ends it
\* silently.  Two ways are excepted: the late answer to one opening met the
\* next, or the restart of a recording that had never been polled failed after
\* its listener was removed, and the module took it for listening (a restore
\* ends well then and drops its retry).
NeverSilent ==
  Quiet /\ ~crossed /\ ~(deaf /\ m.listening) /\ m.enabled
    => (m.running /\ m.handler) \/ m.fallback \/ m.retry
=============================================================================
