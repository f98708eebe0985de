-------------------------------- MODULE Stays --------------------------------
(***************************************************************************)
(* Finding where the phone stays while automatic recording is on.          *)
(* (utils/autoRecord.ts: onLocationChange, the fallback timer, onAppShow,  *)
(* onAppHide; the VIP cache of utils/vip.ts)                               *)
(*                                                                         *)
(* Time passes in units of half a minute (Pass).  What the code keeps as a *)
(* time is kept as an age, up to the age from which it makes no difference *)
(* any more; "long ago" is what a reset to 0 means.  Timeouts are shorter  *)
(* than a unit, so that whatever was asked is answered within it.          *)
(* Spots lie on a line; their coordinates are multiples of a number that   *)
(* every size of a window divides, so that a centroid is exact.            *)
(***************************************************************************)
EXTENDS Integers, Sequences

CONSTANTS Spots,            \* where the phone can be
          Near,             \* STATIONARY_THRESHOLD_METERS
          Front, Back,      \* interval, span, least and most of the window when shown and when hidden
          CheckInterval,    \* BACKGROUND_STATIONARY_CHECK_INTERVAL_MS
          Mature,           \* STAY_POINT_MATURE_MS
          OldStay,          \* the 30 minutes of the fallback timer
          FallbackInterval, \* FALLBACK_INTERVAL_MS
          SavedInterval,    \* its 60 seconds after a stay was saved
          TouchInterval,    \* ACTIVE_TOUCH_INTERVAL_MS
          VipInterval,      \* VIP_CHECK_INTERVAL_MS
          MaxMoves,         \* bound: moves of the phone
          Studies           \* bound: what varies, the way of the phone or its circumstances

ASSUME StaysAssumption ==
  /\ Spots \subseteq Nat /\ Near \in Nat
  /\ \A n \in {Front, Back} : n \in [interval : Nat, span : Nat, least : Nat \ {0}, most : Nat \ {0}]
  /\ {CheckInterval, Mature, OldStay, FallbackInterval, SavedInterval, TouchInterval, VipInterval} \subseteq Nat \ {0}
  /\ Studies \subseteq {"way", "circumstances"}

VARIABLES
  study,      \* what varies
  loc,        \* the memory of the module, see Forgotten
  asks,       \* requests for the location under way
  queried,    \* what awaits the answer about VIP
  closing,    \* a closing is under way
  spot,       \* where the phone is
  hidden,     \* the mini-program is in the background
  vip, info,  \* VIP on the server and as it was stored last
  denied,     \* history: the server denied VIP since recording was switched on
  called,     \* history: whether a callback reached the recording in this unit, and its fix was taken
  calm,       \* history: units at one spot, shown or hidden, with a fix in each
  told,       \* history: stay points found where the phone is since it moved there
  point,      \* history: the last stay point
  silent,     \* history: units in the background without a fix and without asking for one
  moves,
  misplaced,  \* history: a reset took the hidden mini-program for a shown one
  unpolled,   \* history: since recording was switched on the fallback timer was never started
  wrong       \* history: closed without the server having denied VIP

staysVars == <<study, loc, asks, queried, closing, spot, hidden, vip, info, denied,
               called, calm, told, point, silent, moves, misplaced, unpolled, wrong>>

None == -1
Off == -1
LongAgo == [calc |-> Back.interval, check |-> CheckInterval, heard |-> FallbackInterval,
            touched |-> TouchInterval, knownAge |-> VipInterval, fetched |-> VipInterval]

\* The memory after _resetState; found tells that the last callback found a
\* stay point (_pushStayPoint).
Forgotten(enabled) ==
  [on |-> enabled, listening |-> FALSE, back |-> FALSE, timer |-> Off, pending |-> FALSE, resume |-> FALSE,
   window |-> <<>>, state |-> "moving", since |-> 0, saved |-> FALSE, stable |-> None, exits |-> 0, found |-> FALSE,
   known |-> "unknown", calc |-> LongAgo.calc, check |-> LongAgo.check, heard |-> LongAgo.heard,
   touched |-> LongAgo.touched, knownAge |-> LongAgo.knownAge, fetched |-> LongAgo.fetched]

\* Once recording is on the fallback timer starts too; an opening still starts
\* it while it is off, which starts nothing.
ListensOnly(s) == [s EXCEPT !.on = TRUE, !.listening = TRUE]
Listening(s) == [s EXCEPT !.on = TRUE, !.listening = TRUE, !.timer = IF @ = Off THEN 0 ELSE @]

\* The longest a stay with a fix in each unit goes unnoticed: until the last
\* stay is out of the window and was left, and this one is mature.
Patience == Back.span + 3 * Back.interval + Mature

-----------------------------------------------------------------------------
(* The window and its centroid. *)

Mode(s) == IF s.back THEN Back ELSE Front

Distance(x, y) == IF x < y THEN y - x ELSE x - y
IsNear(x, y) == Distance(x, y) < Near

Centroid(window) ==
  LET Sum[n \in 0..Len(window)] == IF n = 0 THEN 0 ELSE window[n].at + Sum[n - 1]
  IN  Sum[Len(window)] \div Len(window)

Pushed(s, p) ==
  LET all == Append(s.window, [at |-> p, age |-> 0])
      young == SelectSeq(all, LAMBDA q : q.age <= Mode(s).span)
  IN  [s EXCEPT !.window = IF Len(young) > Mode(s).most
                           THEN SubSeq(young, Len(young) - Mode(s).most + 1, Len(young)) ELSE young]

-----------------------------------------------------------------------------
(* onLocationChange with a fix at p: staying, leaving, and a stay that is  *)
(* long enough.                                                            *)

Leaves(s, p) == [s EXCEPT !.state = "moving", !.since = 0, !.saved = FALSE, !.stable = p, !.exits = 0]

\* In the background a saved stay is only watched for being left.
OnlyWatched(s) == s.back /\ s.state = "stationary" /\ s.saved /\ s.stable # None

Watched(s, p) ==
  IF s.check < CheckInterval THEN s
  ELSE LET n == [s EXCEPT !.check = 0]
       IN  IF IsNear(p, s.stable) THEN [n EXCEPT !.exits = 0]
           ELSE IF s.exits = 0 THEN [n EXCEPT !.exits = 1]
           ELSE [Leaves(n, p) EXCEPT !.window = <<[at |-> p, age |-> 0]>>, !.calc = 0]

\* Mutant: the stay is taken for a new one each time.
SettlesAgain(s, c) ==
  LET n == [s EXCEPT !.state = "stationary", !.since = IF s.state = "moving" THEN 0 ELSE @, !.saved = FALSE,
                     !.stable = IF s.state = "moving" THEN c ELSE @, !.exits = 0]
  IN  [n EXCEPT !.found = n.since >= Mature, !.saved = n.since >= Mature]

Settles(s, c) ==
  LET n == IF s.state = "moving"
           THEN [s EXCEPT !.state = "stationary", !.since = 0, !.saved = FALSE, !.stable = c, !.exits = 0]
           ELSE [s EXCEPT !.exits = 0]
  IN  [n EXCEPT !.found = ~n.saved /\ n.since >= Mature, !.saved = @ \/ n.since >= Mature]

\* Mutant: the spot compared with is not moved along.
StraysStays(s, c) ==
  IF s.state = "moving" THEN s
  ELSE IF s.exits = 0 THEN [s EXCEPT !.exits = 1]
  ELSE Leaves(s, s.stable)

Strays(s, c) ==
  IF s.state = "moving" THEN [s EXCEPT !.stable = c]
  ELSE IF s.exits = 0 THEN [s EXCEPT !.exits = 1]
  ELSE Leaves(s, c)

Calculated(s) ==
  IF s.calc < Mode(s).interval \/ Len(s.window) < Mode(s).least THEN s
  ELSE LET c == Centroid(s.window)
           n == [s EXCEPT !.calc = 0]
       IN  IF s.stable = None \/ IsNear(c, s.stable)
           THEN Settles([n EXCEPT !.stable = IF @ = None THEN c ELSE @], c)
           ELSE Strays(n, c)

Placed(s, p) == IF OnlyWatched(s) THEN Watched(s, p) ELSE Calculated(Pushed(s, p))

\* Recording was switched on, or was shown since and has saved the stay where
\* the phone is.
StaysInit ==
  /\ study \in Studies
  /\ spot = (CHOOSE p \in Spots : TRUE) /\ moves = 0
  /\ \/ loc = ListensOnly(Forgotten(TRUE)) /\ unpolled = TRUE
     \/ /\ study = "circumstances" /\ unpolled = FALSE
        /\ loc = [Settles(Listening(Forgotten(TRUE)), spot) EXCEPT !.saved = TRUE, !.since = Mature]
  /\ asks = {} /\ queried = {} /\ closing = FALSE
  /\ hidden = FALSE /\ vip = "yes" /\ info = "yes" /\ denied = FALSE
  /\ called = "no" /\ calm = 0 /\ told = 0 /\ point = None /\ silent = 0
  /\ misplaced = FALSE /\ wrong = FALSE

-----------------------------------------------------------------------------
(* onLocationChange up to there: the heartbeat and the three states of VIP *)

\* A fix the fallback asked for does not count as heard.
Heard(n, own) == [n EXCEPT !.heard = IF own THEN @ ELSE 0, !.found = FALSE]
Beat(s) == [s EXCEPT !.touched = IF @ >= TouchInterval THEN 0 ELSE @]

\* Mutant: who is not known to have VIP has none.
VipOfUnknown(s) == IF s.known # "unknown" /\ s.knownAge < VipInterval THEN s.known
                   ELSE IF info = "unknown" THEN "no" ELSE info

VipOf(s) == IF s.known # "unknown" /\ s.knownAge < VipInterval THEN s.known ELSE info
WithVip(s) ==
  IF s.known # "unknown" /\ s.knownAge < VipInterval THEN s
  ELSE [s EXCEPT !.known = info, !.knownAge = 0]

CloseForVip == closing' = TRUE /\ wrong' = (wrong \/ ~denied)

\* What the histories take from a fix.
Noted ==
  /\ called' = "taken"
  /\ IF loc'.found
     THEN /\ point' = loc'.stable
          /\ told' = IF IsNear(spot, point') /\ told < 2 THEN told + 1 ELSE told
     ELSE UNCHANGED <<told, point>>

\* Mutant: the heartbeat only follows a known VIP.
OnLocationChangeBeatsLate(n, own) ==
  LET s == Heard(n, own)
  IN  \/ ~loc.on /\ loc' = s /\ UNCHANGED <<queried, closing, called, told, point, wrong>>
      \/ /\ loc.on /\ VipOf(s) = "unknown"
         /\ IF s.fetched >= VipInterval
            THEN loc' = [s EXCEPT !.fetched = 0] /\ queried' = queried \cup {"fix"}
            ELSE loc' = s /\ UNCHANGED queried
         /\ called' = "heard" /\ UNCHANGED <<closing, told, point, wrong>>
      \/ /\ loc.on /\ VipOf(s) = "no"
         /\ loc' = WithVip(Beat(s)) /\ CloseForVip /\ called' = "heard" /\ UNCHANGED <<queried, told, point>>
      \/ /\ loc.on /\ VipOf(s) = "yes"
         /\ \/ study # "way" /\ loc' = WithVip(Beat(s)) /\ called' = "heard" /\ UNCHANGED <<told, point>>
            \/ study = "way" /\ loc' = Placed(WithVip(Beat(s)), spot) /\ Noted
         /\ UNCHANGED <<queried, closing, wrong>>

\* A fix may be too inaccurate to be used: all are but those of a way.
OnLocationChange(n, own) ==
  LET s == Beat(Heard(n, own))
  IN  \/ ~loc.on /\ loc' = Heard(n, own) /\ UNCHANGED <<queried, closing, called, told, point, wrong>>
      \/ /\ loc.on /\ VipOf(s) = "unknown"
         /\ IF s.fetched >= VipInterval
            THEN loc' = [s EXCEPT !.fetched = 0] /\ queried' = queried \cup {"fix"}
            ELSE loc' = s /\ UNCHANGED queried
         /\ called' = "heard" /\ UNCHANGED <<closing, told, point, wrong>>
      \/ /\ loc.on /\ VipOf(s) = "no"
         /\ loc' = WithVip(s) /\ CloseForVip /\ called' = "heard" /\ UNCHANGED <<queried, told, point>>
      \/ /\ loc.on /\ VipOf(s) = "yes"
         /\ \/ study # "way" /\ loc' = WithVip(s) /\ called' = "heard" /\ UNCHANGED <<told, point>>
            \/ study = "way" /\ loc' = Placed(WithVip(s), spot) /\ Noted
         /\ UNCHANGED <<queried, closing, wrong>>

\* The platform reports a location, at most one a unit that is used.
SystemCallback ==
  /\ loc.listening /\ called = "no"
  /\ OnLocationChange(loc, FALSE) /\ silent' = 0
  /\ UNCHANGED <<study, asks, spot, hidden, vip, info, denied, calm, moves, misplaced, unpolled>>

-----------------------------------------------------------------------------
(* The fallback timer and _iosResumeGetLocation. *)

Desired(s) ==
  IF s.saved /\ s.state = "stationary" /\ s.since <= OldStay THEN SavedInterval ELSE FallbackInterval

FallbackTick ==
  /\ loc.timer = FallbackInterval
  /\ LET asking == loc.on /\ loc.back /\ ~loc.pending /\ loc.heard >= Desired(loc)
     IN  /\ loc' = [loc EXCEPT !.timer = 0, !.pending = @ \/ asking]
         /\ asks' = IF asking THEN asks \cup {"fallback"} ELSE asks
         /\ silent' = IF asking THEN 0 ELSE silent
  /\ UNCHANGED <<study, queried, closing, spot, hidden, vip, info, denied, called, calm, told, point, moves, misplaced, wrong, unpolled>>

ResumeFires ==
  /\ loc.resume
  /\ loc' = [loc EXCEPT !.resume = FALSE, !.pending = TRUE]
  /\ asks' = IF loc.pending THEN asks ELSE asks \cup {"resume"}
  /\ UNCHANGED <<study, queried, closing, spot, hidden, vip, info, denied, called, calm, told, point, silent,
                 moves, misplaced, wrong, unpolled>>

\* Mutant: after a location that is not found none is asked for again.
NotFoundHangs(k) == UNCHANGED <<loc, queried, closing, called, told, point, wrong>>

NotFound(k) ==
  loc' = [loc EXCEPT !.pending = FALSE] /\ UNCHANGED <<queried, closing, called, told, point, wrong>>

\* getLocation answers, or its timeout comes; the answer to the resume counts
\* as heard.
FixArrives(k) ==
  /\ k \in asks /\ asks' = asks \ {k}
  /\ NotFound(k) \/ OnLocationChange([loc EXCEPT !.pending = FALSE], k = "fallback")
  /\ silent' = IF k = "resume" THEN 0 ELSE silent
  /\ UNCHANGED <<study, spot, hidden, vip, info, denied, calm, moves, misplaced, unpolled>>

-----------------------------------------------------------------------------
(* VIP, and the mini-program shown and hidden. *)

\* What follows the VIP query of onAppShow; only iOS resumes.
GoesOn(s) ==
  IF "show" \notin queried THEN {s}
  ELSE {[s EXCEPT !.resume = @ \/ (ios /\ s.on), !.timer = IF s.on THEN 0 ELSE Off,
                  !.pending = FALSE, !.touched = IF flushed THEN 0 ELSE @] :
         ios \in BOOLEAN, flushed \in BOOLEAN}

VipAnswered ==
  /\ queried # {} /\ queried' = {}
  /\ \/ /\ info' = vip /\ denied' = (denied \/ vip = "no")
        /\ LET s == IF "fix" \in queried THEN [loc EXCEPT !.known = vip, !.knownAge = 0] ELSE loc
           IN  IF vip = "yes" THEN loc' \in GoesOn(s) /\ UNCHANGED <<closing, wrong>>
               ELSE loc' = s /\ closing' = TRUE /\ UNCHANGED wrong
     \/ study = "circumstances" /\ loc' \in GoesOn(loc) /\ UNCHANGED <<closing, info, denied, wrong>>
  /\ unpolled' = (unpolled /\ loc'.timer = Off)
  /\ UNCHANGED <<study, asks, spot, hidden, vip, called, calm, told, point, silent, moves, misplaced>>

\* onAppHide
HideApp ==
  /\ ~hidden /\ hidden' = TRUE /\ misplaced' = FALSE /\ silent' = 0 /\ calm' = 0
  /\ loc' = [loc EXCEPT !.back = TRUE, !.resume = FALSE]
  /\ UNCHANGED <<study, asks, queried, closing, spot, vip, info, denied, called, told, point, moves, wrong, unpolled>>

\* onAppShow up to its first await
ShowAgain ==
  /\ hidden /\ hidden' = FALSE /\ misplaced' = FALSE /\ calm' = 0 /\ silent' = 0
  /\ loc' = [loc EXCEPT !.back = FALSE]
  /\ queried' = IF loc.on THEN queried \cup {"show"} ELSE queried
  /\ UNCHANGED <<study, asks, closing, spot, vip, info, denied, called, told, point, moves, wrong, unpolled>>

Reset(enabled) ==
  /\ loc' = Forgotten(enabled) /\ misplaced' = hidden /\ unpolled' = FALSE
  /\ called' = "no" /\ calm' = 0 /\ told' = 0 /\ point' = None /\ silent' = 0

\* The end of closeAutoRecord, and of a restore that failed: a reset either way.
StaysClosed ==
  /\ closing /\ closing' = FALSE /\ Reset(FALSE)
  /\ UNCHANGED <<study, asks, queried, spot, hidden, vip, info, denied, moves, wrong>>
RestoreFails ==
  /\ study = "circumstances" /\ loc.on /\ ~closing /\ Reset(TRUE)
  /\ UNCHANGED <<study, asks, queried, closing, spot, hidden, vip, info, denied, moves, wrong>>

\* Recording is on again: a restore, wherever the mini-program is, or its user.
RestoreSucceeds ==
  /\ loc.on /\ ~loc.listening /\ ~closing
  /\ loc' = [Listening(loc) EXCEPT !.touched = 0] /\ silent' = 0 /\ unpolled' = FALSE
  /\ UNCHANGED <<study, asks, queried, closing, spot, hidden, vip, info, denied, called, calm, told, point,
                 moves, misplaced, wrong>>
SwitchedOn ==
  /\ ~loc.on /\ ~hidden /\ ~closing /\ info = "yes" /\ loc' = ListensOnly(loc) /\ denied' = FALSE
  /\ unpolled' = TRUE
  /\ UNCHANGED <<study, asks, queried, closing, spot, hidden, vip, info, called, calm, told, point, silent,
                 moves, misplaced, wrong>>

-----------------------------------------------------------------------------
(* What varies around the code. *)

Move ==
  /\ study = "way" /\ moves < MaxMoves /\ moves' = moves + 1
  /\ spot' \in Spots \ {spot}
  /\ calm' = 0 /\ told' = 0 /\ point' = point
  /\ UNCHANGED <<study, loc, asks, queried, closing, hidden, vip, info, denied, called, silent, misplaced, wrong, unpolled>>

\* VIP ends or is bought, and the platform may clean the storage.
VipChanges ==
  /\ study = "circumstances"
  /\ \/ vip' \in {"yes", "no"} \ {vip} /\ UNCHANGED info
     \/ info' = "unknown" /\ info # "unknown" /\ UNCHANGED vip
  /\ UNCHANGED <<study, loc, asks, queried, closing, spot, hidden, denied, called, calm, told, point, silent,
                 moves, misplaced, wrong, unpolled>>

Older(age, limit) == IF age < limit THEN age + 1 ELSE age

\* Half a minute passes: everything asked was answered before.  The clocks of
\* the circumstances stand still while only the way is studied.
Pass ==
  /\ asks = {} /\ queried = {} /\ ~loc.resume /\ loc.timer # FallbackInterval
  /\ LET n == [loc EXCEPT !.found = FALSE,
           !.window = [i \in DOMAIN @ |-> [@[i] EXCEPT !.age = Older(@, Back.span + 1)]],
           !.since = IF loc.state = "stationary" THEN Older(@, OldStay + 1) ELSE 0,
           !.calc = Older(@, LongAgo.calc), !.check = Older(@, LongAgo.check)]
     IN  loc' = IF study = "way" THEN n
                ELSE [n EXCEPT
                        !.timer = IF @ = Off THEN Off ELSE @ + 1, !.heard = Older(@, LongAgo.heard),
                        !.touched = Older(@, LongAgo.touched), !.knownAge = Older(@, LongAgo.knownAge),
                        !.fetched = Older(@, LongAgo.fetched)]
  /\ called' = "no"
  /\ calm' = IF called = "taken" THEN Older(calm, Patience) ELSE 0
  /\ silent' = IF study # "way" /\ hidden /\ loc.listening THEN Older(silent, 2 * FallbackInterval) ELSE 0
  /\ UNCHANGED <<study, asks, queried, closing, spot, hidden, vip, info, denied, told, point, moves, misplaced, wrong, unpolled>>

StaysNext ==
  \/ SystemCallback \/ FallbackTick \/ ResumeFires \/ (\E k \in {"fallback", "resume"} : FixArrives(k))
  \/ VipAnswered \/ HideApp \/ ShowAgain
  \/ StaysClosed \/ RestoreFails \/ RestoreSucceeds \/ SwitchedOn
  \/ Move \/ VipChanges \/ Pass

StaysSpec == StaysInit /\ [][StaysNext]_staysVars

-----------------------------------------------------------------------------
\* The types; the window is bounded, and a stay is saved only while it lasts.
StaysTypeOK ==
  /\ loc.back \in BOOLEAN /\ loc.state \in {"moving", "stationary"} /\ loc.exits \in 0..1
  /\ Len(loc.window) <= (IF Front.most < Back.most THEN Back.most ELSE Front.most)
  /\ (loc.state = "moving" => ~loc.saved) /\ (loc.saved => loc.stable # None)
  /\ asks \subseteq {"fallback", "resume"} /\ queried \subseteq {"fix", "show"}
  /\ vip \in {"yes", "no"} /\ info \in {"yes", "no", "unknown"} /\ denied \in BOOLEAN
  /\ called \in {"no", "heard", "taken"} /\ calm \in 0..Patience /\ told \in 0..2 /\ unpolled \in BOOLEAN

\* A stay with a fix in each unit is found in time, near where it is, wherever
\* the phone had been before and however the mini-program was shown and hidden
\* before: what it kept then does not delay it for good.
StaysAreFound == calm = Patience => loc.saved /\ point # None /\ IsNear(spot, point)

\* A stay is found once, however long it is and however often the
\* mini-program is shown and hidden.
StaysAreFoundOnce == told < 2

\* Recording is never closed for a VIP that is only not known.
ClosedOnDenial == ~wrong

\* The heartbeat follows every callback, whatever is known of VIP.
HeartbeatInTime == called # "no" => loc.touched < TouchInterval

\* In the background the location is asked for when the platform is silent,
\* unless a reset took the hidden mini-program for a shown one, or it was
\* never shown again since recording was switched on: an opening does not
\* start the fallback timer, the next show and a restore do.
SilenceIsBroken == misplaced \/ unpolled \/ silent < 2 * FallbackInterval
=============================================================================
