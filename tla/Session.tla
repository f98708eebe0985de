------------------------------ MODULE Session -------------------------------
(***************************************************************************)
(* Logging in: one flight shared by the start of the program, the first    *)
(* page and a page opened from it, the session kept on the phone, answers  *)
(* that it has expired, and the inviter that the first login must carry.   *)
(* (utils/auth.ts, utils/http.ts, utils/storage.ts, utils/vip.ts, app.ts,  *)
(* the logins of the pages)                                                *)
(***************************************************************************)
EXTENDS Naturals

CONSTANTS App, Index, Other,  \* who calls login: app.ts, the first page, another page
          NoOne,
          MaxSessions,        \* bound: sessions the server makes
          MaxLogins,          \* bound: calls of login
          MaxLapses           \* bound: sessions that expire

Callers == {App, Index, Other}

ASSUME SessionAssumption ==
  NoOne \notin Callers /\ MaxSessions \in Nat \ {0} /\ MaxLogins \in Nat /\ MaxLapses \in Nat

VARIABLES
  call,     \* call[c]: the login of c, see NoLogin
  flight,   \* flight[c]: how far the login that c began is
  cur,      \* whose flight _loginFlight is, NoOne when there is none
  session,  \* the session on the phone, 0 for none
  live,     \* sessions the server knows
  last,     \* the last session the server made
  inUse,    \* the session that a request of some page was sent with
  scene,    \* the inviter's code: "none", "resolving", "known" or "failed"
  pending,  \* pendingInviter is set
  account,  \* the account: "none", "new", "claimed" with its trial, or "old"
  invited,  \* the server knows the inviter
  known,    \* history: events that excuse a property
  started,  \* the program has logged in
  logins, lapses

sessionVars ==
  <<call, flight, cur, session, live, last, inUse, scene, pending, account, invited, known, started, logins, lapses>>

\* pc is "idle", "check" (ensureLogin's own look at the profile), "profile"
\* (login's) or "wait"; on is whose flight is awaited; well tells how the last
\* call ended; sent is what the profile was sent with, fine that it was live.
NoLogin == [pc |-> "idle", on |-> NoOne, left |-> FALSE, well |-> FALSE, sent |-> 0, fine |-> FALSE]
NoFlight == [at |-> "none", inviter |-> FALSE]

SessionInit ==
  /\ call = [c \in Callers |-> NoLogin] /\ flight = [c \in Callers |-> NoFlight] /\ cur = NoOne
  /\ last = 1 /\ session \in {0, 1} /\ live \in SUBSET {1} /\ inUse = 0
  /\ scene \in {"none", "resolving"} /\ pending = FALSE
  /\ account \in {"none", "old"} /\ (live # {} => account = "old") /\ invited = FALSE
  /\ known = {} /\ started = FALSE /\ logins = 0 /\ lapses = 0

Phone == <<session, pending>>
SessionServer == <<live, last, account, invited>>
Note(names) == known' = known \cup names

-----------------------------------------------------------------------------
(* One call.  The operators give the new value of <<call, flight, cur>>.   *)

State == [call |-> call, flight |-> flight, cur |-> cur]
Becomes(s) == call' = s.call /\ flight' = s.flight /\ cur' = s.cur

\* Mutant: each call has a flight of its own.
JoinNever(s, c) ==
  [s EXCEPT !.call[c].pc = "wait", !.call[c].on = c, !.flight[c] = [NoFlight EXCEPT !.at = "wx"], !.cur = c]

\* login without a session: the flight under way is shared.
Join(s, c) ==
  IF s.cur # NoOne THEN [s EXCEPT !.call[c] = [@ EXCEPT !.pc = "wait", !.on = s.cur, !.sent = 0, !.fine = FALSE]]
  ELSE [s EXCEPT !.call[c] = [@ EXCEPT !.pc = "wait", !.on = c, !.sent = 0, !.fine = FALSE],
                 !.flight[c] = [NoFlight EXCEPT !.at = "wx"], !.cur = c]

SendWith(s, c, pc, with) ==
  [s EXCEPT !.call[c].pc = pc, !.call[c].on = NoOne, !.call[c].sent = with, !.call[c].fine = with \in live]
Ends(s, c, well) ==
  [s EXCEPT !.call[c] = [@ EXCEPT !.pc = "idle", !.on = NoOne, !.well = well, !.sent = 0, !.fine = FALSE]]

\* Mutant: only those are told who began it.
LandsAlone(s, c, well) ==
  Ends([s EXCEPT !.flight[c] = NoFlight, !.cur = NoOne], c, well)

\* Mutant: a flight that fails is kept.
LandsStuck(s, c, well) ==
  [s EXCEPT !.flight[c] = NoFlight, !.cur = IF well THEN NoOne ELSE @,
            !.call = [o \in Callers |-> IF s.call[o].on = c THEN Ends(s, o, well).call[o] ELSE s.call[o]]]

\* A flight ends: _loginFlight is cleared whosever it is, and all who await
\* this flight go on.
Lands(s, c, well) ==
  [s EXCEPT !.flight[c] = NoFlight, !.cur = NoOne,
            !.call = [o \in Callers |-> IF s.call[o].on = c THEN Ends(s, o, well).call[o] ELSE s.call[o]]]

\* A flight that clears the flight of another.
Crosses(c) == IF cur \notin {NoOne, c} THEN {"crossed"} ELSE {}

-----------------------------------------------------------------------------
(* Calls *)

\* The program resolves the code before it logs in; the first page waits for
\* it 1.5 s at most, and looks at the profile itself.
Login(c) ==
  /\ call[c].pc = "idle" /\ ~call[c].left /\ (c = App => scene # "resolving" /\ ~started)
  /\ logins < MaxLogins /\ logins' = logins + 1 /\ started' = (started \/ c = App)
  /\ Becomes(IF session = 0 THEN Join(State, c)
             ELSE SendWith(State, c, IF c = Index THEN "check" ELSE "profile", session))
  /\ UNCHANGED <<Phone, SessionServer, inUse, scene, known, lapses>>

\* ensureLogin: only an answer that the session has expired makes it log in.
CheckEnds(c) ==
  /\ call[c].pc = "check"
  /\ \/ /\ call[c].fine \/ session # 0
        /\ Becomes(Ends(State, c, TRUE)) /\ Note(IF session = 0 THEN {"dropped"} ELSE {}) /\ UNCHANGED session
     \/ /\ ~call[c].fine \/ session = 0
        /\ Note(IF session \notin {0, call[c].sent} THEN {"stale"} ELSE {})
        /\ session' = 0 /\ Becomes(Join(State, c))
  /\ UNCHANGED <<pending, SessionServer, inUse, scene, started, logins, lapses>>

\* login: what answers well ends it and clears the flight of whoever has one;
\* anything else clears the session.
ProfileEnds(c) ==
  /\ call[c].pc = "profile"
  /\ \/ /\ call[c].fine /\ Becomes([Ends(State, c, TRUE) EXCEPT !.cur = NoOne])
        /\ Note((IF session = 0 THEN {"dropped"} ELSE {}) \cup (IF cur # NoOne THEN {"crossed"} ELSE {}))
        /\ UNCHANGED session
     \/ /\ session' = 0 /\ Becomes(Join(State, c))
        /\ Note(IF session \in live THEN {"dropped"} ELSE {})
  /\ UNCHANGED <<pending, SessionServer, inUse, scene, started, logins, lapses>>

\* wx.login; a flight whose page was left ends well without a session.
WxEnds(c) ==
  /\ flight[c].at = "wx"
  /\ \/ /\ ~call[c].left
        /\ Becomes([State EXCEPT !.flight[c] = [at |-> "post", inviter |-> pending]]) /\ UNCHANGED known
     \/ /\ call[c].left /\ Becomes(Lands(State, c, TRUE)) /\ Note({"dropped"} \cup Crosses(c))
     \/ /\ Becomes(Lands(State, c, FALSE)) /\ Note(Crosses(c))
  /\ UNCHANGED <<Phone, SessionServer, inUse, scene, started, logins, lapses>>

\* The server's part of a login.
Registers(inviter) ==
  /\ last < MaxSessions /\ last' = last + 1 /\ live' = live \cup {last'}
  /\ account' = IF account = "none" THEN "new" ELSE account
  /\ invited' = (invited \/ (account = "none" /\ inviter))

\* Mutant: the session of a new account is not kept.
PostUnkept(c) ==
  /\ flight[c].at = "post" /\ Registers(flight[c].inviter)
  /\ session' = (IF account = "none" THEN session ELSE last') /\ pending' = (pending /\ ~flight[c].inviter)
  /\ IF account # "none" THEN Becomes(Lands(State, c, TRUE)) /\ Note(Crosses(c))
     ELSE Becomes([State EXCEPT !.flight[c].at = "claim"]) /\ UNCHANGED known
  /\ UNCHANGED <<inUse, scene, started, logins, lapses>>

\* A session comes; with a new account the trial is claimed next.
PostArrives(c) ==
  /\ flight[c].at = "post" /\ Registers(flight[c].inviter)
  /\ session' = last' /\ pending' = (pending /\ ~flight[c].inviter)
  /\ IF account # "none" THEN Becomes(Lands(State, c, TRUE)) /\ Note(Crosses(c))
     ELSE Becomes([State EXCEPT !.flight[c].at = "claim"]) /\ UNCHANGED known
  /\ UNCHANGED <<inUse, scene, started, logins, lapses>>

\* It fails, before or after the server has done its part.
PostFails(c) ==
  /\ flight[c].at = "post"
  /\ Registers(flight[c].inviter) \/ UNCHANGED <<live, last, account, invited>>
  /\ Becomes(Lands(State, c, FALSE)) /\ Note(Crosses(c))
  /\ UNCHANGED <<Phone, inUse, scene, started, logins, lapses>>

\* claimNewUserFreeVip, and what _applyLoginResult does after it; that it
\* failed is only logged.
ClaimEnds(c) ==
  /\ flight[c].at = "claim" /\ account' \in {account, "claimed"}
  /\ Becomes(Lands(State, c, TRUE)) /\ Note(Crosses(c))
  /\ UNCHANGED <<Phone, live, last, invited, inUse, scene, started, logins, lapses>>

\* onUnload of the other page cancels its login wherever it is; a profile
\* that is cancelled counts as one that failed.
LeavePage ==
  /\ ~call[Other].left
  /\ LET s == [State EXCEPT !.call[Other].left = TRUE]
     IN  IF call[Other].pc = "profile"
         THEN session' = 0 /\ Becomes(Join(s, Other)) /\ Note(IF session \in live THEN {"dropped"} ELSE {})
         ELSE /\ UNCHANGED session
              /\ IF flight[Other].at = "post" THEN Becomes(Lands(s, Other, FALSE)) /\ Note(Crosses(Other))
                 ELSE Becomes(s) /\ UNCHANGED known
  /\ UNCHANGED <<pending, SessionServer, inUse, scene, started, logins, lapses>>

-----------------------------------------------------------------------------
(* Expiry *)

Lapse ==
  /\ session \in live /\ lapses < MaxLapses
  /\ lapses' = lapses + 1 /\ live' = live \ {session}
  /\ UNCHANGED <<call, flight, cur, Phone, last, account, invited, inUse, scene, known, started, logins>>

Request ==
  /\ inUse = 0 /\ session # 0 /\ inUse' = session
  /\ UNCHANGED <<call, flight, cur, Phone, SessionServer, scene, known, started, logins, lapses>>

\* _request: an answer of 401 clears the session there is.
RequestEnds ==
  /\ inUse # 0 /\ inUse' = 0
  /\ session' = IF inUse \in live THEN session ELSE 0
  /\ Note(IF inUse \notin live /\ session \notin {0, inUse} THEN {"stale"} ELSE {})
  /\ UNCHANGED <<call, flight, cur, pending, SessionServer, scene, started, logins, lapses>>

-----------------------------------------------------------------------------
(* The inviter *)

Bind == account # "none" /\ session \in live /\ invited' = TRUE /\ UNCHANGED <<session, known>>

\* Mutant: a code that comes after the login is only kept.
SceneTooLate ==
  /\ scene = "resolving" /\ scene' = "known" /\ pending' = TRUE
  /\ UNCHANGED <<call, flight, cur, session, SessionServer, inUse, known, started, logins, lapses>>

\* _resolveInviterFromShortCode: after a login the inviter is sent on its own,
\* which may fail; while the login is on its way it comes too late.
SceneResolves ==
  /\ scene = "resolving"
  /\ \/ /\ scene' = "known" /\ pending' = TRUE
        /\ IF session = 0
           THEN /\ UNCHANGED <<session, invited>>
                /\ Note(IF \E c \in Callers : flight[c].at = "post" \/ account # "none" THEN {"missed"} ELSE {})
           ELSE \/ Bind
                \/ session' = (IF session \in live THEN session ELSE 0) /\ UNCHANGED invited /\ Note({"missed"})
     \/ scene' = "failed" /\ UNCHANGED <<session, pending, invited, known>>
  /\ UNCHANGED <<call, flight, cur, live, last, account, inUse, started, logins, lapses>>

Progress(c) == CheckEnds(c) \/ ProfileEnds(c) \/ WxEnds(c) \/ PostArrives(c) \/ PostFails(c) \/ ClaimEnds(c)
SessionNext ==
  \/ \E c \in Callers : Login(c) \/ Progress(c)
  \/ LeavePage \/ Lapse \/ Request \/ RequestEnds \/ SceneResolves

\* Requests end: all have timeouts.
SessionFairness == WF_sessionVars(\E c \in Callers : Progress(c))
SessionSpec == SessionInit /\ [][SessionNext]_sessionVars /\ SessionFairness

-----------------------------------------------------------------------------
\* The types of the session's variables.
SessionTypeOK ==
  /\ session \in 0..MaxSessions /\ live \subseteq 1..MaxSessions /\ cur \in Callers \cup {NoOne}
  /\ \A c \in Callers : /\ call[c].pc \in {"idle", "check", "profile", "wait"}
                          /\ flight[c].at \in {"none", "wx", "post", "claim"}
  /\ scene \in {"none", "resolving", "known", "failed"}

\* The shared flight is one that is still under way: no call joins a flight
\* that nobody will ever end.
FlightIsAlive ==
  /\ cur # NoOne => flight[cur].at # "none"
  /\ \A c \in Callers : call[c].pc = "wait" => flight[call[c].on].at # "none"

\* The server is asked for one session at a time.  Two flights are only there
\* when the end of one call cleared the flight of another.
OneLogin ==
  "crossed" \notin known => \A a, b \in Callers : flight[a].at # "none" /\ flight[b].at # "none" => a = b

\* A login that ends well leaves a session, unless it was dropped by a flight
\* whose page was left, a profile that failed or a late answer, or a session
\* ran out at the server (lapses), so that a request met 401 and dropped it.
LoggedIn ==
  [][\A c \in Callers :
       call[c].pc # "idle" /\ call'[c].pc = "idle" /\ call'[c].well =>
         session' # 0 \/ known' \cap {"dropped", "stale"} # {} \/ lapses > 0]_sessionVars

\* An account made after a code was scanned has its inviter, once the code is
\* resolved; one that came between the request and the answer of the login,
\* or whose late request failed, is lost.
InviterCounts ==
  scene = "known" /\ account \in {"new", "claimed"} /\ "missed" \notin known => invited
=============================================================================
