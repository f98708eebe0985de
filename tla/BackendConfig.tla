--------------------------- MODULE BackendConfig ---------------------------
(***************************************************************************)
(* The page that switches between the service and a private backend.       *)
(* (pages/sub/BackendConfig/BackendConfig.ts; utils/storage.ts)            *)
(*                                                                         *)
(* A router keeps an address for each key.  Testing a key registers it for *)
(* real, so that the test reaches the backend, and must put back what was  *)
(* there; saving registers, stores and has the user log in again.  All     *)
(* requests of the page carry one token, cancelled when the page is hidden *)
(* and by the next test or save; an aborted request may have arrived       *)
(* already or arrive later.  What the user has typed is chosen when a      *)
(* button is pressed.  Loose requests are a set: equal ones count as one.  *)
(***************************************************************************)
EXTENDS Naturals

CONSTANTS Keys, Addresses,
          MaxConfigs,   \* bound: the page is opened
          MaxPresses,   \* bound: tests and saves
          MaxExits      \* bound: the process dies

ASSUME BackendConfigAssumption ==
  /\ "none" \notin Keys /\ {"none", "saas"} \cap Addresses = {}
  /\ MaxConfigs \in Nat /\ MaxPresses \in Nat /\ MaxExits \in Nat

VARIABLES
  conf,     \* the page
  flow,     \* the test or save under way
  loose,    \* requests nobody waits for: cleaning up (due), or aborted
  routes,   \* the router: the address of each key
  config,   \* the configuration in storage
  acct,     \* whether there is a session, and whose the user's data are
  keptKeys, \* history: keys that may stay registered
  amiss,    \* history: what excuses a property
  configs, presses, exits

confVars == <<conf, flow, loose, routes, config, acct, keptKeys, amiss, configs, presses, exits>>
confBounds == <<configs, presses, exits>>

NoFlow == [pc |-> "idle", for |-> "none", key |-> "none", url |-> "none", done |-> FALSE]
NoConf == [open |-> FALSE, shown |-> FALSE, was |-> "saas", busy |-> FALSE, late |-> FALSE,
           token |-> FALSE, modal |-> FALSE, reLogin |-> FALSE]
Service == [mode |-> "saas", url |-> "none", key |-> "none"]
Private(k, u) == [mode |-> "private", url |-> u, key |-> k]
Nobody == [session |-> FALSE, of |-> "none"]

\* The backend that is configured, and the one that requests reach.
Configured == IF config.mode = "saas" THEN "saas" ELSE config.url
Reached == IF config.mode = "saas" THEN "saas" ELSE routes[config.key]

BackendConfigInit ==
  /\ conf = NoConf /\ flow = NoFlow /\ loose = {} /\ keptKeys = {} /\ amiss = {}
  /\ \/ config = Service /\ routes = [k \in Keys |-> "none"]
     \/ \E k \in Keys, u \in Addresses :
          config = Private(k, u) /\ routes = [x \in Keys |-> IF x = k THEN u ELSE "none"]
  /\ acct \in {Nobody, [session |-> TRUE, of |-> Configured]}
  /\ configs = 0 /\ presses = 0 /\ exits = 0

-----------------------------------------------------------------------------
\* Requests.  One that is held has the token of the page.
Sent(kind, k, u, held) == [kind |-> kind, key |-> k, url |-> u, held |-> held, due |-> TRUE]
Unwanted(r) == [r EXCEPT !.held = FALSE, !.due = FALSE]
Routed(kind, k, u) == [routes EXCEPT ![k] = IF kind = "register" THEN u ELSE "none"]

\* The request of the flow, when it has not arrived yet; a test also asks the
\* backend, which changes nothing.
Underway ==
  IF flow.pc \in {"register", "unregister"} /\ ~flow.done
    THEN {Unwanted(Sent(flow.pc, flow.key, flow.url, FALSE))} ELSE {}

\* The token is cancelled.
CancelledRequests == {IF r.held THEN Unwanted(r) ELSE r : r \in loose} \cup Underway
Unrestored(l) == IF \E r \in loose : r.due /\ r \notin l THEN {"unrestored"} ELSE {}

\* Mutant: the key is always given up, also the one that is in use.
CleanupGivesUp(held) ==
  IF ~acct.session THEN {} ELSE {Sent("unregister", flow.key, "none", held)}

\* _cleanupTestRegistration: the key in use gets its address back, any other
\* is given up.
Cleanup(held) ==
  IF ~acct.session THEN {}
  ELSE IF config.mode = "private" /\ config.key = flow.key
    THEN {Sent("register", flow.key, config.url, held)}
    ELSE {Sent("unregister", flow.key, "none", held)}

FlowArrives ==
  /\ flow.pc \in {"register", "unregister"} /\ ~flow.done
  /\ routes' = Routed(flow.pc, flow.key, flow.url) /\ flow' = [flow EXCEPT !.done = TRUE]
  /\ UNCHANGED <<conf, loose, config, acct, keptKeys, amiss, confBounds>>

LooseArrives(r) ==
  /\ loose' = loose \ {r} /\ routes' = Routed(r.kind, r.key, r.url)
  /\ amiss' = IF r.due \/ routes' = routes THEN amiss ELSE amiss \cup {"late"}
  /\ UNCHANGED <<conf, flow, config, acct, keptKeys, confBounds>>

LooseFails(r) ==
  /\ loose' = loose \ {r} /\ amiss' = amiss \cup (IF r.due THEN {"unrestored"} ELSE {})
  /\ UNCHANGED <<conf, flow, routes, config, acct, keptKeys, confBounds>>

-----------------------------------------------------------------------------
\* onLoad
OpenConfig ==
  /\ ~conf.open /\ ~conf.modal /\ configs < MaxConfigs /\ configs' = configs + 1
  /\ conf' = [NoConf EXCEPT !.open = TRUE, !.shown = TRUE, !.was = config.mode]
  /\ UNCHANGED <<flow, loose, routes, config, acct, keptKeys, amiss, presses, exits>>

\* A button is pressed: what was asked for earlier is no longer wanted, and
\* is aborted if the token is that of the page still.
Press ==
  /\ conf.shown /\ ~conf.modal /\ ~conf.busy /\ presses < MaxPresses /\ presses' = presses + 1
  /\ loose' = {Unwanted(r) : r \in loose} /\ amiss' = amiss \cup Unrestored(loose')
  /\ UNCHANGED <<routes, configs, exits>>

StartFlow(for, pc, k, u) ==
  /\ flow' = [pc |-> pc, for |-> for, key |-> k, url |-> u, done |-> FALSE]
  /\ conf' = [conf EXCEPT !.busy = TRUE, !.token = TRUE]

\* testConnection: nothing comes of it without a session.
TestConnection(k, u) ==
  /\ Press
  /\ IF acct.session THEN StartFlow("test", "register", k, u)
     ELSE conf' = [conf EXCEPT !.token = TRUE] /\ UNCHANGED flow
  /\ UNCHANGED <<config, acct, keptKeys>>

\* save, with the private backend on.
SaveOn(k, u) ==
  /\ Press
  /\ IF acct.session THEN StartFlow("save", "register", k, u)
     ELSE conf' = [conf EXCEPT !.token = TRUE] /\ UNCHANGED flow
  /\ UNCHANGED <<config, acct, keptKeys>>

\* save, with it off: without a key or a session there is nothing to give up.
SaveOff ==
  /\ conf.was = "private" /\ Press
  /\ IF acct.session /\ config.key # "none"
       THEN StartFlow("save", "unregister", config.key, "none") /\ UNCHANGED <<config, keptKeys>>
       ELSE /\ config' = Service /\ keptKeys' = keptKeys \cup ({config.key} \cap Keys)
            /\ conf' = [conf EXCEPT !.token = TRUE, !.modal = TRUE] /\ UNCHANGED flow
  /\ UNCHANGED acct

-----------------------------------------------------------------------------
\* Mutant: a hidden page does not learn that its flow is over.
FlowOverUnseen(c) == IF c.shown THEN [c EXCEPT !.busy = FALSE] ELSE c

\* The flow is over: written to a hidden page when it is shown.
FlowOver(c) == IF c.shown THEN [c EXCEPT !.busy = FALSE] ELSE [c EXCEPT !.late = TRUE]

\* A request that failed for the page may arrive later.
TestFails == \E late \in {{}, Underway} : loose' = loose \cup Cleanup(conf.token) \cup late

\* Mutant: a test that succeeded leaves the key in use at the tested address.
TestEndsThere ==
  /\ flow.pc = "probe"
  /\ \/ loose' = loose /\ keptKeys' = keptKeys \cup {flow.key}
     \/ loose' = loose \cup Cleanup(conf.token) /\ UNCHANGED keptKeys

\* The backend has answered, and is a private one, or not; the key that is in
\* use gets its address back in both cases.
TestEnds ==
  /\ flow.pc = "probe"
  /\ \/ /\ loose' = loose \cup
             IF config.mode = "private" /\ config.key = flow.key /\ config.url # flow.url
               THEN {Sent("register", config.key, config.url, conf.token)} ELSE {}
        /\ keptKeys' = keptKeys \cup {flow.key}
     \/ loose' = loose \cup Cleanup(conf.token) /\ UNCHANGED keptKeys

TestRegistered ==
  /\ flow.for = "test" /\ flow.pc = "register" /\ flow.done
  /\ flow' = [flow EXCEPT !.pc = "probe", !.done = FALSE]
  /\ UNCHANGED <<conf, loose, routes, config, acct, keptKeys, amiss, confBounds>>

TestOver ==
  /\ flow.for = "test"
  /\ TestEnds \/ (TestFails /\ UNCHANGED keptKeys)
  /\ flow' = NoFlow /\ conf' = FlowOver(conf)
  /\ UNCHANGED <<routes, config, acct, amiss, confBounds>>

\* The key saved before is not given up when another one takes its place.  A
\* save makes good what was amiss, unless something late has undone it.
SaveSucceeds ==
  /\ flow.for = "save" /\ flow.done
  /\ config' = (IF flow.pc = "register" THEN Private(flow.key, flow.url) ELSE Service)
  /\ IF config'.mode = "private" /\ routes[flow.key] = flow.url
       THEN /\ keptKeys' = {k \in Keys \ {flow.key} : routes[k] # "none"}
            /\ amiss' = amiss \ {"unrestored", "late", "abandoned"}
       ELSE keptKeys' = keptKeys \cup ({config.key} \cap Keys) /\ UNCHANGED amiss
  /\ flow' = NoFlow /\ conf' = [FlowOver(conf) EXCEPT !.modal = TRUE]
  /\ UNCHANGED <<loose, routes, acct, confBounds>>

\* Failing to give up the key does not keep the user from switching back.
SaveFails ==
  /\ flow.for = "save" /\ flow' = NoFlow /\ loose' \in {loose, loose \cup Underway}
  /\ IF flow.pc = "unregister"
       THEN /\ config' = Service /\ keptKeys' = keptKeys \cup {flow.key} /\ UNCHANGED amiss
            /\ conf' = [FlowOver(conf) EXCEPT !.modal = TRUE]
       ELSE /\ amiss' = amiss \cup (IF flow.done THEN {"abandoned"} ELSE {})
            /\ conf' = FlowOver(conf) /\ UNCHANGED <<config, keptKeys>>
  /\ UNCHANGED <<routes, acct, confBounds>>

-----------------------------------------------------------------------------
\* The flow is aborted with the page gone or hidden (c).
Abandons(c) ==
  /\ flow' = NoFlow
  /\ loose' = CancelledRequests \cup (IF flow.for = "test" THEN Cleanup(FALSE) ELSE {})
  /\ IF flow.pc = "unregister"
       THEN config' = Service /\ keptKeys' = keptKeys \cup {flow.key}
       ELSE UNCHANGED <<config, keptKeys>>
  /\ amiss' = amiss \cup Unrestored(loose')
       \cup (IF flow.for = "save" /\ flow.pc = "register" /\ flow.done THEN {"abandoned"} ELSE {})
       \cup (IF ~c.open /\ (flow.pc = "unregister" \/ conf.reLogin) THEN {"left"} ELSE {})
  /\ conf' = c /\ UNCHANGED <<routes, acct, confBounds>>

\* Mutant: a save that ends while the page is hidden is not followed up.
HideConfigForgets ==
  conf.shown /\ Abandons([(IF flow.pc = "idle" THEN conf ELSE FlowOver([conf EXCEPT !.shown = FALSE]))
                          EXCEPT !.shown = FALSE, !.token = FALSE])

\* onHide: switching back goes on, and is completed when the page is shown.
HideConfig ==
  /\ conf.shown
  /\ Abandons([(IF flow.pc = "idle" THEN conf ELSE FlowOver([conf EXCEPT !.shown = FALSE]))
               EXCEPT !.shown = FALSE, !.token = FALSE, !.reLogin = @ \/ flow.pc = "unregister"])

\* onUnload: nothing completes a save that ends now.
UnloadConfig == conf.open /\ ~conf.modal /\ Abandons(NoConf)

\* clearUserData and the way to the first page, which closes this one.
LogsInAgain ==
  /\ acct' = Nobody /\ conf' = NoConf
  /\ loose' = CancelledRequests /\ amiss' = amiss \cup Unrestored(loose')
  /\ UNCHANGED <<flow, routes, config, keptKeys, confBounds>>

ShowConfig ==
  /\ conf.open /\ ~conf.shown
  /\ IF conf.reLogin THEN LogsInAgain
     ELSE /\ conf' = [conf EXCEPT !.shown = TRUE, !.busy = @ /\ ~conf.late, !.late = FALSE]
          /\ UNCHANGED <<flow, loose, routes, config, acct, keptKeys, amiss, confBounds>>

\* The user confirms the dialog of success.
ConfirmSaved == conf.modal /\ conf.shown /\ LogsInAgain

\* The process dies; requests on their way may still arrive.
ConfigDies ==
  /\ conf.open /\ exits < MaxExits /\ exits' = exits + 1
  /\ conf' = NoConf /\ flow' = NoFlow /\ loose' = {Unwanted(r) : r \in loose} \cup Underway
  /\ amiss' = amiss \cup Unrestored(loose')
       \cup (IF flow.for = "test" THEN {"unrestored"} ELSE {})
       \cup (IF flow.for = "save" /\ flow.done THEN {"abandoned"} ELSE {})
       \cup (IF conf.modal \/ conf.reLogin THEN {"left"} ELSE {})
  /\ UNCHANGED <<routes, config, acct, keptKeys, configs, presses>>

\* With the page closed, other parts of the program log in, and lose a
\* session that the backend does not know.
LogsInElsewhere ==
  /\ ~conf.open /\ ~acct.session /\ Reached # "none"
  /\ acct' = [session |-> TRUE, of |-> Reached]
  /\ amiss' = IF Reached = Configured THEN amiss \ {"left", "misrouted"}
                                      ELSE amiss \cup {"misrouted"}
  /\ UNCHANGED <<conf, flow, loose, routes, config, keptKeys, confBounds>>

Unauthorized ==
  /\ ~conf.open /\ acct.session /\ acct.of # Reached
  /\ acct' = [acct EXCEPT !.session = FALSE]
  /\ UNCHANGED <<conf, flow, loose, routes, config, keptKeys, amiss, confBounds>>

ConfigAnswers == TestRegistered \/ TestOver \/ SaveSucceeds \/ SaveFails

BackendConfigNext ==
  \/ OpenConfig \/ SaveOff
  \/ \E k \in Keys, u \in Addresses : TestConnection(k, u) \/ SaveOn(k, u)
  \/ FlowArrives \/ \E r \in loose : LooseArrives(r) \/ LooseFails(r)
  \/ ConfigAnswers
  \/ HideConfig \/ UnloadConfig \/ ShowConfig \/ ConfirmSaved \/ ConfigDies
  \/ LogsInElsewhere \/ Unauthorized

-----------------------------------------------------------------------------
\* The types.
BackendConfigTypeOK ==
  /\ config \in {Service} \cup {Private(k, u) : k \in Keys, u \in Addresses}
  /\ routes \in [Keys -> Addresses \cup {"none"}]
  /\ flow.pc \in {"idle", "register", "probe", "unregister"} /\ flow.for \in {"none", "test", "save"}
  /\ acct.of \in Addresses \cup {"none", "saas"} /\ keptKeys \subseteq Keys
  /\ configs \in 0..MaxConfigs /\ presses \in 0..MaxPresses /\ exits \in 0..MaxExits

\* Nothing that the page waits for, or that cleans up after it, is under way.
NothingDue == flow.pc = "idle" /\ \A r \in loose : ~r.due
Straight == amiss \cap {"unrestored", "late", "abandoned"} = {}

\* The key in use leads to the address that was saved, whatever was tested
\* and however the test ended, unless cleaning up failed or was itself
\* aborted, an aborted request arrived late, or a save was aborted after it
\* had arrived.
RouteIsSaved == NothingDue /\ Straight /\ config.mode = "private" => routes[config.key] = config.url

\* No other key stays registered, but for one that passed its test and one
\* that was saved before.
NoOrphanRoute ==
  NothingDue /\ Straight => \A k \in Keys : routes[k] # "none" => k = config.key \/ k \in keptKeys

\* After a switch the user's session and data are never left those of the
\* other backend: clearing them is on the screen or due when the page is
\* shown, unless the page was left or the process died before that.
LoginIsOfBackend ==
  \/ acct.of \in {"none", Configured} \/ conf.modal \/ conf.reLogin
  \/ amiss \cap {"left", "misrouted"} # {}

\* The buttons come back after every test and save.
ButtonsReturn == conf.shown /\ flow.pc = "idle" => ~conf.busy
=============================================================================
