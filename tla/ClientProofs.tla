---------------------------- MODULE ClientProofs ----------------------------
(***************************************************************************)
(* Proofs about the mini-program: what the whole promises of every part,   *)
(* from the invariants of PagesProofs, FormsProofs and EditorProofs.       *)
(***************************************************************************)
EXTENDS Client, PagesProofs, FormsProofs, EditorProofs, TLAPS

\* One part moves, and the others leave its variables alone.
LEMMA ClientFrame ==
  [ClientNext]_clientVars =>
    /\ part' = part
    /\ part = "login" => [SessionNext]_sessionVars
    /\ part = "index" => [FeedNext]_feedVars
    /\ part = "detail" => [DetailNext]_detailVars
    /\ part = "editor" => [EditorNext]_editorVars
    /\ part = "place" => [PlaceNext]_placeVars
    /\ part = "vip" => [BuyerNext]_buyerVars
    /\ part = "family" => [FamilyPageNext]_familyVars
    /\ part = "backend" => [BackendConfigNext]_confVars
    /\ part = "settings" => [SetPageNext]_setVars
    /\ part = "points" => [PointsNext]_pointsVars
    /\ part = "recorder" => [RecorderNext]_recorderVars
    /\ part = "log" => [OpsLogNext]_opsLogVars
    /\ part # "login" => UNCHANGED sessionVars
<1>1. ASSUME ClientNext, part = "login" PROVE SessionNext
  BY <1>1 DEF ClientNext, LoggingIn, Listing, Drawer, Editing, Place, Day, Buying, Family,
              Switching, Profiling, Points, Recording, Staying, Decoding, Logging
<1>2. ASSUME ClientNext, part = "index" PROVE FeedNext
  BY <1>2 DEF ClientNext, LoggingIn, Listing, Drawer, Editing, Place, Day, Buying, Family,
              Switching, Profiling, Points, Recording, Staying, Decoding, Logging
<1>3. ASSUME ClientNext, part = "vip" PROVE BuyerNext
  BY <1>3 DEF ClientNext, LoggingIn, Listing, Drawer, Editing, Place, Day, Buying, Family,
              Switching, Profiling, Points, Recording, Staying, Decoding, Logging
<1>4. ASSUME ClientNext, part = "family" PROVE FamilyPageNext
  BY <1>4 DEF ClientNext, LoggingIn, Listing, Drawer, Editing, Place, Day, Buying, Family,
              Switching, Profiling, Points, Recording, Staying, Decoding, Logging
<1>5. ASSUME ClientNext, part = "backend" PROVE BackendConfigNext
  BY <1>5 DEF ClientNext, LoggingIn, Listing, Drawer, Editing, Place, Day, Buying, Family,
              Switching, Profiling, Points, Recording, Staying, Decoding, Logging
<1>6. ASSUME ClientNext, part = "settings" PROVE SetPageNext
  BY <1>6 DEF ClientNext, LoggingIn, Listing, Drawer, Editing, Place, Day, Buying, Family,
              Switching, Profiling, Points, Recording, Staying, Decoding, Logging
<1>7. ASSUME ClientNext, part = "points" PROVE PointsNext
  BY <1>7 DEF ClientNext, LoggingIn, Listing, Drawer, Editing, Place, Day, Buying, Family,
              Switching, Profiling, Points, Recording, Staying, Decoding, Logging
<1>8. ASSUME ClientNext, part = "recorder" PROVE RecorderNext
  BY <1>8 DEF ClientNext, LoggingIn, Listing, Drawer, Editing, Place, Day, Buying, Family,
              Switching, Profiling, Points, Recording, Staying, Decoding, Logging
<1>9. ASSUME ClientNext, part = "log" PROVE OpsLogNext
  BY <1>9 DEF ClientNext, LoggingIn, Listing, Drawer, Editing, Place, Day, Buying, Family,
              Switching, Profiling, Points, Recording, Staying, Decoding, Logging
<1>10. ASSUME ClientNext, part # "login" PROVE UNCHANGED sessionVars
  BY <1>10 DEF ClientNext, LoggingIn, Listing, Drawer, Editing, Place, Day, Buying, Family,
              Switching, Profiling, Points, Recording, Staying, Decoding, Logging
<1>11. ASSUME ClientNext PROVE part' = part
  BY <1>11 DEF ClientNext, LoggingIn, Listing, Drawer, Editing, Place, Day, Buying, Family,
              Switching, Profiling, Points, Recording, Staying, Decoding, Logging
<1>12. ASSUME ClientNext, part = "editor" PROVE EditorNext
  BY <1>12 DEF ClientNext, LoggingIn, Listing, Drawer, Editing, Place, Day, Buying, Family,
              Switching, Profiling, Points, Recording, Staying, Decoding, Logging
<1>13. ASSUME ClientNext, part = "place" PROVE PlaceNext
  BY <1>13 DEF ClientNext, LoggingIn, Listing, Drawer, Editing, Place, Day, Buying, Family,
              Switching, Profiling, Points, Recording, Staying, Decoding, Logging
<1>14. ASSUME ClientNext, part = "detail" PROVE DetailNext
  BY <1>14 DEF ClientNext, LoggingIn, Listing, Drawer, Editing, Place, Day, Buying, Family,
              Switching, Profiling, Points, Recording, Staying, Decoding, Logging
<1>15. ASSUME UNCHANGED clientVars
      PROVE  /\ part' = part
             /\ UNCHANGED <<sessionVars, feedVars, detailVars, editorVars, placeVars, buyerVars, familyVars, confVars,
                            setVars, pointsVars, recorderVars, opsLogVars>>
  BY <1>15 DEF clientVars, pageVars, formVars, recordVars
<1>16. QED
  BY <1>1, <1>2, <1>3, <1>4, <1>5, <1>6, <1>7, <1>8, <1>9, <1>10, <1>11, <1>12, <1>13, <1>14, <1>15

LEMMA LoginInvHolds == ClientSafety => []LoginInv
<1>1. ClientInit => LoginInv  BY LoginInvInit DEF ClientInit
<1>2. LoginInv /\ [ClientNext]_clientVars => LoginInv'
  <2>1. LoginInv /\ UNCHANGED sessionVars => LoginInv'  BY LoginInvStep
  <2>2. QED  BY <2>1, ClientFrame, LoginInvStep
<1>3. QED  BY <1>1, <1>2, PTL DEF ClientSafety

\* Logging in, for any number of sessions and of callers: no call awaits a
\* flight that is over, the server is asked for one session at a time, and an
\* account made after a code was scanned has its inviter.
THEOREM SessionSafeHolds == ClientSafety => []SessionSafe
<1>1. LoginInv => SessionSafe  BY LoginInvImplies DEF SessionSafe
<1>2. QED  BY <1>1, LoginInvHolds, PTL

\* A login that ends well leaves a session on the phone, whatever calls share
\* its flight and whatever answers come late.
THEOREM LoggedInHolds == ClientSafety => LoggedIn
<1>1. LoginInv /\ [ClientNext]_clientVars =>
        [\A c \in Callers :
           call[c].pc # "idle" /\ call'[c].pc = "idle" /\ call'[c].well =>
             session' # 0 \/ known' \cap {"dropped", "stale"} # {} \/ lapses > 0]_sessionVars
  <2>1. SUFFICES ASSUME LoginInv, [ClientNext]_clientVars, ~UNCHANGED sessionVars, NEW c \in Callers,
                        call[c].pc # "idle", call'[c].pc = "idle", call'[c].well
                 PROVE  session' # 0 \/ known' \cap {"dropped", "stale"} # {} \/ lapses > 0
    OBVIOUS
  <2>2. SessionNext  BY <2>1, ClientFrame
  <2>3. EndsWell(c)
    <3>1. LoginControl'  BY <2>1, <2>2, LoginInvStep DEF LoginInv
    <3>2. call'[c].well \in BOOLEAN  BY <3>1 DEF LoginControl, Logins
    <3>3. QED  BY <2>1, <3>2 DEF EndsWell
  <2>4. QED  BY <2>1, <2>2, <2>3, LoggedInStep DEF SessionOrExcuse
<1>2. QED  BY <1>1, LoginInvHolds, PTL DEF ClientSafety, LoggedIn

\* The page that sells VIP time, for any number of orders, polls, payments and
\* visits: the lock outlives whatever hides the page, no order that was charged
\* is cancelled and none is left open, and the dialog of a purchase shows it.
THEOREM BuyerSafeHolds == ClientSafety => []BuyerSafe
<1>1. ClientInit => (part = "vip" => BuyerInv)  BY BuyerInvInit DEF ClientInit
<1>2. (part = "vip" => BuyerInv) /\ [ClientNext]_clientVars => (part = "vip" => BuyerInv)'
  BY ClientFrame, BuyerInvStep
<1>3. (part = "vip" => BuyerInv) => BuyerSafe  BY BuyerInvImplies DEF BuyerSafe
<1>4. QED  BY <1>1, <1>2, <1>3, PTL DEF ClientSafety

\* Switching the recording on and off, for any number of calls, retries and
\* deaths of the process: once every call has ended, the location service does
\* not run for a recording that is off, what the user closed last is off, and
\* what is on listens or will try again, but for the two ways NeverSilent names
\* (a late answer to an opening, and a restart that failed in a recording that
\* was never polled).
THEOREM RecorderSafeHolds == ClientSafety => []RecorderSafe
<1>1. ClientInit => (part = "recorder" => RecorderInv)  BY RecorderInvInit DEF ClientInit
<1>2. (part = "recorder" => RecorderInv) /\ [ClientNext]_clientVars => (part = "recorder" => RecorderInv)'
  BY ClientFrame, RecorderInvStep
<1>3. (part = "recorder" => RecorderInv) => RecorderSafe  BY RecorderInvImplies DEF RecorderSafe
<1>4. QED  BY <1>1, <1>2, <1>3, PTL DEF ClientSafety

\* The list of days, for any page size, any number of days, reloads and pulls,
\* and answers that fail or come when the page is left: the list is a run of
\* days that the next page goes on with, it begins with the newest day and is
\* not blank unless the page knows better, and each day has its own cover.
THEOREM FeedSafeHolds == ClientSafety => []FeedSafe
<1>1. ClientInit => (part = "index" => FeedInv)  BY FeedInvInit DEF ClientInit
<1>2. (part = "index" => FeedInv) /\ [ClientNext]_clientVars => (part = "index" => FeedInv)'
  BY ClientFrame, FeedInvStep
<1>3. (part = "index" => FeedInv) => FeedSafe  BY FeedInvImplies DEF FeedSafe
<1>4. QED  BY <1>1, <1>2, <1>3, PTL DEF ClientSafety

\* The page of a day, for any number of entries, any page size, and whatever
\* answers fail, are late or come after the page was reloaded: no entry is
\* shown twice, none is left out but for the excuses NoneSkipped lists, the tab
\* shows what the list and the memories have for it, what the page knows to be
\* deleted is not shown by a page at rest, and sharing waits for no code that
\* no one fetches.
THEOREM DetailSafeHolds == ClientSafety => []DetailSafe
<1>1. ClientInit => (part = "detail" => DetailInv)  BY DetailInvInit DEF ClientInit
<1>2. (part = "detail" => DetailInv) /\ [ClientNext]_clientVars => (part = "detail" => DetailInv)'
  BY ClientFrame, DetailInvStep
<1>3. (part = "detail" => DetailInv) => DetailSafe  BY DetailInvImplies DEF DetailSafe
<1>4. QED  BY <1>1, <1>2, <1>3, PTL DEF ClientSafety

\* The part that moves keeps its invariant, whichever part that is.
KeptForServer == (part = "points" => PointsInv) /\ (part = "log" => OpsLogInv)

LEMMA KeptForServerHolds == ClientSafety => []KeptForServer
<1>1. ClientInit => KeptForServer
  <2>1. ClientInit => PointsInit /\ OpsLogInit  BY DEF ClientInit
  <2>2. PointsInit => PointsInv  BY TypesInit, OneByOneInit DEF PointsInv
  <2>3. QED  BY <2>1, <2>2, OpsLogInvInit DEF KeptForServer
<1>2. KeptForServer /\ [ClientNext]_clientVars => KeptForServer'
  BY ClientFrame, PointsInvStep, OpsLogInvStep DEF KeptForServer
<1>3. QED  BY <1>1, <1>2, PTL DEF ClientSafety

\* No stay point is lost or sent again before two calls have waited for one round,
\* and no logged operation lost but those that EventsAreKept names (evicted, not
\* stored, overtaken by a report, overwritten when the queue could not be read), for
\* any number of calls that flush, any cap and any queue.
THEOREM PointsSafeHolds == ClientSafety => []PointsSafe
<1>1. KeptForServer => PointsSafe
  BY PointsInvImplies, OpsLogInvImplies DEF KeptForServer, PointsSafe
<1>2. QED  BY <1>1, KeptForServerHolds, PTL

FormsKept ==
  /\ part = "family" => FamInv
  /\ part = "backend" => ConfInv
  /\ part = "settings" => SetInv

\* The forms, for any number of visits, requests and answers that fail, are
\* late or never come: the family's page loses no invitation and shows its own
\* family and link, the router leads where the page of the backend says, and
\* the settings show what is kept, bind a phone once a day and submit one
\* change of a name or an avatar at a time.
THEOREM FormsSafeHolds == ClientSafety => []FormsSafe
<1>1. ClientInit => FormsKept
  <2>1. ClientInit => FamilyPageInit /\ BackendConfigInit /\ SetPageInit  BY DEF ClientInit
  <2>2. QED  BY <2>1, FamInvInit, ConfInvInit, SetInvInit DEF FormsKept
<1>2. FormsKept /\ [ClientNext]_clientVars => FormsKept'
  BY ClientFrame, FamInvStep, ConfInvStep, SetInvStep DEF FormsKept
<1>3. FormsKept => FormsSafe
  BY FamInvImplies, ConfInvImplies, SetInvImplies DEF FormsKept, FormsSafe
<1>4. QED  BY <1>1, <1>2, <1>3, PTL DEF ClientSafety

EditorsKept ==
  /\ part = "editor" => EditorInv
  /\ part = "place" => PlaceInv

\* The editors, for any number of calls, pictures and times the page is hidden,
\* whatever uploads fail or lose their answers and in whatever order they end:
\* a picture stays until it is deleted, carries its own id and is uploaded
\* once, unless Save was pressed during an upload, and the address of an entry
\* is that of its coordinates.
THEOREM EditorSafeHolds == ClientSafety => []EditorSafe
<1>1. ClientInit => EditorsKept
  <2>1. ClientInit => EditorInit /\ PlaceInit  BY DEF ClientInit
  <2>2. QED  BY <2>1, EditorInvInit, PlaceInvInit DEF EditorsKept
<1>2. EditorsKept /\ [ClientNext]_clientVars => EditorsKept'
  BY ClientFrame, EditorInvStep, PlaceInvStep DEF EditorsKept
<1>3. EditorsKept => EditorSafe
  BY EditorInvImplies, PlaceInvImplies DEF EditorsKept, EditorSafe
<1>4. QED  BY <1>1, <1>2, <1>3, PTL DEF ClientSafety
=============================================================================
