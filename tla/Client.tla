------------------------------- MODULE Client -------------------------------
(***************************************************************************)
(* The parts of the mini-program put side by side: its screens, logging in *)
(* and automatic recording.  One part moves while the others rest, and     *)
(* what each part promises is gathered here.                               *)
(***************************************************************************)
EXTENDS AIDrawer, Editor, PlacePicker, Feed, Detail, Purchase, Session,
        FamilyPage, BackendConfig, SetPage, StayPoints, Recorder, Stays, TextDecoder, OpsLog

CONSTANT Parts  \* the parts that may move

ASSUME PartsAssumption ==
  Parts \subseteq {"login", "index", "drawer", "editor", "place", "detail", "vip",
                   "family", "backend", "settings", "points", "recorder", "stays", "decoder", "log"}

\* The part that moves.
VARIABLE part

pageVars == <<drawerVars, editorVars, placeVars, feedVars, detailVars, buyerVars>>
formVars == <<familyVars, confVars, setVars>>
recordVars == <<pointsVars, recorderVars, staysVars>>
clientVars == <<part, pageVars, formVars, recordVars, sessionVars, decoderVars, opsLogVars>>

\* What rests has one of its initial states only.
ClientInit ==
  /\ part \in Parts
  /\ DrawerInit /\ PlaceInit /\ FeedInit /\ BuyerInit /\ PointsInit /\ OpsLogInit
  /\ EditorInit /\ (part # "editor" => e.of = "entry" /\ wanted = {})
  /\ DetailInit /\ (part # "detail" => ~d.isLogin)
  /\ SessionInit /\ (part # "login" => session = 0 /\ live = {} /\ scene = "none" /\ account = "none")
  /\ FamilyPageInit /\ (part # "family" => ~loggedIn)
  /\ BackendConfigInit /\ (part # "backend" => config = Service /\ acct = Nobody)
  /\ SetPageInit
  /\ (part # "settings" => subject = (CHOOSE y \in Subjects : TRUE) /\ user.phone = 0)
  /\ RecorderInit /\ (part # "recorder" => ~wish)
  /\ StaysInit /\ (part # "stays" => study = (CHOOSE y \in Studies : TRUE) /\ loc.stable = None)
  /\ IF part = "decoder" THEN DecoderInit ELSE DecoderRests

\* A step of one part, the others resting.
LoggingIn(Step) ==
  part = "login" /\ Step /\ UNCHANGED <<part, pageVars, formVars, recordVars, decoderVars, opsLogVars>>
Listing(Step) ==
  /\ part = "index" /\ Step
  /\ UNCHANGED <<part, drawerVars, editorVars, placeVars, detailVars, buyerVars,
                 formVars, recordVars, sessionVars, decoderVars, opsLogVars>>
Drawer(Step) ==
  /\ part = "drawer" /\ Step
  /\ UNCHANGED <<part, editorVars, placeVars, feedVars, detailVars, buyerVars,
                 formVars, recordVars, sessionVars, decoderVars, opsLogVars>>
Editing(Step) ==
  /\ part = "editor" /\ Step
  /\ UNCHANGED <<part, drawerVars, placeVars, feedVars, detailVars, buyerVars,
                 formVars, recordVars, sessionVars, decoderVars, opsLogVars>>
Place(Step) ==
  /\ part = "place" /\ Step
  /\ UNCHANGED <<part, drawerVars, editorVars, feedVars, detailVars, buyerVars,
                 formVars, recordVars, sessionVars, decoderVars, opsLogVars>>
Day(Step) ==
  /\ part = "detail" /\ Step
  /\ UNCHANGED <<part, drawerVars, editorVars, placeVars, feedVars, buyerVars,
                 formVars, recordVars, sessionVars, decoderVars, opsLogVars>>
Buying(Step) ==
  /\ part = "vip" /\ Step
  /\ UNCHANGED <<part, drawerVars, editorVars, placeVars, feedVars, detailVars,
                 formVars, recordVars, sessionVars, decoderVars, opsLogVars>>
Family(Step) ==
  /\ part = "family" /\ Step
  /\ UNCHANGED <<part, pageVars, confVars, setVars, recordVars, sessionVars, decoderVars, opsLogVars>>
Switching(Step) ==
  /\ part = "backend" /\ Step
  /\ UNCHANGED <<part, pageVars, familyVars, setVars, recordVars, sessionVars, decoderVars, opsLogVars>>
Profiling(Step) ==
  /\ part = "settings" /\ Step
  /\ UNCHANGED <<part, pageVars, familyVars, confVars, recordVars, sessionVars, decoderVars, opsLogVars>>
Points(Step) ==
  /\ part = "points" /\ Step
  /\ UNCHANGED <<part, pageVars, formVars, recorderVars, staysVars, sessionVars, decoderVars, opsLogVars>>
Recording(Step) ==
  /\ part = "recorder" /\ Step
  /\ UNCHANGED <<part, pageVars, formVars, pointsVars, staysVars, sessionVars, decoderVars, opsLogVars>>
Staying(Step) ==
  /\ part = "stays" /\ Step
  /\ UNCHANGED <<part, pageVars, formVars, pointsVars, recorderVars, sessionVars, decoderVars, opsLogVars>>
Decoding(Step) ==
  part = "decoder" /\ Step /\ UNCHANGED <<part, pageVars, formVars, recordVars, sessionVars, opsLogVars>>
Logging(Step) ==
  part = "log" /\ Step /\ UNCHANGED <<part, pageVars, formVars, recordVars, sessionVars, decoderVars>>

ClientNext ==
  \/ LoggingIn(SessionNext) \/ Listing(FeedNext) \/ Drawer(DrawerNext)
  \/ Editing(EditorNext) \/ Place(PlaceNext) \/ Day(DetailNext)
  \/ Buying(BuyerNext) \/ Family(FamilyPageNext) \/ Switching(BackendConfigNext)
  \/ Profiling(SetPageNext)
  \/ Points(PointsNext) \/ Recording(RecorderNext) \/ Staying(StaysNext) \/ Decoding(DecoderNext) \/ Logging(OpsLogNext)

ClientSafety == ClientInit /\ [][ClientNext]_clientVars

\* What a part has asked of the network or the platform is answered, or its
\* timeout comes.
Answers ==
  \/ LoggingIn(\E c \in Callers : Progress(c)) \/ Listing(FeedAnswers) \/ Drawer(DrawerAnswers)
  \/ Editing(\E c \in Subs : Requests(c)) \/ Day(DetailAnswers) \/ Buying(BuyerAnswers)
  \/ Family(FamilyAnswers) \/ Switching(ConfigAnswers)
  \/ Profiling(SetAnswers) \/ Points(\E c \in Flushers : Continue(c))

ClientSpec == ClientSafety /\ WF_clientVars(Answers)

-----------------------------------------------------------------------------
\* A part at rest is as it was initially: what is promised below is asked of
\* the part that moves.

\* The drawer of the AI: what was asked stays, an answer is whole, its cards
\* are below it, one is under way at a time; and its text is what the server
\* sent, however the network cuts the bytes.
DrawerSafe ==
  /\ part = "drawer" => DrawerTypeOK /\ QuestionsKept /\ AnswerIsWhole /\ CardsBelong /\ OneAnswer
  /\ part = "decoder" => DecoderTypeOK /\ TextIsWhole /\ SpliceIsShort

\* The editors: pictures are kept, each has its id and is uploaded once, and
\* the address of an entry is that of its coordinates.
EditorSafe ==
  /\ part = "editor" => EditorTypeOK /\ PicturesKept /\ IdsBelong /\ UploadedOnce
  /\ part = "place" => PlaceTypeOK /\ PlaceAgrees

\* The list of days: a run of days that begins with the newest, never blank
\* without a reload to come, each with its own cover.
FeedSafe ==
  part = "index" => FeedTypeOK /\ ListIsRun /\ ShowsNewest /\ NotBlank /\ CoversBelong

\* The page of a day: no entry twice or left out, the tab shows what there
\* is and nothing that is gone, and sharing waits for what will come.
DetailSafe ==
  part = "detail" =>
    DetailTypeOK /\ ShownOnce /\ NoneSkipped /\ ViewAgrees /\ NoGhosts /\ ShareIsAwaited

\* Buying: one payment at a time, no paid order cancelled, none left open,
\* and the success dialog tells of what was bought.
BuyerSafe ==
  part = "vip" => BuyerTypeOK /\ PayingIsLocked /\ NoPaidCancelled /\ OrdersAreClosed /\ BoughtIsTold

\* Logging in: the shared login is alive and the only one, and an inviter
\* who is known counts.
SessionSafe ==
  part = "login" => SessionTypeOK /\ FlightIsAlive /\ OneLogin /\ InviterCounts

\* What is kept for the server: no stay point is lost or sent again, and no logged
\* operation lost by the network or the limit alone (EventsAreKept names what a
\* failing storage loses).
PointsSafe ==
  /\ part = "points" => PointsTypeOK /\ NotSentAgain /\ NothingLost
  /\ part = "log" => OpsLogTypeOK /\ EventsAreKept /\ LogInOrder

\* Recording: nothing is located for a recording that is off, what the user
\* closed stays off, and one that is on listens, polls or will try again, but
\* for the two ways that NeverSilent names.
RecorderSafe ==
  part = "recorder" => RecorderTypeOK /\ NoLocationLeftOn /\ ClosedStaysOff /\ NeverSilent

\* Finding stays: each is found in time and once, silence in the background
\* is broken, but after an opening that was never shown again (SilenceIsBroken),
\* and neither the switch nor the heartbeat suffers from a VIP that is not known.
StaysSafe ==
  part = "stays" =>
    /\ StaysTypeOK /\ StaysAreFound /\ StaysAreFoundOnce
    /\ ClosedOnDenial /\ HeartbeatInTime /\ SilenceIsBroken

\* The pages of the family, of the backend and of the settings: an invitation
\* is kept until it is accepted, the link that is shared and the members are
\* those of the user's family, no mask or button hangs, neither a test nor a
\* save leaves requests or the login at another backend than the one
\* configured, a phone is bound once a day, and what is shown is what is kept.
FormsSafe ==
  /\ part = "family" =>
       /\ FamilyPageTypeOK /\ MaskIsAwaited /\ LinkIsKept /\ LinkIsOfHome /\ LinkIsOffered
       /\ MembersAgree
  /\ part = "backend" =>
       BackendConfigTypeOK /\ RouteIsSaved /\ NoOrphanRoute /\ LoginIsOfBackend /\ ButtonsReturn
  /\ part = "settings" =>
       SetPageTypeOK /\ BoundOnceADay /\ PhoneAgrees /\ NamesAgree /\ OneSubmission /\ LockIsAwaited

\* What the user of the part waits for.
Waiting ==
  CASE part = "login"  -> \E c \in Callers : call[c].pc # "idle"
    [] part = "index"  -> f.flow # "idle"
    [] part = "drawer" -> dr.sending
    [] part = "editor" -> e.uploading
    [] part = "detail" -> d.reloading
    [] part = "vip"    -> buyer.paying \/ buyer.claim # "none"
    [] part = "family" -> fam.mask
    [] part = "settings" -> set.locked
    [] part = "backend" -> conf.shown /\ conf.busy
    [] OTHER           -> FALSE

\* No lock of a part is held for good: logins, reloads, an answer of the
\* AI, uploads, a payment, a claim, the work of the family's page, tests and
\* saves of a backend and every report of stay points come to an end,
\* whatever fails and whenever the page is left.
WaitingEnds == (Waiting ~> ~Waiting) /\ CallReturns
=============================================================================
