------------------------------ MODULE AIDrawer ------------------------------
(***************************************************************************)
(* The drawer in which the user talks to the AI, and the event stream its  *)
(* answers come over.  (components/AIDrawer, utils/eventSource.ts,         *)
(* behaviors/safeSetData.ts)                                               *)
(*                                                                         *)
(* dr is the component, sse the one connection that is not aborted.  While *)
(* the page is hidden, what is written to the view is kept in dr.late and  *)
(* applied when it is shown again.  Aborting a connection calls onclose    *)
(* before it returns.  An answer is the pieces 1, 2, ..., Pieces of its    *)
(* turn; the server repeats it from the start after a reconnection.        *)
(***************************************************************************)
EXTENDS Naturals, Sequences
LOCAL INSTANCE SequencesExt

CONSTANTS MaxMessages,  \* MAX_MESSAGE_COUNT
          Pieces,       \* messages an answer comes in
          MaxTurns,     \* bound: questions
          MaxHides      \* bound: the page is hidden

ASSUME DrawerAssumption ==
  MaxMessages \in Nat \ {0} /\ Pieces \in 1..9 /\ MaxTurns \in Nat /\ MaxHides \in Nat

VARIABLES
  dr,        \* the component, see Opened
  sse,       \* the connection, see NoStream
  finished,  \* history: turns whose answer was received to its end
  unseen,    \* history: an answer came while the page was hidden
  torn,      \* history: turns whose connection broke within a character or
             \* after the last piece, and was made again
  hides

drawerVars == <<dr, sse, finished, unseen, torn, hides>>

Message(who, turn, txt) ==
  [who |-> who, turn |-> turn, txt |-> txt, html |-> FALSE, error |-> FALSE, cards |-> 0]
Asked == <<0>>
Piece(turn, i) == 10 * turn + i

\* login is the turn whose login is under way, fetch the turn whose diary
\* cards are; last says that there is a last prompt.
Opened ==
  [shown |-> TRUE, view |-> [list |-> <<>>, loading |-> FALSE], late |-> <<>>,
   sending |-> FALSE, aiText |-> <<>>, dirty |-> FALSE, timer |-> FALSE,
   seq |-> 0, login |-> 0, fetch |-> 0, last |-> FALSE]

\* half: the decoder holds the first bytes of a character
NoStream == [on |-> FALSE, turn |-> 0, open |-> FALSE, retried |-> FALSE,
             sent |-> 0, done |-> FALSE, half |-> FALSE]

DrawerInit ==
  /\ dr = Opened /\ sse = NoStream
  /\ finished = {} /\ unseen = FALSE /\ torn = {} /\ hides = 0

-----------------------------------------------------------------------------
(* The view *)

Write(view, w) ==
  CASE w.key = "list"    -> [view EXCEPT !.list = w.val]
    [] w.key = "loading" -> [view EXCEPT !.loading = w.val]
    [] w.key = "item"    -> [view EXCEPT !.list[w.at] = w.val]
    [] OTHER             -> [view EXCEPT !.list[w.at][w.key] = w.val]

\* Object.assign keeps the place of a key that is there already.
Late(late, w) ==
  LET same == {i \in 1..Len(late) : late[i].key = w.key /\ late[i].at = w.at}
  IN  IF same = {} THEN Append(late, w) ELSE [i \in 1..Len(late) |-> IF i \in same THEN w ELSE late[i]]

\* _safeSetData and _applyPendingSetData
Put(c, key, at, val) ==
  LET w == [key |-> key, at |-> at, val |-> val]
  IN  IF c.shown THEN [c EXCEPT !.view = Write(@, w)] ELSE [c EXCEPT !.late = Late(@, w)]
ViewOnShow(c) == FoldLeft(Write, c.view, c.late)

List(c) == c.view.list
LastIsAI(c) == List(c) # <<>> /\ Last(List(c)).who = "ai"
PutList(c, list) == Put(c, "list", 0, list)
PutLast(c, key, val) == Put(c, key, Len(List(c)), val)
PutLoading(c, on) == Put(c, "loading", 0, on)

\* Mutant: one message too many is kept.
TrimLate(list) ==
  IF Len(list) <= MaxMessages + 1 THEN list ELSE SubSeq(list, Len(list) - MaxMessages + 1, Len(list))

TrimOldMessages(list) ==
  IF Len(list) <= MaxMessages THEN list ELSE SubSeq(list, Len(list) - MaxMessages + 1, Len(list))

FlushAIText(c) ==
  LET clean == [c EXCEPT !.dirty = FALSE]
  IN  IF LastIsAI(c) THEN PutLast(clean, "txt", c.aiText) ELSE clean

\* _finalizeAIResponse; dates says whether the text names days of the diary,
\* whose cards are then fetched for the message at the place of the answer.
Finalize(c, dates) ==
  LET item == [Last(List(c)) EXCEPT !.txt = c.aiText, !.html = (c.aiText # <<>>), !.cards = 0]
      calm == [c EXCEPT !.aiText = <<>>, !.dirty = FALSE, !.sending = FALSE]
      put  == PutLoading(PutLast(calm, "item", item), FALSE)
  IN  IF List(c) = <<>> THEN PutLoading([c EXCEPT !.sending = FALSE], FALSE)
      ELSE IF dates /\ LastIsAI(put) THEN [put EXCEPT !.fetch = Last(List(put)).turn]
      ELSE put

-----------------------------------------------------------------------------
(* The callbacks of the connection.  One of an earlier send returns at once. *)

Stale(c) == sse.turn # c.seq

OnOpen(c) ==
  PutList(c, TrimOldMessages(Append(List(c), Message("ai", sse.turn, <<>>))))

OnMessage(c, piece) == [c EXCEPT !.aiText = Append(@, piece), !.dirty = TRUE, !.timer = TRUE]

OnDone(c, dates) == Finalize([c EXCEPT !.timer = FALSE], dates)

\* Mutant: whatever is last is taken for the answer.
OnCloseAnyone(c) ==
  LET quiet == [c EXCEPT !.timer = FALSE]
  IN  IF Stale(c) THEN c
      ELSE IF List(c) # <<>> /\ ~Last(List(c)).html THEN Finalize(quiet, FALSE)
      ELSE PutLoading([quiet EXCEPT !.sending = FALSE], FALSE)

OnClose(c) ==
  LET quiet == [c EXCEPT !.timer = FALSE]
  IN  IF Stale(c) THEN c
      ELSE IF LastIsAI(c) /\ ~Last(List(c)).html THEN Finalize(quiet, FALSE)
      ELSE PutLoading([quiet EXCEPT !.sending = FALSE], FALSE)

OnError(c) ==
  LET quiet == [c EXCEPT !.timer = FALSE, !.sending = FALSE]
  IN  IF LastIsAI(c) THEN PutLoading(PutLast(quiet, "error", TRUE), FALSE) ELSE PutLoading(quiet, FALSE)

\* Mutant: what was received before the reconnection stays.
OnReconnectKeeps(c) ==
  IF LastIsAI(c) /\ ~Last(List(c)).html
  THEN PutLoading(PutList(c, Front(List(c))), TRUE) ELSE c

OnReconnect(c) ==
  LET clean == [c EXCEPT !.aiText = <<>>, !.dirty = FALSE, !.timer = FALSE]
  IN  IF LastIsAI(c) /\ ~Last(List(c)).html
      THEN PutLoading(PutList(clean, Front(List(c))), TRUE) ELSE clean

\* Mutant: an aborted connection does not call back.
AbortSilently(c) ==
  IF c.dirty THEN FlushAIText([c EXCEPT !.timer = FALSE]) ELSE [c EXCEPT !.timer = FALSE]

\* _abortSSE: what was not shown yet is written first.
AbortSSE(c) ==
  LET flushed == IF c.dirty THEN FlushAIText([c EXCEPT !.timer = FALSE]) ELSE [c EXCEPT !.timer = FALSE]
  IN  IF sse.on THEN OnClose(flushed) ELSE flushed

-----------------------------------------------------------------------------
(* Asking *)

\* Mutant: the old connection is aborted before the number moves on.
SendAbortsFirst(c) ==
  [AbortSSE(PutLoading([c EXCEPT !.dirty = FALSE, !.sending = TRUE], TRUE)) EXCEPT !.seq = @ + 1]

\* send up to its first await: the number moves on before the old connection
\* is aborted, whose callbacks must not end the new send.
Send(c) ==
  LET next == PutLoading([c EXCEPT !.dirty = FALSE, !.seq = @ + 1, !.sending = TRUE], TRUE)
  IN  AbortSSE(next)

\* sendPrompt; without an address of the stream the user is told so.
SendPrompt(list) ==
  LET asked == PutList([dr EXCEPT !.last = TRUE], TrimOldMessages(Append(list, Message("user", dr.seq + 1, Asked))))
      sent  == [Send(asked) EXCEPT !.aiText = <<>>]
  IN  /\ dr.shown /\ ~dr.sending /\ dr.seq < MaxTurns
      /\ \/ dr' = [sent EXCEPT !.login = sent.seq]
         \/ dr' = PutLoading([sent EXCEPT !.sending = FALSE], FALSE)
      /\ sse' = NoStream
      /\ UNCHANGED <<finished, unseen, torn, hides>>

SubmitPrompt == SendPrompt(List(dr))

\* retryLast: an answer that ended in an error is dropped.
RetryLast ==
  /\ dr.last
  /\ SendPrompt(IF LastIsAI(dr) /\ Last(List(dr)).error THEN Front(List(dr)) ELSE List(dr))

LoginFails ==
  /\ dr.login # 0
  /\ LET quiet == [dr EXCEPT !.login = 0, !.sending = FALSE]
     IN  dr' = IF dr.shown THEN PutLoading(quiet, FALSE) ELSE quiet
  /\ UNCHANGED <<sse, finished, unseen, torn, hides>>

LoginSucceeds ==
  /\ dr.login # 0
  /\ dr' = [dr EXCEPT !.login = 0]
  /\ sse' = [NoStream EXCEPT !.on = TRUE, !.turn = dr.login]
  /\ UNCHANGED <<finished, unseen, torn, hides>>

-----------------------------------------------------------------------------
(* The connection (eventSource) *)

Seen == unseen' = (unseen \/ ~dr.shown)
StreamOver(c) == dr' = c /\ sse' = [sse EXCEPT !.on = FALSE]

HeadersReceived ==
  /\ sse.on /\ ~sse.open
  /\ dr' = OnOpen(dr) /\ sse' = [sse EXCEPT !.open = TRUE]
  /\ Seen /\ UNCHANGED <<finished, torn, hides>>

\* A message that starts with the rest of a torn character is not recognised.
ChunkReceived ==
  /\ sse.on /\ sse.open /\ ~sse.done
  /\ \/ /\ sse.sent < Pieces
        /\ sse' = [sse EXCEPT !.sent = @ + 1, !.half = FALSE]
        /\ dr' = IF sse.half THEN dr ELSE OnMessage(dr, Piece(sse.turn, sse.sent + 1))
        /\ UNCHANGED finished
     \/ /\ sse.sent = Pieces
        /\ sse' = [sse EXCEPT !.done = TRUE, !.half = FALSE]
        /\ \E dates \in BOOLEAN : dr' = OnDone(dr, dates)
        /\ finished' = finished \cup {sse.turn}
  /\ Seen /\ UNCHANGED <<torn, hides>>

\* Not 200, more than the buffer holds, or an error event.
Refused ==
  /\ sse.on /\ ~sse.done
  /\ StreamOver(OnError(dr))
  /\ Seen /\ UNCHANGED <<finished, torn, hides>>

\* The response has ended, after the last message or before; a message the
\* end of which is missing is processed as it is.
Success ==
  /\ sse.on /\ sse.open
  /\ \/ StreamOver(OnClose(dr))
     \/ ~sse.done /\ sse.sent < Pieces /\ ~sse.half /\ StreamOver(OnClose(OnMessage(dr, Piece(sse.turn, sse.sent + 1))))
     \/ ~sse.done /\ StreamOver(OnClose(OnError(dr)))
  /\ Seen /\ UNCHANGED <<finished, torn, hides>>

\* The network fails, perhaps within a character: one reconnection.
Fail ==
  /\ sse.on /\ Seen /\ UNCHANGED <<finished, hides>>
  /\ \/ /\ ~sse.retried
        /\ dr' = OnReconnect(dr)
        /\ \E half \in BOOLEAN :
             /\ (half => sse.open /\ ~sse.done)
             /\ sse' = [NoStream EXCEPT !.on = TRUE, !.turn = sse.turn, !.retried = TRUE, !.half = half]
             /\ torn' = IF half \/ sse.done THEN torn \cup {sse.turn} ELSE torn
     \/ sse.retried /\ StreamOver(OnError(dr)) /\ UNCHANGED torn

FlushTimer ==
  /\ dr.timer
  /\ LET off == [dr EXCEPT !.timer = FALSE]
     IN  dr' = IF dr.shown /\ dr.dirty THEN FlushAIText(off) ELSE off
  /\ UNCHANGED <<sse, finished, unseen, torn, hides>>

\* Mutant: the cards go to the place the answer was at.
CardsAtPlace ==
  /\ dr.fetch # 0 /\ dr.shown
  /\ dr' = PutLast([dr EXCEPT !.fetch = 0], "cards", dr.fetch)
  /\ UNCHANGED <<sse, finished, unseen, torn, hides>>

\* _fetchDiaryCardsForMessage: the message is looked for again by its id.
CardsArrive ==
  LET done == [dr EXCEPT !.fetch = 0]
      at == {i \in 1..Len(List(dr)) : List(dr)[i].who = "ai" /\ List(dr)[i].turn = dr.fetch}
  IN  /\ dr.fetch # 0 /\ dr.shown
      /\ dr' \in {done} \cup {Put(done, "cards", i, dr.fetch) : i \in at}
      /\ UNCHANGED <<sse, finished, unseen, torn, hides>>

-----------------------------------------------------------------------------
(* The page *)

\* pageLifetimes.hide and onPageHide
Hide ==
  /\ dr.shown /\ hides < MaxHides /\ hides' = hides + 1
  /\ LET hidden == AbortSSE([dr EXCEPT !.shown = FALSE])
     IN  dr' = [hidden EXCEPT !.view.loading = FALSE, !.fetch = 0]
  /\ sse' = NoStream
  /\ UNCHANGED <<finished, unseen, torn>>

Show ==
  /\ ~dr.shown
  /\ LET back == [dr EXCEPT !.shown = TRUE, !.view = ViewOnShow(dr), !.late = <<>>]
     IN  dr' = IF back.dirty THEN FlushAIText(back) ELSE back
  /\ UNCHANGED <<sse, finished, unseen, torn, hides>>

\* hidden: the parent then removes the component.
CloseDrawer ==
  /\ dr.shown /\ dr.seq > 0
  /\ dr' = [Opened EXCEPT !.seq = MaxTurns] /\ sse' = NoStream
  /\ UNCHANGED <<finished, unseen, torn, hides>>

DrawerAnswers == LoginFails \/ LoginSucceeds \/ HeadersReceived \/ ChunkReceived \/ Refused \/ Success \/ Fail
DrawerNext ==
  SubmitPrompt \/ RetryLast \/ DrawerAnswers \/ FlushTimer \/ CardsArrive \/ Hide \/ Show \/ CloseDrawer

\* Login and connection end: both have timeouts.
DrawerFairness == WF_drawerVars(DrawerAnswers)
DrawerSpec == DrawerInit /\ [][DrawerNext]_drawerVars /\ DrawerFairness

-----------------------------------------------------------------------------
IsMessage(x) ==
  /\ x.who \in {"user", "ai"} /\ x.turn \in 1..MaxTurns /\ x.txt \in Seq(Nat)
  /\ x.html \in BOOLEAN /\ x.error \in BOOLEAN /\ x.cards \in 0..MaxTurns
\* The types of the drawer and its stream; the list is bounded.
DrawerTypeOK ==
  /\ Len(List(dr)) <= MaxMessages /\ \A i \in 1..Len(List(dr)) : IsMessage(List(dr)[i])
  /\ \A i \in 1..Len(dr.late) : dr.late[i].key \in {"list", "loading", "item", "txt", "error"}
  /\ dr.seq \in 0..MaxTurns /\ dr.login \in 0..dr.seq /\ dr.fetch \in 0..MaxTurns
  /\ sse.turn \in 0..MaxTurns /\ sse.sent \in 0..Pieces /\ hides \in 0..MaxHides

Shown == LET list == ViewOnShow(dr).list IN {list[i] : i \in 1..Len(list)}

\* What the user asked stays as it was asked; only an answer that arrives
\* while the page is hidden may be written in its place.
QuestionsKept == ~unseen => \A x \in Shown : x.who = "user" => x.txt = Asked /\ ~x.html

\* An answer holds the pieces of its own turn, in order, each once, across a
\* reconnection and when a new question aborts the old answer; it is complete
\* once its end was received, and it is shown once.
AnswerIsWhole ==
  ~unseen =>
    \A x \in Shown : x.who = "ai" /\ x.turn \notin torn =>
      /\ \A i \in 1..Len(x.txt) : x.txt[i] = Piece(x.turn, i)
      /\ x.turn \in finished => Len(x.txt) = Pieces
      /\ \A i, j \in 1..Len(dr.view.list) : dr.view.list[i] = x /\ dr.view.list[j] = x => i = j

\* Diary cards appear below the answer that named their days, also when
\* the list was shortened while they were fetched.
CardsBelong == \A x \in Shown : x.cards # 0 => x.who = "ai" /\ x.cards = x.turn

\* An answer under way is the one the drawer waits for, and while it is no
\* further question is accepted; only a connection that broke after the last
\* piece of its answer is made once more behind the user's back.
OneAnswer == sse.on /\ sse.turn \notin finished \cup torn => dr.sending /\ sse.turn = dr.seq
=============================================================================
