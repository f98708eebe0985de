----------------------------- MODULE PagesProofs -----------------------------
(***************************************************************************)
(* Proofs about parts of the mini-program, each on its own: the stay       *)
(* points, the log of operations, logging in, the list of days and the     *)
(* page of a day.  For every part an invariant that holds initially, that  *)
(* every step of the part keeps, and that implies what is promised of it   *)
(* (ClientProofs).                                                         *)
(***************************************************************************)
EXTENDS Session, Feed, Detail, StayPoints, OpsLog, FiniteSetTheorems, SequenceTheorems, TLAPS

-----------------------------------------------------------------------------
(***************************************************************************)
(* Sequences of points                                                     *)
(***************************************************************************)
\* What is left when the first n are dropped.
LEMMA DropProperties ==
  ASSUME NEW S, NEW s \in Seq(S), NEW n \in 0..Len(s)
  PROVE  /\ Drop(s, n) \in Seq(S)
         /\ Len(Drop(s, n)) = Len(s) - n
         /\ \A i \in 1..(Len(s) - n) : Drop(s, n)[i] = s[i + n]
         /\ SeqRange(Drop(s, n)) \subseteq SeqRange(s)
<1>1. Len(s) \in Nat /\ \A i \in (n + 1)..Len(s) : s[i] \in S  BY LenProperties, ElementOfSeq
<1>2. /\ Drop(s, n) \in Seq(S)
      /\ Len(Drop(s, n)) = IF n + 1 <= Len(s) THEN Len(s) - (n + 1) + 1 ELSE 0
      /\ \A i \in 1..(Len(s) - (n + 1) + 1) : Drop(s, n)[i] = s[n + 1 + i - 1]
  <2>1. n + 1 \in Int /\ Len(s) \in Int  BY <1>1
  <2>2. QED  BY <1>1, <2>1, SubSeqProperties DEF Drop
<1>3. Len(Drop(s, n)) = Len(s) - n  BY <1>1, <1>2
<1>4. \A i \in 1..(Len(s) - n) : Drop(s, n)[i] = s[i + n]
  <2>1. TAKE i \in 1..(Len(s) - n)
  <2>2. n + 1 + i - 1 = i + n /\ i \in 1..(Len(s) - (n + 1) + 1)  BY <1>1
  <2>3. Drop(s, n)[i] = s[n + 1 + i - 1]  BY <1>2, <2>2
  <2>4. QED  BY <2>2, <2>3
<1>5. QED  BY <1>1, <1>2, <1>3, <1>4 DEF SeqRange

\* Nothing is dropped twice: what was dropped and what is left is everything.
LEMMA DropRange ==
  ASSUME NEW S, NEW s \in Seq(S), NEW n \in 0..Len(s)
  PROVE  \A x \in SeqRange(s) : x \in SeqRange(Drop(s, n)) \/ \E i \in 1..n : s[i] = x
<1>1. Len(s) \in Nat  BY LenProperties
<1>2. SUFFICES ASSUME NEW i \in 1..Len(s), i > n
               PROVE  s[i] \in SeqRange(Drop(s, n))
  BY <1>1 DEF SeqRange
<1>3. i - n \in 1..Len(Drop(s, n)) /\ Drop(s, n)[i - n] = s[i]
  BY <1>1, <1>2, DropProperties
<1>4. QED  BY <1>3 DEF SeqRange

LEMMA RangeProperties ==
  ASSUME NEW S, NEW s \in Seq(S)
  PROVE  /\ SeqRange(s) \subseteq S /\ SeqRange(<<>>) = {}
         /\ \A x \in S : Append(s, x) \in Seq(S) /\ SeqRange(Append(s, x)) = SeqRange(s) \cup {x}
         /\ \A t \in Seq(S) : s \o t \in Seq(S) /\ SeqRange(s \o t) = SeqRange(s) \cup SeqRange(t)
<1>1. SeqRange(s) \subseteq S /\ SeqRange(<<>>) = {}  BY LenProperties, ElementOfSeq DEF SeqRange
<1>2. ASSUME NEW x \in S
      PROVE  Append(s, x) \in Seq(S) /\ SeqRange(Append(s, x)) = SeqRange(s) \cup {x}
  <2>1. /\ Append(s, x) \in Seq(S) /\ Len(Append(s, x)) = Len(s) + 1 /\ Len(s) \in Nat
        /\ \A i \in 1..Len(s) : Append(s, x)[i] = s[i]
        /\ Append(s, x)[Len(s) + 1] = x
    BY <1>2, AppendProperties, LenProperties
  <2>2. QED  BY <2>1 DEF SeqRange
<1>3. ASSUME NEW t \in Seq(S)
      PROVE  s \o t \in Seq(S) /\ SeqRange(s \o t) = SeqRange(s) \cup SeqRange(t)
  <2>1. /\ s \o t \in Seq(S) /\ Len(s \o t) = Len(s) + Len(t)
        /\ Len(s) \in Nat /\ Len(t) \in Nat
        /\ \A i \in 1..Len(s) + Len(t) :
             (s \o t)[i] = IF i <= Len(s) THEN s[i] ELSE t[i - Len(s)]
    BY ConcatProperties, LenProperties
  <2>2. \A i \in 1..Len(t) : (s \o t)[i + Len(s)] = t[i] /\ i + Len(s) \in 1..Len(s) + Len(t)
    BY <2>1
  <2>3. \A i \in 1..Len(s) : (s \o t)[i] = s[i] /\ i \in 1..Len(s) + Len(t)  BY <2>1
  <2>4. \A i \in 1..Len(s) + Len(t) : i \in 1..Len(s) \/ (i - Len(s) \in 1..Len(t) /\ i \notin 1..Len(s))
    BY <2>1
  <2>5. SeqRange(s \o t) \subseteq SeqRange(s) \cup SeqRange(t)
    <3>1. \A i \in 1..Len(s) + Len(t) :
            (s \o t)[i] \in SeqRange(s) \cup SeqRange(t)
      <4>1. \A i \in 1..Len(s) : s[i] \in SeqRange(s)  BY DEF SeqRange
      <4>2. \A i \in 1..Len(t) : t[i] \in SeqRange(t)  BY DEF SeqRange
      <4>3. QED  BY <2>1, <2>4, <4>1, <4>2
    <3>2. QED  BY <2>1, <3>1 DEF SeqRange
  <2>6. \A i \in 1..Len(s \o t) : (s \o t)[i] \in SeqRange(s \o t)  BY DEF SeqRange
  <2>7. (\A i \in 1..Len(s) : s[i] \in SeqRange(s \o t)) /\ (\A i \in 1..Len(t) : t[i] \in SeqRange(s \o t))
    BY <2>1, <2>2, <2>3, <2>6
  <2>8. \A R : (\A i \in 1..Len(s) : s[i] \in R) => SeqRange(s) \subseteq R  BY DEF SeqRange
  <2>9. \A R : (\A i \in 1..Len(t) : t[i] \in R) => SeqRange(t) \subseteq R  BY DEF SeqRange
  <2>10. QED  BY <2>1, <2>5, <2>7, <2>8, <2>9
<1>4. QED  BY <1>1, <1>2, <1>3

\* The oldest above the cap.
LEMMA ExcessBounds ==
  ASSUME NEW S, NEW s \in Seq(S)
  PROVE  Excess(s) \in 0..Len(s) /\ Len(s) - Excess(s) <= Cap
BY LenProperties, StayPointsAssumption DEF Excess

-----------------------------------------------------------------------------
(***************************************************************************)
(* The inductive invariant of the stay points                              *)
(***************************************************************************)
\* Every sequence holds points that were found, and what a flush is about to
\* write fits the storage.
Held ==
  /\ pushed \in 0..MaxPoints
  /\ queue \in Seq(1..pushed) /\ store \in Seq(1..pushed) /\ Len(store) <= Cap
  /\ taken \in [Flushers -> Seq(1..pushed)] /\ seen \in [Flushers -> Seq(1..pushed)]
  /\ \A c \in Flushers : pc[c] = "write" => Len(seen[c]) <= Cap

Control ==
  /\ lead \in Nat /\ failed \in BOOLEAN /\ reporting \in BOOLEAN
  /\ flusher \in Flushers \cup {NoRound} /\ round \in Flushers \cup {NoRound}
  /\ pc \in [Flushers -> Places] /\ waits \in [Flushers -> Flushers \cup {NoRound}]
  /\ misled \in BOOLEAN /\ crowded \in BOOLEAN /\ faults \in 0..MaxFaults /\ kills \in 0..MaxKills

Told == uploaded \subseteq 1..pushed /\ acked \subseteq uploaded /\ left \subseteq 1..pushed

PointsTypes == Held /\ Control /\ Told

\* A call is at work, and it has begun its round.
AtWork(c) == pc[c] \notin {"idle", "wait"}
InRound(c) == pc[c] \notin {"idle", "wait", "resume"}

\* One call at a time works, in a round of its own that one other may await.
Rounds ==
  /\ \A c, x \in Flushers : AtWork(c) /\ AtWork(x) => c = x
  /\ \A c \in Flushers : InRound(c) => round = c
  /\ round # NoRound => InRound(round)
  /\ \A c \in Flushers : pc[c] = "wait" => waits[c] = round /\ round # NoRound
  /\ \A c, x \in Flushers : pc[c] = "wait" /\ pc[x] = "wait" => c = x
  /\ \A c \in Flushers : pc[c] # "join" /\ (pc[c] \in {"load", "write"} => flusher = c)
  /\ flusher # NoRound => pc[flusher] \in {"load", "write"}
  /\ \A c \in Flushers : pc[c] \in {"read", "upload", "clear"} => reporting
  /\ reporting => \E c \in Flushers : pc[c] \in {"read", "upload", "clear"}

\* A point is in memory or in storage, and what is in memory is not on the
\* server.
Apart ==
  /\ SeqRange(queue) \cap (SeqRange(store) \cup acked) = {}
  /\ \A c \in Flushers : pc[c] \in {"load", "write"} =>
       SeqRange(taken[c]) \cap (SeqRange(queue) \cup SeqRange(store) \cup acked) = {}

\* What a call copied from storage is what storage holds.
Copies ==
  \A c \in Flushers :
    /\ pc[c] = "write" => seen[c] = Drop(store \o taken[c], Excess(store \o taken[c]))
    /\ pc[c] \in {"upload", "clear"} => seen[c] = store /\ taken[c] = Drop(store, AtMost(lead, Len(store)))
    /\ pc[c] = "clear" => SeqRange(taken[c]) \subseteq acked
    /\ pc[c] = "clear only" => Len(store) <= lead

\* The points that a flush under way will drop; they are no longer counted.
Dropping(c) == IF pc[c] = "write" THEN Excess(store \o taken[c]) ELSE 0

\* The points counted as reported, and those before them that will be dropped,
\* are points the server confirmed.
Led ==
  /\ lead <= Len(store) /\ \A i \in 1..lead : store[i] \in acked
  /\ \A c \in Flushers : pc[c] = "write" /\ lead > 0 =>
       /\ lead + Dropping(c) <= Len(store)
       /\ \A i \in 1..(lead + Dropping(c)) : store[i] \in acked

\* No other point in storage was confirmed, but for those about to be cleared.
Unsent ==
  \A c \in Flushers : round = c /\ pc[c] # "clear" =>
    \A i \in 1..Len(store) : i > lead + Dropping(c) => store[i] \notin acked
UnsentAtRest == round = NoRound => \A i \in 1..Len(store) : i > lead => store[i] \notin acked

OneByOne ==
  /\ Rounds /\ Apart /\ Copies /\ Led /\ PointsKept
  /\ ~misled => Unsent /\ UnsentAtRest

PointsInv == PointsTypes /\ (~crowded => OneByOne)

-----------------------------------------------------------------------------
(***************************************************************************)
(* The types                                                               *)
(***************************************************************************)
LEMMA TypesInit == PointsInit => PointsTypes
<1>1. SUFFICES ASSUME PointsInit PROVE PointsTypes  OBVIOUS
<1>2. Held
  <2>1. <<>> \in Seq(1..pushed) /\ Len(<<>>) = 0  BY EmptySeq
  <2>2. /\ pushed \in 0..MaxPoints /\ queue = <<>> /\ store = <<>> /\ Cap \in Nat
        /\ taken = [c \in Flushers |-> <<>>] /\ seen = [c \in Flushers |-> <<>>]
        /\ \A c \in Flushers : pc[c] = "idle"
    BY <1>1, StayPointsAssumption DEF PointsInit
  <2>3. [c \in Flushers |-> <<>>] \in [Flushers -> Seq(1..pushed)]  BY <2>1, Zenon
  <2>4. taken \in [Flushers -> Seq(1..pushed)] /\ seen \in [Flushers -> Seq(1..pushed)]
    BY <2>2, <2>3, Zenon
  <2>5. queue \in Seq(1..pushed) /\ store \in Seq(1..pushed) /\ Len(store) = 0
    BY <2>1, <2>2, Zenon
  <2>6. Len(store) <= Cap  BY <2>2, <2>5
  <2>7. \A c \in Flushers : pc[c] = "write" => Len(seen[c]) <= Cap  BY <2>2
  <2>8. QED  BY <2>2, <2>4, <2>5, <2>6, <2>7 DEF Held
<1>3. Control
  <2>1. pc \in [Flushers -> Places] /\ waits \in [Flushers -> Flushers \cup {NoRound}]
    BY <1>1 DEF PointsInit, Places
  <2>2. lead \in Nat /\ faults \in 0..MaxFaults /\ kills \in 0..MaxKills
    BY <1>1, StayPointsAssumption DEF PointsInit
  <2>3. QED  BY <1>1, <2>1, <2>2 DEF PointsInit, Control
<1>4. Told  BY <1>1 DEF PointsInit, Told
<1>5. QED  BY <1>2, <1>3, <1>4 DEF PointsTypes

\* A call goes on with the points q in the queue, one of them perhaps new.
LEMMA BeginTypes ==
  ASSUME PointsTypes, NEW c \in Flushers, NEW q \in Seq(1..pushed'),
         pushed' \in {pushed, pushed + 1}, pushed' <= MaxPoints,
         waits' \in [Flushers -> Flushers \cup {NoRound}], crowded' \in BOOLEAN,
         \/ Begin(c, q)
         \/ /\ queue' = q /\ pc' = [pc EXCEPT ![c] = "wait"]
            /\ UNCHANGED <<lead, failed, flusher, reporting, round, taken, seen, acked, store,
                           uploaded, left, misled, faults, kills>>
  PROVE  PointsTypes'
<1>1. pushed \in Nat /\ pushed' \in Nat /\ 1..pushed \subseteq 1..pushed' /\ pushed' \in 0..MaxPoints
  BY StayPointsAssumption DEF PointsTypes, Held
<1>2. \A s \in Seq(1..pushed) : s \in Seq(1..pushed')  BY <1>1, SeqMonotonic
<1>3. <<>> \in Seq(1..pushed')  BY EmptySeq
<1>4. Held'
  <2>1. queue' \in Seq(1..pushed') /\ store' = store /\ seen' = seen
    BY <1>3 DEF Begin
  <2>2. taken' \in [Flushers -> Seq(1..pushed')]
    BY <1>2 DEF Begin, PointsTypes, Held
  <2>3. \A x \in Flushers : pc'[x] = "write" => pc[x] = "write"
    BY DEF Begin, PointsTypes, Control
  <2>4. QED  BY <1>1, <1>2, <2>1, <2>2, <2>3 DEF PointsTypes, Held
<1>5. Control'
  BY DEF PointsTypes, Control, Begin, Places
<1>6. Told'
  BY <1>1 DEF PointsTypes, Told, Begin
<1>7. QED  BY <1>4, <1>5, <1>6 DEF PointsTypes

LEMMA EnterTypes ==
  ASSUME PointsTypes, NEW c \in Flushers, NEW q \in Seq(1..pushed'),
         pushed' \in {pushed, pushed + 1}, pushed' <= MaxPoints, Enter(c, q)
  PROVE  PointsTypes'
<1>1. waits' \in [Flushers -> Flushers \cup {NoRound}] /\ crowded' \in BOOLEAN
  BY DEF Enter, PointsTypes, Control
<1>2. QED  BY <1>1, BeginTypes DEF Enter

\* A step that only moves calls and flags.
LEMMA ControlTypes ==
  ASSUME PointsTypes, Control', pushed' = pushed,
         queue' \in Seq(1..pushed), store' \in Seq(1..pushed), Len(store') <= Cap,
         taken' \in [Flushers -> Seq(1..pushed)], seen' \in [Flushers -> Seq(1..pushed)],
         \A x \in Flushers : pc'[x] = "write" => Len(seen'[x]) <= Cap,
         uploaded' \subseteq 1..pushed, acked' \subseteq uploaded', left' \subseteq 1..pushed
  PROVE  PointsTypes'
BY DEF PointsTypes, Held, Told

LEMMA TypesStep == PointsTypes /\ [PointsNext]_pointsVars => PointsTypes'
<1>1. SUFFICES ASSUME PointsTypes, [PointsNext]_pointsVars PROVE PointsTypes'  OBVIOUS
<1> USE <1>1
<1>2. /\ pushed \in 0..MaxPoints /\ pushed \in Nat
      /\ queue \in Seq(1..pushed) /\ store \in Seq(1..pushed) /\ Len(store) <= Cap
      /\ taken \in [Flushers -> Seq(1..pushed)] /\ seen \in [Flushers -> Seq(1..pushed)]
      /\ \A c \in Flushers : pc[c] = "write" => Len(seen[c]) <= Cap
      /\ lead \in Nat /\ pc \in [Flushers -> Places]
      /\ uploaded \subseteq 1..pushed /\ acked \subseteq uploaded /\ left \subseteq 1..pushed
  BY StayPointsAssumption DEF PointsTypes, Held, Control, Told
<1>3. <<>> \in Seq(1..pushed) /\ Len(<<>>) = 0 /\ 0 <= Cap
  BY EmptySeq, StayPointsAssumption
<1>4. \A c \in Flushers : SeqRange(taken[c]) \subseteq 1..pushed /\ taken[c] \o queue \in Seq(1..pushed)
  BY <1>2, RangeProperties
<1>5. \A n \in 0..MaxFaults : n < MaxFaults => n + 1 \in 0..MaxFaults
  BY StayPointsAssumption
<1>6. CASE UNCHANGED pointsVars
  BY <1>6 DEF pointsVars, memVars, PointsTypes, Held, Control, Told
<1>7. CASE Kill
  <2>1. InFlush \subseteq 1..pushed  BY <1>4 DEF InFlush
  <2>2. Control'
    <3>1. kills' \in 0..MaxKills
      BY <1>7, StayPointsAssumption DEF Kill, PointsTypes, Control
    <3>2. /\ pc' \in [Flushers -> Places] /\ waits' \in [Flushers -> Flushers \cup {NoRound}]
      BY <1>7 DEF Kill, Places
    <3>3. QED  BY <1>7, <3>1, <3>2 DEF Kill, PointsTypes, Control
  <2>3. SeqRange(queue) \subseteq 1..pushed  BY <1>2, RangeProperties
  <2>4. left' \subseteq 1..pushed  BY <1>2, <1>7, <2>1, <2>3 DEF Kill
  <2>5. QED  BY <1>2, <1>3, <1>7, <2>2, <2>4, ControlTypes DEF Kill
<1>8. ASSUME NEW c \in Flushers, PushStayPoint(c) PROVE PointsTypes'
  <2>1. /\ pushed' = pushed + 1 /\ pushed' <= MaxPoints /\ pushed' \in Nat
        /\ 1..pushed \subseteq 1..pushed' /\ pushed + 1 \in 1..pushed'
    BY <1>2, <1>8, StayPointsAssumption DEF PushStayPoint
  <2>2. queue \in Seq(1..pushed')  BY <1>2, <2>1, SeqMonotonic
  <2>3. Append(queue, pushed + 1) \in Seq(1..pushed')  BY <2>1, <2>2, RangeProperties
  <2>4. QED  BY <1>8, <2>1, <2>3, EnterTypes DEF PushStayPoint
<1>9. ASSUME NEW c \in Flushers, Call(c) PROVE PointsTypes'
  <2>1. pushed' = pushed /\ pushed' <= MaxPoints  BY <1>2, <1>9, StayPointsAssumption DEF Call
  <2>2. QED  BY <1>2, <1>9, <2>1, EnterTypes DEF Call
<1>10. ASSUME NEW c \in Flushers, Resume(c), UNCHANGED crowded PROVE PointsTypes'
  <2>1. pushed' = pushed /\ pushed' <= MaxPoints /\ Begin(c, queue)
    BY <1>2, <1>10, StayPointsAssumption DEF Resume
  <2>2. waits' \in [Flushers -> Flushers \cup {NoRound}] /\ crowded' \in BOOLEAN
    BY <1>10 DEF Resume, PointsTypes, Control
  <2>3. QED  BY <1>2, <2>1, <2>2, BeginTypes
<1>11. ASSUME NEW c \in Flushers, Load(c), UNCHANGED crowded PROVE PointsTypes'
  <2> DEFINE combined == store \o taken[c]
  <2>1. combined \in Seq(1..pushed)  BY <1>2, RangeProperties
  <2> HIDE DEF combined
  <2>0. /\ Excess(combined) \in 0..Len(combined) /\ Len(combined) - Excess(combined) <= Cap
        /\ Len(combined) \in Nat
    BY <2>1, ExcessBounds, LenProperties
  <2>2. /\ Excess(combined) \in Nat
        /\ Drop(combined, Excess(combined)) \in Seq(1..pushed)
        /\ Len(Drop(combined, Excess(combined))) <= Cap
    BY <2>1, <2>0, DropProperties
  <2>3. lead - AtMost(lead, Excess(combined)) \in Nat
    BY <1>2, <2>2 DEF AtMost
  <2>4. Control'
    BY <1>5, <1>11, <2>3 DEF Load, FlushEnds, Fault, PointsTypes, Control, Places, combined
  <2>5. queue' \in Seq(1..pushed)  BY <1>2, <1>4, <1>11 DEF Load, PutBack
  <2>6. seen' \in [Flushers -> Seq(1..pushed)]  BY <1>2, <1>11, <2>2 DEF Load, combined
  <2>7. \A x \in Flushers : pc'[x] = "write" => Len(seen'[x]) <= Cap
    BY <1>2, <1>11, <2>2 DEF Load, FlushEnds, combined
  <2>8. UNCHANGED <<pushed, store, taken, uploaded, acked, left>>
    BY <1>11 DEF Load, FlushEnds
  <2>9. QED  BY <1>2, <2>4, <2>5, <2>6, <2>7, <2>8, ControlTypes
<1>12. ASSUME NEW c \in Flushers, WriteStore(c), UNCHANGED crowded PROVE PointsTypes'
  <2>1. Control'
    BY <1>5, <1>12 DEF WriteStore, FlushEnds, Fault, PointsTypes, Control, Places
  <2>2. queue' \in Seq(1..pushed) /\ store' \in Seq(1..pushed) /\ Len(store') <= Cap
    BY <1>2, <1>4, <1>12 DEF WriteStore, PutBack
  <2>3. \A x \in Flushers : pc'[x] = "write" => pc[x] = "write"
    BY <1>2, <1>12 DEF WriteStore, FlushEnds
  <2>4. left' \subseteq 1..pushed
    BY <1>2, <1>4, <1>12, RangeProperties DEF WriteStore
  <2>5. UNCHANGED <<pushed, taken, seen, uploaded, acked>>
    BY <1>12 DEF WriteStore, FlushEnds
  <2>6. QED  BY <1>2, <2>1, <2>2, <2>3, <2>4, <2>5, ControlTypes
<1>13. ASSUME NEW c \in Flushers, Report(c), UNCHANGED crowded PROVE PointsTypes'
  <2>1. Control'
    BY <1>13 DEF Report, RoundEnds, PointsTypes, Control, Places
  <2>2. \A x \in Flushers : pc'[x] = "write" => pc[x] = "write"
    BY <1>2, <1>13 DEF Report, RoundEnds
  <2>3. UNCHANGED <<pushed, queue, store, taken, seen, uploaded, acked, left>>
    BY <1>13 DEF Report
  <2>4. QED  BY <1>2, <2>1, <2>2, <2>3, ControlTypes
<1>14. ASSUME NEW c \in Flushers, Read(c), UNCHANGED crowded PROVE PointsTypes'
  <2>1. Control'
    BY <1>5, <1>14 DEF Read, RoundEnds, Fault, PointsTypes, Control, Places
  <2>2. \A x \in Flushers : pc'[x] = "write" => pc[x] = "write" /\ seen'[x] = seen[x]
    BY <1>2, <1>14 DEF Read, RoundEnds
  <2>3. AtMost(lead, Len(store)) \in 0..Len(store)
    BY <1>2, LenProperties DEF AtMost
  <2>4. Drop(store, AtMost(lead, Len(store))) \in Seq(1..pushed)
    BY <1>2, <2>3, DropProperties
  <2>5. taken' \in [Flushers -> Seq(1..pushed)] /\ seen' \in [Flushers -> Seq(1..pushed)]
    BY <1>2, <1>14, <2>4 DEF Read
  <2>6. UNCHANGED <<pushed, queue, store, uploaded, acked, left>>
    BY <1>14 DEF Read
  <2>7. QED  BY <1>2, <2>1, <2>2, <2>5, <2>6, ControlTypes
<1>15. ASSUME NEW c \in Flushers, Upload(c), UNCHANGED crowded PROVE PointsTypes'
  <2>1. Control'
    BY <1>5, <1>15 DEF Upload, RoundEnds, Fault, PointsTypes, Control, Places
  <2>2. \A x \in Flushers : pc'[x] = "write" => pc[x] = "write"
    BY <1>2, <1>15 DEF Upload, RoundEnds
  <2>3. uploaded' \subseteq 1..pushed /\ acked' \subseteq uploaded'
    BY <1>2, <1>4, <1>15 DEF Upload
  <2>4. UNCHANGED <<pushed, queue, store, taken, seen, left>>
    BY <1>15 DEF Upload
  <2>5. QED  BY <1>2, <2>1, <2>2, <2>3, <2>4, ControlTypes
<1>16. ASSUME NEW c \in Flushers, Clear(c) \/ ClearOnly(c), UNCHANGED crowded PROVE PointsTypes'
  <2>1. Len(seen[c]) \in Nat  BY <1>2, LenProperties
  <2>2. Control'
    <3>1. pc' \in [Flushers -> Places] /\ round' = NoRound
      BY <1>16 DEF Clear, ClearOnly, RoundEnds, PointsTypes, Control, Places
    <3>2. /\ faults' \in 0..MaxFaults /\ lead' \in Nat /\ failed' \in BOOLEAN /\ reporting' \in BOOLEAN
      <4>1. CASE Clear(c)
        <5>1. faults \in 0..MaxFaults /\ failed \in BOOLEAN /\ lead \in Nat  BY DEF PointsTypes, Control
        <5>2. faults' \in 0..MaxFaults  BY <1>5, <4>1, <5>1 DEF Clear, Fault
        <5>3. lead' \in Nat  BY <2>1, <4>1, <5>1 DEF Clear
        <5>4. failed' \in BOOLEAN /\ reporting' \in BOOLEAN  BY <4>1, <5>1 DEF Clear
        <5>5. QED  BY <5>2, <5>3, <5>4
      <4>2. CASE ClearOnly(c)
        <5>1. faults \in 0..MaxFaults /\ lead \in Nat  BY DEF PointsTypes, Control
        <5>2. faults' \in 0..MaxFaults  BY <1>5, <4>2, <5>1 DEF ClearOnly, Fault
        <5>3. lead' \in {lead, 0}  BY <4>2 DEF ClearOnly
        <5>4. failed' \in BOOLEAN /\ reporting' \in BOOLEAN  BY <4>2 DEF ClearOnly, PointsTypes, Control
        <5>5. QED  BY <5>1, <5>2, <5>3, <5>4
      <4>3. QED  BY <1>16, <4>1, <4>2
    <3>3. UNCHANGED <<flusher, waits, misled, crowded, kills>>
      BY <1>16 DEF Clear, ClearOnly
    <3>4. QED  BY <3>1, <3>2, <3>3 DEF PointsTypes, Control
  <2>3. \A x \in Flushers : pc'[x] = "write" => pc[x] = "write"
    BY <1>2, <1>16 DEF Clear, ClearOnly, RoundEnds
  <2>4. store' \in {store, <<>>} /\ UNCHANGED <<pushed, queue, taken, seen, uploaded, acked, left>>
    BY <1>16 DEF Clear, ClearOnly
  <2>5. QED  BY <1>2, <1>3, <2>2, <2>3, <2>4, ControlTypes
<1>17. QED
  BY <1>6, <1>7, <1>8, <1>9, <1>10, <1>11, <1>12, <1>13, <1>14, <1>15, <1>16
  DEF PointsNext, Continue

-----------------------------------------------------------------------------
(***************************************************************************)
(* One call at a time                                                      *)
(***************************************************************************)
LEMMA RoundsInit == PointsInit => Rounds
BY StayPointsAssumption DEF PointsInit, Rounds, AtWork, InRound

\* A round begins when no call is at work but perhaps the one that begins it.
LEMMA BeginRounds ==
  ASSUME PointsTypes, Rounds, NEW c \in Flushers, NEW q, Begin(c, q),
         round = NoRound, \A x \in Flushers : AtWork(x) => x = c, pc[c] \in {"idle", "resume"},
         \/ UNCHANGED waits
         \/ waits' = [waits EXCEPT ![c] = NoRound]
  PROVE  Rounds'
<1>1. flusher = NoRound
  BY StayPointsAssumption DEF Rounds, PointsTypes, Control, AtWork
<1>2. ~reporting  BY DEF Rounds, AtWork
<1>3. \A x \in Flushers : pc[x] # "wait"  BY DEF Rounds
<1>4. /\ round' = c /\ c # NoRound /\ reporting' = reporting
      /\ \/ pc' = [pc EXCEPT ![c] = "report"] /\ flusher' = NoRound
         \/ pc' = [pc EXCEPT ![c] = "load"] /\ flusher' = c
  BY <1>1, StayPointsAssumption DEF Begin
<1>5. \A x \in Flushers : x # c => pc'[x] = "idle"
  BY <1>3, <1>4 DEF AtWork, PointsTypes, Control
<1>6. pc'[c] \in {"report", "load"} /\ (pc'[c] = "load" <=> flusher' = c)
  BY <1>4 DEF PointsTypes, Control
<1>7. QED
  BY <1>2, <1>4, <1>5, <1>6, StayPointsAssumption DEF Rounds, AtWork, InRound

\* A call that is not at work enters, as the first to wait or to begin.
LEMMA EnterRounds ==
  ASSUME PointsTypes, Rounds, NEW c \in Flushers, NEW q, Enter(c, q), Calm,
         pc[c] = "idle", ~crowded'
  PROVE  Rounds'
<1>1. CASE round = NoRound /\ Begin(c, q) /\ UNCHANGED waits
  <2>1. \A x \in Flushers : AtWork(x) => x = c
    BY <1>1, StayPointsAssumption DEF Rounds, AtWork, InRound, Calm, PointsTypes, Control, Places
  <2>2. QED  BY <1>1, <2>1, BeginRounds
<1>2. CASE round # NoRound
  <2>1. /\ pc' = [pc EXCEPT ![c] = "wait"] /\ waits' = [waits EXCEPT ![c] = round]
        /\ \A x \in Flushers : pc[x] = "wait" => waits[x] # round
        /\ UNCHANGED <<flusher, reporting, round>>
    BY <1>2 DEF Enter
  <2>2. \A x \in Flushers : pc[x] # "wait"  BY <2>1 DEF Rounds
  <2>3. \A x \in Flushers : pc'[x] = IF x = c THEN "wait" ELSE pc[x]
    BY <2>1 DEF PointsTypes, Control
  <2>4. \A x \in Flushers : x # c => waits'[x] = waits[x]
    BY <2>1 DEF PointsTypes, Control
  <2>5. waits'[c] = round  BY <2>1 DEF PointsTypes, Control
  <2>6. \A x \in Flushers : AtWork(x)' <=> AtWork(x)
    BY <2>3 DEF AtWork
  <2>7. \A x \in Flushers : InRound(x)' <=> InRound(x)
    BY <2>3 DEF InRound
  <2>8. round' # NoRound => InRound(round)'
    BY <2>1, <2>3, <2>7 DEF Rounds, InRound
  <2>9. QED
    BY <1>2, <2>1, <2>2, <2>3, <2>5, <2>6, <2>7, <2>8 DEF Rounds
<1>3. QED  BY <1>1, <1>2 DEF Enter

\* The call at work moves on within its round.
LEMMA MovesOn ==
  ASSUME PointsTypes, Rounds, NEW c \in Flushers, InRound(c), InRound(c)',
         \A x \in Flushers : x # c => pc'[x] = pc[x],
         UNCHANGED <<round, waits>>, pc'[c] # "join",
         flusher' = IF pc'[c] \in {"load", "write"} THEN c ELSE NoRound,
         reporting' <=> pc'[c] \in {"read", "upload", "clear"}
  PROVE  Rounds'
<1>1. round = c /\ \A x \in Flushers : x # c => ~AtWork(x)
  BY DEF Rounds, InRound, AtWork
<1>2. \A x \in Flushers : x # c => ~AtWork(x)' /\ ~InRound(x)'
  BY <1>1 DEF AtWork, InRound
<1>3. QED
  BY <1>1, <1>2, StayPointsAssumption DEF Rounds, AtWork, InRound

\* It ends its round, and the call that waits for it goes on.
LEMMA EndsRound ==
  ASSUME PointsTypes, Rounds, NEW c \in Flushers, InRound(c), RoundEnds(c),
         UNCHANGED waits, flusher' = NoRound, ~reporting'
  PROVE  Rounds'
<1>1. round = c /\ c # NoRound /\ \A x \in Flushers : x # c => ~AtWork(x)
  BY StayPointsAssumption DEF Rounds, InRound, AtWork
<1>2. /\ round' = NoRound
      /\ \A x \in Flushers : pc'[x] = IF x # c /\ pc[x] = "wait" THEN "resume" ELSE "idle"
  BY <1>1 DEF RoundEnds, AtWork, Rounds, InRound
<1>3. QED
  BY <1>2, StayPointsAssumption DEF Rounds, AtWork, InRound

\* Who flushes does not report, and conversely.
LEMMA WhoWorks ==
  ASSUME PointsTypes, Rounds, NEW c \in Flushers, InRound(c)
  PROVE  /\ flusher = IF pc[c] \in {"load", "write"} THEN c ELSE NoRound
         /\ reporting <=> pc[c] \in {"read", "upload", "clear"}
         /\ \A x \in Flushers : x # c => pc[x] \in {"idle", "wait"}
<1>1. \A x \in Flushers : x # c => pc[x] \in {"idle", "wait"}
  BY DEF Rounds, AtWork, InRound
<1>2. flusher = IF pc[c] \in {"load", "write"} THEN c ELSE NoRound
  BY <1>1 DEF Rounds, PointsTypes, Control
<1>3. reporting <=> pc[c] \in {"read", "upload", "clear"}
  BY <1>1 DEF Rounds
<1>4. QED  BY <1>1, <1>2, <1>3

LEMMA CrowdedStays == PointsTypes /\ [PointsNext]_pointsVars /\ crowded => crowded'
<1>1. SUFFICES ASSUME [PointsNext]_pointsVars, crowded PROVE crowded'  OBVIOUS
<1>2. CASE UNCHANGED pointsVars  BY <1>1, <1>2 DEF pointsVars
<1>3. CASE Kill  BY <1>1, <1>3 DEF Kill
<1>4. ASSUME NEW c \in Flushers, PushStayPoint(c) \/ Call(c) PROVE crowded'
  BY <1>1, <1>4 DEF PushStayPoint, Call, Enter
<1>5. ASSUME NEW c \in Flushers, Continue(c) PROVE crowded'
  BY <1>1, <1>5 DEF Continue
<1>6. QED  BY <1>1, <1>2, <1>3, <1>4, <1>5 DEF PointsNext

LEMMA RoundsStep ==
  ASSUME PointsTypes, Rounds, [PointsNext]_pointsVars, ~crowded'
  PROVE  Rounds'
<1>1. pc \in [Flushers -> Places]  BY DEF PointsTypes, Control
<1>2. CASE UNCHANGED pointsVars
  BY <1>2 DEF pointsVars, memVars, Rounds, AtWork, InRound
<1>3. CASE Kill
  BY <1>3, StayPointsAssumption DEF Kill, Rounds, AtWork, InRound
<1>4. ASSUME NEW c \in Flushers, PushStayPoint(c) \/ Call(c) PROVE Rounds'
  BY <1>4, EnterRounds DEF PushStayPoint, Call
<1>5. ASSUME NEW c \in Flushers, Resume(c) PROVE Rounds'
  <2>1. \A x \in Flushers : AtWork(x) => x = c
    BY <1>5 DEF Resume, Rounds, AtWork
  <2>2. round = NoRound
    BY <1>5, <2>1 DEF Resume, Rounds, AtWork, InRound, PointsTypes, Control
  <2>3. QED  BY <1>5, <2>1, <2>2, BeginRounds DEF Resume
<1>6. ASSUME NEW c \in Flushers, Load(c) \/ WriteStore(c) PROVE Rounds'
  <2>1. InRound(c) /\ \A x \in Flushers : pc[x] # "join"  BY <1>6 DEF Load, WriteStore, InRound, Rounds
  <2>2. /\ \A x \in Flushers : x # c => pc'[x] = pc[x]
        /\ \/ pc'[c] = "write" /\ flusher' = flusher
           \/ pc'[c] = "report" /\ flusher' = NoRound
        /\ UNCHANGED <<round, waits, reporting>>
    BY <1>1, <1>6, <2>1 DEF Load, WriteStore, FlushEnds
  <2>3. flusher = c /\ ~reporting
    BY <1>6, <2>1, WhoWorks DEF Load, WriteStore
  <2>4. InRound(c)'  BY <2>2 DEF InRound
  <2>5. QED  BY <2>1, <2>2, <2>3, <2>4, MovesOn
<1>7. ASSUME NEW c \in Flushers, Report(c) \/ Read(c) \/ Upload(c) \/ Clear(c) \/ ClearOnly(c)
      PROVE  Rounds'
  <2>1. InRound(c) /\ flusher = NoRound /\ (reporting <=> pc[c] \in {"read", "upload", "clear"})
    <3>1. pc[c] \in {"report", "read", "upload", "clear", "clear only"}
      BY <1>7 DEF Report, Read, Upload, Clear, ClearOnly
    <3>2. InRound(c)  BY <3>1 DEF InRound
    <3>3. QED  BY <3>1, <3>2, WhoWorks
  <2>2. UNCHANGED <<waits, flusher>>
    BY <1>7 DEF Report, Read, Upload, Clear, ClearOnly
  <2>3. CASE RoundEnds(c) /\ ~reporting'
    BY <2>1, <2>2, <2>3, EndsRound
  <2>4. CASE /\ \E p \in {"read", "clear only", "upload", "clear"} :
                   pc' = [pc EXCEPT ![c] = p] /\ (reporting' <=> p # "clear only")
             /\ UNCHANGED round
    <3>1. PICK p \in {"read", "clear only", "upload", "clear"} :
                 pc' = [pc EXCEPT ![c] = p] /\ (reporting' <=> p # "clear only")
      BY <2>4
    <3>2. \A x \in Flushers : pc'[x] = IF x = c THEN p ELSE pc[x]  BY <1>1, <3>1
    <3>3. InRound(c)'  BY <3>2 DEF InRound
    <3>4. reporting' <=> pc'[c] \in {"read", "upload", "clear"}  BY <3>1, <3>2
    <3>5. flusher' = IF pc'[c] \in {"load", "write"} THEN c ELSE NoRound  BY <2>1, <2>2, <3>2
    <3>6. QED  BY <2>1, <2>2, <2>4, <3>2, <3>3, <3>4, <3>5, MovesOn
  <2>5. \/ RoundEnds(c) /\ ~reporting'
        \/ /\ \E p \in {"read", "clear only", "upload", "clear"} :
                   pc' = [pc EXCEPT ![c] = p] /\ (reporting' <=> p # "clear only")
           /\ UNCHANGED round
    <3>1. CASE Report(c)
      <4>1. ~reporting  BY <2>1, <3>1 DEF Report
      <4>2. QED  BY <3>1, <4>1 DEF Report
    <3>2. CASE Read(c)
      <4>1. reporting  BY <2>1, <3>2 DEF Read
      <4>2. QED  BY <3>2, <4>1 DEF Read
    <3>3. CASE Upload(c)
      <4>1. reporting  BY <2>1, <3>3 DEF Upload
      <4>2. QED  BY <3>3, <4>1 DEF Upload
    <3>4. CASE Clear(c)  BY <3>4 DEF Clear
    <3>5. CASE ClearOnly(c)
      <4>1. ~reporting  BY <2>1, <3>5 DEF ClearOnly
      <4>2. QED  BY <3>5, <4>1 DEF ClearOnly
    <3>6. QED  BY <1>7, <3>1, <3>2, <3>3, <3>4, <3>5
  <2>6. QED  BY <2>3, <2>4, <2>5
<1>8. QED  BY <1>2, <1>3, <1>4, <1>5, <1>6, <1>7 DEF PointsNext, Continue

-----------------------------------------------------------------------------
(***************************************************************************)
(* What one call at a time does to the points                              *)
(***************************************************************************)
\* What is in a flush is what the call at work has taken.
LEMMA FlushOfCall ==
  ASSUME PointsTypes, Rounds, NEW c \in Flushers, InRound(c)
  PROVE  InFlush = IF pc[c] \in {"load", "write"} THEN SeqRange(taken[c]) ELSE {}
BY WhoWorks DEF InFlush

LEMMA PlusZero == \A n \in Nat : n + 0 = n
OBVIOUS

\* A step after which no call has taken or copied anything.
LEMMA NothingCopied ==
  ASSUME PointsTypes', Rounds',
         \A x \in Flushers : pc'[x] \notin {"load", "write", "upload", "clear", "clear only"},
         SeqRange(queue') \cap (SeqRange(store') \cup acked') = {},
         lead' <= Len(store'), \A i \in 1..lead' : store'[i] \in acked',
         1..pushed' \subseteq SeqRange(queue') \cup SeqRange(store') \cup uploaded' \cup left',
         ~misled' => \A i \in 1..Len(store') : i > lead' => store'[i] \notin acked'
  PROVE  OneByOne'
<1>1. Apart'  BY DEF Apart
<1>2. Copies'  BY DEF Copies
<1>3. Led'  BY DEF Led
<1>4. PointsKept'  BY DEF PointsKept
<1>5. \A x \in Flushers : Dropping(x)' = 0  BY DEF Dropping
<1>6. lead' \in Nat  BY DEF PointsTypes, Control
<1>7. ~misled' => Unsent' /\ UnsentAtRest'
  <2>1. \A x \in Flushers : lead' + Dropping(x)' = lead'
    <3>1. lead' + 0 = lead'  BY <1>6, PlusZero, Zenon
    <3>2. QED  BY <1>5, <3>1, Zenon
  <2>2. QED  BY <2>1 DEF Unsent, UnsentAtRest
<1>8. QED  BY <1>1, <1>2, <1>3, <1>4, <1>7 DEF OneByOne

LEMMA OneByOneInit == PointsInit => OneByOne
<1>1. SUFFICES ASSUME PointsInit PROVE OneByOne  OBVIOUS
<1>2. Rounds  BY <1>1, RoundsInit
<1>3. Len(store) = 0 /\ SeqRange(queue) = {} /\ lead = 0 /\ pushed = 0 /\ acked = {}
  BY <1>1, EmptySeq, RangeProperties DEF PointsInit
<1>4. \A c \in Flushers : pc[c] = "idle"  BY <1>1 DEF PointsInit
<1>5. Apart /\ Led /\ PointsKept  BY <1>3, <1>4 DEF Apart, Led, PointsKept
<1>6. Copies  BY <1>4 DEF Copies
<1>7. Unsent /\ UnsentAtRest  BY <1>3 DEF Unsent, UnsentAtRest
<1>8. QED  BY <1>2, <1>5, <1>6, <1>7 DEF OneByOne

\* Which points the call at work may find in storage, and which not.
LEMMA InStorage ==
  ASSUME PointsTypes, OneByOne, NEW c \in Flushers, InRound(c)
  PROVE  /\ \A x \in Flushers : x # c => pc[x] \in {"idle", "wait"}
         /\ SeqRange(queue) \cap (SeqRange(store) \cup acked) = {}
         /\ lead <= Len(store) /\ \A i \in 1..lead : store[i] \in acked
         /\ 1..pushed \subseteq SeqRange(queue) \cup SeqRange(store) \cup uploaded \cup left
              \cup (IF pc[c] \in {"load", "write"} THEN SeqRange(taken[c]) ELSE {})
         /\ ~misled /\ pc[c] # "clear" =>
              \A i \in 1..Len(store) : i > lead + Dropping(c) => store[i] \notin acked
         /\ pc[c] # "write" => Dropping(c) = 0
<1>1. Rounds  BY DEF OneByOne
<1>2. round = c  BY <1>1 DEF Rounds
<1>3. 1..pushed \subseteq SeqRange(queue) \cup SeqRange(store) \cup uploaded \cup left
              \cup (IF pc[c] \in {"load", "write"} THEN SeqRange(taken[c]) ELSE {})
  BY <1>1, FlushOfCall DEF OneByOne, PointsKept
<1>4. \A x \in Flushers : x # c => pc[x] \in {"idle", "wait"}  BY <1>1, WhoWorks
<1>5. SeqRange(queue) \cap (SeqRange(store) \cup acked) = {}  BY DEF OneByOne, Apart
<1>6. lead <= Len(store) /\ \A i \in 1..lead : store[i] \in acked  BY DEF OneByOne, Led
<1>7. ~misled /\ pc[c] # "clear" =>
              \A i \in 1..Len(store) : i > lead + Dropping(c) => store[i] \notin acked
  BY <1>2 DEF OneByOne, Unsent
<1>8. QED  BY <1>3, <1>4, <1>5, <1>6, <1>7 DEF Dropping

\* A round that begins: nobody is in a flush, and the points q are those of
\* the queue, one of them perhaps new.
LEMMA BeginPoints ==
  ASSUME PointsTypes, PointsTypes', OneByOne, Rounds', NEW c \in Flushers, NEW q, Begin(c, q),
         pc[c] \in {"idle", "resume"}, round = NoRound,
         q \in Seq(1..pushed'), SeqRange(queue) \subseteq SeqRange(q),
         SeqRange(q) \subseteq SeqRange(queue) \cup (1..pushed' \ 1..pushed),
         1..pushed' \subseteq 1..pushed \cup SeqRange(q)
  PROVE  OneByOne'
<1>1. /\ round' = c /\ UNCHANGED <<lead, acked, store, uploaded, left, misled>>
      /\ pc \in [Flushers -> Places] /\ lead \in Nat
  BY DEF Begin, PointsTypes, Control
<1>2. \A x \in Flushers : pc[x] \notin {"load", "write", "join", "upload", "clear", "clear only"}
  BY StayPointsAssumption DEF OneByOne, Rounds, InRound, PointsTypes, Control
<1>3. flusher = NoRound  BY <1>2 DEF OneByOne, Rounds, PointsTypes, Control
<1>4. acked \subseteq 1..pushed /\ SeqRange(store) \subseteq 1..pushed
  BY RangeProperties DEF PointsTypes, Told, Held
<1>5. SeqRange(q) \cap (SeqRange(store) \cup acked) = {}
  BY <1>4 DEF OneByOne, Apart
<1>6. InFlush = {}  BY <1>2 DEF InFlush
<1>7. 1..pushed' \subseteq SeqRange(q) \cup SeqRange(store) \cup uploaded \cup left
  BY <1>6 DEF OneByOne, PointsKept
<1>8. ~misled => \A i \in 1..Len(store) : i > lead => store[i] \notin acked
  BY DEF OneByOne, UnsentAtRest
<1>9. lead <= Len(store) /\ \A i \in 1..lead : store[i] \in acked  BY DEF OneByOne, Led
<1>10. CASE q = <<>>
  <2>1. pc' = [pc EXCEPT ![c] = "report"] /\ queue' = q  BY <1>3, <1>10 DEF Begin
  <2>2. \A x \in Flushers : pc'[x] \notin {"load", "write", "upload", "clear", "clear only"}
    BY <1>1, <1>2, <2>1
  <2>3. QED  BY <1>1, <1>5, <1>7, <1>8, <1>9, <2>1, <2>2, NothingCopied
<1>11. CASE q # <<>>
  <2>1. pc' = [pc EXCEPT ![c] = "load"] /\ queue' = <<>> /\ taken' = [taken EXCEPT ![c] = q]
    BY <1>3, <1>11 DEF Begin
  <2>2. \A x \in Flushers : pc'[x] = IF x = c THEN "load" ELSE pc[x]  BY <1>1, <2>1
  <2>3. taken'[c] = q  BY <2>1 DEF PointsTypes, Held
  <2>4. SeqRange(queue') = {}  BY <2>1, RangeProperties, EmptySeq
  <2>5. Apart'  BY <1>1, <1>2, <1>5, <2>2, <2>3, <2>4 DEF Apart
  <2>6. Copies'  BY <1>2, <2>2 DEF Copies
  <2>7. Led'  BY <1>1, <1>2, <1>9, <2>2 DEF Led
  <2>8. SeqRange(q) \subseteq InFlush'  BY <2>2, <2>3 DEF InFlush
  <2>9. PointsKept'  BY <1>1, <1>7, <2>8 DEF PointsKept
  <2>10. \A x \in Flushers : Dropping(x)' = 0  BY <1>2, <2>2 DEF Dropping
  <2>11. ~misled' => Unsent' /\ UnsentAtRest'
    BY <1>1, <1>8, <2>10, StayPointsAssumption DEF Unsent, UnsentAtRest
  <2>12. QED  BY <2>5, <2>6, <2>7, <2>9, <2>11 DEF OneByOne
<1>12. QED  BY <1>10, <1>11

\* A call that waits: it leaves its point in the queue.
LEMMA WaitPoints ==
  ASSUME PointsTypes, PointsTypes', OneByOne, Rounds', NEW c \in Flushers, NEW q,
         pc[c] = "idle", pc' = [pc EXCEPT ![c] = "wait"], queue' = q, round # NoRound,
         UNCHANGED <<lead, round, taken, seen, acked, store, uploaded, left, misled>>,
         q \in Seq(1..pushed'), SeqRange(queue) \subseteq SeqRange(q),
         SeqRange(q) \subseteq SeqRange(queue) \cup (1..pushed' \ 1..pushed),
         1..pushed' \subseteq 1..pushed \cup SeqRange(q)
  PROVE  OneByOne'
<1>1. \A x \in Flushers : pc'[x] = IF x = c THEN "wait" ELSE pc[x]
  BY DEF PointsTypes, Control
<1>2. /\ acked \subseteq 1..pushed /\ SeqRange(store) \subseteq 1..pushed
      /\ \A x \in Flushers : SeqRange(taken[x]) \subseteq 1..pushed
  BY RangeProperties DEF PointsTypes, Told, Held
<1>3. \A x \in Flushers : Dropping(x)' = Dropping(x)
  BY <1>1 DEF Dropping
<1>4. Apart'
  <2>1. SeqRange(q) \cap (SeqRange(store) \cup acked) = {}  BY <1>2 DEF OneByOne, Apart
  <2>2. ASSUME NEW x \in Flushers, pc'[x] \in {"load", "write"}
        PROVE  SeqRange(taken[x]) \cap (SeqRange(q) \cup SeqRange(store) \cup acked) = {}
    <3>1. pc[x] \in {"load", "write"}  BY <1>1, <2>2
    <3>2. SeqRange(taken[x]) \cap (SeqRange(queue) \cup SeqRange(store) \cup acked) = {}
      BY <3>1 DEF OneByOne, Apart
    <3>3. QED  BY <1>2, <3>2
  <2>3. QED  BY <2>1, <2>2 DEF Apart
<1>5. Copies'
  <2>1. ASSUME NEW x \in Flushers
        PROVE  pc'[x] = "wait" \/ pc'[x] = pc[x]
    BY <1>1, Zenon
  <2>2. Copies  BY DEF OneByOne
  <2>3. ASSUME NEW x \in Flushers
        PROVE  /\ pc'[x] = "write" => seen[x] = Drop(store \o taken[x], Excess(store \o taken[x]))
               /\ pc'[x] \in {"upload", "clear"} =>
                    seen[x] = store /\ taken[x] = Drop(store, AtMost(lead, Len(store)))
               /\ pc'[x] = "clear" => SeqRange(taken[x]) \subseteq acked
               /\ pc'[x] = "clear only" => Len(store) <= lead
    <3>1. CASE pc'[x] = pc[x]  BY <2>2, <3>1 DEF Copies
    <3>2. CASE pc'[x] = "wait"  BY <3>2
    <3>3. QED  BY <2>1, <3>1, <3>2
  <2>4. QED  BY <2>3 DEF Copies
<1>6. Led'
  BY <1>1, <1>3 DEF OneByOne, Led
<1>7. InFlush' = InFlush  BY <1>1 DEF InFlush
<1>8. PointsKept'  BY <1>7 DEF OneByOne, PointsKept
<1>9. ~misled' => Unsent' /\ UnsentAtRest'
  <2>1. round # c  BY DEF OneByOne, Rounds, InRound
  <2>2. QED  BY <1>1, <1>3, <2>1 DEF OneByOne, Unsent, UnsentAtRest
<1>10. QED  BY <1>4, <1>5, <1>6, <1>8, <1>9 DEF OneByOne

LEMMA EnterPoints ==
  ASSUME PointsTypes, PointsTypes', OneByOne, Rounds', NEW c \in Flushers,
         PushStayPoint(c) \/ Call(c)
  PROVE  OneByOne'
<1>1. queue \in Seq(1..pushed) /\ pushed \in Nat
  BY StayPointsAssumption DEF PointsTypes, Held
<1>2. PICK q : /\ Enter(c, q) /\ pc[c] = "idle" /\ q \in Seq(1..pushed')
               /\ SeqRange(queue) \subseteq SeqRange(q)
               /\ SeqRange(q) \subseteq SeqRange(queue) \cup (1..pushed' \ 1..pushed)
               /\ 1..pushed' \subseteq 1..pushed \cup SeqRange(q)
  <2>1. CASE PushStayPoint(c)
    <3>1. pushed' = pushed + 1 /\ 1..pushed' = 1..pushed \cup {pushed + 1} /\ pushed + 1 \notin 1..pushed
      BY <1>1, <2>1 DEF PushStayPoint
    <3>2. queue \in Seq(1..pushed')  BY <1>1, <3>1, SeqMonotonic
    <3>3. /\ Append(queue, pushed + 1) \in Seq(1..pushed')
          /\ SeqRange(Append(queue, pushed + 1)) = SeqRange(queue) \cup {pushed + 1}
      BY <3>1, <3>2, RangeProperties
    <3>4. Enter(c, Append(queue, pushed + 1)) /\ pc[c] = "idle"  BY <2>1 DEF PushStayPoint
    <3>5. QED  BY <3>1, <3>3, <3>4
  <2>2. CASE Call(c)  BY <1>1, <2>2 DEF Call
  <2>3. QED  BY <2>1, <2>2
<1>3. CASE round = NoRound /\ Begin(c, q)
  BY <1>2, <1>3, BeginPoints
<1>4. CASE round # NoRound
  BY <1>2, <1>4, WaitPoints DEF Enter
<1>5. QED  BY <1>2, <1>3, <1>4 DEF Enter

\* A call goes on when the round it waited for has ended.
LEMMA ResumePoints ==
  ASSUME PointsTypes, PointsTypes', OneByOne, Rounds', NEW c \in Flushers, Resume(c)
  PROVE  OneByOne'
<1>1. queue \in Seq(1..pushed) /\ pushed' = pushed  BY DEF PointsTypes, Held, Resume
<1>2. pc[c] = "resume" /\ Begin(c, queue)  BY DEF Resume
<1>3. \A x \in Flushers : ~InRound(x)
  BY <1>2 DEF OneByOne, Rounds, AtWork, InRound
<1>4. round = NoRound  BY <1>3 DEF OneByOne, Rounds, PointsTypes, Control
<1>5. SeqRange(queue) \subseteq SeqRange(queue) \cup (1..pushed' \ 1..pushed)
      /\ 1..pushed' \subseteq 1..pushed \cup SeqRange(queue)
  BY <1>1
<1>6. QED  BY <1>1, <1>2, <1>4, <1>5, BeginPoints

\* The points of a round that ends in this step: nobody is at work.
LEMMA EndsQuietly ==
  ASSUME PointsTypes, Rounds, NEW c \in Flushers, InRound(c), RoundEnds(c)
  PROVE  \A x \in Flushers : pc'[x] \notin {"load", "write", "upload", "clear", "clear only"}
<1>1. \A x \in Flushers : x # c => pc[x] \in {"idle", "wait"}  BY WhoWorks
<1>2. \A x \in Flushers : pc'[x] = "idle" \/ pc'[x] = "resume" \/ pc'[x] = "wait"
  BY <1>1 DEF RoundEnds
<1>3. QED  BY <1>2

\* What a flush combines: what is in storage, then what it has taken.
LEMMA Combined ==
  ASSUME PointsTypes, NEW c \in Flushers
  PROVE  /\ store \o taken[c] \in Seq(1..pushed)
         /\ Len(store) \in Nat /\ Len(taken[c]) \in Nat
         /\ Len(store \o taken[c]) = Len(store) + Len(taken[c])
         /\ \A i \in 1..Len(store) : (store \o taken[c])[i] = store[i]
         /\ \A i \in 1..Len(taken[c]) : (store \o taken[c])[Len(store) + i] = taken[c][i]
         /\ SeqRange(store \o taken[c]) = SeqRange(store) \cup SeqRange(taken[c])
         /\ Excess(store \o taken[c]) \in 0..(Len(store) + Len(taken[c]))
         /\ Excess(store \o taken[c]) > 0 => Len(store) + Len(taken[c]) - Excess(store \o taken[c]) = Cap
<1>1. store \in Seq(1..pushed) /\ taken[c] \in Seq(1..pushed)  BY DEF PointsTypes, Held
<1>2. /\ store \o taken[c] \in Seq(1..pushed)
      /\ Len(store) \in Nat /\ Len(taken[c]) \in Nat
      /\ Len(store \o taken[c]) = Len(store) + Len(taken[c])
      /\ \A i \in 1..Len(store) + Len(taken[c]) : (store \o taken[c])[i] =
           IF i <= Len(store) THEN store[i] ELSE taken[c][i - Len(store)]
  BY <1>1, ConcatProperties, LenProperties
<1>3. \A i \in 1..Len(store) : (store \o taken[c])[i] = store[i]  BY <1>2
<1>4. ASSUME NEW i \in 1..Len(taken[c])
      PROVE  (store \o taken[c])[Len(store) + i] = taken[c][i]
  <2>1. Len(store) + i \in 1..Len(store) + Len(taken[c]) /\ ~(Len(store) + i <= Len(store))
        /\ Len(store) + i - Len(store) = i
    BY <1>2
  <2>2. QED  BY <1>2, <2>1
<1>5. SeqRange(store \o taken[c]) = SeqRange(store) \cup SeqRange(taken[c])
  BY <1>1, RangeProperties
<1>6. /\ Excess(store \o taken[c]) \in 0..(Len(store) + Len(taken[c]))
      /\ Excess(store \o taken[c]) > 0 => Len(store) + Len(taken[c]) - Excess(store \o taken[c]) = Cap
  BY <1>2, StayPointsAssumption DEF Excess
<1>7. QED  BY <1>2, <1>3, <1>4, <1>5, <1>6

LEMMA Dropped ==
  ASSUME NEW S, NEW s \in Seq(S)
  PROVE  /\ Len(Drop(s, Excess(s))) = Len(s) - Excess(s)
         /\ \A i \in 1..(Len(s) - Excess(s)) : Drop(s, Excess(s))[i] = s[i + Excess(s)]
         /\ SeqRange(Drop(s, Excess(s))) \subseteq SeqRange(s)
BY ExcessBounds, DropProperties

LEMMA LoadPoints ==
  ASSUME PointsTypes, PointsTypes', OneByOne, Rounds', NEW c \in Flushers, Load(c)
  PROVE  OneByOne'
<1> DEFINE n == Excess(store \o taken[c])
<1>1. /\ pc[c] = "load" /\ InRound(c) /\ pc \in [Flushers -> Places] /\ lead \in Nat
      /\ UNCHANGED <<pushed, store, acked, uploaded, left, taken>>
  BY DEF Load, InRound, FlushEnds, PointsTypes, Control
<1>2. /\ \A x \in Flushers : x # c => pc[x] \in {"idle", "wait"}
      /\ SeqRange(queue) \cap (SeqRange(store) \cup acked) = {}
      /\ lead <= Len(store) /\ \A i \in 1..lead : store[i] \in acked
      /\ 1..pushed \subseteq SeqRange(queue) \cup SeqRange(store) \cup uploaded \cup left
              \cup SeqRange(taken[c])
  BY <1>1, InStorage
<1>3. ~misled => \A i \in 1..Len(store) : i > lead => store[i] \notin acked
  <2>1. Dropping(c) = 0  BY <1>1 DEF Dropping
  <2>2. lead + Dropping(c) = lead  BY <1>1, <2>1
  <2>3. QED  BY <1>1, <2>2, InStorage
<1>4. SeqRange(taken[c]) \cap (SeqRange(queue) \cup SeqRange(store) \cup acked) = {}
  BY <1>1 DEF OneByOne, Apart
<1>5. n \in Nat /\ Len(store) \in Nat  BY <1>1, Combined
<1>6. CASE /\ seen' = [seen EXCEPT ![c] = Drop(store \o taken[c], n)]
           /\ lead' = lead - AtMost(lead, n)
           /\ pc' = [pc EXCEPT ![c] = "write"]
           /\ UNCHANGED <<queue, round, misled>>
  <2>1. \A x \in Flushers : pc'[x] = IF x = c THEN "write" ELSE pc[x]  BY <1>1, <1>6
  <2>2. seen'[c] = Drop(store \o taken[c], n)  BY <1>6 DEF PointsTypes, Held
  <2>3. /\ lead' \in Nat /\ lead' <= lead /\ lead <= lead' + n /\ (lead' > 0 => lead' + n = lead)
    BY <1>1, <1>5, <1>6 DEF AtMost
  <2>4. Dropping(c)' = n  BY <1>1, <2>1 DEF Dropping
  <2>5. Apart'
    <3>1. \A x \in Flushers : pc'[x] \in {"load", "write"} => x = c
      BY <1>2, <2>1
    <3>2. QED  BY <1>1, <1>2, <1>4, <1>6, <3>1 DEF Apart
  <2>6. Copies'
    <3>1. \A x \in Flushers : pc'[x] = "write" => x = c  BY <1>2, <2>1
    <3>2. \A x \in Flushers : ~(pc'[x] \in {"upload", "clear"}) /\ pc'[x] # "clear" /\ pc'[x] # "clear only"
      BY <1>2, <2>1
    <3>3. QED  BY <1>1, <2>2, <3>1, <3>2 DEF Copies
  <2>7. Led'
    <3>1. lead' <= Len(store') /\ \A i \in 1..lead' : store'[i] \in acked'
      BY <1>1, <1>2, <1>5, <2>3
    <3>2. lead' > 0 => /\ lead' + Dropping(c)' <= Len(store')
                       /\ \A i \in 1..(lead' + Dropping(c)') : store'[i] \in acked'
      BY <1>1, <1>2, <2>3, <2>4
    <3>3. \A x \in Flushers : pc'[x] = "write" => x = c  BY <1>2, <2>1
    <3>4. QED  BY <3>1, <3>2, <3>3 DEF Led
  <2>8. PointsKept'
    <3>1. SeqRange(taken[c]) \subseteq InFlush'  BY <1>1, <2>1 DEF InFlush
    <3>2. QED  BY <1>1, <1>2, <1>6, <3>1 DEF PointsKept
  <2>9. ~misled' => Unsent' /\ UnsentAtRest'
    <3>1. round' = c /\ c # NoRound  BY <1>1, <1>6, StayPointsAssumption DEF OneByOne, Rounds
    <3>2. ~misled => \A i \in 1..Len(store) : i > lead' + n => store[i] \notin acked
      BY <1>1, <1>3, <1>5, <2>3
    <3>3. QED  BY <1>1, <1>6, <2>4, <3>1, <3>2 DEF Unsent, UnsentAtRest
  <2>10. QED  BY <2>5, <2>6, <2>7, <2>8, <2>9 DEF OneByOne
<1>7. CASE PutBack(c) /\ FlushEnds(c) /\ UNCHANGED <<lead, misled>>
  <2>1. \A x \in Flushers : pc'[x] \notin {"load", "write", "upload", "clear", "clear only"}
    BY <1>1, <1>2, <1>7 DEF FlushEnds
  <2>2. SeqRange(queue') = SeqRange(taken[c]) \cup SeqRange(queue)
    BY <1>7, RangeProperties DEF PutBack, PointsTypes, Held
  <2>3. SeqRange(queue') \cap (SeqRange(store') \cup acked') = {}
    BY <1>1, <1>2, <1>4, <2>2
  <2>4. 1..pushed' \subseteq SeqRange(queue') \cup SeqRange(store') \cup uploaded' \cup left'
    BY <1>1, <1>2, <2>2
  <2>5. QED  BY <1>1, <1>2, <1>3, <1>7, <2>1, <2>3, <2>4, NothingCopied
<1>8. QED  BY <1>6, <1>7 DEF Load

LEMMA WritePoints ==
  ASSUME PointsTypes, PointsTypes', OneByOne, Rounds', NEW c \in Flushers, WriteStore(c)
  PROVE  OneByOne'
<1> DEFINE n == Excess(store \o taken[c])
<1> DEFINE total == Len(store) + Len(taken[c])
<1>1. /\ pc[c] = "write" /\ InRound(c) /\ lead \in Nat /\ FlushEnds(c) /\ pc \in [Flushers -> Places]
      /\ UNCHANGED <<pushed, lead, acked, uploaded, taken>>
  BY DEF WriteStore, InRound, FlushEnds, PointsTypes, Control
<1>2. /\ \A x \in Flushers : x # c => pc[x] \in {"idle", "wait"}
      /\ SeqRange(queue) \cap (SeqRange(store) \cup acked) = {}
      /\ lead <= Len(store) /\ \A i \in 1..lead : store[i] \in acked
      /\ 1..pushed \subseteq SeqRange(queue) \cup SeqRange(store) \cup uploaded \cup left
              \cup SeqRange(taken[c])
  BY <1>1, InStorage
<1>3. Dropping(c) = n  BY <1>1 DEF Dropping
<1>4. ~misled => \A i \in 1..Len(store) : i > lead + n => store[i] \notin acked
  BY <1>1, <1>3, InStorage
<1>5. SeqRange(taken[c]) \cap (SeqRange(queue) \cup SeqRange(store) \cup acked) = {}
  BY <1>1 DEF OneByOne, Apart
<1>6. /\ store \o taken[c] \in Seq(1..pushed) /\ Len(store) \in Nat /\ Len(taken[c]) \in Nat
      /\ total \in Nat /\ n \in 0..total /\ Len(store \o taken[c]) = total
      /\ \A i \in 1..Len(store) : (store \o taken[c])[i] = store[i]
      /\ \A i \in 1..Len(taken[c]) : (store \o taken[c])[Len(store) + i] = taken[c][i]
      /\ SeqRange(store \o taken[c]) = SeqRange(store) \cup SeqRange(taken[c])
  BY <1>1, Combined
<1>7. \A x \in Flushers : pc'[x] \notin {"load", "write", "upload", "clear", "clear only"}
  BY <1>1, <1>2 DEF FlushEnds
<1>8. lead > 0 => /\ lead + n <= Len(store)
                  /\ \A i \in 1..(lead + n) : store[i] \in acked
  BY <1>1, <1>3 DEF OneByOne, Led
<1> HIDE DEF n, total
<1>9. CASE /\ store' = seen[c] /\ UNCHANGED <<queue, misled>>
           /\ left' = left \cup ((SeqRange(store) \cup SeqRange(taken[c])) \ SeqRange(seen[c]))
  <2>1. store' = Drop(store \o taken[c], n)
    BY <1>1, <1>9 DEF OneByOne, Copies, n
  <2>2. /\ Len(store') = total - n
        /\ \A i \in 1..(total - n) : store'[i] = (store \o taken[c])[i + n]
        /\ SeqRange(store') \subseteq SeqRange(store) \cup SeqRange(taken[c])
    BY <1>6, <2>1, Dropped DEF n
  <2>3. SeqRange(queue') \cap (SeqRange(store') \cup acked') = {}
    BY <1>1, <1>2, <1>5, <1>9, <2>2
  <2>4. lead' <= Len(store') /\ \A i \in 1..lead' : store'[i] \in acked'
    <3>1. CASE lead = 0  BY <1>1, <1>6, <2>2, <3>1
    <3>2. CASE lead > 0
      <4>1. lead' <= Len(store')  BY <1>1, <1>6, <1>8, <2>2, <3>2
      <4>2. ASSUME NEW i \in 1..lead PROVE store'[i] \in acked'
        <5>1. i + n \in 1..Len(store) /\ i + n \in 1..(lead + n) /\ i \in 1..(total - n)
          BY <1>1, <1>6, <1>8, <3>2
        <5>2. store'[i] = store[i + n]  BY <1>6, <2>2, <5>1
        <5>3. store[i + n] \in acked  BY <1>8, <3>2, <5>1
        <5>4. QED  BY <1>1, <5>2, <5>3
      <4>3. QED  BY <1>1, <4>1, <4>2
    <3>3. QED  BY <1>1, <3>1, <3>2
  <2>5. 1..pushed' \subseteq SeqRange(queue') \cup SeqRange(store') \cup uploaded' \cup left'
    BY <1>1, <1>2, <1>9
  <2>6. ~misled' => \A i \in 1..Len(store') : i > lead' => store'[i] \notin acked'
    <3>1. SUFFICES ASSUME ~misled, NEW i \in 1..(total - n), i > lead PROVE store'[i] \notin acked
      BY <1>1, <1>9, <2>2
    <3>2. CASE i + n <= Len(store)
      <4>1. i + n \in 1..Len(store) /\ i + n > lead + n  BY <1>1, <1>6, <3>1, <3>2
      <4>2. store'[i] = store[i + n]  BY <1>6, <2>2, <3>1, <4>1
      <4>3. store[i + n] \notin acked
        BY <1>4, <3>1, <4>1 DEF n
      <4>4. QED  BY <4>2, <4>3
    <3>3. CASE i + n > Len(store)
      <4>1. i + n - Len(store) \in 1..Len(taken[c]) /\ Len(store) + (i + n - Len(store)) = i + n
        BY <1>6, <3>1, <3>3 DEF total
      <4>2. store'[i] = taken[c][i + n - Len(store)]  BY <1>6, <2>2, <3>1, <4>1
      <4>3. taken[c][i + n - Len(store)] \in SeqRange(taken[c])  BY <4>1 DEF SeqRange
      <4>4. QED  BY <1>5, <4>2, <4>3
    <3>4. QED  BY <1>6, <3>2, <3>3
  <2>7. QED  BY <1>1, <1>7, <2>3, <2>4, <2>5, <2>6, NothingCopied
<1>10. CASE PutBack(c) /\ misled' = (misled \/ n > 0) /\ UNCHANGED <<store, left>>
  <2>1. SeqRange(queue') = SeqRange(taken[c]) \cup SeqRange(queue)
    BY <1>10, RangeProperties DEF PutBack, PointsTypes, Held
  <2>2. SeqRange(queue') \cap (SeqRange(store') \cup acked') = {}
    BY <1>1, <1>2, <1>5, <1>10, <2>1
  <2>3. 1..pushed' \subseteq SeqRange(queue') \cup SeqRange(store') \cup uploaded' \cup left'
    BY <1>1, <1>2, <1>10, <2>1
  <2>4. ~misled' => \A i \in 1..Len(store') : i > lead' => store'[i] \notin acked'
    <3>1. ~misled' => ~misled /\ n = 0
      <4>1. ~misled' => ~misled /\ ~(n > 0)  BY <1>10, Zenon
      <4>2. n \in Nat  BY <1>6
      <4>3. QED  BY <4>1, <4>2
    <3>2. n = 0 => lead + n = lead  BY <1>1
    <3>3. QED  BY <1>1, <1>4, <1>10, <3>1, <3>2 DEF n
  <2>5. QED  BY <1>1, <1>2, <1>7, <1>10, <2>2, <2>3, <2>4, NothingCopied
<1>11. QED  BY <1>9, <1>10 DEF WriteStore, n

\* What the call at work finds when it is not in a flush.
LEMMA Reporting ==
  ASSUME PointsTypes, OneByOne, NEW c \in Flushers,
         pc[c] \in {"report", "read", "upload", "clear", "clear only"}
  PROVE  /\ InRound(c) /\ Rounds /\ round = c /\ c # NoRound
         /\ \A x \in Flushers : x # c => pc[x] \in {"idle", "wait"}
         /\ SeqRange(queue) \cap (SeqRange(store) \cup acked) = {}
         /\ lead \in Nat /\ Len(store) \in Nat /\ pc \in [Flushers -> Places]
         /\ lead <= Len(store) /\ \A i \in 1..lead : store[i] \in acked
         /\ 1..pushed \subseteq SeqRange(queue) \cup SeqRange(store) \cup uploaded \cup left
         /\ ~misled /\ pc[c] # "clear" => \A i \in 1..Len(store) : i > lead => store[i] \notin acked
<1>1. InRound(c) /\ pc[c] \notin {"load", "write"}  BY DEF InRound
<1>2. Rounds /\ round = c /\ c # NoRound  BY <1>1, StayPointsAssumption DEF OneByOne, Rounds
<1>3. lead \in Nat /\ Len(store) \in Nat /\ pc \in [Flushers -> Places]
  BY LenProperties DEF PointsTypes, Held, Control
<1>4. lead + Dropping(c) = lead
  <2>1. Dropping(c) = 0  BY <1>1 DEF Dropping
  <2>2. lead + 0 = lead  BY <1>3, PlusZero, Zenon
  <2>3. QED  BY <2>1, <2>2, Zenon
<1>5. QED  BY <1>1, <1>2, <1>3, <1>4, InStorage

LEMMA ReportPoints ==
  ASSUME PointsTypes, PointsTypes', OneByOne, Rounds', NEW c \in Flushers, Report(c)
  PROVE  OneByOne'
<1>1. pc[c] = "report" /\ UNCHANGED <<queue, lead, acked, store, pushed, uploaded, left, misled>>
  BY DEF Report
<1>2. \A x \in Flushers : pc'[x] \notin {"load", "write", "upload", "clear", "clear only"}
  <2>1. CASE RoundEnds(c)  BY <1>1, <2>1, Reporting, EndsQuietly
  <2>2. CASE pc' = [pc EXCEPT ![c] = "read"]
    <3>1. \A x \in Flushers : x # c => pc[x] \in {"idle", "wait"}  BY <1>1, Reporting
    <3>2. pc \in [Flushers -> Places]  BY <1>1, Reporting
    <3>3. QED  BY <2>2, <3>1, <3>2
  <2>3. QED  BY <2>1, <2>2 DEF Report
<1>3. QED  BY <1>1, <1>2, Reporting, NothingCopied

LEMMA ReadPoints ==
  ASSUME PointsTypes, PointsTypes', OneByOne, Rounds', NEW c \in Flushers, Read(c)
  PROVE  OneByOne'
<1> DEFINE skip == AtMost(lead, Len(store))
<1>1. pc[c] = "read" /\ UNCHANGED <<queue, lead, acked, store, pushed, uploaded, left, misled>>
  BY DEF Read
<1>2. CASE RoundEnds(c)
  <2>1. \A x \in Flushers : pc'[x] \notin {"load", "write", "upload", "clear", "clear only"}
    BY <1>1, <1>2, Reporting, EndsQuietly
  <2>2. QED  BY <1>1, <2>1, Reporting, NothingCopied
<1>3. ASSUME NEW p \in {"clear only", "upload"}, pc' = [pc EXCEPT ![c] = p], round' = round,
             p = "clear only" => Len(store) <= lead,
             p = "upload" => taken'[c] = Drop(store, skip) /\ seen'[c] = store
      PROVE  OneByOne'
  <2>1. \A x \in Flushers : x # c => pc[x] \in {"idle", "wait"}  BY <1>1, Reporting
  <2>2. /\ pc'[c] = p /\ \A x \in Flushers : x # c => pc'[x] = "idle" \/ pc'[x] = "wait"
    BY <1>1, <1>3, <2>1, Reporting
  <2>3. p # "load" /\ p # "write" /\ p # "clear"  BY <1>3
  <2>4. \A x \in Flushers : pc'[x] \notin {"load", "write"}  BY <2>2, <2>3
  <2>5. Apart'  BY <1>1, <2>4, Reporting DEF Apart
  <2>6. Copies'  BY <1>1, <1>3, <2>2, <2>3 DEF Copies
  <2>7. Led'
    <3>1. \A x \in Flushers : pc'[x] # "write"  BY <2>4
    <3>2. QED  BY <1>1, <3>1, Reporting DEF Led
  <2>8. PointsKept'  BY <1>1, Reporting DEF PointsKept
  <2>9. ~misled' => Unsent' /\ UnsentAtRest'
    <3>1. Dropping(c)' = 0  BY <2>4 DEF Dropping
    <3>2. lead' \in Nat /\ lead' + 0 = lead'  BY <1>1, PlusZero, Reporting
    <3>3. lead' + Dropping(c)' = lead'  BY <3>1, <3>2, Zenon
    <3>4. round' = c /\ c # NoRound  BY <1>1, <1>3, Reporting
    <3>5. ~misled => \A i \in 1..Len(store) : i > lead => store[i] \notin acked
      BY <1>1, Reporting
    <3>6. QED  BY <1>1, <3>3, <3>4, <3>5 DEF Unsent, UnsentAtRest
  <2>10. QED  BY <2>5, <2>6, <2>7, <2>8, <2>9 DEF OneByOne
<1>4. CASE /\ Drop(store, skip) = <<>> /\ pc' = [pc EXCEPT ![c] = "clear only"] /\ round' = round
  <2>1. lead \in Nat /\ Len(store) \in Nat /\ store \in Seq(1..pushed)
    BY <1>1, Reporting DEF PointsTypes, Held
  <2>2. skip \in 0..Len(store)  BY <2>1 DEF AtMost
  <2>3. Len(Drop(store, skip)) = Len(store) - skip  BY <2>1, <2>2, DropProperties
  <2>4. Len(store) - skip = 0  BY <1>4, <2>3, EmptySeq
  <2>5. Len(store) <= lead  BY <2>1, <2>4 DEF AtMost
  <2>6. QED  BY <1>3, <1>4, <2>5
<1>5. CASE /\ pc' = [pc EXCEPT ![c] = "upload"] /\ round' = round
           /\ taken' = [taken EXCEPT ![c] = Drop(store, skip)] /\ seen' = [seen EXCEPT ![c] = store]
  <2>1. taken'[c] = Drop(store, skip) /\ seen'[c] = store
    BY <1>5 DEF PointsTypes, Held
  <2>2. QED  BY <1>3, <1>5, <2>1
<1>6. QED  BY <1>2, <1>4, <1>5 DEF Read

LEMMA UploadPoints ==
  ASSUME PointsTypes, PointsTypes', OneByOne, Rounds', NEW c \in Flushers, Upload(c)
  PROVE  OneByOne'
<1>1. pc[c] = "upload" /\ UNCHANGED <<queue, lead, taken, seen, store, pushed, left, misled>>
  BY DEF Upload
<1>2. uploaded \subseteq uploaded'  BY DEF Upload
<1>3. CASE RoundEnds(c) /\ UNCHANGED acked
  <2>1. \A x \in Flushers : pc'[x] \notin {"load", "write", "upload", "clear", "clear only"}
    BY <1>1, <1>3, Reporting, EndsQuietly
  <2>2. 1..pushed' \subseteq SeqRange(queue') \cup SeqRange(store') \cup uploaded' \cup left'
    BY <1>1, <1>2, Reporting
  <2>3. QED  BY <1>1, <1>3, <2>1, <2>2, Reporting, NothingCopied
<1>4. CASE /\ acked' = acked \cup SeqRange(taken[c]) /\ pc' = [pc EXCEPT ![c] = "clear"]
           /\ UNCHANGED round
  <2>1. \A x \in Flushers : x # c => pc[x] \in {"idle", "wait"}  BY <1>1, Reporting
  <2>2. pc'[c] = "clear" /\ \A x \in Flushers : x # c => pc'[x] = "idle" \/ pc'[x] = "wait"
    BY <1>1, <1>4, <2>1, Reporting
  <2>3. \A x \in Flushers : pc'[x] \notin {"load", "write"} /\ pc'[x] # "write" /\ pc'[x] # "clear only"
    BY <2>2
  <2>4. seen[c] = store /\ taken[c] = Drop(store, AtMost(lead, Len(store)))
    BY <1>1 DEF OneByOne, Copies
  <2>5. SeqRange(taken[c]) \subseteq SeqRange(store)
    <3>1. lead \in Nat /\ Len(store) \in Nat  BY <1>1, Reporting
    <3>2. store \in Seq(1..pushed)  BY DEF PointsTypes, Held
    <3>3. AtMost(lead, Len(store)) \in 0..Len(store)  BY <3>1 DEF AtMost
    <3>4. QED  BY <2>4, <3>2, <3>3, DropProperties
  <2>6. Apart'  BY <1>1, <1>4, <2>3, <2>5, Reporting DEF Apart
  <2>7. Copies'  BY <1>1, <1>4, <2>2, <2>4 DEF Copies
  <2>8. Led'  BY <1>1, <1>4, <2>3, Reporting DEF Led
  <2>9. PointsKept'  BY <1>1, <1>2, Reporting DEF PointsKept
  <2>10. ~misled' => Unsent' /\ UnsentAtRest'
    <3>1. round' = c /\ c # NoRound  BY <1>1, <1>4, Reporting
    <3>2. QED  BY <2>2, <3>1 DEF Unsent, UnsentAtRest
  <2>11. QED  BY <2>6, <2>7, <2>8, <2>9, <2>10 DEF OneByOne
<1>5. QED  BY <1>3, <1>4 DEF Upload

LEMMA ClearPoints ==
  ASSUME PointsTypes, PointsTypes', OneByOne, Rounds', NEW c \in Flushers, Clear(c)
  PROVE  OneByOne'
<1> DEFINE skip == AtMost(lead, Len(store))
<1>1. pc[c] = "clear" /\ RoundEnds(c) /\ UNCHANGED <<queue, acked, pushed, uploaded, left, misled>>
  BY DEF Clear
<1>2. \A x \in Flushers : pc'[x] \notin {"load", "write", "upload", "clear", "clear only"}
  BY <1>1, Reporting, EndsQuietly
<1>3. seen[c] = store /\ taken[c] = Drop(store, skip) /\ SeqRange(taken[c]) \subseteq acked
  BY <1>1 DEF OneByOne, Copies
<1>4. SeqRange(store) \subseteq acked
  <2>1. lead \in Nat /\ Len(store) \in Nat  BY <1>1, Reporting
  <2>2. store \in Seq(1..pushed)  BY DEF PointsTypes, Held
  <2>3. skip \in 0..Len(store) /\ skip <= lead  BY <2>1 DEF AtMost
  <2>4. \A i \in 1..skip : store[i] \in acked
    <3>1. \A i \in 1..skip : i \in 1..lead  BY <2>1, <2>3
    <3>2. \A i \in 1..lead : store[i] \in acked  BY <1>1, Reporting
    <3>3. QED  BY <3>1, <3>2
  <2>5. ASSUME NEW x \in SeqRange(store) PROVE x \in acked
    <3>1. x \in SeqRange(Drop(store, skip)) \/ \E i \in 1..skip : store[i] = x
      BY <2>2, <2>3, DropRange
    <3>2. QED  BY <1>3, <2>4, <3>1
  <2>6. QED  BY <2>5
<1>5. acked \subseteq uploaded  BY DEF PointsTypes, Told
<1>6. 1..pushed' \subseteq SeqRange(queue') \cup SeqRange(store') \cup uploaded' \cup left'
  BY <1>1, <1>4, <1>5, Reporting
<1>7. SeqRange(queue') \cap (SeqRange(store') \cup acked') = {}
  <2>1. store' = <<>> \/ store' = store  BY DEF Clear
  <2>2. SeqRange(store') \subseteq SeqRange(store)  BY <2>1, EmptySeq DEF SeqRange
  <2>3. SeqRange(queue) \cap (SeqRange(store) \cup acked) = {}  BY <1>1, Reporting
  <2>4. QED  BY <1>1, <2>2, <2>3
<1>8. /\ lead' <= Len(store') /\ (\A i \in 1..lead' : store'[i] \in acked')
      /\ \A i \in 1..Len(store') : i > lead' => store'[i] \notin acked'
  <2>1. CASE store' = <<>> /\ lead' = 0
    <3>1. Len(store') = 0  BY <2>1, EmptySeq
    <3>2. QED  BY <2>1, <3>1
  <2>2. CASE store' = store /\ lead' = Len(seen[c])
    <3>1. lead' = Len(store) /\ Len(store) \in Nat  BY <1>1, <1>3, <2>2, Reporting
    <3>2. \A i \in 1..Len(store) : store[i] \in acked  BY <1>4 DEF SeqRange
    <3>3. QED  BY <1>1, <2>2, <3>1, <3>2
  <2>3. QED  BY <2>1, <2>2 DEF Clear
<1>9. QED  BY <1>1, <1>2, <1>6, <1>7, <1>8, NothingCopied

LEMMA ClearOnlyPoints ==
  ASSUME PointsTypes, PointsTypes', OneByOne, Rounds', NEW c \in Flushers, ClearOnly(c)
  PROVE  OneByOne'
<1>1. /\ pc[c] = "clear only" /\ RoundEnds(c)
      /\ UNCHANGED <<queue, acked, pushed, uploaded, left, misled>>
  BY DEF ClearOnly
<1>2. \A x \in Flushers : pc'[x] \notin {"load", "write", "upload", "clear", "clear only"}
  BY <1>1, Reporting, EndsQuietly
<1>3. Len(store) <= lead  BY <1>1 DEF OneByOne, Copies
<1>4. acked \subseteq uploaded  BY DEF PointsTypes, Told
<1>5. CASE store' = <<>> /\ lead' = 0
  <2>1. Len(store') = 0 /\ SeqRange(store') = {}  BY <1>5, EmptySeq DEF SeqRange
  <2>2. SeqRange(store) \subseteq acked
    <3>1. /\ lead \in Nat /\ Len(store) \in Nat /\ lead <= Len(store)
          /\ \A i \in 1..lead : store[i] \in acked
      BY <1>1, Reporting
    <3>2. lead = Len(store)  BY <1>3, <3>1
    <3>3. QED  BY <3>1, <3>2 DEF SeqRange
  <2>3. 1..pushed' \subseteq SeqRange(queue') \cup SeqRange(store') \cup uploaded' \cup left'
    BY <1>1, <1>4, <2>2, Reporting
  <2>4. SeqRange(queue') \cap (SeqRange(store') \cup acked') = {}
    BY <1>1, <2>1, Reporting
  <2>5. /\ lead' <= Len(store') /\ (\A i \in 1..lead' : store'[i] \in acked')
        /\ \A i \in 1..Len(store') : i > lead' => store'[i] \notin acked'
    BY <1>5, <2>1
  <2>6. QED  BY <1>2, <2>3, <2>4, <2>5, NothingCopied
<1>6. CASE UNCHANGED <<store, lead>>
  BY <1>1, <1>2, <1>6, Reporting, NothingCopied
<1>7. QED  BY <1>5, <1>6 DEF ClearOnly

\* What a killed process had in memory is counted as left.
LEMMA KillPoints ==
  ASSUME PointsTypes, PointsTypes', OneByOne, Rounds', Kill
  PROVE  OneByOne'
<1>1. /\ queue' = <<>> /\ lead' = 0 /\ acked' = {} /\ UNCHANGED <<store, pushed, uploaded>>
      /\ left' = left \cup ((SeqRange(queue) \cup InFlush) \ SeqRange(store))
      /\ \A x \in Flushers : pc'[x] = "idle"
  BY DEF Kill
<1>2. SeqRange(queue') = {}  BY <1>1, EmptySeq DEF SeqRange
<1>3. Len(store) \in Nat  BY LenProperties DEF PointsTypes, Held
<1>4. 1..pushed' \subseteq SeqRange(queue') \cup SeqRange(store') \cup uploaded' \cup left'
  BY <1>1, <1>2 DEF OneByOne, PointsKept
<1>5. lead' <= Len(store') /\ (\A i \in 1..lead' : store'[i] \in acked')
  BY <1>1, <1>3
<1>6. \A x \in Flushers : pc'[x] \notin {"load", "write", "upload", "clear", "clear only"}
  BY <1>1
<1>7. SeqRange(queue') \cap (SeqRange(store') \cup acked') = {}  BY <1>2
<1>8. QED  BY <1>1, <1>4, <1>5, <1>6, <1>7, NothingCopied

LEMMA PointsInvStep == PointsInv /\ [PointsNext]_pointsVars => PointsInv'
<1>1. SUFFICES ASSUME PointsInv, [PointsNext]_pointsVars PROVE PointsInv'  OBVIOUS
<1>2. PointsTypes /\ PointsTypes'  BY <1>1, TypesStep DEF PointsInv
<1>3. SUFFICES ASSUME ~crowded' PROVE OneByOne'  BY <1>2 DEF PointsInv
<1>4. ~crowded  BY <1>1, <1>2, <1>3, CrowdedStays
<1>5. OneByOne  BY <1>1, <1>4 DEF PointsInv
<1>6. Rounds'  BY <1>1, <1>2, <1>3, <1>5, RoundsStep DEF OneByOne
<1>7. CASE UNCHANGED pointsVars
  <2>1. UNCHANGED <<queue, lead, pc, taken, seen, acked, round, store, pushed, uploaded, left, misled>>
    BY <1>7 DEF pointsVars, memVars
  <2>2. Apart'  BY <1>5, <2>1 DEF OneByOne, Apart
  <2>3. Copies'  BY <1>5, <2>1 DEF OneByOne, Copies
  <2>4. Led'  BY <1>5, <2>1 DEF OneByOne, Led, Dropping
  <2>5. PointsKept'  BY <1>5, <2>1 DEF OneByOne, PointsKept, InFlush
  <2>6. ~misled' => Unsent' /\ UnsentAtRest'
    BY <1>5, <2>1 DEF OneByOne, Unsent, UnsentAtRest, Dropping
  <2>7. QED  BY <1>6, <2>2, <2>3, <2>4, <2>5, <2>6 DEF OneByOne
<1>8. CASE PointsNext
  BY <1>2, <1>5, <1>6, <1>8, KillPoints, EnterPoints, ResumePoints, LoadPoints, WritePoints,
     ReportPoints, ReadPoints, UploadPoints, ClearPoints, ClearOnlyPoints DEF PointsNext, Continue
<1>9. QED  BY <1>1, <1>7, <1>8

\* The three promises follow.
LEMMA PointsInvImplies == PointsInv => PointsTypeOK /\ NotSentAgain /\ NothingLost
<1>1. SUFFICES ASSUME PointsInv PROVE PointsTypeOK /\ NotSentAgain /\ NothingLost  OBVIOUS
<1>2. PointsTypeOK
  <2>1. PointsTypes  BY <1>1 DEF PointsInv
  <2>2. pushed \in Nat /\ 1..pushed \subseteq 1..MaxPoints
    BY <2>1, StayPointsAssumption DEF PointsTypes, Held
  <2>3. \A s \in Seq(1..pushed) : s \in Seq(1..MaxPoints)  BY <2>2, SeqMonotonic
  <2>4. /\ queue \in Seq(1..MaxPoints) /\ store \in Seq(1..MaxPoints)
        /\ taken \in [Flushers -> Seq(1..MaxPoints)] /\ seen \in [Flushers -> Seq(1..MaxPoints)]
    BY <2>1, <2>3 DEF PointsTypes, Held
  <2>5. QED  BY <2>1, <2>4 DEF PointsTypes, Held, Control, Told, PointsTypeOK
<1>3. NothingLost  BY <1>1 DEF PointsInv, OneByOne, NothingLost
<1>4. NotSentAgain
  <2>1. SUFFICES ASSUME ~misled, ~crowded, NEW c \in Flushers, pc[c] = "upload",
                        NEW x \in SeqRange(taken[c])
                 PROVE  x \notin acked
    BY DEF NotSentAgain, SentAgain
  <2>2. PointsTypes /\ OneByOne  BY <1>1, <2>1 DEF PointsInv
  <2>3. /\ lead \in Nat /\ Len(store) \in Nat /\ lead <= Len(store) /\ store \in Seq(1..pushed)
        /\ \A i \in 1..Len(store) : i > lead => store[i] \notin acked
    BY <2>1, <2>2, Reporting DEF PointsTypes, Held
  <2>4. taken[c] = Drop(store, lead)
    <3>1. taken[c] = Drop(store, AtMost(lead, Len(store)))  BY <2>1, <2>2 DEF OneByOne, Copies
    <3>2. AtMost(lead, Len(store)) = lead  BY <2>3 DEF AtMost
    <3>3. QED  BY <3>1, <3>2
  <2>5. /\ Len(taken[c]) = Len(store) - lead
        /\ \A i \in 1..(Len(store) - lead) : taken[c][i] = store[i + lead]
    <3>1. lead \in 0..Len(store)  BY <2>3
    <3>2. /\ Len(Drop(store, lead)) = Len(store) - lead
          /\ \A i \in 1..(Len(store) - lead) : Drop(store, lead)[i] = store[i + lead]
      BY <2>3, <3>1, DropProperties
    <3>3. QED  BY <2>4, <3>2
  <2>6. PICK i \in 1..(Len(store) - lead) : x = store[i + lead]
    BY <2>1, <2>5 DEF SeqRange
  <2>7. i + lead \in 1..Len(store) /\ i + lead > lead  BY <2>3, <2>6
  <2>8. QED  BY <2>3, <2>6, <2>7
<1>5. QED  BY <1>2, <1>3, <1>4

-----------------------------------------------------------------------------
(***************************************************************************)
(* The log of operations                                                   *)
(***************************************************************************)
Ascending(s) == \A i, j \in 1..Len(s) : i < j => s[i] < s[j]
Queued(s) == s \in Seq(1..logged) /\ Len(s) <= MaxQueue /\ Ascending(s)

\* What a report under way has read still covers every event that it may
\* overwrite.
ReadCovers ==
  report # <<>> =>
    \A i \in 1..logged : i \in SeqRange(report) \cup reported \cup evicted \cup overwritten \cup overtaken

OpsLogInv ==
  /\ Queued(log) /\ Queued(report)
  /\ logged \in 0..MaxEvents /\ launches \in 0..MaxLaunches
  /\ reported \subseteq 1..logged /\ evicted \subseteq 1..logged /\ overwritten \subseteq 1..logged
  /\ EventsAreKept /\ ReadCovers

\* The two modules name the elements of a sequence each in its own way.
LEMMA SameElements == ASSUME NEW S, NEW s \in Seq(S) PROVE Elements(s) = SeqRange(s)
BY LenProperties DEF Elements, SeqRange

\* The rest of a queue is a queue, and with what was dropped it is all there
\* was.
LEMMA DropQueued ==
  ASSUME NEW L \in Nat, NEW s \in Seq(1..L), Ascending(s), NEW n \in 0..Len(s)
  PROVE  /\ Drop(s, n) \in Seq(1..L) /\ Ascending(Drop(s, n)) /\ Len(Drop(s, n)) = Len(s) - n
         /\ SeqRange(Drop(s, n)) \subseteq SeqRange(s)
         /\ \A x \in SeqRange(s) : x \in SeqRange(Drop(s, n)) \/ \E i \in 1..n : s[i] = x
<1>1. /\ Drop(s, n) \in Seq(1..L) /\ Len(Drop(s, n)) = Len(s) - n
      /\ \A i \in 1..(Len(s) - n) : Drop(s, n)[i] = s[i + n]
      /\ SeqRange(Drop(s, n)) \subseteq SeqRange(s)
  BY DropProperties
<1>2. Len(s) \in Nat  BY LenProperties
<1>3. Ascending(Drop(s, n))
  <2>1. SUFFICES ASSUME NEW i \in 1..Len(Drop(s, n)), NEW j \in 1..Len(Drop(s, n)), i < j
                 PROVE  Drop(s, n)[i] < Drop(s, n)[j]
    BY DEF Ascending
  <2>2. i \in 1..(Len(s) - n) /\ j \in 1..(Len(s) - n)  BY <1>1, <2>1
  <2>3. i + n \in 1..Len(s) /\ j + n \in 1..Len(s) /\ i + n < j + n  BY <1>2, <2>1, <2>2
  <2>4. s[i + n] < s[j + n]  BY <2>3 DEF Ascending
  <2>5. QED  BY <1>1, <2>2, <2>4
<1>4. \A x \in SeqRange(s) : x \in SeqRange(Drop(s, n)) \/ \E i \in 1..n : s[i] = x  BY DropRange
<1>5. QED  BY <1>1, <1>3, <1>4

\* A report tells of its batch and leaves the rest.
LEMMA BatchAndRest ==
  ASSUME NEW L \in Nat, NEW s \in Seq(1..L), Ascending(s), Len(s) <= MaxQueue
  PROVE  /\ AfterBatch(s) \in Seq(1..L) /\ Ascending(AfterBatch(s)) /\ Len(AfterBatch(s)) <= MaxQueue
         /\ Elements(Batch(s)) \subseteq 1..L
         /\ SeqRange(s) \subseteq SeqRange(AfterBatch(s)) \cup Elements(Batch(s))
<1> DEFINE n == IF MaxBatch < Len(s) THEN MaxBatch ELSE Len(s)
<1>1. Len(s) \in Nat /\ MaxBatch \in Nat /\ MaxQueue \in Nat  BY LenProperties, OpsLogAssumption
<1>2. n \in 0..Len(s) /\ n \in Nat  BY <1>1
<1>3. /\ Batch(s) \in Seq(1..L) /\ Len(Batch(s)) = n /\ \A i \in 1..n : Batch(s)[i] = s[i]
  <2>1. \A i \in 1..n : s[i] \in 1..L  BY <1>1, <1>2, ElementOfSeq
  <2>2. /\ SubSeq(s, 1, n) \in Seq(1..L)
        /\ Len(SubSeq(s, 1, n)) = IF 1 <= n THEN n - 1 + 1 ELSE 0
        /\ \A i \in 1..(n - 1 + 1) : SubSeq(s, 1, n)[i] = s[1 + i - 1]
    <3>1. 1 \in Int /\ n \in Int  BY <1>2
    <3> HIDE DEF n
    <3>2. QED  BY <2>1, <3>1, SubSeqProperties
  <2>3. Batch(s) = SubSeq(s, 1, n)  BY DEF Batch
  <2> HIDE DEF n
  <2>4. Len(Batch(s)) = n  BY <1>2, <2>2, <2>3
  <2>5. \A i \in 1..n : Batch(s)[i] = s[i]  BY <1>2, <2>2, <2>3
  <2>6. QED  BY <2>2, <2>3, <2>4, <2>5
<1>4. AfterBatch(s) = Drop(s, n)  BY <1>3 DEF AfterBatch, Drop
<1>5. Elements(Batch(s)) = SeqRange(Batch(s)) /\ SeqRange(Batch(s)) \subseteq 1..L
  BY <1>3, SameElements, RangeProperties
<1> HIDE DEF n
<1>6. \A i \in 1..n : s[i] \in Elements(Batch(s))  BY <1>3, <1>5 DEF SeqRange
<1>7. /\ AfterBatch(s) \in Seq(1..L) /\ Ascending(AfterBatch(s))
      /\ Len(AfterBatch(s)) = Len(s) - n
      /\ \A x \in SeqRange(s) : x \in SeqRange(AfterBatch(s)) \/ \E i \in 1..n : s[i] = x
  BY <1>2, <1>4, DropQueued
<1>8. Len(AfterBatch(s)) <= MaxQueue  BY <1>1, <1>2, <1>7
<1>9. SeqRange(s) \subseteq SeqRange(AfterBatch(s)) \cup Elements(Batch(s))  BY <1>6, <1>7
<1>10. QED  BY <1>5, <1>7, <1>8, <1>9

LEMMA OpsLogInvInit == OpsLogInit => OpsLogInv
<1>1. SUFFICES ASSUME OpsLogInit PROVE OpsLogInv  OBVIOUS
<1>2. log = <<>> /\ report = <<>> /\ logged = 0 /\ launches = 0 /\ reported = {} /\ evicted = {} /\ overwritten = {}
  BY <1>1 DEF OpsLogInit
<1>3. Len(<<>>) = 0 /\ <<>> \in Seq(1..logged)  BY EmptySeq
<1>4. Queued(log) /\ Queued(report)  BY <1>2, <1>3, OpsLogAssumption DEF Queued, Ascending
<1>5. EventsAreKept /\ ReadCovers  BY <1>2 DEF EventsAreKept, ReadCovers
<1>6. QED  BY <1>2, <1>4, <1>5, OpsLogAssumption DEF OpsLogInv

\* An event is logged behind the ones that happened before it.
LEMMA AppendQueued ==
  ASSUME NEW L \in Nat, NEW s \in Seq(1..L), Ascending(s)
  PROVE  /\ Append(s, L + 1) \in Seq(1..(L + 1)) /\ Ascending(Append(s, L + 1))
         /\ Len(Append(s, L + 1)) = Len(s) + 1
         /\ SeqRange(Append(s, L + 1)) = SeqRange(s) \cup {L + 1}
<1>1. 1..L \subseteq 1..(L + 1) /\ L + 1 \in 1..(L + 1)  OBVIOUS
<1>2. s \in Seq(1..(L + 1))  BY <1>1, SeqMonotonic
<1>3. /\ Append(s, L + 1) \in Seq(1..(L + 1)) /\ Len(Append(s, L + 1)) = Len(s) + 1
      /\ \A i \in 1..Len(s) : Append(s, L + 1)[i] = s[i]
      /\ Append(s, L + 1)[Len(s) + 1] = L + 1
  BY <1>1, <1>2, AppendProperties
<1>4. Len(s) \in Nat /\ \A i \in 1..Len(s) : s[i] \in 1..L  BY LenProperties, ElementOfSeq
<1>5. Ascending(Append(s, L + 1))
  <2>1. SUFFICES ASSUME NEW i \in 1..(Len(s) + 1), NEW j \in 1..(Len(s) + 1), i < j
                 PROVE  Append(s, L + 1)[i] < Append(s, L + 1)[j]
    BY <1>3 DEF Ascending
  <2>2. i \in 1..Len(s) /\ Append(s, L + 1)[i] = s[i] /\ s[i] \in 1..L  BY <1>3, <1>4, <2>1
  <2>3. CASE j \in 1..Len(s)  BY <1>3, <2>1, <2>2, <2>3 DEF Ascending
  <2>4. CASE j = Len(s) + 1  BY <1>3, <2>2, <2>4
  <2>5. Len(s) \in Nat  BY <1>4
  <2>6. j \in 1..Len(s) \/ j = Len(s) + 1  BY <2>1, <2>5
  <2>7. QED  BY <2>3, <2>4, <2>6
<1>6. SeqRange(Append(s, L + 1)) = SeqRange(s) \cup {L + 1}  BY <1>1, <1>2, RangeProperties
<1>7. QED  BY <1>3, <1>5, <1>6

LEMMA LogEventKeeps == ASSUME OpsLogInv, LogEvent PROVE OpsLogInv'
<1> DEFINE all == Append(log, logged')
<1>1. /\ logged' = logged + 1 /\ logged \in Nat /\ logged' \in 0..MaxEvents
      /\ report' = report /\ reported' = reported /\ launches' = launches
  BY OpsLogAssumption DEF LogEvent, OpsLogInv
<1>2. \/ /\ log' = Recent(all) /\ evicted' = evicted \cup {all[i] : i \in 1..(Len(all) - MaxQueue)}
         /\ overwritten' = overwritten
      \/ log' = log /\ evicted' = evicted \cup {logged'} /\ overwritten' = overwritten
      \/ log' = <<logged'>> /\ evicted' = evicted /\ overwritten' = overwritten \cup Elements(log)
  BY DEF LogEvent
<1>3. overtaken' = IF report = <<>> THEN overtaken ELSE overtaken \cup {logged'}
  BY DEF LogEvent
<1>4. \A s \in Seq(1..logged) : s \in Seq(1..logged')
  <2>1. 1..logged \subseteq 1..logged'  BY <1>1
  <2>2. QED  BY <2>1, SeqMonotonic
<1>5. Queued(report)'  BY <1>1, <1>4 DEF OpsLogInv, Queued
<1>6. /\ all \in Seq(1..logged') /\ Ascending(all) /\ Len(all) = Len(log) + 1
      /\ SeqRange(all) = SeqRange(log) \cup {logged'}
  BY <1>1, AppendQueued DEF OpsLogInv, Queued
<1>7. log \in Seq(1..logged) /\ Len(log) \in Nat /\ Len(log) <= MaxQueue /\ MaxQueue \in Nat
  BY LenProperties, OpsLogAssumption DEF OpsLogInv, Queued
<1> HIDE DEF all
\* What the queue and the dropped events are after the step.
<1>8. /\ Queued(log)' /\ evicted \subseteq evicted' /\ evicted' \subseteq 1..logged'
      /\ overwritten \subseteq overwritten' /\ overwritten' \subseteq 1..logged'
      /\ SeqRange(log) \cup {logged'} \subseteq SeqRange(log') \cup evicted' \cup overwritten'
  <2>1. /\ evicted \subseteq 1..logged' /\ overwritten \subseteq 1..logged' /\ logged' \in 1..logged'
    BY <1>1 DEF OpsLogInv
  <2>2. CASE log' = <<logged'>> /\ evicted' = evicted /\ overwritten' = overwritten \cup Elements(log)
    <3>1. SeqRange(log) = Elements(log) /\ Elements(log) \subseteq 1..logged'
      <4>1. SeqRange(log) = Elements(log)  BY <1>7, SameElements
      <4>2. SeqRange(log) \subseteq 1..logged  BY <1>7, RangeProperties
      <4>3. 1..logged \subseteq 1..logged'  BY <1>1
      <4>4. QED  BY <4>1, <4>2, <4>3
    <3>2. Queued(log)' /\ SeqRange(log') = {logged'}
      <4> DEFINE l == logged'
      <4>1. l \in 1..l /\ log' = <<l>>  BY <2>1, <2>2
      <4> HIDE DEF l
      <4>2. <<l>> \in Seq(1..l) /\ Len(<<l>>) = 1 /\ <<l>>[1] = l  BY <4>1
      <4>3. Ascending(<<l>>) /\ SeqRange(<<l>>) = {l}  BY <4>2 DEF Ascending, SeqRange
      <4>4. 1 <= MaxQueue  BY OpsLogAssumption
      <4>5. log' \in Seq(1..l) /\ Ascending(log') /\ Len(log') <= MaxQueue /\ SeqRange(log') = {l}
        BY <4>1, <4>2, <4>3, <4>4
      <4>6. QED  BY <4>5 DEF Queued, l
    <3>3. QED  BY <2>1, <2>2, <3>1, <3>2
  <2>3. CASE log' = log /\ evicted' = evicted \cup {logged'} /\ overwritten' = overwritten
    <3>1. Queued(log)'  BY <1>1, <1>4, <2>3 DEF OpsLogInv, Queued
    <3>2. QED  BY <2>1, <2>3, <3>1
  <2>4. CASE /\ log' = Recent(all) /\ evicted' = evicted \cup {all[i] : i \in 1..(Len(all) - MaxQueue)}
             /\ overwritten' = overwritten
    <3>1. CASE Len(all) <= MaxQueue
      <4>1. log' = all  BY <1>6, <1>7, <2>4, <3>1 DEF Recent
      <4>2. Queued(log)'  BY <1>6, <3>1, <4>1 DEF Queued
      <4>3. \A i \in 1..(Len(all) - MaxQueue) : FALSE  BY <1>6, <1>7, <3>1
      <4>4. evicted' = evicted  BY <2>4, <4>3
      <4>5. overwritten' = overwritten /\ SeqRange(log) \cup {logged'} = SeqRange(log')
        BY <1>6, <2>4, <4>1
      <4>6. QED  BY <2>1, <4>2, <4>4, <4>5
    <3>2. CASE Len(all) > MaxQueue
      <4>1. Len(all) - MaxQueue \in 0..Len(all) /\ logged' \in Nat  BY <1>1, <1>6, <1>7, <3>2
      <4>2. log' = Drop(all, Len(all) - MaxQueue)  BY <2>4, <3>2 DEF Recent, Drop
      <4>3. /\ log' \in Seq(1..logged') /\ Ascending(log') /\ Len(log') = Len(all) - (Len(all) - MaxQueue)
            /\ \A x \in SeqRange(all) :
                 x \in SeqRange(log') \/ \E i \in 1..(Len(all) - MaxQueue) : all[i] = x
        <5> DEFINE n == Len(all) - MaxQueue
        <5>1. n \in 0..Len(all)  BY <4>1
        <5> HIDE DEF n
        <5>2. /\ Drop(all, n) \in Seq(1..logged') /\ Ascending(Drop(all, n)) /\ Len(Drop(all, n)) = Len(all) - n
              /\ \A x \in SeqRange(all) : x \in SeqRange(Drop(all, n)) \/ \E i \in 1..n : all[i] = x
          <6> DEFINE L == logged'
          <6>1. L \in Nat /\ all \in Seq(1..L) /\ Ascending(all)  BY <1>6, <4>1
          <6> HIDE DEF L
          <6>2. /\ Drop(all, n) \in Seq(1..L) /\ Ascending(Drop(all, n)) /\ Len(Drop(all, n)) = Len(all) - n
                /\ \A x \in SeqRange(all) : x \in SeqRange(Drop(all, n)) \/ \E i \in 1..n : all[i] = x
            BY <5>1, <6>1, DropQueued
          <6>3. QED  BY <6>2 DEF L
        <5>3. log' = Drop(all, n)  BY <4>2 DEF n
        <5>4. QED  BY <5>2, <5>3 DEF n
      <4>4. Queued(log)'  BY <1>6, <1>7, <4>3 DEF Queued
      <4>5. \A i \in 1..(Len(all) - MaxQueue) : all[i] \in 1..logged'
        <5>1. \A i \in 1..(Len(all) - MaxQueue) : i \in 1..Len(all)  BY <1>6, <1>7
        <5>2. QED  BY <1>6, <5>1, ElementOfSeq
      <4>6. QED  BY <1>6, <2>1, <2>4, <4>3, <4>4, <4>5
    <3>3. QED  BY <1>6, <1>7, <3>1, <3>2
  <2>5. QED  BY <1>2, <2>2, <2>3, <2>4
<1>9. \A i \in 1..logged' : i \in 1..logged \/ i = logged'  BY <1>1
<1>10. EventsAreKept'
  <2>1. \A i \in 1..logged : i \in SeqRange(log) \cup reported \cup evicted \cup overwritten \cup overtaken
    BY <1>7, SameElements DEF OpsLogInv, EventsAreKept
  <2>2. Elements(log') = SeqRange(log')  BY <1>8, SameElements DEF Queued
  <2>3. QED  BY <1>1, <1>3, <1>8, <1>9, <2>1, <2>2 DEF EventsAreKept
<1>11. ReadCovers'  BY <1>1, <1>3, <1>8, <1>9 DEF OpsLogInv, ReadCovers
<1>12. reported' \subseteq 1..logged'  BY <1>1 DEF OpsLogInv
<1>13. launches' \in 0..MaxLaunches  BY <1>1 DEF OpsLogInv
<1>14. QED  BY <1>1, <1>5, <1>8, <1>10, <1>11, <1>12, <1>13 DEF OpsLogInv

LEMMA LaunchKeeps == ASSUME OpsLogInv, LaunchReports PROVE OpsLogInv'
<1>1. /\ launches' \in 0..MaxLaunches /\ (report' = log \/ report' = <<>>)
      /\ UNCHANGED <<log, logged, reported, evicted, overtaken, overwritten>>
  BY OpsLogAssumption DEF LaunchReports, OpsLogInv
<1>2. Queued(log)'  BY <1>1 DEF OpsLogInv, Queued
<1>3. EventsAreKept'  BY <1>1 DEF OpsLogInv, EventsAreKept
<1>4. Elements(log) = SeqRange(log)  BY SameElements DEF OpsLogInv, Queued
<1>5. CASE report' = log
  <2>1. Queued(report)'  BY <1>1, <1>5 DEF OpsLogInv, Queued
  <2>2. ReadCovers'  BY <1>1, <1>4, <1>5 DEF OpsLogInv, EventsAreKept, ReadCovers
  <2>3. QED  BY <1>1, <1>2, <1>3, <2>1, <2>2 DEF OpsLogInv
<1>6. CASE report' = <<>>
  <2>1. Len(<<>>) = 0 /\ <<>> \in Seq(1..logged')  BY EmptySeq
  <2>2. Queued(report)' /\ ReadCovers'
    BY <1>6, <2>1, OpsLogAssumption DEF Queued, Ascending, ReadCovers
  <2>3. QED  BY <1>1, <1>2, <1>3, <2>2 DEF OpsLogInv
<1>7. QED  BY <1>1, <1>5, <1>6

LEMMA AnswerKeeps == ASSUME OpsLogInv, ReportAnswered PROVE OpsLogInv'
<1>1. /\ report # <<>> /\ report' = <<>> /\ UNCHANGED <<logged, evicted, overtaken, overwritten, launches>>
  BY DEF ReportAnswered
<1>2. Queued(report)' /\ ReadCovers'
  <2>1. Len(<<>>) = 0 /\ <<>> \in Seq(1..logged')  BY EmptySeq
  <2>2. QED  BY <1>1, <2>1, OpsLogAssumption DEF Queued, Ascending, ReadCovers
<1>3. CASE UNCHANGED <<log, reported>>
  <2>1. Queued(log)'  BY <1>1, <1>3 DEF OpsLogInv, Queued
  <2>2. EventsAreKept'  BY <1>1, <1>3 DEF OpsLogInv, EventsAreKept
  <2>3. QED  BY <1>1, <1>2, <1>3, <2>1, <2>2 DEF OpsLogInv
<1>4. CASE reported' = reported \cup Elements(Batch(report)) /\ log' \in {AfterBatch(report), log}
  <2>1. /\ AfterBatch(report) \in Seq(1..logged) /\ Ascending(AfterBatch(report))
        /\ Len(AfterBatch(report)) <= MaxQueue /\ Elements(Batch(report)) \subseteq 1..logged
        /\ SeqRange(report) \subseteq SeqRange(AfterBatch(report)) \cup Elements(Batch(report))
    <3>1. logged \in Nat  BY OpsLogAssumption DEF OpsLogInv
    <3>2. QED  BY <3>1, BatchAndRest DEF OpsLogInv, Queued
  <2>2. Queued(log)'  BY <1>1, <1>4, <2>1 DEF OpsLogInv, Queued
  <2>3. reported' \subseteq 1..logged'  BY <1>1, <1>4, <2>1 DEF OpsLogInv
  <2>4. EventsAreKept'
    <3>1. CASE log' = AfterBatch(report)
      <4>1. Elements(log') = SeqRange(log')  BY <2>1, <3>1, SameElements
      <4>2. \A i \in 1..logged : i \in SeqRange(report) \cup reported \cup evicted \cup overwritten \cup overtaken
        BY <1>1 DEF OpsLogInv, ReadCovers
      <4>3. QED  BY <1>1, <1>4, <2>1, <3>1, <4>1, <4>2 DEF EventsAreKept
    <3>2. CASE log' = log  BY <1>1, <1>4, <3>2 DEF OpsLogInv, EventsAreKept
    <3>3. QED  BY <1>4, <3>1, <3>2
  <2>5. QED  BY <1>1, <1>2, <2>2, <2>3, <2>4 DEF OpsLogInv
<1>5. QED  BY <1>3, <1>4 DEF ReportAnswered

LEMMA OpsLogInvStep == OpsLogInv /\ [OpsLogNext]_opsLogVars => OpsLogInv'
<1>1. SUFFICES ASSUME OpsLogInv, [OpsLogNext]_opsLogVars PROVE OpsLogInv'  OBVIOUS
<1>2. CASE UNCHANGED opsLogVars
  BY <1>1, <1>2 DEF opsLogVars, OpsLogInv, Queued, EventsAreKept, ReadCovers
<1>3. CASE OpsLogNext
  BY <1>1, <1>3, LogEventKeeps, LaunchKeeps, AnswerKeeps DEF OpsLogNext
<1>4. QED  BY <1>1, <1>2, <1>3

LEMMA OpsLogInvImplies == OpsLogInv => OpsLogTypeOK /\ EventsAreKept /\ LogInOrder
<1>1. SUFFICES ASSUME OpsLogInv PROVE OpsLogTypeOK /\ EventsAreKept /\ LogInOrder  OBVIOUS
<1>2. /\ Elements(log) = SeqRange(log) /\ Elements(report) = SeqRange(report)
      /\ SeqRange(log) \subseteq 1..logged /\ SeqRange(report) \subseteq 1..logged
  BY <1>1, SameElements, RangeProperties DEF OpsLogInv, Queued
<1>3. OpsLogTypeOK  BY <1>1, <1>2 DEF OpsLogInv, Queued, OpsLogTypeOK
<1>4. DOMAIN log = 1..Len(log)  BY <1>1, LenProperties DEF OpsLogInv, Queued
<1>5. LogInOrder  BY <1>1, <1>4 DEF OpsLogInv, Queued, Ascending, LogInOrder
<1>6. QED  BY <1>1, <1>3, <1>5 DEF OpsLogInv

-----------------------------------------------------------------------------
(***************************************************************************)
(* Logging in                                                              *)
(***************************************************************************)
Flying(c) == flight[c].at # "none"

Logins ==
  [pc : {"idle", "check", "profile", "wait"}, on : Callers \cup {NoOne}, left : BOOLEAN,
   well : BOOLEAN, sent : Nat, fine : BOOLEAN]
Voyages == [at : {"none", "wx", "post", "claim"}, inviter : BOOLEAN]

LoginControl ==
  call \in [Callers -> Logins] /\ flight \in [Callers -> Voyages] /\ cur \in Callers \cup {NoOne}

LoginData ==
  /\ last \in 1..MaxSessions /\ session \in 0..last /\ live \subseteq 1..last /\ inUse \in 0..last
  /\ \A c \in Callers : call[c].sent \in 0..last
  /\ scene \in {"none", "resolving", "known", "failed"} /\ pending \in BOOLEAN
  /\ account \in {"none", "new", "claimed", "old"} /\ invited \in BOOLEAN
  /\ lapses \in Nat

\* Who waits waits for a flight under way, and who began one waits for it.
Flights ==
  /\ cur # NoOne => Flying(cur)
  /\ \A c \in Callers : /\ call[c].pc = "wait" => call[c].on \in Callers /\ Flying(call[c].on)
                        /\ call[c].pc # "wait" => call[c].on = NoOne
                        /\ Flying(c) => call[c].on = c

\* The flight that is shared is the only one.
OneFlight == "crossed" \notin known => \A c \in Callers : Flying(c) => cur = c

\* What has been resolved goes with the login that will make the account.
Inviting ==
  scene = "known" /\ "missed" \notin known =>
    /\ account = "none" =>
         pending = TRUE /\ \A c \in Callers : flight[c].at = "post" => flight[c].inviter = TRUE
    /\ account \in {"new", "claimed"} => invited = TRUE

TrialIsNew == \A c \in Callers : flight[c].at = "claim" => account \in {"new", "claimed"}

\* A profile that was refused was sent with a session that is not alive.
RefusedIsDead == \A c \in Callers : call[c].pc = "check" /\ call[c].fine = FALSE => call[c].sent \notin live

SessionExcused == known \cap {"dropped", "stale"} # {} \/ lapses > 0

\* The session of a new account is there while its trial is claimed.
SessionKept == (\E c \in Callers : flight[c].at = "claim") => session \in live \/ SessionExcused

LoginInv ==
  /\ LoginControl /\ LoginData /\ Flights /\ OneFlight
  /\ Inviting /\ TrialIsNew /\ RefusedIsDead /\ SessionKept

\* The calls as k has them, which may differ from call in who has left.
Having(k) == [call |-> k, flight |-> flight, cur |-> cur]
Resembles(k) ==
  k \in [Callers -> Logins] /\
  \A o \in Callers : /\ k[o].pc = call[o].pc /\ k[o].on = call[o].on
                     /\ k[o].sent = call[o].sent /\ k[o].fine = call[o].fine

LEMMA JoinEffect ==
  ASSUME LoginControl, NEW k \in [Callers -> Logins], NEW c \in Callers, Becomes(Join(Having(k), c))
  PROVE  /\ LoginControl'
         /\ \A o \in Callers : o # c => call'[o] = k[o] /\ flight'[o] = flight[o]
         /\ call'[c].pc = "wait" /\ call'[c].on = cur' /\ call'[c].sent = 0 /\ call'[c].fine = FALSE
         /\ cur # NoOne => cur' = cur /\ flight'[c] = flight[c]
         /\ cur = NoOne => cur' = c /\ flight'[c].at = "wx"
<1>1. CASE cur # NoOne
  <2>1. /\ call' = [k EXCEPT ![c] = [k[c] EXCEPT !.pc = "wait", !.on = cur, !.sent = 0, !.fine = FALSE]]
        /\ flight' = flight /\ cur' = cur
    BY <1>1 DEF Becomes, Join, Having
  <2>2. QED  BY <1>1, <2>1 DEF LoginControl, Logins
<1>2. CASE cur = NoOne
  <2>1. /\ call' = [k EXCEPT ![c] = [k[c] EXCEPT !.pc = "wait", !.on = c, !.sent = 0, !.fine = FALSE]]
        /\ flight' = [flight EXCEPT ![c] = [NoFlight EXCEPT !.at = "wx"]] /\ cur' = c
    BY <1>2 DEF Becomes, Join, Having
  <2>2. [NoFlight EXCEPT !.at = "wx"] \in Voyages /\ [NoFlight EXCEPT !.at = "wx"].at = "wx"
    BY DEF NoFlight, Voyages
  <2>3. QED  BY <1>2, <2>1, <2>2 DEF LoginControl, Logins
<1>3. QED  BY <1>1, <1>2

LEMMA LandsEffect ==
  ASSUME LoginControl, NEW k \in [Callers -> Logins], NEW c \in Callers, NEW well \in BOOLEAN,
         Becomes(Lands(Having(k), c, well))
  PROVE  /\ LoginControl' /\ cur' = NoOne
         /\ \A o \in Callers : o # c => flight'[o] = flight[o]
         /\ flight'[c].at = "none"
         /\ \A o \in Callers : k[o].on # c => call'[o] = k[o]
         /\ \A o \in Callers :
              k[o].on = c => call'[o].pc = "idle" /\ call'[o].on = NoOne /\ call'[o].well = well
                             /\ call'[o].sent = 0
<1> DEFINE over(o) == [k[o] EXCEPT !.pc = "idle", !.on = NoOne, !.well = well, !.sent = 0, !.fine = FALSE]
<1>1. \A o \in Callers : Ends(Having(k), o, well).call[o] = over(o)
  BY DEF Ends, Having
<1>2. /\ call' = [o \in Callers |-> IF k[o].on = c THEN Ends(Having(k), o, well).call[o] ELSE k[o]]
      /\ flight' = [flight EXCEPT ![c] = NoFlight] /\ cur' = NoOne
  BY DEF Becomes, Lands, Having
<1>3. \A o \in Callers : call'[o] = IF k[o].on = c THEN over(o) ELSE k[o]  BY <1>1, <1>2
<1>4. \A o \in Callers : /\ over(o) \in Logins /\ over(o).pc = "idle" /\ over(o).on = NoOne
                         /\ over(o).well = well /\ over(o).sent = 0
  BY DEF Logins
<1>5. NoFlight \in Voyages /\ NoFlight.at = "none"  BY DEF NoFlight, Voyages
<1> HIDE DEF over
<1>6. QED  BY <1>2, <1>3, <1>4, <1>5 DEF LoginControl

LEMMA EndsEffect ==
  ASSUME LoginControl, NEW c \in Callers, NEW well \in BOOLEAN,
         call' = Ends(State, c, well).call, flight' = Ends(State, c, well).flight, cur' \in {cur, NoOne}
  PROVE  /\ LoginControl' /\ flight' = flight
         /\ \A o \in Callers : o # c => call'[o] = call[o]
         /\ call'[c].pc = "idle" /\ call'[c].on = NoOne /\ call'[c].well = well /\ call'[c].sent = 0
<1>1. /\ call' = [call EXCEPT ![c] = [call[c] EXCEPT !.pc = "idle", !.on = NoOne, !.well = well,
                                                     !.sent = 0, !.fine = FALSE]]
      /\ flight' = flight
  BY DEF Ends, State
<1>2. cur' \in Callers \cup {NoOne}  BY DEF LoginControl
<1>3. /\ call' \in [Callers -> Logins] /\ \A o \in Callers : o # c => call'[o] = call[o]
      /\ call'[c].pc = "idle" /\ call'[c].on = NoOne /\ call'[c].well = well /\ call'[c].sent = 0
  <2> DEFINE over == [call[c] EXCEPT !.pc = "idle", !.on = NoOne, !.well = well, !.sent = 0, !.fine = FALSE]
  <2>1. call[c] \in Logins  BY DEF LoginControl
  <2>2. over \in Logins /\ over.pc = "idle" /\ over.on = NoOne /\ over.well = well /\ over.sent = 0
    BY <2>1 DEF Logins
  <2>3. call' = [call EXCEPT ![c] = over]  BY <1>1
  <2> HIDE DEF over
  <2>4. QED  BY <2>2, <2>3 DEF LoginControl
<1>4. QED  BY <1>1, <1>2, <1>3 DEF LoginControl

LEMMA SendEffect ==
  ASSUME LoginControl, NEW c \in Callers, NEW where \in {"check", "profile"}, NEW with \in Nat,
         Becomes(SendWith(State, c, where, with))
  PROVE  /\ LoginControl' /\ flight' = flight /\ cur' = cur
         /\ \A o \in Callers : o # c => call'[o] = call[o]
         /\ call'[c].pc = where /\ call'[c].on = NoOne /\ call'[c].sent = with
         /\ call'[c].fine = FALSE => with \notin live
<1>1. /\ call' = [call EXCEPT ![c] = [call[c] EXCEPT !.pc = where, !.on = NoOne, !.sent = with,
                                                     !.fine = (with \in live)]]
      /\ flight' = flight /\ cur' = cur
  BY DEF Becomes, SendWith, State, LoginControl, Logins
<1>2. (with \in live) \in BOOLEAN  OBVIOUS
<1>3. QED  BY <1>1, <1>2 DEF LoginControl, Logins

-----------------------------------------------------------------------------
\* The flights, and who awaits them
LEMMA JoinFlights ==
  ASSUME LoginControl, Flights, OneFlight, NEW k, Resembles(k), NEW c \in Callers,
         call[c].pc # "wait", Becomes(Join(Having(k), c)), known \subseteq known'
  PROVE  Flights' /\ OneFlight'
<1>1. /\ LoginControl' /\ \A o \in Callers : o # c => call'[o] = k[o] /\ flight'[o] = flight[o]
      /\ call'[c].pc = "wait" /\ call'[c].on = cur'
      /\ cur # NoOne => cur' = cur /\ flight'[c] = flight[c]
      /\ cur = NoOne => cur' = c /\ flight'[c].at = "wx"
  BY JoinEffect DEF Resembles
<1>2. ~Flying(c)  BY SessionAssumption DEF Flights
<1>3. \A o \in Callers : o # c => call'[o].pc = call[o].pc /\ call'[o].on = call[o].on
  BY <1>1 DEF Resembles
<1>4. \A o \in Callers : Flying(o) => Flying(o)'
  BY <1>1, <1>2 DEF Flying
<1>5. cur' \in Callers /\ Flying(cur)'
  BY <1>1, <1>4, SessionAssumption DEF Flights, Flying, LoginControl
<1>6. Flights'
  <2>1. ASSUME NEW o \in Callers, o # c
        PROVE  /\ call'[o].pc = "wait" => call'[o].on \in Callers /\ Flying(call[o].on)'
               /\ call'[o].pc # "wait" => call'[o].on = NoOne
               /\ Flying(o)' => call'[o].on = o
    <3>1. flight'[o] = flight[o]  BY <1>1, <2>1
    <3>2. QED  BY <1>3, <1>4, <2>1, <3>1 DEF Flights, Flying
  <2>2. /\ call'[c].pc = "wait" /\ call'[c].on \in Callers /\ Flying(call[c].on)'
    BY <1>1, <1>5
  <2>3. Flying(c)' => call'[c].on = c
    BY <1>1, <1>2 DEF Flying
  <2>4. QED  BY <1>5, <2>1, <2>2, <2>3 DEF Flights, Flying
<1>7. OneFlight'
  <2>1. SUFFICES ASSUME "crossed" \notin known', NEW o \in Callers, Flying(o)' PROVE cur' = o
    BY DEF OneFlight, Flying
  <2>2. \A x \in Callers : Flying(x) => cur = x  BY <2>1 DEF OneFlight
  <2>3. CASE cur = NoOne
    <3>1. ~Flying(o)  BY <2>2, <2>3, SessionAssumption
    <3>2. QED  BY <1>1, <2>1, <2>3, <3>1 DEF Flying
  <2>4. CASE cur # NoOne
    BY <1>1, <2>1, <2>2, <2>4 DEF Flying
  <2>5. QED  BY <2>3, <2>4
<1>8. QED  BY <1>6, <1>7

LEMMA LandsFlights ==
  ASSUME LoginControl, Flights, OneFlight, NEW k, Resembles(k), NEW c \in Callers, Flying(c),
         NEW well \in BOOLEAN, Becomes(Lands(Having(k), c, well)), known \cup Crosses(c) \subseteq known'
  PROVE  Flights' /\ OneFlight'
<1>1. /\ LoginControl' /\ cur' = NoOne
      /\ \A o \in Callers : o # c => flight'[o] = flight[o]
      /\ flight'[c].at = "none"
      /\ \A o \in Callers : k[o].on # c => call'[o] = k[o]
      /\ \A o \in Callers : k[o].on = c => call'[o].pc = "idle" /\ call'[o].on = NoOne
  BY LandsEffect DEF Resembles
<1>2. \A o \in Callers : k[o].pc = call[o].pc /\ k[o].on = call[o].on  BY DEF Resembles
<1>3. ASSUME NEW o \in Callers
      PROVE  /\ call'[o].pc = "wait" => call'[o].on \in Callers /\ Flying(call[o].on)'
             /\ call'[o].pc # "wait" => call'[o].on = NoOne
             /\ Flying(o)' => call'[o].on = o
  <2>1. CASE k[o].on = c
    <3>1. Flying(o)' => o # c /\ Flying(o)  BY <1>1 DEF Flying
    <3>2. ~Flying(o)'  BY <1>2, <2>1, <3>1 DEF Flights
    <3>3. QED  BY <1>1, <2>1, <3>2
  <2>2. CASE k[o].on # c
    <3>1. call'[o].pc = call[o].pc /\ call'[o].on = call[o].on  BY <1>1, <1>2, <2>2
    <3>2. o # c  BY <1>2, <2>2 DEF Flights
    <3>3. flight'[o] = flight[o]  BY <1>1, <3>2
    <3>4. call[o].pc = "wait" => call[o].on \in Callers /\ call[o].on # c /\ Flying(call[o].on)
      BY <1>2, <2>2 DEF Flights
    <3>5. QED  BY <1>1, <3>1, <3>3, <3>4 DEF Flights, Flying
  <2>3. QED  BY <2>1, <2>2
<1>4. OneFlight'
  <2>1. SUFFICES ASSUME "crossed" \notin known', NEW o \in Callers, Flying(o)' PROVE FALSE
    BY DEF OneFlight, Flying
  <2>2. cur = c  BY <2>1, SessionAssumption DEF OneFlight, Crosses
  <2>3. o # c /\ Flying(o)  BY <1>1, <2>1 DEF Flying
  <2>4. QED  BY <2>1, <2>2, <2>3 DEF OneFlight
<1>5. QED  BY <1>1, <1>3, <1>4 DEF Flights, Flying

\* A step that leaves the flights where they are, and who awaits them.
LEMMA FlightsGoOn ==
  ASSUME LoginControl, LoginControl', Flights, OneFlight, known \subseteq known',
         cur' = cur \/ (cur' = NoOne /\ "crossed" \in known'),
         \A o \in Callers : Flying(o)' <=> Flying(o),
         \A o \in Callers : /\ call'[o].pc = "wait" <=> call[o].pc = "wait"
                            /\ call'[o].on = call[o].on
  PROVE  Flights' /\ OneFlight'
<1>1. Flights'
  <2>1. cur' # NoOne => Flying(cur)'  BY DEF Flights, LoginControl, Flying
  <2>2. QED  BY <2>1 DEF Flights, Flying
<1>2. OneFlight'  BY DEF OneFlight, Flying
<1>3. QED  BY <1>1, <1>2

-----------------------------------------------------------------------------
\* What the steps do to the session, the account and the inviter
LEMMA SessionRest ==
  ASSUME LoginInv, LoginControl',
         UNCHANGED <<last, live, account, invited, scene, pending, lapses>>,
         known \subseteq known', inUse' \in {inUse, 0, session}, session' \in {session, 0},
         session' # session /\ session \in live => SessionExcused',
         \A o \in Callers : flight'[o].at \in {"post", "claim"} => flight'[o] = flight[o],
         \A o \in Callers : call'[o].sent \in 0..last,
         \A o \in Callers : call'[o].pc = "check" /\ call'[o].fine = FALSE =>
                              call'[o].sent \notin live
  PROVE  LoginData' /\ Inviting' /\ TrialIsNew' /\ RefusedIsDead' /\ SessionKept'
<1>1. LoginData'  BY DEF LoginInv, LoginData
<1>2. Inviting'
  <2>1. \A o \in Callers : flight'[o].at = "post" => flight'[o] = flight[o]  OBVIOUS
  <2>2. QED  BY <2>1 DEF LoginInv, Inviting
<1>3. \A o \in Callers : flight'[o].at = "claim" => flight[o].at = "claim"  OBVIOUS
<1>4. TrialIsNew'  BY <1>3 DEF LoginInv, TrialIsNew
<1>5. RefusedIsDead'  BY DEF RefusedIsDead
<1>6. SessionKept'  BY <1>3 DEF LoginInv, SessionKept, SessionExcused
<1>7. QED  BY <1>1, <1>2, <1>4, <1>5, <1>6

\* A call joins a flight or begins one.
LEMMA JoinKeeps ==
  ASSUME LoginInv, NEW k, Resembles(k), NEW c \in Callers, call[c].pc # "wait",
         Becomes(Join(Having(k), c)), known \subseteq known',
         UNCHANGED <<pending, last, live, account, invited, inUse, scene, lapses>>,
         session' \in {session, 0}, session' # session /\ session \in live => SessionExcused'
  PROVE  LoginInv'
<1>1. LoginControl /\ LoginData /\ Flights /\ OneFlight /\ RefusedIsDead  BY DEF LoginInv
<1>2. Flights' /\ OneFlight'  BY <1>1, JoinFlights
<1>3. /\ LoginControl' /\ \A o \in Callers : o # c => call'[o] = k[o] /\ flight'[o] = flight[o]
      /\ call'[c].pc = "wait" /\ call'[c].sent = 0
      /\ flight'[c] = flight[c] \/ flight'[c].at = "wx"
  BY <1>1, JoinEffect DEF Resembles
<1>4. \A o \in Callers : flight'[o].at \in {"post", "claim"} => flight'[o] = flight[o]  BY <1>3
<1>5. \A o \in Callers : call'[o].sent \in 0..last  BY <1>1, <1>3 DEF LoginData, Resembles
<1>6. \A o \in Callers : call'[o].pc = "check" /\ call'[o].fine = FALSE => call'[o].sent \notin live
  BY <1>1, <1>3 DEF RefusedIsDead, Resembles
<1>7. LoginData' /\ Inviting' /\ TrialIsNew' /\ RefusedIsDead' /\ SessionKept'
  BY <1>3, <1>4, <1>5, <1>6, SessionRest
<1>8. QED  BY <1>2, <1>3, <1>7 DEF LoginInv

\* A flight ends without a session; all who await it go on.
LEMMA LandsKeeps ==
  ASSUME LoginInv, NEW k, Resembles(k), NEW c \in Callers, Flying(c), NEW well \in BOOLEAN,
         Becomes(Lands(Having(k), c, well)), known \cup Crosses(c) \subseteq known',
         UNCHANGED <<session, pending, last, live, account, invited, inUse, scene, lapses>>
  PROVE  LoginInv'
<1>1. LoginControl /\ LoginData /\ Flights /\ OneFlight /\ RefusedIsDead  BY DEF LoginInv
<1>2. Flights' /\ OneFlight'  BY <1>1, LandsFlights
<1>3. /\ LoginControl'
      /\ \A o \in Callers : o # c => flight'[o] = flight[o]
      /\ flight'[c].at = "none"
      /\ \A o \in Callers : k[o].on # c => call'[o] = k[o]
      /\ \A o \in Callers : k[o].on = c => call'[o].pc = "idle" /\ call'[o].sent = 0
  BY <1>1, LandsEffect DEF Resembles
<1>4. \A o \in Callers : flight'[o].at \in {"post", "claim"} => flight'[o] = flight[o]  BY <1>3
<1>5. \A o \in Callers : call'[o].sent \in 0..last  BY <1>1, <1>3 DEF LoginData, Resembles
<1>6. \A o \in Callers : call'[o].pc = "check" /\ call'[o].fine = FALSE => call'[o].sent \notin live
  BY <1>1, <1>3 DEF RefusedIsDead, Resembles
<1>7. LoginData' /\ Inviting' /\ TrialIsNew' /\ RefusedIsDead' /\ SessionKept'
  BY <1>3, <1>4, <1>5, <1>6, SessionRest
<1>8. QED  BY <1>2, <1>3, <1>7 DEF LoginInv

\* A call ends that awaited no flight; it may clear the shared one.
LEMMA EndsKeeps ==
  ASSUME LoginInv, NEW c \in Callers, call[c].pc # "wait", NEW well \in BOOLEAN,
         call' = Ends(State, c, well).call, flight' = Ends(State, c, well).flight,
         cur' = cur \/ (cur' = NoOne /\ "crossed" \in known'), known \subseteq known',
         UNCHANGED <<session, pending, last, live, account, invited, inUse, scene, lapses>>
  PROVE  LoginInv'
<1>1. LoginControl /\ LoginData /\ Flights /\ OneFlight /\ RefusedIsDead  BY DEF LoginInv
<1>2. /\ LoginControl' /\ flight' = flight
      /\ \A o \in Callers : o # c => call'[o] = call[o]
      /\ call'[c].pc = "idle" /\ call'[c].on = NoOne /\ call'[c].sent = 0
  <2>1. cur' \in {cur, NoOne}  OBVIOUS
  <2>2. QED  BY <1>1, <2>1, EndsEffect
<1>3. Flights' /\ OneFlight'
  <2>1. call[c].on = NoOne  BY <1>1 DEF Flights
  <2>2. \A o \in Callers : /\ call'[o].pc = "wait" <=> call[o].pc = "wait"
                           /\ call'[o].on = call[o].on
    BY <1>2, <2>1
  <2>3. QED  BY <1>1, <1>2, <2>2, FlightsGoOn DEF Flying
<1>4. \A o \in Callers : call'[o].sent \in 0..last  BY <1>1, <1>2 DEF LoginData
<1>5. \A o \in Callers : call'[o].pc = "check" /\ call'[o].fine = FALSE => call'[o].sent \notin live
  BY <1>1, <1>2 DEF RefusedIsDead
<1>6. LoginData' /\ Inviting' /\ TrialIsNew' /\ RefusedIsDead' /\ SessionKept'
  BY <1>2, <1>4, <1>5, SessionRest
<1>7. QED  BY <1>2, <1>3, <1>6 DEF LoginInv

LEMMA CallsResemble == LoginInv => State = Having(call) /\ Resembles(call)
BY DEF LoginInv, LoginControl, State, Having, Resembles

LEMMA LoginKeeps ==
  ASSUME LoginInv, NEW c \in Callers, Login(c)
  PROVE  LoginInv'
<1>1. /\ call[c].pc = "idle"
      /\ UNCHANGED <<session, pending, last, live, account, invited, inUse, scene, known, lapses>>
      /\ Becomes(IF session = 0 THEN Join(State, c)
                 ELSE SendWith(State, c, IF c = Index THEN "check" ELSE "profile", session))
  BY DEF Login, Phone, SessionServer
<1>2. LoginControl /\ LoginData /\ Flights /\ OneFlight /\ RefusedIsDead  BY DEF LoginInv
<1>3. CASE session = 0
  <2>1. Becomes(Join(Having(call), c))  BY <1>1, <1>3, CallsResemble
  <2>2. QED  BY <1>1, <2>1, CallsResemble, JoinKeeps
<1>4. CASE session # 0
  <2>1. PICK where \in {"check", "profile"} : Becomes(SendWith(State, c, where, session))
    BY <1>1, <1>4
  <2>2. session \in Nat  BY <1>2, SessionAssumption DEF LoginData
  <2>3. /\ LoginControl' /\ flight' = flight /\ cur' = cur
        /\ \A o \in Callers : o # c => call'[o] = call[o]
        /\ call'[c].pc = where /\ call'[c].on = NoOne /\ call'[c].sent = session
        /\ call'[c].fine = FALSE => session \notin live
    BY <1>2, <2>1, <2>2, SendEffect
  <2>4. Flights' /\ OneFlight'
    <3>1. call[c].on = NoOne  BY <1>1, <1>2 DEF Flights
    <3>2. \A o \in Callers : /\ call'[o].pc = "wait" <=> call[o].pc = "wait"
                             /\ call'[o].on = call[o].on
      BY <1>1, <2>3, <3>1
    <3>3. QED  BY <1>1, <1>2, <2>3, <3>2, FlightsGoOn DEF Flying
  <2>5. LoginData' /\ Inviting' /\ TrialIsNew' /\ RefusedIsDead' /\ SessionKept'
    <3>1. \A o \in Callers : call'[o].sent \in 0..last  BY <1>2, <2>3 DEF LoginData
    <3>2. \A o \in Callers :
            call'[o].pc = "check" /\ call'[o].fine = FALSE => call'[o].sent \notin live
      BY <1>2, <2>3 DEF RefusedIsDead
    <3>3. QED  BY <1>1, <2>3, <3>1, <3>2, SessionRest
  <2>6. QED  BY <2>3, <2>4, <2>5 DEF LoginInv
<1>5. QED  BY <1>3, <1>4

LEMMA CheckKeeps ==
  ASSUME LoginInv, NEW c \in Callers, CheckEnds(c)
  PROVE  LoginInv'
<1>1. /\ call[c].pc = "check"
      /\ UNCHANGED <<pending, last, live, account, invited, inUse, scene, lapses>>
  BY DEF CheckEnds, SessionServer
<1>2. CASE Becomes(Ends(State, c, TRUE)) /\ known \subseteq known' /\ UNCHANGED session
  <2>1. /\ call' = Ends(State, c, TRUE).call /\ flight' = Ends(State, c, TRUE).flight /\ cur' = cur
    BY <1>2 DEF Becomes, Ends, State
  <2>2. QED  BY <1>1, <1>2, <2>1, EndsKeeps
<1>3. CASE /\ call[c].fine = FALSE \/ session = 0
           /\ Note(IF session \notin {0, call[c].sent} THEN {"stale"} ELSE {})
           /\ session' = 0 /\ Becomes(Join(State, c))
  <2>1. Becomes(Join(Having(call), c)) /\ known \subseteq known'
    BY <1>3, CallsResemble DEF Note
  <2>2. session \in live => SessionExcused'
    <3>1. 0 \notin live  BY DEF LoginInv, LoginData
    <3>2. session \in live => session \notin {0, call[c].sent}
      BY <1>1, <1>3, <3>1 DEF LoginInv, RefusedIsDead
    <3>3. QED  BY <1>3, <3>2 DEF Note, SessionExcused
  <2>3. QED  BY <1>1, <1>3, <2>1, <2>2, CallsResemble, JoinKeeps
<1>4. QED
  <2>1. call[c].fine \in BOOLEAN  BY DEF LoginInv, LoginControl, Logins
  <2>2. QED  BY <1>2, <1>3, <2>1 DEF CheckEnds, Note

LEMMA ProfileKeeps ==
  ASSUME LoginInv, NEW c \in Callers, ProfileEnds(c)
  PROVE  LoginInv'
<1>1. /\ call[c].pc = "profile"
      /\ UNCHANGED <<pending, last, live, account, invited, inUse, scene, lapses>>
  BY DEF ProfileEnds, SessionServer
<1>2. CASE /\ Becomes([Ends(State, c, TRUE) EXCEPT !.cur = NoOne]) /\ UNCHANGED session
           /\ Note((IF session = 0 THEN {"dropped"} ELSE {}) \cup (IF cur # NoOne THEN {"crossed"} ELSE {}))
  <2>1. /\ call' = Ends(State, c, TRUE).call /\ flight' = Ends(State, c, TRUE).flight /\ cur' = NoOne
        /\ known \subseteq known' /\ (cur # NoOne => "crossed" \in known')
    BY <1>2 DEF Becomes, Ends, State, Note
  <2>2. QED  BY <1>1, <1>2, <2>1, EndsKeeps
<1>3. CASE /\ session' = 0 /\ Becomes(Join(State, c))
           /\ Note(IF session \in live THEN {"dropped"} ELSE {})
  <2>1. Becomes(Join(Having(call), c)) /\ known \subseteq known'
    BY <1>3, CallsResemble DEF Note
  <2>2. session \in live => SessionExcused'  BY <1>3 DEF Note, SessionExcused
  <2>3. QED  BY <1>1, <1>3, <2>1, <2>2, CallsResemble, JoinKeeps
<1>4. QED  BY <1>2, <1>3 DEF ProfileEnds

LEMMA WxKeeps ==
  ASSUME LoginInv, NEW c \in Callers, WxEnds(c)
  PROVE  LoginInv'
<1>1. /\ flight[c].at = "wx" /\ Flying(c)
      /\ UNCHANGED <<session, pending, last, live, account, invited, inUse, scene, lapses>>
  BY DEF WxEnds, Phone, SessionServer, Flying
<1>2. LoginControl /\ LoginData /\ Flights /\ OneFlight  BY DEF LoginInv
<1>3. CASE /\ Becomes([State EXCEPT !.flight[c] = [at |-> "post", inviter |-> pending]])
           /\ UNCHANGED known
  <2>1. /\ call' = call /\ cur' = cur
        /\ flight' = [flight EXCEPT ![c] = [at |-> "post", inviter |-> pending]]
    BY <1>3 DEF Becomes, State
  <2>2. /\ LoginControl' /\ flight'[c].at = "post" /\ flight'[c].inviter = pending
        /\ \A o \in Callers : o # c => flight'[o] = flight[o]
    BY <1>2, <2>1 DEF LoginControl, LoginData, Voyages
  <2>3. Flights' /\ OneFlight'
    <3>1. \A o \in Callers : Flying(o)' <=> Flying(o)  BY <1>1, <2>2 DEF Flying
    <3>2. QED  BY <1>2, <1>3, <2>1, <2>2, <3>1, FlightsGoOn
  <2>4. LoginData'  BY <1>1, <2>1 DEF LoginInv, LoginData
  <2>5. Inviting'  BY <1>1, <1>3, <2>2 DEF LoginInv, Inviting
  <2>6. TrialIsNew'  BY <1>1, <2>2 DEF LoginInv, TrialIsNew
  <2>7. RefusedIsDead'  BY <1>1, <2>1 DEF LoginInv, RefusedIsDead
  <2>8. SessionKept'  BY <1>1, <1>3, <2>2 DEF LoginInv, SessionKept, SessionExcused
  <2>9. QED  BY <2>2, <2>3, <2>4, <2>5, <2>6, <2>7, <2>8 DEF LoginInv
<1>4. ASSUME NEW well \in BOOLEAN, Becomes(Lands(State, c, well)), known \cup Crosses(c) \subseteq known'
      PROVE  LoginInv'
  <2>1. Becomes(Lands(Having(call), c, well))  BY <1>4, CallsResemble
  <2>2. QED  BY <1>1, <1>4, <2>1, CallsResemble, LandsKeeps
<1>5. CASE Becomes(Lands(State, c, TRUE)) /\ Note({"dropped"} \cup Crosses(c))
  <2>1. known \cup Crosses(c) \subseteq known'  BY <1>5 DEF Note
  <2>2. QED  BY <1>4, <1>5, <2>1
<1>6. CASE Becomes(Lands(State, c, FALSE)) /\ Note(Crosses(c))
  <2>1. known \cup Crosses(c) \subseteq known'  BY <1>6 DEF Note
  <2>2. QED  BY <1>4, <1>6, <2>1
<1>7. QED  BY <1>3, <1>5, <1>6 DEF WxEnds

\* The server makes a session, and with the first one the account.
LEMMA RegistersRest ==
  ASSUME LoginInv, LoginControl', NEW c \in Callers, flight[c].at = "post", Registers(flight[c].inviter),
         UNCHANGED <<inUse, scene, lapses>>, known \subseteq known', session' \in {session, last'},
         pending' \in BOOLEAN,
         \A o \in Callers : o # c => flight'[o] = flight[o],
         flight'[c].at # "post", flight'[c].at = "claim" => session' = last' /\ account = "none",
         \A o \in Callers : call'[o].sent \in 0..last,
         \A o \in Callers : call'[o].pc = "check" /\ call'[o].fine = FALSE =>
                            call'[o].sent \notin live
  PROVE  LoginData' /\ Inviting' /\ TrialIsNew' /\ RefusedIsDead' /\ SessionKept'
<1>1. /\ last < MaxSessions /\ last' = last + 1 /\ live' = live \cup {last'}
      /\ account' = (IF account = "none" THEN "new" ELSE account)
      /\ invited' = (invited \/ (account = "none" /\ flight[c].inviter))
  BY DEF Registers
<1>2. LoginData /\ last \in Nat /\ MaxSessions \in Nat  BY SessionAssumption DEF LoginInv, LoginData
<1>3. flight[c].inviter \in BOOLEAN  BY DEF LoginInv, LoginControl, Voyages
<1>4. LoginData'
  <2>1. last' \in 1..MaxSessions /\ \A n \in 0..last : n \in 0..last'  BY <1>1, <1>2
  <2>2. live' \subseteq 1..last' /\ session' \in 0..last' /\ inUse' \in 0..last'
    BY <1>1, <1>2, <2>1 DEF LoginData
  <2>3. \A o \in Callers : call'[o].sent \in 0..last'  BY <2>1
  <2>4. invited' \in BOOLEAN  BY <1>1, <1>2, <1>3 DEF LoginData
  <2>5. QED  BY <1>1, <1>2, <2>1, <2>2, <2>3, <2>4 DEF LoginData
<1>5. Inviting'
  <2>1. SUFFICES ASSUME scene = "known", "missed" \notin known, account' \in {"new", "claimed"}
                 PROVE  invited' = TRUE
    <3>1. account' # "none"  BY <1>1
    <3>2. QED  BY <2>1, <3>1 DEF Inviting
  <2>2. CASE account = "none"
    <3>1. flight[c].inviter = TRUE  BY <2>1, <2>2 DEF LoginInv, Inviting
    <3>2. QED  BY <1>1, <1>2, <2>2, <3>1 DEF LoginData
  <2>3. CASE account # "none"
    <3>1. invited = TRUE  BY <1>1, <2>1, <2>3 DEF LoginInv, Inviting
    <3>2. QED  BY <1>1, <3>1
  <2>4. QED  BY <2>2, <2>3
<1>6. TrialIsNew'  BY <1>1 DEF LoginInv, TrialIsNew
<1>7. RefusedIsDead'
  <2>1. \A o \in Callers : call'[o].sent # last'  BY <1>1, <1>2
  <2>2. QED  BY <1>1, <2>1 DEF RefusedIsDead
<1>8. SessionKept'
  <2>1. SUFFICES ASSUME NEW o \in Callers, flight'[o].at = "claim"
                 PROVE  session' \in live' \/ SessionExcused'
    BY DEF SessionKept
  <2>2. CASE o = c  BY <1>1, <2>1, <2>2
  <2>3. CASE o # c
    <3>1. session \in live \/ SessionExcused  BY <2>1, <2>3 DEF LoginInv, SessionKept
    <3>2. QED  BY <1>1, <3>1 DEF SessionExcused
  <2>4. QED  BY <2>2, <2>3
<1>9. QED  BY <1>4, <1>5, <1>6, <1>7, <1>8

LEMMA LandsRegistered ==
  ASSUME LoginInv, NEW c \in Callers, flight[c].at = "post", Registers(flight[c].inviter),
         NEW well \in BOOLEAN, Becomes(Lands(State, c, well)), Note(Crosses(c)),
         UNCHANGED <<inUse, scene, lapses>>, session' \in {session, last'}, pending' \in BOOLEAN
  PROVE  LoginInv'
<1>1. LoginControl /\ LoginData /\ Flights /\ OneFlight /\ RefusedIsDead /\ Flying(c)
  BY DEF LoginInv, Flying
<1>2. Becomes(Lands(Having(call), c, well)) /\ Resembles(call)  BY CallsResemble
<1>3. known \cup Crosses(c) \subseteq known'  BY DEF Note
<1>4. Flights' /\ OneFlight'  BY <1>1, <1>2, <1>3, LandsFlights
<1>5. /\ LoginControl'
      /\ \A o \in Callers : o # c => flight'[o] = flight[o]
      /\ flight'[c].at = "none"
      /\ \A o \in Callers : call[o].on # c => call'[o] = call[o]
      /\ \A o \in Callers : call[o].on = c => call'[o].pc = "idle" /\ call'[o].sent = 0
  BY <1>1, <1>2, LandsEffect DEF Resembles
<1>6. \A o \in Callers : call'[o].sent \in 0..last  BY <1>1, <1>5 DEF LoginData
<1>7. \A o \in Callers : call'[o].pc = "check" /\ call'[o].fine = FALSE => call'[o].sent \notin live
  BY <1>1, <1>5 DEF RefusedIsDead
<1>8. LoginData' /\ Inviting' /\ TrialIsNew' /\ RefusedIsDead' /\ SessionKept'
  BY <1>3, <1>5, <1>6, <1>7, RegistersRest
<1>9. QED  BY <1>4, <1>5, <1>8 DEF LoginInv

LEMMA PostKeeps ==
  ASSUME LoginInv, NEW c \in Callers, PostArrives(c) \/ PostFails(c)
  PROVE  LoginInv'
<1>1. flight[c].at = "post" /\ Flying(c) /\ UNCHANGED <<inUse, scene, lapses>>
  BY DEF PostArrives, PostFails, Flying
<1>2. pending \in BOOLEAN /\ flight[c].inviter \in BOOLEAN
  BY DEF LoginInv, LoginControl, LoginData, Voyages
<1>3. CASE PostArrives(c)
  <2>1. /\ Registers(flight[c].inviter) /\ session' = last' /\ pending' \in BOOLEAN
    BY <1>2, <1>3 DEF PostArrives
  <2>2. CASE account # "none"
    <3>1. Becomes(Lands(State, c, TRUE)) /\ Note(Crosses(c))  BY <1>3, <2>2 DEF PostArrives
    <3>2. QED  BY <1>1, <2>1, <3>1, LandsRegistered
  <2>3. CASE account = "none"
    <3>1. Becomes([State EXCEPT !.flight[c].at = "claim"]) /\ UNCHANGED known
      BY <1>3, <2>3 DEF PostArrives
    <3>2. /\ call' = call /\ cur' = cur
          /\ flight' = [flight EXCEPT ![c] = [flight[c] EXCEPT !.at = "claim"]]
      BY <3>1 DEF Becomes, State
    <3>3. LoginControl /\ LoginData /\ Flights /\ OneFlight /\ RefusedIsDead  BY DEF LoginInv
    <3>4. /\ LoginControl' /\ flight'[c].at = "claim"
          /\ \A o \in Callers : o # c => flight'[o] = flight[o]
      BY <3>2, <3>3 DEF LoginControl, Voyages
    <3>5. Flights' /\ OneFlight'
      <4>1. \A o \in Callers : Flying(o)' <=> Flying(o)  BY <1>1, <3>4 DEF Flying
      <4>2. QED  BY <3>1, <3>2, <3>3, <3>4, <4>1, FlightsGoOn
    <3>6. \A o \in Callers : call'[o].sent \in 0..last  BY <3>2, <3>3 DEF LoginData
    <3>7. \A o \in Callers :
            call'[o].pc = "check" /\ call'[o].fine = FALSE => call'[o].sent \notin live
      BY <3>2, <3>3 DEF RefusedIsDead
    <3>8. LoginData' /\ Inviting' /\ TrialIsNew' /\ RefusedIsDead' /\ SessionKept'
      BY <1>1, <2>1, <2>3, <3>1, <3>4, <3>6, <3>7, RegistersRest
    <3>9. QED  BY <3>4, <3>5, <3>8 DEF LoginInv
  <2>4. QED  BY <2>2, <2>3
<1>4. CASE PostFails(c)
  <2>1. Becomes(Lands(State, c, FALSE)) /\ Note(Crosses(c)) /\ UNCHANGED <<session, pending>>
    BY <1>4 DEF PostFails, Phone
  <2>2. CASE Registers(flight[c].inviter)
    BY <1>1, <1>2, <2>1, <2>2, LandsRegistered
  <2>3. CASE UNCHANGED <<live, last, account, invited>>
    <3>1. Becomes(Lands(Having(call), c, FALSE)) /\ known \cup Crosses(c) \subseteq known'
      BY <2>1, CallsResemble DEF Note
    <3>2. QED  BY <1>1, <2>1, <2>3, <3>1, CallsResemble, LandsKeeps
  <2>4. QED  BY <1>4, <2>2, <2>3 DEF PostFails
<1>5. QED  BY <1>3, <1>4

LEMMA ClaimKeeps ==
  ASSUME LoginInv, NEW c \in Callers, ClaimEnds(c)
  PROVE  LoginInv'
<1>1. /\ flight[c].at = "claim" /\ Flying(c) /\ account' \in {account, "claimed"}
      /\ Becomes(Lands(Having(call), c, TRUE)) /\ known \cup Crosses(c) \subseteq known'
      /\ UNCHANGED <<session, pending, live, last, invited, inUse, scene, lapses>>
  BY CallsResemble DEF ClaimEnds, Phone, Note, Flying
<1>2. account \in {"new", "claimed"} /\ account' \in {"new", "claimed"}
  BY <1>1 DEF LoginInv, TrialIsNew
<1>3. LoginControl /\ LoginData /\ Flights /\ OneFlight /\ RefusedIsDead /\ Resembles(call)
  BY CallsResemble DEF LoginInv
<1>4. Flights' /\ OneFlight'  BY <1>1, <1>3, LandsFlights
<1>5. /\ LoginControl'
      /\ \A o \in Callers : o # c => flight'[o] = flight[o]
      /\ flight'[c].at = "none"
      /\ \A o \in Callers : call[o].on # c => call'[o] = call[o]
      /\ \A o \in Callers : call[o].on = c => call'[o].pc = "idle" /\ call'[o].sent = 0
  <2>1. call \in [Callers -> Logins]  BY <1>3 DEF LoginControl
  <2>2. PICK well \in BOOLEAN : Becomes(Lands(Having(call), c, well))  BY <1>1
  <2>3. QED  BY <1>3, <2>1, <2>2, LandsEffect
<1>6. LoginData'
  <2>1. \A o \in Callers : call'[o].sent \in 0..last  BY <1>3, <1>5 DEF LoginData
  <2>2. QED  BY <1>1, <1>2, <1>3, <2>1 DEF LoginData
<1>7. Inviting'  BY <1>1, <1>2 DEF LoginInv, Inviting
<1>8. TrialIsNew'  BY <1>2 DEF TrialIsNew
<1>9. RefusedIsDead'  BY <1>1, <1>3, <1>5 DEF RefusedIsDead
<1>10. SessionKept'  BY <1>1 DEF LoginInv, SessionKept, SessionExcused
<1>11. QED  BY <1>4, <1>5, <1>6, <1>7, <1>8, <1>9, <1>10 DEF LoginInv

LEMMA LeftResembles ==
  ASSUME LoginInv
  PROVE  \E k : [State EXCEPT !.call[Other].left = TRUE] = Having(k) /\ Resembles(k)
<1> DEFINE k == [call EXCEPT ![Other] = [call[Other] EXCEPT !.left = TRUE]]
<1>1. Other \in Callers /\ LoginControl  BY DEF Callers, LoginInv
<1>2. Resembles(k)
  <2>1. call[Other] \in Logins  BY <1>1 DEF LoginControl
  <2>2. k \in [Callers -> Logins]  BY <1>1, <2>1 DEF LoginControl, Logins
  <2>3. QED  BY <1>1, <2>1, <2>2 DEF Resembles, LoginControl, Logins
<1>3. [State EXCEPT !.call[Other].left = TRUE] = Having(k)
  <2>1. State = [call |-> call, flight |-> flight, cur |-> cur]  BY DEF State
  <2>2. [State EXCEPT !.call[Other].left = TRUE] = [State EXCEPT !.call = k]  BY <2>1
  <2>3. [State EXCEPT !.call = k] = [call |-> k, flight |-> flight, cur |-> cur]
    <3> HIDE DEF k
    <3>1. QED  BY <2>1
  <2>4. QED  BY <2>2, <2>3 DEF Having
<1> HIDE DEF k
<1>4. QED  BY <1>2, <1>3

LEMMA LeaveKeeps ==
  ASSUME LoginInv, LeavePage
  PROVE  LoginInv'
<1>1. UNCHANGED <<pending, last, live, account, invited, inUse, scene, lapses>> /\ Other \in Callers
  BY DEF LeavePage, SessionServer, Callers
<1>2. LoginControl /\ LoginData /\ Flights /\ OneFlight /\ RefusedIsDead  BY DEF LoginInv
<1>3. PICK k : [State EXCEPT !.call[Other].left = TRUE] = Having(k) /\ Resembles(k)  BY LeftResembles
<1>5. CASE /\ call[Other].pc = "profile" /\ session' = 0 /\ Becomes(Join(Having(k), Other))
           /\ Note(IF session \in live THEN {"dropped"} ELSE {})
  <2>1. session \in live => SessionExcused'  BY <1>5 DEF Note, SessionExcused
  <2>2. known \subseteq known'  BY <1>5 DEF Note
  <2>3. QED  BY <1>1, <1>3, <1>5, <2>1, <2>2, JoinKeeps
<1>6. CASE /\ flight[Other].at = "post" /\ Becomes(Lands(Having(k), Other, FALSE))
           /\ Note(Crosses(Other)) /\ UNCHANGED session
  <2>1. Flying(Other) /\ known \cup Crosses(Other) \subseteq known'  BY <1>6 DEF Flying, Note
  <2>2. QED  BY <1>1, <1>3, <1>6, <2>1, LandsKeeps
<1>7. CASE Becomes(Having(k)) /\ UNCHANGED <<known, session>>
  <2>1. call' = k /\ flight' = flight /\ cur' = cur  BY <1>7 DEF Becomes, Having
  <2>2. LoginControl'  BY <1>2, <1>3, <2>1 DEF LoginControl, Resembles
  <2>3. Flights' /\ OneFlight'
    <3>1. \A o \in Callers : /\ call'[o].pc = "wait" <=> call[o].pc = "wait"
                             /\ call'[o].on = call[o].on
      BY <1>3, <2>1 DEF Resembles
    <3>2. QED  BY <1>2, <1>7, <2>1, <2>2, <3>1, FlightsGoOn DEF Flying
  <2>4. \A o \in Callers : call'[o].sent \in 0..last  BY <1>2, <1>3, <2>1 DEF LoginData, Resembles
  <2>5. \A o \in Callers :
          call'[o].pc = "check" /\ call'[o].fine = FALSE => call'[o].sent \notin live
    BY <1>2, <1>3, <2>1 DEF RefusedIsDead, Resembles
  <2>6. LoginData' /\ Inviting' /\ TrialIsNew' /\ RefusedIsDead' /\ SessionKept'
    BY <1>1, <1>7, <2>1, <2>2, <2>4, <2>5, SessionRest
  <2>7. QED  BY <2>2, <2>3, <2>6 DEF LoginInv
<1>8. QED  BY <1>3, <1>5, <1>6, <1>7 DEF LeavePage

\* Expiry and the inviter touch neither calls nor flights.
LEMMA QuietKeeps ==
  ASSUME LoginInv, Lapse \/ Request \/ RequestEnds \/ SceneResolves
  PROVE  LoginInv'
<1>1. UNCHANGED <<call, flight, cur, last, account>> /\ known \subseteq known'
  BY DEF Lapse, Request, RequestEnds, SceneResolves, SessionServer, Note, Phone, Bind
<1>2. LoginControl /\ LoginData /\ Flights /\ OneFlight /\ RefusedIsDead  BY DEF LoginInv
<1>3. LoginControl' /\ Flights' /\ OneFlight' /\ TrialIsNew'
  <2>1. LoginControl' /\ Flights' /\ TrialIsNew'
    BY <1>1 DEF LoginInv, LoginControl, Flights, Flying, TrialIsNew
  <2>2. OneFlight'  BY <1>1, <1>2 DEF OneFlight, Flying
  <2>3. QED  BY <2>1, <2>2
<1>4. CASE Lapse
  <2>1. /\ live' = live \ {session} /\ lapses' = lapses + 1
        /\ UNCHANGED <<session, pending, account, invited, inUse, scene, known>>
    BY <1>4 DEF Lapse, Phone
  <2>2. LoginData'  BY <1>1, <1>2, <2>1 DEF LoginData
  <2>3. Inviting'  BY <1>1, <2>1 DEF LoginInv, Inviting
  <2>4. RefusedIsDead'  BY <1>1, <1>2, <2>1 DEF RefusedIsDead
  <2>5. lapses' > 0  BY <1>2, <2>1 DEF LoginData
  <2>6. QED  BY <1>3, <2>2, <2>3, <2>4, <2>5 DEF LoginInv, SessionKept, SessionExcused
<1>5. CASE Request \/ RequestEnds
  <2>1. /\ UNCHANGED <<pending, live, invited, scene, lapses>>
        /\ inUse' \in {inUse, 0, session} /\ session' \in {session, 0}
    BY <1>5 DEF Request, RequestEnds, Phone, SessionServer
  <2>2. session' # session /\ session \in live => SessionExcused'
    <3>1. SUFFICES ASSUME RequestEnds, session' # session, session \in live PROVE SessionExcused'
      BY <1>5 DEF Request, Phone
    <3>2. inUse \notin live /\ session \notin {0, inUse}
      BY <1>2, <3>1 DEF RequestEnds, LoginData
    <3>3. QED  BY <3>1, <3>2 DEF RequestEnds, Note, SessionExcused
  <2>3. \A o \in Callers : call'[o].sent \in 0..last  BY <1>1, <1>2 DEF LoginData
  <2>4. \A o \in Callers :
          call'[o].pc = "check" /\ call'[o].fine = FALSE => call'[o].sent \notin live
    BY <1>1, <1>2 DEF RefusedIsDead
  <2>5. LoginData' /\ Inviting' /\ TrialIsNew' /\ RefusedIsDead' /\ SessionKept'
    BY <1>1, <1>3, <2>1, <2>2, <2>3, <2>4, SessionRest
  <2>6. QED  BY <1>3, <2>5 DEF LoginInv
<1>6. CASE SceneResolves
  <2>1. /\ scene = "resolving" /\ scene' \in {"known", "failed"}
        /\ UNCHANGED <<live, inUse, lapses>> /\ session' \in {session, 0}
        /\ session \in live => session' = session
    BY <1>6 DEF SceneResolves, Bind
  <2>2. pending' \in BOOLEAN /\ invited' \in BOOLEAN
    BY <1>2, <1>6 DEF SceneResolves, Bind, LoginData
  <2>3. LoginData'  BY <1>1, <1>2, <2>1, <2>2 DEF LoginData
  <2>4. Inviting'
    <3>1. SUFFICES ASSUME scene' = "known", "missed" \notin known'
                   PROVE  /\ account = "none" =>
                               /\ pending' = TRUE
                               /\ \A o \in Callers : flight[o].at = "post" => flight[o].inviter = TRUE
                          /\ account \in {"new", "claimed"} => invited' = TRUE
      BY <1>1 DEF Inviting
    <3>2. pending' = TRUE  BY <1>6, <3>1 DEF SceneResolves
    <3>3. CASE session = 0
      <4>1. known' = known \cup (IF \E o \in Callers : flight[o].at = "post" \/ account # "none"
                                 THEN {"missed"} ELSE {})
        BY <1>6, <3>1, <3>3 DEF SceneResolves, Note
      <4>2. ~\E o \in Callers : flight[o].at = "post" \/ account # "none"  BY <3>1, <4>1
      <4>3. App \in Callers  BY DEF Callers
      <4>4. QED  BY <3>2, <4>2, <4>3
    <3>4. CASE session # 0
      <4>1. Bind  BY <1>6, <3>1, <3>4 DEF SceneResolves, Note
      <4>2. QED  BY <4>1 DEF Bind
    <3>5. QED  BY <3>3, <3>4
  <2>5. RefusedIsDead'  BY <1>1, <1>2, <2>1 DEF RefusedIsDead
  <2>6. SessionKept'  BY <1>1, <2>1 DEF LoginInv, SessionKept, SessionExcused
  <2>7. QED  BY <1>3, <2>3, <2>4, <2>5, <2>6 DEF LoginInv
<1>7. QED  BY <1>4, <1>5, <1>6

-----------------------------------------------------------------------------
LEMMA LoginInvInit == SessionInit => LoginInv
<1> SUFFICES ASSUME SessionInit PROVE LoginInv
  OBVIOUS
<1>1. NoLogin \in Logins /\ NoLogin.pc = "idle" /\ NoLogin.on = NoOne /\ NoLogin.sent = 0
  BY DEF NoLogin, Logins
<1>2. NoFlight \in Voyages /\ NoFlight.at = "none"  BY DEF NoFlight, Voyages
<1>3. \A c \in Callers : call[c] = NoLogin /\ flight[c] = NoFlight  BY DEF SessionInit
<1>4. LoginControl  BY <1>1, <1>2 DEF SessionInit, LoginControl
<1>5. LoginData
  <2>1. last = 1 /\ last \in 1..MaxSessions /\ session \in 0..last /\ inUse \in 0..last
    BY SessionAssumption DEF SessionInit
  <2>2. \A c \in Callers : call[c].sent \in 0..last  BY <1>1, <1>3, <2>1
  <2>3. live \subseteq 1..last  BY <2>1 DEF SessionInit
  <2>4. /\ scene \in {"none", "resolving", "known", "failed"} /\ pending \in BOOLEAN
        /\ account \in {"none", "new", "claimed", "old"} /\ invited \in BOOLEAN /\ lapses \in Nat
    BY DEF SessionInit
  <2>5. QED  BY <2>1, <2>2, <2>3, <2>4 DEF LoginData
<1>6. Flights /\ OneFlight  BY <1>1, <1>2, <1>3 DEF SessionInit, Flights, OneFlight, Flying
<1>7. Inviting /\ TrialIsNew  BY <1>2, <1>3 DEF SessionInit, Inviting, TrialIsNew
<1>8. RefusedIsDead /\ SessionKept  BY <1>1, <1>2, <1>3 DEF RefusedIsDead, SessionKept
<1>9. QED  BY <1>4, <1>5, <1>6, <1>7, <1>8 DEF LoginInv

LEMMA LoginInvStep == LoginInv /\ [SessionNext]_sessionVars => LoginInv'
<1>1. ASSUME LoginInv, SessionNext PROVE LoginInv'
  <2>1. ASSUME NEW c \in Callers, Login(c) \/ Progress(c) PROVE LoginInv'
    BY <1>1, <2>1, LoginKeeps, CheckKeeps, ProfileKeeps, WxKeeps, PostKeeps, ClaimKeeps DEF Progress
  <2>2. QED  BY <1>1, <2>1, LeaveKeeps, QuietKeeps DEF SessionNext
<1>2. ASSUME LoginInv, UNCHANGED sessionVars PROVE LoginInv'
  BY <1>2 DEF LoginInv, LoginControl, LoginData, Flights, OneFlight, Flying, Inviting, TrialIsNew,
              RefusedIsDead, SessionKept, SessionExcused, sessionVars
<1>3. QED  BY <1>1, <1>2

LEMMA LoginInvImplies == LoginInv => SessionTypeOK /\ FlightIsAlive /\ OneLogin /\ InviterCounts
<1> SUFFICES ASSUME LoginInv PROVE SessionTypeOK /\ FlightIsAlive /\ OneLogin /\ InviterCounts
  OBVIOUS
<1>1. SessionTypeOK
  <2>1. \A c \in Callers : /\ call[c].pc \in {"idle", "check", "profile", "wait"}
                           /\ flight[c].at \in {"none", "wx", "post", "claim"}
    BY DEF LoginInv, LoginControl, Logins, Voyages
  <2>2. last \in 1..MaxSessions /\ session \in 0..last /\ live \subseteq 1..last
    BY DEF LoginInv, LoginData
  <2>3. session \in 0..MaxSessions /\ live \subseteq 1..MaxSessions  BY <2>2, SessionAssumption
  <2>4. QED  BY <2>1, <2>3 DEF SessionTypeOK, LoginInv, LoginControl, LoginData
<1>2. FlightIsAlive  BY DEF LoginInv, LoginControl, Flights, Flying, FlightIsAlive
<1>3. OneLogin
  <2>1. SUFFICES ASSUME "crossed" \notin known, NEW a \in Callers, NEW b \in Callers, Flying(a), Flying(b)
                 PROVE  a = b
    BY DEF OneLogin, Flying
  <2>2. QED  BY <2>1 DEF LoginInv, OneFlight
<1>4. InviterCounts  BY DEF LoginInv, Inviting, InviterCounts
<1>5. QED  BY <1>1, <1>2, <1>3, <1>4

-----------------------------------------------------------------------------
\* What the end of a call leaves
EndsWell(c) == call[c].pc # "idle" /\ call'[c].pc = "idle" /\ call'[c].well = TRUE
SessionOrExcuse == session' # 0 \/ known' \cap {"dropped", "stale"} # {} \/ lapses > 0

LEMMA JoinEndsNone ==
  ASSUME LoginInv, NEW k, Resembles(k), NEW c \in Callers, Becomes(Join(Having(k), c)), NEW o \in Callers
  PROVE  ~EndsWell(o)
<1>1. LoginControl /\ k \in [Callers -> Logins]  BY DEF LoginInv, Resembles
<1>2. call'[c].pc = "wait" /\ \A x \in Callers : x # c => call'[x] = k[x]  BY <1>1, JoinEffect
<1>3. QED  BY <1>2 DEF EndsWell, Resembles

LEMMA LandsEndsItsOwn ==
  ASSUME LoginInv, NEW k, Resembles(k), NEW c \in Callers, NEW well \in BOOLEAN,
         Becomes(Lands(Having(k), c, well)), NEW o \in Callers, EndsWell(o)
  PROVE  well = TRUE
<1>1. LoginControl /\ k \in [Callers -> Logins]  BY DEF LoginInv, Resembles
<1>2. /\ \A x \in Callers : k[x].on # c => call'[x] = k[x]
      /\ \A x \in Callers : k[x].on = c => call'[x].well = well
  BY <1>1, LandsEffect
<1>3. QED  BY <1>2 DEF EndsWell, Resembles

LEMMA LoggedInStep ==
  ASSUME LoginInv, SessionNext, NEW o \in Callers, EndsWell(o)
  PROVE  SessionOrExcuse
<1>1. State = Having(call) /\ Resembles(call) /\ LoginControl  BY CallsResemble DEF LoginInv
<1>2. ASSUME NEW c \in Callers, Login(c) PROVE FALSE
  <2>1. CASE session = 0
    <3>1. Becomes(Join(Having(call), c))  BY <1>1, <1>2, <2>1 DEF Login
    <3>2. QED  BY <1>1, <3>1, JoinEndsNone
  <2>2. CASE session # 0
    <3>1. PICK where \in {"check", "profile"} : Becomes(SendWith(State, c, where, session))
      BY <1>2, <2>2 DEF Login
    <3>2. session \in Nat  BY SessionAssumption DEF LoginInv, LoginData
    <3>3. call'[c].pc = where /\ \A x \in Callers : x # c => call'[x] = call[x]
      BY <1>1, <3>1, <3>2, SendEffect
    <3>4. QED  BY <3>3 DEF EndsWell
  <2>3. QED  BY <2>1, <2>2
<1>3. ASSUME NEW c \in Callers, CheckEnds(c) PROVE SessionOrExcuse
  <2>1. CASE /\ Note(IF session = 0 THEN {"dropped"} ELSE {}) /\ UNCHANGED session
    BY <2>1 DEF Note, SessionOrExcuse
  <2>2. CASE Becomes(Join(State, c))
    <3>1. Becomes(Join(Having(call), c))  BY <1>1, <2>2
    <3>2. QED  BY <1>1, <3>1, JoinEndsNone
  <2>3. QED  BY <1>3, <2>1, <2>2 DEF CheckEnds
<1>4. ASSUME NEW c \in Callers, ProfileEnds(c) PROVE SessionOrExcuse
  <2>1. CASE /\ UNCHANGED session
             /\ Note((IF session = 0 THEN {"dropped"} ELSE {}) \cup (IF cur # NoOne THEN {"crossed"} ELSE {}))
    BY <2>1 DEF Note, SessionOrExcuse
  <2>2. CASE Becomes(Join(State, c))
    <3>1. Becomes(Join(Having(call), c))  BY <1>1, <2>2
    <3>2. QED  BY <1>1, <3>1, JoinEndsNone
  <2>3. QED  BY <1>4, <2>1, <2>2 DEF ProfileEnds
<1>5. ASSUME NEW c \in Callers, Becomes(Lands(State, c, FALSE)) PROVE FALSE
  <2>1. PICK well \in BOOLEAN : well = FALSE /\ Becomes(Lands(Having(call), c, well))  BY <1>1, <1>5
  <2>2. well = TRUE  BY <1>1, <2>1, LandsEndsItsOwn
  <2>3. QED  BY <2>1, <2>2
<1>6. ASSUME NEW c \in Callers, WxEnds(c) PROVE SessionOrExcuse
  <2>1. CASE Becomes([State EXCEPT !.flight[c] = [at |-> "post", inviter |-> pending]])
    <3>1. call' = call  BY <2>1 DEF Becomes, State
    <3>2. QED  BY <3>1 DEF EndsWell
  <2>2. CASE Note({"dropped"} \cup Crosses(c))  BY <2>2 DEF Note, SessionOrExcuse
  <2>3. QED  BY <1>5, <1>6, <2>1, <2>2 DEF WxEnds
<1>7. ASSUME NEW c \in Callers, PostArrives(c) PROVE SessionOrExcuse
  <2>1. last' = last + 1 /\ last \in Nat /\ session' = last'
    BY <1>7, SessionAssumption DEF PostArrives, Registers, LoginInv, LoginData
  <2>2. QED  BY <2>1 DEF SessionOrExcuse
<1>8. ASSUME NEW c \in Callers, PostFails(c) PROVE SessionOrExcuse
  BY <1>5, <1>8 DEF PostFails
<1>9. ASSUME NEW c \in Callers, ClaimEnds(c) PROVE SessionOrExcuse
  <2>1. session \in live \/ SessionExcused  BY <1>9 DEF ClaimEnds, LoginInv, SessionKept
  <2>2. 0 \notin live  BY DEF LoginInv, LoginData
  <2>3. session' = session /\ known \subseteq known'  BY <1>9 DEF ClaimEnds, Phone, Note
  <2>4. QED  BY <2>1, <2>2, <2>3 DEF SessionExcused, SessionOrExcuse
<1>10. ASSUME LeavePage PROVE SessionOrExcuse
  <2> DEFINE s == [State EXCEPT !.call[Other].left = TRUE]
  <2>1. PICK k : s = Having(k) /\ Resembles(k)  BY LeftResembles
  <2>2. Other \in Callers  BY DEF Callers
  <2>3. CASE Becomes(Join(Having(k), Other))  BY <2>1, <2>2, <2>3, JoinEndsNone
  <2>4. CASE Becomes(Lands(Having(k), Other, FALSE))
    <3>1. PICK well \in BOOLEAN : well = FALSE /\ Becomes(Lands(Having(k), Other, well))  BY <2>4
    <3>2. QED  BY <2>1, <2>2, <3>1, LandsEndsItsOwn
  <2>5. CASE Becomes(Having(k))
    <3>1. call' = k  BY <2>5 DEF Becomes, Having
    <3>2. QED  BY <2>1, <3>1 DEF EndsWell, Resembles
  <2>6. QED  BY <1>10, <2>1, <2>3, <2>4, <2>5 DEF LeavePage
<1>11. ASSUME Lapse \/ Request \/ RequestEnds \/ SceneResolves PROVE FALSE
  <2>1. call' = call  BY <1>11 DEF Lapse, Request, RequestEnds, SceneResolves
  <2>2. QED  BY <2>1 DEF EndsWell
<1>12. QED
  BY <1>2, <1>3, <1>4, <1>6, <1>7, <1>8, <1>9, <1>10, <1>11 DEF SessionNext, Progress

-----------------------------------------------------------------------------
(***************************************************************************)
(* The list of days                                                        *)
(***************************************************************************)
Entries == [day : Nat, cover : Nat]
Requested == [on : BOOLEAN, cursor : Nat, n : Nat]
FeedPages ==
  [list : Seq(Entries), cursor : Nat, fin : BOOLEAN, loading : BOOLEAN, isLogin : BOOLEAN, once : BOOLEAN,
   need : BOOLEAN, shown : BOOLEAN, flow : {"idle", "login", "fetch", "stats"},
   kind : {"show", "pull", "entry", "memory"}, more : Requested, page : Requested, poll : Nat, was : Nat]

\* A cursor among k days, and a list of them.
Cursors(k) == {0} \cup 2..k
Listed(l, k) ==
  /\ l \in Seq(Entries)
  /\ \A i \in 1..Len(l) : l[i].day \in 1..k /\ l[i].cover \in {10 * l[i].day, 10 * l[i].day + 1}

FeedData ==
  /\ f \in FeedPages /\ Listed(f.list, days) /\ Len(f.list) <= MaxList
  /\ f.cursor \in Cursors(days)
  /\ f.more.cursor \in Cursors(days) /\ f.more.n \in 0..days
  /\ f.page.cursor \in Cursors(days) /\ f.page.n \in 0..days
  /\ days \in OldDays..MaxDays /\ reloads \in 0..MaxReloads /\ feedHides \in 0..MaxFeedHides
  /\ slipped \in BOOLEAN /\ raced \in BOOLEAN /\ blanked \in BOOLEAN

\* Which requests there are, and what a reload has reset.
FeedRequests ==
  /\ f.list = <<>> => f.cursor = 0
  /\ f.flow = "fetch" <=> f.page.on
  /\ f.flow = "fetch" => ~f.more.on /\ f.page.cursor = f.cursor /\ ~f.fin
  /\ f.flow = "fetch" /\ f.kind = "pull" => f.cursor = 0
  /\ ~f.shown => f.flow \in {"idle", "login"} /\ ~f.more.on
  /\ f.kind = "show" /\ f.flow \in {"login", "fetch"} => f.list = <<>> /\ ~f.fin
  /\ f.kind = "show" /\ f.flow # "idle" => ~f.more.on

\* The list is a run, and what is asked for next goes on with it.
FeedRun ==
  ~slipped =>
    /\ Run(f.list)
    /\ f.list # <<>> /\ ~f.fin /\ ~(f.flow = "fetch" /\ f.kind = "pull") => f.cursor = f.list[Len(f.list)].day
    /\ f.more.on /\ f.list # <<>> => f.more.cursor = f.cursor /\ ~f.fin

\* The first page has the newest day, or the page knows that it has not.
FeedNewest ==
  /\ f.more.on => f.need \/ f.more.n = days
  /\ f.page.on => raced \/ f.page.n = days
  /\ ~slipped /\ ~raced /\ f.list # <<>> /\ (~f.need \/ (f.flow = "stats" /\ f.kind = "show")) =>
       f.list[1].day = days

\* An empty list is one of no days, or will be loaded again.
FeedBlank ==
  /\ f.once /\ f.list = <<>> /\ ~blanked /\ ~raced /\ days > 0 =>
       f.need \/ (f.kind = "memory" /\ f.flow \in {"login", "fetch"})
  /\ f.flow = "stats" /\ f.kind = "show" /\ f.list = <<>> => raced \/ days = 0
  /\ f.fin /\ f.list = <<>> => f.need \/ raced \/ days = 0

FeedInv == FeedData /\ FeedRequests /\ FeedRun /\ FeedNewest /\ FeedBlank

LEMMA FeedBounds ==
  /\ MaxList \in Nat /\ OldDays \in Nat /\ MaxDays \in Nat /\ MaxReloads \in Nat /\ MaxFeedHides \in Nat
  /\ PageSize \in Nat /\ 1 <= PageSize /\ PageSize <= MaxList /\ OldDays <= MaxDays
BY FeedAssumption

LEMMA CoverIs == ASSUME NEW day \in Nat PROVE CoverOf(day) \in {10 * day, 10 * day + 1}
BY DEF CoverOf

\* A page begins with the day before its cursor, or with the newest, and the
\* cursor after it is its last day.
LEMMA PageIs ==
  ASSUME NEW k \in Nat, NEW n \in 0..k, NEW c \in Cursors(k)
  PROVE  /\ Listed(Page(c, n), k) /\ Run(Page(c, n)) /\ Len(Page(c, n)) <= PageSize
         /\ Page(c, n) = <<>> <=> c = 0 /\ n = 0
         /\ Page(c, n) # <<>> => Page(c, n)[1].day = First(c, n)
         /\ NextCursor(c, n) \in Cursors(k)
         /\ NextCursor(c, n) # 0 => Page(c, n) # <<>> /\ Page(c, n)[Len(Page(c, n))].day = NextCursor(c, n)
<1> DEFINE a == First(c, n)
           s == Size(c, n)
           p == Page(c, n)
<1>1. a \in 0..k /\ (a = 0 <=> c = 0 /\ n = 0)  BY DEF First, Cursors
<1>2. s \in 0..a /\ s <= PageSize /\ (s = 0 <=> a = 0) /\ (s < PageSize => s = a)
  BY <1>1, FeedBounds DEF Size
<1> HIDE DEF a, s
<1>3. \A i \in 1..s : a - i + 1 \in Nat /\ a - i + 1 \in 1..k  BY <1>1, <1>2
<1>4. p = [i \in 1..s |-> [day |-> a - i + 1, cover |-> CoverOf(a - i + 1)]]  BY DEF Page, a, s
<1>5. \A i \in 1..s : CoverOf(a - i + 1) \in {10 * (a - i + 1), 10 * (a - i + 1) + 1}  BY <1>3, CoverIs
<1>6. \A i \in 1..s : CoverOf(a - i + 1) \in Nat  BY <1>3, <1>5
<1>7. p \in Seq(Entries) /\ Len(p) = s
  BY <1>2, <1>3, <1>4, <1>6 DEF Entries
<1>8. \A i \in 1..s : p[i].day = a - i + 1 /\ p[i].cover = CoverOf(a - i + 1)  BY <1>4
<1> HIDE DEF p
<1>9. Listed(p, k)  BY <1>3, <1>5, <1>7, <1>8 DEF Listed
<1>10. s > 0 => p[1].day = a  BY <1>1, <1>2, <1>8
<1>11. Run(p)
  <2>1. \A i \in 1..Len(p) : p[i].day = p[1].day - (i - 1)  BY <1>1, <1>2, <1>7, <1>8
  <2>2. QED  BY <2>1 DEF Run
<1>12. p = <<>> <=> s = 0  BY <1>7
<1>13. NextCursor(c, n) = IF a - PageSize + 1 > 1 THEN a - PageSize + 1 ELSE 0
  BY DEF NextCursor, a
<1>14. NextCursor(c, n) \in Cursors(k)  BY <1>1, <1>13, FeedBounds DEF Cursors
<1>15. NextCursor(c, n) # 0 => s = PageSize /\ NextCursor(c, n) = a - s + 1
  BY <1>1, <1>2, <1>13, FeedBounds
<1>16. NextCursor(c, n) # 0 => p # <<>> /\ p[Len(p)].day = NextCursor(c, n)
  BY <1>2, <1>7, <1>8, <1>12, <1>15, FeedBounds
<1>17. QED  BY <1>1, <1>2, <1>7, <1>9, <1>10, <1>11, <1>12, <1>14, <1>16 DEF p, a

\* Two runs make one when the second goes on with the first.
LEMMA RunsJoin ==
  ASSUME NEW k \in Nat, NEW l, NEW p, Listed(l, k), Listed(p, k)
  PROVE  /\ Listed(l \o p, k) /\ Len(l \o p) = Len(l) + Len(p)
         /\ l \o p = <<>> <=> l = <<>> /\ p = <<>>
         /\ l # <<>> => (l \o p)[1] = l[1]
         /\ l = <<>> => l \o p = p
         /\ p # <<>> => (l \o p)[Len(l \o p)] = p[Len(p)]
         /\ Run(l) /\ Run(p) /\ (l # <<>> /\ p # <<>> => p[1].day = l[Len(l)].day - 1) => Run(l \o p)
<1>1. l \in Seq(Entries) /\ p \in Seq(Entries)  BY DEF Listed
<1>2. /\ l \o p \in Seq(Entries) /\ Len(l \o p) = Len(l) + Len(p) /\ Len(l) \in Nat /\ Len(p) \in Nat
      /\ \A i \in 1..Len(l) + Len(p) : (l \o p)[i] = IF i <= Len(l) THEN l[i] ELSE p[i - Len(l)]
      /\ l = <<>> <=> Len(l) = 0
      /\ p = <<>> <=> Len(p) = 0
  BY <1>1
<1>3. \A i \in 1..Len(l) + Len(p) : i <= Len(l) => i \in 1..Len(l)  BY <1>2
<1>4. \A i \in 1..Len(l) + Len(p) : ~(i <= Len(l)) => i - Len(l) \in 1..Len(p)  BY <1>2
<1>5. Listed(l \o p, k)
  <2> SUFFICES ASSUME NEW i \in 1..Len(l \o p)
               PROVE  /\ (l \o p)[i].day \in 1..k
                      /\ (l \o p)[i].cover \in {10 * (l \o p)[i].day, 10 * (l \o p)[i].day + 1}
    BY <1>2 DEF Listed
  <2>1. CASE i <= Len(l)
    <3>1. (l \o p)[i] = l[i] /\ i \in 1..Len(l)  BY <1>2, <1>3, <2>1
    <3>2. QED  BY <3>1 DEF Listed
  <2>2. CASE ~(i <= Len(l))
    <3>1. (l \o p)[i] = p[i - Len(l)] /\ i - Len(l) \in 1..Len(p)  BY <1>2, <1>4, <2>2
    <3>2. QED  BY <3>1 DEF Listed
  <2>3. QED  BY <2>1, <2>2
<1>6. l \o p = <<>> <=> l = <<>> /\ p = <<>>  BY <1>2
<1>7. l # <<>> => (l \o p)[1] = l[1]  BY <1>2
<1>8. l = <<>> => l \o p = p  BY <1>1
<1>9. p # <<>> => (l \o p)[Len(l \o p)] = p[Len(p)]
  <2> SUFFICES ASSUME p # <<>> PROVE (l \o p)[Len(l \o p)] = p[Len(p)]  OBVIOUS
  <2>1. Len(l) + Len(p) \in 1..Len(l) + Len(p) /\ ~(Len(l) + Len(p) <= Len(l))  BY <1>2
  <2>2. (Len(l) + Len(p)) - Len(l) = Len(p)  BY <1>2
  <2>3. QED  BY <1>2, <2>1, <2>2
<1>10. Run(l) /\ Run(p) /\ (l # <<>> /\ p # <<>> => p[1].day = l[Len(l)].day - 1) => Run(l \o p)
  <2> SUFFICES ASSUME Run(l), Run(p), l # <<>> /\ p # <<>> => p[1].day = l[Len(l)].day - 1, l # <<>>, p # <<>>
               PROVE  Run(l \o p)
    <3>1. p = <<>> => l \o p = l  BY <1>1
    <3>2. QED  BY <3>1, <1>8
  <2>1. \A i \in 1..Len(l) : l[i].day = l[1].day - (i - 1) /\ l[i].day \in Nat
    BY DEF Run, Listed
  <2>2. \A i \in 1..Len(p) : p[i].day = p[1].day - (i - 1)  BY DEF Run
  <2>3. Len(l) \in 1..Len(l) /\ 1 \in 1..Len(l)  BY <1>2
  <2>4. l[Len(l)].day = l[1].day - (Len(l) - 1) /\ l[1].day \in Nat  BY <2>1, <2>3
  <2>5. ASSUME NEW i \in 1..Len(l \o p) PROVE (l \o p)[i].day = l[1].day - (i - 1)
    <3>1. CASE i <= Len(l)
      <4>1. (l \o p)[i] = l[i] /\ i \in 1..Len(l)  BY <1>2, <1>3, <3>1
      <4>2. QED  BY <4>1, <2>1
    <3>2. CASE ~(i <= Len(l))
      <4>1. (l \o p)[i] = p[i - Len(l)] /\ i - Len(l) \in 1..Len(p)  BY <1>2, <1>4, <3>2
      <4>2. (l \o p)[i].day = p[1].day - ((i - Len(l)) - 1)  BY <4>1, <2>2
      <4>3. p[1].day = l[1].day - (Len(l) - 1) - 1  BY <2>4
      <4>4. i \in Nat /\ Len(l) \in Nat /\ l[1].day \in Nat  BY <1>2, <2>4
      <4>5. QED  BY <4>2, <4>3, <4>4
    <3>3. QED  BY <3>1, <3>2
  <2>6. QED  BY <2>5, <1>7 DEF Run
<1>11. QED  BY <1>2, <1>5, <1>6, <1>7, <1>8, <1>9, <1>10

LEMMA CutIs ==
  ASSUME NEW k \in Nat, NEW l, Listed(l, k), Len(l) > MaxList
  PROVE  LET cut == SubSeq(l, 1, MaxList)
         IN  /\ Listed(cut, k) /\ Len(cut) = MaxList /\ cut # <<>> /\ cut[1] = l[1]
             /\ Run(l) => Run(cut)
<1> DEFINE cut == SubSeq(l, 1, MaxList)
<1>1. l \in Seq(Entries) /\ Len(l) \in Nat /\ MaxList \in Nat /\ 1 <= MaxList
  BY FeedBounds DEF Listed
<1>2. cut \in Seq(Entries) /\ Len(cut) = MaxList /\ \A i \in 1..MaxList : cut[i] = l[i]  BY <1>1
<1>3. \A i \in 1..MaxList : i \in 1..Len(l)  BY <1>1
<1> HIDE DEF cut
<1>4. cut # <<>> /\ cut[1] = l[1]  BY <1>1, <1>2
<1>5. Listed(cut, k)  BY <1>2, <1>3 DEF Listed
<1>6. Run(l) => Run(cut)  BY <1>2, <1>3, <1>4 DEF Run
<1>7. QED  BY <1>2, <1>4, <1>5, <1>6 DEF cut

\* What an answer makes of the list: begin is what it is added to.
LEMMA AddIs ==
  ASSUME FeedInv, NEW q, q.cursor \in Cursors(days), NEW n \in 0..days, NEW replace \in BOOLEAN
  PROVE  LET g     == Add(f, q, n, replace)
             begin == IF replace THEN <<>> ELSE f.list
         IN  /\ g \in FeedPages /\ ~g.loading
             /\ g.isLogin = f.isLogin /\ g.once = f.once /\ g.need = f.need /\ g.shown = f.shown
             /\ g.flow = f.flow /\ g.kind = f.kind /\ g.more = f.more /\ g.page = f.page
             /\ g.poll = f.poll /\ g.was = f.was
             /\ Listed(g.list, days) /\ Len(g.list) <= MaxList /\ g.cursor \in Cursors(days)
             /\ g.list = <<>> => g.cursor = 0 /\ g.fin /\ q.cursor = 0 /\ n = 0 /\ begin = <<>>
             /\ Run(begin) /\ (begin # <<>> => q.cursor = begin[Len(begin)].day) =>
                  Run(g.list) /\ (~g.fin => g.list # <<>> /\ g.cursor = g.list[Len(g.list)].day)
             /\ begin # <<>> => g.list # <<>> /\ g.list[1] = begin[1]
             /\ begin = <<>> /\ q.cursor = 0 /\ g.list # <<>> => g.list[1].day = n
<1> DEFINE begin == IF replace THEN <<>> ELSE f.list
           p == Page(q.cursor, n)
           x == NextCursor(q.cursor, n)
           all == begin \o p
           g == Add(f, q, n, replace)
<1>1. f \in FeedPages /\ days \in Nat /\ Listed(f.list, days) /\ Len(f.list) \in Nat /\ Len(f.list) <= MaxList
  BY FeedBounds DEF FeedInv, FeedData, Listed
<1>2. Listed(<<>>, days) /\ Len(<<>>) = 0  BY DEF Listed
<1>3. Listed(begin, days)  BY <1>1, <1>2
<1>4. /\ Listed(p, days) /\ Run(p) /\ Len(p) <= PageSize
      /\ p = <<>> <=> q.cursor = 0 /\ n = 0
      /\ p # <<>> => p[1].day = First(q.cursor, n)
      /\ x \in Cursors(days)
      /\ x # 0 => p # <<>> /\ p[Len(p)].day = x
  BY <1>1, PageIs
<1> HIDE DEF begin, p, x
<1>5. /\ Listed(all, days) /\ Len(all) = Len(begin) + Len(p)
      /\ all = <<>> <=> begin = <<>> /\ p = <<>>
      /\ begin # <<>> => all[1] = begin[1]
      /\ begin = <<>> => all = p
      /\ p # <<>> => all[Len(all)] = p[Len(p)]
      /\ Run(begin) /\ Run(p) /\ (begin # <<>> /\ p # <<>> => p[1].day = begin[Len(begin)].day - 1) => Run(all)
  BY <1>1, <1>3, <1>4, RunsJoin
<1> HIDE DEF all
<1> DEFINE cut == ~replace /\ Len(all) > MaxList
<1>6. /\ g = [f EXCEPT !.cursor = x, !.loading = FALSE, !.fin = (x = 0 \/ cut),
                       !.list = IF cut THEN SubSeq(all, 1, MaxList) ELSE all]
  <2>1. replace => all = p  BY <1>5 DEF begin
  <2>2. ~replace => all = f.list \o p  BY DEF all, begin
  <2>3. QED  BY <2>1, <2>2 DEF Add, p, x
<1>7. cut => /\ Listed(SubSeq(all, 1, MaxList), days) /\ Len(SubSeq(all, 1, MaxList)) = MaxList
             /\ SubSeq(all, 1, MaxList) # <<>> /\ SubSeq(all, 1, MaxList)[1] = all[1]
             /\ Run(all) => Run(SubSeq(all, 1, MaxList))
  BY <1>1, <1>5, CutIs
<1>8. cut => all # <<>>
  BY FeedBounds
<1> HIDE DEF cut, g
<1>9. g.list = (IF cut THEN SubSeq(all, 1, MaxList) ELSE all) /\ g.cursor = x /\ g.fin = (x = 0 \/ cut)
  BY <1>1, <1>6 DEF FeedPages
<1>10. /\ ~g.loading
       /\ g.isLogin = f.isLogin /\ g.once = f.once /\ g.need = f.need /\ g.shown = f.shown
       /\ g.flow = f.flow /\ g.kind = f.kind /\ g.more = f.more /\ g.page = f.page
       /\ g.poll = f.poll /\ g.was = f.was
  BY <1>1, <1>6 DEF FeedPages
<1>11. Listed(g.list, days)  BY <1>5, <1>7, <1>9
<1>12. g \in FeedPages
  <2>1. g.list \in Seq(Entries)  BY <1>11 DEF Listed
  <2>2. x \in Nat  BY <1>1, <1>4 DEF Cursors
  <2>3. (IF cut THEN SubSeq(all, 1, MaxList) ELSE all) \in Seq(Entries)  BY <2>1, <1>9
  <2>4. (x = 0 \/ cut) \in BOOLEAN  BY DEF cut
  <2>5. QED  BY <1>1, <1>6, <2>2, <2>3, <2>4 DEF FeedPages
<1>13. Len(g.list) <= MaxList
  <2>1. CASE cut  BY <2>1, <1>7, <1>9, FeedBounds
  <2>2. CASE ~cut /\ replace
    <3>1. Len(all) = Len(p)  BY <2>2, <1>5 DEF begin
    <3>2. Len(p) \in Nat  BY <1>4 DEF Listed
    <3>3. QED  BY <2>2, <3>1, <3>2, <1>4, <1>9, FeedBounds
  <2>3. CASE ~cut /\ ~replace
    <3>1. Len(all) \in Nat  BY <1>5 DEF Listed
    <3>2. QED  BY <2>3, <3>1, <1>9, FeedBounds DEF cut
  <2>4. QED  BY <2>1, <2>2, <2>3
<1>14. g.list # <<>> <=> all # <<>>  BY <1>7, <1>8, <1>9
<1>15. g.list = <<>> => g.cursor = 0 /\ g.fin /\ q.cursor = 0 /\ n = 0 /\ begin = <<>>
  BY <1>4, <1>5, <1>9, <1>14
<1>16. begin # <<>> => g.list # <<>> /\ g.list[1] = begin[1]
  BY <1>5, <1>7, <1>9, <1>14
<1>17. begin = <<>> /\ q.cursor = 0 /\ g.list # <<>> => g.list[1].day = n
  <2>1. q.cursor = 0 => First(q.cursor, n) = n  BY DEF First
  <2>2. QED  BY <2>1, <1>4, <1>5, <1>7, <1>9, <1>14
<1>18. ASSUME Run(begin), begin # <<>> => q.cursor = begin[Len(begin)].day
       PROVE  Run(g.list) /\ (~g.fin => g.list # <<>> /\ g.cursor = g.list[Len(g.list)].day)
  <2>1. ASSUME begin # <<>>, p # <<>> PROVE p[1].day = begin[Len(begin)].day - 1
    <3>1. Len(begin) \in 1..Len(begin)  BY <1>3, <2>1 DEF Listed
    <3>2. begin[Len(begin)].day \in 1..days  BY <1>3, <3>1 DEF Listed
    <3>3. First(q.cursor, n) = q.cursor - 1  BY <1>18, <2>1, <3>2, <1>1 DEF First
    <3>4. QED  BY <1>4, <1>18, <2>1, <3>3
  <2>2. Run(all)  BY <2>1, <1>4, <1>5, <1>18
  <2>3. Run(g.list)  BY <2>2, <1>7, <1>9
  <2>4. ~g.fin => x # 0 /\ ~cut  BY <1>9
  <2>5. QED  BY <2>3, <2>4, <1>4, <1>5, <1>9
<1>19. QED
  BY <1>4, <1>9, <1>10, <1>11, <1>12, <1>13, <1>15, <1>16, <1>17, <1>18 DEF g, begin

-----------------------------------------------------------------------------
LEMMA FeedInvInit == FeedInit => FeedInv
<1> SUFFICES ASSUME FeedInit PROVE FeedInv  OBVIOUS
<1>1. f = FirstShown /\ days = OldDays /\ ~slipped /\ ~raced /\ ~blanked /\ reloads = 0 /\ feedHides = 0
  BY DEF FeedInit
<1>2. /\ f \in FeedPages /\ f.list = <<>> /\ f.cursor = 0 /\ ~f.fin /\ ~f.once /\ f.flow = "idle"
      /\ ~f.more.on /\ ~f.page.on
      /\ f.more.cursor = 0 /\ f.more.n = 0 /\ f.page.cursor = 0 /\ f.page.n = 0
  BY <1>1 DEF FirstShown, FeedPages, NoRequest, Requested, Entries
<1>3. Listed(<<>>, days) /\ Len(<<>>) = 0 /\ Run(<<>>)  BY DEF Listed, Run
<1>4. FeedData
  <2>1. slipped \in BOOLEAN /\ raced \in BOOLEAN /\ blanked \in BOOLEAN  BY DEF FeedInit
  <2>2. days \in OldDays..MaxDays /\ 0 \in 0..days /\ 0 \in Cursors(days) /\ 0 <= MaxList
        /\ reloads \in 0..MaxReloads /\ feedHides \in 0..MaxFeedHides
    BY <1>1, FeedBounds DEF Cursors
  <2>3. QED  BY <1>2, <1>3, <2>1, <2>2 DEF FeedData
<1>5. FeedRequests  BY <1>2 DEF FeedRequests
<1>6. FeedRun  BY <1>2, <1>3 DEF FeedRun
<1>7. FeedNewest /\ FeedBlank  BY <1>2 DEF FeedNewest, FeedBlank
<1>8. QED  BY <1>4, <1>5, <1>6, <1>7 DEF FeedInv

\* What the data of the page are, for the steps that leave most of it alone.
LEMMA FeedIs ==
  FeedInv => /\ f \in FeedPages /\ days \in Nat /\ Listed(f.list, days) /\ Len(f.list) \in Nat
             /\ f.more \in Requested /\ f.page \in Requested
             /\ Listed(<<>>, days) /\ Len(<<>>) = 0 /\ <<>> \in Seq(Entries) /\ 0 \in Cursors(days) /\ Run(<<>>)
             /\ NoRequest \in Requested
BY FeedBounds DEF FeedInv, FeedData, Listed, FeedPages, Cursors, Run, NoRequest, Requested

\* A longer history of days takes nothing away.
LEMMA DaysGrow ==
  ASSUME FeedInv, days' \in {days, days + 1}
  PROVE  /\ days' \in Nat /\ \A l : Listed(l, days) => Listed(l, days')
         /\ Cursors(days) \subseteq Cursors(days') /\ 0..days \subseteq 0..days'
<1>1. days \in Nat  BY FeedIs
<1>2. 1..days \subseteq 1..days' /\ 2..days \subseteq 2..days' /\ 0..days \subseteq 0..days'  BY <1>1
<1>3. QED  BY <1>1, <1>2 DEF Listed, Cursors

\* Reload, when it does something.
LEMMA ReloadIs ==
  ASSUME NEW g \in FeedPages, NEW kind \in {"show", "entry", "memory"}
  PROVE  LET h == Reload(g, kind)
         IN  /\ h \in FeedPages
             /\ g.flow # "idle" \/ ~g.shown => h = g
             /\ g.flow = "idle" /\ g.shown =>
                  /\ h.flow = "login" /\ h.kind = kind /\ h.cursor = 0 /\ ~h.fin /\ h.list = <<>>
                  /\ h.more = g.more /\ h.page = g.page /\ h.need = g.need /\ h.once = g.once
                  /\ h.shown /\ h.isLogin = g.isLogin /\ h.poll = g.poll /\ h.was = g.was
<1> DEFINE r == [g EXCEPT !.flow = "login", !.kind = kind, !.cursor = 0, !.fin = FALSE, !.list = <<>>, !.loading = FALSE]
<1>1. <<>> \in Seq(Entries)  OBVIOUS
<1>2. r \in FeedPages  BY <1>1 DEF FeedPages
<1>3. /\ r.flow = "login" /\ r.kind = kind /\ r.cursor = 0 /\ r.fin = FALSE /\ r.list = <<>>
      /\ r.more = g.more /\ r.page = g.page /\ r.need = g.need /\ r.once = g.once
      /\ r.shown = g.shown /\ r.isLogin = g.isLogin /\ r.poll = g.poll /\ r.was = g.was
  BY DEF FeedPages
<1>4. Reload(g, kind) = IF g.flow # "idle" \/ ~g.shown THEN g ELSE r  BY DEF Reload
<1> HIDE DEF r
<1>5. QED  BY <1>2, <1>3, <1>4

LEMMA ShowFeedKeeps == FeedInv /\ ShowFeed => FeedInv'
<1> SUFFICES ASSUME FeedInv, ShowFeed PROVE FeedInv'  OBVIOUS
<1> DEFINE back == [f EXCEPT !.shown = TRUE]
<1>1. /\ ~f.shown /\ Same
      /\ f' = IF f.need \/ (f.list = <<>> /\ ~f.once) THEN Reload(back, "show") ELSE back
  BY DEF ShowFeed
<1>2. /\ back \in FeedPages /\ back.shown /\ back.list = f.list /\ back.cursor = f.cursor /\ back.fin = f.fin
      /\ back.once = f.once /\ back.need = f.need /\ back.flow = f.flow /\ back.kind = f.kind
      /\ back.more = f.more /\ back.page = f.page
  BY FeedIs DEF FeedPages
<1> HIDE DEF back
<1>3. f.flow \in {"idle", "login"} /\ ~f.more.on  BY <1>1 DEF FeedInv, FeedRequests
<1>4. CASE f' = back
  <2>1. FeedData'  BY <1>1, <1>2, <1>4 DEF FeedInv, FeedData, Same
  <2>2. FeedRequests'  BY <1>2, <1>4 DEF FeedInv, FeedRequests
  <2>3. FeedRun'  BY <1>1, <1>2, <1>4 DEF FeedInv, FeedRun, Same
  <2>4. FeedNewest' /\ FeedBlank'  BY <1>1, <1>2, <1>4 DEF FeedInv, FeedNewest, FeedBlank, Same
  <2>5. QED  BY <2>1, <2>2, <2>3, <2>4 DEF FeedInv
<1>5. CASE f' # back
  <2>1. /\ f' \in FeedPages /\ f'.flow = "login" /\ f'.kind = "show" /\ f'.cursor = 0 /\ ~f'.fin /\ f'.list = <<>>
        /\ f'.more = f.more /\ f'.page = f.page /\ f'.need = f.need /\ f'.once = f.once
        /\ f'.shown /\ f.flow = "idle" /\ (f.need \/ ~f.once)
    BY <1>1, <1>2, <1>5, ReloadIs
  <2>2. FeedData'
    BY <1>1, <2>1, FeedIs, FeedBounds DEF FeedInv, FeedData, Same
  <2>3. FeedRequests'  BY <1>3, <2>1 DEF FeedInv, FeedRequests
  <2>4. FeedRun'  BY <2>1, FeedIs DEF FeedRun
  <2>5. FeedNewest' /\ FeedBlank'  BY <1>1, <1>3, <2>1 DEF FeedInv, FeedRequests, FeedNewest, FeedBlank, Same
  <2>6. QED  BY <2>2, <2>3, <2>4, <2>5 DEF FeedInv
<1>6. QED  BY <1>4, <1>5

LEMMA PullKeeps == FeedInv /\ PullRefresh => FeedInv'
<1> SUFFICES ASSUME FeedInv, PullRefresh PROVE FeedInv'  OBVIOUS
<1>1. /\ f.shown /\ f.flow = "idle" /\ reloads < MaxReloads /\ reloads' = reloads + 1
      /\ f' = [f EXCEPT !.flow = "login", !.kind = "pull"]
      /\ UNCHANGED <<days, drawn, slipped, raced, blanked, feedHides>>
  BY DEF PullRefresh, Pull, Counted
<1>2. /\ f' \in FeedPages /\ f'.flow = "login" /\ f'.kind = "pull" /\ f'.shown
      /\ f'.list = f.list /\ f'.cursor = f.cursor /\ f'.fin = f.fin /\ f'.once = f.once /\ f'.need = f.need
      /\ f'.more = f.more /\ f'.page = f.page
  BY <1>1, FeedIs DEF FeedPages
<1>3. FeedData'
  <2>1. reloads' \in 0..MaxReloads  BY <1>1, FeedBounds DEF FeedInv, FeedData
  <2>2. QED  BY <1>1, <1>2, <2>1 DEF FeedInv, FeedData
<1>4. FeedRequests'  BY <1>1, <1>2 DEF FeedInv, FeedRequests
<1>5. FeedRun'  BY <1>1, <1>2 DEF FeedInv, FeedRun
<1>6. FeedNewest' /\ FeedBlank'  BY <1>1, <1>2 DEF FeedInv, FeedNewest, FeedBlank
<1>7. QED  BY <1>3, <1>4, <1>5, <1>6 DEF FeedInv

LEMMA EntryKeeps == FeedInv /\ EntrySubmit => FeedInv'
<1> SUFFICES ASSUME FeedInv, EntrySubmit PROVE FeedInv'  OBVIOUS
<1> DEFINE noted == [f EXCEPT !.need = TRUE]
           g == Reload(noted, "entry")
<1>1. /\ f.shown /\ reloads < MaxReloads /\ reloads' = reloads + 1 /\ days' \in {days, days + 1} /\ days' <= MaxDays
      /\ UNCHANGED <<drawn, slipped, blanked, feedHides>> /\ raced' = (raced \/ f.flow # "idle")
  BY DEF EntrySubmit, Counted
<1>2. /\ noted \in FeedPages /\ noted.need /\ noted.shown /\ noted.list = f.list /\ noted.cursor = f.cursor
      /\ noted.fin = f.fin /\ noted.once = f.once /\ noted.flow = f.flow /\ noted.kind = f.kind
      /\ noted.more = f.more /\ noted.page = f.page
  BY <1>1, FeedIs DEF FeedPages
<1> HIDE DEF noted
<1>3. g \in FeedPages  BY <1>2, ReloadIs
<1>4. \E was \in Nat : f' = [g EXCEPT !.poll = days', !.was = was]
  <2>1. days' \in Nat  BY <1>1, DaysGrow
  <2>2. CoverOf(days') \in Nat  BY <2>1, CoverIs
  <2>3. QED  BY <2>2 DEF EntrySubmit, noted
<1> HIDE DEF g
<1>5. /\ f' \in FeedPages /\ f'.list = g.list /\ f'.cursor = g.cursor /\ f'.fin = g.fin
      /\ f'.once = g.once /\ f'.need = g.need /\ f'.shown = g.shown
      /\ f'.flow = g.flow /\ f'.kind = g.kind /\ f'.more = g.more /\ f'.page = g.page
  <2>1. days' \in Nat  BY <1>1, DaysGrow
  <2>2. QED  BY <1>3, <1>4, <2>1 DEF FeedPages
<1>6. FeedData' /\ f'.need /\ f'.shown
  <2>1. /\ f'.list \in {f.list, <<>>} /\ f'.cursor \in {f.cursor, 0} /\ f'.more = f.more /\ f'.page = f.page
        /\ f'.need /\ f'.shown
    BY <1>2, <1>5, ReloadIs DEF g
  <2>2. reloads' \in 0..MaxReloads  BY <1>1, FeedBounds DEF FeedInv, FeedData
  <2>3. days' \in OldDays..MaxDays  BY <1>1, FeedIs, FeedBounds DEF FeedInv, FeedData
  <2>4. slipped' \in BOOLEAN /\ raced' \in BOOLEAN /\ blanked' \in BOOLEAN /\ feedHides' \in 0..MaxFeedHides
    BY <1>1 DEF FeedInv, FeedData
  <2>5. Listed(f'.list, days') /\ Len(f'.list) <= MaxList /\ f'.cursor \in Cursors(days')
    <3>1. (\A l : Listed(l, days) => Listed(l, days')) /\ Cursors(days) \subseteq Cursors(days')
      BY <1>1, DaysGrow
    <3>2. Listed(f.list, days) /\ Len(f.list) <= MaxList /\ f.cursor \in Cursors(days)
      BY DEF FeedInv, FeedData
    <3>3. Listed(<<>>, days) /\ Len(<<>>) = 0 /\ 0 \in Cursors(days)  BY FeedIs
    <3>4. 0 <= MaxList  BY FeedBounds
    <3>5. QED  BY <2>1, <3>1, <3>2, <3>3, <3>4
  <2>6. /\ f'.more.cursor \in Cursors(days') /\ f'.more.n \in 0..days'
        /\ f'.page.cursor \in Cursors(days') /\ f'.page.n \in 0..days'
    BY <1>1, <2>1, DaysGrow DEF FeedInv, FeedData
  <2>7. QED  BY <1>5, <2>1, <2>2, <2>3, <2>4, <2>5, <2>6 DEF FeedData
<1>7. CASE f.flow # "idle"
  <2>1. /\ f'.list = f.list /\ f'.cursor = f.cursor /\ f'.fin = f.fin /\ f'.once = f.once
        /\ f'.flow = f.flow /\ f'.kind = f.kind /\ f'.more = f.more /\ f'.page = f.page
    BY <1>2, <1>5, <1>7, ReloadIs DEF g
  <2>2. raced'  BY <1>1, <1>7
  <2>3. FeedRequests'  BY <1>6, <2>1 DEF FeedInv, FeedRequests
  <2>4. FeedRun'  BY <1>1, <2>1 DEF FeedInv, FeedRun
  <2>5. FeedNewest' /\ FeedBlank'  BY <1>6, <2>2 DEF FeedNewest, FeedBlank
  <2>6. QED  BY <1>6, <2>3, <2>4, <2>5 DEF FeedInv
<1>8. CASE f.flow = "idle"
  <2>1. /\ f'.list = <<>> /\ f'.cursor = 0 /\ ~f'.fin
        /\ f'.flow = "login" /\ f'.kind = "entry" /\ f'.more = f.more /\ f'.page = f.page
    BY <1>1, <1>2, <1>5, <1>8, ReloadIs DEF g
  <2>2. FeedRequests'  BY <1>6, <1>8, <2>1 DEF FeedInv, FeedRequests
  <2>3. FeedRun'  BY <2>1, FeedIs DEF FeedRun
  <2>4. ~f'.page.on  BY <1>8, <2>1 DEF FeedInv, FeedRequests
  <2>5. FeedNewest' /\ FeedBlank'  BY <1>6, <2>1, <2>4 DEF FeedNewest, FeedBlank
  <2>6. QED  BY <1>6, <2>2, <2>3, <2>5 DEF FeedInv
<1>9. QED  BY <1>7, <1>8

LEMMA MemoryKeeps == FeedInv /\ MemoryCreateSubmit => FeedInv'
<1> SUFFICES ASSUME FeedInv, MemoryCreateSubmit PROVE FeedInv'  OBVIOUS
<1>1. /\ f.shown /\ reloads < MaxReloads /\ reloads' = reloads + 1 /\ f' = Reload(f, "memory")
      /\ UNCHANGED <<days, drawn, slipped, raced, blanked, feedHides>>
  BY DEF MemoryCreateSubmit, Counted
<1>2. reloads' \in 0..MaxReloads  BY <1>1, FeedBounds DEF FeedInv, FeedData
<1>3. CASE f.flow # "idle"
  <2>1. f' = f  BY <1>1, <1>3, FeedIs, ReloadIs
  <2>2. FeedData'  BY <1>1, <1>2, <2>1 DEF FeedInv, FeedData
  <2>3. FeedRequests'  BY <1>1, <2>1 DEF FeedInv, FeedRequests
  <2>4. FeedRun' /\ FeedNewest' /\ FeedBlank'
    BY <1>1, <2>1 DEF FeedInv, FeedRun, FeedNewest, FeedBlank
  <2>5. QED  BY <2>2, <2>3, <2>4 DEF FeedInv
<1>4. CASE f.flow = "idle"
  <2>1. /\ f' \in FeedPages /\ f'.list = <<>> /\ f'.cursor = 0 /\ ~f'.fin /\ f'.shown
        /\ f'.flow = "login" /\ f'.kind = "memory" /\ f'.more = f.more /\ f'.page = f.page
        /\ f'.need = f.need /\ f'.once = f.once
    BY <1>1, <1>4, FeedIs, ReloadIs
  <2>2. FeedData'
    BY <1>1, <1>2, <2>1, FeedIs, FeedBounds DEF FeedInv, FeedData
  <2>3. FeedRequests'  BY <1>4, <2>1 DEF FeedInv, FeedRequests
  <2>4. FeedRun'  BY <2>1, FeedIs DEF FeedRun
  <2>5. FeedNewest' /\ FeedBlank'  BY <1>1, <2>1 DEF FeedInv, FeedNewest, FeedBlank
  <2>6. QED  BY <2>2, <2>3, <2>4, <2>5 DEF FeedInv
<1>5. QED  BY <1>3, <1>4

LEMMA AddedKeeps == FeedInv /\ AddedElsewhere => FeedInv'
<1> SUFFICES ASSUME FeedInv, AddedElsewhere PROVE FeedInv'  OBVIOUS
<1>1. /\ ~f.shown /\ days < MaxDays /\ days' = days + 1 /\ f' = [f EXCEPT !.need = TRUE]
      /\ UNCHANGED <<drawn, slipped, raced, blanked, reloads, feedHides>>
  BY DEF AddedElsewhere
<1>2. /\ f' \in FeedPages /\ f'.need /\ f'.shown = f.shown /\ f'.list = f.list /\ f'.cursor = f.cursor
      /\ f'.fin = f.fin /\ f'.once = f.once /\ f'.flow = f.flow /\ f'.kind = f.kind
      /\ f'.more = f.more /\ f'.page = f.page
  BY <1>1, FeedIs DEF FeedPages
<1>3. f.flow \in {"idle", "login"} /\ ~f.more.on /\ ~f.page.on  BY <1>1 DEF FeedInv, FeedRequests
<1>4. FeedData'
  <2>1. days' \in OldDays..MaxDays  BY <1>1, FeedIs, FeedBounds DEF FeedInv, FeedData
  <2>2. days' \in {days, days + 1}  BY <1>1
  <2>3. QED  BY <1>1, <1>2, <2>1, <2>2, DaysGrow DEF FeedInv, FeedData
<1>5. FeedRequests'  BY <1>2 DEF FeedInv, FeedRequests
<1>6. FeedRun'  BY <1>1, <1>2 DEF FeedInv, FeedRun
<1>7. FeedNewest' /\ FeedBlank'  BY <1>2, <1>3 DEF FeedNewest, FeedBlank
<1>8. QED  BY <1>4, <1>5, <1>6, <1>7 DEF FeedInv

\* The end of a reload: Done, and what follows fetch.
LEMMA DoneIs ==
  ASSUME NEW g \in FeedPages, NEW loaded \in BOOLEAN
  PROVE  LET h == Done(g, loaded)
         IN  /\ h \in FeedPages /\ h.flow = "idle"
             /\ h.need = (IF loaded /\ g.kind = "show" THEN FALSE ELSE g.need)
             /\ h.once = (g.once \/ (loaded /\ g.kind = "show"))
             /\ h.list = g.list /\ h.cursor = g.cursor /\ h.fin = g.fin /\ h.shown = g.shown /\ h.kind = g.kind
             /\ h.more = g.more /\ h.page = g.page
<1>1. (g.once \/ (loaded /\ g.kind = "show")) \in BOOLEAN
      /\ (IF loaded /\ g.kind = "show" THEN FALSE ELSE g.need) \in BOOLEAN
  BY DEF FeedPages
<1> DEFINE once == g.once \/ (loaded /\ g.kind = "show")
           need == IF loaded /\ g.kind = "show" THEN FALSE ELSE g.need
<1>2. Done(g, loaded) = [g EXCEPT !.flow = "idle", !.need = need, !.once = once]  BY DEF Done
<1>3. once \in BOOLEAN /\ need \in BOOLEAN  BY <1>1
<1> HIDE DEF once, need
<1>4. /\ Done(g, loaded) \in FeedPages /\ Done(g, loaded).need = need /\ Done(g, loaded).once = once
  BY <1>2, <1>3 DEF FeedPages
<1>5. LET h == Done(g, loaded)
      IN  /\ h.flow = "idle"
          /\ h.list = g.list /\ h.cursor = g.cursor /\ h.fin = g.fin /\ h.shown = g.shown /\ h.kind = g.kind
          /\ h.more = g.more /\ h.page = g.page
  BY <1>2 DEF FeedPages
<1>6. QED  BY <1>4, <1>5 DEF once, need

LEMMA GivenUpIs == ASSUME NEW g \in FeedPages PROVE Done(g, FALSE) = [g EXCEPT !.flow = "idle"]
<1>1. Done(g, FALSE) = [g EXCEPT !.flow = "idle", !.need = g.need, !.once = g.once \/ FALSE]
  BY DEF Done
<1>2. (g.once \/ FALSE) = g.once  BY DEF FeedPages
<1>3. QED  BY <1>1, <1>2 DEF FeedPages

LEMMA FetchedIs ==
  ASSUME NEW g \in FeedPages
  PROVE  LET h == AfterFetch([g EXCEPT !.flow = "fetched"])
             over == ~g.shown \/ (g.kind # "pull" /\ g.list = <<>> /\ ~g.fin)
         IN  /\ h \in FeedPages /\ h.flow = (IF over THEN "idle" ELSE "stats")
             /\ h.list = g.list /\ h.cursor = g.cursor /\ h.fin = g.fin /\ h.shown = g.shown /\ h.kind = g.kind
             /\ h.more = g.more /\ h.page = g.page /\ h.need = g.need /\ h.once = g.once
<1> DEFINE k == [g EXCEPT !.flow = "fetched"]
           over == ~g.shown \/ (g.kind # "pull" /\ g.list = <<>> /\ ~g.fin)
           h == AfterFetch(k)
<1>1. /\ k.flow = "fetched" /\ k.shown = g.shown /\ k.kind = g.kind /\ k.list = g.list /\ k.fin = g.fin
      /\ k.need = g.need /\ k.once = g.once
  BY DEF FeedPages
<1>2. h = IF over THEN Done(k, FALSE) ELSE [k EXCEPT !.flow = "stats"]
  BY <1>1 DEF AfterFetch, Fetched
<1>3. Done(k, FALSE) = [g EXCEPT !.flow = "idle"]
  <2>1. Done(k, FALSE) = [k EXCEPT !.flow = "idle", !.need = k.need, !.once = k.once \/ FALSE]
    BY DEF Done
  <2>2. (k.once \/ FALSE) = g.once  BY <1>1 DEF FeedPages
  <2>3. QED  BY <1>1, <2>1, <2>2 DEF FeedPages
<1>4. [k EXCEPT !.flow = "stats"] = [g EXCEPT !.flow = "stats"]  BY DEF FeedPages
<1>5. h = [g EXCEPT !.flow = IF over THEN "idle" ELSE "stats"]
  BY <1>2, <1>3, <1>4
<1> HIDE DEF h, k, over
<1>6. QED  BY <1>5 DEF FeedPages, h, k, over

LEMMA LoginRefused ==
  ASSUME FeedInv, f.flow = "login", f' = Done([f EXCEPT !.isLogin = IF f.shown THEN FALSE ELSE @], FALSE),
         slipped' = (slipped \/ (f.list # <<>> /\ f'.cursor = 0 /\ ~f'.fin /\ ~f'.page.on)),
         blanked' = (blanked \/ f.kind = "memory"),
         UNCHANGED <<days, drawn, raced, reloads, feedHides>>
  PROVE  FeedInv'
<1> DEFINE informed == [f EXCEPT !.isLogin = IF f.shown THEN FALSE ELSE @]
<1>1. /\ informed \in FeedPages /\ informed.list = f.list /\ informed.cursor = f.cursor /\ informed.fin = f.fin
      /\ informed.shown = f.shown /\ informed.kind = f.kind /\ informed.more = f.more /\ informed.page = f.page
      /\ informed.need = f.need /\ informed.once = f.once
  BY FeedIs DEF FeedPages
<1> HIDE DEF informed
<1>2. /\ f' \in FeedPages /\ f'.flow = "idle" /\ f'.need = f.need /\ f'.once = f.once
      /\ f'.list = f.list /\ f'.cursor = f.cursor /\ f'.fin = f.fin /\ f'.shown = f.shown /\ f'.kind = f.kind
      /\ f'.more = f.more /\ f'.page = f.page
  <2>1. f' = [informed EXCEPT !.flow = "idle"]  BY <1>1, GivenUpIs DEF informed
  <2>2. QED  BY <1>1, <2>1 DEF FeedPages
<1>3. FeedData'
  <2>1. slipped' \in BOOLEAN /\ blanked' \in BOOLEAN  OBVIOUS
  <2>2. QED  BY <1>2, <2>1 DEF FeedInv, FeedData
<1>4. FeedRequests'  BY <1>2 DEF FeedInv, FeedRequests
<1>5. FeedRun'  BY <1>2 DEF FeedInv, FeedRun
<1>6. FeedNewest'  BY <1>2 DEF FeedInv, FeedNewest
<1>7. FeedBlank'  BY <1>2 DEF FeedInv, FeedBlank
<1>8. QED  BY <1>3, <1>4, <1>5, <1>6, <1>7 DEF FeedInv

\* The page that follows the login, with reset what the login left of the page.
LEMMA LoginGoesOn ==
  ASSUME FeedInv, f.flow = "login", NEW reset \in FeedPages,
         reset.flow = "login", reset.list = f.list, reset.shown = f.shown, reset.kind = f.kind,
         reset.more = f.more, reset.page = f.page, reset.need = f.need, reset.once = f.once,
         reset.loading = f.loading,
         f.kind = "pull" => reset.cursor = 0 /\ ~reset.fin,
         f.kind # "pull" => reset.cursor = f.cursor /\ reset.fin = f.fin,
         f' = AfterFetch(StartFetch(reset)),
         slipped' = (slipped \/ (f.list # <<>> /\ f'.cursor = 0 /\ ~f'.fin /\ ~f'.page.on)),
         IF f'.flow = "idle" THEN blanked' = (blanked \/ f.kind = "memory") ELSE UNCHANGED blanked,
         UNCHANGED <<days, drawn, raced, reloads, feedHides>>
  PROVE  FeedInv'
<1> DEFINE skips == reset.loading \/ reset.fin \/ ~reset.isLogin \/ ~reset.shown
<1>1. ~f.page.on /\ f.flow # "fetch" /\ f.flow # "stats" /\ f.flow # "idle"
  BY DEF FeedInv, FeedRequests
<1>2. slipped' \in BOOLEAN /\ blanked' \in BOOLEAN /\ (slipped => slipped') /\ (blanked => blanked')
  BY DEF FeedInv, FeedData
<1>3. reset.cursor \in Cursors(days)  BY FeedIs DEF FeedInv, FeedData
<1>4. CASE skips
  <2> DEFINE over == ~f.shown \/ (f.kind # "pull" /\ f.list = <<>> /\ ~reset.fin)
  <2>1. /\ f' \in FeedPages /\ f'.flow = (IF over THEN "idle" ELSE "stats")
        /\ f'.list = f.list /\ f'.cursor = reset.cursor /\ f'.fin = reset.fin /\ f'.shown = f.shown /\ f'.kind = f.kind
        /\ f'.more = f.more /\ f'.page = f.page /\ f'.need = f.need /\ f'.once = f.once
    <3>1. f' = AfterFetch([reset EXCEPT !.flow = "fetched"])  BY <1>4 DEF StartFetch
    <3>2. QED  BY <3>1, FetchedIs
  <2>2. FeedData'  BY <1>2, <1>3, <2>1 DEF FeedInv, FeedData
  <2>3. f.list = <<>> => f'.cursor = 0  BY <2>1 DEF FeedInv, FeedRequests
  <2>4. f.kind = "show" => f'.flow = "idle"  BY <2>1 DEF FeedInv, FeedRequests
  <2>5. f'.flow \in {"idle", "stats"} /\ (f'.flow = "stats" => f.shown)  BY <2>1
  <2>6. FeedRequests'
    <3>1. ~f'.page.on /\ (~f'.shown => ~f'.more.on)  BY <1>1, <2>1 DEF FeedInv, FeedRequests
    <3>2. QED  BY <2>1, <2>3, <2>4, <2>5, <3>1 DEF FeedRequests
  <2>7. FeedRun'
    <3>1. CASE f.kind = "pull"
      <4>1. ~slipped' => f.list = <<>>  BY <1>1, <2>1, <3>1
      <4>2. QED  BY <2>1, <4>1, FeedIs DEF FeedRun
    <3>2. CASE f.kind # "pull"
      <4>1. f'.cursor = f.cursor /\ f'.fin = f.fin  BY <2>1, <3>2
      <4>2. QED  BY <1>1, <1>2, <2>1, <4>1 DEF FeedInv, FeedRun
    <3>3. QED  BY <3>1, <3>2
  <2>8. FeedNewest'  BY <1>1, <1>2, <2>1, <2>4 DEF FeedInv, FeedNewest
  <2>9. FeedBlank'
    <3>1. (f.fin /\ f.list = <<>> => f.need \/ raced \/ days = 0)  BY DEF FeedInv, FeedBlank
    <3>2. f'.fin => f.fin  BY <2>1
    <3>3. ASSUME f.once, f.list = <<>>, ~blanked', ~raced, days > 0 PROVE f.need
      <4>1. f.need \/ f.kind = "memory"  BY <1>2, <3>3 DEF FeedInv, FeedBlank
      <4>2. CASE f.kind = "memory" /\ ~f.need
        <5>1. f'.flow # "idle"  BY <3>3, <4>2
        <5>2. f.fin  BY <2>1, <3>3, <4>2, <5>1
        <5>3. days # 0  BY <3>3, FeedIs
        <5>4. QED  BY <3>1, <3>3, <5>2, <5>3
      <4>3. QED  BY <4>1, <4>2
    <3>4. QED  BY <2>1, <2>4, <3>1, <3>2, <3>3 DEF FeedBlank
  <2>10. QED  BY <2>2, <2>6, <2>7, <2>8, <2>9 DEF FeedInv
<1>5. CASE ~skips
  <2> DEFINE asked == [on |-> TRUE, cursor |-> reset.cursor, n |-> days]
             loads == ~reset.more.on
  <2>1. f' = [reset EXCEPT !.page = asked, !.flow = "fetch", !.more = NoRequest, !.loading = loads]
    <3>1. StartFetch(reset) = [reset EXCEPT !.page = asked, !.flow = "fetch", !.more = NoRequest,
                                            !.loading = loads]
      BY <1>5 DEF StartFetch
    <3>2. StartFetch(reset).flow = "fetch"  BY <3>1 DEF FeedPages
    <3>3. QED  BY <3>1, <3>2 DEF AfterFetch
  <2>2. asked \in Requested /\ asked.on /\ asked.cursor = reset.cursor /\ asked.n = days
    BY FeedIs DEF FeedPages, Requested
  <2>3. NoRequest \in Requested /\ ~NoRequest.on /\ NoRequest.cursor = 0 /\ NoRequest.n = 0
    BY DEF NoRequest, Requested
  <2>4. loads \in BOOLEAN  OBVIOUS
  <2> HIDE DEF asked, loads
  <2>5. /\ f' \in FeedPages /\ f'.flow = "fetch" /\ f'.page = asked /\ f'.more = NoRequest
        /\ f'.list = f.list /\ f'.cursor = reset.cursor /\ f'.fin = reset.fin /\ f'.shown = f.shown /\ f'.kind = f.kind
        /\ f'.need = f.need /\ f'.once = f.once
    <3>1. reset.flow = "login" /\ "fetch" \in {"idle", "login", "fetch", "stats"}  OBVIOUS
    <3>2. f' \in FeedPages
      <4> DEFINE begun == [reset EXCEPT !.page = asked, !.flow = "fetch"]
      <4>1. begun \in FeedPages  BY <2>2, <3>1 DEF FeedPages
      <4>2. f' = [begun EXCEPT !.more = NoRequest, !.loading = loads]  BY <2>1
      <4> HIDE DEF begun
      <4>3. QED  BY <2>3, <2>4, <4>1, <4>2 DEF FeedPages
    <3>3. f'.flow = "fetch" /\ f'.page = asked /\ f'.more = NoRequest  BY <2>1 DEF FeedPages
    <3>4. f'.list = reset.list /\ f'.cursor = reset.cursor /\ f'.fin = reset.fin /\ f'.shown = reset.shown
          /\ f'.kind = reset.kind /\ f'.need = reset.need /\ f'.once = reset.once
      BY <2>1 DEF FeedPages
    <3>5. QED  BY <3>2, <3>3, <3>4
  <2>6. FeedData'
    <3>1. 0 \in 0..days /\ days \in 0..days /\ 0 \in Cursors(days)  BY FeedIs
    <3>2. QED  BY <1>2, <1>3, <2>2, <2>3, <2>5, <3>1 DEF FeedInv, FeedData
  <2>7. FeedRequests'
    <3>1. f'.list = <<>> => f'.cursor = 0  BY <2>5 DEF FeedInv, FeedRequests
    <3>2. ~f'.fin /\ f'.shown  BY <1>5, <2>5
    <3>3. f'.kind = "show" => f'.list = <<>>  BY <2>5 DEF FeedInv, FeedRequests
    <3>4. QED  BY <2>2, <2>3, <2>5, <3>1, <3>2, <3>3 DEF FeedRequests
  <2>8. FeedRun'  BY <1>1, <1>2, <2>3, <2>5 DEF FeedInv, FeedRun
  <2>9. FeedNewest'  BY <1>1, <1>2, <2>2, <2>3, <2>5 DEF FeedInv, FeedNewest
  <2>10. FeedBlank'
    <3>1. blanked' = blanked  BY <2>5
    <3>2. f'.fin => f.fin  BY <2>5
    <3>3. QED  BY <2>5, <3>1, <3>2 DEF FeedInv, FeedBlank
  <2>11. QED  BY <2>6, <2>7, <2>8, <2>9, <2>10 DEF FeedInv
<1>6. QED  BY <1>4, <1>5

LEMMA LoginEndsKeeps == FeedInv /\ LoginEnds => FeedInv'
<1> SUFFICES ASSUME FeedInv, LoginEnds PROVE FeedInv'  OBVIOUS
<1>1. /\ f.flow = "login" /\ UNCHANGED <<days, drawn, raced, reloads, feedHides>>
      /\ slipped' = (slipped \/ (f.list # <<>> /\ f'.cursor = 0 /\ ~f'.fin /\ ~f'.page.on))
  BY DEF LoginEnds
<1>2. IF f'.flow = "idle" THEN blanked' = (blanked \/ f.kind = "memory") ELSE UNCHANGED blanked
  BY <1>1 DEF LoginEnds, GivesUp
<1>3. PICK ok \in BOOLEAN :
        LET informed == [f EXCEPT !.isLogin = IF f.shown THEN ok ELSE @]
            reset == IF f.kind = "pull" THEN [informed EXCEPT !.cursor = 0, !.fin = FALSE] ELSE informed
        IN  f' = IF ok THEN AfterFetch(StartFetch(reset)) ELSE Done(informed, FALSE)
  BY DEF LoginEnds
<1>4. CASE ~ok
  <2>1. ok = FALSE  BY <1>4
  <2>2. f' = Done([f EXCEPT !.isLogin = IF f.shown THEN FALSE ELSE @], FALSE)  BY <1>3, <2>1
  <2>3. f'.flow = "idle"
    <3> DEFINE g == [f EXCEPT !.isLogin = IF f.shown THEN FALSE ELSE @]
    <3>1. g \in FeedPages  BY FeedIs DEF FeedPages
    <3>2. f' = Done(g, FALSE)  BY <2>2
    <3> HIDE DEF g
    <3>3. f' = [g EXCEPT !.flow = "idle"]  BY <3>1, <3>2, GivenUpIs
    <3>4. QED  BY <3>1, <3>3 DEF FeedPages
  <2>4. QED  BY <1>1, <1>2, <2>2, <2>3, LoginRefused
<1>5. CASE ok
  <2> DEFINE informed == [f EXCEPT !.isLogin = IF f.shown THEN ok ELSE @]
             reset == IF f.kind = "pull" THEN [informed EXCEPT !.cursor = 0, !.fin = FALSE] ELSE informed
  <2>1. f' = AfterFetch(StartFetch(reset))  BY <1>3, <1>5
  <2>2. /\ informed \in FeedPages /\ informed.flow = f.flow /\ informed.list = f.list /\ informed.shown = f.shown
        /\ informed.kind = f.kind /\ informed.more = f.more /\ informed.page = f.page /\ informed.need = f.need
        /\ informed.once = f.once /\ informed.loading = f.loading /\ informed.cursor = f.cursor /\ informed.fin = f.fin
    BY FeedIs DEF FeedPages
  <2> HIDE DEF informed
  <2>3. /\ reset \in FeedPages /\ reset.flow = f.flow /\ reset.list = f.list /\ reset.shown = f.shown
        /\ reset.kind = f.kind /\ reset.more = f.more /\ reset.page = f.page /\ reset.need = f.need
        /\ reset.once = f.once /\ reset.loading = f.loading
        /\ f.kind = "pull" => reset.cursor = 0 /\ ~reset.fin
        /\ f.kind # "pull" => reset.cursor = f.cursor /\ reset.fin = f.fin
    <3>1. CASE f.kind = "pull"
      <4>1. reset = [informed EXCEPT !.cursor = 0, !.fin = FALSE]  BY <3>1
      <4>2. QED  BY <2>2, <3>1, <4>1 DEF FeedPages
    <3>2. CASE f.kind # "pull"
      <4>1. reset = informed  BY <3>2
      <4>2. QED  BY <2>2, <3>2, <4>1
    <3>3. QED  BY <3>1, <3>2
  <2> HIDE DEF reset
  <2>4. QED  BY <1>1, <1>2, <2>1, <2>3, LoginGoesOn
<1>6. QED  BY <1>4, <1>5

LEMMA PageArrivesKeeps == FeedInv /\ PageArrives => FeedInv'
<1> SUFFICES ASSUME FeedInv, PageArrives PROVE FeedInv'  OBVIOUS
<1>1. f.flow = "fetch" /\ Same  BY DEF PageArrives
<1>2. PICK n \in {f.page.n, days} :
        f' = AfterFetch([Add(f, f.page, n, f.kind = "pull") EXCEPT !.flow = "fetched", !.page = NoRequest])
  BY DEF PageArrives
<1>3. PICK pulled \in BOOLEAN : pulled = (f.kind = "pull")  OBVIOUS
<1> DEFINE g == Add(f, f.page, n, pulled)
           h == [g EXCEPT !.page = NoRequest]
           begin == IF pulled THEN <<>> ELSE f.list
<1>4. /\ n \in 0..days /\ f.page.cursor \in Cursors(days) /\ (raced \/ n = days)
      /\ f.page.cursor = f.cursor /\ ~f.more.on /\ ~f.fin /\ f.shown
  <2>1. days \in 0..days  BY FeedIs
  <2>2. raced \/ f.page.n = days  BY <1>1 DEF FeedInv, FeedRequests, FeedNewest
  <2>3. QED  BY <1>1, <2>1, <2>2 DEF FeedInv, FeedData, FeedRequests
<1>5. /\ g \in FeedPages
      /\ g.once = f.once /\ g.need = f.need /\ g.shown = f.shown /\ g.kind = f.kind /\ g.more = f.more
      /\ Listed(g.list, days) /\ Len(g.list) <= MaxList /\ g.cursor \in Cursors(days)
      /\ g.list = <<>> => g.cursor = 0 /\ g.fin /\ f.page.cursor = 0 /\ n = 0 /\ begin = <<>>
      /\ Run(begin) /\ (begin # <<>> => f.page.cursor = begin[Len(begin)].day) =>
           Run(g.list) /\ (~g.fin => g.list # <<>> /\ g.cursor = g.list[Len(g.list)].day)
      /\ begin # <<>> => g.list # <<>> /\ g.list[1] = begin[1]
      /\ begin = <<>> /\ f.page.cursor = 0 /\ g.list # <<>> => g.list[1].day = n
  <2>1. Add(f, f.page, n, pulled) = g /\ begin = (IF pulled THEN <<>> ELSE f.list)  OBVIOUS
  <2>2. pulled \in BOOLEAN  BY <1>3
  <2>3. n \in 0..days /\ f.page.cursor \in Cursors(days)  BY <1>4
  <2> HIDE DEF g, begin
  <2>4. QED  BY <2>1, <2>2, <2>3, AddIs
<1> HIDE DEF g
<1>6. /\ h \in FeedPages /\ h.page = NoRequest /\ h.list = g.list /\ h.cursor = g.cursor /\ h.fin = g.fin
      /\ h.shown = g.shown /\ h.kind = g.kind /\ h.more = g.more /\ h.need = g.need /\ h.once = g.once
  BY <1>5, FeedIs DEF FeedPages
<1>7. f' = AfterFetch([h EXCEPT !.flow = "fetched"])
  <2>1. [g EXCEPT !.flow = "fetched", !.page = NoRequest] = [h EXCEPT !.flow = "fetched"]
    BY <1>5 DEF FeedPages
  <2>2. QED  BY <1>2, <1>3, <2>1 DEF g
<1> HIDE DEF h
<1>8. /\ f' \in FeedPages /\ f'.flow = "stats" /\ f'.page = NoRequest
      /\ f'.list = g.list /\ f'.cursor = g.cursor /\ f'.fin = g.fin /\ f'.shown /\ f'.kind = f.kind
      /\ f'.more = f.more /\ f'.need = f.need /\ f'.once = f.once
  BY <1>4, <1>5, <1>6, <1>7, FetchedIs
<1>9. ~NoRequest.on /\ NoRequest.cursor = 0 /\ NoRequest.n = 0  BY DEF NoRequest
<1>10. FeedData'
  <2>1. 0 \in 0..days  BY FeedIs
  <2>2. QED  BY <1>1, <1>5, <1>8, <1>9, <2>1, FeedIs DEF FeedInv, FeedData, Same
<1>11. FeedRequests'  BY <1>4, <1>5, <1>8, <1>9 DEF FeedRequests
<1>12. FeedRun'
  <2> SUFFICES ASSUME ~slipped
               PROVE  Run(g.list) /\ (~g.fin => g.list # <<>> /\ g.cursor = g.list[Len(g.list)].day)
    BY <1>1, <1>4, <1>8 DEF FeedRun, Same
  <2>1. Run(begin)  BY FeedIs DEF FeedInv, FeedRun
  <2>2. begin # <<>> => f.page.cursor = begin[Len(begin)].day  BY <1>1, <1>4, <1>3 DEF FeedInv, FeedRun
  <2>3. QED  BY <1>5, <2>1, <2>2
<1>13. pulled => f.page.cursor = 0  BY <1>1, <1>4, <1>3 DEF FeedInv, FeedRequests
<1>14. f.list = <<>> => f.page.cursor = 0  BY <1>4 DEF FeedInv, FeedRequests
<1>15. f.kind = "show" => f.list = <<>>  BY <1>1 DEF FeedInv, FeedRequests
<1>16. FeedNewest'
  <2> SUFFICES ASSUME ~slipped, ~raced, g.list # <<>>, ~f.need \/ f.kind = "show" PROVE g.list[1].day = days
    BY <1>1, <1>4, <1>8, <1>9 DEF FeedNewest, Same
  <2>1. n = days  BY <1>4
  <2>2. CASE begin = <<>>  BY <1>5, <1>13, <1>14, <2>1, <2>2
  <2>3. CASE begin # <<>>
    <3>1. f.list # <<>> /\ begin = f.list  BY <2>3
    <3>2. f.list[1].day = days  BY <1>15, <3>1 DEF FeedInv, FeedNewest
    <3>3. QED  BY <1>5, <2>3, <3>1, <3>2
  <2>4. QED  BY <2>2, <2>3
<1>17. FeedBlank'
  <2>1. f'.list = <<>> => raced \/ days = 0  BY <1>4, <1>5, <1>8
  <2>2. f'.list = <<>> /\ days > 0 => raced  BY <2>1
  <2>3. QED  BY <1>1, <2>1, <2>2 DEF FeedBlank, Same
<1>18. QED  BY <1>10, <1>11, <1>12, <1>16, <1>17 DEF FeedInv

LEMMA PageFailsKeeps == FeedInv /\ PageFails => FeedInv'
<1> SUFFICES ASSUME FeedInv, PageFails PROVE FeedInv'  OBVIOUS
<1>1. /\ f.flow = "fetch" /\ UNCHANGED <<days, drawn, raced, reloads, feedHides>>
      /\ f' = AfterFetch([f EXCEPT !.flow = "fetched", !.page = NoRequest, !.loading = FALSE])
      /\ slipped' = (slipped \/ f.kind = "pull") /\ blanked' = (blanked \/ f.kind = "memory")
  BY DEF PageFails, GivesUp
<1>2. f.shown /\ ~f.more.on /\ ~f.fin  BY <1>1 DEF FeedInv, FeedRequests
<1> DEFINE h == [f EXCEPT !.page = NoRequest, !.loading = FALSE]
<1>3. /\ h \in FeedPages /\ h.page = NoRequest /\ h.list = f.list /\ h.cursor = f.cursor /\ h.fin = f.fin
      /\ h.shown = f.shown /\ h.kind = f.kind /\ h.more = f.more /\ h.need = f.need /\ h.once = f.once
  BY FeedIs DEF FeedPages
<1>4. [f EXCEPT !.flow = "fetched", !.page = NoRequest, !.loading = FALSE] = [h EXCEPT !.flow = "fetched"]
  BY FeedIs DEF FeedPages
<1> HIDE DEF h
<1>5. f' = AfterFetch([h EXCEPT !.flow = "fetched"])  BY <1>1, <1>4
<1>6. /\ f' \in FeedPages /\ f'.flow = (IF f.kind # "pull" /\ f.list = <<>> THEN "idle" ELSE "stats")
      /\ f'.page = NoRequest /\ f'.list = f.list /\ f'.cursor = f.cursor /\ f'.fin = f.fin /\ f'.shown
      /\ f'.kind = f.kind /\ f'.more = f.more /\ f'.need = f.need /\ f'.once = f.once
  <2>1. h.shown /\ ~h.fin  BY <1>2, <1>3
  <2>2. f'.flow = (IF h.kind # "pull" /\ h.list = <<>> THEN "idle" ELSE "stats")
    BY <1>3, <1>5, <2>1, FetchedIs
  <2>3. QED  BY <1>2, <1>3, <1>5, <2>2, FetchedIs
<1>7. ~NoRequest.on /\ NoRequest.cursor = 0 /\ NoRequest.n = 0  BY DEF NoRequest
<1>8. FeedData'
  <2>1. 0 \in 0..days  BY FeedIs
  <2>2. slipped' \in BOOLEAN /\ blanked' \in BOOLEAN  BY <1>1
  <2>3. QED  BY <1>1, <1>6, <1>7, <2>1, <2>2, FeedIs DEF FeedInv, FeedData
<1>9. FeedRequests'  BY <1>2, <1>6, <1>7 DEF FeedInv, FeedRequests
<1>10. f.kind = "show" => f.list = <<>>  BY <1>1 DEF FeedInv, FeedRequests
<1>11. FeedRun'  BY <1>1, <1>2, <1>6 DEF FeedInv, FeedRun
<1>12. FeedNewest'  BY <1>1, <1>2, <1>6, <1>7, <1>10 DEF FeedInv, FeedNewest
<1>13. FeedBlank'  BY <1>1, <1>2, <1>6, <1>10 DEF FeedInv, FeedBlank
<1>14. QED  BY <1>8, <1>9, <1>11, <1>12, <1>13 DEF FeedInv

LEMMA StatsEndKeeps == FeedInv /\ StatsEnd => FeedInv'
<1> SUFFICES ASSUME FeedInv, StatsEnd PROVE FeedInv'  OBVIOUS
<1> DEFINE loaded == f.kind # "pull"
<1>1. f.flow = "stats" /\ f' = Done(f, loaded) /\ Same /\ loaded \in BOOLEAN  BY DEF StatsEnd
<1>2. loaded /\ f.kind = "show" <=> f.kind = "show"  OBVIOUS
<1> HIDE DEF loaded
<1>3. /\ f' \in FeedPages /\ f'.flow = "idle"
      /\ f'.need = (IF loaded /\ f.kind = "show" THEN FALSE ELSE f.need)
      /\ f'.once = (f.once \/ (loaded /\ f.kind = "show"))
      /\ f'.list = f.list /\ f'.cursor = f.cursor /\ f'.fin = f.fin /\ f'.shown = f.shown /\ f'.kind = f.kind
      /\ f'.more = f.more /\ f'.page = f.page
  BY <1>1, FeedIs, DoneIs
<1>4. (f.kind = "show" => ~f'.need) /\ (f.kind # "show" => f'.need = f.need)  BY <1>2, <1>3
<1>5. f.kind # "show" => f'.once = f.once
  <2>1. f.kind # "show" => (f.once \/ (loaded /\ f.kind = "show")) = f.once  BY FeedIs DEF FeedPages
  <2>2. QED  BY <1>3, <2>1
<1>6. ~f.page.on /\ (f.kind = "show" => ~f.more.on)  BY <1>1 DEF FeedInv, FeedRequests
<1>7. FeedData'  BY <1>1, <1>3 DEF FeedInv, FeedData, Same
<1>8. FeedRequests'  BY <1>3, <1>6 DEF FeedInv, FeedRequests
<1>9. FeedRun'  BY <1>1, <1>3 DEF FeedInv, FeedRun, Same
<1>10. FeedNewest'
  <2>1. f'.more.on => f'.need \/ f'.more.n = days  BY <1>3, <1>4, <1>6 DEF FeedInv, FeedNewest
  <2>2. ASSUME ~slipped, ~raced, f.list # <<>>, ~f'.need PROVE f.list[1].day = days
    BY <1>1, <1>4, <2>2 DEF FeedInv, FeedNewest
  <2>3. QED  BY <1>1, <1>3, <1>6, <2>1, <2>2 DEF FeedNewest, Same
<1>11. FeedBlank'
  <2>1. CASE f.kind = "show"
    <3>1. f.list = <<>> => raced \/ days = 0  BY <1>1, <2>1 DEF FeedInv, FeedBlank
    <3>2. f.list = <<>> /\ days > 0 => raced  BY <3>1
    <3>3. QED  BY <1>1, <1>3, <3>1, <3>2 DEF FeedBlank, Same
  <2>2. CASE f.kind # "show"
    BY <1>1, <1>3, <1>4, <1>5, <2>2 DEF FeedInv, FeedBlank, Same
  <2>3. QED  BY <2>1, <2>2
<1>12. QED  BY <1>7, <1>8, <1>9, <1>10, <1>11 DEF FeedInv

LEMMA LoadMoreKeeps == FeedInv /\ LoadMore => FeedInv'
<1> SUFFICES ASSUME FeedInv, LoadMore PROVE FeedInv'  OBVIOUS
<1> DEFINE asked == [on |-> TRUE, cursor |-> f.cursor, n |-> days]
<1>1. f.shown /\ f.flow = "idle" /\ ~f.fin /\ Same /\ f' = [f EXCEPT !.more = asked, !.loading = TRUE]
  BY DEF LoadMore
<1>2. asked \in Requested /\ asked.on /\ asked.cursor = f.cursor /\ asked.n = days
  BY FeedIs DEF FeedPages, Requested
<1> HIDE DEF asked
<1>3. /\ f' \in FeedPages /\ f'.flow = "idle" /\ f'.more = asked
      /\ f'.list = f.list /\ f'.cursor = f.cursor /\ f'.fin = f.fin /\ f'.shown /\ f'.kind = f.kind
      /\ f'.page = f.page /\ f'.need = f.need /\ f'.once = f.once
  BY <1>1, <1>2, FeedIs DEF FeedPages
<1>4. FeedData'
  <2>1. days \in 0..days  BY FeedIs
  <2>2. QED  BY <1>1, <1>2, <1>3, <2>1 DEF FeedInv, FeedData, Same
<1>5. FeedRequests'  BY <1>1, <1>3 DEF FeedInv, FeedRequests
<1>6. FeedRun'  BY <1>1, <1>2, <1>3 DEF FeedInv, FeedRun, Same
<1>7. FeedNewest' /\ FeedBlank'  BY <1>1, <1>2, <1>3 DEF FeedInv, FeedNewest, FeedBlank, Same
<1>8. QED  BY <1>4, <1>5, <1>6, <1>7 DEF FeedInv

LEMMA MoreArrivesKeeps == FeedInv /\ MoreArrives => FeedInv'
<1> SUFFICES ASSUME FeedInv, MoreArrives PROVE FeedInv'  OBVIOUS
<1>1. /\ f.more.on /\ UNCHANGED <<days, drawn, raced, blanked, reloads, feedHides>>
      /\ slipped' = (slipped \/ (f.more.cursor # 0 /\ f.list = <<>>))
  BY DEF MoreArrives
<1>2. PICK n \in {f.more.n, days} : f' = [Add(f, f.more, n, FALSE) EXCEPT !.more = NoRequest]
  BY DEF MoreArrives
<1>3. f.flow # "fetch" /\ f.shown /\ (f.kind = "show" => f.flow = "idle") /\ ~f.page.on
  BY <1>1 DEF FeedInv, FeedRequests
<1>4. n \in 0..days /\ f.more.cursor \in Cursors(days) /\ (f.need \/ n = days)
  <2>1. days \in 0..days  BY FeedIs
  <2>2. QED  BY <1>1, <2>1 DEF FeedInv, FeedData, FeedNewest
<1> DEFINE g == Add(f, f.more, n, FALSE)
<1>5. /\ g \in FeedPages /\ g.flow = f.flow /\ g.page = f.page
      /\ g.once = f.once /\ g.need = f.need /\ g.shown = f.shown /\ g.kind = f.kind
      /\ Listed(g.list, days) /\ Len(g.list) <= MaxList /\ g.cursor \in Cursors(days)
      /\ g.list = <<>> => g.cursor = 0 /\ g.fin /\ f.more.cursor = 0 /\ n = 0 /\ f.list = <<>>
      /\ Run(f.list) /\ (f.list # <<>> => f.more.cursor = f.list[Len(f.list)].day) =>
           Run(g.list) /\ (~g.fin => g.list # <<>> /\ g.cursor = g.list[Len(g.list)].day)
      /\ f.list # <<>> => g.list # <<>> /\ g.list[1] = f.list[1]
      /\ f.list = <<>> /\ f.more.cursor = 0 /\ g.list # <<>> => g.list[1].day = n
  <2>1. PICK replace \in BOOLEAN : ~replace  OBVIOUS
  <2>2. replace = FALSE  BY <2>1
  <2>3. Add(f, f.more, n, replace) = g  BY <2>2
  <2> HIDE DEF g
  <2>4. (IF replace THEN <<>> ELSE f.list) = f.list  BY <2>1
  <2>5. QED  BY <1>4, <2>3, <2>4, AddIs
<1> HIDE DEF g
<1>6. /\ f' \in FeedPages /\ f'.more = NoRequest /\ f'.flow = f.flow /\ f'.page = f.page
      /\ f'.once = f.once /\ f'.need = f.need /\ f'.shown = f.shown /\ f'.kind = f.kind
      /\ f'.list = g.list /\ f'.cursor = g.cursor /\ f'.fin = g.fin
  <2>1. f' = [g EXCEPT !.more = NoRequest]  BY <1>2 DEF g
  <2>2. QED  BY <1>5, <2>1, FeedIs DEF FeedPages
<1>7. ~NoRequest.on /\ NoRequest.cursor = 0 /\ NoRequest.n = 0  BY DEF NoRequest
<1>8. FeedData'
  <2>1. 0 \in 0..days  BY FeedIs
  <2>2. slipped' \in BOOLEAN  BY <1>1
  <2>3. QED  BY <1>1, <1>5, <1>6, <1>7, <2>1, <2>2, FeedIs DEF FeedInv, FeedData
<1>9. FeedRequests'  BY <1>3, <1>5, <1>6, <1>7 DEF FeedRequests
<1>10. FeedRun'
  <2> SUFFICES ASSUME ~slipped'
               PROVE  Run(g.list) /\ (~g.fin => g.list # <<>> /\ g.cursor = g.list[Len(g.list)].day)
    BY <1>6, <1>7 DEF FeedRun
  <2>1. Run(f.list)  BY <1>1 DEF FeedInv, FeedRun
  <2>2. f.list # <<>> => f.more.cursor = f.list[Len(f.list)].day
    BY <1>1, <1>3 DEF FeedInv, FeedRun
  <2>3. QED  BY <1>5, <2>1, <2>2
<1>11. FeedNewest'
  <2> SUFFICES ASSUME ~slipped', ~raced, g.list # <<>>, ~f.need PROVE g.list[1].day = days
    BY <1>1, <1>3, <1>6, <1>7 DEF FeedNewest
  <2>1. n = days /\ ~slipped  BY <1>1, <1>4
  <2>2. CASE f.list = <<>>
    <3>1. f.more.cursor = 0  BY <1>1, <2>2
    <3>2. QED  BY <1>5, <2>1, <2>2, <3>1
  <2>3. CASE f.list # <<>>
    <3>1. f.list[1].day = days  BY <2>1, <2>3 DEF FeedInv, FeedNewest
    <3>2. QED  BY <1>5, <2>3, <3>1
  <2>4. QED  BY <2>2, <2>3
<1>12. FeedBlank'
  <2>1. g.list = <<>> => f.list = <<>> /\ n = 0  BY <1>5
  <2>2. g.list = <<>> => f.need \/ days = 0  BY <1>4, <2>1
  <2>3. f.kind = "show" => f'.flow # "stats"  BY <1>3, <1>6
  <2>4. QED  BY <1>1, <1>6, <2>1, <2>2, <2>3 DEF FeedInv, FeedBlank
<1>13. QED  BY <1>8, <1>9, <1>10, <1>11, <1>12 DEF FeedInv

LEMMA MoreFailsKeeps == FeedInv /\ MoreFails => FeedInv'
<1> SUFFICES ASSUME FeedInv, MoreFails PROVE FeedInv'  OBVIOUS
<1>1. Same /\ f' = [f EXCEPT !.more = NoRequest, !.loading = FALSE]  BY DEF MoreFails
<1>2. /\ f' \in FeedPages /\ f'.more = NoRequest /\ f'.flow = f.flow
      /\ f'.list = f.list /\ f'.cursor = f.cursor /\ f'.fin = f.fin /\ f'.shown = f.shown /\ f'.kind = f.kind
      /\ f'.page = f.page /\ f'.need = f.need /\ f'.once = f.once
  BY <1>1, FeedIs DEF FeedPages
<1>3. ~NoRequest.on /\ NoRequest.cursor = 0 /\ NoRequest.n = 0  BY DEF NoRequest
<1>4. FeedData'
  <2>1. 0 \in 0..days  BY FeedIs
  <2>2. QED  BY <1>1, <1>2, <1>3, <2>1, FeedIs DEF FeedInv, FeedData, Same
<1>5. FeedRequests'  BY <1>2, <1>3 DEF FeedInv, FeedRequests
<1>6. FeedRun'  BY <1>1, <1>2, <1>3 DEF FeedInv, FeedRun, Same
<1>7. FeedNewest' /\ FeedBlank'  BY <1>1, <1>2, <1>3 DEF FeedInv, FeedNewest, FeedBlank, Same
<1>8. QED  BY <1>4, <1>5, <1>6, <1>7 DEF FeedInv

LEMMA HideFeedKeeps == FeedInv /\ HideFeed => FeedInv'
<1> SUFFICES ASSUME FeedInv, HideFeed PROVE FeedInv'  OBVIOUS
<1> DEFINE hid == [f EXCEPT !.shown = FALSE, !.loading = FALSE, !.more = NoRequest, !.page = NoRequest]
<1>1. /\ feedHides < MaxFeedHides /\ feedHides' = feedHides + 1
      /\ f' = IF f.flow \in {"fetch", "stats"} THEN Done(hid, FALSE) ELSE hid
      /\ slipped' = (slipped \/ (f.flow = "fetch" /\ f.kind = "pull"))
      /\ UNCHANGED <<days, drawn, raced, reloads>>
  BY DEF HideFeed
<1>2. blanked' \in BOOLEAN /\ (blanked => blanked') /\ (f.flow = "fetch" /\ f.kind = "memory" => blanked')
  BY DEF HideFeed, GivesUp, FeedInv, FeedData
<1>3. /\ hid \in FeedPages /\ hid.more = NoRequest /\ hid.page = NoRequest /\ hid.flow = f.flow
      /\ hid.list = f.list /\ hid.cursor = f.cursor /\ hid.fin = f.fin /\ ~hid.shown /\ hid.kind = f.kind
      /\ hid.need = f.need /\ hid.once = f.once
  BY FeedIs DEF FeedPages
<1> HIDE DEF hid
<1>4. f' = IF f.flow \in {"fetch", "stats"} THEN [hid EXCEPT !.flow = "idle"] ELSE hid
  BY <1>1, <1>3, GivenUpIs
<1>5. /\ f' \in FeedPages /\ f'.more = NoRequest /\ f'.page = NoRequest
      /\ f'.flow = (IF f.flow \in {"fetch", "stats"} THEN "idle" ELSE f.flow)
      /\ f'.list = f.list /\ f'.cursor = f.cursor /\ f'.fin = f.fin /\ ~f'.shown /\ f'.kind = f.kind
      /\ f'.need = f.need /\ f'.once = f.once
  BY <1>3, <1>4 DEF FeedPages
<1>6. ~NoRequest.on /\ NoRequest.cursor = 0 /\ NoRequest.n = 0  BY DEF NoRequest
<1>7. f'.flow \in {"idle", "login"} /\ (f'.flow = "login" => f.flow = "login")  BY <1>5, FeedIs DEF FeedPages
<1>8. FeedData'
  <2>1. 0 \in 0..days  BY FeedIs
  <2>2. feedHides' \in 0..MaxFeedHides  BY <1>1, FeedBounds DEF FeedInv, FeedData
  <2>3. slipped' \in BOOLEAN  BY <1>1
  <2>4. QED  BY <1>1, <1>2, <1>5, <1>6, <2>1, <2>2, <2>3, FeedIs DEF FeedInv, FeedData
<1>9. FeedRequests'  BY <1>5, <1>6, <1>7 DEF FeedInv, FeedRequests
<1>10. FeedRun'  BY <1>1, <1>5, <1>6 DEF FeedInv, FeedRun
<1>11. FeedNewest'  BY <1>1, <1>5, <1>6, <1>7 DEF FeedInv, FeedNewest
<1>12. FeedBlank'
  <2>1. f.flow # "fetch" /\ f.kind = "memory" /\ f.flow \in {"login", "fetch"} => f'.flow = "login"  BY <1>5
  <2>2. QED  BY <1>1, <1>2, <1>5, <1>7, <2>1 DEF FeedInv, FeedBlank
<1>13. QED  BY <1>8, <1>9, <1>10, <1>11, <1>12 DEF FeedInv

LEMMA DrawKeeps == FeedInv /\ Draw => FeedInv'
BY DEF Draw, FeedInv, FeedData, FeedRequests, FeedRun, FeedNewest, FeedBlank

LEMMA FeedPollKeeps == FeedInv /\ Poll => FeedInv'
<1> SUFFICES ASSUME FeedInv, Poll PROVE FeedInv'  OBVIOUS
<1> DEFINE new == CoverOf(f.poll)
           places == {i \in 1..Len(f.list) : f.list[i].day = f.poll}
           redrawn == [i \in 1..Len(f.list) |-> IF i \in places THEN [f.list[i] EXCEPT !.cover = new] ELSE f.list[i]]
<1>1. Same /\ (f' = [f EXCEPT !.poll = 0, !.list = redrawn] \/ f' = [f EXCEPT !.poll = 0])
  BY DEF Poll
<1>2. new \in {10 * f.poll, 10 * f.poll + 1} /\ new \in Nat /\ f.poll \in Nat
  <2>1. f.poll \in Nat  BY FeedIs DEF FeedPages
  <2>2. QED  BY <2>1, CoverIs
<1> HIDE DEF new
<1>3. \A i \in 1..Len(f.list) : f.list[i] \in Entries  BY FeedIs DEF Listed
<1>4. redrawn \in Seq(Entries) /\ Len(redrawn) = Len(f.list)
  <2>1. \A i \in 1..Len(f.list) : (IF i \in places THEN [f.list[i] EXCEPT !.cover = new] ELSE f.list[i]) \in Entries
    BY <1>2, <1>3 DEF Entries
  <2>2. Len(f.list) \in Nat  BY FeedIs
  <2> HIDE DEF places
  <2>3. QED  BY <2>1, <2>2
<1>5. \A i \in 1..Len(f.list) : /\ redrawn[i].day = f.list[i].day
                                /\ redrawn[i].cover = (IF f.list[i].day = f.poll THEN new ELSE f.list[i].cover)
  BY <1>3 DEF Entries
<1> HIDE DEF redrawn
<1>6. Listed(redrawn, days)  BY <1>2, <1>4, <1>5, FeedIs DEF Listed
<1>7. /\ f' \in FeedPages /\ f'.list \in {f.list, redrawn}
      /\ f'.cursor = f.cursor /\ f'.fin = f.fin /\ f'.shown = f.shown /\ f'.kind = f.kind /\ f'.flow = f.flow
      /\ f'.more = f.more /\ f'.page = f.page /\ f'.need = f.need /\ f'.once = f.once
  <2>1. CASE f' = [f EXCEPT !.poll = 0, !.list = redrawn]  BY <1>4, <2>1, FeedIs DEF FeedPages
  <2>2. CASE f' = [f EXCEPT !.poll = 0]  BY <2>2, FeedIs DEF FeedPages
  <2>3. QED  BY <1>1, <2>1, <2>2
<1>8. /\ Listed(f'.list, days) /\ Len(f'.list) = Len(f.list)
      /\ f'.list = <<>> <=> f.list = <<>>
      /\ \A i \in 1..Len(f.list) : f'.list[i].day = f.list[i].day
  <2>1. redrawn = <<>> <=> f.list = <<>>  BY <1>4, FeedIs DEF Listed
  <2>2. QED  BY <1>4, <1>5, <1>6, <1>7, <2>1, FeedIs
<1>9. f.list # <<>> => f'.list[1].day = f.list[1].day /\ f'.list[Len(f'.list)].day = f.list[Len(f.list)].day
  <2>1. f.list # <<>> => 1 \in 1..Len(f.list) /\ Len(f.list) \in 1..Len(f.list)  BY FeedIs DEF Listed
  <2>2. QED  BY <1>8, <2>1
<1>10. Run(f.list) => Run(f'.list)
  <2>1. 1 \in 1..Len(f.list) \/ f.list = <<>>  BY FeedIs DEF Listed
  <2>2. CASE f.list = <<>>  BY <1>8, <2>2, FeedIs DEF Run
  <2>3. CASE f.list # <<>>  BY <1>8, <1>9, <2>3 DEF Run
  <2>4. QED  BY <2>2, <2>3
<1>11. FeedData'  BY <1>1, <1>7, <1>8 DEF FeedInv, FeedData, Same
<1>12. FeedRequests'  BY <1>7, <1>8 DEF FeedInv, FeedRequests
<1>13. FeedRun'  BY <1>1, <1>7, <1>8, <1>9, <1>10 DEF FeedInv, FeedRun, Same
<1>14. FeedNewest' /\ FeedBlank'  BY <1>1, <1>7, <1>8, <1>9 DEF FeedInv, FeedNewest, FeedBlank, Same
<1>15. QED  BY <1>11, <1>12, <1>13, <1>14 DEF FeedInv

LEMMA FeedInvStep == FeedInv /\ [FeedNext]_feedVars => FeedInv'
<1> SUFFICES ASSUME FeedInv, [FeedNext]_feedVars PROVE FeedInv'  OBVIOUS
<1>1. CASE UNCHANGED feedVars
  BY <1>1 DEF feedVars, FeedInv, FeedData, FeedRequests, FeedRun, FeedNewest, FeedBlank
<1>2. CASE FeedAnswers
  BY <1>2, LoginEndsKeeps, PageArrivesKeeps, PageFailsKeeps, StatsEndKeeps DEF FeedAnswers
<1>3. CASE ShowFeed \/ PullRefresh \/ EntrySubmit \/ MemoryCreateSubmit \/ AddedElsewhere
  BY <1>3, ShowFeedKeeps, PullKeeps, EntryKeeps, MemoryKeeps, AddedKeeps
<1>4. CASE LoadMore \/ MoreArrives \/ MoreFails \/ HideFeed \/ Draw \/ Poll
  BY <1>4, LoadMoreKeeps, MoreArrivesKeeps, MoreFailsKeeps, HideFeedKeeps, DrawKeeps, FeedPollKeeps
<1>5. QED  BY <1>1, <1>2, <1>3, <1>4 DEF FeedNext

LEMMA FeedInvImplies ==
  FeedInv => FeedTypeOK /\ ListIsRun /\ ShowsNewest /\ NotBlank /\ CoversBelong
<1> SUFFICES ASSUME FeedInv PROVE FeedTypeOK /\ ListIsRun /\ ShowsNewest /\ NotBlank /\ CoversBelong
  OBVIOUS
<1>1. FeedTypeOK
  <2>1. f.cursor \in 0..MaxDays  BY FeedIs, FeedBounds DEF FeedInv, FeedData, Cursors
  <2>2. f.flow \in {"idle", "login", "fetch", "stats"} /\ f.kind \in {"show", "pull", "entry", "memory"}
    BY FeedIs DEF FeedPages
  <2>3. QED  BY <2>1, <2>2 DEF FeedInv, FeedData, FeedTypeOK
<1>2. ListIsRun  BY DEF FeedInv, FeedRun, ListIsRun
<1>3. ShowsNewest  BY DEF FeedInv, FeedNewest, ShowsNewest
<1>4. NotBlank  BY DEF FeedInv, FeedBlank, NotBlank
<1>5. CoversBelong  BY FeedIs DEF Listed, CoversBelong
<1>6. QED  BY <1>1, <1>2, <1>3, <1>4, <1>5

-----------------------------------------------------------------------------
(***************************************************************************)
(* The page of a day                                                       *)
(***************************************************************************)

Asks == [on : BOOLEAN, page : Nat, by : {"load", "again", "more", "reload"},
         held : SUBSET (1..MaxEntries), kept : SUBSET {Memory}]
DetailPages ==
  [list : Seq(1..MaxEntries), mems : SUBSET {Memory}, view : SUBSET (0..MaxEntries), tab : Members \cup {0},
   page : Nat \ {0}, hasMore : BOOLEAN, loading : BOOLEAN, reloading : BOOLEAN, isLogin : BOOLEAN,
   wait : {"no", "load", "again", "more", "reload"}, then : {"nothing", "edit", "show"}, shown : BOOLEAN,
   need : BOOLEAN, req : Asks, qr : {"none", "flight", "have"}, share : {"no", "qr", "draw"},
   dels : SUBSET (0..MaxEntries), poll : BOOLEAN]

\* A request is one of a page in front that is logged in; the first page is
\* asked for when there is nothing, and by nothing else than a reload while
\* the page is reloaded.
AskFits(g) ==
  /\ g.loading = g.req.on
  /\ g.req.on =>
       /\ g.shown /\ g.isLogin /\ g.hasMore /\ g.req.page = g.page
       /\ g.req.by # "more" => g.page = 1
       /\ g.page = 1 => g.list = <<>> /\ g.mems = {}
       /\ g.reloading => g.req.by = "reload"

\* Before there is a login, and while the page is reloaded, there is nothing.
NothingYet(g) == g.list = <<>> /\ g.mems = {} /\ g.page = 1 /\ g.hasMore
LoginFits(g) == (g.wait # "no" => ~g.isLogin) /\ (~g.isLogin => NothingYet(g))
ReloadFits(g) == g.reloading => NothingYet(g)

ViewFits(g) == g.view = OfTab(Merged(g), g.tab)
ListFits(g) == IsInjective(g.list) /\ Len(g.list) <= FullList
ShareFits(g) == g.share = "qr" => g.qr = "flight"
Solid(g) == g \in DetailPages /\ AskFits(g) /\ LoginFits(g) /\ ViewFits(g) /\ ListFits(g) /\ ShareFits(g)
PageOk(g) == Solid(g) /\ ReloadFits(g)

\* What the list has is what the server has first, and the page says how far.
Fitting(g, entries) ==
  /\ Len(g.list) <= Cardinality(entries)
  /\ \A i \in 1..Len(g.list) : g.list[i] = Nth(entries, i)
  /\ g.hasMore /\ g.list # <<>> => Len(g.list) = (IF g.req.on THEN g.page - 1 ELSE g.page) * DetailSize

\* A request is of what there is, and so is the list unless the page has yet
\* to be reloaded.
FreshOf(g, entries) ==
  /\ g.req.on => g.req.held = entries
  /\ ~g.need \/ g.reloading => Fitting(g, entries)
Clean == excused \cap {"skipped", "moved"} = {}
EntriesRead == Clean => FreshOf(d, held)

\* What was deleted is not on the server, and not on the page either.
Deleted ==
  /\ gone \cap (held \cup kept) = {} /\ (d.dels \ sent) \cap (held \cup kept) = {}
  /\ \A item \in d.dels : Owner(item) = 1
Without(g, lost) ==
  /\ lost \cap Merged(g) = {}
  /\ g.req.on => lost \cap (g.req.held \cup g.req.kept) = {}
Noticed == excused \cap {"late", "raced"} = {} => Without(d, gone)

ServerFits == held \in SUBSET (1..MaxEntries) /\ kept \in SUBSET {Memory}
DetailCounts == changes \in 0..MaxChanges /\ detailHides \in 0..MaxDetailHides
DetailInv == PageOk(d) /\ ServerFits /\ DetailCounts /\ EntriesRead /\ Deleted /\ Noticed

LEMMA DetailBounds ==
  /\ DetailSize \in Nat /\ DetailSize # 0 /\ FullList \in Nat /\ MaxEntries \in Nat /\ MaxChanges \in Nat
  /\ MaxDetailHides \in Nat /\ OldEntries \in SUBSET (1..MaxEntries)
BY DetailAssumption DEF DetailAssumption

\* The n-th of some entries is the one that n of them are not behind.
Upto(entries, item) == {other \in entries : other <= item}

LEMMA UptoIs ==
  ASSUME NEW S \in SUBSET (1..MaxEntries)
  PROVE  /\ IsFiniteSet(S) /\ Cardinality(S) \in Nat
         /\ \A a \in S : Cardinality(Upto(S, a)) \in 1..Cardinality(S)
         /\ \A a, b \in S : a < b => Cardinality(Upto(S, a)) < Cardinality(Upto(S, b))
<1>1. IsFiniteSet(S) /\ Cardinality(S) \in Nat
  <2>1. 1 \in Int /\ MaxEntries \in Int  BY DetailBounds
  <2>2. IsFiniteSet(1..MaxEntries)  BY <2>1, FS_Interval
  <2>3. QED  BY <2>2, FS_Subset, FS_CardinalityType
<1>2. ASSUME NEW a \in S
      PROVE  /\ IsFiniteSet(Upto(S, a)) /\ Cardinality(Upto(S, a)) \in Nat /\ a \in Upto(S, a)
             /\ Cardinality(Upto(S, a)) <= Cardinality(S) /\ Cardinality(Upto(S, a)) # 0
  <2>1. Upto(S, a) \in SUBSET S  BY DEF Upto
  <2>2. a \in Upto(S, a)
    <3>1. a \in Int  OBVIOUS
    <3>2. a <= a  BY <3>1
    <3>3. QED  BY <3>2 DEF Upto
  <2>3. IsFiniteSet(Upto(S, a)) /\ Cardinality(Upto(S, a)) <= Cardinality(S)  BY <1>1, <2>1, FS_Subset
  <2>4. Cardinality(Upto(S, a)) \in Nat /\ Cardinality(Upto(S, a)) # 0
    BY <2>2, <2>3, FS_CardinalityType, FS_EmptySet
  <2>5. QED  BY <2>2, <2>3, <2>4
<1>3. \A a \in S : Cardinality(Upto(S, a)) \in 1..Cardinality(S)
  <2>1. TAKE a \in S
  <2>2. /\ Cardinality(Upto(S, a)) \in Nat /\ Cardinality(Upto(S, a)) <= Cardinality(S)
        /\ Cardinality(Upto(S, a)) # 0
    BY <1>2
  <2>3. QED  BY <1>1, <2>2
<1>4. ASSUME NEW a \in S, NEW b \in S, a < b PROVE Cardinality(Upto(S, a)) < Cardinality(Upto(S, b))
  <2>1. a \in Int /\ b \in Int  OBVIOUS
  <2>2. Upto(S, a) \in SUBSET Upto(S, b)
    <3>1. \A c \in S : c <= a => c <= b  BY <1>4, <2>1
    <3>2. QED  BY <3>1 DEF Upto
  <2>3. b \notin Upto(S, a)
    <3>1. ~(b <= a)  BY <1>4, <2>1
    <3>2. QED  BY <3>1 DEF Upto
  <2>4. IsFiniteSet(Upto(S, b)) /\ b \in Upto(S, b)  BY <1>2
  <2>5. Cardinality(Upto(S, a)) <= Cardinality(Upto(S, b))  BY <2>2, <2>4, FS_Subset
  <2>6. Cardinality(Upto(S, a)) # Cardinality(Upto(S, b))
    <3>1. Cardinality(Upto(S, b)) = Cardinality(Upto(S, a)) => Upto(S, b) = Upto(S, a)
      BY <2>2, <2>4, FS_Subset
    <3>2. QED  BY <2>3, <2>4, <3>1
  <2>7. Cardinality(Upto(S, a)) \in Nat /\ Cardinality(Upto(S, b)) \in Nat  BY <1>2
  <2>8. QED  BY <2>5, <2>6, <2>7
<1>5. QED  BY <1>1, <1>3, <1>4

LEMMA NthIs ==
  ASSUME NEW S \in SUBSET (1..MaxEntries)
  PROVE  /\ \A n \in 1..Cardinality(S) : Nth(S, n) \in S /\ Cardinality(Upto(S, Nth(S, n))) = n
         /\ \A a \in S : Nth(S, Cardinality(Upto(S, a))) = a
<1>1. /\ IsFiniteSet(S) /\ Cardinality(S) \in Nat
      /\ \A a \in S : Cardinality(Upto(S, a)) \in 1..Cardinality(S)
      /\ \A a, b \in S : a < b => Cardinality(Upto(S, a)) < Cardinality(Upto(S, b))
  BY UptoIs
<1> DEFINE N == 1..Cardinality(S)
           ranks == [a \in S |-> Cardinality(Upto(S, a))]
<1>2. ranks \in [S -> N] /\ \A a \in S : ranks[a] = Cardinality(Upto(S, a))  BY <1>1
<1>3. \A a, b \in S : ranks[a] = ranks[b] => a = b
  <2>1. SUFFICES ASSUME NEW a \in S, NEW b \in S, ranks[a] = ranks[b], a # b PROVE FALSE  OBVIOUS
  <2>2. a \in Int /\ b \in Int  OBVIOUS
  <2>3. a < b \/ b < a  BY <2>1, <2>2
  <2>4. ranks[a] < ranks[b] \/ ranks[b] < ranks[a]  BY <1>1, <1>2, <2>3
  <2>5. ranks[a] \in Int /\ ranks[b] \in Int
    <3>1. ranks[a] \in 1..Cardinality(S) /\ ranks[b] \in 1..Cardinality(S)  BY <1>2
    <3>2. QED  BY <3>1
  <2>6. QED  BY <2>1, <2>4, <2>5
<1> HIDE DEF ranks
<1>4. \A n \in N : \E a \in S : ranks[a] = n
  <2>1. IsFiniteSet(N) /\ Cardinality(N) = Cardinality(S)
    <3>1. 1 \in Int /\ Cardinality(S) \in Int  BY <1>1
    <3>2. IsFiniteSet(N) /\ Cardinality(N) = IF 1 > Cardinality(S) THEN 0 ELSE Cardinality(S) - 1 + 1
      BY <3>1, FS_Interval
    <3>3. QED  BY <1>1, <3>2
  <2>2. ranks \in Injection(S, N)  BY <1>2, <1>3 DEF Injection, IsInjective
  <2>3. ranks \in Surjection(S, N)  BY <1>1, <2>1, <2>2, FS_Injection
  <2>4. QED  BY <2>3 DEF Surjection
<1>5. \A n \in N : Nth(S, n) \in S /\ ranks[Nth(S, n)] = n
  <2>1. TAKE n \in N
  <2>2. PICK a \in S : Cardinality(Upto(S, a)) = n  BY <1>2, <1>4
  <2>3. Nth(S, n) \in S /\ Cardinality(Upto(S, Nth(S, n))) = n  BY <2>2 DEF Nth, Upto
  <2>4. QED  BY <1>2, <2>3
<1>6. \A a \in S : Nth(S, ranks[a]) = a
  <2>1. TAKE a \in S
  <2>2. ranks[a] \in N  BY <1>2
  <2>3. Nth(S, ranks[a]) \in S /\ ranks[Nth(S, ranks[a])] = ranks[a]  BY <1>5, <2>2
  <2>4. QED  BY <1>3, <2>3
<1>7. QED  BY <1>2, <1>5, <1>6

\* A run of some entries is in order, and an order of it is the run.
LEMMA OrderIs ==
  ASSUME NEW S \in SUBSET (1..MaxEntries)
  PROVE  /\ Cardinality(S) \in Nat /\ InOrder(S) \in Seq(S) /\ Len(InOrder(S)) = Cardinality(S)
         /\ \A m, n \in 1..Cardinality(S) : Nth(S, m) = Nth(S, n) => m = n
         /\ \A m, n \in 1..Cardinality(S) : InOrder(S)[m] = InOrder(S)[n] => m = n
         /\ \A n \in 1..Cardinality(S) : Nth(S, n) \in S /\ InOrder(S)[n] = Nth(S, n)
<1>1. Cardinality(S) \in Nat  BY UptoIs
<1>2. \A n \in 1..Cardinality(S) : Nth(S, n) \in S /\ Cardinality(Upto(S, Nth(S, n))) = n  BY NthIs
<1>3. \A m, n \in 1..Cardinality(S) : Nth(S, m) = Nth(S, n) => m = n
  <2>1. SUFFICES ASSUME NEW m \in 1..Cardinality(S), NEW n \in 1..Cardinality(S), Nth(S, m) = Nth(S, n)
                 PROVE  m = n
    OBVIOUS
  <2>2. Cardinality(Upto(S, Nth(S, m))) = m /\ Cardinality(Upto(S, Nth(S, n))) = n  BY <1>2
  <2>3. QED  BY <2>1, <2>2
<1>4. InOrder(S) = [n \in 1..Cardinality(S) |-> Nth(S, n)]  BY DEF InOrder
<1>5. InOrder(S) \in Seq(S) /\ Len(InOrder(S)) = Cardinality(S)  BY <1>1, <1>2, <1>4
<1>6. \A n \in 1..Cardinality(S) : InOrder(S)[n] = Nth(S, n)  BY <1>4
<1>7. \A m, n \in 1..Cardinality(S) : InOrder(S)[m] = InOrder(S)[n] => m = n  BY <1>3, <1>6
<1>8. QED  BY <1>1, <1>2, <1>3, <1>5, <1>6, <1>7

LEMMA NthGrows ==
  ASSUME NEW S \in SUBSET (1..MaxEntries), NEW n \in 1..Cardinality(S), NEW a \in S
  PROVE  /\ a <= Nth(S, n) <=> Cardinality(Upto(S, a)) <= n
         /\ Cardinality(Upto(S, a)) \in 1..Cardinality(S) /\ Nth(S, Cardinality(Upto(S, a))) = a
<1>1. /\ Cardinality(Upto(S, a)) \in 1..Cardinality(S) /\ Nth(S, Cardinality(Upto(S, a))) = a
      /\ Nth(S, n) \in S /\ Cardinality(Upto(S, Nth(S, n))) = n /\ Cardinality(S) \in Nat
  BY UptoIs, NthIs
<1>2. /\ a < Nth(S, n) => Cardinality(Upto(S, a)) < n
      /\ Nth(S, n) < a => n < Cardinality(Upto(S, a))
  <2>1. \A x, y \in S : x < y => Cardinality(Upto(S, x)) < Cardinality(Upto(S, y))  BY UptoIs
  <2>2. QED  BY <1>1, <2>1
<1>3. a \in Int /\ Nth(S, n) \in Int /\ n \in Int /\ Cardinality(Upto(S, a)) \in Int
  <2>1. \A b \in S : b \in Int  OBVIOUS
  <2>2. a \in Int /\ Nth(S, n) \in Int  BY <1>1, <2>1
  <2>3. n \in Int  OBVIOUS
  <2>4. \A m \in 1..Cardinality(S) : m \in Int  OBVIOUS
  <2>5. QED  BY <1>1, <2>2, <2>3, <2>4
<1>4. a = Nth(S, n) => Cardinality(Upto(S, a)) = n  BY <1>1
<1>5. QED  BY <1>1, <1>2, <1>3, <1>4

RunOf(entries, b, k) == {Nth(entries, b + i) : i \in 1..k}

LEMMA RunIs ==
  ASSUME NEW S \in SUBSET (1..MaxEntries), NEW b \in Nat, NEW k \in Nat, b + k <= Cardinality(S)
  PROVE  /\ RunOf(S, b, k) \in SUBSET S /\ Cardinality(RunOf(S, b, k)) = k
         /\ \A i \in 1..k : Nth(RunOf(S, b, k), i) = Nth(S, b + i)
<1> DEFINE T == RunOf(S, b, k)
<1>0. T = {Nth(S, b + i) : i \in 1..k}  BY DEF RunOf
<1> HIDE DEF T
<1>1. Cardinality(S) \in Nat  BY UptoIs
<1>2. \A i \in 1..k : b + i \in 1..Cardinality(S)  BY <1>1
<1>3. \A i \in 1..k : Nth(S, b + i) \in S  BY <1>2, OrderIs
<1>4. T \in SUBSET S /\ T \in SUBSET (1..MaxEntries)  BY <1>0, <1>3
<1> DEFINE filled(n) == [i \in 1..n |-> Nth(S, b + i)]
<1>5. ASSUME NEW n \in 0..k, NEW U, U = {Nth(S, b + i) : i \in 1..n} PROVE Cardinality(U) = n
  <2>1. filled(n) \in [1..n -> U] /\ \A i \in 1..n : filled(n)[i] = Nth(S, b + i)  BY <1>5
  <2>2. \A i \in 1..n : b + i \in 1..Cardinality(S)  BY <1>2
  <2>3. \A i, j \in 1..n : filled(n)[i] = filled(n)[j] => i = j
    <3>1. SUFFICES ASSUME NEW i \in 1..n, NEW j \in 1..n, filled(n)[i] = filled(n)[j] PROVE i = j  OBVIOUS
    <3>2. Nth(S, b + i) = Nth(S, b + j)  BY <2>1, <3>1
    <3>3. b + i = b + j  BY <2>2, <3>2, OrderIs
    <3>4. QED  BY <3>3
  <2>4. filled(n) \in Surjection(1..n, U)  BY <1>5, <2>1 DEF Surjection
  <2>5. filled(n) \in Injection(1..n, U)  BY <2>1, <2>3 DEF Injection, IsInjective
  <2> HIDE DEF filled
  <2>6. IsFiniteSet(1..n) /\ Cardinality(1..n) = n
    <3>1. 1 \in Int /\ n \in Int  OBVIOUS
    <3>2. IsFiniteSet(1..n) /\ Cardinality(1..n) = IF 1 > n THEN 0 ELSE n - 1 + 1  BY <3>1, FS_Interval
    <3>3. QED  BY <3>2
  <2>7. QED  BY <2>4, <2>5, <2>6, FS_Surjection
<1>6. Cardinality(T) = k
  <2>1. k \in 0..k  OBVIOUS
  <2>2. QED  BY <1>0, <1>5, <2>1
<1>7. ASSUME NEW i \in 1..k PROVE Nth(T, i) = Nth(S, b + i)
  <2> DEFINE a == Nth(S, b + i)
  <2>1. a \in T /\ a \in S  BY <1>0, <1>3
  <2>2. Upto(T, a) = {Nth(S, b + j) : j \in 1..i}
    <3>1. \A j \in 1..k : Nth(S, b + j) <= a <=> j <= i
      <4>1. TAKE j \in 1..k
      <4>2. b + j \in 1..Cardinality(S) /\ b + i \in 1..Cardinality(S) /\ Nth(S, b + j) \in S  BY <1>2, <1>3
      <4>3. Nth(S, b + j) <= a <=> Cardinality(Upto(S, Nth(S, b + j))) <= b + i  BY <4>2, NthGrows
      <4>4. Cardinality(Upto(S, Nth(S, b + j))) = b + j  BY <4>2, NthIs
      <4>5. QED  BY <4>3, <4>4
    <3>2. \A j \in 1..i : j \in 1..k /\ j <= i  OBVIOUS
    <3>3. \A j \in 1..k : j <= i => j \in 1..i  OBVIOUS
    <3> HIDE DEF a
    <3>4. QED  BY <1>0, <3>1, <3>2, <3>3 DEF Upto
  <2>3. Cardinality(Upto(T, a)) = i
    <3>1. i \in 0..k  OBVIOUS
    <3> HIDE DEF a
    <3>2. QED  BY <1>5, <2>2, <3>1
  <2> HIDE DEF a
  <2>4. Nth(T, Cardinality(Upto(T, a))) = a  BY <1>4, <2>1, NthIs
  <2>5. QED  BY <2>3, <2>4 DEF a
<1>8. QED  BY <1>4, <1>6, <1>7 DEF T

\* What a request for a page gets.
LEMMA OffsetIs ==
  ASSUME NEW S \in SUBSET (1..MaxEntries), NEW p \in Nat \ {0}
  PROVE  LET next   == AtOffset(S, p)
             before == (p - 1) * DetailSize
         IN  /\ before \in Nat /\ next \in Seq(S) /\ Len(next) \in Nat /\ Len(next) <= DetailSize
             /\ before <= Cardinality(S) => before + Len(next) <= Cardinality(S)
             /\ Len(next) # 0 => before <= Cardinality(S)
             /\ \A i \in 1..Len(next) : next[i] = Nth(S, before + i)
             /\ IsInjective(next) /\ Range(next) = RunOf(S, before, Len(next))
<1> DEFINE before == (p - 1) * DetailSize
           rest   == Cardinality(S) - before
           n      == IF rest <= 0 THEN 0 ELSE IF rest < DetailSize THEN rest ELSE DetailSize
           next   == AtOffset(S, p)
<1>1. before \in Nat
  <2>1. p - 1 \in Nat  OBVIOUS
  <2>2. QED  BY <2>1, DetailBounds
<1>2. next = [i \in 1..n |-> Nth(S, before + i)]  BY DEF AtOffset
<1> HIDE DEF before, next
<1>3. Cardinality(S) \in Nat  BY UptoIs
<1>4. /\ n \in Nat /\ n <= DetailSize /\ (before <= Cardinality(S) => before + n <= Cardinality(S))
      /\ n # 0 => before <= Cardinality(S)
  BY <1>1, <1>3, DetailBounds
<1> HIDE DEF rest, n
<1>5. \A i \in 1..n : before + i \in 1..Cardinality(S)  BY <1>1, <1>3, <1>4
<1>6. \A i \in 1..n : Nth(S, before + i) \in S  BY <1>5, OrderIs
<1>7. next \in Seq(S) /\ Len(next) = n /\ DOMAIN next = 1..n /\ \A i \in 1..n : next[i] = Nth(S, before + i)
  BY <1>2, <1>4, <1>6
<1>8. IsInjective(next)
  <2>1. \A i, j \in 1..n : next[i] = next[j] => i = j
    <3>1. SUFFICES ASSUME NEW i \in 1..n, NEW j \in 1..n, next[i] = next[j] PROVE i = j  OBVIOUS
    <3>2. before + i = before + j  BY <1>5, <1>7, <3>1, OrderIs
    <3>3. QED  BY <1>1, <1>4, <3>2
  <2>2. QED  BY <1>7, <2>1 DEF IsInjective
<1>9. Range(next) = RunOf(S, before, n)  BY <1>7 DEF Range, RunOf
<1>10. QED  BY <1>1, <1>4, <1>7, <1>8, <1>9 DEF next, before

-----------------------------------------------------------------------------
LEMMA Wider ==
  ASSUME NEW S, NEW T \in SUBSET S, NEW l \in Seq(T)
  PROVE  l \in Seq(S)
<1>1. Len(l) \in Nat /\ l \in [1..Len(l) -> T]  OBVIOUS
<1>2. l \in [1..Len(l) -> S]  BY <1>1
<1>3. QED  BY <1>1, <1>2

LEMMA ItemsIn == ASSUME NEW S, NEW l \in Seq(S) PROVE \A i \in 1..Len(l) : l[i] \in S
OBVIOUS

\* What an answer makes of the list.
LEMMA JoinIs ==
  ASSUME NEW l \in Seq(1..MaxEntries), IsInjective(l), NEW T \in SUBSET (1..MaxEntries), T \cap Range(l) = {}
  PROVE  LET all == l \o InOrder(T)
         IN  /\ all \in Seq(1..MaxEntries) /\ IsInjective(all) /\ Range(all) \in SUBSET (Range(l) \cup T)
             /\ Len(all) = Len(l) + Cardinality(T)
             /\ \A i \in 1..Len(l) : all[i] = l[i]
             /\ \A i \in 1..Cardinality(T) : all[Len(l) + i] = Nth(T, i)
<1> DEFINE m == InOrder(T)
           all == l \o m
<1>1. /\ Cardinality(T) \in Nat /\ m \in Seq(T) /\ Len(m) = Cardinality(T)
      /\ \A i, j \in 1..Cardinality(T) : m[i] = m[j] => i = j
      /\ \A i \in 1..Cardinality(T) : m[i] \in T /\ m[i] = Nth(T, i)
  BY OrderIs
<1> HIDE DEF m
<1>2. m \in Seq(1..MaxEntries)  BY <1>1, Wider
<1>3. Len(l) \in Nat  OBVIOUS
<1>4. /\ all \in Seq(1..MaxEntries) /\ Len(all) = Len(l) + Cardinality(T)
      /\ \A i \in 1..Len(l) : all[i] = l[i]
      /\ \A i \in 1..Cardinality(T) : all[Len(l) + i] = m[i]
  BY <1>1, <1>2, <1>3
<1>5. \A i \in 1..Len(all) : i \in 1..Len(l) \/ \E j \in 1..Cardinality(T) : i = Len(l) + j
  <2>1. TAKE i \in 1..Len(all)
  <2>2. CASE i <= Len(l)  BY <1>3, <2>2
  <2>3. CASE i > Len(l)
    <3>1. i - Len(l) \in 1..Cardinality(T) /\ i = Len(l) + (i - Len(l))  BY <1>1, <1>3, <1>4, <2>3
    <3>2. QED  BY <3>1
  <2>4. QED  BY <1>3, <2>2, <2>3
<1> HIDE DEF all
<1>6. \A i \in 1..Len(l) : l[i] \in Range(l)  BY DEF Range
<1>7. \A i, j \in 1..Len(l) : l[i] = l[j] => i = j  BY DEF IsInjective
<1>8. Range(all) \in SUBSET (Range(l) \cup T)
  <2>1. \A i \in 1..Len(all) : all[i] \in Range(l) \cup T
    <3>1. TAKE i \in 1..Len(all)
    <3>2. CASE i \in 1..Len(l)  BY <1>4, <1>6, <3>2
    <3>3. CASE \E j \in 1..Cardinality(T) : i = Len(l) + j  BY <1>1, <1>4, <3>3
    <3>4. QED  BY <1>5, <3>2, <3>3
  <2>2. DOMAIN all = 1..Len(all)  BY <1>4
  <2>3. QED  BY <2>1, <2>2 DEF Range
<1>9. \A i, j \in 1..Len(all) : all[i] = all[j] => i = j
  <2>1. SUFFICES ASSUME NEW i \in 1..Len(all), NEW j \in 1..Len(all), all[i] = all[j] PROVE i = j  OBVIOUS
  <2>2. CASE i \in 1..Len(l) /\ j \in 1..Len(l)  BY <1>4, <1>7, <2>1, <2>2
  <2>3. CASE \E a, b \in 1..Cardinality(T) : i = Len(l) + a /\ j = Len(l) + b
    <3>1. PICK a \in 1..Cardinality(T), b \in 1..Cardinality(T) : i = Len(l) + a /\ j = Len(l) + b  BY <2>3
    <3>2. m[a] = m[b]  BY <1>4, <2>1, <3>1
    <3>3. a = b  BY <1>1, <3>2
    <3>4. QED  BY <3>1, <3>3
  <2>4. ASSUME NEW a \in 1..Len(l), NEW b \in 1..Cardinality(T), all[a] = all[Len(l) + b] PROVE FALSE
    <3>1. all[a] \in Range(l) /\ all[Len(l) + b] \in T  BY <1>1, <1>4, <1>6
    <3>2. QED  BY <2>4, <3>1
  <2>5. QED  BY <1>5, <2>1, <2>2, <2>3, <2>4
<1>10. DOMAIN all = 1..Len(all)  BY <1>4
<1>11. IsInjective(all)  BY <1>9, <1>10 DEF IsInjective
<1>12. QED  BY <1>1, <1>4, <1>8, <1>11 DEF all, m

LEMMA CutShort ==
  ASSUME NEW l \in Seq(1..MaxEntries), IsInjective(l)
  PROVE  LET cut == IF Len(l) > FullList THEN SubSeq(l, 1, FullList) ELSE l
         IN  /\ cut \in Seq(1..MaxEntries) /\ IsInjective(cut) /\ Range(cut) \in SUBSET Range(l)
             /\ Len(cut) \in Nat /\ Len(cut) <= FullList /\ Len(cut) <= Len(l)
             /\ \A i \in 1..Len(cut) : i \in 1..Len(l) /\ cut[i] = l[i]
             /\ Len(l) <= FullList => cut = l
<1> DEFINE cut == IF Len(l) > FullList THEN SubSeq(l, 1, FullList) ELSE l
<1>1. Len(l) \in Nat /\ FullList \in Nat  BY DetailBounds
<1>2. CASE ~(Len(l) > FullList)  BY <1>1, <1>2
<1>3. CASE Len(l) > FullList
  <2>1. cut = SubSeq(l, 1, FullList)  BY <1>3
  <2> HIDE DEF cut
  <2>2. cut \in Seq(1..MaxEntries) /\ Len(cut) = FullList /\ \A i \in 1..FullList : cut[i] = l[i]
    <3>1. SubSeq(l, 1, FullList) = [i \in 1..FullList |-> l[i]]  BY <1>1, <1>3
    <3>2. \A i \in 1..FullList : l[i] \in 1..MaxEntries
      <4>1. \A i \in 1..FullList : i \in 1..Len(l)  BY <1>1, <1>3
      <4>2. \A i \in 1..Len(l) : l[i] \in 1..MaxEntries  BY ItemsIn
      <4>3. QED  BY <4>1, <4>2
    <3>3. cut = [i \in 1..FullList |-> l[i]]  BY <2>1, <3>1
    <3>4. QED  BY <1>1, <3>2, <3>3
  <2>3. \A i \in 1..FullList : i \in 1..Len(l)  BY <1>1, <1>3
  <2>4. DOMAIN cut = 1..FullList /\ DOMAIN l = 1..Len(l)  BY <2>2
  <2>5. Range(cut) \in SUBSET Range(l)  BY <2>2, <2>3, <2>4 DEF Range
  <2>6. IsInjective(cut)  BY <2>2, <2>3, <2>4 DEF IsInjective
  <2>7. QED  BY <1>1, <1>3, <2>2, <2>3, <2>5, <2>6 DEF cut
<1>4. QED  BY <1>2, <1>3

\* An answer adds what is not there yet; it goes on where the list ended when
\* the list is what the server has first.
Continues(g, S) ==
  \/ g.req.page = 1
  \/ Fitting(g, S) /\ g.req.on /\ g.hasMore /\ g.list # <<>> /\ g.page = g.req.page

LEMMA WithPageIs ==
  ASSUME NEW g \in DetailPages, ListFits(g), NEW S \in SUBSET (1..MaxEntries), g.req.page # 0
  PROVE  LET r == WithPage(g, S)
             upto == g.req.page * DetailSize
         IN  /\ r = [g EXCEPT !.list = r.list, !.hasMore = r.hasMore]
             /\ r.list \in Seq(1..MaxEntries) /\ r.hasMore \in BOOLEAN /\ ListFits(r)
             /\ Range(r.list) \in SUBSET (Range(g.list) \cup S)
             /\ Continues(g, S) =>
                  /\ Len(r.list) <= Cardinality(S) /\ \A i \in 1..Len(r.list) : r.list[i] = Nth(S, i)
                  /\ r.hasMore => Len(r.list) = upto
<1> DEFINE next == AtOffset(S, g.req.page)
           T    == Range(next) \ Range(g.list)
           all  == IF g.req.page = 1 THEN next ELSE g.list \o InOrder(T)
           cut  == IF Len(all) > FullList THEN SubSeq(all, 1, FullList) ELSE all
           more == Len(next) = DetailSize /\ Len(all) <= FullList
           before == (g.req.page - 1) * DetailSize
           r    == WithPage(g, S)
<1>1. r = [g EXCEPT !.list = cut, !.hasMore = more]  BY DEF WithPage
<1>2. g.list \in Seq(1..MaxEntries) /\ g.req.page \in Nat \ {0}  BY DEF DetailPages, Asks
<1>3. /\ before \in Nat /\ next \in Seq(S) /\ Len(next) \in Nat /\ Len(next) <= DetailSize
      /\ before <= Cardinality(S) => before + Len(next) <= Cardinality(S)
      /\ Len(next) # 0 => before <= Cardinality(S)
      /\ \A i \in 1..Len(next) : next[i] = Nth(S, before + i)
      /\ IsInjective(next) /\ Range(next) = RunOf(S, before, Len(next))
  BY <1>2, OffsetIs
<1>4. g.req.page = 1 => before = 0  BY DetailBounds
<1>5. g.req.page * DetailSize = before + DetailSize
  <2>1. g.req.page = (g.req.page - 1) + 1  BY <1>2
  <2>2. g.req.page - 1 \in Int /\ DetailSize \in Int  BY <1>2, DetailBounds
  <2>3. \A x, y \in Int : (x + 1) * y = x * y + y  OBVIOUS
  <2>4. QED  BY <2>1, <2>2, <2>3
<1> HIDE DEF next, before
<1>6. next \in Seq(1..MaxEntries) /\ Range(next) \in SUBSET S
  <2>1. DOMAIN next = 1..Len(next) /\ \A i \in 1..Len(next) : next[i] \in S  BY <1>3
  <2>2. Range(next) \in SUBSET S  BY <2>1 DEF Range
  <2>3. next \in Seq(1..MaxEntries)  BY <1>3, Wider
  <2>4. QED  BY <2>2, <2>3
<1>7. T \in SUBSET S /\ T \in SUBSET (1..MaxEntries) /\ T \cap Range(g.list) = {}  BY <1>6
<1>8. LET j == g.list \o InOrder(T)
      IN  /\ j \in Seq(1..MaxEntries) /\ IsInjective(j) /\ Range(j) \in SUBSET (Range(g.list) \cup T)
          /\ Len(j) = Len(g.list) + Cardinality(T)
          /\ \A i \in 1..Len(g.list) : j[i] = g.list[i]
          /\ \A i \in 1..Cardinality(T) : j[Len(g.list) + i] = Nth(T, i)
  BY <1>2, <1>7, JoinIs DEF ListFits
<1>9. all \in Seq(1..MaxEntries) /\ IsInjective(all) /\ Range(all) \in SUBSET (Range(g.list) \cup S)
  BY <1>3, <1>6, <1>7, <1>8
<1>10. Continues(g, S) =>
         /\ Len(all) = before + Len(next) /\ Len(all) <= Cardinality(S)
         /\ \A i \in 1..Len(all) : all[i] = Nth(S, i)
  <2>1. Cardinality(S) \in Nat  BY UptoIs
  <2>2. CASE g.req.page = 1
    <3>1. \A i \in 1..Len(next) : next[i] = Nth(S, 0 + i) /\ 0 + i = i  BY <1>3, <1>4, <2>2
    <3>2. QED  BY <1>3, <1>4, <2>1, <2>2, <3>1
  <2>3. CASE g.req.page # 1 /\ Fitting(g, S) /\ g.req.on /\ g.hasMore /\ g.list # <<>> /\ g.page = g.req.page
    <3>1. Len(g.list) = before /\ before <= Cardinality(S) /\ \A i \in 1..before : g.list[i] = Nth(S, i)
      BY <2>3 DEF Fitting, before
    <3>2. before + Len(next) <= Cardinality(S)  BY <1>3, <3>1
    <3>3. T = Range(next)
      <4>1. \A i \in 1..before, j \in 1..Len(next) : g.list[i] # next[j]
        <5>1. TAKE i \in 1..before, j \in 1..Len(next)
        <5>2. i \in 1..Cardinality(S) /\ before + j \in 1..Cardinality(S) /\ i # before + j
          BY <1>3, <2>1, <3>1, <3>2
        <5>3. Nth(S, i) # Nth(S, before + j)  BY <5>2, OrderIs
        <5>4. QED  BY <1>3, <3>1, <5>3
      <4>2. DOMAIN next = 1..Len(next) /\ DOMAIN g.list = 1..before  BY <1>2, <1>3, <3>1
      <4>3. QED  BY <4>1, <4>2 DEF Range
    <3>4. Cardinality(T) = Len(next) /\ \A i \in 1..Len(next) : Nth(T, i) = Nth(S, before + i)
      <4>1. T = RunOf(S, before, Len(next))  BY <1>3, <3>3
      <4> HIDE DEF T
      <4>2. QED  BY <1>3, <3>2, <4>1, RunIs
    <3> HIDE DEF T
    <3>5. /\ all = g.list \o InOrder(T) /\ Len(all) = before + Len(next)
          /\ \A i \in 1..before : all[i] = Nth(S, i)
          /\ \A i \in 1..Len(next) : all[before + i] = Nth(S, before + i)
      BY <1>8, <2>3, <3>1, <3>4
    <3> HIDE DEF all
    <3>6. \A i \in 1..Len(all) : all[i] = Nth(S, i)
      <4>1. TAKE i \in 1..Len(all)
      <4>2. CASE i <= before  BY <1>3, <3>5, <4>2
      <4>3. CASE i > before
        <5>1. i - before \in 1..Len(next) /\ i = before + (i - before)  BY <1>3, <3>5, <4>3
        <5>2. QED  BY <3>5, <5>1
      <4>4. QED  BY <1>3, <4>2, <4>3
    <3>7. QED  BY <3>2, <3>5, <3>6
  <2>4. QED  BY <2>2, <2>3 DEF Continues
<1> HIDE DEF all
<1>11. /\ cut \in Seq(1..MaxEntries) /\ IsInjective(cut) /\ Range(cut) \in SUBSET Range(all)
       /\ Len(cut) \in Nat /\ Len(cut) <= FullList /\ Len(cut) <= Len(all)
       /\ \A i \in 1..Len(cut) : i \in 1..Len(all) /\ cut[i] = all[i]
       /\ Len(all) <= FullList => cut = all
  BY <1>9, CutShort
<1> HIDE DEF cut, r
<1>12. more \in BOOLEAN  OBVIOUS
<1> HIDE DEF more
<1>13. r.list = cut /\ r.hasMore = more /\ r = [g EXCEPT !.list = r.list, !.hasMore = r.hasMore]
  BY <1>1 DEF DetailPages
<1>14. ListFits(r)  BY <1>11, <1>13 DEF ListFits
<1>15. Range(r.list) \in SUBSET (Range(g.list) \cup S)  BY <1>9, <1>11, <1>13
<1>16. Continues(g, S) =>
         /\ Len(cut) <= Cardinality(S) /\ \A i \in 1..Len(cut) : cut[i] = Nth(S, i)
         /\ more => Len(cut) = g.req.page * DetailSize
  <2>1. Cardinality(S) \in Nat /\ Len(all) \in Nat  BY <1>9, UptoIs
  <2>2. more => Len(next) = DetailSize /\ cut = all  BY <1>11 DEF more
  <2>3. QED  BY <1>5, <1>10, <1>11, <2>1, <2>2
<1>17. QED  BY <1>11, <1>12, <1>13, <1>14, <1>15, <1>16 DEF r

-----------------------------------------------------------------------------
\* What the steps of the page make of it.
Whos == {"load", "again", "more", "reload"}

LEMMA MergedIs ==
  ASSUME NEW g \in DetailPages
  PROVE  /\ Merged(g) \in SUBSET (0..MaxEntries) /\ \A tab : OfTab(Merged(g), tab) \in SUBSET (0..MaxEntries)
         /\ g.list = <<>> => Range(g.list) = {}
<1>1. g.list \in Seq(1..MaxEntries) /\ g.mems \in SUBSET {0}  BY DEF DetailPages, Memory
<1>2. \A i \in 1..Len(g.list) : g.list[i] \in 1..MaxEntries  BY <1>1, ItemsIn
<1>3. Range(g.list) \in SUBSET (1..MaxEntries)
  <2>1. DOMAIN g.list = 1..Len(g.list)  BY <1>1
  <2>2. QED  BY <1>2, <2>1 DEF Range
<1>4. 1..MaxEntries \in SUBSET (0..MaxEntries) /\ 0 \in 0..MaxEntries  BY DetailBounds
<1>5. Merged(g) \in SUBSET (0..MaxEntries)  BY <1>1, <1>3, <1>4 DEF Merged
<1>6. \A tab : OfTab(Merged(g), tab) \in SUBSET Merged(g)  BY DEF OfTab
<1>7. g.list = <<>> => Range(g.list) = {}
  <2>1. <<>> \in Seq(1..MaxEntries) /\ Len(<<>>) = 0  OBVIOUS
  <2>2. DOMAIN <<>> = {}  OBVIOUS
  <2>3. QED  BY <2>2 DEF Range
<1>8. QED  BY <1>5, <1>6, <1>7

LEMMA NothingFits ==
  ASSUME NEW g, g.list = <<>>, NEW S \in SUBSET (1..MaxEntries)
  PROVE  Fitting(g, S)
<1>1. Len(<<>>) = 0  OBVIOUS
<1>2. Cardinality(S) \in Nat  BY UptoIs
<1>3. Len(g.list) = 0  BY <1>1
<1>4. QED  BY <1>2, <1>3 DEF Fitting

LEMMA OffsetTyped == Offset \in Asks /\ Offset.on = FALSE
BY DEF Offset, Asks

LEMMA RefreshedIs ==
  ASSUME NEW g \in DetailPages
  PROVE  LET r == Refreshed(g)
         IN  /\ r = [g EXCEPT !.tab = r.tab, !.view = r.view]
             /\ r \in DetailPages /\ ViewFits(r) /\ Merged(r) = Merged(g)
<1> DEFINE tab == IF g.tab \in {Owner(item) : item \in Merged(g)} THEN g.tab ELSE 0
           r   == Refreshed(g)
<1>1. tab \in Members \cup {0}  BY DEF DetailPages
<1>2. r = [g EXCEPT !.tab = tab, !.view = OfTab(Merged(g), tab)]  BY DEF Refreshed
<1>3. OfTab(Merged(g), tab) \in SUBSET (0..MaxEntries)  BY MergedIs
<1> HIDE DEF tab, r
<1>4. r.tab = tab /\ r.view = OfTab(Merged(g), tab) /\ r.list = g.list /\ r.mems = g.mems  BY <1>2 DEF DetailPages
<1>5. r = [g EXCEPT !.tab = r.tab, !.view = r.view]  BY <1>2, <1>4
<1>6. Merged(r) = Merged(g)  BY <1>4 DEF Merged
<1>7. r \in DetailPages  BY <1>1, <1>2, <1>3 DEF DetailPages
<1>8. QED  BY <1>4, <1>5, <1>6, <1>7 DEF ViewFits, r

LEMMA ReloadEnds ==
  ASSUME NEW g \in DetailPages, NEW need \in BOOLEAN, NEW poll \in BOOLEAN
  PROVE  [g EXCEPT !.reloading = FALSE, !.then = "nothing", !.need = need, !.poll = poll] \in DetailPages
BY DEF DetailPages

LEMMA OverIs ==
  ASSUME NEW g, Solid(g), NEW who, who = "reload" \/ ReloadFits(g)
  PROVE  LET r == Over(g, who)
         IN  /\ PageOk(r) /\ Merged(r) = Merged(g) /\ r.list = g.list /\ r.page = g.page /\ r.hasMore = g.hasMore
             /\ r.req = g.req /\ r.shown = g.shown /\ r.dels = g.dels
             /\ r.need => g.need
             /\ r.reloading => g.reloading
             /\ ~g.shown => r.need = g.need
             /\ who # "reload" => r = g
             /\ \A S : Fitting(g, S) => Fitting(r, S)
<1> DEFINE r == Over(g, who)
<1>1. g \in DetailPages  BY DEF Solid
<1>2. CASE who # "reload"  BY <1>2 DEF Over, PageOk
<1>3. CASE who = "reload"
  <2> DEFINE ok == g.shown
             need == IF g.then = "show" /\ ok THEN FALSE ELSE g.need
             poll == g.poll \/ (g.then = "edit" /\ ok)
  <2>1. r = [g EXCEPT !.reloading = FALSE, !.then = "nothing", !.need = need, !.poll = poll]
    BY <1>3 DEF Over, ReloadOver
  <2>2. need \in BOOLEAN /\ poll \in BOOLEAN /\ (need => g.need) /\ (~g.shown => need = g.need)
    BY <1>1 DEF DetailPages
  <2> HIDE DEF r, need, poll
  <2>3. r \in DetailPages  BY <1>1, <2>1, <2>2, ReloadEnds
  <2>4. /\ r.list = g.list /\ r.mems = g.mems /\ r.view = g.view /\ r.tab = g.tab /\ r.page = g.page
        /\ r.hasMore = g.hasMore /\ r.loading = g.loading /\ r.isLogin = g.isLogin /\ r.wait = g.wait
        /\ r.req = g.req /\ r.shown = g.shown /\ r.dels = g.dels /\ r.qr = g.qr /\ r.share = g.share
        /\ r.need = need /\ r.reloading = FALSE
    BY <1>1, <2>1 DEF DetailPages
  <2>5. Merged(r) = Merged(g)  BY <2>4 DEF Merged
  <2>6. AskFits(r)  BY <2>4 DEF AskFits, Solid
  <2>7. LoginFits(r) /\ ReloadFits(r)  BY <2>4 DEF LoginFits, ReloadFits, NothingYet, Solid
  <2>8. ViewFits(r) /\ ListFits(r) /\ ShareFits(r)
    BY <2>4, <2>5 DEF ViewFits, ListFits, ShareFits, Solid
  <2>9. \A S : Fitting(g, S) => Fitting(r, S)  BY <2>4 DEF Fitting
  <2>10. QED  BY <1>3, <2>2, <2>3, <2>4, <2>5, <2>6, <2>7, <2>8, <2>9 DEF PageOk, Solid, r
<1>4. QED  BY <1>2, <1>3

LEMMA AskIs ==
  ASSUME ServerFits, NEW g, PageOk(g), g.isLogin, g.shown, g.hasMore, NEW who \in Whos,
         who # "more" => NothingYet(g)
  PROVE  LET r == Ask(g, who)
         IN  /\ PageOk(r) /\ r.list = g.list /\ r.dels = g.dels /\ r.need = g.need
             /\ r.reloading = g.reloading
             /\ FreshOf(g, held) => FreshOf(r, held)
             /\ \A lost : lost \cap (held \cup kept) = {} /\ Without(g, lost) => Without(r, lost)
<1> DEFINE r == Ask(g, who)
<1>1. g \in DetailPages /\ AskFits(g) /\ LoginFits(g) /\ ViewFits(g) /\ ListFits(g) /\ ShareFits(g) /\ ReloadFits(g)
  BY DEF PageOk, Solid
<1>2. CASE g.loading \/ (g.reloading /\ who # "reload")
  <2>1. r = [g EXCEPT !.wait = "no"]  BY <1>2 DEF Ask
  <2> HIDE DEF r
  <2>2. r \in DetailPages  BY <1>1, <2>1 DEF DetailPages
  <2>3. /\ r.list = g.list /\ r.mems = g.mems /\ r.view = g.view /\ r.tab = g.tab /\ r.page = g.page
        /\ r.hasMore = g.hasMore /\ r.loading = g.loading /\ r.isLogin = g.isLogin /\ r.wait = "no"
        /\ r.req = g.req /\ r.shown = g.shown /\ r.dels = g.dels /\ r.qr = g.qr /\ r.share = g.share
        /\ r.need = g.need /\ r.reloading = g.reloading
    BY <1>1, <2>1 DEF DetailPages
  <2>4. Merged(r) = Merged(g)  BY <2>3 DEF Merged
  <2>5. AskFits(r) /\ LoginFits(r) /\ ReloadFits(r)
    BY <1>1, <2>3 DEF AskFits, LoginFits, ReloadFits, NothingYet
  <2>6. ViewFits(r) /\ ListFits(r) /\ ShareFits(r)  BY <1>1, <2>3, <2>4 DEF ViewFits, ListFits, ShareFits
  <2>7. FreshOf(g, held) => FreshOf(r, held)  BY <2>3 DEF FreshOf, Fitting
  <2>8. \A lost : Without(g, lost) => Without(r, lost)  BY <2>3, <2>4 DEF Without
  <2>9. QED  BY <2>2, <2>3, <2>5, <2>6, <2>7, <2>8 DEF PageOk, Solid, r
<1>3. CASE ~(g.loading \/ (g.reloading /\ who # "reload"))
  <2> DEFINE page == IF who = "more" THEN g.page + 1 ELSE g.page
             req  == [on |-> TRUE, page |-> page, by |-> who, held |-> held, kept |-> kept]
  <2>1. r = [g EXCEPT !.wait = "no", !.page = page, !.loading = TRUE, !.req = req]  BY <1>3 DEF Ask
  <2>2. page \in Nat \ {0} /\ (who = "more" => page # 1 /\ page - 1 = g.page) /\ (who # "more" => page = 1)
    BY <1>1 DEF DetailPages, NothingYet
  <2>3. req \in Asks /\ req.on = TRUE /\ req.page = page /\ req.by = who /\ req.held = held /\ req.kept = kept
    BY <2>2 DEF Asks, ServerFits, Whos
  <2> HIDE DEF r, page, req
  <2>4. r \in DetailPages  BY <1>1, <2>1, <2>2, <2>3 DEF DetailPages
  <2>5. /\ r.list = g.list /\ r.mems = g.mems /\ r.view = g.view /\ r.tab = g.tab /\ r.page = page
        /\ r.hasMore = g.hasMore /\ r.loading = TRUE /\ r.isLogin = g.isLogin /\ r.wait = "no"
        /\ r.req = req /\ r.shown = g.shown /\ r.dels = g.dels /\ r.qr = g.qr /\ r.share = g.share
        /\ r.need = g.need /\ r.reloading = g.reloading
    BY <1>1, <2>1 DEF DetailPages
  <2>6. Merged(r) = Merged(g)  BY <2>5 DEF Merged
  <2>7. g.loading \in BOOLEAN /\ g.reloading \in BOOLEAN /\ g.hasMore = TRUE /\ g.shown = TRUE /\ g.isLogin = TRUE
    BY <1>1 DEF DetailPages
  <2>8. AskFits(r)  BY <1>3, <2>2, <2>3, <2>5, <2>7 DEF AskFits, NothingYet
  <2>9. LoginFits(r)  BY <2>5, <2>7 DEF LoginFits
  <2>10. ReloadFits(r)  BY <1>1, <1>3, <2>2, <2>5 DEF ReloadFits, NothingYet
  <2>11. ViewFits(r) /\ ListFits(r) /\ ShareFits(r)  BY <1>1, <2>5, <2>6 DEF ViewFits, ListFits, ShareFits
  <2>12. Fitting(g, held) => Fitting(r, held)
    <3>1. CASE who = "more"
      <4>1. ~g.req.on  BY <1>1, <1>3 DEF AskFits
      <4>2. QED  BY <2>2, <2>3, <2>5, <3>1, <4>1 DEF Fitting
    <3>2. CASE who # "more"
      <4>1. r.list = <<>>  BY <2>5, <3>2 DEF NothingYet
      <4>2. QED  BY <4>1, NothingFits DEF ServerFits
    <3>3. QED  BY <3>1, <3>2
  <2>13. FreshOf(g, held) => FreshOf(r, held)  BY <2>3, <2>5, <2>12 DEF FreshOf
  <2>14. \A lost : lost \cap (held \cup kept) = {} /\ Without(g, lost) => Without(r, lost)
    BY <2>3, <2>5, <2>6 DEF Without
  <2>15. QED  BY <2>4, <2>5, <2>8, <2>9, <2>10, <2>11, <2>13, <2>14 DEF PageOk, Solid, r
<1>4. QED  BY <1>2, <1>3

LEMMA FetchIs ==
  ASSUME ServerFits, NEW g, PageOk(g), g.hasMore, NEW who \in Whos, who # "more" => NothingYet(g)
  PROVE  LET r == Fetch(g, who)
         IN  /\ PageOk(r) /\ r.list = g.list /\ r.dels = g.dels
             /\ FreshOf(g, held) => FreshOf(r, held)
             /\ \A lost : lost \cap (held \cup kept) = {} /\ Without(g, lost) => Without(r, lost)
<1> DEFINE r == Fetch(g, who)
<1>1. /\ g \in DetailPages /\ AskFits(g) /\ LoginFits(g) /\ ViewFits(g) /\ ListFits(g) /\ ShareFits(g)
      /\ ReloadFits(g) /\ Solid(g) /\ held \in SUBSET (1..MaxEntries)
  BY DEF PageOk, Solid, ServerFits
<1> DEFINE o == Over(g, who)
<1>2. /\ PageOk(o) /\ o.list = g.list /\ o.dels = g.dels
      /\ FreshOf(g, held) => FreshOf(o, held)
      /\ \A lost : Without(g, lost) => Without(o, lost)
  <2> HIDE DEF o
  <2>1. /\ PageOk(o) /\ Merged(o) = Merged(g) /\ o.list = g.list /\ o.req = g.req /\ o.dels = g.dels
        /\ who # "reload" => o = g
    BY <1>1, OverIs DEF o
  <2>2. FreshOf(g, held) => FreshOf(o, held)
    <3>1. CASE who # "reload"  BY <2>1, <3>1
    <3>2. CASE who = "reload"
      <4>1. o.list = <<>>  BY <2>1, <3>2 DEF NothingYet
      <4>2. Fitting(o, held)  BY <1>1, <4>1, NothingFits
      <4>3. QED  BY <2>1, <4>2 DEF FreshOf
    <3>3. QED  BY <3>1, <3>2
  <2>3. \A lost : Without(g, lost) => Without(o, lost)  BY <2>1 DEF Without
  <2>4. QED  BY <2>1, <2>2, <2>3
<1>3. CASE ~g.shown
  <2>1. r = o  BY <1>3 DEF Fetch
  <2> HIDE DEF r, o
  <2>2. QED  BY <1>2, <2>1 DEF r
<1>4. CASE g.shown /\ g.isLogin
  <2>1. r = Ask(g, who)  BY <1>4 DEF Fetch
  <2> HIDE DEF r
  <2>2. QED  BY <1>4, <2>1, AskIs DEF r
<1>5. CASE g.shown /\ ~g.isLogin /\ g.wait = "no"
  <2>1. r = [g EXCEPT !.wait = who]  BY <1>5 DEF Fetch
  <2> HIDE DEF r
  <2>2. r \in DetailPages  BY <1>1, <2>1 DEF DetailPages, Whos
  <2>3. /\ r.list = g.list /\ r.mems = g.mems /\ r.view = g.view /\ r.tab = g.tab /\ r.page = g.page
        /\ r.hasMore = g.hasMore /\ r.loading = g.loading /\ r.isLogin = g.isLogin
        /\ r.req = g.req /\ r.shown = g.shown /\ r.dels = g.dels /\ r.qr = g.qr /\ r.share = g.share
        /\ r.need = g.need /\ r.reloading = g.reloading
    BY <1>1, <2>1 DEF DetailPages
  <2>4. Merged(r) = Merged(g)  BY <2>3 DEF Merged
  <2>5. AskFits(r) /\ LoginFits(r) /\ ReloadFits(r)
    BY <1>1, <1>5, <2>3 DEF AskFits, LoginFits, ReloadFits, NothingYet
  <2>6. ViewFits(r) /\ ListFits(r) /\ ShareFits(r)  BY <1>1, <2>3, <2>4 DEF ViewFits, ListFits, ShareFits
  <2>7. FreshOf(g, held) => FreshOf(r, held)  BY <2>3 DEF FreshOf, Fitting
  <2>8. \A lost : Without(g, lost) => Without(r, lost)  BY <2>3, <2>4 DEF Without
  <2>9. QED  BY <2>2, <2>3, <2>5, <2>6, <2>7, <2>8 DEF PageOk, Solid, r
<1>6. CASE g.shown /\ ~g.isLogin /\ g.wait # "no"
  <2> DEFINE s == [g EXCEPT !.view = {}]
  <2>1. r = Over(s, who)  BY <1>6 DEF Fetch
  <2>2. g.view = {}
    <3>1. Merged(g) = {}
      <4>1. g.list = <<>> /\ g.mems = {}  BY <1>1, <1>6 DEF LoginFits, NothingYet
      <4>2. Range(g.list) = {}  BY <1>1, <4>1, MergedIs
      <4>3. QED  BY <4>1, <4>2 DEF Merged
    <3>2. QED  BY <1>1, <3>1 DEF ViewFits, OfTab
  <2>3. s = g  BY <1>1, <2>2 DEF DetailPages
  <2> HIDE DEF s
  <2>4. r = o  BY <2>1, <2>3
  <2> HIDE DEF r, o
  <2>5. QED  BY <1>2, <2>4 DEF r
<1>7. QED  BY <1>3, <1>4, <1>5, <1>6

LEMMA ReloadDetailIs ==
  ASSUME ServerFits, NEW g, PageOk(g), NEW then \in {"nothing", "edit", "show"}
  PROVE  LET r == ReloadDetail(g, then)
         IN  /\ PageOk(r)
             /\ g.reloading \/ ~g.shown => r = g
             /\ ~g.reloading /\ g.shown =>
                  /\ r.list = <<>> /\ r.dels = {} /\ FreshOf(r, held)
                  /\ \A lost : lost \cap (held \cup kept) = {} => Without(r, lost)
<1> DEFINE r == ReloadDetail(g, then)
<1>1. /\ g \in DetailPages /\ AskFits(g) /\ LoginFits(g) /\ ViewFits(g) /\ ListFits(g) /\ ShareFits(g)
      /\ ReloadFits(g) /\ Solid(g) /\ held \in SUBSET (1..MaxEntries)
  BY DEF PageOk, Solid, ServerFits
<1>2. CASE g.reloading \/ ~g.shown
  <2>1. r = g  BY <1>2 DEF ReloadDetail
  <2>2. QED  BY <1>2, <2>1
<1>3. CASE ~g.reloading /\ g.shown
  <2> DEFINE qr == IF g.qr = "flight" THEN "none" ELSE g.qr
             share == IF g.share = "qr" THEN "no" ELSE g.share
             s == [g EXCEPT !.reloading = TRUE, !.then = then, !.list = <<>>, !.mems = {}, !.view = {},
                            !.dels = {}, !.req = Offset, !.loading = FALSE, !.page = 1, !.hasMore = TRUE,
                            !.qr = qr, !.share = share]
  <2>1. r = Fetch(s, "reload")  BY <1>3 DEF ReloadDetail
  <2>2. qr \in {"none", "have"} /\ share \in {"no", "draw"}  BY <1>1 DEF DetailPages
  <2> HIDE DEF qr, share
  <2>3. s \in DetailPages
    <3> DEFINE s1 == [g EXCEPT !.reloading = TRUE, !.then = then, !.list = <<>>, !.mems = {}, !.view = {},
                               !.dels = {}]
    <3>1. s1 \in DetailPages
      <4>1. <<>> \in Seq(1..MaxEntries)  OBVIOUS
      <4>2. QED  BY <1>1, <4>1 DEF DetailPages
    <3>2. s = [s1 EXCEPT !.req = Offset, !.loading = FALSE, !.page = 1, !.hasMore = TRUE, !.qr = qr, !.share = share]
      BY <1>1 DEF DetailPages
    <3> HIDE DEF s1, s
    <3>3. 1 \in Nat \ {0}  OBVIOUS
    <3>4. QED  BY <2>2, <3>1, <3>2, <3>3, OffsetTyped DEF DetailPages
  <2>4. /\ s.list = <<>> /\ s.mems = {} /\ s.view = {} /\ s.page = 1 /\ s.hasMore = TRUE /\ s.loading = FALSE
        /\ s.isLogin = g.isLogin /\ s.wait = g.wait /\ s.req = Offset /\ s.shown = g.shown /\ s.dels = {}
        /\ s.qr = qr /\ s.share = share /\ s.need = g.need /\ s.reloading = TRUE
    BY <1>1 DEF DetailPages
  <2> HIDE DEF s
  <2>5. Merged(s) = {}  BY <2>3, <2>4, MergedIs DEF Merged
  <2>6. AskFits(s) /\ LoginFits(s) /\ ReloadFits(s)
    BY <1>1, <2>4, OffsetTyped DEF AskFits, LoginFits, ReloadFits, NothingYet
  <2>7. ViewFits(s)  BY <2>4, <2>5 DEF ViewFits, OfTab
  <2>8. ShareFits(s)  BY <2>2, <2>4 DEF ShareFits
  <2>9. ListFits(s)
    <3>1. Len(<<>>) = 0 /\ DOMAIN <<>> = {}  OBVIOUS
    <3>2. IsInjective(<<>>)  BY <3>1 DEF IsInjective
    <3>3. QED  BY <2>4, <3>1, <3>2, DetailBounds DEF ListFits
  <2>10. PageOk(s)  BY <2>3, <2>6, <2>7, <2>8, <2>9 DEF PageOk, Solid
  <2>11. NothingYet(s)  BY <2>4 DEF NothingYet
  <2>12. FreshOf(s, held)
    <3>1. Fitting(s, held)  BY <1>1, <2>4, NothingFits
    <3>2. QED  BY <2>4, <3>1, OffsetTyped DEF FreshOf
  <2>13. \A lost : Without(s, lost)  BY <2>4, <2>5, OffsetTyped DEF Without
  <2> HIDE DEF r
  <2>14. /\ PageOk(r) /\ r.list = s.list /\ r.dels = s.dels
         /\ FreshOf(s, held) => FreshOf(r, held)
         /\ \A lost : lost \cap (held \cup kept) = {} /\ Without(s, lost) => Without(r, lost)
    BY <2>1, <2>4, <2>10, <2>11, FetchIs DEF Whos
  <2>15. QED  BY <1>3, <2>4, <2>12, <2>13, <2>14 DEF r
<1>4. QED  BY <1>2, <1>3

LEMMA AnsweredIs ==
  ASSUME NEW g, PageOk(g), g.req.on, NEW S \in SUBSET (1..MaxEntries), NEW K \in SUBSET {Memory}
  PROVE  LET r == Answered(g, S, K)
         IN  /\ Solid(r) /\ r.reloading = g.reloading /\ r.need = g.need /\ r.dels = g.dels
             /\ r.shown = g.shown /\ ~r.req.on
             /\ Merged(r) \in SUBSET (Merged(g) \cup S \cup K)
             /\ g.page = 1 \/ (Fitting(g, S) /\ g.list # <<>>) => Fitting(r, S)
<1> DEFINE r == Answered(g, S, K)
           first == g.req.page = 1 /\ AtOffset(S, 1) = <<>> /\ K = {}
<1>1. /\ g \in DetailPages /\ AskFits(g) /\ LoginFits(g) /\ ViewFits(g) /\ ListFits(g) /\ ShareFits(g)
      /\ ReloadFits(g) /\ Solid(g)
  BY DEF PageOk, Solid
<1>2. /\ g.shown = TRUE /\ g.isLogin = TRUE /\ g.hasMore = TRUE /\ g.req.page = g.page /\ g.wait = "no"
      /\ g.page = 1 => g.list = <<>> /\ g.mems = {}
  BY <1>1 DEF AskFits, LoginFits, DetailPages
<1>3. CASE first
  <2>1. r = [g EXCEPT !.view = {}, !.hasMore = FALSE, !.loading = FALSE, !.req = Offset]
    <3>1. r = [[g EXCEPT !.view = {}, !.hasMore = FALSE] EXCEPT !.loading = FALSE, !.req = Offset]
      BY <1>3 DEF Answered
    <3>2. QED  BY <1>1, <3>1 DEF DetailPages
  <2>2. g.list = <<>> /\ g.mems = {}  BY <1>2, <1>3
  <2> HIDE DEF r
  <2>3. r \in DetailPages  BY <1>1, <2>1, OffsetTyped DEF DetailPages
  <2>4. /\ r.list = g.list /\ r.mems = g.mems /\ r.view = {} /\ r.page = g.page /\ r.loading = FALSE
        /\ r.isLogin = g.isLogin /\ r.wait = g.wait /\ r.req = Offset /\ r.shown = g.shown /\ r.dels = g.dels
        /\ r.qr = g.qr /\ r.share = g.share /\ r.need = g.need /\ r.reloading = g.reloading
    BY <1>1, <2>1 DEF DetailPages
  <2>5. Merged(r) = {}  BY <2>2, <2>3, <2>4, MergedIs DEF Merged
  <2>6. AskFits(r) /\ LoginFits(r)  BY <1>2, <2>4, OffsetTyped DEF AskFits, LoginFits
  <2>7. ViewFits(r) /\ ListFits(r) /\ ShareFits(r)
    BY <1>1, <2>4, <2>5 DEF ViewFits, OfTab, ListFits, ShareFits
  <2>8. Fitting(r, S)  BY <2>2, <2>4, NothingFits
  <2>9. QED  BY <2>3, <2>4, <2>5, <2>6, <2>7, <2>8, OffsetTyped DEF Solid, r
<1>4. CASE ~first
  <2> DEFINE w == WithPage(g, S)
             m == [w EXCEPT !.mems = K]
             filled == Refreshed(m)
  <2>1. r = [filled EXCEPT !.loading = FALSE, !.req = Offset]  BY <1>4 DEF Answered
  <2>2. g.req.page # 0  BY <1>1, <1>2 DEF DetailPages
  <2>3. /\ w = [g EXCEPT !.list = w.list, !.hasMore = w.hasMore]
        /\ w.list \in Seq(1..MaxEntries) /\ w.hasMore \in BOOLEAN /\ ListFits(w)
        /\ Range(w.list) \in SUBSET (Range(g.list) \cup S)
        /\ Continues(g, S) =>
             /\ Len(w.list) <= Cardinality(S) /\ \A i \in 1..Len(w.list) : w.list[i] = Nth(S, i)
             /\ w.hasMore => Len(w.list) = g.req.page * DetailSize
    BY <1>1, <2>2, WithPageIs
  <2> HIDE DEF w
  <2>4. /\ m = [g EXCEPT !.list = w.list, !.hasMore = w.hasMore, !.mems = K] /\ m.list = w.list /\ m.mems = K
        /\ m.hasMore = w.hasMore
    BY <1>1, <2>3 DEF DetailPages
  <2>5. m \in DetailPages
    <3> HIDE DEF m
    <3>1. QED  BY <1>1, <2>3, <2>4 DEF DetailPages
  <2>6. /\ m.page = g.page /\ m.isLogin = g.isLogin /\ m.wait = g.wait /\ m.shown = g.shown /\ m.dels = g.dels
        /\ m.qr = g.qr /\ m.share = g.share /\ m.need = g.need /\ m.reloading = g.reloading
    <3> HIDE DEF m
    <3>1. QED  BY <1>1, <2>4 DEF DetailPages
  <2> HIDE DEF m
  <2>7. filled = [m EXCEPT !.tab = filled.tab, !.view = filled.view] /\ filled \in DetailPages /\ ViewFits(filled) /\ Merged(filled) = Merged(m)
    BY <2>5, RefreshedIs
  <2> HIDE DEF filled, r
  <2>8. /\ filled.list = m.list /\ filled.mems = m.mems /\ filled.hasMore = m.hasMore
        /\ filled.page = g.page /\ filled.isLogin = g.isLogin /\ filled.wait = g.wait /\ filled.shown = g.shown /\ filled.dels = g.dels
        /\ filled.qr = g.qr /\ filled.share = g.share /\ filled.need = g.need /\ filled.reloading = g.reloading
    <3>1. /\ filled.list = m.list /\ filled.mems = m.mems /\ filled.hasMore = m.hasMore
          /\ filled.page = m.page /\ filled.isLogin = m.isLogin /\ filled.wait = m.wait /\ filled.shown = m.shown /\ filled.dels = m.dels
          /\ filled.qr = m.qr /\ filled.share = m.share /\ filled.need = m.need /\ filled.reloading = m.reloading
      <4> DEFINE tab  == filled.tab
                 view == filled.view
      <4>1. filled = [m EXCEPT !.tab = tab, !.view = view]  BY <2>7
      <4> HIDE DEF tab, view
      <4>2. QED  BY <2>5, <4>1 DEF DetailPages
    <3>2. QED  BY <2>6, <3>1
  <2>9. r \in DetailPages  BY <2>1, <2>7, OffsetTyped DEF DetailPages
  <2>10. /\ r.list = filled.list /\ r.mems = filled.mems /\ r.view = filled.view /\ r.tab = filled.tab /\ r.hasMore = filled.hasMore
         /\ r.page = filled.page /\ r.isLogin = filled.isLogin /\ r.wait = filled.wait /\ r.shown = filled.shown /\ r.dels = filled.dels
         /\ r.qr = filled.qr /\ r.share = filled.share /\ r.need = filled.need /\ r.reloading = filled.reloading
         /\ r.loading = FALSE /\ r.req = Offset
    BY <2>1, <2>7 DEF DetailPages
  <2>11. r.list = w.list /\ r.mems = K /\ r.hasMore = w.hasMore  BY <2>4, <2>8, <2>10
  <2>12. Merged(r) = Merged(filled)  BY <2>10 DEF Merged
  <2>13. AskFits(r) /\ LoginFits(r)  BY <1>2, <2>8, <2>10, OffsetTyped DEF AskFits, LoginFits
  <2>14. ViewFits(r)  BY <2>7, <2>10, <2>12 DEF ViewFits
  <2>15. ListFits(r)  BY <2>3, <2>11 DEF ListFits
  <2>16. ShareFits(r)  BY <1>1, <2>8, <2>10 DEF ShareFits
  <2>17. Merged(r) \in SUBSET (Merged(g) \cup S \cup K)  BY <2>3, <2>11 DEF Merged
  <2>18. g.page = 1 \/ (Fitting(g, S) /\ g.list # <<>>) => Fitting(r, S)
    <3>1. SUFFICES ASSUME g.page = 1 \/ (Fitting(g, S) /\ g.list # <<>>) PROVE Fitting(r, S)  OBVIOUS
    <3>2. Continues(g, S)  BY <1>2, <3>1 DEF Continues
    <3>3. r.page = g.req.page /\ ~r.req.on  BY <1>2, <2>8, <2>10, OffsetTyped
    <3>4. QED  BY <2>3, <2>11, <3>2, <3>3 DEF Fitting
  <2>19. QED
    BY <2>8, <2>9, <2>10, <2>13, <2>14, <2>15, <2>16, <2>17, <2>18, OffsetTyped DEF Solid, r
<1>5. QED  BY <1>3, <1>4

-----------------------------------------------------------------------------
\* The steps.
LEMMA DetailIs ==
  DetailInv =>
    /\ d \in DetailPages /\ AskFits(d) /\ LoginFits(d) /\ ViewFits(d) /\ ListFits(d) /\ ShareFits(d) /\ ReloadFits(d)
    /\ Solid(d) /\ PageOk(d) /\ ServerFits /\ held \in SUBSET (1..MaxEntries) /\ kept \in SUBSET {Memory}
BY DEF DetailInv, PageOk, Solid, ServerFits

\* A step of the page alone.
LEMMA DayMoves ==
  ASSUME DetailInv, UNCHANGED <<held, kept, sent, gone, changes>>, PageOk(d'), d'.dels \in SUBSET d.dels,
         detailHides' \in 0..MaxDetailHides,
         EntriesRead', Noticed'
  PROVE  DetailInv'
<1>1. ServerFits' /\ DetailCounts'  BY DEF DetailInv, ServerFits, DetailCounts
<1>2. Deleted'  BY DEF DetailInv, Deleted
<1>3. PageOk(d)'  OBVIOUS
<1>4. QED  BY <1>1, <1>2, <1>3 DEF DetailInv

LEMMA PageMovesFreely ==
  ASSUME DetailInv, UNCHANGED <<held, kept, sent, gone, changes, detailHides>>, excused \in SUBSET excused',
         PageOk(d'), d'.dels \in SUBSET d.dels,
         FreshOf(d, held) => FreshOf(d', held), Without(d, gone) => Without(d', gone)
  PROVE  DetailInv'
<1>1. Clean' => Clean  BY DEF Clean
<1>2. FreshOf(d', held')  => FreshOf(d, held)'  OBVIOUS
<1>3. EntriesRead'  BY <1>1, <1>2 DEF DetailInv, EntriesRead
<1>4. excused' \cap {"late", "raced"} = {} => excused \cap {"late", "raced"} = {}  OBVIOUS
<1>5. Without(d', gone') => Without(d, gone)'  OBVIOUS
<1>6. Noticed'  BY <1>4, <1>5 DEF DetailInv, Noticed
<1>7. detailHides' \in 0..MaxDetailHides  BY DEF DetailInv, DetailCounts
<1>8. QED  BY <1>3, <1>6, <1>7, DayMoves

LEMMA NothingShown ==
  ASSUME NEW g \in DetailPages, g.list = <<>>, g.mems = {}
  PROVE  Merged(g) = {}
BY MergedIs DEF Merged

LEMMA DetailLoginEndsKeeps == DetailInv /\ DetailLoginEnds => DetailInv'
<1> SUFFICES ASSUME DetailInv, DetailLoginEnds PROVE DetailInv'  OBVIOUS
<1> USE DetailIs
<1>1. PICK ok \in BOOLEAN :
        LET told == [d EXCEPT !.isLogin = ok /\ d.shown, !.wait = "no"]
        IN  /\ d' = IF told.isLogin THEN Ask(told, d.wait)
                    ELSE IF d.wait = "load" THEN Fetch(told, "again")
                    ELSE Over([told EXCEPT !.view = {}], d.wait)
            /\ excused' = excused \cup (IF ok /\ ~d.shown THEN {"login"} ELSE {})
  BY DEF DetailLoginEnds, Excuse
<1> DEFINE in == ok /\ d.shown
           told == [d EXCEPT !.isLogin = in, !.wait = "no"]
<1>2. d.wait \in Whos /\ d.isLogin = FALSE /\ NothingYet(d) /\ d.req.on = FALSE
  <2>1. d.wait \in Whos  BY DEF DetailLoginEnds, DetailPages, Whos
  <2>2. d.isLogin = FALSE  BY DEF DetailLoginEnds, LoginFits, DetailPages
  <2>3. d.req.on = FALSE  BY <2>2 DEF AskFits, DetailPages, Asks
  <2>4. QED  BY <2>1, <2>2, <2>3 DEF LoginFits
<1>3. in \in BOOLEAN /\ (in => d.shown = TRUE)  BY DEF DetailPages
<1> HIDE DEF in
<1>4. told \in DetailPages  BY <1>3 DEF DetailPages
<1>5. /\ told.list = d.list /\ told.mems = d.mems /\ told.view = d.view /\ told.tab = d.tab
      /\ told.page = d.page /\ told.hasMore = d.hasMore /\ told.loading = d.loading /\ told.isLogin = in
      /\ told.wait = "no" /\ told.req = d.req /\ told.shown = d.shown /\ told.dels = d.dels
      /\ told.qr = d.qr /\ told.share = d.share /\ told.need = d.need /\ told.reloading = d.reloading
  BY DEF DetailPages
<1> HIDE DEF told
<1>6. Merged(told) = Merged(d) /\ Merged(d) = {}  BY <1>2, <1>5, NothingShown DEF Merged, NothingYet
<1>7. NothingYet(told)  BY <1>2, <1>5 DEF NothingYet
<1>8. PageOk(told)
  <2>1. AskFits(told)  BY <1>2, <1>5 DEF AskFits
  <2>2. LoginFits(told) /\ ReloadFits(told)  BY <1>5, <1>7 DEF LoginFits, ReloadFits
  <2>3. ViewFits(told) /\ ListFits(told) /\ ShareFits(told)
    BY <1>5, <1>6 DEF ViewFits, ListFits, ShareFits
  <2>4. QED  BY <1>4, <2>1, <2>2, <2>3 DEF PageOk, Solid
<1>9. FreshOf(told, held) /\ Without(told, gone)
  <2>1. Fitting(told, held)  BY <1>7, NothingFits DEF NothingYet
  <2>2. QED  BY <1>2, <1>5, <1>6, <2>1 DEF FreshOf, Without
<1>10. gone \cap (held \cup kept) = {}  BY DEF DetailInv, Deleted
<1>11. PageOk(d') /\ d'.dels = d.dels /\ FreshOf(d', held) /\ Without(d', gone)
  <2>1. CASE told.isLogin
    <3>1. d' = Ask(told, d.wait)  BY <1>1, <2>1 DEF told, in
    <3>2. told.shown /\ told.hasMore  BY <1>3, <1>5, <1>7, <2>1 DEF NothingYet
    <3>3. QED  BY <1>2, <1>5, <1>7, <1>8, <1>9, <1>10, <2>1, <3>1, <3>2, AskIs
  <2>2. CASE ~told.isLogin /\ d.wait = "load"
    <3>1. d' = Fetch(told, "again")  BY <1>1, <2>2 DEF told, in
    <3>2. told.hasMore  BY <1>7 DEF NothingYet
    <3>3. QED  BY <1>5, <1>7, <1>8, <1>9, <1>10, <3>1, <3>2, FetchIs DEF Whos
  <2>3. CASE ~told.isLogin /\ d.wait # "load"
    <3>1. d' = Over([told EXCEPT !.view = {}], d.wait)  BY <1>1, <2>3 DEF told, in
    <3>2. told.view = {}  BY <1>6, <1>8 DEF PageOk, Solid, ViewFits, OfTab
    <3>3. [told EXCEPT !.view = {}] = told  BY <1>4, <3>2 DEF DetailPages
    <3>4. d' = Over(told, d.wait)  BY <3>1, <3>3
    <3>5. /\ PageOk(d') /\ Merged(d') = Merged(told) /\ d'.list = told.list /\ d'.req = told.req
          /\ d'.dels = told.dels
      BY <1>8, <3>4, OverIs DEF PageOk
    <3>6. Fitting(d', held)  BY <1>7, <3>5, NothingFits DEF NothingYet
    <3>7. QED  BY <1>2, <1>5, <1>6, <3>5, <3>6 DEF FreshOf, Without
  <2>4. QED  BY <2>1, <2>2, <2>3
<1>12. UNCHANGED <<held, kept, sent, gone, changes, detailHides>> /\ excused \in SUBSET excused'
  BY <1>1 DEF DetailLoginEnds, Server
<1>13. QED  BY <1>11, <1>12, PageMovesFreely

LEMMA DetailArrivesKeeps == DetailInv /\ DetailArrives => DetailInv'
<1> SUFFICES ASSUME DetailInv, DetailArrives PROVE DetailInv'  OBVIOUS
<1> USE DetailIs
<1>1. /\ d.req.on /\ d.req.held \in SUBSET (1..MaxEntries) /\ d.req.kept \in SUBSET {Memory}
      /\ d.req.page = d.page /\ d.req.by \in Whos
      /\ UNCHANGED <<held, kept, sent, gone, changes, detailHides>>
  BY DEF DetailArrives, Server, DetailPages, Asks, AskFits, Whos
<1>2. PICK now \in [held : {d.req.held}, kept : {d.req.kept}] \cup [held : {held}, kept : {kept}] :
        /\ d' = Over(Answered(d, now.held, now.kept), d.req.by)
        /\ excused' = IF d.req.page = 1 THEN IF now.held = held THEN excused \ {"skipped", "moved"} ELSE excused
                      ELSE IF d.list = <<>> THEN excused \cup {"skipped"} ELSE excused
  BY DEF DetailArrives
<1> DEFINE S == now.held
           K == now.kept
           r == Answered(d, S, K)
<1>3. (S = d.req.held /\ K = d.req.kept) \/ (S = held /\ K = kept)  OBVIOUS
<1> HIDE DEF S, K
<1>4. S \in SUBSET (1..MaxEntries) /\ K \in SUBSET {Memory}  BY <1>1, <1>3
<1>5. /\ Solid(r) /\ r.reloading = d.reloading /\ r.need = d.need /\ r.dels = d.dels
      /\ r.shown = d.shown /\ ~r.req.on
      /\ Merged(r) \in SUBSET (Merged(d) \cup S \cup K)
      /\ d.page = 1 \/ (Fitting(d, S) /\ d.list # <<>>) => Fitting(r, S)
  BY <1>1, <1>4, AnsweredIs
<1>6. d' = Over(r, d.req.by)  BY <1>2 DEF S, K
<1> HIDE DEF r
<1>7. d.req.by = "reload" \/ ~d.reloading  BY <1>1 DEF AskFits
<1>8. /\ PageOk(d') /\ Merged(d') = Merged(r) /\ d'.req = r.req /\ d'.dels = r.dels
      /\ d'.need => r.need
      /\ d'.reloading => r.reloading
      /\ d.req.by # "reload" => d' = r
      /\ Fitting(r, held) => Fitting(d', held)
  BY <1>5, <1>6, <1>7, OverIs DEF ReloadFits
<1>9. EntriesRead'
  <2>1. SUFFICES ASSUME Clean' PROVE FreshOf(d', held)  BY <1>1 DEF EntriesRead
  <2>2. ~d'.req.on  BY <1>5, <1>8
  <2>3. CASE d.page = 1
    <3>1. S = held
      <4>1. CASE S # held
        <5>1. excused' = excused  BY <1>1, <1>2, <2>3, <4>1 DEF S
        <5>2. Clean  BY <2>1, <5>1 DEF Clean
        <5>3. d.req.held = held  BY <1>1, <5>2 DEF DetailInv, EntriesRead, FreshOf
        <5>4. QED  BY <1>3, <4>1, <5>3
      <4>2. QED  BY <4>1
    <3>2. Fitting(d', held)  BY <1>5, <1>8, <2>3, <3>1
    <3>3. QED  BY <2>2, <3>2 DEF FreshOf
  <2>4. CASE d.page # 1
    <3>1. d.list # <<>> /\ excused' = excused
      <4>1. d.list = <<>> => excused' = excused \cup {"skipped"}  BY <1>1, <1>2, <2>4
      <4>2. d.list # <<>>  BY <2>1, <4>1 DEF Clean
      <4>3. QED  BY <1>1, <1>2, <2>4, <4>2
    <3>2. Clean  BY <2>1, <3>1 DEF Clean
    <3>3. FreshOf(d, held)  BY <3>2 DEF DetailInv, EntriesRead
    <3>4. S = held  BY <1>1, <1>3, <3>3 DEF FreshOf
    <3>5. ~d.reloading /\ d.req.by # "reload" /\ d' = r  BY <1>1, <1>8, <2>4 DEF ReloadFits, NothingYet, AskFits
    <3>6. ~d'.need \/ d'.reloading => Fitting(d', held)
      <4>1. SUFFICES ASSUME ~d'.need \/ d'.reloading PROVE Fitting(d', held)  OBVIOUS
      <4>2. ~d.need  BY <1>5, <3>5, <4>1
      <4>3. Fitting(d, held)  BY <3>3, <4>2 DEF FreshOf
      <4>4. QED  BY <1>5, <3>1, <3>4, <3>5, <4>3
    <3>7. QED  BY <2>2, <3>6 DEF FreshOf
  <2>5. QED  BY <2>3, <2>4
<1>10. Noticed'
  <2>1. SUFFICES ASSUME excused' \cap {"late", "raced"} = {} PROVE Without(d', gone)  BY <1>1 DEF Noticed
  <2>2. excused \cap {"late", "raced"} = {}  BY <1>2, <2>1
  <2>3. gone \cap Merged(d) = {} /\ gone \cap (d.req.held \cup d.req.kept) = {} /\ gone \cap (held \cup kept) = {}
    BY <1>1, <2>2 DEF DetailInv, Noticed, Without, Deleted
  <2>4. gone \cap (Merged(d) \cup S \cup K) = {}  BY <1>3, <2>3
  <2>5. QED  BY <1>5, <1>8, <2>4 DEF Without
<1>11. detailHides' \in 0..MaxDetailHides  BY <1>1 DEF DetailInv, DetailCounts
<1>12. d'.dels \in SUBSET d.dels  BY <1>5, <1>8
<1>13. QED  BY <1>1, <1>8, <1>9, <1>10, <1>11, <1>12, DayMoves

LEMMA DetailFailsKeeps == DetailInv /\ DetailFails => DetailInv'
<1> SUFFICES ASSUME DetailInv, DetailFails PROVE DetailInv'  OBVIOUS
<1> USE DetailIs
<1> DEFINE page == IF d.req.page > 1 THEN d.req.page - 1 ELSE 1
           r == [d EXCEPT !.req = Offset, !.loading = FALSE, !.page = page]
<1>1. /\ d.req.on /\ d.req.page = d.page /\ d' = Over(r, d.req.by) /\ d.hasMore
      /\ UNCHANGED <<held, kept, sent, gone, excused, changes, detailHides>>
  BY DEF DetailFails, Rest, AskFits
<1>2. page \in Nat \ {0} /\ (d.page # 1 => page = d.page - 1) /\ (d.page = 1 => page = 1)
  BY <1>1 DEF DetailPages
<1> HIDE DEF page
<1>3. r \in DetailPages  BY <1>2, OffsetTyped DEF DetailPages
<1>4. /\ r.list = d.list /\ r.mems = d.mems /\ r.view = d.view /\ r.tab = d.tab /\ r.page = page
      /\ r.hasMore = d.hasMore /\ r.loading = FALSE /\ r.isLogin = d.isLogin /\ r.wait = d.wait
      /\ r.req = Offset /\ r.shown = d.shown /\ r.dels = d.dels /\ r.qr = d.qr /\ r.share = d.share
      /\ r.need = d.need /\ r.reloading = d.reloading
  BY DEF DetailPages
<1> HIDE DEF r
<1>5. Merged(r) = Merged(d)  BY <1>4 DEF Merged
<1>6. Solid(r) /\ ReloadFits(r)
  <2>1. AskFits(r)  BY <1>4, OffsetTyped DEF AskFits
  <2>2. LoginFits(r) /\ ReloadFits(r)  BY <1>2, <1>4 DEF LoginFits, ReloadFits, NothingYet
  <2>3. ViewFits(r) /\ ListFits(r) /\ ShareFits(r)  BY <1>4, <1>5 DEF ViewFits, ListFits, ShareFits
  <2>4. QED  BY <1>3, <2>1, <2>2, <2>3 DEF Solid
<1>7. Fitting(d, held) => Fitting(r, held)
  <2>1. CASE d.page = 1
    <3>1. r.list = <<>>  BY <1>1, <1>4, <2>1 DEF AskFits
    <3>2. QED  BY <3>1, NothingFits
  <2>2. CASE d.page # 1  BY <1>1, <1>2, <1>4, <2>2, OffsetTyped DEF Fitting
  <2>3. QED  BY <2>1, <2>2
<1>8. /\ PageOk(d') /\ Merged(d') = Merged(r) /\ d'.list = r.list /\ d'.req = r.req /\ d'.dels = r.dels
      /\ d'.need => r.need
      /\ d'.reloading => r.reloading
      /\ d.req.by # "reload" => d' = r
      /\ Fitting(r, held) => Fitting(d', held)
  BY <1>1, <1>6, OverIs
<1>9. FreshOf(d, held) => FreshOf(d', held)
  <2>1. CASE d.req.by # "reload"  BY <1>4, <1>7, <1>8, <2>1, OffsetTyped DEF FreshOf
  <2>2. CASE d.req.by = "reload"
    <3>1. d'.list = <<>>  BY <1>1, <1>4, <1>8, <2>2 DEF AskFits
    <3>2. Fitting(d', held)  BY <3>1, NothingFits
    <3>3. QED  BY <1>4, <1>8, <3>2, OffsetTyped DEF FreshOf
  <2>3. QED  BY <2>1, <2>2
<1>10. Without(d, gone) => Without(d', gone)  BY <1>4, <1>5, <1>8, OffsetTyped DEF Without
<1>11. d'.dels \in SUBSET d.dels  BY <1>4, <1>8
<1>12. QED  BY <1>1, <1>8, <1>9, <1>10, <1>11, PageMovesFreely

LEMMA LoadMoreDetailKeeps == DetailInv /\ LoadMoreDetail => DetailInv'
<1> SUFFICES ASSUME DetailInv, LoadMoreDetail PROVE DetailInv'  OBVIOUS
<1> USE DetailIs
<1>1. /\ d.hasMore /\ d' = Fetch(d, "more")
      /\ UNCHANGED <<held, kept, sent, gone, excused, changes, detailHides>>
  BY DEF LoadMoreDetail, Rest
<1>2. gone \cap (held \cup kept) = {}  BY DEF DetailInv, Deleted
<1>3. /\ PageOk(d') /\ d'.dels = d.dels /\ (FreshOf(d, held) => FreshOf(d', held))
      /\ \A lost : lost \cap (held \cup kept) = {} /\ Without(d, lost) => Without(d', lost)
  BY <1>1, FetchIs DEF Whos
<1>4. QED  BY <1>1, <1>2, <1>3, PageMovesFreely

LEMMA TabChangeKeeps == DetailInv /\ TabChange => DetailInv'
<1> SUFFICES ASSUME DetailInv, TabChange PROVE DetailInv'  OBVIOUS
<1> USE DetailIs
<1>1. PICK tab \in Members \cup {0} : d' = [d EXCEPT !.tab = tab, !.view = OfTab(Merged(d), tab)]
  BY DEF TabChange
<1>2. UNCHANGED <<held, kept, sent, gone, excused, changes, detailHides>>  BY DEF TabChange, Rest
<1>3. OfTab(Merged(d), tab) \in SUBSET (0..MaxEntries)  BY MergedIs
<1>4. d' \in DetailPages  BY <1>1, <1>3 DEF DetailPages
<1>5. /\ d'.list = d.list /\ d'.mems = d.mems /\ d'.view = OfTab(Merged(d), tab) /\ d'.tab = tab
      /\ d'.page = d.page /\ d'.hasMore = d.hasMore /\ d'.loading = d.loading /\ d'.isLogin = d.isLogin
      /\ d'.wait = d.wait /\ d'.req = d.req /\ d'.shown = d.shown /\ d'.dels = d.dels
      /\ d'.qr = d.qr /\ d'.share = d.share /\ d'.need = d.need /\ d'.reloading = d.reloading
  BY <1>1 DEF DetailPages
<1>6. Merged(d') = Merged(d)  BY <1>5 DEF Merged
<1>7. PageOk(d')
  <2>1. AskFits(d') /\ LoginFits(d') /\ ReloadFits(d')  BY <1>5 DEF AskFits, LoginFits, ReloadFits, NothingYet
  <2>2. ViewFits(d') /\ ListFits(d') /\ ShareFits(d')  BY <1>5, <1>6 DEF ViewFits, ListFits, ShareFits
  <2>3. QED  BY <1>4, <2>1, <2>2 DEF PageOk, Solid
<1>8. FreshOf(d, held) => FreshOf(d', held)  BY <1>5 DEF FreshOf, Fitting
<1>9. Without(d, gone) => Without(d', gone)  BY <1>5, <1>6 DEF Without
<1>10. QED  BY <1>2, <1>5, <1>7, <1>8, <1>9, PageMovesFreely

\* A step that leaves the list and what is asked for alone.
LEMMA SameList ==
  ASSUME NEW g, PageOk(g), NEW r \in DetailPages,
         r.list = g.list, r.mems = g.mems, r.view = g.view, r.tab = g.tab, r.page = g.page, r.hasMore = g.hasMore,
         r.loading = g.loading, r.reloading = g.reloading, r.isLogin = g.isLogin, r.wait = g.wait,
         r.req = g.req, r.shown = g.shown, ShareFits(r)
  PROVE  /\ PageOk(r) /\ \A lost : Without(g, lost) => Without(r, lost)
         /\ (r.need = g.need) => \A S : FreshOf(g, S) => FreshOf(r, S)
<1>1. /\ g \in DetailPages /\ AskFits(g) /\ LoginFits(g) /\ ViewFits(g) /\ ListFits(g) /\ ReloadFits(g)
  BY DEF PageOk, Solid
<1>2. Merged(r) = Merged(g)  BY DEF Merged
<1>3. AskFits(r) /\ LoginFits(r) /\ ReloadFits(r)  BY <1>1 DEF AskFits, LoginFits, ReloadFits, NothingYet
<1>4. ViewFits(r) /\ ListFits(r)  BY <1>1, <1>2 DEF ViewFits, ListFits
<1>5. \A lost : Without(g, lost) => Without(r, lost)  BY <1>2 DEF Without
<1>6. (r.need = g.need) => \A S : FreshOf(g, S) => FreshOf(r, S)  BY DEF FreshOf, Fitting
<1>7. QED  BY <1>3, <1>4, <1>5, <1>6 DEF PageOk, Solid

LEMMA WithDels ==
  ASSUME NEW g, PageOk(g), NEW dels \in SUBSET (0..MaxEntries)
  PROVE  LET r == [g EXCEPT !.dels = dels]
         IN  /\ PageOk(r) /\ r.dels = dels /\ r.shown = g.shown /\ r.reloading = g.reloading
             /\ \A lost : Without(g, lost) => Without(r, lost)
             /\ \A S : FreshOf(g, S) => FreshOf(r, S)
<1> DEFINE r == [g EXCEPT !.dels = dels]
<1>1. g \in DetailPages  BY DEF PageOk, Solid
<1>2. /\ r \in DetailPages
      /\ r.list = g.list /\ r.mems = g.mems /\ r.view = g.view /\ r.tab = g.tab /\ r.page = g.page
      /\ r.hasMore = g.hasMore /\ r.loading = g.loading /\ r.reloading = g.reloading /\ r.isLogin = g.isLogin
      /\ r.wait = g.wait /\ r.req = g.req /\ r.shown = g.shown /\ r.qr = g.qr /\ r.share = g.share
      /\ r.need = g.need /\ r.dels = dels
  BY <1>1 DEF DetailPages
<1> HIDE DEF r
<1>3. ShareFits(r)  BY <1>2 DEF ShareFits, PageOk, Solid
<1>4. QED  BY <1>2, <1>3, SameList DEF r

LEMMA DeleteKeeps == ASSUME DetailInv, NEW item \in 0..MaxEntries, Delete(item) PROVE DetailInv'
<1> USE DetailIs
<1>1. /\ item \in d.view \ d.dels /\ Owner(item) = 1 /\ changes < MaxChanges /\ changes' = changes + 1
      /\ d' = [d EXCEPT !.dels = @ \cup {item}] /\ sent' = sent \cup {item}
      /\ UNCHANGED <<held, kept, gone, excused, detailHides>>
  BY DEF Delete, Change
<1> DEFINE dels == d.dels \cup {item}
<1>2. dels \in SUBSET (0..MaxEntries)  BY DEF DetailPages
<1>3. d' = [d EXCEPT !.dels = dels]  BY <1>1
<1> HIDE DEF dels
<1>4. /\ PageOk(d') /\ d'.dels = dels
      /\ \A lost : Without(d, lost) => Without(d', lost)
      /\ \A S : FreshOf(d, S) => FreshOf(d', S)
  BY <1>2, <1>3, WithDels
<1>5. EntriesRead'  BY <1>1, <1>4 DEF DetailInv, EntriesRead, Clean
<1>6. Noticed'  BY <1>1, <1>4 DEF DetailInv, Noticed
<1>7. Deleted'
  <2>1. dels \ sent' \in SUBSET (d.dels \ sent)  BY <1>1 DEF dels
  <2>2. \A i \in dels : Owner(i) = 1  BY <1>1 DEF DetailInv, Deleted, dels
  <2>3. QED  BY <1>1, <1>4, <2>1, <2>2 DEF DetailInv, Deleted
<1>8. DetailCounts'  BY <1>1, DetailBounds DEF DetailInv, DetailCounts
<1>9. QED  BY <1>1, <1>4, <1>5, <1>6, <1>7, <1>8 DEF DetailInv, ServerFits

LEMMA DeleteRunsKeeps == ASSUME DetailInv, NEW item \in 0..MaxEntries, DeleteRuns(item) PROVE DetailInv'
<1> USE DetailIs
<1>1. /\ sent' = sent \ {item} /\ held' = held \ {item} /\ kept' = kept \ {item}
      /\ excused' = excused \cup {"moved"} /\ UNCHANGED <<d, gone, changes, detailHides>>
  BY DEF DeleteRuns, Excuse
<1>2. EntriesRead'  BY <1>1 DEF EntriesRead, Clean
<1>3. Noticed'
  <2>1. excused' \cap {"late", "raced"} = {} => excused \cap {"late", "raced"} = {}  BY <1>1
  <2>2. QED  BY <1>1, <2>1 DEF DetailInv, Noticed
<1>4. Deleted'  BY <1>1 DEF DetailInv, Deleted
<1>5. ServerFits' /\ DetailCounts'  BY <1>1 DEF DetailInv, ServerFits, DetailCounts
<1>6. QED  BY <1>1, <1>2, <1>3, <1>4, <1>5 DEF DetailInv

LEMMA DeleteFailsKeeps == ASSUME DetailInv, NEW item \in 0..MaxEntries, DeleteFails(item) PROVE DetailInv'
<1> USE DetailIs
<1>1. /\ d' = [d EXCEPT !.dels = @ \ {item}] /\ sent' = sent \ {item}
      /\ UNCHANGED <<held, kept, gone, excused, changes, detailHides>>
  BY DEF DeleteFails
<1> DEFINE dels == d.dels \ {item}
<1>2. dels \in SUBSET (0..MaxEntries)  BY DEF DetailPages
<1>3. d' = [d EXCEPT !.dels = dels]  BY <1>1
<1> HIDE DEF dels
<1>4. /\ PageOk(d') /\ d'.dels = dels
      /\ \A lost : Without(d, lost) => Without(d', lost)
      /\ \A S : FreshOf(d, S) => FreshOf(d', S)
  BY <1>2, <1>3, WithDels
<1>5. EntriesRead'  BY <1>1, <1>4 DEF DetailInv, EntriesRead, Clean
<1>6. Noticed'  BY <1>1, <1>4 DEF DetailInv, Noticed
<1>7. Deleted'
  <2>1. dels \ sent' \in SUBSET (d.dels \ sent) /\ dels \in SUBSET d.dels  BY <1>1 DEF dels
  <2>2. QED  BY <1>1, <1>4, <2>1 DEF DetailInv, Deleted
<1>8. DetailCounts' /\ ServerFits'  BY <1>1 DEF DetailInv, DetailCounts, ServerFits
<1>9. QED  BY <1>1, <1>4, <1>5, <1>6, <1>7, <1>8 DEF DetailInv

LEMMA WithoutMemoryIs ==
  ASSUME NEW g, PageOk(g)
  PROVE  LET r == WithoutMemory(g)
         IN  /\ PageOk(r) /\ r.dels = g.dels /\ r.shown = g.shown /\ r.reloading = g.reloading
             /\ \A S : FreshOf(g, S) => FreshOf(r, S)
<1> DEFINE m == [g EXCEPT !.mems = {}]
           r == WithoutMemory(g)
<1>1. /\ g \in DetailPages /\ AskFits(g) /\ LoginFits(g) /\ ViewFits(g) /\ ListFits(g) /\ ShareFits(g)
      /\ ReloadFits(g)
  BY DEF PageOk, Solid
<1>2. CASE Memory \notin g.mems
  <2>1. r = g  BY <1>2 DEF WithoutMemory
  <2>2. QED  BY <2>1
<1>3. CASE Memory \in g.mems
  <2>1. r = Refreshed(m)  BY <1>3 DEF WithoutMemory
  <2>2. /\ m \in DetailPages
        /\ m.list = g.list /\ m.mems = {} /\ m.page = g.page
        /\ m.hasMore = g.hasMore /\ m.loading = g.loading /\ m.reloading = g.reloading /\ m.isLogin = g.isLogin
        /\ m.wait = g.wait /\ m.req = g.req /\ m.shown = g.shown /\ m.qr = g.qr /\ m.share = g.share
        /\ m.need = g.need /\ m.dels = g.dels
    BY <1>1 DEF DetailPages
  <2> HIDE DEF m
  <2>3. r = [m EXCEPT !.tab = r.tab, !.view = r.view] /\ r \in DetailPages /\ ViewFits(r)
    BY <2>1, <2>2, RefreshedIs
  <2>4. /\ r.list = m.list /\ r.mems = m.mems /\ r.page = m.page
        /\ r.hasMore = m.hasMore /\ r.loading = m.loading /\ r.reloading = m.reloading /\ r.isLogin = m.isLogin
        /\ r.wait = m.wait /\ r.req = m.req /\ r.shown = m.shown /\ r.qr = m.qr /\ r.share = m.share
        /\ r.need = m.need /\ r.dels = m.dels
    <3> DEFINE tab  == r.tab
               view == r.view
    <3>1. r = [m EXCEPT !.tab = tab, !.view = view]  BY <2>3
    <3> HIDE DEF tab, view, r
    <3>2. QED  BY <2>2, <3>1 DEF DetailPages
  <2> HIDE DEF r
  <2>5. AskFits(r) /\ LoginFits(r) /\ ReloadFits(r)
    BY <1>1, <2>2, <2>4 DEF AskFits, LoginFits, ReloadFits, NothingYet
  <2>6. ListFits(r) /\ ShareFits(r)  BY <1>1, <2>2, <2>4 DEF ListFits, ShareFits
  <2>7. \A S : FreshOf(g, S) => FreshOf(r, S)  BY <2>2, <2>4 DEF FreshOf, Fitting
  <2>8. QED  BY <2>2, <2>3, <2>4, <2>5, <2>6, <2>7 DEF PageOk, Solid, r
<1>4. QED  BY <1>2, <1>3

LEMMA DeleteAnsweredKeeps == ASSUME DetailInv, NEW item \in 0..MaxEntries, DeleteAnswered(item) PROVE DetailInv'
<1> USE DetailIs
<1> DEFINE dels == d.dels \ {item}
           g == [d EXCEPT !.dels = dels]
           h == IF item = Memory THEN WithoutMemory(g) ELSE g
<1>1. /\ item \in d.dels \ sent
      /\ d' = IF ~d.shown THEN g ELSE ReloadDetail(h, "nothing")
      /\ gone' = gone \cup {item}
      /\ excused' = excused \cup ((IF d.shown THEN {} ELSE {"late"})
                                  \cup (IF d.shown /\ d.reloading THEN {"raced"} ELSE {}))
      /\ UNCHANGED <<held, kept, sent, changes, detailHides>>
  BY DEF DeleteAnswered, Excuse, Server
<1>2. dels \in SUBSET (0..MaxEntries) /\ dels \in SUBSET d.dels  BY DEF DetailPages
<1> HIDE DEF dels
<1>3. /\ PageOk(g) /\ g.dels = dels /\ g.shown = d.shown /\ g.reloading = d.reloading
      /\ \A S : FreshOf(d, S) => FreshOf(g, S)
  BY <1>2, WithDels
<1> HIDE DEF g
<1>4. /\ PageOk(h) /\ h.dels = dels /\ h.shown = d.shown /\ h.reloading = d.reloading
      /\ \A S : FreshOf(d, S) => FreshOf(h, S)
  <2>1. CASE item = Memory
    <3>1. h = WithoutMemory(g)  BY <2>1
    <3> HIDE DEF h
    <3>2. QED  BY <1>3, <3>1, WithoutMemoryIs
  <2>2. CASE item # Memory
    <3>1. h = g  BY <2>2
    <3>2. QED  BY <1>3, <3>1
  <2>3. QED  BY <2>1, <2>2
<1> HIDE DEF h
<1>5. gone' \cap (held \cup kept) = {}  BY <1>1 DEF DetailInv, Deleted
<1>6. /\ PageOk(d') /\ d'.dels \in SUBSET d.dels /\ (FreshOf(d, held) => FreshOf(d', held))
      /\ d.shown /\ ~d.reloading => Without(d', gone')
  <2>1. CASE ~d.shown  BY <1>1, <1>2, <1>3, <2>1
  <2>2. CASE d.shown
    <3>1. d' = ReloadDetail(h, "nothing")  BY <1>1, <2>2
    <3>2. /\ PageOk(d')
          /\ h.reloading \/ ~h.shown => d' = h
          /\ ~h.reloading /\ h.shown =>
               /\ d'.list = <<>> /\ d'.dels = {} /\ FreshOf(d', held)
               /\ \A lost : lost \cap (held \cup kept) = {} => Without(d', lost)
      BY <1>4, <3>1, ReloadDetailIs
    <3>3. CASE d.reloading  BY <1>2, <1>4, <3>2, <3>3
    <3>4. CASE ~d.reloading  BY <1>4, <1>5, <2>2, <3>2, <3>4
    <3>5. QED  BY <3>3, <3>4
  <2>3. QED  BY <2>1, <2>2
<1>7. EntriesRead'
  <2>1. Clean' => Clean  BY <1>1 DEF Clean
  <2>2. QED  BY <1>1, <1>6, <2>1 DEF DetailInv, EntriesRead
<1>8. Noticed'
  <2>1. excused' \cap {"late", "raced"} = {} => d.shown /\ ~d.reloading  BY <1>1
  <2>2. QED  BY <1>6, <2>1 DEF Noticed
<1>9. Deleted'  BY <1>1, <1>5, <1>6 DEF DetailInv, Deleted
<1>10. ServerFits' /\ DetailCounts'  BY <1>1 DEF DetailInv, ServerFits, DetailCounts
<1>11. QED  BY <1>6, <1>7, <1>8, <1>9, <1>10 DEF DetailInv

LEMMA SavedKeepsDetail == DetailInv /\ Saved => DetailInv'
<1> SUFFICES ASSUME DetailInv, Saved PROVE DetailInv'  OBVIOUS
<1> USE DetailIs
<1>1. PICK then \in {"nothing", "edit"}, items \in SUBSET ((1..MaxEntries) \ (gone \cup d.dels)) :
        /\ held' = held \cup items
        /\ d' = IF Changed(d, then).req.on /\ ~d.reloading
                THEN [Changed(d, then) EXCEPT !.req.held = held'] ELSE Changed(d, then)
  BY DEF Saved
<1>2. /\ changes < MaxChanges /\ changes' = changes + 1
      /\ excused' = excused \cup (IF d.reloading THEN {"raced", "moved"} ELSE {})
      /\ UNCHANGED <<kept, sent, gone, detailHides>>
  BY DEF Saved, Change, Excuse
<1>3. held' \in SUBSET (1..MaxEntries) /\ held' \cap gone = {} /\ held' \cap (d.dels \ sent) = {}
  BY <1>1 DEF DetailInv, Deleted
<1>4. gone \cap (held \cup kept) = {} /\ gone \cap (held' \cup kept) = {}  BY <1>3 DEF DetailInv, Deleted
<1>5. /\ PageOk(d') /\ d'.dels \in SUBSET d.dels
      /\ ~d.reloading => FreshOf(d', held')
      /\ ~d.reloading => (Without(d, gone) => Without(d', gone))
  <2>1. CASE ~d.shown
    <3> DEFINE g == [d EXCEPT !.need = TRUE]
    <3>1. Changed(d, then) = g  BY <2>1 DEF Changed
    <3>2. /\ g \in DetailPages
          /\ g.list = d.list /\ g.mems = d.mems /\ g.view = d.view /\ g.tab = d.tab /\ g.page = d.page
          /\ g.hasMore = d.hasMore /\ g.loading = d.loading /\ g.reloading = d.reloading /\ g.isLogin = d.isLogin
          /\ g.wait = d.wait /\ g.req = d.req /\ g.shown = d.shown /\ g.qr = d.qr /\ g.share = d.share
          /\ g.dels = d.dels /\ g.need = TRUE
      BY DEF DetailPages
    <3> HIDE DEF g
    <3>3. ~d.req.on  BY <2>1 DEF AskFits
    <3>4. d' = g  BY <1>1, <3>1, <3>2, <3>3
    <3>5. ShareFits(g)  BY <3>2 DEF ShareFits
    <3>6. PageOk(g) /\ \A lost : Without(d, lost) => Without(g, lost)  BY <3>2, <3>5, SameList
    <3>7. ~d.reloading => FreshOf(g, held')  BY <3>2, <3>3 DEF FreshOf
    <3>8. QED  BY <3>2, <3>4, <3>6, <3>7
  <2>2. CASE d.shown
    <3> DEFINE g == ReloadDetail(d, then)
    <3>1. Changed(d, then) = g  BY <2>2 DEF Changed
    <3>2. /\ PageOk(g)
          /\ d.reloading \/ ~d.shown => g = d
          /\ ~d.reloading /\ d.shown =>
               /\ g.list = <<>> /\ g.dels = {} /\ FreshOf(g, held)
               /\ \A lost : lost \cap (held \cup kept) = {} => Without(g, lost)
      BY ReloadDetailIs
    <3> HIDE DEF g
    <3>3. CASE d.reloading  BY <1>1, <3>1, <3>2, <3>3
    <3>4. CASE ~d.reloading
      <4>1. g.list = <<>> /\ g.dels = {} /\ FreshOf(g, held) /\ Without(g, gone) /\ g \in DetailPages
        BY <1>4, <2>2, <3>2, <3>4 DEF PageOk, Solid
      <4>2. CASE ~g.req.on
        <5>1. d' = g  BY <1>1, <3>1, <4>2
        <5>2. FreshOf(g, held')  BY <1>3, <4>1, <4>2, NothingFits DEF FreshOf
        <5>3. QED  BY <3>2, <4>1, <5>1, <5>2
      <4>3. CASE g.req.on
        <5> DEFINE req == [g.req EXCEPT !.held = held']
        <5>1. d' = [g EXCEPT !.req = req]  BY <1>1, <3>1, <3>4, <4>3
        <5>2. /\ req \in Asks /\ req.on = g.req.on /\ req.page = g.req.page /\ req.by = g.req.by /\ req.held = held'
              /\ req.kept = g.req.kept
          <6>1. g.req \in Asks  BY <4>1 DEF DetailPages
          <6>2. QED  BY <1>3, <6>1 DEF Asks
        <5> HIDE DEF req
        <5>3. /\ d' \in DetailPages
              /\ d'.list = g.list /\ d'.mems = g.mems /\ d'.view = g.view /\ d'.tab = g.tab /\ d'.page = g.page
              /\ d'.hasMore = g.hasMore /\ d'.loading = g.loading /\ d'.reloading = g.reloading
              /\ d'.isLogin = g.isLogin /\ d'.wait = g.wait /\ d'.req = req /\ d'.shown = g.shown
              /\ d'.qr = g.qr /\ d'.share = g.share /\ d'.dels = g.dels
          BY <4>1, <5>1, <5>2 DEF DetailPages
        <5>4. Merged(d') = Merged(g)  BY <5>3 DEF Merged
        <5>5. AskFits(d') /\ LoginFits(d') /\ ReloadFits(d')
          BY <3>2, <5>2, <5>3 DEF PageOk, Solid, AskFits, LoginFits, ReloadFits, NothingYet
        <5>6. ViewFits(d') /\ ListFits(d') /\ ShareFits(d')
          BY <3>2, <5>3, <5>4 DEF PageOk, Solid, ViewFits, ListFits, ShareFits
        <5>7. Fitting(d', held')  BY <1>3, <4>1, <5>3, NothingFits
        <5>8. FreshOf(d', held')  BY <5>2, <5>3, <5>7 DEF FreshOf
        <5>9. Without(d', gone)  BY <1>4, <4>1, <4>3, <5>2, <5>3, <5>4 DEF Without
        <5>10. QED  BY <4>1, <5>3, <5>5, <5>6, <5>8, <5>9 DEF PageOk, Solid
      <4>4. QED  BY <4>2, <4>3
    <3>5. QED  BY <3>3, <3>4
  <2>3. QED  BY <2>1, <2>2
<1>6. EntriesRead'
  <2>1. Clean' => ~d.reloading  BY <1>2 DEF Clean
  <2>2. QED  BY <1>5, <2>1 DEF EntriesRead
<1>7. Noticed'
  <2>1. excused' \cap {"late", "raced"} = {} => ~d.reloading /\ excused \cap {"late", "raced"} = {}  BY <1>2
  <2>2. QED  BY <1>2, <1>5, <2>1 DEF DetailInv, Noticed
<1>8. Deleted'  BY <1>2, <1>3, <1>5 DEF DetailInv, Deleted
<1>9. ServerFits' /\ DetailCounts'  BY <1>2, <1>3, DetailBounds DEF DetailInv, ServerFits, DetailCounts
<1>10. QED  BY <1>5, <1>6, <1>7, <1>8, <1>9 DEF DetailInv

LEMMA OtherChangesKeeps == DetailInv /\ OtherChanges => DetailInv'
<1> SUFFICES ASSUME DetailInv, OtherChanges PROVE DetailInv'  OBVIOUS
<1> USE DetailIs
<1>1. PICK item \in (1..MaxEntries) \ gone : Owner(item) = 2 /\ held' \in {held \cup {item}, held \ {item}} \ {held}
  BY DEF OtherChanges
<1>2. /\ changes < MaxChanges /\ changes' = changes + 1 /\ excused' = excused \cup {"moved"}
      /\ UNCHANGED <<d, kept, sent, gone, detailHides>>
  BY DEF OtherChanges, Change, Excuse
<1>3. item \notin d.dels  BY <1>1 DEF DetailInv, Deleted
<1>4. held' \in SUBSET (1..MaxEntries) /\ held' \in SUBSET (held \cup {item})  BY <1>1
<1>5. Deleted'  BY <1>1, <1>2, <1>3, <1>4 DEF DetailInv, Deleted
<1>6. EntriesRead'  BY <1>2 DEF EntriesRead, Clean
<1>7. Noticed'
  <2>1. excused' \cap {"late", "raced"} = {} => excused \cap {"late", "raced"} = {}  BY <1>2
  <2>2. QED  BY <1>2, <2>1 DEF DetailInv, Noticed
<1>8. ServerFits' /\ DetailCounts'  BY <1>2, <1>4, DetailBounds DEF DetailInv, ServerFits, DetailCounts
<1>9. QED  BY <1>2, <1>5, <1>6, <1>7, <1>8 DEF DetailInv

\* Sharing: the code and the picture, and what is polled for.
LEMMA SharedTyped ==
  ASSUME NEW g \in DetailPages, NEW qr \in {"none", "flight", "have"}, NEW share \in {"no", "qr", "draw"},
         NEW poll \in BOOLEAN
  PROVE  [g EXCEPT !.qr = qr, !.share = share, !.poll = poll] \in DetailPages
BY DEF DetailPages

LEMMA ShareMoves ==
  ASSUME DetailInv, NEW qr \in {"none", "flight", "have"}, NEW share \in {"no", "qr", "draw"}, NEW poll \in BOOLEAN,
         share = "qr" => qr = "flight", d' = [d EXCEPT !.qr = qr, !.share = share, !.poll = poll],
         UNCHANGED <<held, kept, sent, gone, excused, detailHides>>, changes' \in 0..MaxChanges
  PROVE  DetailInv'
<1> USE DetailIs
<1> DEFINE r == [d EXCEPT !.qr = qr, !.share = share, !.poll = poll]
<1>0. r \in DetailPages  BY SharedTyped
<1>1. /\ r.list = d.list /\ r.mems = d.mems /\ r.view = d.view /\ r.tab = d.tab /\ r.page = d.page
      /\ r.hasMore = d.hasMore /\ r.loading = d.loading /\ r.reloading = d.reloading
      /\ r.isLogin = d.isLogin /\ r.wait = d.wait /\ r.req = d.req /\ r.shown = d.shown
      /\ r.qr = qr /\ r.share = share /\ r.dels = d.dels /\ r.need = d.need
  BY DEF DetailPages
<1>2. d' = r  OBVIOUS
<1> HIDE DEF r
<1>3. /\ PageOk(d') /\ \A lost : Without(d, lost) => Without(d', lost)
      /\ (\A S : FreshOf(d, S) => FreshOf(d', S)) /\ d'.dels = d.dels
  <2>1. ShareFits(r)  BY <1>1 DEF ShareFits
  <2>2. /\ PageOk(r) /\ \A lost : Without(d, lost) => Without(r, lost)
        /\ \A S : FreshOf(d, S) => FreshOf(r, S)
    BY <1>0, <1>1, <2>1, SameList
  <2>3. QED  BY <1>1, <1>2, <2>2
<1>4. EntriesRead' /\ Noticed'  BY <1>3 DEF DetailInv, EntriesRead, Noticed, Clean
<1>5. Deleted'  BY <1>3 DEF DetailInv, Deleted
<1>6. ServerFits' /\ DetailCounts'  BY DEF DetailInv, ServerFits, DetailCounts
<1>7. QED  BY <1>3, <1>4, <1>5, <1>6 DEF DetailInv

LEMMA SharingKeeps ==
  ASSUME DetailInv, ShareMoment \/ QRArrives \/ Drawn \/ DetailPollEnds
  PROVE  DetailInv'
<1> USE DetailIs
<1>1. /\ d.qr \in {"none", "flight", "have"} /\ d.share \in {"no", "qr", "draw"} /\ d.poll \in BOOLEAN
      /\ d.share = "qr" => d.qr = "flight"
  BY DEF DetailPages, ShareFits
<1>2. changes \in 0..MaxChanges  BY DEF DetailInv, DetailCounts
<1>3. CASE ShareMoment
  <2> DEFINE g == EnsureQR(d)
             share == CASE g.qr = "have" -> "draw" [] g.qr = "flight" -> "qr" [] OTHER -> "no"
  <2>1. d' = [g EXCEPT !.share = share] /\ UNCHANGED <<held, kept, sent, gone, excused, detailHides>>
    BY <1>3 DEF ShareMoment, Server
  <2>2. changes' \in 0..MaxChanges  BY <1>2, <1>3, DetailBounds DEF ShareMoment, Change
  <2>3. g = [d EXCEPT !.qr = g.qr] /\ g.qr \in {"none", "flight", "have"}  BY <1>1 DEF EnsureQR, DetailPages
  <2>4. share \in {"no", "qr", "draw"} /\ (share = "qr" => g.qr = "flight")  BY <2>3
  <2> HIDE DEF g, share
  <2>5. d' = [d EXCEPT !.qr = g.qr, !.share = share, !.poll = d.poll]
    <3> DEFINE qr == g.qr
    <3>1. g = [d EXCEPT !.qr = qr]  BY <2>3
    <3> HIDE DEF qr
    <3>2. d' = [d EXCEPT !.qr = qr, !.share = share, !.poll = d.poll]  BY <2>1, <3>1 DEF DetailPages
    <3>3. QED  BY <3>2 DEF qr
  <2>6. QED  BY <1>1, <2>1, <2>2, <2>3, <2>4, <2>5, ShareMoves
<1>4. CASE QRArrives
  <2>1. PICK qr \in {"have", "none"} :
          d' = [d EXCEPT !.qr = qr,
                         !.share = IF @ = "qr" THEN (IF d.shown /\ qr = "have" THEN "draw" ELSE "no") ELSE @]
    BY <1>4 DEF QRArrives
  <2>2. UNCHANGED <<held, kept, sent, gone, excused, changes, detailHides>>  BY <1>4 DEF QRArrives, Rest
  <2> DEFINE share == IF d.share = "qr" THEN (IF d.shown /\ qr = "have" THEN "draw" ELSE "no") ELSE d.share
  <2>3. share \in {"no", "draw"}  BY <1>1
  <2>4. d' = [d EXCEPT !.qr = qr, !.share = share, !.poll = d.poll]  BY <2>1 DEF DetailPages
  <2> HIDE DEF share
  <2>5. QED  BY <1>1, <1>2, <2>2, <2>3, <2>4, ShareMoves
<1>5. CASE Drawn
  <2>1. /\ d' = [d EXCEPT !.qr = d.qr, !.share = "no", !.poll = d.poll]
        /\ UNCHANGED <<held, kept, sent, gone, excused, changes, detailHides>>
    BY <1>5 DEF Drawn, Rest, DetailPages
  <2>2. QED  BY <1>1, <1>2, <2>1, ShareMoves
<1>6. CASE DetailPollEnds
  <2>1. /\ d' = [d EXCEPT !.qr = d.qr, !.share = d.share, !.poll = FALSE]
        /\ UNCHANGED <<held, kept, sent, gone, excused, changes, detailHides>>
    BY <1>6 DEF DetailPollEnds, Rest, DetailPages
  <2>2. QED  BY <1>1, <1>2, <2>1, ShareMoves
<1>7. QED  BY <1>3, <1>4, <1>5, <1>6

LEMMA HideDetailKeeps == DetailInv /\ HideDetail => DetailInv'
<1> SUFFICES ASSUME DetailInv, HideDetail PROVE DetailInv'  OBVIOUS
<1> USE DetailIs
<1> DEFINE qr == IF d.qr = "flight" THEN "none" ELSE d.qr
           share == IF d.share = "qr" THEN "no" ELSE d.share
           r == [d EXCEPT !.shown = FALSE, !.loading = FALSE, !.req = Offset, !.poll = FALSE,
                          !.qr = qr, !.share = share]
<1>1. /\ detailHides < MaxDetailHides /\ detailHides' = detailHides + 1
      /\ d' = IF d.req.on THEN Over(r, d.req.by) ELSE r
      /\ excused' = excused \cup (IF d.req.on THEN {IF d.req.by = "more" THEN "skipped" ELSE "blank"} ELSE {})
      /\ UNCHANGED <<held, kept, sent, gone, changes>>
  BY DEF HideDetail, Excuse, Server
<1>2. qr \in {"none", "have"} /\ share \in {"no", "draw"}  BY DEF DetailPages
<1> HIDE DEF qr, share
<1>3. r \in DetailPages  BY <1>2, OffsetTyped DEF DetailPages
<1>4. /\ r.list = d.list /\ r.mems = d.mems /\ r.view = d.view /\ r.tab = d.tab /\ r.page = d.page
      /\ r.hasMore = d.hasMore /\ r.loading = FALSE /\ r.isLogin = d.isLogin /\ r.wait = d.wait
      /\ r.req = Offset /\ r.shown = FALSE /\ r.dels = d.dels /\ r.qr = qr /\ r.share = share
      /\ r.need = d.need /\ r.reloading = d.reloading
  BY DEF DetailPages
<1> HIDE DEF r
<1>5. Merged(r) = Merged(d)  BY <1>4 DEF Merged
<1>6. Solid(r) /\ ReloadFits(r) /\ PageOk(r)
  <2>1. AskFits(r)  BY <1>4, OffsetTyped DEF AskFits
  <2>2. LoginFits(r) /\ ReloadFits(r)  BY <1>4 DEF LoginFits, ReloadFits, NothingYet
  <2>3. ViewFits(r) /\ ListFits(r) /\ ShareFits(r)  BY <1>2, <1>4, <1>5 DEF ViewFits, ListFits, ShareFits
  <2>4. QED  BY <1>3, <2>1, <2>2, <2>3 DEF PageOk, Solid
<1>7. Without(r, gone) <=> gone \cap Merged(d) = {}  BY <1>4, <1>5, OffsetTyped DEF Without
<1>8. /\ PageOk(d') /\ d'.dels = d.dels /\ ~d'.req.on /\ Merged(d') = Merged(d)
      /\ (FreshOf(d, held) => FreshOf(d', held)) \/ (d.req.on /\ d.req.by = "more")
  <2>1. CASE ~d.req.on
    <3>1. d' = r  BY <1>1, <2>1
    <3>2. FreshOf(d, held) => FreshOf(r, held)  BY <1>4, <2>1, OffsetTyped DEF FreshOf, Fitting
    <3>3. QED  BY <1>4, <1>5, <1>6, <3>1, <3>2, OffsetTyped
  <2>2. CASE d.req.on
    <3>1. /\ PageOk(d') /\ Merged(d') = Merged(r) /\ d'.list = r.list /\ d'.req = r.req /\ d'.dels = r.dels
      BY <1>1, <1>6, <2>2, OverIs
    <3>2. d.req.by # "more" => FreshOf(d', held)
      <4>1. SUFFICES ASSUME d.req.by # "more" PROVE FreshOf(d', held)  OBVIOUS
      <4>2. d'.list = <<>>  BY <1>4, <2>2, <3>1, <4>1 DEF AskFits
      <4>3. Fitting(d', held)  BY <4>2, NothingFits
      <4>4. QED  BY <1>4, <3>1, <4>3, OffsetTyped DEF FreshOf
    <3>3. QED  BY <1>4, <1>5, <2>2, <3>1, <3>2, OffsetTyped
  <2>3. QED  BY <2>1, <2>2
<1>9. EntriesRead'
  <2>1. Clean' => Clean /\ ~(d.req.on /\ d.req.by = "more")  BY <1>1 DEF Clean
  <2>2. QED  BY <1>1, <1>8, <2>1 DEF DetailInv, EntriesRead
<1>10. Noticed'
  <2>1. excused' \cap {"late", "raced"} = {} => excused \cap {"late", "raced"} = {}  BY <1>1
  <2>2. QED  BY <1>1, <1>8, <2>1 DEF DetailInv, Noticed, Without
<1>11. detailHides' \in 0..MaxDetailHides  BY <1>1, DetailBounds DEF DetailInv, DetailCounts
<1>12. d'.dels \in SUBSET d.dels  BY <1>8
<1>13. QED  BY <1>1, <1>8, <1>9, <1>10, <1>11, <1>12, DayMoves

LEMMA ShowDetailKeeps == DetailInv /\ ShowDetail => DetailInv'
<1> SUFFICES ASSUME DetailInv, ShowDetail PROVE DetailInv'  OBVIOUS
<1> USE DetailIs
<1> DEFINE back == [d EXCEPT !.shown = TRUE]
<1>1. /\ ~d.shown /\ d' = IF d.need THEN ReloadDetail(back, "show") ELSE EnsureQR(back)
      /\ UNCHANGED <<held, kept, sent, gone, excused, changes, detailHides>>
  BY DEF ShowDetail, Rest
<1>2. /\ back \in DetailPages
      /\ back.list = d.list /\ back.mems = d.mems /\ back.view = d.view /\ back.tab = d.tab /\ back.page = d.page
      /\ back.hasMore = d.hasMore /\ back.loading = d.loading /\ back.reloading = d.reloading
      /\ back.isLogin = d.isLogin /\ back.wait = d.wait /\ back.req = d.req /\ back.shown = TRUE
      /\ back.qr = d.qr /\ back.share = d.share /\ back.dels = d.dels /\ back.need = d.need
  BY DEF DetailPages
<1> HIDE DEF back
<1>3. ~d.req.on  BY <1>1 DEF AskFits
<1>4. Merged(back) = Merged(d)  BY <1>2 DEF Merged
<1>5. PageOk(back)
  <2>1. AskFits(back)  BY <1>2, <1>3 DEF AskFits
  <2>2. LoginFits(back) /\ ReloadFits(back)  BY <1>2 DEF LoginFits, ReloadFits, NothingYet
  <2>3. ViewFits(back) /\ ListFits(back) /\ ShareFits(back)  BY <1>2, <1>4 DEF ViewFits, ListFits, ShareFits
  <2>4. QED  BY <1>2, <2>1, <2>2, <2>3 DEF PageOk, Solid
<1>6. (FreshOf(d, held) => FreshOf(back, held)) /\ (Without(d, gone) => Without(back, gone))
  BY <1>2, <1>3, <1>4 DEF FreshOf, Fitting, Without
<1>7. gone \cap (held \cup kept) = {}  BY DEF DetailInv, Deleted
<1>8. /\ PageOk(d') /\ d'.dels \in SUBSET d.dels /\ (FreshOf(d, held) => FreshOf(d', held))
      /\ Without(d, gone) => Without(d', gone)
  <2>1. CASE d.need
    <3>1. d' = ReloadDetail(back, "show")  BY <1>1, <2>1
    <3>2. /\ PageOk(d')
          /\ back.reloading \/ ~back.shown => d' = back
          /\ ~back.reloading /\ back.shown =>
               /\ d'.list = <<>> /\ d'.dels = {} /\ FreshOf(d', held)
               /\ \A lost : lost \cap (held \cup kept) = {} => Without(d', lost)
      BY <1>5, <3>1, ReloadDetailIs
    <3>3. CASE back.reloading  BY <1>2, <1>6, <3>2, <3>3
    <3>4. CASE ~back.reloading  BY <1>2, <1>7, <3>2, <3>4
    <3>5. QED  BY <3>3, <3>4
  <2>2. CASE ~d.need
    <3>1. d' = EnsureQR(back)  BY <1>1, <2>2
    <3>2. CASE d' = back  BY <1>2, <1>5, <1>6, <3>2
    <3>3. CASE d' # back
      <4>1. d' = [back EXCEPT !.qr = "flight"] /\ back.qr = "none"  BY <3>1, <3>3 DEF EnsureQR
      <4>2. /\ d' \in DetailPages
            /\ d'.list = back.list /\ d'.mems = back.mems /\ d'.view = back.view /\ d'.tab = back.tab
            /\ d'.page = back.page /\ d'.hasMore = back.hasMore /\ d'.loading = back.loading
            /\ d'.reloading = back.reloading /\ d'.isLogin = back.isLogin /\ d'.wait = back.wait
            /\ d'.req = back.req /\ d'.shown = back.shown /\ d'.qr = "flight" /\ d'.share = back.share
            /\ d'.dels = back.dels /\ d'.need = back.need
        BY <1>2, <4>1 DEF DetailPages
      <4>3. ShareFits(d')  BY <4>2 DEF ShareFits
      <4>4. /\ PageOk(d') /\ \A lost : Without(back, lost) => Without(d', lost)
            /\ \A S : FreshOf(back, S) => FreshOf(d', S)
        BY <1>5, <4>2, <4>3, SameList
      <4>5. QED  BY <1>2, <1>6, <4>2, <4>4
    <3>4. QED  BY <3>2, <3>3
  <2>3. QED  BY <2>1, <2>2
<1>9. QED  BY <1>1, <1>8, PageMovesFreely

-----------------------------------------------------------------------------
LEMMA DetailInvInit == DetailInit => DetailInv
<1> SUFFICES ASSUME DetailInit PROVE DetailInv  OBVIOUS
<1> DEFINE asked == [DetailShown EXCEPT !.isLogin = TRUE, !.wait = "no", !.loading = TRUE,
                                        !.req = [Offset EXCEPT !.on = TRUE, !.page = 1, !.held = held, !.kept = kept]]
<1>1. /\ held = OldEntries /\ kept = {Memory} /\ sent = {} /\ gone = {} /\ excused = {}
      /\ changes = 0 /\ detailHides = 0 /\ d \in {DetailShown, asked}
  BY DEF DetailInit
<1>2. ServerFits /\ DetailCounts  BY <1>1, DetailBounds DEF ServerFits, DetailCounts
<1>3. /\ <<>> \in Seq(1..MaxEntries) /\ Len(<<>>) = 0 /\ IsInjective(<<>>) /\ 1 \in Nat \ {0}
  <2>1. DOMAIN <<>> = {}  OBVIOUS
  <2>2. IsInjective(<<>>)  BY <2>1 DEF IsInjective
  <2>3. QED  BY <2>2
<1>4. DetailShown \in DetailPages  BY <1>3, OffsetTyped DEF DetailShown, DetailPages
<1>5. /\ DetailShown.list = <<>> /\ DetailShown.mems = {} /\ DetailShown.view = {} /\ DetailShown.page = 1
      /\ DetailShown.hasMore = TRUE /\ DetailShown.loading = FALSE /\ DetailShown.reloading = FALSE
      /\ DetailShown.isLogin = FALSE /\ DetailShown.req = Offset /\ DetailShown.shown = TRUE
      /\ DetailShown.share = "no" /\ DetailShown.dels = {}
  BY DEF DetailShown
<1>6. /\ d \in DetailPages /\ d.list = <<>> /\ d.mems = {} /\ d.view = {} /\ d.page = 1 /\ d.hasMore = TRUE
      /\ d.reloading = FALSE /\ d.shown = TRUE /\ d.share = "no" /\ d.dels = {}
      /\ AskFits(d) /\ LoginFits(d) /\ (d.req.on => d.req.held = held)
  <2>1. CASE d = DetailShown
    <3>1. AskFits(d) /\ LoginFits(d)  BY <1>5, <2>1, OffsetTyped DEF AskFits, LoginFits, NothingYet
    <3>2. QED  BY <1>4, <1>5, <2>1, <3>1, OffsetTyped
  <2>2. CASE d = asked
    <3> DEFINE req == [Offset EXCEPT !.on = TRUE, !.page = 1, !.held = held, !.kept = kept]
    <3>1. req \in Asks /\ req.on = TRUE /\ req.page = 1 /\ req.by = "load" /\ req.held = held
      BY <1>2 DEF Offset, Asks, ServerFits
    <3> HIDE DEF req
    <3>2. d = [DetailShown EXCEPT !.isLogin = TRUE, !.wait = "no", !.loading = TRUE, !.req = req]
      BY <2>2 DEF req
    <3>3. d \in DetailPages  BY <1>4, <3>1, <3>2 DEF DetailPages
    <3>4. /\ d.list = <<>> /\ d.mems = {} /\ d.view = {} /\ d.page = 1 /\ d.hasMore = TRUE
          /\ d.reloading = FALSE /\ d.shown = TRUE /\ d.share = "no" /\ d.dels = {}
          /\ d.isLogin = TRUE /\ d.wait = "no" /\ d.loading = TRUE /\ d.req = req
      BY <1>4, <1>5, <3>2 DEF DetailPages
    <3>5. AskFits(d) /\ LoginFits(d)  BY <3>1, <3>4 DEF AskFits, LoginFits
    <3>6. QED  BY <3>1, <3>3, <3>4, <3>5
  <2>3. QED  BY <1>1, <2>1, <2>2
<1>7. Merged(d) = {}  BY <1>6, NothingShown
<1>8. PageOk(d)
  <2>1. ViewFits(d) /\ ShareFits(d) /\ ReloadFits(d)  BY <1>6, <1>7 DEF ViewFits, OfTab, ShareFits, ReloadFits
  <2>2. ListFits(d)  BY <1>3, <1>6, DetailBounds DEF ListFits
  <2>3. QED  BY <1>6, <2>1, <2>2 DEF PageOk, Solid
<1>9. EntriesRead
  <2>1. Fitting(d, held)  BY <1>2, <1>6, NothingFits DEF ServerFits
  <2>2. QED  BY <1>6, <2>1 DEF EntriesRead, FreshOf
<1>10. Deleted /\ Noticed  BY <1>1, <1>6 DEF Deleted, Noticed, Without
<1>11. QED  BY <1>2, <1>8, <1>9, <1>10 DEF DetailInv

LEMMA DetailStutters == DetailInv /\ UNCHANGED detailVars => DetailInv'
BY DEF DetailInv, detailVars, ServerFits, DetailCounts, EntriesRead, Clean, Deleted, Noticed

LEMMA DetailInvStep == DetailInv /\ [DetailNext]_detailVars => DetailInv'
<1>1. ASSUME DetailInv, NEW item \in 0..MaxEntries,
             Delete(item) \/ DeleteRuns(item) \/ DeleteAnswered(item) \/ DeleteFails(item)
      PROVE  DetailInv'
  BY <1>1, DeleteKeeps, DeleteRunsKeeps, DeleteAnsweredKeeps, DeleteFailsKeeps
<1>2. QED
  BY <1>1, DetailStutters, DetailLoginEndsKeeps, DetailArrivesKeeps, DetailFailsKeeps, LoadMoreDetailKeeps,
     TabChangeKeeps, SavedKeepsDetail, OtherChangesKeeps, SharingKeeps, HideDetailKeeps, ShowDetailKeeps
  DEF DetailNext, DetailAnswers

LEMMA DetailInvImplies ==
  DetailInv => DetailTypeOK /\ ShownOnce /\ NoneSkipped /\ ViewAgrees /\ NoGhosts /\ ShareIsAwaited
<1> SUFFICES ASSUME DetailInv
             PROVE  DetailTypeOK /\ ShownOnce /\ NoneSkipped /\ ViewAgrees /\ NoGhosts /\ ShareIsAwaited
  OBVIOUS
<1> USE DetailIs
<1>1. DetailTypeOK
  <2>1. Len(d.list) <= FullList  BY DEF ListFits
  <2>2. /\ d.view \subseteq 0..MaxEntries /\ d.tab \in Members \cup {0}
        /\ d.wait \in {"no", "load", "again", "more", "reload"} /\ d.share \in {"no", "qr", "draw"}
    BY DEF DetailPages
  <2>3. QED  BY <2>1, <2>2 DEF DetailTypeOK, DetailInv, DetailCounts
<1>2. ShownOnce  BY DEF ShownOnce, ListFits
<1>3. NoneSkipped
  <2>1. SUFFICES ASSUME excused \cap {"skipped", "moved"} = {}, ~d.need, NEW i \in 1..Len(d.list),
                        NEW item \in held, item < d.list[i]
                 PROVE  item \in Range(d.list)
    BY DEF NoneSkipped
  <2>2. Fitting(d, held)  BY <2>1 DEF DetailInv, EntriesRead, Clean, FreshOf
  <2>3. Len(d.list) \in Nat /\ DOMAIN d.list = 1..Len(d.list)  BY DEF DetailPages
  <2>4. Cardinality(held) \in Nat  BY UptoIs
  <2>5. i \in 1..Cardinality(held) /\ d.list[i] = Nth(held, i)  BY <2>2, <2>3, <2>4 DEF Fitting
  <2> DEFINE j == Cardinality(Upto(held, item))
  <2>6. /\ item <= Nth(held, i) <=> j <= i
        /\ j \in 1..Cardinality(held) /\ Nth(held, j) = item
    BY <2>5, NthGrows
  <2>7. item <= Nth(held, i)
    <3>1. \A a \in held : a \in Int  OBVIOUS
    <3>2. Nth(held, i) \in held  BY <2>5, NthIs
    <3>3. QED  BY <2>1, <2>5, <3>1, <3>2
  <2> HIDE DEF j
  <2>8. j \in 1..Len(d.list)  BY <2>3, <2>4, <2>5, <2>6, <2>7
  <2>9. d.list[j] = item  BY <2>2, <2>6, <2>8 DEF Fitting
  <2>10. QED  BY <2>3, <2>8, <2>9 DEF Range
<1>4. ViewAgrees  BY DEF ViewAgrees, ViewFits
<1>5. NoGhosts
  <2>1. d.view \in SUBSET Merged(d)  BY DEF ViewFits, OfTab
  <2>2. QED  BY <2>1 DEF NoGhosts, DetailInv, Noticed, Without
<1>6. ShareIsAwaited  BY DEF ShareIsAwaited, ShareFits
<1>7. QED  BY <1>1, <1>2, <1>3, <1>4, <1>5, <1>6
=============================================================================
