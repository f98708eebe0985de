-------------------------- MODULE AutoRecordProofs --------------------------
(***************************************************************************)
(* Proofs about AutoRecord for any points, places, numbers of rounds and   *)
(* check-ins, and any setting.                                             *)
(*                                                                         *)
(* That no stay is dropped depends on what a round holds in memory: every  *)
(* stay lies at one place (a point of another place would begin a stay of  *)
(* its own), and every point marked for deletion is covered by an entry,   *)
(* directly or through the cached name of the last entry (RoundOk of       *)
(* IInv).  That no stored point is recorded twice depends on the lock and  *)
(* on the fact that a recorded point is pending only while the round that  *)
(* recorded it is about to delete it (OncePending).                        *)
(***************************************************************************)
EXTENDS AutoRecord, SequenceTheorems, WellFoundedInduction, TLAPS

-----------------------------------------------------------------------------
(***************************************************************************)
(* The inductive invariant                                                 *)
(***************************************************************************)
Handling == {"name", "last", "create"}

\* An entry with a name of the place of the point t, of its date or a later one.
Covered(t) ==
  \E i \in DOMAIN entries : StandsFor(entries[i].name, Place[t]) /\ Day(entries[i].at) >= Day(t)

\* The names of entries, and the name a place may have.
Given == Name \ {Nameless}
Called(n, p) == n \in Name /\ n.landmark # NoName /\ n \in NamesOf(p)

\* A row the database has given out.
Stored(q) == q \in Row /\ q.at <= now /\ q.id <= uploads[q.at]

StayOk(C) ==
  /\ C # {} /\ \A q \in C : Stored(q)
  /\ \A p, q \in C : Place[p.at] = Place[q.at]

Domains ==
  /\ DOMAIN pc = Actors /\ DOMAIN here = CheckIns
  /\ DOMAIN todo = Rounds /\ DOMAIN del = Rounds /\ DOMAIN cache = Rounds /\ DOMAIN known = Rounds

\* What a round has in memory.
RoundOk(r) ==
  /\ \A C \in todo[r] : StayOk(C)
  /\ \A C, D \in todo[r] : C # D => C \cap D = {}
  /\ pc[r] \in {"last", "create"} => todo[r] # {}
  /\ \A q \in del[r] : Covered(q.at)
  /\ \A d \in Days : cache[r][d] \in Given =>
       \E i \in DOMAIN entries : entries[i].name = cache[r][d] /\ Day(entries[i].at) = d

CheckInOk(c) == pc[c] \in {"wait", "compare", "insert"} =>
  here[c].place \in Places /\ here[c].name = Geocoded(here[c].place)

\* The rows of the entries and of the table.
RowsOk ==
  /\ entries \in Seq(Entry)
  /\ \A q \in pending : Stored(q)
  /\ \A i \in DOMAIN entries : \A q \in entries[i].of : Stored(q)
  /\ \A i \in DOMAIN entries : Called(entries[i].name, entries[i].place)

\* Who works on the points or entries of the user holds the lock.
InLock(a) == pc[a] \notin {"idle", "wait", "done"}
Exclusive == ~setting.lossy => \A a \in Actors : InLock(a) => holder = a

\* A recorded point is pending only while its round is about to delete it.
OncePending ==
  /\ \A r \in Rounds : pc[r] \in Handling =>
       \A C \in todo[r], i \in DOMAIN entries : C \cap entries[i].of = {}
  /\ \A q \in pending, i \in DOMAIN entries :
       q \in entries[i].of => \E r \in Rounds : pc[r] \in Handling /\ q \in del[r]

\* The comparison with the last entry is still up to date.
Compares ==
  /\ \A c \in CheckIns : pc[c] = "insert" =>
       \A i \in NewestOf(entries, Day(here[c].at)) : ~SameName(here[c].name, entries[i].name)
  /\ \A r \in Rounds : pc[r] = "create" =>
       \A i \in NewestOf(entries, DayOf(NextStay(r))) : ~SameName(NameOf(r, NextStay(r)), entries[i].name)
  /\ \A r \in Rounds, d \in Days : pc[r] \in Handling /\ cache[r][d] # Unread =>
       \A i \in NewestOf(entries, d) : entries[i].name = cache[r][d]

IInv ==
  /\ TypeOK /\ Domains /\ RowsOk
  /\ \A r \in Rounds : RoundOk(r)
  /\ \A c \in CheckIns : CheckInOk(c)
  /\ NothingDropped
  /\ Exclusive
  /\ Undisturbed => OncePending
  /\ OnceUndisturbed
  /\ ~setting.lossy => Compares

-----------------------------------------------------------------------------
(***************************************************************************)
(* Numbers and days                                                        *)
(***************************************************************************)
\* The naturals are well-founded.
LEMMA Least ==
  ASSUME NEW T \in SUBSET Nat, T # {}
  PROVE  \E x \in T : \A y \in T : x <= y
<1>1. PICK x \in T : \A y \in T : ~(<<y, x>> \in OpToRel(<, Nat))
  BY NatLessThanWellFounded, WFMin
<1>2. \A y \in T : ~(y < x)
  BY <1>1 DEF OpToRel
<1>3. QED
  BY <1>2

\* A bounded set of naturals has a greatest element.
LEMMA Greatest ==
  ASSUME NEW T \in SUBSET Nat, T # {}, NEW n \in Nat, \A x \in T : x <= n
  PROVE  \E x \in T : \A y \in T : y <= x
<1> DEFINE B == {m \in Nat : \A y \in T : y <= m}
<1>1. PICK m \in B : \A y \in B : m <= y
  <2>1. n \in B
    OBVIOUS
  <2>2. B # {} /\ B \in SUBSET Nat
    BY <2>1
  <2> HIDE DEF B
  <2>3. QED
    BY <2>2, Least
<1>2. CASE m = 0
  <2>1. PICK x \in T : TRUE
    OBVIOUS
  <2>2. x = 0
    BY <1>1, <1>2, <2>1
  <2>3. QED
    BY <1>1, <1>2, <2>2
<1>3. CASE m # 0
  <2>1. m - 1 \notin B /\ m - 1 \in Nat
    BY <1>1, <1>3
  <2>2. PICK x \in T : ~(x <= m - 1)
    BY <2>1
  <2>3. x = m
    BY <1>1, <2>1, <2>2
  <2>4. QED
    BY <1>1, <2>3
<1>4. QED
  BY <1>2, <1>3

\* The defining inequalities of the quotient.
LEMMA Quotient ==
  ASSUME NEW a \in Nat, NEW D \in Nat \ {0}
  PROVE  a \div D \in Nat /\ D * (a \div D) <= a /\ a < D * (a \div D) + D
BY Z3

\* A later time is not of an earlier day.
LEMMA DayMonotone ==
  ASSUME NEW a \in Nat, NEW b \in Nat, a <= b
  PROVE  Day(a) \in Nat /\ Day(b) \in Nat /\ Day(a) <= Day(b)
<1> DEFINE D == DayLength
           x == a \div D
           y == b \div D
<1>1. D \in Nat \ {0}
  BY ParametersAssumption
<1>2. /\ x \in Nat /\ y \in Nat /\ D * x <= a /\ b < D * y + D
  BY <1>1, Quotient
<1>3. CASE y + 1 <= x
  <2> HIDE DEF x, y, D
  <2>1. D * (y + 1) = D * y + D /\ D * (y + 1) <= D * x
    BY <1>1, <1>2, <1>3
  <2>2. D * x \in Nat /\ D * y \in Nat
    BY <1>1, <1>2
  <2>3. QED
    BY <1>1, <1>2, <2>1, <2>2
<1>4. QED
  BY <1>2, <1>3 DEF Day

-----------------------------------------------------------------------------
(***************************************************************************)
(* Stays                                                                   *)
(***************************************************************************)
\* The newest row of a set of rows with bounded times is one of them.
LEMMA NewestIs ==
  ASSUME NEW R, R # {}, NEW n \in Nat, \A q \in R : q.at \in Nat /\ q.at <= n
  PROVE  Newest(R) \in R /\ \A p \in R : p.at <= Newest(R).at
<1> DEFINE T == {q.at : q \in R}
<1>1. PICK t \in T : \A y \in T : y <= t
  <2>1. T \in SUBSET Nat /\ T # {} /\ \A x \in T : x <= n
    OBVIOUS
  <2> HIDE DEF T
  <2>2. QED
    BY <2>1, Greatest
<1>2. \E q \in R : \A p \in R : p.at <= q.at
  BY <1>1
<1>3. QED
  BY <1>2 DEF Newest

\* All points of a stay lie at one place: the first one at another place would
\* not have joined the row before it, and so would have begun a stay.
LEMMA StayAtOnePlace ==
  ASSUME NEW R, \A q \in R : q.at \in Nat, \A p, q \in R : p.at = q.at => p = q,
         NEW s \in Starts(R)
  PROVE  /\ s \in Stay(R, s) /\ Stay(R, s) \subseteq R
         /\ \A q \in Stay(R, s) : Place[q.at] = Place[s.at]
<1>1. s \in R /\ Starts(R) \subseteq R
  BY DEF Starts
<1>2. s \in Stay(R, s) /\ Stay(R, s) \subseteq R
  BY <1>1 DEF Stay
<1> DEFINE Odd == {q \in Stay(R, s) : Place[q.at] # Place[s.at]}
           T == {q.at : q \in Odd}
<1>3. SUFFICES ASSUME Odd # {}
               PROVE  FALSE
  BY <1>2
<1>4. PICK q \in Odd : \A p \in Odd : q.at <= p.at
  <2>1. T \in SUBSET Nat /\ T # {}
    BY <1>2, <1>3
  <2>2. \E x \in T : \A y \in T : x <= y
    <3> HIDE DEF T
    <3>1. QED
      BY <2>1, Least
  <2>3. QED
    BY <2>2
<1>5. /\ q \in R /\ s.at <= q.at /\ Place[q.at] # Place[s.at]
      /\ \A t \in Starts(R) : t.at > s.at => q.at < t.at
  BY <1>4 DEF Stay
<1>6. s.at < q.at
  BY <1>1, <1>5
<1>7. q \notin Starts(R)
  BY <1>1, <1>5, <1>6
<1> DEFINE n == Newest(Before(R, q))
<1>8. Before(R, q) # {} /\ Joins(n, q)
  BY <1>5, <1>7 DEF Starts
<1>9. n \in Before(R, q) /\ \A p \in Before(R, q) : p.at <= n.at
  <2>1. \A p \in Before(R, q) : p.at \in Nat /\ p.at <= q.at
    BY <1>5 DEF Before
  <2>2. QED
    BY <1>5, <1>8, <2>1, NewestIs
<1> HIDE DEF n
<1>10. n \in R /\ n.at < q.at /\ s.at <= n.at
  BY <1>1, <1>6, <1>9 DEF Before
<1>11. n \in Stay(R, s)
  BY <1>1, <1>5, <1>10 DEF Stay
<1>12. n \notin Odd
  BY <1>4, <1>5, <1>10
<1>13. Place[n.at] = Place[s.at]
  BY <1>11, <1>12
<1>14. QED
  BY <1>5, <1>8, <1>13 DEF Joins

\* Two stays share no row.
LEMMA StaysDisjoint ==
  ASSUME NEW R, \A q \in R : q.at \in Nat, \A p, q \in R : p.at = q.at => p = q,
         NEW C \in Stays(R), NEW D \in Stays(R), C # D
  PROVE  C \cap D = {}
<1>1. PICK s \in Starts(R), t \in Starts(R) : C = Stay(R, s) /\ D = Stay(R, t)
  BY DEF Stays
<1>2. s \in R /\ t \in R /\ s # t
  BY <1>1 DEF Starts
<1>3. s.at < t.at \/ t.at < s.at
  BY <1>2
<1>4. QED
  BY <1>1, <1>2, <1>3 DEF Stay

\* The constants, as the proofs use them.
LEMMA Constants ==
  /\ Points \subseteq Nat /\ \A p \in Points : Place[p] \in Places
  /\ MaxNow \in Nat /\ MaxUploads \in Nat \ {0}
  /\ Rounds \cap CheckIns = {}
  /\ None \notin Actors /\ None \notin Places /\ Unread \notin Name /\ Nameless \in Name
  /\ \A p \in Places : Geocoded(p) \in Name /\ Geocoded(p).landmark # NoName
<1>1. \A p \in Places : Landmark[p] \in Names /\ Address[p] \in Names \cup {NoName}
  BY ParametersAssumption
<1>2. \A p \in Places : Geocoded(p) \in Name /\ Geocoded(p).landmark # NoName
  BY <1>1, ParametersAssumption DEF Geocoded, Name
<1>3. QED
  BY <1>2, ParametersAssumption DEF Actors, Name, Nameless, AsCommon

\* A name of a place stands for it.
LEMMA CalledStands ==
  ASSUME NEW n, NEW p, Called(n, p)
  PROVE  StandsFor(n, p)
BY DEF Called, StandsFor, SameName

\* A row that the database has given out is of a day of this behaviour.
LEMMA StoredRow ==
  ASSUME TypeOK, NEW q, Stored(q)
  PROVE  /\ q \in Row /\ q.at \in Nat /\ q.at \in Points /\ q.at <= now
         /\ q.at \in 0..MaxNow /\ Day(q.at) \in Days
BY Constants DEF Stored, Row, TypeOK, Days

\* The stay a round handles next is one of its stays, with its newest point.
LEMMA NextStayIs ==
  ASSUME TypeOK, NEW r \in Rounds, RoundOk(r), todo[r] # {}
  PROVE  LET C == NextStay(r)
         IN  /\ C \in todo[r] /\ StayOk(C) /\ Newest(C) \in C /\ C \subseteq Row
             /\ DayOf(C) \in Days /\ PlaceOf(C) \in Places /\ Newest(C).at \in 0..MaxNow
             /\ \A q \in C : Place[q.at] = PlaceOf(C) /\ Day(q.at) <= DayOf(C)
<1> DEFINE T == {Newest(C).at : C \in todo[r]}
<1>1. ASSUME NEW C \in todo[r]
      PROVE  /\ Newest(C) \in C /\ \A q \in C : q.at <= Newest(C).at
  <2>1. C # {} /\ now \in Nat /\ \A q \in C : q.at \in Nat /\ q.at <= now
    BY StoredRow DEF RoundOk, StayOk, TypeOK
  <2>2. QED
    BY <2>1, NewestIs
<1>2. \A C \in todo[r] : Newest(C).at \in Nat
  BY <1>1, StoredRow DEF RoundOk, StayOk
<1>3. \E x \in T : \A y \in T : x <= y
  <2>1. T \in SUBSET Nat /\ T # {}
    BY <1>2
  <2> HIDE DEF T
  <2>2. QED
    BY <2>1, Least
<1>4. \E C \in todo[r] : \A D \in todo[r] : Newest(C).at <= Newest(D).at
  BY <1>3
<1>5. NextStay(r) \in todo[r]
  BY <1>4 DEF NextStay
<1> DEFINE C == NextStay(r)
<1> HIDE DEF C
<1>6. C \in todo[r]
  BY <1>5 DEF C
<1>7. StayOk(C) /\ Newest(C) \in C /\ \A q \in C : q.at <= Newest(C).at
  BY <1>1, <1>6 DEF RoundOk
<1>8. /\ \A q \in C : q \in Row /\ q.at \in Nat /\ q.at \in Points
      /\ Newest(C).at \in 0..MaxNow /\ Day(Newest(C).at) \in Days
  BY <1>7, StoredRow DEF StayOk
<1>9. \A q \in C : Day(q.at) <= Day(Newest(C).at)
  BY <1>7, <1>8, DayMonotone
<1>10. \A q \in C : Place[q.at] = Place[Newest(C).at]
  BY <1>7 DEF StayOk
<1>11. QED
  BY <1>6, <1>7, <1>8, <1>9, <1>10, Constants DEF C, DayOf, PlaceOf

\* The stays of the listed rows, as a round takes them over.
LEMMA StaysOk ==
  ASSUME TypeOK, RowsOk
  PROVE  /\ \A C \in Stays(Listed) : StayOk(C) /\ C \subseteq pending
         /\ \A C, D \in Stays(Listed) : C # D => C \cap D = {}
<1>1. /\ Listed \subseteq pending /\ \A q \in Listed : q.at \in Nat /\ Stored(q)
      /\ \A p, q \in Listed : p.at = q.at => p = q
  BY StoredRow DEF Listed, TypeOK, RowsOk
<1> DEFINE R == Listed
<1> HIDE DEF R
<1>2. /\ R \subseteq pending /\ \A q \in R : q.at \in Nat /\ Stored(q)
      /\ \A p, q \in R : p.at = q.at => p = q
  BY <1>1 DEF R
<1>3. ASSUME NEW C \in Stays(R)
      PROVE  StayOk(C) /\ C \subseteq pending
  <2>1. PICK s \in Starts(R) : C = Stay(R, s)
    BY DEF Stays
  <2>2. s \in C /\ C \subseteq R /\ \A q \in C : Place[q.at] = Place[s.at]
    BY <1>2, <2>1, StayAtOnePlace
  <2>3. QED
    BY <1>2, <2>2 DEF StayOk
<1>4. \A C, D \in Stays(R) : C # D => C \cap D = {}
  BY <1>2, StaysDisjoint
<1>5. QED
  BY <1>3, <1>4 DEF R

\* What is read as the last entry of a date.
LEMMA LastOnIs ==
  ASSUME RowsOk, NEW d, NEW p \in LastOn(d)
  PROVE  /\ p \in Name
         /\ p \in Given => \E i \in DOMAIN entries : entries[i].name = p /\ Day(entries[i].at) = d
         /\ \A i \in NewestOf(entries, d) : entries[i].name = p
<1> DEFINE Last == {j \in OnDay(d) : \A k \in OnDay(d) : entries[k].at <= entries[j].at}
<1>1. OnDay(d) = {i \in DOMAIN entries : Day(entries[i].at) = d}
  BY DEF OnDay
<1>2. \A i \in DOMAIN entries : entries[i].name \in Name /\ entries[i].at \in Nat
  <2>1. \A i \in DOMAIN entries : entries[i] \in Entry
    BY DEF RowsOk
  <2>2. QED
    BY <2>1 DEF Entry
<1>3. CASE OnDay(d) = {}
  BY <1>1, <1>3, Constants DEF LastOn, NewestOf, Nameless, AsCommon, Given
<1>4. CASE OnDay(d) # {}
  <2>1. PICK j \in Last : p = entries[j].name
    BY <1>4 DEF LastOn
  <2>2. j \in DOMAIN entries /\ Day(entries[j].at) = d
    BY <1>1, <2>1
  <2>3. \A i \in NewestOf(entries, d) : i = j
    <3>1. SUFFICES ASSUME NEW i \in NewestOf(entries, d), i # j
                   PROVE  FALSE
      OBVIOUS
    <3>2. i \in OnDay(d) /\ entries[j].at < entries[i].at
      BY <1>1, <2>2, <3>1 DEF NewestOf
    <3>3. entries[i].at <= entries[j].at
      BY <2>1, <3>2
    <3>4. QED
      BY <1>1, <1>2, <2>2, <3>2, <3>3
  <2>4. QED
    BY <1>2, <2>1, <2>2, <2>3
<1>5. QED
  BY <1>3, <1>4

-----------------------------------------------------------------------------
(***************************************************************************)
(* What stays true while rows, entries and time are added                  *)
(***************************************************************************)
Grows ==
  /\ setting' = setting
  /\ now' \in Nat /\ now <= now'
  /\ \A p \in Points : uploads'[p] \in Nat /\ uploads[p] <= uploads'[p]
  /\ \A i \in DOMAIN entries : i \in DOMAIN entries' /\ entries'[i] = entries[i]

LEMMA Persist ==
  ASSUME TypeOK, Grows
  PROVE  /\ \A q : Stored(q) => Stored(q)'
         /\ \A C : StayOk(C) => StayOk(C)'
         /\ \A t : Covered(t) => Covered(t)'
<1>1. ASSUME NEW q, Stored(q)
      PROVE  Stored(q)'
  <2>1. q \in Row /\ q.at \in Points /\ q.id \in 1..MaxUploads /\ q.at \in Nat
        /\ now \in Nat /\ uploads[q.at] \in Nat
    BY <1>1, StoredRow, Constants DEF Stored, Row, TypeOK
  <2>2. QED
    BY <1>1, <2>1 DEF Stored, Grows
<1>2. \A C : StayOk(C) => StayOk(C)'
  BY <1>1 DEF StayOk
<1>3. \A t : Covered(t) => Covered(t)'
  BY DEF Covered, Grows, StandsFor, NamesOf
<1>4. QED
  BY <1>1, <1>2, <1>3

\* Nothing grows when nothing changes.
LEMMA Steady ==
  ASSUME TypeOK, UNCHANGED <<now, uploads, entries, setting>>
  PROVE  Grows
<1>1. now' = now /\ uploads' = uploads /\ entries' = entries /\ setting' = setting
  OBVIOUS
<1>2. now \in Nat /\ \A p \in Points : uploads[p] \in Nat
  BY Constants DEF TypeOK
<1>3. now <= now' /\ \A p \in Points : uploads[p] <= uploads'[p]
  BY <1>1, <1>2
<1>4. QED
  BY <1>1, <1>2, <1>3 DEF Grows

\* An entry is added at the end.
LEMMA Appended ==
  ASSUME RowsOk, NEW e \in Entry, entries' = Append(entries, e)
  PROVE  /\ Len(entries) \in Nat /\ DOMAIN entries = 1..Len(entries)
         /\ entries' \in Seq(Entry)
         /\ DOMAIN entries' = DOMAIN entries \cup {Len(entries) + 1}
         /\ Len(entries) + 1 \notin DOMAIN entries
         /\ \A i \in DOMAIN entries : entries'[i] = entries[i]
         /\ entries'[Len(entries) + 1] = e
<1>1. entries \in Seq(Entry) /\ Len(entries) \in Nat /\ DOMAIN entries = 1..Len(entries)
  BY DEF RowsOk
<1>2. /\ entries' \in Seq(Entry) /\ Len(entries') = Len(entries) + 1
      /\ \A i \in 1..Len(entries) : entries'[i] = entries[i]
      /\ entries'[Len(entries) + 1] = e
  BY <1>1, AppendProperties
<1>3. DOMAIN entries' = 1..(Len(entries) + 1)
  BY <1>2
<1>4. QED
  BY <1>1, <1>2, <1>3

\* The newest and latest entry of a date after an entry was added: the added
\* one on its own date, and on the other dates the one it was.
LEMMA NewestAfter ==
  ASSUME RowsOk, NEW e \in Entry, entries' = Append(entries, e), NEW d
  PROVE  /\ d = Day(e.at) => \A i \in NewestOf(entries', d) : entries'[i] = e
         /\ d # Day(e.at) => \A i \in NewestOf(entries', d) :
                               i \in NewestOf(entries, d) /\ entries'[i] = entries[i]
<1> DEFINE n == Len(entries) + 1
<1>1. /\ Len(entries) \in Nat /\ DOMAIN entries = 1..Len(entries)
      /\ DOMAIN entries' = DOMAIN entries \cup {n} /\ n \notin DOMAIN entries
      /\ \A i \in DOMAIN entries : entries'[i] = entries[i]
      /\ entries'[n] = e
  BY Appended
<1>2. ASSUME d = Day(e.at), NEW i \in NewestOf(entries', d)
      PROVE  entries'[i] = e
  <2>1. i \in DOMAIN entries' /\ n <= i
    BY <1>1, <1>2 DEF NewestOf
  <2>2. i = n
    BY <1>1, <2>1
  <2>3. QED
    BY <1>1, <2>2
<1>3. ASSUME d # Day(e.at), NEW i \in NewestOf(entries', d)
      PROVE  i \in NewestOf(entries, d) /\ entries'[i] = entries[i]
  <2>1. i \in DOMAIN entries
    BY <1>1, <1>3 DEF NewestOf
  <2>2. QED
    BY <1>1, <1>3, <2>1 DEF NewestOf
<1>4. QED
  BY <1>2, <1>3

-----------------------------------------------------------------------------
(***************************************************************************)
(* A step of one actor that leaves the tables alone                        *)
(***************************************************************************)
Unmoved(b) ==
  /\ pc'[b] = pc[b]
  /\ b \in Rounds => todo'[b] = todo[b] /\ del'[b] = del[b] /\ cache'[b] = cache[b] /\ known'[b] = known[b]
  /\ b \in CheckIns => here'[b] = here[b]

TypesOf(a) ==
  /\ a \in Rounds =>
       /\ pc[a] \in {"idle", "check", "list", "name", "last", "create", "unlock"}
       /\ todo[a] \subseteq SUBSET Row /\ del[a] \subseteq Row /\ known[a] \in CommonAddresses
       /\ cache[a] \in [Days -> Name \cup {Unread}]
  /\ a \in CheckIns =>
       /\ pc[a] \in {"idle", "wait", "compare", "insert", "unlock", "done"}
       /\ here[a].at \in 0..MaxNow /\ here[a].place \in Places \cup {None} /\ here[a].name \in Name

\* What Compares says of one actor.
ComparesOf(a) ==
  /\ a \in CheckIns /\ pc[a] = "insert" =>
       \A i \in NewestOf(entries, Day(here[a].at)) : ~SameName(here[a].name, entries[i].name)
  /\ a \in Rounds /\ pc[a] = "create" =>
       \A i \in NewestOf(entries, DayOf(NextStay(a))) : ~SameName(NameOf(a, NextStay(a)), entries[i].name)
  /\ a \in Rounds /\ pc[a] \in Handling => \A d \in Days : cache[a][d] # Unread =>
       \A i \in NewestOf(entries, d) : entries[i].name = cache[a][d]

LEMMA ComparesOfAll == Compares <=> \A a \in Actors : ComparesOf(a)
BY DEF Compares, ComparesOf, Actors

\* What the invariant says of one actor survives its steps and those of others.
LEMMA UnmovedCompares ==
  ASSUME NEW b \in Actors, Unmoved(b), UNCHANGED <<entries, setting>>, ComparesOf(b)
  PROVE  ComparesOf(b)'
<1>1. b \in Rounds => NextStay(b)' = NextStay(b)
  BY DEF Unmoved, NextStay
<1>2. QED
  BY <1>1 DEF ComparesOf, Unmoved, DayOf, NameOf, PlaceOf

\* Such a step keeps the invariant if it keeps what the invariant says of its
\* actor, leaves the lock to the others, and does not forget what to delete.
LEMMA ActorStep ==
  ASSUME IInv, UNCHANGED dbVars, UNCHANGED userVars, NEW a \in Actors,
         DOMAIN pc' = Actors, DOMAIN here' = CheckIns,
         DOMAIN todo' = Rounds, DOMAIN del' = Rounds, DOMAIN cache' = Rounds /\ DOMAIN known' = Rounds,
         \A b \in Actors \ {a} : Unmoved(b),
         holder' \in Actors \cup {None},
         TypesOf(a)',
         a \in Rounds => RoundOk(a)',
         a \in CheckIns => CheckInOk(a)',
         ~setting.lossy /\ InLock(a)' => holder' = a,
         \A b \in Actors \ {a} : ~setting.lossy /\ InLock(b) => holder' = b,
         Undisturbed /\ a \in Rounds /\ pc'[a] \in Handling =>
           \A C \in todo'[a], i \in DOMAIN entries : C \cap entries[i].of = {},
         Undisturbed /\ a \in Rounds /\ pc[a] \in Handling =>
           pc'[a] \in Handling /\ del[a] \subseteq del'[a],
         ~setting.lossy => ComparesOf(a)'
  PROVE  IInv'
<1>1. /\ pending' = pending /\ uploads' = uploads /\ stale' = stale /\ entries' = entries
      /\ now' = now /\ vip' = vip /\ enabled' = enabled /\ setting' = setting
      /\ Rounds \subseteq Actors /\ CheckIns \subseteq Actors
  BY DEF dbVars, userVars, Actors
<1>2. TypeOK /\ RowsOk /\ Grows
  BY <1>1, Steady DEF IInv
<1>3. \A b \in Actors : TypesOf(b)'
  <2>1. SUFFICES ASSUME NEW b \in Actors \ {a}
                 PROVE  TypesOf(b)'
    OBVIOUS
  <2>2. TypesOf(b)
    BY <1>2, Constants DEF TypeOK, TypesOf
  <2>3. QED
    BY <1>1, <2>2 DEF TypesOf, Unmoved, CommonAddresses
<1>4. TypeOK'
  BY <1>1, <1>2, <1>3 DEF TypeOK, TypesOf
<1>5. RowsOk'
  BY <1>1, <1>2 DEF RowsOk, Stored, Called, NamesOf
<1>6. ASSUME NEW r \in Rounds
      PROVE  RoundOk(r)'
  <2>1. CASE r = a
    BY <2>1
  <2>2. CASE r # a
    <3>1. RoundOk(r) /\ Unmoved(r)
      BY <1>1, <2>2 DEF IInv
    <3>2. QED
      BY <1>1, <1>2, <3>1, Persist DEF RoundOk, Unmoved
  <2>3. QED
    BY <2>1, <2>2
<1>7. \A c \in CheckIns : CheckInOk(c)'
  BY <1>1 DEF IInv, CheckInOk, Unmoved
<1>8. NothingDropped' /\ OnceUndisturbed' /\ (Undisturbed' <=> Undisturbed)
  BY <1>1 DEF IInv, NothingDropped, StandsFor, NamesOf, OnceUndisturbed, RecordedOnce, Undisturbed
<1>9. Exclusive'
  <2>1. \A b \in Actors \ {a} : InLock(b)' <=> InLock(b)
    BY DEF InLock, Unmoved
  <2>2. QED
    BY <1>1, <2>1 DEF Exclusive
<1>10. ASSUME Undisturbed
       PROVE  OncePending'
  <2>1. OncePending
    BY <1>10 DEF IInv
  <2>2. ASSUME NEW r \in Rounds, pc'[r] \in Handling,
               NEW C \in todo'[r], NEW i \in DOMAIN entries
        PROVE  C \cap entries[i].of = {}
    BY <1>1, <1>10, <2>1, <2>2 DEF OncePending, Unmoved
  <2>3. ASSUME NEW q \in pending, NEW i \in DOMAIN entries, q \in entries[i].of
        PROVE  \E r \in Rounds : pc'[r] \in Handling /\ q \in del'[r]
    <3>1. PICK r \in Rounds : pc[r] \in Handling /\ q \in del[r]
      BY <2>1, <2>3 DEF OncePending
    <3>2. pc'[r] \in Handling /\ q \in del'[r]
      BY <1>1, <1>10, <3>1 DEF Unmoved
    <3>3. QED
      BY <3>2
  <2>4. QED
    BY <1>1, <2>2, <2>3 DEF OncePending
<1>11. ASSUME ~setting.lossy
       PROVE  Compares'
  <2>1. \A b \in Actors : ComparesOf(b)
    BY <1>11, ComparesOfAll DEF IInv
  <2>2. \A b \in Actors : ComparesOf(b)'
    BY <1>1, <1>11, <2>1, UnmovedCompares
  <2>3. QED
    BY <2>2, ComparesOfAll DEF Compares, ComparesOf, Actors
<1>12. Domains'
  BY DEF Domains
<1>13. QED
  BY <1>1, <1>4, <1>5, <1>6, <1>7, <1>8, <1>9, <1>10, <1>11, <1>12 DEF IInv
-----------------------------------------------------------------------------
(***************************************************************************)
(* Steps that take or leave the lock                                       *)
(***************************************************************************)
\* The invariant, as the steps of one actor use it.
LEMMA Facts ==
  ASSUME IInv
  PROVE  /\ TypeOK /\ Domains /\ RowsOk
         /\ Rounds \subseteq Actors /\ CheckIns \subseteq Actors /\ Rounds \cap CheckIns = {}
         /\ \A r \in Rounds : RoundOk(r) /\ TypesOf(r)
         /\ \A c \in CheckIns : CheckInOk(c) /\ TypesOf(c)
         /\ holder \in Actors \cup {None}
         /\ ~setting.lossy => \A a \in Actors : (InLock(a) => holder = a) /\ ComparesOf(a)
<1>1. TypeOK /\ Domains /\ RowsOk /\ Rounds \cap CheckIns = {}
  BY Constants DEF IInv
<1>2. \A a \in Actors : TypesOf(a)
  BY <1>1 DEF TypeOK, TypesOf
<1>3. Rounds \subseteq Actors /\ CheckIns \subseteq Actors
  BY DEF Actors
<1>4. ~setting.lossy => \A a \in Actors : (InLock(a) => holder = a) /\ ComparesOf(a)
  BY ComparesOfAll DEF IInv, Exclusive
<1>5. QED
  BY <1>1, <1>2, <1>3, <1>4 DEF IInv, TypeOK

\* An actor returns: nothing is left of what it knew.
LEMMA ReturnIInv ==
  ASSUME IInv, UNCHANGED dbVars, UNCHANGED userVars, NEW a \in Actors, Return(a),
         Release(a) \/ (UNCHANGED holder /\ ~InLock(a)),
         Undisturbed => pc[a] \notin Handling
  PROVE  IInv'
<1>1. Domains /\ TypeOK /\ Rounds \cap CheckIns = {} /\ holder \in Actors \cup {None}
      /\ Rounds \subseteq Actors /\ CheckIns \subseteq Actors
  BY Facts
<1>2. /\ DOMAIN pc' = Actors /\ DOMAIN here' = CheckIns
      /\ DOMAIN todo' = Rounds /\ DOMAIN del' = Rounds /\ DOMAIN cache' = Rounds /\ DOMAIN known' = Rounds
  BY <1>1 DEF Return, Goto, Domains
<1>3. /\ pc'[a] = (IF a \in Rounds THEN "idle" ELSE "done")
      /\ a \in Rounds => todo'[a] = {} /\ del'[a] = {} /\ known'[a] = {} /\ cache'[a] = [d \in Days |-> Unread]
      /\ a \in CheckIns => here'[a] = NoPlan
  BY <1>1 DEF Return, Goto, Domains
<1>4. \A b \in Actors \ {a} : Unmoved(b)
  BY <1>1 DEF Return, Goto, Domains, Unmoved
<1>5. TypesOf(a)'
  BY <1>1, <1>3, Constants DEF TypesOf, NoPlan, CommonAddresses
<1>6. a \in Rounds => RoundOk(a)'
  BY <1>3, Constants DEF RoundOk, Given
<1>7. a \in CheckIns => CheckInOk(a)'
  BY <1>1, <1>3 DEF CheckInOk
<1>8. ~InLock(a)' /\ ComparesOf(a)' /\ pc'[a] \notin Handling
  BY <1>1, <1>3 DEF InLock, ComparesOf, Handling
<1>9. holder' \in Actors \cup {None}
  BY <1>1 DEF Release
<1>10. ASSUME NEW b \in Actors \ {a}, ~setting.lossy, InLock(b)
       PROVE  holder' = b
  BY <1>10, Facts DEF Release
<1>11. QED
  BY <1>2, <1>3, <1>4, <1>5, <1>6, <1>7, <1>8, <1>9, <1>10, ActorStep

LEMMA UnlockIInv ==
  ASSUME IInv, NEW a \in Actors, Unlock(a)
  PROVE  IInv'
BY ReturnIInv DEF Unlock, Handling

LEMMA CrashIInv ==
  ASSUME IInv, NEW a \in Actors, Crash(a)
  PROVE  IInv'
BY ReturnIInv DEF Crash, Undisturbed

LEMMA GiveUpIInv ==
  ASSUME IInv, NEW c \in CheckIns, GiveUp(c)
  PROVE  IInv'
<1>1. c \in Actors
  BY Facts
<1>2. QED
  BY <1>1, ReturnIInv DEF GiveUp, InLock, Handling

\* Steps that move only the position of an actor, and possibly the lock.
LEMMA GotoIInv ==
  ASSUME IInv, UNCHANGED <<dbVars, userVars, roundVars, here>>, NEW a \in Actors, NEW s, Goto(a, s),
         a \in Rounds => s \in {"idle", "check", "list", "name", "last", "create", "unlock"},
         a \in Rounds /\ s \in {"last", "create"} => todo[a] # {},
         a \in CheckIns => s \in {"idle", "wait", "compare", "insert", "unlock", "done"},
         a \in CheckIns /\ s \in {"wait", "compare", "insert"} =>
           here[a].place \in Places /\ here[a].name = Geocoded(here[a].place),
         (UNCHANGED holder /\ (~setting.lossy /\ s \notin {"idle", "wait", "done"} => InLock(a))) \/ Lock(a),
         Undisturbed /\ a \in Rounds => (s \in Handling <=> pc[a] \in Handling),
         ~setting.lossy => ComparesOf(a)'
  PROVE  IInv'
<1>1. /\ Domains /\ TypeOK /\ Rounds \cap CheckIns = {} /\ holder \in Actors \cup {None}
      /\ Rounds \subseteq Actors /\ CheckIns \subseteq Actors /\ None \notin Actors
      /\ todo' = todo /\ del' = del /\ cache' = cache /\ known' = known /\ here' = here
      /\ UNCHANGED dbVars /\ UNCHANGED userVars /\ entries' = entries /\ UNCHANGED <<now, uploads, setting>>
  BY Facts, Constants DEF roundVars, dbVars, userVars
<1>2. /\ DOMAIN pc' = Actors /\ DOMAIN here' = CheckIns
      /\ DOMAIN todo' = Rounds /\ DOMAIN del' = Rounds /\ DOMAIN cache' = Rounds /\ DOMAIN known' = Rounds
  BY <1>1 DEF Goto, Domains
<1>3. pc'[a] = s
  BY <1>1 DEF Goto, Domains
<1>4. \A b \in Actors \ {a} : Unmoved(b)
  BY <1>1 DEF Goto, Domains, Unmoved
<1>5. TypesOf(a)'
  <2>1. TypesOf(a)
    BY Facts DEF Actors
  <2>2. QED
    BY <1>1, <1>3, <2>1 DEF TypesOf, CommonAddresses
<1>6. ASSUME a \in Rounds
      PROVE  RoundOk(a)'
  <2>1. RoundOk(a)
    BY <1>6, Facts
  <2>2. \A C : StayOk(C) => StayOk(C)'
    BY <1>1, Steady, Persist
  <2>3. \A t : Covered(t)' <=> Covered(t)
    BY <1>1 DEF Covered, StandsFor, NamesOf
  <2>4. QED
    BY <1>1, <1>3, <1>6, <2>1, <2>2, <2>3 DEF RoundOk
<1>7. a \in CheckIns => CheckInOk(a)'
  BY <1>1, <1>3 DEF CheckInOk
<1>8. holder' \in Actors \cup {None}
  BY <1>1 DEF Lock
<1>9. ~setting.lossy /\ InLock(a)' => holder' = a
  BY <1>3, Facts DEF InLock, Lock
<1>10. \A b \in Actors \ {a} : ~setting.lossy /\ InLock(b) => holder' = b
  BY <1>1, Facts DEF Lock
<1>11. ASSUME Undisturbed, a \in Rounds, pc'[a] \in Handling
       PROVE  \A C \in todo'[a], i \in DOMAIN entries : C \cap entries[i].of = {}
  BY <1>1, <1>3, <1>11 DEF IInv, OncePending
<1>12. Undisturbed /\ a \in Rounds /\ pc[a] \in Handling =>
         pc'[a] \in Handling /\ del[a] \subseteq del'[a]
  BY <1>1, <1>3
<1>13. QED
  BY <1>1, <1>2, <1>4, <1>5, <1>6, <1>7, <1>8, <1>9, <1>10, <1>11, <1>12, ActorStep

-----------------------------------------------------------------------------
(***************************************************************************)
(* Steps that move only the position of an actor                           *)
(***************************************************************************)
LEMMA LockRoundIInv ==
  ASSUME IInv, NEW r \in Rounds, LockRound(r)
  PROVE  IInv'
<1>1. r \in Actors /\ r \notin CheckIns /\ Domains /\ pc'[r] = "check"
  BY Facts DEF LockRound, Goto, Domains
<1>2. ComparesOf(r)'
  BY <1>1 DEF ComparesOf, Handling
<1>3. QED
  BY <1>1, <1>2, GotoIInv DEF LockRound, Handling

LEMMA CheckUserIInv ==
  ASSUME IInv, NEW r \in Rounds, CheckUser(r)
  PROVE  IInv'
<1> DEFINE s == IF enabled /\ vip THEN "list" ELSE "unlock"
<1>1. r \in Actors /\ r \notin CheckIns /\ Domains /\ pc'[r] = s
  BY Facts DEF CheckUser, Goto, Domains
<1>2. ComparesOf(r)'
  BY <1>1 DEF ComparesOf, Handling
<1>3. InLock(r) /\ s \notin Handling /\ pc[r] \notin Handling
  BY DEF CheckUser, InLock, Handling
<1>4. Goto(r, s) /\ UNCHANGED <<dbVars, userVars, roundVars, here>> /\ UNCHANGED holder
  BY DEF CheckUser
<1>5. s \in {"list", "unlock"}
  OBVIOUS
<1> HIDE DEF s
<1>6. QED
  BY <1>1, <1>2, <1>3, <1>4, <1>5, GotoIInv

\* The place it names is at hand; what it compares with is unchanged.
LEMMA NameStayIInv ==
  ASSUME IInv, NEW r \in Rounds, NameStay(r)
  PROVE  IInv'
<1>1. /\ r \in Actors /\ r \notin CheckIns /\ Domains /\ pc'[r] = "last"
      /\ cache' = cache /\ known' = known /\ entries' = entries
  BY Facts DEF NameStay, Goto, Domains, roundVars, dbVars
<1>2. pc[r] = "name" /\ todo[r] # {}
  BY DEF NameStay, Naming
<1>3. ASSUME ~setting.lossy
      PROVE  ComparesOf(r)'
  <2>1. ComparesOf(r)
    BY <1>1, <1>3, Facts
  <2>2. QED
    BY <1>1, <1>2, <2>1 DEF ComparesOf, Handling
<1>4. QED
  BY <1>1, <1>2, <1>3, GotoIInv DEF NameStay, Handling, InLock

LEMMA ReadFailsIInv ==
  ASSUME IInv, NEW r \in Rounds, ReadFails(r)
  PROVE  IInv'
<1>1. r \in Actors /\ r \notin CheckIns /\ Domains /\ pc'[r] = "unlock"
  BY Facts DEF ReadFails, Goto, Domains
<1>2. ComparesOf(r)' /\ ~Undisturbed
  BY <1>1 DEF ComparesOf, Handling, ReadFails, Undisturbed
<1>3. QED
  BY <1>1, <1>2, GotoIInv DEF ReadFails, InLock

LEMMA DeleteFailsIInv ==
  ASSUME IInv, NEW r \in Rounds, DeleteFails(r)
  PROVE  IInv'
<1>1. r \in Actors /\ r \notin CheckIns /\ Domains /\ pc'[r] = "unlock"
  BY Facts DEF DeleteFails, Goto, Domains
<1>2. ComparesOf(r)' /\ ~Undisturbed
  BY <1>1 DEF ComparesOf, Handling, DeleteFails, Undisturbed
<1>3. QED
  BY <1>1, <1>2, GotoIInv DEF DeleteFails, Handled, InLock

LEMMA LockCheckInIInv ==
  ASSUME IInv, NEW c \in CheckIns, LockCheckIn(c)
  PROVE  IInv'
<1>1. /\ c \in Actors /\ c \notin Rounds /\ Domains /\ pc'[c] = "compare"
      /\ here[c].place \in Places /\ here[c].name = Geocoded(here[c].place)
  BY Facts DEF LockCheckIn, Goto, Domains, CheckInOk
<1>2. ComparesOf(c)'
  BY <1>1 DEF ComparesOf
<1>3. QED
  BY <1>1, <1>2, GotoIInv DEF LockCheckIn

\* The comparison: the name differs from that of the newest entry of the date.
LEMMA CompareIInv ==
  ASSUME IInv, NEW c \in CheckIns, Compare(c)
  PROVE  IInv'
<1>1. /\ c \in Actors /\ c \notin Rounds /\ Domains /\ RowsOk
      /\ here[c].place \in Places /\ here[c].name = Geocoded(here[c].place)
      /\ here' = here /\ entries' = entries
  BY Facts DEF Compare, CheckInOk, dbVars
<1>2. PICK p \in LastOn(Day(here[c].at)) : 
          Goto(c, IF SameName(here[c].name, p) THEN "unlock" ELSE "insert")
  BY DEF Compare
<1> DEFINE s == IF SameName(here[c].name, p) THEN "unlock" ELSE "insert"
<1>3. Goto(c, s) /\ pc'[c] = s /\ s \in {"unlock", "insert"} /\ (s = "insert" => ~SameName(here[c].name, p))
  BY <1>1, <1>2 DEF Goto, Domains
<1> HIDE DEF s
<1>4. ComparesOf(c)'
  <2>1. \A i \in NewestOf(entries, Day(here[c].at)) : entries[i].name = p
    BY <1>1, LastOnIs
  <2>2. QED
    BY <1>1, <1>3, <2>1 DEF ComparesOf
<1>5. QED
  BY <1>1, <1>3, <1>4, GotoIInv DEF Compare, InLock

LEMMA CheckInFailsIInv ==
  ASSUME IInv, NEW c \in CheckIns, CheckInFails(c)
  PROVE  IInv'
<1>1. c \in Actors /\ c \notin Rounds /\ Domains /\ pc'[c] = "unlock"
  BY Facts DEF CheckInFails, Goto, Domains
<1>2. ComparesOf(c)'
  BY <1>1 DEF ComparesOf
<1>3. QED
  BY <1>1, <1>2, GotoIInv DEF CheckInFails, InLock

\* Time and place of a check-in are fixed before it takes the lock.
LEMMA CheckInIInv ==
  ASSUME IInv, NEW c \in CheckIns, NEW p \in Places, CheckIn(c, p)
  PROVE  IInv'
<1>1. /\ c \in Actors /\ c \notin Rounds /\ Domains /\ TypeOK
      /\ holder \in Actors \cup {None} /\ todo' = todo /\ del' = del /\ cache' = cache /\ known' = known
      /\ holder' = holder /\ UNCHANGED dbVars /\ UNCHANGED userVars
  BY Facts DEF CheckIn, roundVars
<1>2. /\ DOMAIN pc' = Actors /\ DOMAIN here' = CheckIns /\ DOMAIN todo' = Rounds
      /\ DOMAIN del' = Rounds /\ DOMAIN cache' = Rounds /\ DOMAIN known' = Rounds
      /\ pc'[c] = "wait" /\ here'[c] = [at |-> now, place |-> p, name |-> Geocoded(p)]
  BY <1>1 DEF CheckIn, Goto, Domains
<1>3. \A b \in Actors \ {c} : Unmoved(b)
  BY <1>1 DEF CheckIn, Goto, Domains, Unmoved, Actors
<1>4. now \in 0..MaxNow
  BY <1>1 DEF TypeOK
<1>5. TypesOf(c)' /\ CheckInOk(c)' /\ ~InLock(c)' /\ ComparesOf(c)'
  BY <1>1, <1>2, <1>4, Constants DEF TypesOf, CheckInOk, InLock, ComparesOf
<1>6. \A b \in Actors \ {c} : ~setting.lossy /\ InLock(b) => holder' = b
  BY <1>1, Facts
<1>7. QED
  BY <1>1, <1>2, <1>3, <1>5, <1>6, ActorStep

-----------------------------------------------------------------------------
(***************************************************************************)
(* Steps of a round between the listing and the deletion                   *)
(***************************************************************************)
\* The round goes to s with the stays T to handle, the rows D to delete and the
\* last names K, and knows some common addresses; no other actor moves.
Remembers(r, s, T, D, K) ==
  /\ DOMAIN pc' = Actors /\ DOMAIN here' = CheckIns
  /\ DOMAIN todo' = Rounds /\ DOMAIN del' = Rounds /\ DOMAIN cache' = Rounds /\ DOMAIN known' = Rounds
  /\ pc'[r] = s /\ todo'[r] = T /\ del'[r] = D /\ cache'[r] = K /\ known'[r] \in CommonAddresses
  /\ \A b \in Actors \ {r} : Unmoved(b)

\* And what it has then is in order.
MayRemember(r, s, T, D, K) ==
  /\ InLock(r)
  /\ s \in {"name", "last", "create", "unlock"}
  /\ T \in SUBSET SUBSET Row /\ D \in SUBSET Row /\ K \in [Days -> Name \cup {Unread}]
  /\ \A C \in T : StayOk(C)
  /\ \A C, E \in T : C # E => C \cap E = {}
  /\ s \in {"last", "create"} => T # {}
  /\ \A q \in D : Covered(q.at)
  /\ \A d \in Days : K[d] \in Given =>
       \E i \in DOMAIN entries : entries[i].name = K[d] /\ Day(entries[i].at) = d
  /\ Undisturbed => (s \in Handling => \A C \in T, i \in DOMAIN entries : C \cap entries[i].of = {})
  /\ Undisturbed => (pc[r] \in Handling => s \in Handling /\ del[r] \subseteq D)
  /\ ~setting.lossy => ComparesOf(r)'

\* Such a step changes what the round has in memory, and holds on to the lock.
LEMMA RoundIInv ==
  ASSUME IInv, UNCHANGED <<dbVars, userVars, holder, here>>, NEW r \in Rounds,
         NEW s, NEW T, NEW D, NEW K, Remembers(r, s, T, D, K), MayRemember(r, s, T, D, K)
  PROVE  IInv'
<1>0. /\ InLock(r)
      /\ s \in {"name", "last", "create", "unlock"}
      /\ T \in SUBSET SUBSET Row /\ D \in SUBSET Row /\ K \in [Days -> Name \cup {Unread}]
      /\ \A C \in T : StayOk(C)
      /\ \A C, E \in T : C # E => C \cap E = {}
      /\ s \in {"last", "create"} => T # {}
      /\ \A q \in D : Covered(q.at)
      /\ \A d \in Days : K[d] \in Given =>
           \E i \in DOMAIN entries : entries[i].name = K[d] /\ Day(entries[i].at) = d
      /\ Undisturbed => (s \in Handling => \A C \in T, i \in DOMAIN entries : C \cap entries[i].of = {})
      /\ Undisturbed => (pc[r] \in Handling => s \in Handling /\ del[r] \subseteq D)
      /\ ~setting.lossy => ComparesOf(r)'
  BY DEF MayRemember
<1>1. /\ r \in Actors /\ r \notin CheckIns /\ Domains /\ TypeOK /\ holder \in Actors \cup {None}
      /\ here' = here /\ holder' = holder /\ UNCHANGED dbVars /\ UNCHANGED userVars
      /\ entries' = entries /\ UNCHANGED <<now, uploads, setting>>
  BY Facts DEF dbVars, userVars
<1>2. /\ DOMAIN pc' = Actors /\ DOMAIN here' = CheckIns /\ DOMAIN todo' = Rounds
      /\ DOMAIN del' = Rounds /\ DOMAIN cache' = Rounds /\ DOMAIN known' = Rounds
      /\ pc'[r] = s /\ todo'[r] = T /\ del'[r] = D /\ cache'[r] = K
      /\ known'[r] \in CommonAddresses
  BY DEF Remembers
<1>3. \A b \in Actors \ {r} : Unmoved(b)
  BY DEF Remembers
<1>4. TypesOf(r)'
  BY <1>0, <1>1, <1>2 DEF TypesOf, CommonAddresses
<1>5. RoundOk(r)'
  <2>1. \A C : StayOk(C) => StayOk(C)'
    BY <1>1, Steady, Persist
  <2>2. \A t : Covered(t)' <=> Covered(t)
    BY <1>1 DEF Covered, StandsFor, NamesOf
  <2>3. QED
    BY <1>0, <1>1, <1>2, <2>1, <2>2 DEF RoundOk
<1>6. ~setting.lossy => holder' = r
  BY <1>0, <1>1, Facts
<1>7. \A b \in Actors \ {r} : ~setting.lossy /\ InLock(b) => holder' = b
  BY <1>1, Facts
<1>8. QED
  BY <1>0, <1>1, <1>2, <1>3, <1>4, <1>5, <1>6, <1>7, ActorStep

\* The reading of the stays: under the lock nobody else has recorded a pending point.
LEMMA ListTrajectoriesIInv ==
  ASSUME IInv, NEW r \in Rounds, ListTrajectories(r)
  PROVE  IInv'
<1> DEFINE s == IF pending = {} THEN "unlock" ELSE "name"
           T == Stays(Listed)
           D == {}
           K == [d \in Days |-> Unread]
<1>1. PICK G \in CommonAddresses : known' = [known EXCEPT ![r] = G]
  BY DEF ListTrajectories
<1>2. /\ Domains /\ r \in Actors /\ r \notin CheckIns
      /\ pc' = [pc EXCEPT ![r] = s] /\ todo' = [todo EXCEPT ![r] = T]
      /\ del' = [del EXCEPT ![r] = {}] /\ cache' = [cache EXCEPT ![r] = K]
      /\ UNCHANGED <<dbVars, userVars, holder, here>>
      /\ s \in {"name", "unlock"} /\ K \in [Days -> Name \cup {Unread}]
      /\ \A d \in Days : K[d] \notin Given /\ K[d] = Unread
  BY Constants, Facts DEF ListTrajectories, Goto, Given
<1>3. InLock(r) /\ pc[r] \notin Handling
  BY DEF ListTrajectories, InLock, Handling
<1>4. /\ \A C \in T : StayOk(C) /\ C \subseteq pending
      /\ \A C, E \in T : C # E => C \cap E = {}
  BY StaysOk, Facts
<1>5. T \in SUBSET SUBSET Row
  <2>1. pending \subseteq Row
    BY Facts DEF TypeOK
  <2>2. QED
    BY <1>4, <2>1
<1>6. \A q \in D : Covered(q.at)
  OBVIOUS
<1>7. D \in SUBSET Row /\ del' = [del EXCEPT ![r] = D]
  BY <1>2
<1> HIDE DEF s, T, D, K
<1>8. ASSUME Undisturbed
      PROVE  \A C \in T, i \in DOMAIN entries : C \cap entries[i].of = {}
  <2>1. SUFFICES ASSUME NEW C \in T, NEW i \in DOMAIN entries, NEW q \in C, q \in entries[i].of
                 PROVE  FALSE
    OBVIOUS
  <2>2. q \in pending
    BY <1>4, <2>1
  <2>3. PICK w \in Rounds : pc[w] \in Handling /\ q \in del[w]
    BY <1>8, <2>1, <2>2 DEF IInv, OncePending
  <2>4. w # r
    BY <1>3, <2>3
  <2>5. holder = w /\ holder = r
    BY <1>3, <1>8, <2>3, Facts DEF InLock, Handling, Undisturbed
  <2>6. QED
    BY <2>4, <2>5
<1>9. ComparesOf(r)'
  <2>1. pc'[r] = s /\ cache'[r] = K
    BY <1>2 DEF Domains
  <2>2. QED
    BY <1>2, <2>1 DEF ComparesOf
<1>10. Remembers(r, s, T, D, K)
  BY <1>1, <1>2, <1>7 DEF Domains, Remembers, Unmoved, Actors
<1>11. /\ s \in {"name", "last", "create", "unlock"}
       /\ s \in {"last", "create"} => T # {}
       /\ D \in SUBSET Row /\ K \in [Days -> Name \cup {Unread}]
       /\ \A C, E \in T : C # E => C \cap E = {}
       /\ \A C \in T : StayOk(C)
       /\ UNCHANGED <<dbVars, userVars, holder, here>>
  BY <1>2, <1>4, <1>7
<1>12. \A d \in Days : K[d] \in Given =>
         \E i \in DOMAIN entries : entries[i].name = K[d] /\ Day(entries[i].at) = d
  BY <1>2
<1>13. /\ \A q \in D : Covered(q.at)
       /\ Undisturbed /\ pc[r] \in Handling => s \in Handling /\ del[r] \subseteq D
       /\ Undisturbed /\ s \in Handling => \A C \in T, i \in DOMAIN entries : C \cap entries[i].of = {}
       /\ ~setting.lossy => ComparesOf(r)'
  BY <1>3, <1>6, <1>8, <1>9
<1>14. MayRemember(r, s, T, D, K)
  BY <1>3, <1>5, <1>11, <1>12, <1>13 DEF MayRemember
<1>15. QED
  BY <1>10, <1>11, <1>14, RoundIInv

\* What a round that handles a stay has in memory, as the next lemmas use it.
LEMMA HandlingFacts ==
  ASSUME IInv, NEW r \in Rounds, pc[r] \in Handling
  PROVE  /\ InLock(r) /\ r \in Actors /\ r \notin CheckIns /\ Domains /\ TypeOK /\ RowsOk
         /\ todo[r] \in SUBSET SUBSET Row /\ del[r] \in SUBSET Row
         /\ cache[r] \in [Days -> Name \cup {Unread}]
         /\ known[r] \in CommonAddresses
         /\ \A C \in todo[r] : StayOk(C)
         /\ \A C, D \in todo[r] : C # D => C \cap D = {}
         /\ pc[r] \in {"last", "create"} => todo[r] # {}
         /\ \A q \in del[r] : Covered(q.at)
         /\ \A d \in Days : cache[r][d] \in Given =>
              \E i \in DOMAIN entries : entries[i].name = cache[r][d] /\ Day(entries[i].at) = d
         /\ Undisturbed => \A C \in todo[r], i \in DOMAIN entries : C \cap entries[i].of = {}
         /\ ~setting.lossy => ComparesOf(r)
<1>1. r \in Actors /\ r \notin CheckIns /\ Domains /\ TypeOK /\ RowsOk /\ RoundOk(r)
  BY Facts
<1>2. InLock(r)
  BY DEF InLock, Handling
<1>3. todo[r] \in SUBSET SUBSET Row /\ del[r] \in SUBSET Row
      /\ cache[r] \in [Days -> Name \cup {Unread}] /\ known[r] \in CommonAddresses
  BY <1>1 DEF TypeOK
<1>4. Undisturbed => \A C \in todo[r], i \in DOMAIN entries : C \cap entries[i].of = {}
  BY DEF IInv, OncePending
<1>5. ~setting.lossy => ComparesOf(r)
  BY <1>1, Facts
<1>6. QED
  BY <1>1, <1>2, <1>3, <1>4, <1>5 DEF RoundOk

LEMMA SkipStayIInv ==
  ASSUME IInv, NEW r \in Rounds, SkipStay(r)
  PROVE  IInv'
<1>1. /\ pc[r] = "name" /\ pc[r] \in Handling /\ pc' = pc /\ del' = del /\ cache' = cache /\ known' = known
      /\ todo' = [todo EXCEPT ![r] = todo[r] \ {NextStay(r)}]
      /\ UNCHANGED <<dbVars, userVars, holder, here>> /\ entries' = entries /\ setting' = setting
  BY DEF SkipStay, Geocodes, Naming, Handling, dbVars, userVars
<1>2. ComparesOf(r) => ComparesOf(r)'
  BY <1>1, HandlingFacts DEF ComparesOf
<1> DEFINE T == todo[r] \ {NextStay(r)}
<1>3. Remembers(r, "name", T, del[r], cache[r])
  BY <1>1, HandlingFacts DEF Domains, Remembers, Unmoved, Actors
<1>4. /\ T \subseteq todo[r] /\ T \in SUBSET SUBSET Row
      /\ \A C \in T : StayOk(C)
      /\ \A C, E \in T : C # E => C \cap E = {}
      /\ Undisturbed => \A C \in T, i \in DOMAIN entries : C \cap entries[i].of = {}
  BY <1>1, HandlingFacts
<1>5. /\ InLock(r) /\ del[r] \in SUBSET Row /\ cache[r] \in [Days -> Name \cup {Unread}]
      /\ \A q \in del[r] : Covered(q.at)
      /\ \A d \in Days : cache[r][d] \in Given =>
           \E i \in DOMAIN entries : entries[i].name = cache[r][d] /\ Day(entries[i].at) = d
      /\ ~setting.lossy => ComparesOf(r)'
  BY <1>1, <1>2, HandlingFacts
<1> HIDE DEF T
<1>6. MayRemember(r, "name", T, del[r], cache[r])
  BY <1>4, <1>5 DEF MayRemember, Handling
<1>7. QED
  BY <1>1, <1>3, <1>6, RoundIInv

LEMMA CreateFailsIInv ==
  ASSUME IInv, NEW r \in Rounds, CreateFails(r)
  PROVE  IInv'
<1>1. /\ pc[r] = "create" /\ pc[r] \in Handling /\ pc' = [pc EXCEPT ![r] = "name"]
      /\ del' = del /\ cache' = cache /\ known' = known
      /\ todo' = [todo EXCEPT ![r] = todo[r] \ {NextStay(r)}]
      /\ UNCHANGED <<dbVars, userVars, holder, here>> /\ entries' = entries /\ setting' = setting
  BY DEF CreateFails, Goto, Handling, dbVars, userVars
<1>2. pc'[r] = "name"
  BY <1>1, HandlingFacts DEF Domains
<1>3. ComparesOf(r) => ComparesOf(r)'
  BY <1>1, <1>2, HandlingFacts DEF ComparesOf
<1>4. Remembers(r, "name", todo[r] \ {NextStay(r)}, del[r], cache[r])
  BY <1>1, HandlingFacts DEF Domains, Remembers, Unmoved, Actors
<1>5. MayRemember(r, "name", todo[r] \ {NextStay(r)}, del[r], cache[r])
  BY <1>1, <1>3, HandlingFacts DEF MayRemember, Handling
<1>6. QED
  BY <1>1, <1>4, <1>5, RoundIInv

\* The last names as the round remembers them after it learned that of a date.
Learned(r, d, p) == [cache[r] EXCEPT ![d] = p]

\* What a round compares with is the name of an entry of the date, or no name, and
\* is the name of the newest entry of the date as long as the lock holds.
LEMMA ComparedIs ==
  ASSUME IInv, NEW r \in Rounds, pc[r] \in Handling, NEW d \in Days, NEW p \in Compared(r, d)
  PROVE  LET K == Learned(r, d, p) IN
         /\ p \in Name
         /\ p \in Given => \E i \in DOMAIN entries : entries[i].name = p /\ Day(entries[i].at) = d
         /\ ~setting.lossy => \A i \in NewestOf(entries, d) : entries[i].name = p
         /\ K \in [Days -> Name \cup {Unread}]
         /\ \A e \in Days : K[e] \in Given =>
              \E i \in DOMAIN entries : entries[i].name = K[e] /\ Day(entries[i].at) = e
         /\ ~setting.lossy => \A e \in Days : K[e] # Unread =>
              \A i \in NewestOf(entries, e) : entries[i].name = K[e]
<1>1. /\ r \notin CheckIns /\ RowsOk /\ cache[r] \in [Days -> Name \cup {Unread}]
      /\ \A e \in Days : cache[r][e] \in Given =>
           \E i \in DOMAIN entries : entries[i].name = cache[r][e] /\ Day(entries[i].at) = e
      /\ ~setting.lossy => ComparesOf(r)
  BY HandlingFacts
<1>2. ~setting.lossy => \A e \in Days : cache[r][e] # Unread =>
         \A i \in NewestOf(entries, e) : entries[i].name = cache[r][e]
  BY <1>1 DEF ComparesOf
<1>3. /\ p \in Name
      /\ p \in Given => \E i \in DOMAIN entries : entries[i].name = p /\ Day(entries[i].at) = d
      /\ ~setting.lossy => \A i \in NewestOf(entries, d) : entries[i].name = p
  <2>1. CASE cache[r][d] = Unread
    <3>1. p \in LastOn(d)
      BY <2>1 DEF Compared
    <3>2. QED
      BY <1>1, <3>1, LastOnIs
  <2>2. CASE cache[r][d] # Unread
    <3>1. p = cache[r][d]
      BY <2>2 DEF Compared
    <3>2. QED
      BY <1>1, <1>2, <2>2, <3>1
  <2>3. QED
    BY <2>1, <2>2
<1> DEFINE K == Learned(r, d, p)
<1>4. K \in [Days -> Name \cup {Unread}]
  BY <1>1, <1>3 DEF Learned
<1>5. K[d] = p /\ \A e \in Days : e # d => K[e] = cache[r][e]
  BY <1>1 DEF Learned
<1> HIDE DEF K
<1>6. /\ \A e \in Days : K[e] \in Given =>
           \E i \in DOMAIN entries : entries[i].name = K[e] /\ Day(entries[i].at) = e
      /\ ~setting.lossy => \A e \in Days : K[e] # Unread =>
           \A i \in NewestOf(entries, e) : entries[i].name = K[e]
  BY <1>1, <1>2, <1>3, <1>5
<1>7. QED
  BY <1>3, <1>4, <1>6 DEF K

\* The name that a round gives to a stay is one of its place, and only such names
\* can be repeated.
LEMMA NamedIs ==
  ASSUME TypeOK, NEW r \in Rounds, NEW C, PlaceOf(C) \in Places
  PROVE  /\ Called(NameOf(r, C), PlaceOf(C))
         /\ \A n \in Name : SameName(NameOf(r, C), n) => n # Nameless
<1> DEFINE p == PlaceOf(C)
<1>1. setting.called \in [Places -> Names \cup {NoName}]
  BY ParametersAssumption DEF TypeOK
<1>2. p \in known[r] => setting.called[p] \in Names /\ setting.called[p] # NoName
  BY <1>1 DEF TypeOK, CommonAddresses
<1>3. Called(NameOf(r, C), p)
  <2>1. CASE p \in known[r]
    BY <1>2, <2>1 DEF NameOf, Called, Name, AsCommon, NamesOf
  <2>2. CASE p \notin known[r]
    BY <2>2, Constants DEF NameOf, Called, NamesOf
  <2>3. QED
    BY <2>1, <2>2
<1>4. \A n \in Name : SameName(NameOf(r, C), n) => n # Nameless
  BY DEF SameName, Nameless, AsCommon
<1>5. QED
  BY <1>3, <1>4

\* The points of a repeated stay are covered by the entry it repeats.
LEMMA IsDuplicateIInv ==
  ASSUME IInv, NEW r \in Rounds, IsDuplicate(r)
  PROVE  IInv'
<1> DEFINE C == NextStay(r)
           d == DayOf(C)
<1>1. pc[r] = "last" /\ pc[r] \in Handling
  BY DEF IsDuplicate, Handling
<1>2. PICK p \in Compared(r, d) : SameName(NameOf(r, C), p) /\ Remember(r, d, p)
  BY DEF IsDuplicate
<1>3. RoundOk(r) /\ TypeOK /\ todo[r] # {}
  BY <1>1, Facts, HandlingFacts
<1>4. /\ C \in todo[r] /\ C \subseteq Row /\ d \in Days /\ PlaceOf(C) \in Places
      /\ \A q \in C : Place[q.at] = PlaceOf(C) /\ Day(q.at) <= d
  BY <1>3, NextStayIs
<1>5. /\ pc' = [pc EXCEPT ![r] = "name"] /\ todo' = [todo EXCEPT ![r] = todo[r] \ {C}]
      /\ del' = [del EXCEPT ![r] = del[r] \cup C] /\ known' = known
      /\ UNCHANGED <<dbVars, userVars, holder, here>> /\ entries' = entries /\ setting' = setting
  BY DEF IsDuplicate, Goto, dbVars, userVars
<1> DEFINE K == Learned(r, d, p)
<1>6. cache' = [cache EXCEPT ![r] = K]
  BY <1>2 DEF Remember, Learned
<1> HIDE DEF C, d, K
<1>7. /\ p \in Name
      /\ p \in Given => \E i \in DOMAIN entries : entries[i].name = p /\ Day(entries[i].at) = d
      /\ K \in [Days -> Name \cup {Unread}]
      /\ \A e \in Days : K[e] \in Given =>
           \E i \in DOMAIN entries : entries[i].name = K[e] /\ Day(entries[i].at) = e
      /\ ~setting.lossy => \A e \in Days : K[e] # Unread =>
           \A i \in NewestOf(entries, e) : entries[i].name = K[e]
  BY <1>1, <1>2, <1>4, ComparedIs DEF K
<1>8. Remembers(r, "name", todo[r] \ {C}, del[r] \cup C, K)
  BY <1>1, <1>5, <1>6, HandlingFacts DEF Domains, Remembers, Unmoved, Actors
<1>9. \A q \in del[r] \cup C : Covered(q.at)
  <2>0. NameOf(r, C) \in NamesOf(PlaceOf(C)) /\ p \in Given
    BY <1>2, <1>3, <1>4, <1>7, NamedIs DEF Called, Given
  <2>1. PICK i \in DOMAIN entries : StandsFor(entries[i].name, PlaceOf(C)) /\ Day(entries[i].at) = d
    BY <1>2, <1>7, <2>0 DEF StandsFor
  <2>2. \A q \in C : Covered(q.at)
    <3>1. SUFFICES ASSUME NEW q \in C
                   PROVE  Covered(q.at)
      OBVIOUS
    <3>2. Day(q.at) \in Nat /\ d \in Nat
      <4>1. q.at \in Nat /\ q.at \in 0..MaxNow /\ StayOk(C)
        BY <1>3, <1>4, StoredRow DEF RoundOk, StayOk
      <4>2. \A e \in Days : e \in Nat
        BY DayMonotone, Constants DEF Days
      <4>3. QED
        BY <1>4, <4>1, <4>2, DayMonotone
    <3>3. QED
      BY <1>4, <2>1, <3>2 DEF Covered, StandsFor
  <2>3. QED
    BY <1>1, <2>2, HandlingFacts
<1>10. ~setting.lossy => ComparesOf(r)'
  <2>1. pc'[r] = "name" /\ cache'[r] = K /\ r \notin CheckIns
    BY <1>1, <1>8, HandlingFacts DEF Remembers
  <2>2. QED
    BY <1>5, <1>7, <2>1 DEF ComparesOf
<1>11. /\ InLock(r) /\ todo[r] \ {C} \in SUBSET SUBSET Row /\ del[r] \cup C \in SUBSET Row
       /\ \A D \in todo[r] \ {C} : StayOk(D)
       /\ \A D, E \in todo[r] \ {C} : D # E => D \cap E = {}
       /\ Undisturbed => \A D \in todo[r] \ {C}, i \in DOMAIN entries : D \cap entries[i].of = {}
  BY <1>1, <1>4, HandlingFacts
<1>12. MayRemember(r, "name", todo[r] \ {C}, del[r] \cup C, K)
  BY <1>7, <1>9, <1>10, <1>11 DEF MayRemember, Handling
<1>13. QED
  BY <1>5, <1>8, <1>12, RoundIInv

\* A stay with another name than the newest entry of its date.
LEMMA IsNewIInv ==
  ASSUME IInv, NEW r \in Rounds, IsNew(r)
  PROVE  IInv'
<1> DEFINE C == NextStay(r)
           d == DayOf(C)
<1>1. pc[r] = "last" /\ pc[r] \in Handling
  BY DEF IsNew, Handling
<1>2. PICK p \in Compared(r, d) : ~SameName(NameOf(r, C), p) /\ Remember(r, d, p)
  BY DEF IsNew
<1>3. RoundOk(r) /\ TypeOK /\ todo[r] # {}
  BY <1>1, Facts, HandlingFacts
<1>4. d \in Days
  BY <1>3, NextStayIs
<1>5. /\ pc' = [pc EXCEPT ![r] = "create"] /\ todo' = todo /\ del' = del /\ known' = known
      /\ UNCHANGED <<dbVars, userVars, holder, here>> /\ entries' = entries /\ setting' = setting
  BY DEF IsNew, Goto, dbVars, userVars
<1> DEFINE K == Learned(r, d, p)
<1>6. cache' = [cache EXCEPT ![r] = K]
  BY <1>2 DEF Remember, Learned
<1>7. C' = C /\ d' = d /\ NameOf(r, C)' = NameOf(r, C)
  BY <1>5 DEF NextStay, DayOf, PlaceOf, NameOf
<1> HIDE DEF C, d, K
<1>8. /\ ~setting.lossy => \A i \in NewestOf(entries, d) : entries[i].name = p
      /\ K \in [Days -> Name \cup {Unread}]
      /\ \A e \in Days : K[e] \in Given =>
           \E i \in DOMAIN entries : entries[i].name = K[e] /\ Day(entries[i].at) = e
      /\ ~setting.lossy => \A e \in Days : K[e] # Unread =>
           \A i \in NewestOf(entries, e) : entries[i].name = K[e]
  BY <1>1, <1>2, <1>4, ComparedIs DEF K
<1>9. Remembers(r, "create", todo[r], del[r], K)
  BY <1>1, <1>5, <1>6, HandlingFacts DEF Domains, Remembers, Unmoved, Actors
<1>10. ~setting.lossy => ComparesOf(r)'
  <2>1. pc'[r] = "create" /\ cache'[r] = K /\ r \notin CheckIns
    BY <1>1, <1>9, HandlingFacts DEF Remembers
  <2>2. QED
    BY <1>2, <1>5, <1>7, <1>8, <2>1 DEF ComparesOf, C, d
<1>11. MayRemember(r, "create", todo[r], del[r], K)
  BY <1>1, <1>3, <1>8, <1>10, HandlingFacts DEF MayRemember, Handling
<1>12. QED
  BY <1>5, <1>9, <1>11, RoundIInv

-----------------------------------------------------------------------------
(***************************************************************************)
(* Steps that create an entry                                              *)
(***************************************************************************)
\* An actor creates an entry.  While the lock holds it is alone with the entries;
\* the rows it records it is about to delete.
LEMMA EntryStep ==
  ASSUME IInv, UNCHANGED <<pending, uploads, stale, userVars, holder>>,
         NEW a \in Actors, InLock(a), InLock(a)',
         NEW e \in Entry, entries' = Append(entries, e), \A q \in e.of : Stored(q),
         Called(e.name, e.place),
         DOMAIN pc' = Actors, DOMAIN here' = CheckIns,
         DOMAIN todo' = Rounds, DOMAIN del' = Rounds, DOMAIN cache' = Rounds /\ DOMAIN known' = Rounds,
         \A b \in Actors \ {a} : Unmoved(b),
         TypesOf(a)',
         a \in Rounds => RoundOk(a)',
         a \in CheckIns => CheckInOk(a)',
         Undisturbed => \A i \in DOMAIN entries : e.of \cap entries[i].of = {},
         Undisturbed /\ a \in Rounds /\ pc'[a] \in Handling =>
           \A C \in todo'[a], i \in DOMAIN entries' : C \cap entries'[i].of = {},
         Undisturbed /\ a \in Rounds /\ pc[a] \in Handling =>
           pc'[a] \in Handling /\ del[a] \subseteq del'[a],
         e.of = {} \/ (a \in Rounds /\ pc'[a] \in Handling /\ e.of \subseteq del'[a]),
         ~setting.lossy => ComparesOf(a)'
  PROVE  IInv'
<1>1. /\ pending' = pending /\ uploads' = uploads /\ stale' = stale /\ holder' = holder
      /\ now' = now /\ vip' = vip /\ enabled' = enabled /\ setting' = setting
      /\ Rounds \subseteq Actors /\ CheckIns \subseteq Actors
      /\ TypeOK /\ RowsOk
  BY Facts DEF userVars
<1> DEFINE n == Len(entries) + 1
<1>2. /\ entries' \in Seq(Entry) /\ DOMAIN entries' = DOMAIN entries \cup {n}
      /\ n \notin DOMAIN entries /\ \A i \in DOMAIN entries : entries'[i] = entries[i]
      /\ entries'[n] = e
  BY <1>1, Appended
<1> HIDE DEF n
<1>3. Grows
  <2>1. now \in Nat /\ now <= now' /\ now' \in Nat
    BY <1>1, Constants DEF TypeOK
  <2>2. \A p \in Points : uploads[p] \in Nat /\ uploads[p] <= uploads'[p] /\ uploads'[p] \in Nat
    BY <1>1, Constants DEF TypeOK
  <2>3. QED
    BY <1>1, <1>2, <2>1, <2>2 DEF Grows
<1>4. ASSUME NEW b \in Actors \ {a}, ~setting.lossy
      PROVE  ~InLock(b)
  <2>1. holder = a
    BY <1>4, Facts
  <2>2. QED
    BY <1>4, <2>1, Facts
<1>5. \A b \in Actors : TypesOf(b)'
  <2>1. SUFFICES ASSUME NEW b \in Actors \ {a}
                 PROVE  TypesOf(b)'
    OBVIOUS
  <2>2. TypesOf(b)
    BY Facts DEF Actors
  <2>3. QED
    BY <1>1, <2>2 DEF TypesOf, Unmoved, CommonAddresses
<1>6. TypeOK'
  <2>1. \A i \in DOMAIN entries' : entries'[i] \in Entry
    BY <1>2
  <2>2. QED
    BY <1>1, <1>5, <2>1 DEF TypeOK, TypesOf
<1>7. RowsOk'
  <2>1. \A q : Stored(q)' <=> Stored(q)
    BY <1>1 DEF Stored
  <2>2. \A i \in DOMAIN entries' : Called(entries'[i].name, entries'[i].place)
    BY <1>1, <1>2 DEF RowsOk
  <2>3. /\ entries' \in Seq(Entry) /\ \A q \in pending' : Stored(q)'
        /\ \A i \in DOMAIN entries' : \A q \in entries'[i].of : Stored(q)'
    BY <1>1, <1>2, <2>1 DEF RowsOk
  <2>4. QED
    BY <1>1, <2>2, <2>3 DEF RowsOk, Called, NamesOf
<1>8. ASSUME NEW r \in Rounds
      PROVE  RoundOk(r)'
  <2>1. CASE r = a
    BY <2>1
  <2>2. CASE r # a
    <3>1. RoundOk(r) /\ Unmoved(r)
      BY <1>1, <2>2, Facts
    <3>2. /\ \A C : StayOk(C) => StayOk(C)'
          /\ \A t : Covered(t) => Covered(t)'
      BY <1>1, <1>3, Persist
    <3>3. \A d \in Days : cache'[r][d] \in Given =>
            \E i \in DOMAIN entries' : entries'[i].name = cache'[r][d] /\ Day(entries'[i].at) = d
      <4>1. cache'[r] = cache[r]
        BY <3>1 DEF Unmoved
      <4>2. \A d \in Days : cache[r][d] \in Given =>
              \E i \in DOMAIN entries : entries[i].name = cache[r][d] /\ Day(entries[i].at) = d
        BY <3>1 DEF RoundOk
      <4>3. QED
        BY <1>2, <4>1, <4>2
    <3>4. QED
      BY <3>1, <3>2, <3>3 DEF RoundOk, Unmoved
  <2>3. QED
    BY <2>1, <2>2
<1>9. \A c \in CheckIns : CheckInOk(c)'
  BY <1>1, Facts DEF CheckInOk, Unmoved
<1>10. NothingDropped'
  <2>1. SUFFICES ASSUME NEW p \in Points, uploads[p] > 0,
                        ~ \E q \in pending : q.at = p, p \notin stale
                 PROVE  \E i \in DOMAIN entries' : StandsFor(entries'[i].name, Place[p]) /\ Day(entries'[i].at) >= Day(p)
    BY <1>1 DEF NothingDropped, StandsFor, NamesOf
  <2>2. PICK i \in DOMAIN entries : StandsFor(entries[i].name, Place[p]) /\ Day(entries[i].at) >= Day(p)
    BY <2>1 DEF IInv, NothingDropped
  <2>3. QED
    BY <1>2, <2>2
<1>11. Exclusive'
  <2>1. \A b \in Actors \ {a} : InLock(b)' <=> InLock(b)
    BY DEF InLock, Unmoved
  <2>2. QED
    BY <1>1, <2>1, Facts DEF Exclusive
<1>12. Undisturbed' <=> Undisturbed
  BY <1>1 DEF Undisturbed
<1>13. ASSUME Undisturbed
       PROVE  OncePending' /\ RecordedOnce'
  <2>1. OncePending /\ RecordedOnce /\ ~setting.lossy
    BY <1>13 DEF IInv, OnceUndisturbed, Undisturbed
  <2>2. ASSUME NEW b \in Actors \ {a}
        PROVE  pc'[b] \notin Handling
    <3>1. ~InLock(b)
      BY <1>4, <2>1
    <3>2. QED
      BY <3>1 DEF InLock, Unmoved, Handling
  <2>3. \A r \in Rounds : pc'[r] \in Handling =>
          \A C \in todo'[r], i \in DOMAIN entries' : C \cap entries'[i].of = {}
    BY <1>1, <1>13, <2>2
  <2>4. ASSUME NEW q \in pending', NEW i \in DOMAIN entries', q \in entries'[i].of
        PROVE  \E r \in Rounds : pc'[r] \in Handling /\ q \in del'[r]
    <3>1. CASE i = n
      BY <1>2, <2>4, <3>1
    <3>2. CASE i # n
      <4>1. q \in pending /\ i \in DOMAIN entries /\ q \in entries[i].of
        BY <1>1, <1>2, <2>4, <3>2
      <4>2. PICK r \in Rounds : pc[r] \in Handling /\ q \in del[r]
        BY <2>1, <4>1 DEF OncePending
      <4>3. r = a
        BY <1>1, <2>1, <4>2, Facts DEF InLock, Handling
      <4>4. QED
        BY <1>13, <4>2, <4>3
    <3>3. QED
      BY <3>1, <3>2
  <2>5. RecordedOnce'
    <3>1. SUFFICES ASSUME NEW i \in DOMAIN entries', NEW j \in DOMAIN entries', i # j
                   PROVE  entries'[i].of \cap entries'[j].of = {}
      BY DEF RecordedOnce
    <3>2. \A k \in DOMAIN entries : e.of \cap entries[k].of = {}
      BY <1>13
    <3>3. QED
      BY <1>2, <2>1, <3>1, <3>2 DEF RecordedOnce
  <2>6. QED
    BY <2>3, <2>4, <2>5 DEF OncePending
<1>14. ASSUME ~setting.lossy
       PROVE  Compares'
  <2>1. ASSUME NEW b \in Actors \ {a}
        PROVE  ComparesOf(b)'
    <3>1. ~InLock(b)
      BY <1>4, <1>14
    <3>2. QED
      BY <3>1 DEF InLock, Unmoved, Handling, ComparesOf
  <2>2. \A b \in Actors : ComparesOf(b)'
    BY <1>14, <2>1
  <2>3. ASSUME NEW c \in CheckIns, pc'[c] = "insert"
        PROVE  \A i \in NewestOf(entries, Day(here[c].at))' : ~SameName(here'[c].name, entries'[i].name)
    <3>1. ComparesOf(c)'
      BY <1>1, <2>2
    <3>2. QED
      BY <2>3, <3>1 DEF ComparesOf
  <2>4. ASSUME NEW r \in Rounds, pc'[r] = "create"
        PROVE  \A i \in NewestOf(entries, DayOf(NextStay(r)))' : ~SameName(NameOf(r, NextStay(r))', entries'[i].name)
    <3>1. ComparesOf(r)'
      BY <1>1, <2>2
    <3>2. QED
      BY <2>4, <3>1 DEF ComparesOf
  <2>5. ASSUME NEW r \in Rounds, NEW d \in Days, pc'[r] \in Handling, cache'[r][d] # Unread
        PROVE  \A i \in NewestOf(entries, d)' : entries'[i].name = cache'[r][d]
    <3>1. ComparesOf(r)'
      BY <1>1, <2>2
    <3>2. QED
      BY <2>5, <3>1 DEF ComparesOf
  <2>6. QED
    BY <2>3, <2>4, <2>5 DEF Compares
<1>15. Domains'
  BY DEF Domains
<1>16. QED
  BY <1>1, <1>6, <1>7, <1>8, <1>9, <1>10, <1>11, <1>12, <1>13, <1>14, <1>15 DEF IInv, OnceUndisturbed

\* The entry of a stay: it covers the points of the stay, and is the newest of its date.
LEMMA CreateEntryIInv ==
  ASSUME IInv, NEW r \in Rounds, CreateEntry(r)
  PROVE  IInv'
<1> DEFINE C == NextStay(r)
           d == DayOf(C)
           e == [place |-> PlaceOf(C), name |-> NameOf(r, C), at |-> Newest(C).at, of |-> C]
           K == Learned(r, d, NameOf(r, C))
           n == Len(entries) + 1
<1>1. pc[r] = "create" /\ pc[r] \in Handling
  BY DEF CreateEntry, Handling
<1>2. /\ RoundOk(r) /\ TypeOK /\ RowsOk /\ Domains /\ todo[r] # {}
      /\ r \in Actors /\ r \notin CheckIns /\ InLock(r)
      /\ cache[r] \in [Days -> Name \cup {Unread}]
      /\ todo[r] \in SUBSET SUBSET Row /\ del[r] \in SUBSET Row /\ known[r] \in CommonAddresses
  BY <1>1, Facts, HandlingFacts
<1>3. /\ C \in todo[r] /\ StayOk(C) /\ C \subseteq Row /\ d \in Days /\ PlaceOf(C) \in Places
      /\ Newest(C).at \in 0..MaxNow
      /\ \A q \in C : Place[q.at] = PlaceOf(C) /\ Day(q.at) <= d
  BY <1>2, NextStayIs
<1>4. /\ entries' = Append(entries, e)
      /\ pc' = [pc EXCEPT ![r] = "name"] /\ todo' = [todo EXCEPT ![r] = todo[r] \ {C}]
      /\ del' = [del EXCEPT ![r] = del[r] \cup C] /\ cache' = [cache EXCEPT ![r] = K]
      /\ UNCHANGED <<pending, uploads, stale, userVars, holder>> /\ here' = here
      /\ now' = now /\ setting' = setting /\ known' = known
  BY DEF CreateEntry, Goto, Remember, Learned, userVars
<1>5. /\ e \in Entry /\ e.place = PlaceOf(C) /\ e.name = NameOf(r, C) /\ e.of = C /\ Day(e.at) = d
      /\ Called(e.name, e.place)
  BY <1>2, <1>3, NamedIs DEF Entry, DayOf, Called
<1>6. /\ K \in [Days -> Name \cup {Unread}] /\ K[d] = e.name
      /\ \A b \in Days : b # d => K[b] = cache[r][b]
  BY <1>2, <1>3, <1>5 DEF Learned, Called
<1> HIDE DEF C, d, e, K
<1>7. /\ DOMAIN entries' = DOMAIN entries \cup {n} /\ n \notin DOMAIN entries
      /\ \A i \in DOMAIN entries : entries'[i] = entries[i]
      /\ entries'[n] = e
  BY <1>2, <1>4, <1>5, Appended
<1> HIDE DEF n
<1>8. Remembers(r, "name", todo[r] \ {C}, del[r] \cup C, K)
  BY <1>2, <1>4 DEF Domains, Remembers, Unmoved, Actors
<1>9. Grows
  <2>1. now \in Nat /\ now <= now' /\ now' \in Nat
    BY <1>2, <1>4, Constants DEF TypeOK
  <2>2. \A p \in Points : uploads[p] \in Nat /\ uploads[p] <= uploads'[p] /\ uploads'[p] \in Nat
    BY <1>2, <1>4, Constants DEF TypeOK
  <2>3. QED
    BY <1>4, <1>7, <2>1, <2>2 DEF Grows
<1>10. TypesOf(r)'
  BY <1>2, <1>3, <1>4, <1>6, <1>8 DEF TypesOf, Remembers, CommonAddresses
<1>11. RoundOk(r)'
  <2>1. /\ \A D : StayOk(D) => StayOk(D)'
        /\ \A t : Covered(t) => Covered(t)'
    BY <1>2, <1>9, Persist
  <2>2. \A q \in C : Covered(q.at)'
    <3>1. SUFFICES ASSUME NEW q \in C
                   PROVE  Covered(q.at)'
      OBVIOUS
    <3>2. q.at \in Nat /\ Day(q.at) \in Nat
      BY <1>2, <1>3, StoredRow, DayMonotone DEF StayOk
    <3>3. d \in Nat
      BY <1>3, DayMonotone, Constants DEF Days
    <3>4. Day(entries'[n].at) >= Day(q.at) /\ entries'[n].name = e.name /\ e.place = Place[q.at]
      BY <1>3, <1>5, <1>7, <3>2, <3>3
    <3>5. StandsFor(entries'[n].name, Place[q.at])
      BY <1>5, <3>4, CalledStands
    <3>6. QED
      BY <1>4, <1>7, <3>4, <3>5 DEF Covered, StandsFor, NamesOf
  <2>3. \A q \in del'[r] : Covered(q.at)'
    BY <1>2, <1>8, <2>1, <2>2 DEF Remembers, RoundOk
  <2>4. \A b \in Days : cache'[r][b] \in Given =>
          \E i \in DOMAIN entries' : entries'[i].name = cache'[r][b] /\ Day(entries'[i].at) = b
    BY <1>2, <1>5, <1>6, <1>7, <1>8 DEF Remembers, RoundOk
  <2>5. /\ \A D \in todo'[r] : StayOk(D)'
        /\ \A D, E \in todo'[r] : D # E => D \cap E = {}
        /\ pc'[r] \notin {"last", "create"}
    BY <1>2, <1>8, <2>1 DEF Remembers, RoundOk
  <2>6. QED
    BY <2>3, <2>4, <2>5 DEF RoundOk
<1>12. ASSUME Undisturbed
       PROVE  /\ \A i \in DOMAIN entries : C \cap entries[i].of = {}
              /\ \A D \in todo'[r], i \in DOMAIN entries' : D \cap entries'[i].of = {}
  <2>1. \A D \in todo[r], i \in DOMAIN entries : D \cap entries[i].of = {}
    BY <1>1, <1>12, HandlingFacts
  <2>2. \A D \in todo[r] : D # C => D \cap C = {}
    BY <1>1, <1>3, HandlingFacts
  <2>3. todo'[r] = todo[r] \ {C}
    BY <1>8 DEF Remembers
  <2>4. QED
    BY <1>3, <1>5, <1>7, <2>1, <2>2, <2>3
<1>13. ASSUME ~setting.lossy
       PROVE  ComparesOf(r)'
  <2>0. \A b : /\ b = d => \A i \in NewestOf(entries', b) : entries'[i] = e
               /\ b # d => \A i \in NewestOf(entries', b) :
                            i \in NewestOf(entries, b) /\ entries'[i] = entries[i]
    <3>1. RowsOk /\ e \in Entry /\ entries' = Append(entries, e) /\ d = Day(e.at)
      BY <1>2, <1>4, <1>5
    <3>2. QED
      BY <3>1, NewestAfter
  <2>1. ASSUME NEW b \in Days, K[b] # Unread, NEW i \in NewestOf(entries', b)
        PROVE  entries'[i].name = K[b]
    <3>1. CASE b = d
      <4>1. entries'[i] = e
        BY <2>0, <2>1, <3>1
      <4>2. QED
        BY <1>5, <1>6, <3>1, <4>1
    <3>2. CASE b # d
      <4>1. i \in NewestOf(entries, b) /\ entries'[i] = entries[i]
        BY <2>0, <2>1, <3>2
      <4>2. ComparesOf(r)
        BY <1>2, <1>13, Facts
      <4>3. QED
        BY <1>1, <1>2, <1>6, <2>1, <3>2, <4>1, <4>2 DEF ComparesOf
    <3>3. QED
      BY <3>1, <3>2
  <2>2. pc'[r] = "name" /\ cache'[r] = K
    BY <1>8 DEF Remembers
  <2>3. QED
    BY <1>2, <2>1, <2>2 DEF ComparesOf
<1>14. /\ pc'[r] \in Handling /\ del[r] \subseteq del'[r] /\ C \subseteq del'[r] /\ InLock(r)'
       /\ DOMAIN pc' = Actors /\ DOMAIN here' = CheckIns
       /\ DOMAIN todo' = Rounds /\ DOMAIN del' = Rounds /\ DOMAIN cache' = Rounds /\ DOMAIN known' = Rounds
       /\ \A b \in Actors \ {r} : Unmoved(b)
  BY <1>8 DEF Remembers, Handling, InLock
<1>15. (\A q \in C : Stored(q)) /\ Called(e.name, e.place)
  BY <1>3, <1>5 DEF StayOk
<1>16. QED
  BY <1>2, <1>4, <1>5, <1>10, <1>11, <1>12, <1>13, <1>14, <1>15, EntryStep

\* The entry of a check-in records no stored point.
LEMMA InsertIInv ==
  ASSUME IInv, NEW c \in CheckIns, Insert(c)
  PROVE  IInv'
<1> DEFINE e == [place |-> here[c].place, name |-> here[c].name, at |-> here[c].at, of |-> {}]
<1>1. /\ pc[c] = "insert" /\ entries' = Append(entries, e) /\ pc' = [pc EXCEPT ![c] = "unlock"]
      /\ UNCHANGED <<pending, uploads, stale, userVars, holder>>
      /\ todo' = todo /\ del' = del /\ cache' = cache /\ known' = known /\ here' = here
  BY DEF Insert, Goto, roundVars
<1>2. /\ Domains /\ TypeOK /\ RowsOk /\ c \in Actors /\ c \notin Rounds
      /\ here[c].place \in Places /\ here[c].at \in 0..MaxNow
      /\ here[c].name = Geocoded(here[c].place) /\ Called(here[c].name, here[c].place)
  BY <1>1, Facts, Constants DEF CheckInOk, TypesOf, Called, NamesOf
<1>3. /\ DOMAIN pc' = Actors /\ DOMAIN here' = CheckIns
      /\ DOMAIN todo' = Rounds /\ DOMAIN del' = Rounds /\ DOMAIN cache' = Rounds /\ DOMAIN known' = Rounds
      /\ pc'[c] = "unlock"
      /\ \A b \in Actors \ {c} : Unmoved(b)
  BY <1>1, <1>2 DEF Domains, Unmoved
<1>4. e.of = {} /\ e.at = here[c].at /\ e.name = here[c].name /\ e.place = here[c].place
  OBVIOUS
<1>11. e \in Entry /\ Called(e.name, e.place)
  BY <1>2 DEF Entry, Called
<1> HIDE DEF e
<1>5. InLock(c) /\ InLock(c)' /\ CheckInOk(c)' /\ ComparesOf(c)' /\ TypesOf(c)'
  BY <1>1, <1>2, <1>3, Constants DEF InLock, CheckInOk, ComparesOf, TypesOf, Called
<1>6. /\ \A q \in e.of : Stored(q)
      /\ \A i \in DOMAIN entries : e.of \cap entries[i].of = {}
  BY <1>4
<1>7. /\ UNCHANGED <<pending, uploads, stale, userVars, holder>> /\ c \in Actors /\ c \notin Rounds
      /\ entries' = Append(entries, e) /\ e \in Entry /\ e.of = {} /\ Called(e.name, e.place)
  BY <1>1, <1>2, <1>4, <1>11
<1>8. QED
  BY <1>3, <1>5, <1>6, <1>7, EntryStep

-----------------------------------------------------------------------------
(***************************************************************************)
(* The deletion of the points, and the steps of no actor                   *)
(***************************************************************************)
\* What a round deletes is covered by an entry.
LEMMA DeleteTrajectoriesIInv ==
  ASSUME IInv, NEW r \in Rounds, DeleteTrajectories(r)
  PROVE  IInv'
<1>1. /\ pc[r] = "name" /\ pc[r] \in Handling /\ pc' = [pc EXCEPT ![r] = "unlock"]
      /\ pending' = pending \ del[r]
      /\ UNCHANGED <<uploads, stale, entries, now, vip, enabled, setting, holder, todo, del, known, cache, here>>
  BY DEF DeleteTrajectories, Handled, Goto, Handling, userVars, roundVars
<1>2. /\ Domains /\ TypeOK /\ RowsOk /\ r \in Actors /\ r \notin CheckIns /\ InLock(r)
      /\ Rounds \subseteq Actors /\ CheckIns \subseteq Actors
      /\ \A q \in del[r] : Covered(q.at)
  BY <1>1, HandlingFacts, Facts
<1>3. pc'[r] = "unlock" /\ \A b \in Actors : b # r => pc'[b] = pc[b]
  BY <1>1, <1>2 DEF Domains
<1>4. TypeOK' /\ Domains'
  <2>1. pending' \subseteq pending
    BY <1>1
  <2>2. TypeOK'
    BY <1>1, <1>2, <1>3, <2>1 DEF TypeOK, CommonAddresses
  <2>3. Domains'
    BY <1>1, <1>2 DEF Domains
  <2>4. QED
    BY <2>2, <2>3
<1>5. RowsOk'
  <2>1. \A q : Stored(q)' <=> Stored(q)
    BY <1>1 DEF Stored
  <2>2. QED
    BY <1>1, <1>2, <2>1 DEF RowsOk, Called, NamesOf
<1>6. ASSUME NEW w \in Rounds
      PROVE  RoundOk(w)'
  <2>1. RoundOk(w)
    BY Facts
  <2>2. /\ \A C : StayOk(C) => StayOk(C)'
        /\ \A t : Covered(t) => Covered(t)'
    BY <1>1, <1>2, Steady, Persist
  <2>3. pc'[w] \in {"last", "create"} => pc[w] \in {"last", "create"}
    BY <1>2, <1>3
  <2>4. QED
    BY <1>1, <2>1, <2>2, <2>3 DEF RoundOk
<1>7. \A c \in CheckIns : CheckInOk(c)'
  BY <1>1, <1>2, <1>3, Facts DEF CheckInOk
<1>8. NothingDropped'
  <2>1. SUFFICES ASSUME NEW p \in Points, uploads[p] > 0, p \notin stale,
                        ~ \E q \in pending' : q.at = p
                 PROVE  \E i \in DOMAIN entries : StandsFor(entries[i].name, Place[p]) /\ Day(entries[i].at) >= Day(p)
    BY <1>1 DEF NothingDropped, StandsFor, NamesOf
  <2>2. CASE \E q \in pending : q.at = p
    <3>1. PICK q \in pending : q.at = p
      BY <2>2
    <3>2. q \in del[r]
      BY <1>1, <2>1, <3>1
    <3>3. Covered(p)
      BY <1>2, <3>1, <3>2
    <3>4. QED
      BY <3>3 DEF Covered
  <2>3. CASE ~ \E q \in pending : q.at = p
    BY <2>1, <2>3 DEF IInv, NothingDropped
  <2>4. QED
    BY <2>2, <2>3
<1>9. Exclusive'
  <2>1. \A b \in Actors : InLock(b)' <=> InLock(b)
    BY <1>1, <1>3 DEF InLock
  <2>2. QED
    BY <1>1, <2>1 DEF IInv, Exclusive
<1>10. ASSUME Undisturbed
       PROVE  OncePending'
  <2>1. OncePending
    BY <1>10 DEF IInv
  <2>2. \A w \in Rounds : pc'[w] \in Handling => pc[w] \in Handling
    BY <1>1, <1>2, <1>3
  <2>3. ASSUME NEW q \in pending', NEW i \in DOMAIN entries, q \in entries[i].of
        PROVE  \E w \in Rounds : pc'[w] \in Handling /\ q \in del[w]
    <3>1. q \in pending /\ q \notin del[r]
      BY <1>1, <2>3
    <3>2. PICK w \in Rounds : pc[w] \in Handling /\ q \in del[w]
      BY <2>1, <2>3, <3>1 DEF OncePending
    <3>3. QED
      BY <1>2, <1>3, <3>1, <3>2
  <2>4. QED
    BY <1>1, <2>1, <2>2, <2>3 DEF OncePending
<1>11. OnceUndisturbed' /\ (Undisturbed' <=> Undisturbed)
  BY <1>1 DEF IInv, OnceUndisturbed, RecordedOnce, Undisturbed
<1>12. ASSUME ~setting.lossy
       PROVE  Compares'
  <2>1. \A b \in Actors : ComparesOf(b)
    BY <1>12, ComparesOfAll DEF IInv
  <2>2. ASSUME NEW b \in Actors
        PROVE  ComparesOf(b)'
    <3>1. CASE b = r
      BY <1>2, <1>3, <3>1 DEF ComparesOf, Handling
    <3>2. CASE b # r
      <4>1. Unmoved(b)
        BY <1>1, <1>3, <3>2 DEF Unmoved
      <4>2. QED
        BY <1>1, <2>1, <4>1, UnmovedCompares
    <3>3. QED
      BY <3>1, <3>2
  <2>3. (\A c \in CheckIns : ComparesOf(c))' /\ (\A w \in Rounds : ComparesOf(w))'
    BY <1>2, <2>2
  <2>4. QED
    BY <2>3 DEF Compares, ComparesOf
<1>13. QED
  BY <1>1, <1>4, <1>5, <1>6, <1>7, <1>8, <1>9, <1>10, <1>11, <1>12 DEF IInv

\* A step of the user, of the device, of the clean-up or of the clock: it adds no
\* row that was recorded before.
LEMMA OutsideStep ==
  ASSUME IInv, UNCHANGED <<entries, setting, pc, roundVars, here>>,
         Grows,
         pending' \subseteq Row, \A p, q \in pending' : p.at = q.at => p = q,
         uploads' \in [Points -> 0..MaxUploads], stale' \subseteq Points,
         now' \in 0..MaxNow, vip' \in BOOLEAN, enabled' \in BOOLEAN,
         holder' \in Actors \cup {None}, setting.lossy \/ UNCHANGED holder,
         \A q \in pending' : Stored(q)',
         \A q \in pending' \ pending, i \in DOMAIN entries : q \notin entries[i].of,
         NothingDropped'
  PROVE  IInv'
<1>1. /\ entries' = entries /\ setting' = setting /\ pc' = pc /\ here' = here
      /\ todo' = todo /\ del' = del /\ cache' = cache /\ known' = known
      /\ Rounds \subseteq Actors /\ CheckIns \subseteq Actors
      /\ TypeOK /\ RowsOk /\ Domains
  BY Facts DEF roundVars
<1>2. TypeOK' /\ Domains'
  BY <1>1 DEF TypeOK, Domains, CommonAddresses
<1>3. /\ \A q : Stored(q) => Stored(q)'
      /\ \A C : StayOk(C) => StayOk(C)'
      /\ \A t : Covered(t) => Covered(t)'
  BY <1>1, Persist
<1>4. RowsOk'
  BY <1>1, <1>3 DEF RowsOk, Called, NamesOf
<1>5. ASSUME NEW r \in Rounds
      PROVE  RoundOk(r)'
  <2>1. RoundOk(r)
    BY Facts
  <2>2. QED
    BY <1>1, <1>3, <2>1 DEF RoundOk
<1>6. \A c \in CheckIns : CheckInOk(c)'
  BY <1>1, Facts DEF CheckInOk
<1>7. Exclusive'
  BY <1>1 DEF IInv, Exclusive, InLock
<1>8. ASSUME Undisturbed
      PROVE  OncePending'
  <2>1. OncePending
    BY <1>8 DEF IInv
  <2>2. QED
    BY <1>1, <2>1 DEF OncePending
<1>9. OnceUndisturbed' /\ (Undisturbed' <=> Undisturbed)
  BY <1>1 DEF IInv, OnceUndisturbed, RecordedOnce, Undisturbed
<1>10. ASSUME ~setting.lossy
       PROVE  Compares'
  <2>1. \A b \in Actors : ComparesOf(b)
    BY <1>10, ComparesOfAll DEF IInv
  <2>2. \A b \in Actors : ComparesOf(b)'
    BY <1>1, <2>1, UnmovedCompares DEF Unmoved
  <2>3. (\A c \in CheckIns : ComparesOf(c))' /\ (\A w \in Rounds : ComparesOf(w))'
    BY <1>1, <2>2
  <2>4. QED
    BY <2>3 DEF Compares, ComparesOf
<1>11. QED
  BY <1>1, <1>2, <1>4, <1>5, <1>6, <1>7, <1>8, <1>9, <1>10 DEF IInv

\* A batch: every row it adds has a number of its own.
LEMMA UploadTrajectoriesIInv ==
  ASSUME IInv, NEW S \in SUBSET Points, UploadTrajectories(S)
  PROVE  IInv'
<1> DEFINE row(p) == [at |-> p, id |-> uploads[p] + 1]
           N == New(S)
<1>1. /\ pending' = pending \cup {row(p) : p \in N}
      /\ uploads' = [p \in Points |-> IF p \in N THEN uploads[p] + 1 ELSE uploads[p]]
      /\ UNCHANGED <<stale, entries, now, vip, enabled, setting, holder, pc, roundVars, here>>
      /\ \A p \in S : p <= now
  BY DEF UploadTrajectories, userVars
<1>2. /\ TypeOK /\ RowsOk /\ holder \in Actors \cup {None}
      /\ pending \subseteq Row /\ \A p, q \in pending : p.at = q.at => p = q
      /\ uploads \in [Points -> 0..MaxUploads] /\ stale \subseteq Points
      /\ now \in 0..MaxNow /\ vip \in BOOLEAN /\ enabled \in BOOLEAN
      /\ MaxUploads \in Nat \ {0} /\ MaxNow \in Nat
  BY Facts, Constants DEF TypeOK
<1>3. N \subseteq S /\ N \subseteq Points /\ \A p \in N, q \in pending : q.at # p
  BY DEF New
<1>4. ASSUME NEW p \in N
      PROVE  /\ uploads[p] \in 0..MaxUploads /\ uploads[p] + 1 \in 1..MaxUploads
             /\ row(p) \in Row /\ row(p).at = p /\ row(p).id = uploads[p] + 1
  <2>1. uploads[p] < MaxUploads
    <3>1. uploads[p] < (IF setting.repeats THEN MaxUploads ELSE 1)
      BY DEF UploadTrajectories
    <3>2. uploads[p] \in Nat
      BY <1>2, <1>3
    <3>3. QED
      BY <1>2, <3>1, <3>2
  <2>2. QED
    BY <1>2, <1>3, <2>1 DEF Row
<1> HIDE DEF row, N
<1>5. \A q \in pending' \ pending : \E p \in N : q = row(p)
  BY <1>1
<1>6. pending' \subseteq Row /\ \A p, q \in pending' : p.at = q.at => p = q
  <2>1. pending' \subseteq Row
    BY <1>1, <1>2, <1>4
  <2>2. \A p, q \in pending' : p.at = q.at => p = q
    BY <1>1, <1>2, <1>3, <1>4
  <2>3. QED
    BY <2>1, <2>2
<1>7. uploads' \in [Points -> 0..MaxUploads] /\ \A p \in Points : uploads[p] <= uploads'[p]
  <2>1. \A p \in Points : (IF p \in N THEN uploads[p] + 1 ELSE uploads[p]) \in 0..MaxUploads
    BY <1>2, <1>4
  <2>2. uploads' \in [Points -> 0..MaxUploads]
    BY <1>1, <2>1
  <2>3. \A p \in Points : uploads[p] <= uploads'[p]
    BY <1>1, <1>2
  <2>4. QED
    BY <2>2, <2>3
<1>8. Grows
  <2>1. now \in Nat /\ now' = now /\ entries' = entries /\ setting' = setting
    BY <1>1, <1>2
  <2>2. \A p \in Points : uploads'[p] \in Nat
    BY <1>2, <1>7
  <2>3. QED
    BY <1>7, <2>1, <2>2 DEF Grows
<1>9. ASSUME NEW q \in pending'
      PROVE  Stored(q)'
  <2>1. CASE q \in pending
    <3>1. Stored(q)
      BY <1>2, <2>1 DEF RowsOk
    <3>2. QED
      BY <1>2, <1>8, <3>1, Persist
  <2>2. CASE q \notin pending
    <3>1. PICK p \in N : q = row(p)
      BY <1>5, <2>2
    <3>2. uploads'[p] = uploads[p] + 1 /\ p \in Points /\ p \in S
      BY <1>1, <1>3, <3>1
    <3>3. q \in Row /\ q.at <= now' /\ q.id <= uploads'[q.at]
      BY <1>1, <1>2, <1>4, <3>1, <3>2
    <3>4. QED
      BY <3>3 DEF Stored
  <2>3. QED
    BY <2>1, <2>2
<1>10. ASSUME NEW q \in pending' \ pending, NEW i \in DOMAIN entries
       PROVE  q \notin entries[i].of
  <2>1. PICK p \in N : q = row(p)
    BY <1>5
  <2>2. q.at = p /\ q.id = uploads[p] + 1 /\ uploads[p] \in 0..MaxUploads
    BY <1>4, <2>1
  <2>3. ~(q.id <= uploads[q.at])
    BY <1>2, <2>2
  <2>4. QED
    BY <1>2, <2>3 DEF RowsOk, Stored
<1>11. NothingDropped'
  <2>1. SUFFICES ASSUME NEW p \in Points, uploads'[p] > 0, p \notin stale,
                        ~ \E q \in pending' : q.at = p
                 PROVE  \E i \in DOMAIN entries : StandsFor(entries[i].name, Place[p]) /\ Day(entries[i].at) >= Day(p)
    BY <1>1 DEF NothingDropped, StandsFor, NamesOf
  <2>2. p \notin N
    BY <1>1, <1>4, <2>1
  <2>3. uploads[p] > 0 /\ ~ \E q \in pending : q.at = p
    BY <1>1, <2>1, <2>2
  <2>4. QED
    BY <2>1, <2>3 DEF IInv, NothingDropped
<1>12. QED
  BY <1>1, <1>2, <1>6, <1>7, <1>8, <1>9, <1>10, <1>11, OutsideStep

\* The clean-up removes a row, and the point counts as removed.
LEMMA DeleteStaleIInv ==
  ASSUME IInv, NEW q \in pending, DeleteStale(q)
  PROVE  IInv'
<1>1. /\ pending' = pending \ {q} /\ stale' = stale \cup {q.at}
      /\ UNCHANGED <<uploads, entries, now, vip, enabled, setting, holder, pc, roundVars, here>>
  BY DEF DeleteStale, userVars
<1>2. /\ TypeOK /\ RowsOk /\ holder \in Actors \cup {None}
      /\ pending \subseteq Row /\ \A p, s \in pending : p.at = s.at => p = s
      /\ uploads \in [Points -> 0..MaxUploads] /\ stale \subseteq Points
      /\ now \in 0..MaxNow /\ vip \in BOOLEAN /\ enabled \in BOOLEAN
      /\ q.at \in Points
  BY Facts, StoredRow DEF TypeOK, RowsOk
<1>3. Grows
  BY <1>1, <1>2, Steady
<1>4. \A s \in pending' : Stored(s)'
  BY <1>1, <1>2 DEF RowsOk, Stored
<1>5. NothingDropped'
  BY <1>1 DEF IInv, NothingDropped, StandsFor, NamesOf
<1>6. QED
  BY <1>1, <1>2, <1>3, <1>4, <1>5, OutsideStep

\* The switch, the VIP, the clock and the connection that holds the lock.
LEMMA SwitchIInv ==
  ASSUME IInv, UNCHANGED <<dbVars, setting, pc, roundVars, here>>,
         now' \in 0..MaxNow, now <= now', vip' \in BOOLEAN, enabled' \in BOOLEAN,
         holder' \in Actors \cup {None}, setting.lossy \/ UNCHANGED holder
  PROVE  IInv'
<1>1. /\ pending' = pending /\ uploads' = uploads /\ stale' = stale /\ entries' = entries
      /\ setting' = setting /\ TypeOK /\ RowsOk /\ MaxNow \in Nat
  BY Facts, Constants DEF dbVars
<1>2. Grows
  BY <1>1, Constants DEF Grows, TypeOK
<1>3. \A q \in pending' : Stored(q)'
  BY <1>1, <1>2, Persist DEF RowsOk
<1>4. NothingDropped'
  BY <1>1 DEF IInv, NothingDropped, StandsFor, NamesOf
<1>5. /\ pending' \subseteq Row /\ \A p, q \in pending' : p.at = q.at => p = q
      /\ uploads' \in [Points -> 0..MaxUploads] /\ stale' \subseteq Points
      /\ \A q \in pending' \ pending, i \in DOMAIN entries : q \notin entries[i].of
  BY <1>1 DEF TypeOK
<1>6. QED
  BY <1>1, <1>2, <1>3, <1>4, <1>5, OutsideStep

LEMMA OutsideIInv ==
  ASSUME IInv,
         (\E on \in BOOLEAN : UpdateConfig(on)) \/ VIPChanges \/ Tick \/ LoseLock
  PROVE  IInv'
<1>1. /\ now \in 0..MaxNow /\ vip \in BOOLEAN /\ enabled \in BOOLEAN
      /\ holder \in Actors \cup {None} /\ MaxNow \in Nat
  BY Constants DEF IInv, TypeOK
<1>2. CASE \E on \in BOOLEAN : UpdateConfig(on)
  <2>1. PICK on \in BOOLEAN : UpdateConfig(on)
    BY <1>2
  <2>2. QED
    BY <1>1, <2>1, SwitchIInv DEF UpdateConfig
<1>3. CASE VIPChanges
  BY <1>1, <1>3, SwitchIInv DEF VIPChanges
<1>4. CASE Tick
  BY <1>1, <1>4, SwitchIInv DEF Tick
<1>5. CASE LoseLock
  BY <1>1, <1>5, SwitchIInv DEF LoseLock, userVars
<1>6. QED
  BY <1>2, <1>3, <1>4, <1>5

-----------------------------------------------------------------------------
(***************************************************************************)
(* The invariant is inductive                                              *)
(***************************************************************************)
LEMMA InitIInv == Init => IInv
<1> SUFFICES ASSUME Init
             PROVE  IInv
  OBVIOUS
<1>1. entries = <<>> /\ DOMAIN entries = {} /\ entries \in Seq(Entry)
  BY DEF Init
<1>2. TypeOK
  BY <1>1, Constants DEF Init, TypeOK, NoPlan, Actors, CommonAddresses
<1>3. Domains
  BY DEF Init, Domains
<1>4. RowsOk
  BY <1>1 DEF Init, RowsOk
<1>5. \A r \in Rounds : RoundOk(r)
  BY Constants DEF Init, RoundOk, Actors, Given
<1>6. \A c \in CheckIns : CheckInOk(c)
  BY DEF Init, CheckInOk, Actors
<1>7. NothingDropped
  BY DEF Init, NothingDropped
<1>8. Exclusive
  BY DEF Init, Exclusive, InLock
<1>9. OncePending
  BY <1>1 DEF Init, OncePending
<1>10. OnceUndisturbed
  BY <1>1 DEF OnceUndisturbed, RecordedOnce
<1>11. Compares
  BY DEF Init, Compares, Handling, Actors
<1>12. QED
  BY <1>2, <1>3, <1>4, <1>5, <1>6, <1>7, <1>8, <1>9, <1>10, <1>11 DEF IInv

LEMMA NextIInv == IInv /\ [Next]_vars => IInv'
<1> SUFFICES ASSUME IInv, [Next]_vars
             PROVE  IInv'
  OBVIOUS
<1>1. ASSUME NEW S \in SUBSET Points \ {{}}, UploadTrajectories(S)
      PROVE  IInv'
  BY <1>1, UploadTrajectoriesIInv
<1>2. ASSUME (\E on \in BOOLEAN : UpdateConfig(on)) \/ VIPChanges \/ Tick \/ LoseLock
      PROVE  IInv'
  BY <1>2, OutsideIInv
<1>3. ASSUME NEW q \in pending, DeleteStale(q)
      PROVE  IInv'
  BY <1>3, DeleteStaleIInv
<1>4. ASSUME NEW r \in Rounds, LockRound(r) \/ RoundStep(r) \/ RoundFails(r)
      PROVE  IInv'
  <2>1. r \in Actors
    BY DEF Actors
  <2>2. CASE RoundStep(r)
    BY <2>1, <2>2, CheckUserIInv, ListTrajectoriesIInv, NameStayIInv, IsDuplicateIInv, IsNewIInv,
       CreateEntryIInv, DeleteTrajectoriesIInv, UnlockIInv DEF RoundStep
  <2>3. CASE RoundFails(r)
    BY <2>3, SkipStayIInv, ReadFailsIInv, CreateFailsIInv, DeleteFailsIInv DEF RoundFails
  <2>4. QED
    BY <1>4, <2>2, <2>3, LockRoundIInv
<1>5. ASSUME NEW c \in CheckIns,
             (\E p \in Places : CheckIn(c, p)) \/ CheckInStep(c) \/ GiveUp(c) \/ CheckInFails(c)
      PROVE  IInv'
  <2>1. c \in Actors
    BY DEF Actors
  <2>2. CASE CheckInStep(c)
    BY <2>1, <2>2, LockCheckInIInv, CompareIInv, InsertIInv, UnlockIInv DEF CheckInStep
  <2>3. QED
    BY <1>5, <2>2, CheckInIInv, GiveUpIInv, CheckInFailsIInv
<1>6. ASSUME NEW a \in Actors, Crash(a)
      PROVE  IInv'
  BY <1>6, CrashIInv
<1>7. CASE UNCHANGED vars
  BY <1>7, Facts, SwitchIInv, Constants DEF vars, dbVars, userVars, roundVars, TypeOK
<1>8. QED
  BY <1>1, <1>2, <1>3, <1>4, <1>5, <1>6, <1>7 DEF Next

-----------------------------------------------------------------------------
(***************************************************************************)
(* The theorems                                                            *)
(***************************************************************************)
\* Every behaviour of the recording satisfies the inductive invariant.
THEOREM Invariant == Spec => []IInv
<1>1. Init => IInv
  BY InitIInv
<1>2. IInv /\ [Next]_vars => IInv'
  BY NextIInv
<1>3. QED
  BY <1>1, <1>2, PTL DEF Spec

\* Every variable has its type, and a point has one pending row at most.
THEOREM RecordTypes == Spec => []TypeOK
<1>1. IInv => TypeOK
  BY DEF IInv
<1>2. QED
  BY <1>1, Invariant, PTL

\* No failure, crash or lost lock, at whatever point of a round, makes a stay
\* disappear: its points are pending, cleaned up after seven days, or covered.
THEOREM NothingDroppedHolds == Spec => []NothingDropped
<1>1. IInv => NothingDropped
  BY DEF IInv
<1>2. QED
  BY <1>1, Invariant, PTL

\* As long as nothing disturbs a round, no stored point is part of two entries,
\* however many instances run rounds and however often the device repeats itself.
THEOREM OnceUndisturbedHolds == Spec => []OnceUndisturbed
<1>1. IInv => OnceUndisturbed
  BY DEF IInv
<1>2. QED
  BY <1>1, Invariant, PTL

\* What an entry that a step adds has to do with the newest entry of its date.
Apart(f, e) ==
  /\ ~SameName(e.name, f.name)
  /\ f.place = e.place => {f.name, e.name} = NamesOf(f.place)

\* Two names of one place that are not the same are all its names.
LEMMA ApartIs ==
  ASSUME NEW f, NEW e, Called(f.name, f.place), Called(e.name, e.place), ~SameName(e.name, f.name)
  PROVE  Apart(f, e)
BY DEF Apart, Called, NamesOf, SameName

LEMMA AddedEntry ==
  ASSUME IInv, ~setting.lossy, NEW e \in Entry, entries' = Append(entries, e),
         \A i \in NewestOf(entries, Day(e.at)) : Apart(entries[i], e),
         NEW n \in DOMAIN entries', n > Len(entries)
  PROVE  \A i \in NewestOf(entries, Day(entries'[n].at)) : Apart(entries[i], entries'[n])
<1>1. /\ Len(entries) \in Nat /\ DOMAIN entries = 1..Len(entries)
      /\ DOMAIN entries' = DOMAIN entries \cup {Len(entries) + 1}
      /\ entries'[Len(entries) + 1] = e
  BY Facts, Appended
<1>2. n = Len(entries) + 1
  BY <1>1
<1>3. QED
  BY <1>1, <1>2

LEMMA NextNoEcho ==
  ASSUME IInv, [Next]_vars, ~setting.lossy, NEW n \in DOMAIN entries', n > Len(entries)
  PROVE  \A i \in NewestOf(entries, Day(entries'[n].at)) : Apart(entries[i], entries'[n])
<1>1. CASE UNCHANGED entries
  <2>1. Len(entries) \in Nat /\ DOMAIN entries = 1..Len(entries)
    BY Facts DEF RowsOk
  <2>2. QED
    BY <1>1, <2>1
<1>2. ASSUME NEW r \in Rounds, CreateEntry(r)
      PROVE  \A i \in NewestOf(entries, Day(entries'[n].at)) : Apart(entries[i], entries'[n])
  <2> DEFINE C == NextStay(r)
             e == [place |-> PlaceOf(C), name |-> NameOf(r, C), at |-> Newest(C).at, of |-> C]
  <2>1. pc[r] = "create" /\ entries' = Append(entries, e)
    BY <1>2 DEF CreateEntry
  <2>2. RoundOk(r) /\ TypeOK /\ todo[r] # {} /\ r \in Actors /\ ComparesOf(r)
    BY <2>1, Facts DEF RoundOk
  <2>3. e \in Entry /\ e.name = NameOf(r, C) /\ Day(e.at) = DayOf(C) /\ Called(e.name, e.place)
    BY <2>2, NextStayIs, NamedIs DEF Entry, DayOf, Called
  <2>4. \A i \in NewestOf(entries, DayOf(C)) : Apart(entries[i], e)
    BY <2>1, <2>2, <2>3, ApartIs, Facts DEF ComparesOf, RowsOk, NewestOf
  <2> HIDE DEF C, e
  <2>5. QED
    BY <2>1, <2>3, <2>4, AddedEntry
<1>3. ASSUME NEW c \in CheckIns, Insert(c)
      PROVE  \A i \in NewestOf(entries, Day(entries'[n].at)) : Apart(entries[i], entries'[n])
  <2> DEFINE e == [place |-> here[c].place, name |-> here[c].name, at |-> here[c].at, of |-> {}]
  <2>1. pc[c] = "insert" /\ entries' = Append(entries, e)
    BY <1>3 DEF Insert
  <2>2. CheckInOk(c) /\ TypesOf(c) /\ c \in Actors /\ ComparesOf(c)
    BY Facts
  <2>3. e \in Entry /\ e.name = here[c].name /\ e.at = here[c].at /\ Called(e.name, e.place)
    BY <2>1, <2>2, Constants DEF Entry, CheckInOk, TypesOf, Called, NamesOf
  <2>4. \A i \in NewestOf(entries, Day(here[c].at)) : Apart(entries[i], e)
    BY <2>1, <2>2, <2>3, ApartIs, Facts DEF ComparesOf, RowsOk, NewestOf
  <2> HIDE DEF e
  <2>5. QED
    BY <2>1, <2>3, <2>4, AddedEntry
<1>4. ASSUME NEW S \in SUBSET Points, UploadTrajectories(S)
      PROVE  UNCHANGED entries
  BY <1>4 DEF UploadTrajectories
<1>5. ASSUME (\E on \in BOOLEAN : UpdateConfig(on)) \/ VIPChanges \/ Tick \/ LoseLock
             \/ \E q \in pending : DeleteStale(q)
      PROVE  UNCHANGED entries
  BY <1>5 DEF UpdateConfig, VIPChanges, Tick, LoseLock, DeleteStale, dbVars
<1>6. ASSUME NEW r \in Rounds, LockRound(r) \/ RoundStep(r) \/ RoundFails(r)
      PROVE  UNCHANGED entries \/ CreateEntry(r)
  BY <1>6 DEF LockRound, RoundStep, CheckUser, ListTrajectories, NameStay, IsDuplicate, IsNew,
    DeleteTrajectories, Unlock, RoundFails, SkipStay, ReadFails, CreateFails, DeleteFails, dbVars
<1>7. ASSUME NEW c \in CheckIns,
             (\E p \in Places : CheckIn(c, p)) \/ CheckInStep(c) \/ GiveUp(c) \/ CheckInFails(c)
      PROVE  UNCHANGED entries \/ Insert(c)
  BY <1>7 DEF CheckIn, CheckInStep, LockCheckIn, Compare, Unlock, GiveUp, CheckInFails, dbVars
<1>8. ASSUME NEW a \in Actors, Crash(a)
      PROVE  UNCHANGED entries
  BY <1>8 DEF Crash, dbVars
<1>9. CASE UNCHANGED vars
  BY <1>1, <1>9 DEF vars, dbVars
<1>10. QED
  BY <1>1, <1>2, <1>3, <1>4, <1>5, <1>6, <1>7, <1>8, <1>9 DEF Next

\* What was compared under the lock is still true when the entry is created: as long
\* as the lock holds, a round and a check-in record one stay twice only at a common
\* address, each by the name it has for it.
THEOREM NoEchoHolds == Spec => NoEcho
<1>1. IInv /\ [Next]_vars =>
        [\A n \in DOMAIN entries' : n > Len(entries) /\ ~setting.lossy =>
           \A i \in NewestOf(entries, Day(entries'[n].at)) :
             /\ ~SameName(entries'[n].name, entries[i].name)
             /\ entries[i].place = entries'[n].place =>
                  {entries[i].name, entries'[n].name} = NamesOf(entries[i].place)]_vars
  BY NextNoEcho DEF Apart
<1>2. QED
  BY <1>1, Invariant, PTL DEF Spec, NoEcho
=============================================================================
