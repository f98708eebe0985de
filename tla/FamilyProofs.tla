---------------------------- MODULE FamilyProofs ----------------------------
(***************************************************************************)
(* Proofs about Family for any number of users, families and concurrent    *)
(* requests.                                                               *)
(*                                                                         *)
(* A transaction computes what it writes from its snapshot and from what   *)
(* the request read before it took its locks, both of which may be out of  *)
(* date.  The argument has three parts.  What a request has read stays     *)
(* true in the form in which it is still needed (Request): a family is     *)
(* never made twice, so its founder never changes.  A snapshot is a        *)
(* well-formed database, and a row that differs from it is dirty           *)
(* (Snapshot).  From both, the change each operation computes has the few  *)
(* properties that a commit without conflict needs (GoodChange), whatever  *)
(* operation it comes from.                                                *)
(***************************************************************************)
EXTENDS Family, FiniteSetTheorems, TLAPS

-----------------------------------------------------------------------------
(***************************************************************************)
(* The inductive invariant                                                 *)
(***************************************************************************)
\* A database in which every user has one home, and every family its founder.
Homes(db) ==
  /\ db.mem \subseteq db.fams \X db.users
  /\ db.owners \subseteq db.mem
  /\ \A u \in db.users : <<db.cur[u], u>> \in db.mem
  /\ \A m, n \in db.mem : m[2] = n[2] => m = n
  /\ \A u, v \in Users : <<Personal[u], v>> \in db.mem => u = v

Founded(db) ==
  \A f \in db.fams \cap NewFams :
    /\ founder[f] # NoUser
    /\ \A u \in db.users : <<f, u>> \in db.owners <=> founder[f] = u

\* The members of a family can be counted, although Users may be infinite.
Countable(db) == \A f \in Fams : IsFiniteSet(Members(db, f))

DbType(db) ==
  /\ db.users \subseteq Users
  /\ db.cur \in [Users -> Fams \cup {NoFam}]
  /\ db.fams \subseteq Fams

WellFormed(db) == DbType(db) /\ Homes(db) /\ Founded(db) /\ Countable(db)

Locked == {"lock", "begin", "tx"}
Fresh == {"idle", "owner", "lock"}

\* What the request r has read, in the form in which it stays true.
Request(r) ==
  /\ who[r] \in Users
  /\ from[r] \in NewFams \cup {Personal[who[r]]}
  /\ from[r] \in NewFams => founder[from[r]] # NoUser
  /\ kind[r] \in {"leave", "remove", "dissolve"} => from[r] \in NewFams
  /\ kind[r] = "join" =>
       /\ arg[r] \in NewFams \ {from[r]}
       /\ founder[arg[r]] \notin {NoUser, who[r]}
  /\ kind[r] = "remove" => arg[r] \in Users \ {who[r]}
  /\ pc[r] \in Locked =>
       /\ kind[r] \in {"remove", "dissolve"} => founder[from[r]] = who[r]
       /\ kind[r] = "leave" => \/ founder[from[r]] # who[r]
                               \/ who[r] \notin users
                               \/ from[r] \notin fams

\* The snapshot of r, and what became of its rows.
Snapshot(r) ==
  /\ WellFormed(snap[r])
  /\ \A u \in snap[r].users :
       <<"user", u>> \notin dirty[r] => u \in users /\ cur[u] = snap[r].cur[u]
  /\ \A f \in snap[r].fams : <<"family", f>> \notin dirty[r] => f \in fams

\* Nobody joins the family a request has locked, and it does not outgrow the limit.
Joining(r) ==
  /\ pc[r] \in {"begin", "tx"} => arg[r] \in locks[r]
  /\ pc[r] = "tx" => Members(Database, arg[r]) \subseteq Members(snap[r], arg[r])

Limited ==
  /\ \A q, r \in Requests : q # r => locks[q] \cap locks[r] = {}
  /\ ~lossy => \A r \in Requests : kind[r] = "join" => Joining(r)
  /\ WithinLimit

Busy(r) == pc[r] # "idle"

IInv ==
  /\ TypeOK
  /\ DOMAIN locks = Requests /\ DOMAIN snap = Requests /\ DOMAIN dirty = Requests
  /\ \A r \in Requests : pc[r] \in Fresh => tries[r] = 0
  /\ \A r \in Requests : pc[r] = "begin" => tries[r] < MaxTries
  /\ WellFormed(Database)
  /\ \A r \in Requests : Busy(r) => Request(r)
  /\ \A r \in Requests : pc[r] = "tx" => Snapshot(r)
  /\ Limited

-----------------------------------------------------------------------------
(***************************************************************************)
(* What each operation writes                                              *)
(***************************************************************************)
\* The users who move go home or into a family just made, as owners, or along
\* with r into the family r joins, as members, if there is room for them.
ToOwn(c, u) == c.role = "owner" /\ c.goes[u] \in c.made \cup {Personal[u]}
ToJoined(r, c, u) ==
  /\ c.role = "member" /\ kind[r] = "join"
  /\ c.goes[u] = arg[r] /\ arg[r] \in NewFams /\ founder[arg[r]] \notin {NoUser, u}
  /\ IsFiniteSet(DOMAIN c.goes)
  /\ Cardinality(Members(snap[r], arg[r])) + Cardinality(DOMAIN c.goes) <= MaxMembers

GoodChange(r, c) ==
  /\ DOMAIN c.goes \subseteq Users
  /\ c.add = {<<c.goes[u], u>> : u \in DOMAIN c.goes}
  /\ \A m \in c.drop : m[2] \in DOMAIN c.goes
  /\ c.made \subseteq NewFams /\ c.gone \subseteq Fams /\ c.deleted \subseteq Users
  /\ c.made \cap c.gone = {}
  /\ \A f \in c.made : founder[f] = NoUser /\ DOMAIN c.goes = {who[r]} /\ c.goes[who[r]] = f
  /\ \A u \in DOMAIN c.goes : ToOwn(c, u) \/ ToJoined(r, c, u)
  \* the founder of a family leaves it only when the family goes away
  /\ \A m \in c.drop \cap snap[r].mem \cap mem :
       m[1] \in NewFams \ c.gone => founder[m[1]] # m[2]
  \* whoever is moved asked for it, or the founder of the family did
  /\ \A u \in (DOMAIN c.goes \cap snap[r].users) \ c.deleted :
       u = who[r] \/ (snap[r].cur[u] \in NewFams /\ founder[snap[r].cur[u]] = who[r])

\* Families and users are different things.
LEMMA Ids ==
  /\ \A u \in Users : Personal[u] \in Fams /\ Personal[u] \notin NewFams
  /\ \A u, v \in Users : Personal[u] = Personal[v] => u = v
  /\ NewFams \subseteq Fams /\ NoFam \notin Fams /\ NoUser \notin Users
  /\ Users \cap Fams = {}
  /\ MaxMembers \in Nat \ {0} /\ MaxTries \in Nat \ {0}
BY FamilyAssumption DEF Fams, PersonalFams

\* CreateFamily moves the caller from the personal family into the new one.
LEMMA CreateGood ==
  ASSUME IInv, NEW r \in Requests, InTx(r, "create"),
         NEW f \in NewFams, founder[f] = NoUser
  PROVE  GoodChange(r, CreateChange(who[r], f))
<1>1. who[r] \in Users
  BY DEF IInv, Busy, InTx, Request
<1>2. QED
  BY <1>1, Ids DEF GoodChange, ToOwn, CreateChange, Move

\* Leaving and being removed: one user goes home, with the right of the caller.
LEMMA LeaveGood ==
  ASSUME NEW r \in Requests, WellFormed(snap[r]), NEW u \in Users, NEW f \in Fams,
         f \in NewFams => \/ founder[f] # u
                          \/ u \notin snap[r].users \/ u \notin users
                          \/ f \notin snap[r].fams \/ f \notin fams,
         Homes(Database),
         u = who[r] \/ (snap[r].cur[u] \in NewFams /\ founder[snap[r].cur[u]] = who[r])
  PROVE  GoodChange(r, LeaveToPersonal(f, u))
<1> DEFINE c == LeaveToPersonal(f, u)
<1>1. /\ c.drop = {<<f, u>>} /\ c.add = {<<Personal[u], u>>} /\ c.role = "owner"
      /\ DOMAIN c.goes = {u} /\ c.goes[u] = Personal[u]
      /\ c.made = {} /\ c.gone = {} /\ c.deleted = {}
  BY DEF LeaveToPersonal, Move
<1>2. \A m \in c.drop \cap snap[r].mem \cap mem : m[1] \in NewFams => founder[m[1]] # m[2]
  <2>1. SUFFICES ASSUME <<f, u>> \in snap[r].mem, <<f, u>> \in mem, f \in NewFams
                 PROVE  founder[f] # u
    BY <1>1
  <2>2. f \in snap[r].fams /\ u \in snap[r].users /\ f \in fams /\ u \in users
    BY <2>1 DEF WellFormed, Homes, Database
  <2>3. QED
    BY <2>1, <2>2
<1> HIDE DEF c
<1>3. QED
  BY <1>1, <1>2, Ids DEF GoodChange, ToOwn, c

\* A whole family goes home and goes away, on the word of its founder.
LEMMA DissolveGood ==
  ASSUME NEW r \in Requests, WellFormed(snap[r]), NEW f \in NewFams, founder[f] = who[r]
  PROVE  GoodChange(r, Dissolve(snap[r], f))
<1> DEFINE S == Members(snap[r], f)
           c == Dissolve(snap[r], f)
<1>1. /\ c.drop = {f} \X S /\ c.add = {<<Personal[u], u>> : u \in S} /\ c.role = "owner"
      /\ DOMAIN c.goes = S /\ \A u \in S : c.goes[u] = Personal[u]
      /\ c.made = {} /\ c.gone = {f} /\ c.deleted = {}
  BY DEF Dissolve, Move
<1>2. S \subseteq Users
  BY DEF Members
<1>3. \A u \in S \cap snap[r].users : snap[r].cur[u] = f
  BY DEF Members, WellFormed, Homes
<1> HIDE DEF S, c
<1>4. QED
  BY <1>1, <1>2, <1>3, Ids DEF GoodChange, ToOwn, c

\* The owner of a normal family in a well-formed database is its founder.
LEMMA OwnerFounded ==
  ASSUME NEW db, WellFormed(db), NEW f \in NewFams, NEW u \in Users
  PROVE  /\ IsOwner(db, f, u) => founder[f] = u
         /\ <<f, u>> \in db.mem /\ ~IsOwner(db, f, u) => founder[f] # u
         /\ f \in db.fams /\ founder[f] = u /\ u \in db.users => <<f, u>> \in db.mem
<1>1. /\ db.owners \subseteq db.mem
      /\ <<f, u>> \in db.mem => f \in db.fams /\ u \in db.users
      /\ f \in db.fams /\ u \in db.users => (<<f, u>> \in db.owners <=> founder[f] = u)
  BY DEF WellFormed, Homes, Founded
<1>2. QED
  BY <1>1 DEF IsOwner

\* Joining: the caller alone, or an owner with the whole family, if both fit in.
LEMMA JoinGood ==
  ASSUME NEW r \in Requests, WellFormed(snap[r]), Request(r), kind[r] = "join",
         JoinAllowed(snap[r], who[r], from[r], arg[r]),
         Valid(snap[r], JoinChange(snap[r], who[r], from[r], arg[r]))
  PROVE  GoodChange(r, JoinChange(snap[r], who[r], from[r], arg[r]))
<1> DEFINE f == from[r]
           t == arg[r]
           S == Members(snap[r], f)
           c == JoinChange(snap[r], who[r], f, t)
<1>1. /\ who[r] \in Users /\ t \in NewFams /\ t # f
      /\ f \in NewFams \cup {Personal[who[r]]}
      /\ founder[t] \notin {NoUser, who[r]}
  BY DEF Request
<1>2. IsFiniteSet(Members(snap[r], t)) /\ Cardinality(Members(snap[r], t)) \in Nat
  BY <1>1, Ids, FS_CardinalityType DEF WellFormed, Countable
<1>3. CASE f # Personal[who[r]] /\ IsOwner(snap[r], f, who[r])
  <2>1. /\ c.drop = {f} \X S /\ c.add = {<<t, u>> : u \in S} /\ c.role = "member"
        /\ DOMAIN c.goes = S /\ \A u \in S : c.goes[u] = t
        /\ c.made = {} /\ c.gone = {f} /\ c.deleted = {}
    BY <1>3 DEF JoinChange, Move
  <2>2. S \subseteq Users /\ f \in NewFams /\ founder[f] = who[r]
    BY <1>1, <1>3, OwnerFounded DEF Members
  <2>3. ASSUME NEW u \in S \cap snap[r].users
        PROVE  snap[r].cur[u] = f
    <3>1. <<f, u>> \in snap[r].mem
      BY DEF Members
    <3>2. <<snap[r].cur[u], u>> \in snap[r].mem
      BY DEF WellFormed, Homes
    <3>3. \A m, n \in snap[r].mem : m[2] = n[2] => m = n
      BY DEF WellFormed, Homes
    <3>4. <<f, u>> = <<snap[r].cur[u], u>>
      BY <3>1, <3>2, <3>3
    <3>5. QED
      BY <3>4
  <2>4. /\ IsFiniteSet(S)
        /\ Cardinality(Members(snap[r], t)) + Cardinality(S) <= MaxMembers
    BY <1>3, <2>2, Ids DEF WellFormed, Countable, JoinAllowed
  <2>5. \A u \in S : founder[t] # u
    <3>1. SUFFICES ASSUME NEW u \in S, founder[t] = u
                   PROVE  FALSE
      OBVIOUS
    <3>2. <<t, u>> \in c.add
      BY <2>1
    <3>3. t \in snap[r].fams /\ u \in snap[r].users
      BY <2>1, <3>2 DEF Valid
    <3>4. <<t, u>> \in snap[r].mem /\ <<f, u>> \in snap[r].mem
      BY <1>1, <2>2, <3>1, <3>3, OwnerFounded DEF Members
    <3>5. QED
      BY <1>1, <3>4 DEF WellFormed, Homes
  <2>6. \A u \in S : ToJoined(r, c, u)
    BY <1>1, <2>1, <2>4, <2>5 DEF ToJoined
  <2> HIDE DEF S, c, f, t
  <2>7. QED
    BY <1>1, <2>1, <2>2, <2>3, <2>6, Ids DEF GoodChange, c, f, t
<1>4. CASE ~(f # Personal[who[r]] /\ IsOwner(snap[r], f, who[r]))
  <2>1. /\ c.drop = {<<f, who[r]>>} /\ c.add = {<<t, who[r]>>} /\ c.role = "member"
        /\ DOMAIN c.goes = {who[r]} /\ c.goes[who[r]] = t
        /\ c.made = {} /\ c.gone = {} /\ c.deleted = {}
    BY <1>4 DEF JoinChange, Move
  <2>2. IsFiniteSet({who[r]}) /\ Cardinality({who[r]}) = 1
    BY FS_Singleton
  <2>3. Cardinality(Members(snap[r], t)) < MaxMembers
    BY <1>4 DEF JoinAllowed
  <2>4. ToJoined(r, c, who[r])
    BY <1>1, <1>2, <2>1, <2>2, <2>3, Ids DEF ToJoined
  <2>5. \A m \in c.drop \cap snap[r].mem : m[1] \in NewFams => founder[m[1]] # m[2]
    BY <1>1, <1>4, <2>1, Ids, OwnerFounded
  <2> HIDE DEF S, c, f, t
  <2>6. QED
    BY <1>1, <2>1, <2>4, <2>5 DEF GoodChange, c, f, t
<1>5. QED
  BY <1>3, <1>4

\* Deleting an account: first out of the normal family, as above, and then away.
LEMMA DeleteGood ==
  ASSUME NEW r \in Requests, WellFormed(snap[r]), Request(r), Homes(Database)
  PROVE  GoodChange(r, DeleteChange(snap[r], who[r], from[r]))
<1> DEFINE f == from[r]
           u == who[r]
           c == DeleteChange(snap[r], u, f)
           b == IF f = Personal[u] THEN Nothing
                ELSE IF IsOwner(snap[r], f, u) THEN Dissolve(snap[r], f)
                ELSE LeaveToPersonal(f, u)
<1>1. u \in Users /\ f \in NewFams \cup {Personal[u]} /\ f \in Fams
  BY Ids DEF Request
<1>2. /\ c.drop = b.drop /\ c.add = b.add /\ c.role = b.role /\ c.goes = b.goes
      /\ c.made = b.made /\ c.gone = b.gone \cup {Personal[u]} /\ c.deleted = {u}
  BY DEF DeleteChange, Nothing, Dissolve, LeaveToPersonal, Move
<1>3. CASE f = Personal[u]
  <2>1. /\ c.drop = {} /\ c.add = {} /\ DOMAIN c.goes = {} /\ c.made = {}
    BY <1>2, <1>3 DEF Nothing, Move
  <2> HIDE DEF c, b
  <2>2. QED
    BY <1>1, <1>2, <1>3, <2>1, Ids DEF GoodChange, Nothing, Move, c, b, f, u
<1>4. CASE f # Personal[u]
  <2>1. GoodChange(r, b)
    <3>1. CASE IsOwner(snap[r], f, u)
      BY <1>1, <1>4, <3>1, OwnerFounded, DissolveGood
    <3>2. CASE ~IsOwner(snap[r], f, u)
      <4>1. f \in NewFams => \/ founder[f] # u
                             \/ u \notin snap[r].users \/ f \notin snap[r].fams
        BY <1>1, <3>2, OwnerFounded DEF WellFormed, Homes
      <4>2. GoodChange(r, LeaveToPersonal(f, u))
        BY <1>1, <4>1, LeaveGood
      <4>3. QED
        BY <1>4, <3>2, <4>2
    <3>3. QED
      BY <3>1, <3>2
  <2>2. b.role = "owner" /\ b.made = {} /\ c.made = {} /\ b.deleted = {}
    BY <1>2, <1>4 DEF Dissolve, LeaveToPersonal, Move
  <2> HIDE DEF c, b, f, u
  <2>3. \A v \in DOMAIN c.goes : ToOwn(c, v)
    BY <1>2, <2>1, <2>2 DEF GoodChange, ToOwn, ToJoined
  <2>4. \A m \in c.drop \cap snap[r].mem \cap mem :
          m[1] \in NewFams \ c.gone => founder[m[1]] # m[2]
    BY <1>2, <2>1 DEF GoodChange
  <2>5. /\ DOMAIN c.goes \subseteq Users
        /\ c.add = {<<c.goes[v], v>> : v \in DOMAIN c.goes}
        /\ \A m \in c.drop : m[2] \in DOMAIN c.goes
        /\ c.gone \subseteq Fams /\ c.deleted \subseteq Users
    BY <1>1, <1>2, <2>1, Ids DEF GoodChange
  <2>6. \A v \in (DOMAIN c.goes \cap snap[r].users) \ c.deleted :
          v = who[r] \/ (snap[r].cur[v] \in NewFams /\ founder[snap[r].cur[v]] = who[r])
    BY <1>2, <2>1, <2>2 DEF GoodChange
  <2>7. GoodChange(r, c)
    BY <2>2, <2>3, <2>4, <2>5, <2>6 DEF GoodChange
  <2>8. QED
    BY <2>7 DEF c, f, u
<1>5. QED
  BY <1>3, <1>4

\* The transaction of r writes c and commits.
Commits(r, c) == Write(r, c) /\ pc'[r] = "idle"

\* Every transaction that commits writes a good change.
LEMMA CommitGood ==
  ASSUME IInv, NEW r \in Requests,
         \/ CommitCreate(r) \/ CommitJoin(r) \/ CommitLeave(r)
         \/ CommitRemove(r) \/ CommitDissolve(r) \/ CommitDelete(r)
  PROVE  /\ pc[r] = "tx"
         /\ \E c : Write(r, c) /\ (pc'[r] = "idle" => GoodChange(r, c))
<1>1. pc[r] = "tx"
  BY DEF CommitCreate, CommitJoin, CommitLeave, CommitRemove, CommitDissolve, CommitDelete, InTx
<1>2. /\ WellFormed(snap[r]) /\ Request(r) /\ Homes(Database)
      /\ pc \in [Requests -> {"idle", "owner", "lock", "begin", "tx"}]
      /\ who[r] \in Users
  BY <1>1 DEF IInv, Busy, Snapshot, Request, WellFormed, TypeOK
<1>3. CASE CommitCreate(r)
  BY <1>1, <1>3, CreateGood DEF CommitCreate
<1>4. CASE CommitJoin(r)
  <2> DEFINE c == JoinChange(snap[r], who[r], from[r], arg[r])
  <2>1. Write(r, c) /\ kind[r] = "join" /\ JoinAllowed(snap[r], who[r], from[r], arg[r])
    BY <1>4 DEF CommitJoin, InTx
  <2>2. pc'[r] = "idle" => Valid(snap[r], c)
    <3> HIDE DEF c
    <3>1. QED
      BY <1>1, <1>2, <2>1 DEF Write, Goto
  <2>3. pc'[r] = "idle" => GoodChange(r, c)
    BY <1>2, <2>1, <2>2, JoinGood
  <2>4. QED
    BY <1>1, <2>1, <2>3
<1>5. CASE CommitLeave(r)
  <2>1. Write(r, LeaveToPersonal(from[r], who[r])) /\ kind[r] = "leave"
    BY <1>5 DEF CommitLeave, InTx
  <2>2. /\ from[r] \in NewFams /\ from[r] \in Fams
        /\ founder[from[r]] # who[r] \/ who[r] \notin users \/ from[r] \notin fams
    BY <1>1, <1>2, <2>1, Ids DEF Request, Locked
  <2>3. GoodChange(r, LeaveToPersonal(from[r], who[r]))
    BY <1>2, <2>2, LeaveGood
  <2>4. QED
    BY <1>1, <2>1, <2>3
<1>6. CASE CommitRemove(r)
  <2>1. /\ Write(r, LeaveToPersonal(from[r], arg[r])) /\ kind[r] = "remove"
        /\ snap[r].cur[arg[r]] = from[r]
    BY <1>6 DEF CommitRemove, InTx, RemoveAllowed
  <2>2. /\ from[r] \in NewFams /\ from[r] \in Fams
        /\ founder[from[r]] = who[r] /\ arg[r] \in Users \ {who[r]}
    BY <1>1, <1>2, <2>1, Ids DEF Request, Locked
  <2>3. GoodChange(r, LeaveToPersonal(from[r], arg[r]))
    BY <1>2, <2>1, <2>2, LeaveGood
  <2>4. QED
    BY <1>1, <2>1, <2>3
<1>7. CASE CommitDissolve(r)
  <2>1. Write(r, Dissolve(snap[r], from[r])) /\ kind[r] = "dissolve"
    BY <1>7 DEF CommitDissolve, InTx
  <2>2. from[r] \in NewFams /\ founder[from[r]] = who[r]
    BY <1>1, <1>2, <2>1 DEF Request, Locked
  <2>3. GoodChange(r, Dissolve(snap[r], from[r]))
    BY <1>2, <2>2, DissolveGood
  <2>4. QED
    BY <1>1, <2>1, <2>3
<1>8. CASE CommitDelete(r)
  BY <1>1, <1>2, <1>8, DeleteGood DEF CommitDelete
<1>9. QED
  BY <1>3, <1>4, <1>5, <1>6, <1>7, <1>8

-----------------------------------------------------------------------------
(***************************************************************************)
(* A commit                                                                *)
(***************************************************************************)
Committing(r, c) == pc[r] = "tx" /\ GoodChange(r, c) /\ Commits(r, c)

\* What a commit leaves behind: the change on the database of now, not on the
\* snapshot.  Those who move, and where they go to, exist at this moment.
LEMMA CommitEffect ==
  ASSUME IInv, NEW r \in Requests, NEW c, Committing(r, c)
  PROVE  /\ users' = users \ c.deleted /\ lossy' = lossy
         /\ fams' = (fams \cup c.made) \ c.gone
         /\ mem' = {m \in (mem \ (c.drop \cap snap[r].mem)) \cup c.add :
                      m[1] \notin c.gone /\ m[2] \notin c.deleted}
         /\ owners' = ((owners \ c.add) \cup (IF c.role = "owner" THEN c.add ELSE {})) \cap mem'
         /\ founder' = [f \in NewFams |-> IF f \in c.made THEN who[r] ELSE founder[f]]
         /\ \A u \in DOMAIN c.goes :
              /\ u \in users /\ u \in snap[r].users /\ cur[u] = snap[r].cur[u]
              /\ c.goes[u] \in fams \cup c.made
              /\ c.goes[u] \in snap[r].fams \cup c.made
         /\ cur' = [u \in Users |-> IF u \in c.deleted THEN NoFam
                                    ELSE IF u \in DOMAIN c.goes THEN c.goes[u] ELSE cur[u]]
         /\ \A u \in users' : cur'[u] \notin c.gone
         /\ \A m, n \in mem' : m[2] = n[2] => m = n
<1> USE DEF Committing
<1>1. ~(Goto(r, "begin"))
  BY DEF IInv, TypeOK, Goto, Commits
<1>2. /\ ~Conflict(r, c) /\ Valid(snap[r], c)
      /\ users' = users \ c.deleted /\ lossy' = lossy
      /\ cur' = CurAfter(snap[r], c)
      /\ fams' = (fams \cup c.made) \ c.gone
      /\ mem' = MemAfter(snap[r], c)
      /\ owners' = ((owners \ c.add) \cup (IF c.role = "owner" THEN c.add ELSE {})) \cap mem'
      /\ founder' = [f \in NewFams |-> IF f \in c.made THEN who[r] ELSE founder[f]]
  BY <1>1 DEF Commits, Write
<1>3. \A u \in DOMAIN c.goes : <<c.goes[u], u>> \in c.add
  BY DEF GoodChange
<1>4. \A u \in DOMAIN c.goes : u \in snap[r].users /\ c.goes[u] \in snap[r].fams \cup c.made
  BY <1>2, <1>3 DEF Valid
<1>5. \A u \in DOMAIN c.goes : <<"user", u>> \notin dirty[r] /\ <<"family", c.goes[u]>> \notin dirty[r]
  <2>1. ASSUME NEW u \in DOMAIN c.goes
        PROVE  <<"user", u>> \in Changed(snap[r], c)
    BY DEF Changed
  <2>2. ASSUME NEW u \in DOMAIN c.goes
        PROVE  <<"family", c.goes[u]>> \in {<<"family", m[1]>> : m \in c.add}
    <3>1. PICK m \in c.add : m = <<c.goes[u], u>>
      BY <1>3
    <3>2. m[1] = c.goes[u]
      BY <3>1
    <3>3. QED
      BY <3>1, <3>2
  <2>3. QED
    BY <1>2, <2>1, <2>2 DEF Conflict
<1>6. \A u \in DOMAIN c.goes :
        u \in users /\ cur[u] = snap[r].cur[u] /\ c.goes[u] \in fams \cup c.made
  BY <1>4, <1>5 DEF IInv, Snapshot
<1>7. cur' = [u \in Users |-> IF u \in c.deleted THEN NoFam
                              ELSE IF u \in DOMAIN c.goes THEN c.goes[u] ELSE cur[u]]
  BY <1>2, <1>4 DEF CurAfter
<1>8. \A u \in users' : cur'[u] \notin c.gone
  BY <1>2 DEF Valid
<1>9. mem' = {m \in (mem \ (c.drop \cap snap[r].mem)) \cup c.add :
                m[1] \notin c.gone /\ m[2] \notin c.deleted}
  BY <1>2 DEF MemAfter
<1>10. \A m, n \in mem' : m[2] = n[2] => m = n
  BY <1>2 DEF Valid
<1>11. QED
  BY <1>2, <1>4, <1>6, <1>7, <1>8, <1>9, <1>10

\* A family that was made keeps its founder.
LEMMA FoundersStay ==
  ASSUME IInv, NEW r \in Requests, NEW c, Committing(r, c),
         NEW f \in NewFams, founder[f] # NoUser
  PROVE  f \notin c.made /\ founder'[f] = founder[f]
BY CommitEffect DEF Committing, GoodChange

\* The new rows of family_members come from the change, the others were there.
LEMMA MembersAfter ==
  ASSUME IInv, NEW r \in Requests, NEW c, Committing(r, c), NEW f, NEW u, <<f, u>> \in mem'
  PROVE  /\ f \notin c.gone /\ u \notin c.deleted
         /\ <<f, u>> \in mem \/ (u \in DOMAIN c.goes /\ c.goes[u] = f)
BY CommitEffect DEF Committing, GoodChange

\* The commit keeps every user in one home, and personal families private.
LEMMA CommitHomes ==
  ASSUME IInv, NEW r \in Requests, NEW c, Committing(r, c)
  PROVE  Homes(Database)' /\ DbType(Database)'
<1> USE DEF Committing
<1>1. /\ users \subseteq Users /\ cur \in [Users -> Fams \cup {NoFam}] /\ fams \subseteq Fams
      /\ mem \subseteq fams \X users
      /\ \A u \in users : <<cur[u], u>> \in mem
      /\ \A u, v \in Users : <<Personal[u], v>> \in mem => u = v
  BY DEF IInv, WellFormed, DbType, Homes, Database
<1>2. \A u \in DOMAIN c.goes : u \in Users /\ c.goes[u] \in NewFams \cup {Personal[u]}
  BY Ids DEF GoodChange, ToOwn, ToJoined
<1>3. mem' \subseteq fams' \X users'
  <2>1. SUFFICES ASSUME NEW m \in mem'
                 PROVE  m \in fams' \X users'
    OBVIOUS
  <2>2. m \in mem \/ \E u \in DOMAIN c.goes : m = <<c.goes[u], u>>
    BY CommitEffect DEF GoodChange
  <2>3. m[1] \notin c.gone /\ m[2] \notin c.deleted
    BY CommitEffect
  <2>4. QED
    BY <1>1, <2>2, <2>3, CommitEffect
<1>4. owners' \subseteq mem'
  BY CommitEffect
<1>5. ASSUME NEW u \in users'
      PROVE  <<cur'[u], u>> \in mem'
  <2>1. u \in users /\ u \notin c.deleted /\ u \in Users /\ cur'[u] \notin c.gone
    BY <1>1, CommitEffect
  <2>2. CASE u \in DOMAIN c.goes
    <3>1. cur'[u] = c.goes[u] /\ <<c.goes[u], u>> \in c.add
      BY <2>1, <2>2, CommitEffect DEF GoodChange
    <3>2. QED
      BY <2>1, <3>1, CommitEffect
  <2>3. CASE u \notin DOMAIN c.goes
    <3>1. cur'[u] = cur[u] /\ <<cur[u], u>> \in mem /\ <<cur[u], u>> \notin c.drop
      BY <1>1, <2>1, <2>3, CommitEffect DEF GoodChange
    <3>2. QED
      BY <2>1, <3>1, CommitEffect
  <2>4. QED
    BY <2>2, <2>3
<1>6. \A u, v \in Users : <<Personal[u], v>> \in mem' => u = v
  BY <1>1, <1>2, MembersAfter, Ids
<1>7. \A m, n \in mem' : m[2] = n[2] => m = n
  BY CommitEffect
<1>8. DbType(Database)'
  <2>1. users' \subseteq Users /\ fams' \subseteq Fams
    BY <1>1, CommitEffect, Ids DEF GoodChange
  <2>2. cur' \in [Users -> Fams \cup {NoFam}]
    BY <1>1, <1>2, CommitEffect, Ids
  <2>3. QED
    BY <2>1, <2>2 DEF DbType, Database
<1>9. QED
  BY <1>3, <1>4, <1>5, <1>6, <1>7, <1>8 DEF Homes, Database

\* The commit keeps every family with its founder: the founder can only have
\* left together with the account or the family, and nobody becomes an owner.
LEMMA CommitFounded ==
  ASSUME IInv, NEW r \in Requests, NEW c, Committing(r, c)
  PROVE  Founded(Database)'
<1> USE DEF Committing
<1>1. SUFFICES ASSUME NEW f \in fams' \cap NewFams
               PROVE  /\ founder'[f] # NoUser
                      /\ \A u \in users' : <<f, u>> \in owners' <=> founder'[f] = u
  BY DEF Founded, Database
<1>2. /\ f \in fams => /\ founder[f] # NoUser
                       /\ \A u \in users : <<f, u>> \in owners <=> founder[f] = u
      /\ owners \subseteq mem /\ mem \subseteq fams \X users
      /\ who[r] \in Users
  BY <1>1 DEF IInv, WellFormed, Founded, Homes, Database, Busy, Request
<1>3. CASE f \in c.made
  <2>1. /\ founder[f] = NoUser /\ DOMAIN c.goes = {who[r]} /\ c.goes[who[r]] = f
        /\ f \notin c.gone /\ c.add = {<<f, who[r]>>}
    BY <1>3 DEF GoodChange
  <2>2. c.role = "owner"
    BY <2>1 DEF GoodChange, ToOwn, ToJoined
  <2>3. \A u : <<f, u>> \notin owners
    BY <1>2, <2>1
  <2>4. founder'[f] = who[r]
    BY <1>1, <1>3, CommitEffect
  <2>5. ASSUME NEW u \in users', u = who[r]
        PROVE  <<f, u>> \in mem'
    BY <2>1, <2>5, CommitEffect
  <2>6. \A u \in users' : <<f, u>> \in owners' <=> u = who[r]
    <3>1. owners' = ((owners \ c.add) \cup c.add) \cap mem'
      BY <2>2, CommitEffect
    <3>2. QED
      BY <2>1, <2>3, <2>5, <3>1
  <2>7. QED
    BY <1>2, <2>4, <2>6, Ids
<1>4. CASE f \notin c.made
  <2>1. f \in fams /\ f \notin c.gone /\ founder'[f] = founder[f]
    BY <1>1, <1>4, CommitEffect
  <2>2. ASSUME NEW u \in users', <<f, u>> \in c.add
        PROVE  c.role # "owner" /\ founder[f] # u
    <3>1. u \in DOMAIN c.goes /\ c.goes[u] = f /\ u \in Users
      BY <2>2 DEF GoodChange
    <3>2. QED
      BY <1>1, <1>4, <3>1, Ids DEF GoodChange, ToOwn, ToJoined
  <2>3. ASSUME NEW u \in users', founder[f] = u
        PROVE  <<f, u>> \in owners'
    <3>1. u \in users /\ u \notin c.deleted
      BY CommitEffect
    <3>2. <<f, u>> \in owners /\ <<f, u>> \in mem
      BY <1>2, <2>1, <2>3, <3>1
    <3>3. <<f, u>> \notin c.add
      BY <2>2, <2>3
    <3>4. <<f, u>> \notin c.drop \cap snap[r].mem
      BY <1>1, <2>1, <2>3, <3>2 DEF GoodChange
    <3>5. <<f, u>> \in mem'
      BY <2>1, <3>1, <3>2, <3>4, CommitEffect
    <3>6. QED
      BY <3>2, <3>3, <3>5, CommitEffect
  <2>4. ASSUME NEW u \in users', <<f, u>> \in owners'
        PROVE  founder[f] = u
    <3>1. <<f, u>> \in owners \/ (c.role = "owner" /\ <<f, u>> \in c.add)
      BY <2>4, CommitEffect
    <3>2. u \in users
      BY CommitEffect
    <3>3. QED
      BY <1>2, <2>1, <2>2, <3>1, <3>2
  <2>5. QED
    BY <1>2, <2>1, <2>3, <2>4
<1>5. QED
  BY <1>3, <1>4

\* Those who come into f with a commit.
Newcomers(c, f) == {u \in DOMAIN c.goes : c.goes[u] = f}

\* They make a family of their own, go home alone, or join within the limit.
LEMMA NewcomersFew ==
  ASSUME IInv, NEW r \in Requests, NEW c, Committing(r, c), NEW f \in Fams
  PROVE  /\ IsFiniteSet(Newcomers(c, f))
         /\ Members(Database, f)' \subseteq Members(Database, f) \cup Newcomers(c, f)
         /\ \/ Newcomers(c, f) = {}
            \/ \E u \in Users : Members(Database, f)' \subseteq {u}
            \/ /\ kind[r] = "join" /\ f = arg[r] /\ Newcomers(c, f) = DOMAIN c.goes
               /\ Cardinality(Members(snap[r], f)) + Cardinality(DOMAIN c.goes) <= MaxMembers
<1> USE DEF Committing
<1>1. /\ Members(Database, f)' = {u \in Users : <<f, u>> \in mem'}
      /\ Members(Database, f) = {u \in Users : <<f, u>> \in mem}
  BY DEF Members, Database
<1>2. Members(Database, f)' \subseteq Members(Database, f) \cup Newcomers(c, f)
  BY <1>1, MembersAfter DEF Newcomers
<1>3. Newcomers(c, f) \subseteq Users /\ Newcomers(c, f) \subseteq DOMAIN c.goes
  BY DEF Newcomers, GoodChange
<1>4. CASE Newcomers(c, f) = {}
  BY <1>2, <1>4, FS_EmptySet
<1>5. CASE \E u \in DOMAIN c.goes : ToJoined(r, c, u)
  <2>1. PICK v \in DOMAIN c.goes : ToJoined(r, c, v)
    BY <1>5
  <2>2. /\ IsFiniteSet(DOMAIN c.goes) /\ kind[r] = "join" /\ c.role = "member"
        /\ Cardinality(Members(snap[r], arg[r])) + Cardinality(DOMAIN c.goes) <= MaxMembers
    BY <2>1 DEF ToJoined
  <2>3. \A u \in DOMAIN c.goes : c.goes[u] = arg[r]
    BY <2>2 DEF GoodChange, ToOwn, ToJoined
  <2>4. IsFiniteSet(Newcomers(c, f))
    BY <1>3, <2>2, FS_Subset
  <2>5. Newcomers(c, f) # {} => f = arg[r] /\ Newcomers(c, f) = DOMAIN c.goes
    BY <2>3 DEF Newcomers
  <2>6. CASE Newcomers(c, f) = {}
    BY <1>2, <2>4, <2>6
  <2>7. CASE Newcomers(c, f) # {}
    <3>1. f = arg[r] /\ Newcomers(c, f) = DOMAIN c.goes
      BY <2>5, <2>7
    <3>2. Cardinality(Members(snap[r], f)) + Cardinality(DOMAIN c.goes) <= MaxMembers
      BY <2>2, <3>1
    <3>3. QED
      BY <1>2, <2>2, <2>4, <3>1, <3>2
  <2>8. QED
    BY <2>6, <2>7
<1>6. CASE /\ ~\E u \in DOMAIN c.goes : ToJoined(r, c, u)
           /\ Newcomers(c, f) # {}
  <2>1. PICK v \in Newcomers(c, f) : ToOwn(c, v)
    BY <1>3, <1>6 DEF GoodChange
  <2>2. v \in Users /\ c.goes[v] = f /\ f \in c.made \cup {Personal[v]}
    BY <1>3, <2>1 DEF ToOwn, Newcomers
  <2>3. Newcomers(c, f) \subseteq {v}
    <3>1. SUFFICES ASSUME NEW u \in Newcomers(c, f)
                   PROVE  u = v
      OBVIOUS
    <3>2. u \in Users /\ f \in c.made \cup {Personal[u]}
      BY <1>3, <1>6 DEF Newcomers, GoodChange, ToOwn
    <3>3. QED
      BY <1>3, <2>2, <3>2, Ids DEF GoodChange
  <2>4. Members(Database, f) \subseteq {v}
    <3>1. CASE f \in c.made
      <4>1. f \notin fams
        BY <3>1 DEF IInv, WellFormed, Founded, Database, GoodChange
      <4>2. \A m \in Database.mem : m[1] \in fams
        BY DEF IInv, WellFormed, Homes, Database
      <4>3. \A u : <<f, u>>[1] = f
        OBVIOUS
      <4>4. \A u : <<f, u>> \notin Database.mem
        BY <4>1, <4>2, <4>3
      <4>5. QED
        BY <4>4 DEF Members
    <3>2. CASE f = Personal[v]
      BY <1>1, <2>2, <3>2 DEF IInv, WellFormed, Homes, Database
    <3>3. QED
      BY <2>2, <3>1, <3>2
  <2>5. IsFiniteSet(Newcomers(c, f))
    BY <2>3, FS_Singleton, FS_Subset
  <2>6. Members(Database, f)' \subseteq {v}
    BY <1>2, <2>3, <2>4
  <2>7. QED
    BY <1>2, <2>2, <2>5, <2>6
<1>7. QED
  BY <1>4, <1>5, <1>6

\* While locks hold, no commit lets a family outgrow the limit.
LEMMA CommitWithinLimit ==
  ASSUME IInv, NEW r \in Requests, NEW c, Committing(r, c)
  PROVE  Countable(Database)' /\ WithinLimit'
<1> USE DEF Committing
<1>1. SUFFICES ASSUME NEW f \in Fams
               PROVE  /\ IsFiniteSet(Members(Database, f)')
                      /\ ~lossy => Cardinality(Members(Database, f)') <= MaxMembers
  BY CommitEffect DEF Countable, WithinLimit
<1> DEFINE M == Members(Database, f)
           N == Newcomers(c, f)
           P == Members(Database, f)'
<1>2. /\ IsFiniteSet(M) /\ Cardinality(M) \in Nat
      /\ ~lossy => Cardinality(M) <= MaxMembers
  BY FS_CardinalityType DEF IInv, WellFormed, Countable, Limited, WithinLimit
<1>3. IsFiniteSet(N) /\ P \subseteq M \cup N
  BY NewcomersFew
<1>4. IsFiniteSet(P) /\ Cardinality(P) \in Nat
  <2>1. IsFiniteSet(M \cup N)
    BY <1>2, <1>3, FS_Union
  <2> HIDE DEF M, N, P
  <2>2. QED
    BY <1>3, <2>1, FS_Subset, FS_CardinalityType
<1>5. ASSUME ~lossy
      PROVE  Cardinality(P) <= MaxMembers
  <2>1. CASE N = {}
    <3>1. P \subseteq M
      BY <1>3, <2>1
    <3> HIDE DEF M, N, P
    <3>2. Cardinality(P) <= Cardinality(M)
      BY <1>2, <3>1, FS_Subset
    <3>3. QED
      BY <1>2, <1>4, <1>5, <3>2, Ids
  <2>2. CASE \E u \in Users : P \subseteq {u}
    <3>1. PICK u \in Users : P \subseteq {u}
      BY <2>2
    <3> HIDE DEF M, N, P
    <3>2. Cardinality(P) <= 1
      <4>1. IsFiniteSet({u}) /\ Cardinality({u}) = 1
        BY FS_Singleton
      <4>2. Cardinality(P) <= Cardinality({u})
        BY <3>1, <4>1, FS_Subset
      <4>3. QED
        BY <4>1, <4>2
    <3>3. QED
      BY <1>4, <3>2, Ids
  <2>3. CASE /\ kind[r] = "join" /\ f = arg[r] /\ N = DOMAIN c.goes
             /\ Cardinality(Members(snap[r], f)) + Cardinality(DOMAIN c.goes) <= MaxMembers
    <3> DEFINE A == Members(snap[r], f)
    <3>1. M \subseteq A
      BY <1>5, <2>3 DEF IInv, Limited, Joining
    <3>2. IsFiniteSet(A)
      BY DEF IInv, Snapshot, WellFormed, Countable
    <3>3. Cardinality(A) + Cardinality(N) <= MaxMembers
      BY <2>3
    <3> HIDE DEF M, N, P, A
    <3>4. P \subseteq A \cup N
      BY <1>3, <3>1
    <3>5. /\ IsFiniteSet(A \cup N) /\ Cardinality(A) \in Nat /\ Cardinality(N) \in Nat
          /\ Cardinality(A \cap N) \in Nat
          /\ Cardinality(A \cup N) = Cardinality(A) + Cardinality(N) - Cardinality(A \cap N)
      BY <1>3, <3>2, FS_Union, FS_Intersection, FS_CardinalityType
    <3>6. Cardinality(P) <= Cardinality(A \cup N)
      BY <3>4, <3>5, FS_Subset
    <3>7. QED
      BY <1>4, <3>3, <3>5, <3>6, Ids
  <2>4. QED
    BY <2>1, <2>2, <2>3, NewcomersFew
<1>6. QED
  BY <1>4, <1>5

\* A request that ended has nothing left, and the others do not notice.
LEMMA Ended ==
  ASSUME TypeOK, DOMAIN locks = Requests, DOMAIN snap = Requests,
         NEW r \in Requests, Finish(r)
  PROVE  /\ pc'[r] = "idle" /\ kind'[r] = "create" /\ tries'[r] = 0 /\ locks'[r] = {}
         /\ \A q \in Requests \ {r} :
              /\ pc'[q] = pc[q] /\ kind'[q] = kind[q] /\ who'[q] = who[q]
              /\ arg'[q] = arg[q] /\ from'[q] = from[q] /\ locks'[q] = locks[q]
              /\ snap'[q] = snap[q] /\ tries'[q] = tries[q]
         /\ DOMAIN locks' = Requests /\ DOMAIN snap' = Requests
         /\ pc' \in [Requests -> {"idle", "owner", "lock", "begin", "tx"}]
         /\ kind' \in [Requests -> Kinds] /\ who' \in [Requests -> Users \cup {NoUser}]
         /\ arg' \in [Requests -> Users \cup Fams \cup {NoFam}]
         /\ from' \in [Requests -> Fams \cup {NoFam}]
         /\ tries' \in [Requests -> 0..MaxTries]
         /\ \A q \in Requests : locks'[q] \subseteq Users \cup Fams
BY Ids DEF TypeOK, Finish, Kinds

\* What the other requests have read stays true.
LEMMA CommitOthers ==
  ASSUME IInv, NEW r \in Requests, NEW c, Committing(r, c), NEW q \in Requests \ {r}
  PROVE  /\ pc'[q] = pc[q] /\ kind'[q] = kind[q] /\ who'[q] = who[q] /\ arg'[q] = arg[q]
         /\ from'[q] = from[q] /\ locks'[q] = locks[q] /\ snap'[q] = snap[q]
         /\ tries'[q] = tries[q]
         /\ Busy(q) => Request(q)'
         /\ pc[q] = "tx" => Snapshot(q)'
<1> USE DEF Committing
<1>1. /\ Finish(r)
      /\ dirty' = [p \in Requests |-> IF pc[p] = "tx" /\ p # r
                                      THEN dirty[p] \cup Changed(snap[r], c) ELSE {}]
  BY DEF IInv, TypeOK, Goto, Commits, Write
<1>2. /\ pc'[q] = pc[q] /\ kind'[q] = kind[q] /\ who'[q] = who[q] /\ arg'[q] = arg[q]
      /\ from'[q] = from[q] /\ locks'[q] = locks[q] /\ snap'[q] = snap[q]
      /\ tries'[q] = tries[q]
  BY <1>1, Ended DEF IInv
<1>3. ASSUME Busy(q)
      PROVE  Request(q)'
  <2>1. Request(q)
    BY <1>3 DEF IInv
  <2>2. from[q] \in NewFams =>
          /\ founder'[from[q]] = founder[from[q]]
          /\ from[q] \notin fams => from[q] \notin fams'
    BY <2>1, FoundersStay, CommitEffect DEF Request
  <2>3. kind[q] = "join" => founder'[arg[q]] = founder[arg[q]]
    BY <2>1, FoundersStay DEF Request
  <2>4. who[q] \notin users => who[q] \notin users'
    BY CommitEffect
  <2>5. QED
    BY <1>2, <2>1, <2>2, <2>3, <2>4 DEF Request
<1>4. ASSUME pc[q] = "tx"
      PROVE  Snapshot(q)'
  <2>1. Snapshot(q) /\ dirty'[q] = dirty[q] \cup Changed(snap[r], c)
    BY <1>1, <1>4 DEF IInv
  <2>2. Founded(snap[q])'
    BY <1>2, <2>1, FoundersStay DEF Snapshot, WellFormed, Founded
  <2>3. WellFormed(snap[q])'
    BY <1>2, <2>1, <2>2 DEF Snapshot, WellFormed, DbType, Homes, Countable, Members
  <2>4. ASSUME NEW u \in snap[q].users, <<"user", u>> \notin dirty'[q]
        PROVE  u \in users' /\ cur'[u] = snap[q].cur[u]
    <3>1. <<"user", u>> \notin Changed(snap[r], c)
      BY <2>1, <2>4
    <3>2. u \notin DOMAIN c.goes \cup c.deleted
      BY <3>1 DEF Changed
    <3>3. u \in users /\ cur[u] = snap[q].cur[u] /\ u \in Users
      BY <2>1, <2>4 DEF Snapshot, WellFormed, DbType
    <3>4. QED
      BY <3>2, <3>3, CommitEffect
  <2>5. ASSUME NEW f \in snap[q].fams, <<"family", f>> \notin dirty'[q]
        PROVE  f \in fams'
    <3>1. <<"family", f>> \notin Changed(snap[r], c)
      BY <2>1, <2>5
    <3>2. f \notin c.made \cup c.gone
      BY <3>1 DEF Changed
    <3>3. QED
      BY <2>1, <2>5, <3>2, CommitEffect DEF Snapshot
  <2>6. QED
    BY <1>2, <2>3, <2>4, <2>5 DEF Snapshot
<1>5. QED
  BY <1>2, <1>3, <1>4

\* Nobody comes into a family another request has locked for joining it.
LEMMA CommitJoining ==
  ASSUME IInv, NEW r \in Requests, NEW c, Committing(r, c), ~lossy,
         NEW q \in Requests \ {r}, kind[q] = "join"
  PROVE  Joining(q)'
<1> USE DEF Committing
<1>1. Joining(q)
  BY DEF IInv, Limited
<1>2. ASSUME pc[q] = "tx"
      PROVE  Members(Database, arg[q])' \subseteq Members(snap[q], arg[q])
  <2>1. arg[q] \in NewFams /\ founder[arg[q]] # NoUser
    BY <1>2 DEF IInv, Busy, Request
  <2>2. \A u \in DOMAIN c.goes : c.goes[u] # arg[q]
    <3>1. SUFFICES ASSUME NEW u \in DOMAIN c.goes, c.goes[u] = arg[q]
                   PROVE  FALSE
      OBVIOUS
    <3>2. ToJoined(r, c, u)
      BY <2>1, <3>1, Ids DEF GoodChange, ToOwn
    <3>3. kind[r] = "join" /\ arg[r] = arg[q]
      BY <3>1, <3>2 DEF ToJoined
    <3>4. arg[r] \in locks[r] /\ arg[q] \in locks[q]
      BY <1>2, <3>3 DEF IInv, Limited, Joining
    <3>5. QED
      BY <3>3, <3>4 DEF IInv, Limited
  <2>3. \A u : <<arg[q], u>> \in mem' => <<arg[q], u>> \in mem
    BY <2>2, MembersAfter
  <2>4. QED
    BY <1>1, <1>2, <2>3, CommitOthers DEF Joining, Members, Database
<1>3. QED
  BY <1>1, <1>2, CommitOthers DEF Joining, Members

\* A commit keeps the types.
LEMMA CommitTypes ==
  ASSUME IInv, NEW r \in Requests, NEW c, Committing(r, c)
  PROVE  TypeOK'
<1> USE DEF Committing
<1>1. DbType(Database)' /\ Homes(Database)'
  BY CommitHomes
<1>2. /\ users' \subseteq Users /\ cur' \in [Users -> Fams \cup {NoFam}]
      /\ fams' \subseteq Fams /\ mem' \subseteq Fams \X Users /\ owners' \subseteq mem'
  BY <1>1 DEF DbType, Homes, Database
<1>3. founder' \in [NewFams -> Users \cup {NoUser}]
  BY CommitEffect DEF IInv, TypeOK, Busy, Request
<1>4. lossy' \in BOOLEAN
  BY CommitEffect DEF IInv, TypeOK
<1>5. TypeOK /\ DOMAIN locks = Requests /\ DOMAIN snap = Requests /\ Finish(r)
  BY DEF IInv, TypeOK, Goto, Commits, Write
<1>6. QED
  BY <1>2, <1>3, <1>4, <1>5, Ended DEF TypeOK


\* A commit keeps the inductive invariant.
LEMMA CommitIInv ==
  ASSUME IInv, NEW r \in Requests, NEW c, Committing(r, c)
  PROVE  IInv'
<1> USE DEF Committing
<1>1. /\ Finish(r) /\ TypeOK /\ DOMAIN locks = Requests /\ DOMAIN snap = Requests
      /\ dirty' = [p \in Requests |-> IF pc[p] = "tx" /\ p # r
                                      THEN dirty[p] \cup Changed(snap[r], c) ELSE {}]
  BY DEF IInv, TypeOK, Goto, Commits, Write
<1>2. TypeOK'
  BY CommitTypes
<1>3. DOMAIN locks' = Requests /\ DOMAIN snap' = Requests /\ DOMAIN dirty' = Requests
  BY <1>1, Ended
<1>4. WellFormed(Database)'
  BY CommitHomes, CommitFounded, CommitWithinLimit DEF WellFormed
<1>5. \A q \in Requests : /\ pc'[q] \in Fresh => tries'[q] = 0
                          /\ pc'[q] = "begin" => tries'[q] < MaxTries
                          /\ Busy(q)' => Request(q)'
                          /\ pc'[q] = "tx" => Snapshot(q)'
  <2>1. SUFFICES ASSUME NEW q \in Requests \ {r}
                 PROVE  /\ pc'[q] \in Fresh => tries'[q] = 0
                        /\ pc'[q] = "begin" => tries'[q] < MaxTries
                        /\ Busy(q)' => Request(q)'
                        /\ pc'[q] = "tx" => Snapshot(q)'
    BY <1>1, Ended DEF Busy
  <2>2. QED
    BY CommitOthers DEF IInv, Busy
<1>6. Limited'
  <2>1. \A p, q \in Requests : p # q => locks'[p] \cap locks'[q] = {}
    BY <1>1, Ended DEF IInv, Limited
  <2>2. ASSUME ~lossy', NEW q \in Requests, kind'[q] = "join"
        PROVE  Joining(q)'
    <3>1. q # r /\ ~lossy /\ kind[q] = "join"
      BY <1>1, <2>2, Ended, CommitOthers, CommitEffect
    <3>2. QED
      BY <3>1, CommitJoining
  <2>3. QED
    BY <2>1, <2>2, CommitWithinLimit DEF Limited
<1>7. QED
  BY <1>2, <1>3, <1>4, <1>5, <1>6 DEF IInv

-----------------------------------------------------------------------------
(***************************************************************************)
(* The steps that leave the database alone                                 *)
(***************************************************************************)
Untouched(q) ==
  /\ pc'[q] = pc[q] /\ kind'[q] = kind[q] /\ who'[q] = who[q] /\ arg'[q] = arg[q]
  /\ from'[q] = from[q] /\ locks'[q] = locks[q] /\ snap'[q] = snap[q]
  /\ dirty'[q] = dirty[q] /\ tries'[q] = tries[q]

\* Such a step of r keeps the invariant if it keeps what the invariant says of r.
LEMMA QuietStep ==
  ASSUME IInv, NEW r \in Requests, UNCHANGED dbVars,
         pc' \in [Requests -> {"idle", "owner", "lock", "begin", "tx"}],
         kind' \in [Requests -> Kinds], who' \in [Requests -> Users \cup {NoUser}],
         arg' \in [Requests -> Users \cup Fams \cup {NoFam}],
         from' \in [Requests -> Fams \cup {NoFam}],
         tries' \in [Requests -> 0..MaxTries],
         DOMAIN locks' = Requests, DOMAIN snap' = Requests, DOMAIN dirty' = Requests,
         \A q \in Requests \ {r} : Untouched(q),
         locks'[r] \subseteq Users \cup Fams,
         \A q \in Requests \ {r} : locks'[r] \cap locks[q] = {},
         pc'[r] \in Fresh => tries'[r] = 0,
         pc'[r] = "begin" => tries'[r] < MaxTries,
         Busy(r)' => Request(r)',
         pc'[r] = "tx" => Snapshot(r)',
         ~lossy /\ kind'[r] = "join" => Joining(r)'
  PROVE  IInv'
<1> USE DEF Untouched
<1>1. /\ users' = users /\ cur' = cur /\ fams' = fams /\ mem' = mem /\ owners' = owners
      /\ founder' = founder /\ lossy' = lossy
  BY DEF dbVars
<1>2. TypeOK'
  BY <1>1 DEF IInv, TypeOK
<1>3. WellFormed(Database)'
  BY <1>1 DEF IInv, WellFormed, DbType, Homes, Founded, Countable, Members, Database
<1>4. ASSUME NEW q \in Requests \ {r}
      PROVE  /\ Busy(q)' => Request(q)'
             /\ pc'[q] = "tx" => Snapshot(q)'
             /\ ~lossy /\ kind'[q] = "join" => Joining(q)'
  <2>1. Request(q)' <=> Request(q)
    BY <1>1 DEF Request
  <2>2. Snapshot(q)' <=> Snapshot(q)
    BY <1>1 DEF Snapshot, WellFormed, DbType, Homes, Founded, Countable, Members
  <2>3. Joining(q)' <=> Joining(q)
    BY <1>1 DEF Joining, Members, Database
  <2>4. QED
    BY <2>1, <2>2, <2>3 DEF IInv, Busy, Limited
<1>5. Limited'
  <2>1. \A p, q \in Requests : p # q => locks'[p] \cap locks'[q] = {}
    BY DEF IInv, Limited
  <2>2. WithinLimit'
    BY <1>1 DEF IInv, Limited, WithinLimit, Members, Database
  <2>3. QED
    BY <1>1, <1>4, <2>1, <2>2 DEF Limited
<1>6. QED
  BY <1>2, <1>3, <1>4, <1>5 DEF IInv

\* What a user reads on arrival: the one home, which the founder does not leave.
LEMMA Home ==
  ASSUME IInv, NEW u \in users
  PROVE  /\ u \in Users /\ cur[u] \in NewFams \cup {Personal[u]} /\ cur[u] \in Fams
         /\ cur[u] \in NewFams => founder[cur[u]] # NoUser
         /\ \A f \in fams \cap NewFams : founder[f] # NoUser /\ (founder[f] = u => cur[u] = f)
<1>1. /\ u \in Users /\ <<cur[u], u>> \in mem /\ mem \subseteq fams \X users
      /\ fams \subseteq Fams /\ owners \subseteq mem
      /\ \A m, n \in mem : m[2] = n[2] => m = n
      /\ \A v, w \in Users : <<Personal[v], w>> \in mem => v = w
      /\ \A f \in fams \cap NewFams :
           founder[f] # NoUser /\ (<<f, u>> \in owners <=> founder[f] = u)
  BY DEF IInv, WellFormed, DbType, Homes, Founded, Database
<1>2. cur[u] \in fams /\ cur[u] \in Fams
  BY <1>1
<1>3. cur[u] \in NewFams \cup {Personal[u]}
  BY <1>1, <1>2 DEF Fams, PersonalFams
<1>4. ASSUME NEW f \in fams \cap NewFams, founder[f] = u
      PROVE  cur[u] = f
  <2>1. <<f, u>> \in mem /\ <<cur[u], u>> \in mem
    BY <1>1, <1>4
  <2>2. <<f, u>> = <<cur[u], u>>
    BY <1>1, <2>1
  <2>3. QED
    BY <2>2
<1>5. QED
  BY <1>1, <1>2, <1>3, <1>4

\* A request that arrives has read the user as the database has it.
LEMMA ArriveIInv ==
  ASSUME IInv, NEW r \in Requests, NEW u \in Users, NEW k \in Kinds,
         NEW x \in Users \cup Fams \cup {NoFam}, NEW next \in {"owner", "lock", "begin"},
         Arrive(r, k, u, x, next),
         k \in {"leave", "remove", "dissolve"} => cur[u] # Personal[u] /\ next = "owner",
         k = "join" => x \in fams \cap NewFams /\ cur[u] # x /\ next = "lock",
         k = "remove" => x \in Users \ {u},
         \/ UNCHANGED locks
         \/ /\ locks' = [locks EXCEPT ![r] = {u}]
            /\ \A q \in Requests : u \notin locks[q]
  PROVE  IInv'
<1> USE DEF Arrive, Goto
<1>1. u \in users /\ pc[r] = "idle" /\ tries[r] = 0 /\ tries' = tries
  BY DEF IInv, Fresh, txVars
<1>2. Request(r)'
  <2>1. /\ pc'[r] = next /\ kind'[r] = k /\ who'[r] = u /\ arg'[r] = x /\ from'[r] = cur[u]
        /\ founder' = founder
    BY DEF IInv, TypeOK, dbVars
  <2>2. k = "join" => x \in NewFams \ {cur[u]} /\ founder[x] \notin {NoUser, u}
    BY <1>1, Home
  <2>3. QED
    BY <1>1, <2>1, <2>2, Home DEF Request, Locked
<1>3. \A q \in Requests \ {r} : Untouched(q)
  BY DEF IInv, TypeOK, Untouched, txVars
<1>4. /\ locks'[r] \subseteq Users \cup Fams /\ DOMAIN locks' = Requests
      /\ \A q \in Requests \ {r} : locks'[r] \cap locks[q] = {}
  BY DEF IInv, TypeOK, Limited
<1>5. /\ pc' \in [Requests -> {"idle", "owner", "lock", "begin", "tx"}]
      /\ kind' \in [Requests -> Kinds] /\ who' \in [Requests -> Users \cup {NoUser}]
      /\ arg' \in [Requests -> Users \cup Fams \cup {NoFam}]
      /\ from' \in [Requests -> Fams \cup {NoFam}]
      /\ tries' \in [Requests -> 0..MaxTries]
      /\ DOMAIN snap' = Requests /\ DOMAIN dirty' = Requests
  BY <1>1, Home DEF IInv, TypeOK, txVars
<1>6. pc'[r] = next /\ (kind'[r] = "join" => next = "lock")
  BY DEF IInv, TypeOK
<1>7. pc'[r] = "begin" => tries'[r] < MaxTries
  BY <1>1, Ids
<1>8. UNCHANGED dbVars
  OBVIOUS
<1>9. pc'[r] \notin {"idle", "tx"} /\ tries'[r] = 0 /\ (~lossy /\ kind'[r] = "join" => Joining(r)')
  BY <1>1, <1>6 DEF Joining
<1>10. QED
  BY <1>2, <1>3, <1>4, <1>5, <1>7, <1>8, <1>9, QuietStep

\* Reading the owner: the one who may go on is the founder, or is not, as needed.
LEMMA ReadOwnerIInv ==
  ASSUME IInv, NEW r \in Requests, ReadOwner(r)
  PROVE  IInv'
<1> USE DEF ReadOwner, Goto
<1>1. /\ pc[r] = "owner" /\ Request(r) /\ pc' = [pc EXCEPT ![r] = "lock"]
      /\ IsOwner(Database, from[r], who[r]) <=> kind[r] # "leave"
      /\ UNCHANGED <<dbVars, reqVars, txVars>>
  BY DEF IInv, Busy
<1>2. Request(r)'
  <2> DEFINE f == from[r]
             u == who[r]
  <2>1. u \in Users /\ (kind[r] \in {"leave", "remove", "dissolve"} => f \in NewFams)
    BY <1>1 DEF Request
  <2>2. kind[r] \in {"remove", "dissolve"} => founder[f] = u
    BY <1>1, <2>1, OwnerFounded DEF IInv
  <2>3. kind[r] = "leave" => founder[f] # u \/ u \notin users \/ f \notin fams
    BY <1>1, <2>1 DEF IInv, WellFormed, Founded, Database, IsOwner
  <2>4. QED
    BY <1>1, <2>2, <2>3 DEF Request, IInv, TypeOK, dbVars, reqVars
<1>3. pc'[r] = "lock" /\ tries'[r] = 0 /\ \A q \in Requests \ {r} : Untouched(q)
  BY <1>1 DEF IInv, TypeOK, Untouched, Fresh, reqVars, txVars
<1>4. QED
  BY <1>1, <1>2, <1>3, QuietStep DEF IInv, TypeOK, Limited, Joining, reqVars, txVars

\* Taking the locks: nobody else holds one of them, and the family that is
\* joined is among them.
LEMMA TryLocksIInv ==
  ASSUME IInv, NEW r \in Requests, TryLocks(r)
  PROVE  IInv'
<1> USE DEF TryLocks, Goto
<1>1. /\ pc[r] = "lock" /\ Request(r) /\ pc' = [pc EXCEPT ![r] = "begin"]
      /\ locks' = [locks EXCEPT ![r] = @ \cup LockKeys(r)]
      /\ \A q \in Requests \ {r} : LockKeys(r) \cap locks[q] = {}
      /\ UNCHANGED <<dbVars, kind, who, arg, from, txVars>>
  BY DEF IInv, Busy
<1>2. LockKeys(r) \subseteq Users \cup Fams /\ (kind[r] = "join" => arg[r] \in LockKeys(r))
  <2>1. /\ from[r] \in Fams /\ Personal[who[r]] \in Fams
        /\ kind[r] = "join" => arg[r] \in Fams
    BY <1>1, Ids DEF Request
  <2>2. QED
    BY <2>1 DEF LockKeys
<1>3. Request(r)'
  BY <1>1 DEF Request, Locked, dbVars, IInv, TypeOK
<1>4. \A q \in Requests \ {r} : Untouched(q)
  BY <1>1 DEF IInv, TypeOK, Untouched, txVars
<1>5. locks'[r] \subseteq Users \cup Fams /\ \A q \in Requests \ {r} : locks'[r] \cap locks[q] = {}
  BY <1>1, <1>2 DEF IInv, TypeOK, Limited
<1>6. kind'[r] = "join" => Joining(r)'
  BY <1>1, <1>2 DEF Joining, IInv, TypeOK
<1>7. pc'[r] = "begin" /\ tries'[r] < MaxTries
  <2>1. tries[r] < MaxTries
    BY <1>1, Ids DEF IInv, Fresh
  <2>2. QED
    BY <1>1, <2>1 DEF IInv, TypeOK, txVars
<1>8. QED
  BY <1>1, <1>3, <1>4, <1>5, <1>6, <1>7, QuietStep DEF IInv, TypeOK, Fresh, txVars

\* A connection breaks: only behaviours in which the limit is not claimed.
LEMMA LoseLocksIInv ==
  ASSUME IInv, NEW r \in Requests, LoseLocks(r)
  PROVE  IInv'
<1>1. /\ lossy /\ locks' = [locks EXCEPT ![r] = {}]
      /\ UNCHANGED <<dbVars, pc, kind, who, arg, from, txVars>>
  BY DEF LoseLocks
<1>2. Request(r)' <=> Request(r)
  BY <1>1 DEF Request, dbVars
<1>3. Snapshot(r)' <=> Snapshot(r)
  BY <1>1 DEF Snapshot, WellFormed, DbType, Homes, Founded, Countable, Members, dbVars, txVars
<1>4. \A q \in Requests \ {r} : Untouched(q)
  BY <1>1 DEF IInv, Untouched, txVars
<1>5. QED
  BY <1>1, <1>2, <1>3, <1>4, QuietStep DEF IInv, TypeOK, Busy, txVars

\* The snapshot is the database, and no row of it is dirty.
LEMMA BeginIInv ==
  ASSUME IInv, NEW r \in Requests, Begin(r)
  PROVE  IInv'
<1>1. /\ pc[r] = "begin" /\ pc' = [pc EXCEPT ![r] = "tx"]
      /\ snap' = [snap EXCEPT ![r] = Database] /\ dirty' = [dirty EXCEPT ![r] = {}]
      /\ tries' = [tries EXCEPT ![r] = @ + 1]
      /\ UNCHANGED <<dbVars, reqVars>>
  BY DEF Begin, Goto
<1>2. Request(r)'
  BY <1>1 DEF IInv, TypeOK, Busy, Request, Locked, dbVars, reqVars
<1>3. snap'[r] = Database /\ dirty'[r] = {} /\ pc'[r] = "tx"
  BY <1>1 DEF IInv, TypeOK
<1>4. Snapshot(r)'
  <2>1. WellFormed(snap[r])'
    BY <1>1, <1>3 DEF IInv, WellFormed, DbType, Homes, Founded, Countable, Members, dbVars
  <2>2. /\ \A u \in Database.users : u \in users' /\ cur'[u] = Database.cur[u]
        /\ \A f \in Database.fams : f \in fams'
    BY <1>1 DEF Database, dbVars
  <2>3. QED
    BY <1>3, <2>1, <2>2 DEF Snapshot
<1>5. ~lossy /\ kind'[r] = "join" => Joining(r)'
  <2>1. SUFFICES ASSUME ~lossy, kind[r] = "join"
                 PROVE  Joining(r)'
    BY <1>1 DEF reqVars
  <2>2. arg[r] \in locks[r] /\ locks' = locks /\ arg' = arg
    BY <1>1, <2>1 DEF IInv, Limited, Joining, reqVars
  <2>3. Members(Database, arg[r])' = Members(snap[r], arg[r])'
    BY <1>1, <1>3 DEF Members, Database, dbVars
  <2>4. QED
    BY <2>2, <2>3 DEF Joining
<1>6. \A q \in Requests \ {r} : Untouched(q)
  BY <1>1 DEF IInv, TypeOK, Untouched, reqVars
<1>7. tries' \in [Requests -> 0..MaxTries]
  BY <1>1, Ids DEF IInv, TypeOK
<1>8. QED
  BY <1>1, <1>2, <1>3, <1>4, <1>5, <1>6, <1>7, QuietStep
     DEF IInv, TypeOK, Limited, Fresh, reqVars

\* A serialization failure: the transaction starts anew, at most MaxTries times.
LEMMA RetryIInv ==
  ASSUME IInv, NEW r \in Requests, pc[r] = "tx", NEW c, Write(r, c), pc'[r] # "idle"
  PROVE  IInv'
<1>1. /\ tries[r] < MaxTries /\ pc' = [pc EXCEPT ![r] = "begin"]
      /\ snap' = [snap EXCEPT ![r] = NoSnap] /\ dirty' = [dirty EXCEPT ![r] = {}]
      /\ UNCHANGED <<dbVars, reqVars, tries>>
  BY DEF IInv, TypeOK, Write, Goto, Finish
<1>2. Request(r)'
  BY <1>1 DEF IInv, TypeOK, Busy, Request, Locked, dbVars, reqVars
<1>3. pc'[r] = "begin"
  BY <1>1 DEF IInv, TypeOK
<1>4. ~lossy /\ kind'[r] = "join" => Joining(r)'
  BY <1>1, <1>3 DEF IInv, Limited, Joining, reqVars
<1>5. \A q \in Requests \ {r} : Untouched(q)
  BY <1>1 DEF IInv, TypeOK, Untouched, reqVars
<1>6. QED
  BY <1>1, <1>2, <1>3, <1>4, <1>5, QuietStep DEF IInv, TypeOK, Limited, Fresh, reqVars

\* A request that ends without a commit leaves nothing behind.
LEMMA GiveUpIInv ==
  ASSUME IInv, NEW r \in Requests, GiveUp(r)
  PROVE  IInv'
<1>1. /\ Finish(r) /\ dirty' = [dirty EXCEPT ![r] = {}] /\ UNCHANGED dbVars
      /\ TypeOK /\ DOMAIN locks = Requests /\ DOMAIN snap = Requests /\ DOMAIN dirty = Requests
  BY DEF GiveUp, IInv
<1>2. /\ pc'[r] = "idle" /\ kind'[r] = "create" /\ tries'[r] = 0 /\ locks'[r] = {}
      /\ \A q \in Requests \ {r} : Untouched(q)
  BY <1>1, Ended DEF Untouched
<1>3. QED
  BY <1>1, <1>2, Ended, QuietStep DEF Busy

-----------------------------------------------------------------------------
(***************************************************************************)
(* The theorems                                                            *)
(***************************************************************************)
\* In the beginning everybody who has an account is at home.
LEMMA InitIInv == Init => IInv
<1> SUFFICES ASSUME Init
             PROVE  IInv
  OBVIOUS
<1> USE DEF Init
<1>1. users \subseteq Users /\ lossy \in BOOLEAN
  BY FamilyAssumption
<1>2. /\ cur = [u \in Users |-> IF u \in users THEN Personal[u] ELSE NoFam]
      /\ fams = {Personal[u] : u \in users}
      /\ mem = {<<Personal[u], u>> : u \in users}
      /\ owners = mem /\ fams \subseteq Fams /\ fams \cap NewFams = {}
  BY <1>1, Ids
<1>3. TypeOK
  BY <1>1, <1>2, Ids DEF TypeOK, Kinds
<1>4. DbType(Database)
  BY <1>1, <1>2, Ids DEF DbType, Database
<1>5. Homes(Database)
  <2>1. mem \subseteq fams \X users
    BY <1>2
  <2>2. \A u \in users : <<cur[u], u>> \in mem
    BY <1>1, <1>2
  <2>3. \A m, n \in mem : m[2] = n[2] => m = n
    BY <1>2
  <2>4. \A u, v \in Users : <<Personal[u], v>> \in mem => u = v
    BY <1>1, <1>2, Ids
  <2>5. QED
    BY <1>2, <2>1, <2>2, <2>3, <2>4 DEF Homes, Database
<1>6. ASSUME NEW f \in Fams
      PROVE  /\ IsFiniteSet(Members(Database, f))
             /\ Cardinality(Members(Database, f)) <= 1
  <2>1. PICK u : Members(Database, f) \subseteq {u}
    <3>1. \A u \in Members(Database, f) : u \in users /\ f = Personal[u]
      BY <1>2 DEF Members, Database
    <3>2. \A u, v \in Members(Database, f) : u = v
      BY <1>1, <3>1, Ids
    <3>3. QED
      BY <3>2
  <2>2. IsFiniteSet({u}) /\ Cardinality({u}) = 1
    BY FS_Singleton
  <2> HIDE DEF Init
  <2>3. IsFiniteSet(Members(Database, f)) /\ Cardinality(Members(Database, f)) <= Cardinality({u})
    BY <2>1, <2>2, FS_Subset
  <2>4. QED
    BY <2>2, <2>3
<1>7. WellFormed(Database)
  BY <1>2, <1>4, <1>5, <1>6 DEF WellFormed, Founded, Countable, Database
<1>8. Limited
  <2>1. WithinLimit
    <3>1. ASSUME NEW f \in Fams
          PROVE  Cardinality(Members(Database, f)) <= MaxMembers
      <4>1. Cardinality(Members(Database, f)) \in Nat
        BY <1>6, FS_CardinalityType
      <4>2. QED
        BY <1>6, <4>1, Ids
    <3>2. QED
      BY <3>1 DEF WithinLimit
  <2>2. QED
    BY <2>1 DEF Limited, Joining
<1>9. QED
  BY <1>3, <1>7, <1>8, Ids DEF IInv, Busy

\* Every step keeps the inductive invariant.
LEMMA NextIInv == IInv /\ [Next]_vars => IInv'
<1> SUFFICES ASSUME IInv, [Next]_vars
             PROVE  IInv'
  OBVIOUS
<1>1. CASE UNCHANGED vars
  BY <1>1 DEF vars, dbVars, reqVars, txVars, IInv, TypeOK, WellFormed, DbType, Homes, Founded,
     Countable, Members, Database, Busy, Request, Snapshot, Limited, Joining, WithinLimit
<1>2. CASE Next
  <2>1. ASSUME NEW r \in Requests, NEW u \in Users,
               CreateFamily(r, u) \/ LeaveFamily(r, u) \/ DissolveFamily(r, u) \/ DeleteAccount(r, u)
        PROVE  IInv'
    <3>1. /\ NoFam \in Users \cup Fams \cup {NoFam}
          /\ {"create", "leave", "dissolve", "delete"} \subseteq Kinds
      BY DEF Kinds
    <3>2. CASE CreateFamily(r, u)
      BY <3>1, <3>2, ArriveIInv DEF CreateFamily
    <3>3. CASE LeaveFamily(r, u)
      BY <3>1, <3>3, ArriveIInv DEF LeaveFamily, InNormalFamily
    <3>4. CASE DissolveFamily(r, u)
      BY <3>1, <3>4, ArriveIInv DEF DissolveFamily, InNormalFamily
    <3>5. CASE DeleteAccount(r, u)
      BY <3>1, <3>5, ArriveIInv DEF DeleteAccount
    <3>6. QED
      BY <2>1, <3>2, <3>3, <3>4, <3>5
  <2>2. ASSUME NEW r \in Requests, NEW u \in Users, NEW f \in Fams, JoinFamily(r, u, f)
        PROVE  IInv'
    BY <2>2, ArriveIInv DEF JoinFamily, Kinds
  <2>3. ASSUME NEW r \in Requests, NEW u \in Users, NEW v \in Users, RemoveMember(r, u, v)
        PROVE  IInv'
    BY <2>3, ArriveIInv DEF RemoveMember, InNormalFamily, Kinds
  <2>4. ASSUME NEW r \in Requests,
               \/ CommitCreate(r) \/ CommitJoin(r) \/ CommitLeave(r)
               \/ CommitRemove(r) \/ CommitDissolve(r) \/ CommitDelete(r)
        PROVE  IInv'
    <3>1. PICK c : pc[r] = "tx" /\ Write(r, c) /\ (pc'[r] = "idle" => GoodChange(r, c))
      BY <2>4, CommitGood
    <3>2. CASE pc'[r] = "idle"
      BY <3>1, <3>2, CommitIInv DEF Committing, Commits
    <3>3. CASE pc'[r] # "idle"
      BY <3>1, <3>3, RetryIInv
    <3>4. QED
      BY <3>2, <3>3
  <2>5. QED
    BY <1>2, <2>1, <2>2, <2>3, <2>4, ReadOwnerIInv, TryLocksIInv, LoseLocksIInv, BeginIInv,
       GiveUpIInv DEF Next
<1>3. QED
  BY <1>1, <1>2

\* The inductive invariant holds throughout.
THEOREM Invariant == Spec => []IInv
<1>1. QED
  BY InitIInv, NextIInv, PTL DEF Spec

\* Every variable has its type.
THEOREM FamilyTypes == Spec => []TypeOK
<1>1. IInv => TypeOK
  BY DEF IInv
<1>2. QED
  BY <1>1, Invariant, PTL

\* The family whose data a user sees is the one, and the only one, that lists
\* the user as a member (I4), for any number of requests with stale readings.
THEOREM OneHomeHolds == Spec => []OneHome
<1>1. IInv => OneHome
  <2>1. SUFFICES ASSUME IInv, NEW u \in users
                 PROVE  {f \in Fams : <<f, u>> \in mem} = {cur[u]}
    BY DEF OneHome
  <2>2. <<cur[u], u>> \in mem /\ \A m, n \in mem : m[2] = n[2] => m = n
    BY <2>1 DEF IInv, WellFormed, Homes, Database
  <2>3. ASSUME NEW f \in Fams, <<f, u>> \in mem
        PROVE  f = cur[u]
    <3>1. <<f, u>> = <<cur[u], u>>
      BY <2>2, <2>3
    <3>2. QED
      BY <3>1
  <2>4. cur[u] \in Fams
    BY <2>1, Home
  <2>5. QED
    BY <2>2, <2>3, <2>4
<1>2. QED
  BY <1>1, Invariant, PTL

\* Nobody gets into the personal family of someone else, not even when the
\* locks are lost.
THEOREM PersonalIsPrivateHolds == Spec => []PersonalIsPrivate
<1>1. IInv => PersonalIsPrivate
  BY DEF IInv, TypeOK, WellFormed, Homes, Database, PersonalIsPrivate
<1>2. QED
  BY <1>1, Invariant, PTL

\* While the locks hold, joins and mergers never exceed the limit of a family.
THEOREM WithinLimitHolds == Spec => []WithinLimit
<1>1. IInv => WithinLimit
  BY DEF IInv, Limited
<1>2. QED
  BY <1>1, Invariant, PTL

\* A normal family is owned by the one who made it as long as that account
\* exists, and by nobody else.
THEOREM FounderOwnsHolds == Spec => []FounderOwns
<1>1. IInv => FounderOwns
  <2>1. SUFFICES ASSUME IInv, NEW f \in fams \cap NewFams
                 PROVE  {u \in Users : <<f, u>> \in owners} = {founder[f]} \cap users
    BY DEF FounderOwns, IsOwner, Database
  <2>2. /\ \A u \in users : <<f, u>> \in owners <=> founder[f] = u
        /\ owners \subseteq mem /\ mem \subseteq fams \X users /\ users \subseteq Users
    BY <2>1 DEF IInv, WellFormed, DbType, Homes, Founded, Database
  <2>3. QED
    BY <2>2
<1>2. QED
  BY <1>1, Invariant, PTL

\* A step that moves a user is the commit of a request of this user, or of the
\* founder of the family the user was in.
LEMMA MovedByCommit ==
  ASSUME IInv, [Next]_vars, NEW u \in users \cap users', cur'[u] # cur[u]
  PROVE  \E r \in Requests :
           /\ pc[r] = "tx" /\ pc'[r] = "idle"
           /\ who[r] \in {u, IF cur[u] \in NewFams THEN founder[cur[u]] ELSE u}
<1>1. \E r \in Requests : \/ CommitCreate(r) \/ CommitJoin(r) \/ CommitLeave(r)
                          \/ CommitRemove(r) \/ CommitDissolve(r) \/ CommitDelete(r)
  <2>1. cur' # cur
    OBVIOUS
  <2>2. Next
    BY <2>1 DEF vars, dbVars
  <2>3. QED
    BY <2>1, <2>2 DEF Next, CreateFamily, LeaveFamily, DissolveFamily, DeleteAccount, JoinFamily,
       RemoveMember, Arrive, ReadOwner, TryLocks, LoseLocks, Begin, GiveUp, dbVars
<1>a. PICK r \in Requests :
        \E c : pc[r] = "tx" /\ Write(r, c) /\ (pc'[r] = "idle" => GoodChange(r, c))
  BY <1>1, CommitGood
<1>2. PICK c : pc[r] = "tx" /\ Write(r, c) /\ (pc'[r] = "idle" => GoodChange(r, c))
  BY <1>a
<1>3. pc'[r] = "idle"
  BY <1>2 DEF Write, Finish, Goto, dbVars, IInv, TypeOK
<1>4. Committing(r, c)
  BY <1>2, <1>3 DEF Committing, Commits
<1>5. u \in Users /\ u \notin c.deleted
  BY <1>4, CommitEffect DEF IInv, TypeOK
<1>6. u \in DOMAIN c.goes
  BY <1>4, <1>5, CommitEffect
<1>7. cur[u] = snap[r].cur[u] /\ u \in snap[r].users
  BY <1>4, <1>6, CommitEffect
<1>8. u = who[r] \/ (cur[u] \in NewFams /\ founder[cur[u]] = who[r])
  BY <1>4, <1>5, <1>6, <1>7 DEF Committing, GoodChange
<1>9. QED
  BY <1>2, <1>3, <1>8

\* Who is moved out of a family asked for it, or its founder did.
THEOREM MovedByOwnerHolds == Spec => MovedByOwner
<1>1. IInv /\ [Next]_vars =>
        [\A u \in users \cap users' :
           cur'[u] # cur[u] =>
             \E r \in Requests :
               /\ pc[r] = "tx" /\ pc'[r] = "idle"
               /\ who[r] \in {u, IF cur[u] \in NewFams THEN founder[cur[u]] ELSE u}]_vars
  BY MovedByCommit
<1>2. QED
  BY <1>1, Invariant, PTL DEF Spec, MovedByOwner
=============================================================================
