------------------------------- MODULE Family -------------------------------
(***************************************************************************)
(* Families and accounts: backend/internal/family/service.go, the advisory *)
(* locks (internal/db/advisory_lock.go) and the retried transactions       *)
(* (internal/db/pool.go) it is built on, and the constraints of the tables *)
(* users, families and family_members.                                     *)
(*                                                                         *)
(* A request reads the user (and, for some kinds, the owner of the user's  *)
(* family) outside any transaction, takes the family locks this reading    *)
(* calls for, and works in one REPEATABLE READ transaction: it sees the    *)
(* snapshot of its begin, and commits unless a row it writes was changed   *)
(* since (40001: tried again) or a constraint fails.  The lock is not      *)
(* taken by CreateFamily, and nobody reads again after locking.            *)
(*                                                                         *)
(* Left out: daily covers, files, orders and the other tables a deletion   *)
(* cascades to; users without a personal family.                           *)
(***************************************************************************)
EXTENDS Naturals, FiniteSets

CONSTANTS
  Users,
  Personal,       \* [Users -> families], users.personal_family_id
  NewFams,        \* ids of normal families, never reused
  Requests,       \* requests handled at the same time
  MaxMembers,     \* 6 in the code
  MaxTries,       \* maxRetries of WithTxDeferrable
  Starts,         \* what a behaviour may start with: the accounts, and whether a
                  \* connection that holds a lock may break
  NoFam, NoUser

PersonalFams == {Personal[u] : u \in Users}
Fams == PersonalFams \cup NewFams

ASSUME FamilyAssumption ==
  /\ \A u, v \in Users : Personal[u] = Personal[v] => u = v
  /\ PersonalFams \cap NewFams = {}
  /\ NoFam \notin Fams
  /\ NoUser \notin Users
  /\ Users \cap Fams = {}
  /\ MaxMembers \in Nat \ {0}
  /\ MaxTries \in Nat \ {0}
  /\ Starts \subseteq [users : SUBSET Users, lossy : BOOLEAN]

VARIABLES
  users,        \* users rows
  cur,          \* users.current_family_id
  fams,         \* families rows
  mem,          \* family_members rows <<family, user>>
  owners,       \* those with role = 'owner'
  founder,      \* history: who created a normal family
  lossy,        \* whether locks can be lost in this behaviour
  pc, kind, who, arg,   \* a request: position, operation, caller, argument
  from,         \* the current family the request read before locking
  locks,        \* keys held: f is lock:family:f, u is lock:delete_account:u
  snap,         \* snapshot of its open transaction
  dirty,        \* rows others have changed since
  tries

dbVars  == <<users, cur, fams, mem, owners, founder, lossy>>
reqVars == <<kind, who, arg, from, locks>>
txVars  == <<snap, dirty, tries>>
vars == <<dbVars, pc, reqVars, txVars>>

Kinds == {"create", "join", "leave", "remove", "dissolve", "delete"}

Database == [users |-> users, cur |-> cur, fams |-> fams, mem |-> mem, owners |-> owners]
NoSnap == [users |-> {}, cur |-> [u \in Users |-> NoFam], fams |-> {}, mem |-> {}, owners |-> {}]

Members(db, f) == {u \in Users : <<f, u>> \in db.mem}
IsOwner(db, f, u) == <<f, u>> \in db.owners

Init ==
  /\ \E s \in Starts : users = s.users /\ lossy = s.lossy
  /\ cur = [u \in Users |-> IF u \in users THEN Personal[u] ELSE NoFam]
  /\ fams = {Personal[u] : u \in users}
  /\ mem = {<<Personal[u], u>> : u \in users}
  /\ owners = mem
  /\ founder = [f \in NewFams |-> NoUser]
  /\ pc = [r \in Requests |-> "idle"]
  /\ kind = [r \in Requests |-> "create"]
  /\ who = [r \in Requests |-> NoUser]
  /\ arg = [r \in Requests |-> NoFam]
  /\ from = [r \in Requests |-> NoFam]
  /\ locks = [r \in Requests |-> {}]
  /\ snap = [r \in Requests |-> NoSnap]
  /\ dirty = [r \in Requests |-> {}]
  /\ tries = [r \in Requests |-> 0]

-----------------------------------------------------------------------------
(***************************************************************************)
(* Before the transaction                                                  *)
(***************************************************************************)
Goto(r, s) == pc' = [pc EXCEPT ![r] = s]

\* A request of kind k by u arrives and reads the users row of u.
Arrive(r, k, u, x, next) ==
  /\ pc[r] = "idle"
  /\ u \in users
  /\ kind' = [kind EXCEPT ![r] = k]
  /\ who' = [who EXCEPT ![r] = u]
  /\ arg' = [arg EXCEPT ![r] = x]
  /\ from' = [from EXCEPT ![r] = cur[u]]
  /\ Goto(r, next)
  /\ UNCHANGED <<dbVars, txVars>>

InNormalFamily(u) == cur[u] # Personal[u]

\* CreateFamily takes no lock and reads the user inside its transaction.
CreateFamily(r, u) == Arrive(r, "create", u, NoFam, "begin") /\ UNCHANGED locks

\* Mutant: personal families can be joined as well.
JoinAnyFamily(r, u, f) ==
  /\ f \in fams
  /\ cur[u] # f
  /\ Arrive(r, "join", u, f, "lock")
  /\ UNCHANGED locks

JoinFamily(r, u, f) ==
  /\ f \in fams \cap NewFams
  /\ cur[u] # f
  /\ Arrive(r, "join", u, f, "lock")
  /\ UNCHANGED locks

LeaveFamily(r, u) ==
  /\ InNormalFamily(u)
  /\ Arrive(r, "leave", u, NoFam, "owner")
  /\ UNCHANGED locks

RemoveMember(r, u, v) ==
  /\ u # v
  /\ InNormalFamily(u)
  /\ Arrive(r, "remove", u, v, "owner")
  /\ UNCHANGED locks

DissolveFamily(r, u) ==
  /\ InNormalFamily(u)
  /\ Arrive(r, "dissolve", u, NoFam, "owner")
  /\ UNCHANGED locks

\* DeleteAccount locks the user before it reads it.
DeleteAccount(r, u) ==
  /\ \A q \in Requests : u \notin locks[q]
  /\ Arrive(r, "delete", u, NoFam, "lock")
  /\ locks' = [locks EXCEPT ![r] = {u}]

\* Mutant: any member may remove or dissolve.
ReadOwnerOnLeave(r) ==
  /\ pc[r] = "owner"
  /\ kind[r] = "leave" => ~IsOwner(Database, from[r], who[r])
  /\ Goto(r, "lock")
  /\ UNCHANGED <<dbVars, reqVars, txVars>>

\* GetFamilyOwner: an owner cannot leave, the others must be the owner.
ReadOwner(r) ==
  /\ pc[r] = "owner"
  /\ IsOwner(Database, from[r], who[r]) <=> kind[r] # "leave"
  /\ Goto(r, "lock")
  /\ UNCHANGED <<dbVars, reqVars, txVars>>

\* The families to lock, according to the family read before.
LockKeys(r) ==
  LET source == {from[r]} \ {Personal[who[r]]}
  IN  CASE kind[r] = "join"   -> {arg[r]} \cup source
        [] kind[r] = "delete" -> {from[r], Personal[who[r]]}
        [] OTHER              -> {from[r]}

\* TryLocks: all of them or ErrOperationInProgress.
TryLocks(r) ==
  /\ pc[r] = "lock"
  /\ \A q \in Requests \ {r} : LockKeys(r) \cap locks[q] = {}
  /\ locks' = [locks EXCEPT ![r] = @ \cup LockKeys(r)]
  /\ Goto(r, "begin")
  /\ UNCHANGED <<dbVars, kind, who, arg, from, txVars>>

LoseLocks(r) ==
  /\ lossy
  /\ locks[r] # {}
  /\ locks' = [locks EXCEPT ![r] = {}]
  /\ UNCHANGED <<dbVars, pc, kind, who, arg, from, txVars>>

Begin(r) ==
  /\ pc[r] = "begin"
  /\ snap' = [snap EXCEPT ![r] = Database]
  /\ dirty' = [dirty EXCEPT ![r] = {}]
  /\ tries' = [tries EXCEPT ![r] = @ + 1]
  /\ Goto(r, "tx")
  /\ UNCHANGED <<dbVars, reqVars>>

-----------------------------------------------------------------------------
(***************************************************************************)
(* What a transaction writes, computed on its snapshot                     *)
(***************************************************************************)
\* Users S leave family f for the families dest[u], with the given role.
Move(f, S, dest, role) ==
  [drop |-> {f} \X S, add |-> {<<dest[u], u>> : u \in S}, role |-> role,
   goes |-> dest, made |-> {}, gone |-> {}, deleted |-> {}]

Nothing == Move(NoFam, {}, [u \in {} |-> NoFam], "member")

\* leaveToPersonalTx
LeaveToPersonal(f, u) == Move(f, {u}, [v \in {u} |-> Personal[v]], "owner")

\* dissolveFamilyTx: all members go home and the family goes away.
Dissolve(db, f) ==
  [Move(f, Members(db, f), [v \in Members(db, f) |-> Personal[v]], "owner")
     EXCEPT !.gone = {f}]

CreateChange(u, f) == [Move(Personal[u], {u}, [v \in {u} |-> f], "owner") EXCEPT !.made = {f}]

\* Mutant: an owner who joins another family leaves the own one behind.
JoinChangeAlone(db, u, f, t) == Move(f, {u}, [v \in {u} |-> t], "member")

\* joinFamilyTx: an owner takes the whole family along and dissolves it.
JoinChange(db, u, f, t) ==
  IF f # Personal[u] /\ IsOwner(db, f, u)
    THEN [Move(f, Members(db, f), [v \in Members(db, f) |-> t], "member") EXCEPT !.gone = {f}]
    ELSE Move(f, {u}, [v \in {u} |-> t], "member")

DeleteChange(db, u, f) ==
  LET c == IF f = Personal[u] THEN Nothing
           ELSE IF IsOwner(db, f, u) THEN Dissolve(db, f)
           ELSE LeaveToPersonal(f, u)
  IN  [c EXCEPT !.gone = @ \cup {Personal[u]}, !.deleted = {u}]

\* The checks each operation makes inside its transaction.
CreateAllowed(db, u) == u \in db.users /\ db.cur[u] = Personal[u]

\* Mutant: the people who come along are not counted.
JoinAllowedUncounted(db, u, f, t) ==
  /\ f # Personal[u] => \E v \in Users : IsOwner(db, f, v)
  /\ Cardinality(Members(db, t)) < MaxMembers

JoinAllowed(db, u, f, t) ==
  /\ f # Personal[u] => \E v \in Users : IsOwner(db, f, v)
  /\ IF f # Personal[u] /\ IsOwner(db, f, u)
       THEN Cardinality(Members(db, t)) + Cardinality(Members(db, f)) <= MaxMembers
       ELSE Cardinality(Members(db, t)) < MaxMembers

RemoveAllowed(db, v, f) == v \in db.users /\ db.cur[v] = f

\* Rows that change: deletes only see the snapshot, cascades see everything.
Cascade(c) == {m \in mem : m[1] \in c.gone \/ m[2] \in c.deleted}
Changed(db, c) ==
  {<<"member", m>> : m \in (c.drop \cap db.mem) \cup c.add \cup Cascade(c)}
  \cup {<<"user", u>> : u \in DOMAIN c.goes \cup c.deleted}
  \cup {<<"family", f>> : f \in c.made \cup c.gone}

\* 40001 also for a parent row that went away (FOR KEY SHARE of the FK check).
Conflict(r, c) ==
  dirty[r] \cap (Changed(snap[r], c) \cup {<<"family", m[1]>> : m \in c.add}) # {}

MemAfter(db, c) ==
  {m \in (mem \ (c.drop \cap db.mem)) \cup c.add : m[1] \notin c.gone /\ m[2] \notin c.deleted}
CurAfter(db, c) ==
  [u \in Users |-> IF u \in c.deleted THEN NoFam
                   ELSE IF u \in DOMAIN c.goes /\ u \in db.users THEN c.goes[u] ELSE cur[u]]

\* Mutant: without uq_family_members_user_id.
ValidWithoutUnique(db, c) ==
  /\ \A m \in c.add : m[1] \in db.fams \cup c.made /\ m[2] \in db.users
  /\ \A u \in users \ c.deleted : CurAfter(db, c)[u] \notin c.gone /\ Personal[u] \notin c.gone

\* Foreign keys (RESTRICT for the families a user refers to) and, at the
\* commit, uq_family_members_user_id.
Valid(db, c) ==
  /\ \A m \in c.add : m[1] \in db.fams \cup c.made /\ m[2] \in db.users
  /\ \A u \in users \ c.deleted : CurAfter(db, c)[u] \notin c.gone /\ Personal[u] \notin c.gone
  /\ \A m, n \in MemAfter(db, c) : m[2] = n[2] => m = n

-----------------------------------------------------------------------------
(***************************************************************************)
(* The end of a request                                                    *)
(***************************************************************************)
Finish(r) ==
  /\ pc' = [pc EXCEPT ![r] = "idle"]
  /\ kind' = [kind EXCEPT ![r] = "create"]
  /\ who' = [who EXCEPT ![r] = NoUser]
  /\ arg' = [arg EXCEPT ![r] = NoFam]
  /\ from' = [from EXCEPT ![r] = NoFam]
  /\ locks' = [locks EXCEPT ![r] = {}]
  /\ snap' = [snap EXCEPT ![r] = NoSnap]
  /\ tries' = [tries EXCEPT ![r] = 0]

\* Mutant: the retries have no end.
WriteForever(r, c) ==
  \/ /\ Conflict(r, c)
     /\ Goto(r, "begin")
     /\ snap' = [snap EXCEPT ![r] = NoSnap]
     /\ dirty' = [dirty EXCEPT ![r] = {}]
     /\ UNCHANGED <<dbVars, reqVars, tries>>
  \/ /\ ~Conflict(r, c)
     /\ Valid(snap[r], c)
     /\ users' = users \ c.deleted /\ UNCHANGED lossy
     /\ cur' = CurAfter(snap[r], c)
     /\ fams' = (fams \cup c.made) \ c.gone
     /\ mem' = MemAfter(snap[r], c)
     /\ owners' = ((owners \ c.add) \cup (IF c.role = "owner" THEN c.add ELSE {})) \cap mem'
     /\ founder' = [f \in NewFams |-> IF f \in c.made THEN who[r] ELSE founder[f]]
     /\ dirty' = [q \in Requests |-> IF pc[q] = "tx" /\ q # r
                                     THEN dirty[q] \cup Changed(snap[r], c) ELSE {}]
     /\ Finish(r)

\* The transaction of r writes c: it is tried again, fails or commits.
Write(r, c) ==
  \/ /\ Conflict(r, c)
     /\ tries[r] < MaxTries
     /\ Goto(r, "begin")
     /\ snap' = [snap EXCEPT ![r] = NoSnap]
     /\ dirty' = [dirty EXCEPT ![r] = {}]
     /\ UNCHANGED <<dbVars, reqVars, tries>>
  \/ /\ ~Conflict(r, c)
     /\ Valid(snap[r], c)
     /\ users' = users \ c.deleted /\ UNCHANGED lossy
     /\ cur' = CurAfter(snap[r], c)
     /\ fams' = (fams \cup c.made) \ c.gone
     /\ mem' = MemAfter(snap[r], c)
     /\ owners' = ((owners \ c.add) \cup (IF c.role = "owner" THEN c.add ELSE {})) \cap mem'
     /\ founder' = [f \in NewFams |-> IF f \in c.made THEN who[r] ELSE founder[f]]
     /\ dirty' = [q \in Requests |-> IF pc[q] = "tx" /\ q # r
                                     THEN dirty[q] \cup Changed(snap[r], c) ELSE {}]
     /\ Finish(r)

InTx(r, k) == pc[r] = "tx" /\ kind[r] = k

CommitCreate(r) ==
  /\ InTx(r, "create")
  /\ CreateAllowed(snap[r], who[r])
  /\ \E f \in NewFams : founder[f] = NoUser /\ Write(r, CreateChange(who[r], f))

CommitJoin(r) ==
  /\ InTx(r, "join")
  /\ JoinAllowed(snap[r], who[r], from[r], arg[r])
  /\ Write(r, JoinChange(snap[r], who[r], from[r], arg[r]))

CommitLeave(r) == InTx(r, "leave") /\ Write(r, LeaveToPersonal(from[r], who[r]))

CommitRemove(r) ==
  /\ InTx(r, "remove")
  /\ RemoveAllowed(snap[r], arg[r], from[r])
  /\ Write(r, LeaveToPersonal(from[r], arg[r]))

CommitDissolve(r) == InTx(r, "dissolve") /\ Write(r, Dissolve(snap[r], from[r]))

CommitDelete(r) == InTx(r, "delete") /\ Write(r, DeleteChange(snap[r], who[r], from[r]))

\* Refused, out of tries, a constraint failed, cancelled, or the process died.
GiveUp(r) ==
  /\ pc[r] # "idle"
  /\ Finish(r)
  /\ dirty' = [dirty EXCEPT ![r] = {}]
  /\ UNCHANGED dbVars

Next ==
  \E r \in Requests :
    \/ \E u \in Users : \/ CreateFamily(r, u) \/ LeaveFamily(r, u)
                        \/ DissolveFamily(r, u) \/ DeleteAccount(r, u)
    \/ \E u \in Users, f \in Fams : JoinFamily(r, u, f)
    \/ \E u, v \in Users : RemoveMember(r, u, v)
    \/ ReadOwner(r) \/ TryLocks(r) \/ LoseLocks(r) \/ Begin(r)
    \/ CommitCreate(r) \/ CommitJoin(r) \/ CommitLeave(r)
    \/ CommitRemove(r) \/ CommitDissolve(r) \/ CommitDelete(r)
    \/ GiveUp(r)

Spec == Init /\ [][Next]_vars

-----------------------------------------------------------------------------
\* Every variable has its type.
TypeOK ==
  /\ users \subseteq Users /\ lossy \in BOOLEAN
  /\ cur \in [Users -> Fams \cup {NoFam}]
  /\ fams \subseteq Fams
  /\ mem \subseteq Fams \X Users
  /\ owners \subseteq mem
  /\ founder \in [NewFams -> Users \cup {NoUser}]
  /\ pc \in [Requests -> {"idle", "owner", "lock", "begin", "tx"}]
  /\ kind \in [Requests -> Kinds]
  /\ who \in [Requests -> Users \cup {NoUser}]
  /\ arg \in [Requests -> Users \cup Fams \cup {NoFam}]
  /\ from \in [Requests -> Fams \cup {NoFam}]
  /\ \A r \in Requests : locks[r] \subseteq Users \cup Fams
  /\ tries \in [Requests -> 0..MaxTries]

\* I4: the family whose data a user sees (current_family_id) is the one, and
\* the only one, that lists the user as a member.
OneHome == \A u \in users : {f \in Fams : <<f, u>> \in mem} = {cur[u]}

\* Nobody ever gets into the personal family of someone else, even without locks.
PersonalIsPrivate == \A u \in users, v \in Users : <<Personal[u], v>> \in mem => u = v

\* D3: while the locks hold, concurrent joins and mergers never exceed the limit.
WithinLimit ==
  ~lossy => \A f \in Fams : Cardinality(Members(Database, f)) <= MaxMembers

\* A normal family is owned by the one who created it as long as that account
\* exists, and by nobody else, whoever joins, leaves or brings a family along.
FounderOwns ==
  \A f \in fams \cap NewFams :
    {u \in Users : IsOwner(Database, f, u)} = {founder[f]} \cap users

\* Who is moved out of a family asked for it, or its founder did.
MovedByOwner ==
  [][\A u \in users \cap users' :
       cur'[u] # cur[u] =>
         \E r \in Requests :
           /\ pc[r] = "tx" /\ pc'[r] = "idle"
           /\ who[r] \in {u, IF cur[u] \in NewFams THEN founder[cur[u]] ELSE u}]_vars

\* The comment of DeleteAccount: what changes between its reading and its
\* locks is covered by the unique constraint and the retries.  If so, no
\* family is left without an owner.
NoOrphanFamily == \A f \in fams \cap NewFams : \E u \in users : IsOwner(Database, f, u)
=============================================================================
