----------------------------- MODULE Membership -----------------------------
(***************************************************************************)
(* Who is in charge: accounts (users.go, admin.go, oauth.go), the owner of *)
(* the instance (roles.go), workspaces and their members (workspaces.go),  *)
(* deactivating and deleting accounts and what becomes of their workspaces *)
(* (lifecycle_account.go).                                                 *)
(*                                                                         *)
(* A statement or a transaction is atomic. The checks of a handler are one *)
(* action, each of its writes is another, and the job record joins them;   *)
(* whatever other requests do falls in between.                            *)
(*                                                                         *)
(* Left out: opening and closing a workspace to all, pages and emergency   *)
(* access, names, sessions and tokens, the migration of instances without  *)
(* workspaces, requests that change nothing. Settings that allow a request *)
(* or not are choices.                                                     *)
(***************************************************************************)
EXTENDS Naturals, FiniteSets

CONSTANTS
    Handlers,     \* the requests that can be under way at one time
    Roles,        \* bound: the roles in a workspace that are given
    MaxPeople,    \* bound: accounts ever created
    MaxMarked,    \* bound: accounts that are deactivated, or an admin and not
                  \* the owner of the instance, at one time
    MaxSpaces,    \* bound: workspaces ever created
    MaxRoles      \* bound: memberships in all, where a request adds one

ASSUME RolesAssumption ==
    /\ {"admin", "member"} \subseteq Roles
    /\ Roles \subseteq {"admin", "member", "viewer"}
ASSUME BoundsAssumption ==
    /\ MaxPeople \in Nat \ {0} /\ MaxSpaces \in Nat \ {0}
    /\ MaxMarked \in Nat /\ MaxRoles \in Nat

(* Ids are given out in the order of created_at. *)
People == 1 .. MaxPeople
Spaces == 1 .. MaxSpaces
Nobody == 0

VARIABLES
    accounts,     \* rows of users
    disabled,     \* users.disabled = 1
    admins,       \* users.is_admin = 1
    owners,       \* rows of org_members with the role of the owner
    space,        \* rows of workspaces
    role,         \* rows of workspace_members
    born, made,   \* how many accounts and workspaces there ever were
    job,          \* what each handler has yet to write
    left          \* workspaces left to themselves: by a restart during the
                  \* deletion of their person, or while he is put down (Unseats)

rows == <<accounts, disabled, admins, owners, space, role>>
vars == <<accounts, disabled, admins, owners, space, role,
          born, made, job, left>>

-----------------------------------------------------------------------------
NoSpace == [is |-> FALSE, personal |-> FALSE, owner |-> Nobody, open |-> FALSE]

(* me: who asked, while that matters; p, w, r: whose role in which         *)
(* workspace is written, and what it becomes; then: what the handler does  *)
(* next. The rest belongs to the deletion of the account `gone`: the loop  *)
(* it is in, the owner who inherits, and the workspaces to be purged,      *)
(* shared out among their guests, handed over, and the rest.               *)
Idle == [at |-> "idle", then |-> "idle", me |-> Nobody, p |-> Nobody, w |-> 0,
         r |-> "none", back |-> "idle", gone |-> Nobody, boss |-> Nobody,
         purge |-> {}, share |-> {}, hand |-> {}, rest |-> {}]

Steps == {"idle", "grant", "house", "create", "insert", "upsert", "add",
          "assign", "update", "join", "disable", "enable", "promote", "demote", "transfer",
          "drop", "delete", "loop", "heir", "hand", "rest", "own"}

Job == [at : Steps, then : Steps, me : 0 .. MaxPeople, p : 0 .. MaxPeople,
        w : 0 .. MaxSpaces, r : Roles \cup {"none"}, back : Steps,
        gone : 0 .. MaxPeople, boss : 0 .. MaxPeople,
        purge : SUBSET Spaces, share : SUBSET Spaces,
        hand : SUBSET Spaces, rest : SUBSET Spaces]

Member(w, p) == role[w][p] # "none"
Members(w) == {p \in People : Member(w, p)}
Memberships == {m \in Spaces \X People : Member(m[1], m[2])}
Active == accounts \ disabled
ActiveAdmins(w) == {p \in Active : role[w][p] = "admin"}

(* The bound on accounts that stand out, when p comes to.                  *)
Markable(p) ==
    Cardinality((disabled \cup admins \cup {p}) \ owners) <= MaxMarked

(* Mistake: an admin counts though the account is deactivated. *)
OtherAdminsAny(w, p) == {q \in accounts \ {p} : role[w][q] = "admin"}

(* The active admins of a workspace, but for one. *)
OtherAdmins(w, p) == ActiveAdmins(w) \ {p}

(* Foreign keys: members are accounts, owners are accounts. *)
References ==
    /\ disabled \subseteq accounts /\ admins \subseteq accounts
    /\ owners \subseteq accounts
    /\ \A w \in Spaces : /\ Members(w) \subseteq accounts
                         /\ Members(w) # {} => space[w].is

TypeOK ==
    /\ accounts \subseteq 1 .. born
    /\ space \in [Spaces -> [is : BOOLEAN, personal : BOOLEAN,
                             owner : 0 .. MaxPeople, open : BOOLEAN]]
    /\ role \in [Spaces -> [People -> Roles \cup {"none"}]]
    /\ born \in 1 .. MaxPeople /\ made \in 1 .. MaxSpaces
    /\ job \in [Handlers -> Job]
    /\ left \subseteq Spaces
    /\ References

(* After the setup: one account, in charge of all, one workspace open to   *)
(* all (handleSetup).                                                      *)
Init ==
    /\ accounts = {1} /\ disabled = {} /\ admins = {1} /\ owners = {1}
    /\ space = [w \in Spaces |->
                   IF w = 1 THEN [is |-> TRUE, personal |-> FALSE,
                                  owner |-> 1, open |-> TRUE]
                   ELSE NoSpace]
    /\ role = [w \in Spaces |->
                  [p \in People |->
                      IF w = 1 /\ p = 1 THEN "admin" ELSE "none"]]
    /\ born = 1 /\ made = 1
    /\ job = [h \in Handlers |-> Idle]
    /\ left = {}

-----------------------------------------------------------------------------
Free(h) == job[h].at = "idle"
Ask(h, j) == job' = [job EXCEPT ![h] = j]
Done(h) == job' = [job EXCEPT ![h] = Idle]

(* ORDER BY created_at LIMIT 1: at most one. *)
First(S) == {p \in S : \A q \in S : p <= q}

Rank == [admin |-> 0, member |-> 1, viewer |-> 2]

(* Who answers for a personal space; it cannot be demoted or removed by    *)
(* the members dialog (personalOwner).                                     *)
PersonalOwner(w) == IF space[w].personal THEN space[w].owner ELSE Nobody

(* A change that takes the last active admin away is refused.              *)
KeepsAnAdmin(w, p, r) ==
    r # "admin" /\ role[w][p] = "admin" => OtherAdmins(w, p) # {}

(* Who is let in by adminOnly and ownerOnly; the others let in every       *)
(* active account.                                                         *)
AdminOnly == Active \cap admins
OwnerOnly == Active \cap owners

-----------------------------------------------------------------------------
Newcomer(at, p) == [Idle EXCEPT !.at = at, !.p = p]

(* A new account: by an admin, with a role in one workspace or none, or by *)
(* signing up. Its own space and the open workspaces follow.               *)
CreateUser(h) ==
    /\ Free(h)
    /\ born < MaxPeople
    /\ born' = born + 1
    /\ accounts' = accounts \cup {born + 1}
    /\ \/ \E me \in AdminOnly, a \in BOOLEAN, w \in Spaces, r \in Roles :
             /\ a => Markable(born + 1)
             /\ admins' = IF a THEN admins \cup {born + 1} ELSE admins
             /\ Ask(h, [Idle EXCEPT !.at = "grant", !.me = me,
                                    !.p = born + 1, !.w = w, !.r = r])
       \/ /\ Ask(h, Newcomer("house", born + 1))
          /\ UNCHANGED admins
    /\ UNCHANGED <<disabled, owners, space, role, made, left>>

(* The creator may grant what they administer, the owner anything.         *)
Grant(h) ==
    LET j == job[h] IN
    /\ j.at = "grant"
    /\ Ask(h, IF j.me \in owners \/ role[j.w][j.me] = "admin"
              THEN [j EXCEPT !.at = "insert", !.then = "house", !.me = Nobody]
              ELSE Newcomer("house", j.p))
    /\ UNCHANGED <<rows, born, made, left>>

(* Whether new accounts get a space of their own is a setting.             *)
NoSpaceOfTheirOwn(h) ==
    /\ job[h].at = "house"
    /\ Ask(h, Newcomer("join", job[h].p))
    /\ UNCHANGED <<rows, born, made, left>>

(* INSERT INTO workspaces, and the creator becomes its admin (foreign key: *)
(* an account that is there). The two statements are one step here.        *)
NewSpace(h) ==
    LET j == job[h] IN
    /\ j.at \in {"house", "create"}
    /\ made < MaxSpaces
    /\ made' = made + 1
    /\ space' = [space EXCEPT ![made + 1] =
                    [is |-> TRUE, personal |-> j.at = "house",
                     owner |-> j.p, open |-> FALSE]]
    /\ role' = [role EXCEPT ![made + 1] =
                   [p \in People |-> IF p \in accounts \cap {j.p}
                                    THEN "admin" ELSE "none"]]
    /\ Ask(h, IF j.at = "house" THEN Newcomer("join", j.p) ELSE Idle)
    /\ UNCHANGED <<accounts, disabled, admins, owners, born, left>>

(* The workspaces open to all: each INSERT leaves a role that is there.    *)
JoinAutoWorkspaces(h) ==
    LET p == job[h].p IN
    /\ job[h].at = "join"
    /\ role' = [w \in Spaces |->
                   IF space[w].open /\ p \in accounts /\ ~ Member(w, p)
                   THEN [role[w] EXCEPT ![p] = "member"] ELSE role[w]]
    /\ Done(h)
    /\ UNCHANGED <<accounts, disabled, admins, owners, space,
                   born, made, left>>

CreateWorkspace(h) ==
    /\ Free(h)
    /\ made < MaxSpaces
    /\ \E me \in Active : Ask(h, Newcomer("create", me))
    /\ UNCHANGED <<rows, born, made, left>>

-----------------------------------------------------------------------------
(* Mistake: foreign keys are not enforced. *)
AppliesAnyway(j) == j.at = "insert" => ~ Member(j.w, j.p)

(* One row of workspace_members. An INSERT needs the account and the       *)
(* workspace (foreign keys) and, when it says DO NOTHING, no row yet; an   *)
(* UPDATE needs the row. A DELETE of no row is the role it leaves: none.   *)
Applies(j) ==
    CASE j.at = "insert" -> /\ j.p \in accounts /\ space[j.w].is
                            /\ ~ Member(j.w, j.p)
      [] j.at = "update" -> Member(j.w, j.p)
      [] OTHER           -> j.p \in accounts /\ space[j.w].is

(* The members dialog that adds somebody who is a member, and the user     *)
(* management, do not ask whose personal space it is: they can put its     *)
(* person down.                                                            *)
Unseats(j) ==
    /\ j.at \in {"add", "assign"} /\ Applies(j)
    /\ j.p = PersonalOwner(j.w) /\ j.r # "admin"

(* Its person administers it again. *)
Reseats(j) == Applies(j) /\ j.p = PersonalOwner(j.w) /\ j.r = "admin"

After(j) ==
    CASE j.then = "idle" -> Idle
      [] j.then = "own"  -> [j EXCEPT !.at = "own", !.then = "idle",
                                      !.r = "none"]
      [] OTHER           -> Newcomer(j.then, j.p)

WriteRole(h) ==
    LET j == job[h] IN
    /\ j.at \in {"insert", "upsert", "add", "assign", "update"}
    /\ role' = IF Applies(j) THEN [role EXCEPT ![j.w][j.p] = j.r] ELSE role
    /\ left' = IF Unseats(j) THEN left \cup {j.w}
                ELSE IF Reseats(j) THEN left \ {j.w} ELSE left
    /\ Ask(h, After(j))
    /\ UNCHANGED <<accounts, disabled, admins, owners, space, born, made>>

AskRole(h, at, w, p, r) ==
    /\ ~ Member(w, p) => Cardinality(Memberships) < MaxRoles
    /\ Ask(h, [Idle EXCEPT !.at = at, !.w = w, !.p = p, !.r = r])
    /\ UNCHANGED <<rows, born, made, left>>

(* An invitation, sent by some admin of the workspace, taken up by an      *)
(* account: a role that is there stays as it is.                           *)
AcceptInvite(h) ==
    /\ Free(h)
    /\ \E me \in Active, w \in Spaces, r \in Roles :
          /\ space[w].is /\ ~ Member(w, me)
          /\ AskRole(h, "insert", w, me, r)

(* The members dialog: adding by address takes people who are members,     *)
(* too, and then sets their role, whoever else is an admin.                *)
AddWorkspaceMember(h) ==
    /\ Free(h)
    /\ \E w \in Spaces, p \in accounts, r \in Roles :
          /\ ActiveAdmins(w) # {} /\ role[w][p] # r
          /\ AskRole(h, "add", w, p, r)

(* Mistake: guests may demote the person of a personal space. *)
MayUpdateAnyone(w, p, r) == KeepsAnAdmin(w, p, r)

MayUpdate(w, p, r) ==
    /\ r # "admin" => p # PersonalOwner(w)
    /\ KeepsAnAdmin(w, p, r)

UpdateMember(h) ==
    /\ Free(h)
    /\ \E w \in Spaces, p \in People, r \in Roles :
          /\ ActiveAdmins(w) # {}
          /\ Member(w, p) /\ role[w][p] # r
          /\ MayUpdate(w, p, r)
          /\ AskRole(h, "update", w, p, r)

RemoveMember(h) ==
    /\ Free(h)
    /\ \E w \in Spaces, p \in People :
          /\ ActiveAdmins(w) \cup (Active \cap {p}) # {}
          /\ Member(w, p)
          /\ p # PersonalOwner(w)
          /\ KeepsAnAdmin(w, p, "none")
          /\ AskRole(h, "update", w, p, "none")

(* The user management: the owner anywhere but in personal spaces, an      *)
(* admin where they administer the workspace, and nobody for themselves.   *)
MayAssign(w, p) ==
    {me \in AdminOnly \ {p} :
        role[w][me] = "admin" \/ (me \in owners /\ ~ space[w].personal)}

AdminMembership(h) ==
    /\ Free(h)
    /\ \E w \in Spaces, p \in accounts, r \in Roles \cup {"none"} :
          /\ space[w].is /\ role[w][p] # r
          /\ MayAssign(w, p) # {}
          /\ KeepsAnAdmin(w, p, r)
          /\ AskRole(h, "assign", w, p, r)

(* Deleting a workspace: by an admin of it who has another one, or by the  *)
(* owner when nobody is left in it.                                        *)
AskDrop(h, me, w) ==
    /\ Ask(h, [Idle EXCEPT !.at = "drop", !.me = me, !.w = w])
    /\ UNCHANGED <<rows, born, made, left>>

DeleteWorkspace(h) ==
    /\ Free(h)
    /\ \E me \in Active, w \in Spaces :
          /\ role[w][me] = "admin"
          /\ Cardinality({v \in Spaces : Member(v, me)}) > 1
          /\ AskDrop(h, me, w)

DeleteStrandedWorkspace(h) ==
    /\ Free(h)
    /\ OwnerOnly # {}
    /\ \E w \in Spaces :
          /\ space[w].is /\ Members(w) = {}
          /\ AskDrop(h, Nobody, w)

Purge(w) ==
    /\ space' = [space EXCEPT ![w] = NoSpace]
    /\ role' = [role EXCEPT ![w] = [p \in People |-> "none"]]
    /\ left' = left \ {w}

PurgeWorkspace(h) ==
    /\ job[h].at = "drop"
    /\ Purge(job[h].w)
    /\ Done(h)
    /\ UNCHANGED <<accounts, disabled, admins, owners, born, made>>

(* The owner takes on a workspace without members. The owner_id it sets    *)
(* besides is only for workspaces that never had one.                      *)
AdoptWorkspace(h) ==
    /\ Free(h)
    /\ \E me \in OwnerOnly, w \in Spaces :
          /\ space[w].is /\ Members(w) = {} /\ ~ space[w].personal
          /\ AskRole(h, "upsert", w, me, "admin")

-----------------------------------------------------------------------------
(* Accounts: deactivating, the rights of an admin, the owner's chair.      *)
AskAccount(h, at, me, p) ==
    /\ Ask(h, [Idle EXCEPT !.at = at, !.me = me, !.p = p])
    /\ UNCHANGED <<rows, born, made, left>>

SetUserDisabled(h) ==
    /\ Free(h)
    /\ \E p \in accounts :
          /\ AdminOnly \ {p} # {}
          /\ \/ p \in disabled /\ AskAccount(h, "enable", Nobody, p)
             \/ /\ p \notin owners \cup disabled
                /\ Markable(p)
                /\ AskAccount(h, "disable", Nobody, p)

UpdateUser(h) ==
    /\ Free(h)
    /\ AdminOnly # {}
    /\ \E p \in accounts :
          \/ /\ p \notin admins /\ Markable(p)
             /\ AskAccount(h, "promote", Nobody, p)
          \/ /\ p \in admins \ owners
             /\ AdminOnly \ {p} # {} /\ admins \ {p} # {}
             /\ AskAccount(h, "demote", Nobody, p)

SetFlags(h) ==
    LET j == job[h] IN
    /\ j.at \in {"enable", "disable", "promote", "demote"}
    /\ disabled' = CASE j.at = "enable" -> disabled \ {j.p}
                     [] j.at = "disable" -> disabled \cup ({j.p} \cap accounts)
                     [] OTHER -> disabled
    /\ admins' = CASE j.at = "demote" -> admins \ {j.p}
                   [] j.at = "promote" -> admins \cup ({j.p} \cap accounts)
                   [] OTHER -> admins
    /\ Done(h)
    /\ UNCHANGED <<accounts, owners, space, role, born, made, left>>

(* Mistake: the chair can be handed to a deactivated account. *)
MayOwnAny(p) == p \in admins

MayOwn(p) == p \notin disabled /\ p \in admins

TransferOwner(h) ==
    /\ Free(h)
    /\ \E me \in OwnerOnly, p \in accounts :
          /\ p # me /\ MayOwn(p)
          /\ AskAccount(h, "transfer", me, p)

(* One transaction; without the account the second statement fails, and    *)
(* the first is undone.                                                    *)
SeatOwner(h) ==
    LET j == job[h] IN
    /\ j.at = "transfer"
    /\ owners' = IF j.p \in accounts THEN (owners \ {j.me}) \cup {j.p}
                 ELSE owners
    /\ Done(h)
    /\ UNCHANGED <<accounts, disabled, admins, space, role, born, made, left>>

-----------------------------------------------------------------------------
(* Deleting an account. What hangs off it is written down before the row   *)
(* goes, because the memberships go with it.                               *)
Theirs(p) == {w \in Spaces : Member(w, p)}
Own(p) == {w \in Theirs(p) : space[w].personal /\ space[w].owner = p}

(* Mistake: guests do not keep a personal space. *)
LonelyAnyway(p) == Own(p)

(* Personal spaces nobody else is in. *)
Lonely(p) == {w \in Own(p) : Cardinality(Members(w)) <= 1}

(* Shared workspaces with no other active admin and no other member.       *)
Orphaned(p) == {w \in Theirs(p) : /\ ~ space[w].personal
                                  /\ OtherAdmins(w, p) = {}
                                  /\ Cardinality(Members(w)) <= 1}

DeleteUser(h) ==
    /\ Free(h)
    /\ \E p \in accounts :
          /\ OwnerOnly \ {p} # {} /\ admins \ {p} # {} /\ p \notin owners
          /\ Ask(h, [Idle EXCEPT !.at = "delete", !.gone = p,
                                 !.purge = Lonely(p),
                                 !.share = Own(p) \ Lonely(p),
                                 !.hand = Orphaned(p)])
    /\ UNCHANGED <<rows, born, made, left>>

DeleteAccount(h) ==
    LET p == job[h].gone IN
    /\ job[h].at = "delete"
    /\ accounts' = accounts \ {p}
    /\ disabled' = disabled \ {p}
    /\ admins' = admins \ {p}
    /\ owners' = owners \ {p}
    /\ role' = [w \in Spaces |-> [role[w] EXCEPT ![p] = "none"]]
    /\ Ask(h, [job[h] EXCEPT !.at = "loop"])
    /\ UNCHANGED <<space, born, made, left>>

PurgePersonal(h) ==
    /\ job[h].at = "loop"
    /\ \E w \in First(job[h].purge) :
          /\ Purge(w)
          /\ Ask(h, [job[h] EXCEPT !.purge = @ \ {w}])
    /\ UNCHANGED <<accounts, disabled, admins, owners, born, made>>

(* A personal space with guests becomes an ordinary one ...                *)
ShareOut(h) ==
    /\ job[h].at = "loop" /\ job[h].purge = {}
    /\ \E w \in First(job[h].share) :
          /\ space' = IF space[w].is
                      THEN [space EXCEPT ![w].personal = FALSE] ELSE space
          /\ Ask(h, [job[h] EXCEPT !.at = "heir", !.w = w, !.share = @ \ {w}])
    /\ UNCHANGED <<accounts, disabled, admins, owners, role, born, made, left>>

(* ... and goes to the active member of the highest role, the oldest       *)
(* account among them.                                                     *)
Senior(w, p) ==
    LET S == {q \in Active \ {p} : Member(w, q)} IN
    First({q \in S : \A s \in S : Rank[role[w][q]] <= Rank[role[w][s]]})

FindHeir(h) ==
    LET j == job[h]
        S == Senior(j.w, j.gone) IN
    /\ j.at = "heir"
    /\ \/ S = {} /\ Ask(h, [j EXCEPT !.at = "loop", !.w = 0])
       \/ \E q \in S :
             Ask(h, [j EXCEPT !.at = "update", !.p = q, !.r = "admin",
                              !.then = "own", !.back = "loop"])
    /\ UNCHANGED <<rows, born, made, left>>

(* UPDATE workspaces SET owner_id, and on with the loop that is not done.  *)
Inherit(h) ==
    LET j == job[h] IN
    /\ j.at = "own"
    /\ space' = IF space[j.w].is THEN [space EXCEPT ![j.w].owner = j.p]
                ELSE space
    /\ Ask(h, [j EXCEPT !.at = j.back, !.back = "idle", !.w = 0, !.p = Nobody])
    /\ UNCHANGED <<accounts, disabled, admins, owners, role, born, made, left>>

(* The owner of the instance takes the workspaces nobody else is in, if    *)
(* there is one.                                                           *)
FindBoss(h) ==
    LET j == job[h] IN
    /\ j.at = "loop" /\ j.purge = {} /\ j.share = {}
    /\ \E o \in IF owners = {} THEN {Nobody} ELSE owners :
          Ask(h, [j EXCEPT !.at = "hand", !.boss = o,
                           !.hand = IF o \in {Nobody, j.gone} THEN {} ELSE @])
    /\ UNCHANGED <<rows, born, made, left>>

HandOver(h) ==
    LET j == job[h] IN
    /\ j.at = "hand"
    /\ \E w \in First(j.hand) :
          Ask(h, [j EXCEPT !.at = "upsert", !.p = j.boss, !.w = w,
                           !.r = "admin", !.then = "own", !.back = "hand",
                           !.hand = @ \ {w}])
    /\ UNCHANGED <<rows, born, made, left>>

(* What the account still owns, and others administer.                     *)
StillOwned(p) == {w \in Spaces : /\ space[w].is /\ space[w].owner = p
                                 /\ ~ space[w].personal}

FindRest(h) ==
    LET j == job[h] IN
    /\ j.at = "hand" /\ j.hand = {}
    /\ LET R == StillOwned(j.gone) IN
       IF R = {} THEN Done(h) ELSE Ask(h, [j EXCEPT !.at = "rest", !.rest = R])
    /\ UNCHANGED <<rows, born, made, left>>

(* The oldest active admin inherits, or else the owner of the instance.    *)
Successors(w, p, boss) ==
    LET S == First(OtherAdmins(w, p)) IN
    (IF S = {} THEN {boss} ELSE S) \ {Nobody, p}

PassOn(h) ==
    LET j == job[h] IN
    /\ j.at = "rest"
    /\ \E w \in j.rest :
          LET k == [j EXCEPT !.rest = @ \ {w}]
              S == Successors(w, j.gone, j.boss) IN
          \/ S = {} /\ Ask(h, k)
          \/ \E q \in S : Ask(h, [k EXCEPT !.at = "own", !.w = w, !.p = q,
                                            !.back = "rest"])
    /\ UNCHANGED <<rows, born, made, left>>

DeleteUserEnds(h) ==
    /\ job[h].at = "rest" /\ job[h].rest = {}
    /\ Done(h)
    /\ UNCHANGED <<rows, born, made, left>>

-----------------------------------------------------------------------------
(* The server starts again: what handlers had yet to write is lost, and    *)
(* migrateOrg elects an owner where there is none and opens a workspace    *)
(* where none is open.                                                     *)
Elected ==
    IF owners # {} THEN owners
    ELSE IF Active \cap admins # {} THEN First(Active \cap admins)
    ELSE First(Active)

(* A deletion that is cut leaves workspaces behind that point at an        *)
(* account that is gone.                                                   *)
HalfDone(j) ==
    {w \in Spaces : /\ j.gone # Nobody /\ j.at # "delete"
                    /\ space[w].is /\ space[w].owner = j.gone}

Restart ==
    /\ job' = [h \in Handlers |-> Idle]
    /\ left' = left \cup UNION {HalfDone(job[h]) : h \in Handlers}
    /\ owners' = Elected
    /\ space' = IF \E w \in Spaces : space[w].open THEN space
                ELSE LET F == First({w \in Spaces : space[w].is /\
                                                    ~ space[w].personal}) IN
                     [w \in Spaces |->
                         [space[w] EXCEPT !.open = (w \in F)]]
    /\ UNCHANGED <<accounts, disabled, admins, role, born, made>>

Step(h) ==
    \/ CreateUser(h) \/ Grant(h) \/ NoSpaceOfTheirOwn(h) \/ NewSpace(h)
    \/ JoinAutoWorkspaces(h) \/ CreateWorkspace(h) \/ WriteRole(h)
    \/ AcceptInvite(h) \/ AddWorkspaceMember(h) \/ UpdateMember(h)
    \/ RemoveMember(h) \/ AdminMembership(h)
    \/ DeleteWorkspace(h) \/ DeleteStrandedWorkspace(h) \/ PurgeWorkspace(h)
    \/ AdoptWorkspace(h) \/ SetUserDisabled(h) \/ UpdateUser(h) \/ SetFlags(h)
    \/ TransferOwner(h) \/ SeatOwner(h) \/ DeleteUser(h) \/ DeleteAccount(h)
    \/ PurgePersonal(h) \/ ShareOut(h) \/ FindHeir(h) \/ Inherit(h)
    \/ FindBoss(h) \/ HandOver(h) \/ FindRest(h) \/ PassOn(h)
    \/ DeleteUserEnds(h)

Next == Restart \/ \E h \in Handlers : Step(h)

Spec == Init /\ [][Next]_vars

-----------------------------------------------------------------------------
(* Exactly one account is in charge of the instance, and it can act: it is *)
(* active and an admin. Handing the chair on, deactivating, demoting and   *)
(* deleting accounts and starting again (roles.go, lifecycle_account.go,   *)
(* users.go) keep it so.                                                   *)
OneOwner == \E o \in Active \cap admins : owners = {o}

(* The members dialog writes the role of somebody who is a member.         *)
AddedAgain(w) ==
    \E h \in Handlers : /\ job[h].at = "add" /\ job'[h].at # "add"
                        /\ job[h].w = w /\ Member(w, job[h].p)

(* A workspace does not lose its last active admin to a change of its      *)
(* members (otherActiveAdmins): while accounts stay as they are, a         *)
(* workspace that has an active admin and stays keeps one. There is one    *)
(* exception, against wiki/workspaces.md:201 ("A workspace never loses its *)
(* last admin. Demoting one is refused"): adding somebody who is a member  *)
(* already sets the role that comes with it, and nothing asks whether an   *)
(* admin is left (workspaces.go:888).                                      *)
LastAdminStays ==
    [][role' # role /\ UNCHANGED <<accounts, disabled>>
          => \A w \in Spaces :
                ActiveAdmins(w) # {} /\ space'[w].is /\ ~ AddedAgain(w)
                   => ActiveAdmins(w)' # {}]_vars

Settled == \A h \in Handlers : Free(h)

(* Between the loops of a deletion (applyDeletion) no workspace points at  *)
(* an owner who is gone: it is handed on, or goes with its person. And     *)
(* whoever owns a personal space administers it, whatever its guests do    *)
(* (personalOwner): all but the spaces in left, which a restart cut, or    *)
(* whose person was put down through the two doors that do not ask         *)
(* (workspaces.go:888 and 1309-1315; see Unseats).                         *)
PersonInCharge ==
    Settled => \A w \in Spaces \ left :
                  /\ space[w].is \/ space[w].personal
                         => space[w].owner \in accounts
                  /\ space[w].personal => role[w][space[w].owner] = "admin"

(* A workspace goes with everything in it only when one of its admins      *)
(* asked for that, or nobody is left in it: deleting an account does not   *)
(* take the work of others along (deletionImpactOf).                       *)
OthersWorkSurvives ==
    [][\A w \in Spaces :
          space[w].is /\ ~ space'[w].is
             => \/ Members(w) = {}
                \/ \E h \in Handlers :
                      job[h].at = "drop" /\ job[h].me \in ActiveAdmins(w)]_vars

=============================================================================
