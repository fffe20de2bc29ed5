-------------------------- MODULE MembershipProofs --------------------------
(***************************************************************************)
(* Accounts and workspaces, proved for every set of handlers and every     *)
(* number of accounts and workspaces: types and foreign keys.  When one    *)
(* request is under way at a time, there is exactly one owner, who can     *)
(* act; nobody's workspace goes with the account of another; no workspace  *)
(* loses its last active admin to a change of its members, but to the one  *)
(* door that does not ask; and every workspace has its person in charge    *)
(* once a deletion is through, but those a restart cut off and those whose *)
(* person was put down by the two doors that do not ask whose they are.    *)
(***************************************************************************)
EXTENDS Membership, FiniteSetTheorems, TLAPS

USE RolesAssumption, BoundsAssumption

-----------------------------------------------------------------------------
(* What a handler has yet to write names an account and a workspace; and   *)
(* only a workspace that is can be open.                                   *)
Target(j) ==
    /\ j.at \in {"insert", "upsert", "add", "assign", "update", "own", "heir",
                 "drop"}
          => j.w \in Spaces
    /\ j.at \in {"grant", "house", "create", "insert", "upsert", "add",
                 "assign", "update", "own"}
          => j.p \in People
    /\ j.at = "grant" => j.w \in Spaces
    /\ (j.at = "hand" \/ j.back = "hand") /\ j.hand # {} => j.boss \in People
    /\ j.then \in {"idle", "house", "own"}
    /\ j.back \in {"idle", "loop", "hand", "rest"}

Located == /\ \A h \in Handlers : Target(job[h])
           /\ \A w \in Spaces : space[w].open => space[w].is

Typed == TypeOK /\ Located

LEMMA FirstIsOne ==
  ASSUME NEW S PROVE First(S) \subseteq S
BY DEF First

LEMMA IdleIsAJob == Idle \in Job /\ Target(Idle)
BY DEF Idle, Job, Target, Steps, Nobody, People, Spaces

LEMMA NewcomerIsAJob ==
  ASSUME NEW at \in {"house", "create", "join"}, NEW p \in People
  PROVE  Newcomer(at, p) \in Job /\ Target(Newcomer(at, p))
<1>1. p \in 0 .. MaxPeople /\ at \in Steps
  BY DEF People, Steps
<1>2. Newcomer(at, p) \in Job
  BY <1>1, IdleIsAJob DEF Newcomer, Job
<1>3. Target(Newcomer(at, p))
  BY DEF Newcomer, Idle, Target
<1> QED BY <1>2, <1>3

LEMMA AskKeepsJobs ==
  ASSUME Typed, NEW h \in Handlers, NEW j \in Job, Target(j), Ask(h, j)
  PROVE  job' \in [Handlers -> Job] /\ \A g \in Handlers : Target(job'[g])
BY DEF Typed, TypeOK, Located, Ask

LEMMA DoneKeepsJobs ==
  ASSUME Typed, NEW h \in Handlers, Done(h)
  PROVE  job' \in [Handlers -> Job] /\ \A g \in Handlers : Target(job'[g])
BY IdleIsAJob DEF Typed, TypeOK, Located, Done

LEMMA InitTyped == Init => Typed
<1> SUFFICES ASSUME Init PROVE Typed
  OBVIOUS
<1>1. job \in [Handlers -> Job] /\ \A h \in Handlers : Target(job[h])
  BY IdleIsAJob DEF Init
<1>2. space \in [Spaces -> [is : BOOLEAN, personal : BOOLEAN,
                            owner : 0 .. MaxPeople, open : BOOLEAN]]
  BY DEF Init, NoSpace, Nobody
<1>3. role \in [Spaces -> [People -> Roles \cup {"none"}]]
  BY DEF Init
<1>4. References
  BY DEF Init, References, Members, Member, Spaces, People
<1>5. \A w \in Spaces : space[w].open => space[w].is
  BY DEF Init, NoSpace
<1> QED
  BY <1>1, <1>2, <1>3, <1>4, <1>5
     DEF Init, Typed, TypeOK, Located

-----------------------------------------------------------------------------
(* What a request asks to be written is a job. *)
LEMMA AskTyped ==
  ASSUME Typed, UNCHANGED <<rows, born, made, left>>, NEW h \in Handlers,
         NEW j \in Job, Target(j), Ask(h, j)
  PROVE  Typed'
BY AskKeepsJobs
   DEF rows, Typed, TypeOK, Located, References, Members, Member

LEMMA DoneTyped ==
  ASSUME Typed, UNCHANGED <<rows, born, made, left>>, NEW h \in Handlers,
         Done(h)
  PROVE  Typed'
BY DoneKeepsJobs
   DEF rows, Typed, TypeOK, Located, References, Members, Member

LEMMA AskRoleTyped ==
  ASSUME Typed, NEW h \in Handlers,
         NEW at \in {"insert", "upsert", "add", "assign", "update"},
         NEW w \in Spaces, NEW p \in People, NEW r \in Roles \cup {"none"},
         AskRole(h, at, w, p, r)
  PROVE  Typed'
<1> DEFINE j == [Idle EXCEPT !.at = at, !.w = w, !.p = p, !.r = r]
<1>1. at \in Steps /\ w \in 0 .. MaxSpaces /\ p \in 0 .. MaxPeople
  BY DEF Steps, Spaces, People
<1>2. j \in Job
  BY <1>1, IdleIsAJob DEF Job
<1>3. Target(j)
  BY DEF Target, Idle
<1> QED BY <1>2, <1>3, AskTyped DEF AskRole

LEMMA AskAccountTyped ==
  ASSUME Typed, NEW h \in Handlers,
         NEW at \in {"enable", "disable", "promote", "demote", "transfer"},
         NEW me \in 0 .. MaxPeople, NEW p \in 0 .. MaxPeople,
         AskAccount(h, at, me, p)
  PROVE  Typed'
<1> DEFINE j == [Idle EXCEPT !.at = at, !.me = me, !.p = p]
<1>1. at \in Steps
  BY DEF Steps
<1>2. j \in Job
  BY <1>1, IdleIsAJob DEF Job
<1>3. Target(j)
  BY DEF Target, Idle
<1> QED BY <1>2, <1>3, AskTyped DEF AskAccount

LEMMA AskDropTyped ==
  ASSUME Typed, NEW h \in Handlers, NEW me \in 0 .. MaxPeople,
         NEW w \in Spaces, AskDrop(h, me, w)
  PROVE  Typed'
<1> DEFINE j == [Idle EXCEPT !.at = "drop", !.me = me, !.w = w]
<1>1. "drop" \in Steps /\ w \in 0 .. MaxSpaces
  BY DEF Steps, Spaces
<1>2. j \in Job
  BY <1>1, IdleIsAJob DEF Job
<1>3. Target(j)
  BY DEF Target, Idle
<1> QED BY <1>2, <1>3, AskTyped DEF AskDrop

LEMMA PeopleAreNumbers ==
  ASSUME Typed
  PROVE  /\ accounts \subseteq People /\ People \subseteq 0 .. MaxPeople
         /\ \A w \in Spaces : Members(w) \subseteq accounts
<1>1. accounts \subseteq 1 .. born /\ born \in 1 .. MaxPeople /\ References
  BY DEF Typed, TypeOK
<1> QED BY <1>1 DEF People, References

-----------------------------------------------------------------------------
(* The actions. *)
LEMMA AccountsTyped ==
  ASSUME Typed, NEW h \in Handlers,
         \/ CreateUser(h) \/ Grant(h) \/ NoSpaceOfTheirOwn(h)
         \/ CreateWorkspace(h)
  PROVE  Typed'
<1>1. CASE CreateUser(h)
  <2>1. born + 1 \in People /\ born' = born + 1 /\ born' \in 1 .. MaxPeople
    <3>1. born \in 1 .. MaxPeople
      BY DEF Typed, TypeOK
    <3>2. born < MaxPeople /\ born' = born + 1
      BY <1>1 DEF CreateUser
    <3> QED BY <3>1, <3>2 DEF People
  <2>2. /\ job' \in [Handlers -> Job]
        /\ \A g \in Handlers : Target(job'[g])
    <3>1. ASSUME NEW me \in AdminOnly, NEW w \in Spaces, NEW r \in Roles,
                 Ask(h, [Idle EXCEPT !.at = "grant", !.me = me,
                                     !.p = born + 1, !.w = w, !.r = r])
          PROVE  /\ job' \in [Handlers -> Job]
                 /\ \A g \in Handlers : Target(job'[g])
      <4> DEFINE j == [Idle EXCEPT !.at = "grant", !.me = me,
                                   !.p = born + 1, !.w = w, !.r = r]
      <4>1. me \in 0 .. MaxPeople
        BY DEF AdminOnly, Active, Typed, TypeOK
      <4>2. j \in Job /\ Target(j)
        <5>1. /\ "grant" \in Steps /\ born + 1 \in 0 .. MaxPeople
              /\ w \in 0 .. MaxSpaces /\ r \in Roles \cup {"none"}
          BY <2>1 DEF Steps, People, Spaces
        <5>2. j \in Job
          BY <4>1, <5>1, IdleIsAJob DEF Job
        <5>3. Target(j)
          BY <2>1 DEF Idle, Target
        <5> QED BY <5>2, <5>3
      <4> QED BY <3>1, <4>2, AskKeepsJobs
    <3>2. CASE Ask(h, Newcomer("house", born + 1))
      BY <2>1, <3>2, NewcomerIsAJob, AskKeepsJobs
    <3> QED BY <1>1, <3>1, <3>2 DEF CreateUser
  <2>3. accounts' = accounts \cup {born + 1} /\ accounts' \subseteq 1 .. born'
    <3>1. accounts' = accounts \cup {born + 1}
      BY <1>1 DEF CreateUser
    <3>2. accounts \subseteq 1 .. born /\ born \in Nat
      BY DEF Typed, TypeOK
    <3> QED BY <2>1, <3>1, <3>2
  <2>4. admins' \subseteq accounts'
    BY <1>1, <2>3 DEF CreateUser, Typed, TypeOK, References
  <2>5. References'
    BY <1>1, <2>3, <2>4
       DEF CreateUser, Typed, TypeOK, References, Members, Member
  <2> QED BY <1>1, <2>1, <2>2, <2>3, <2>5
             DEF CreateUser, Typed, TypeOK, Located
<1>3. CASE Grant(h)
  <2> DEFINE j == [job[h] EXCEPT !.at = "insert", !.then = "house",
                                 !.me = Nobody]
  <2>1. job[h] \in Job /\ Target(job[h]) /\ job[h].at = "grant"
    BY <1>3 DEF Grant, Typed, TypeOK, Located
  <2>2. j \in Job /\ Target(j)
    <3>1. "insert" \in Steps /\ "house" \in Steps /\ Nobody \in 0 .. MaxPeople
      BY DEF Steps, Nobody
    <3>2. j \in Job
      BY <2>1, <3>1 DEF Job
    <3>3. Target(j)
      BY <2>1 DEF Job, Target
    <3> QED BY <3>2, <3>3
  <2>3. job[h].p \in People
    BY <2>1 DEF Target
  <2> QED BY <1>3, <2>2, <2>3, NewcomerIsAJob, AskTyped DEF Grant
<1>4. CASE NoSpaceOfTheirOwn(h)
  <2>1. job[h].p \in People
    BY <1>4 DEF NoSpaceOfTheirOwn, Typed, Located, Target
  <2> QED BY <1>4, <2>1, NewcomerIsAJob, AskTyped DEF NoSpaceOfTheirOwn
<1>5. CASE CreateWorkspace(h)
  <2>1. \A me \in Active : me \in People
    BY DEF Active, Typed, TypeOK, People
  <2> QED BY <1>5, <2>1, NewcomerIsAJob, AskTyped DEF CreateWorkspace
<1> QED BY <1>1, <1>3, <1>4, <1>5

LEMMA RequestsTyped ==
  ASSUME Typed, NEW h \in Handlers,
         \/ AcceptInvite(h) \/ AddWorkspaceMember(h) \/ UpdateMember(h)
         \/ RemoveMember(h) \/ AdminMembership(h) \/ AdoptWorkspace(h)
         \/ DeleteWorkspace(h) \/ DeleteStrandedWorkspace(h)
         \/ SetUserDisabled(h) \/ UpdateUser(h) \/ TransferOwner(h)
  PROVE  Typed'
<1> USE PeopleAreNumbers DEF Active, OwnerOnly
<1>1. CASE AcceptInvite(h)
  BY <1>1, AskRoleTyped DEF AcceptInvite
<1>2. CASE AddWorkspaceMember(h)
  BY <1>2, AskRoleTyped DEF AddWorkspaceMember
<1>3. CASE UpdateMember(h)
  BY <1>3, AskRoleTyped DEF UpdateMember
<1>4. CASE RemoveMember(h)
  BY <1>4, AskRoleTyped DEF RemoveMember
<1>5. CASE AdminMembership(h)
  BY <1>5, AskRoleTyped DEF AdminMembership
<1>6. CASE AdoptWorkspace(h)
  BY <1>6, AskRoleTyped, "admin" \in Roles DEF AdoptWorkspace
<1>7. CASE DeleteWorkspace(h)
  BY <1>7, AskDropTyped DEF DeleteWorkspace
<1>8. CASE DeleteStrandedWorkspace(h)
  BY <1>8, AskDropTyped DEF DeleteStrandedWorkspace, Nobody
<1>9. CASE SetUserDisabled(h)
  BY <1>9, AskAccountTyped DEF SetUserDisabled, Nobody
<1>10. CASE UpdateUser(h)
  BY <1>10, AskAccountTyped DEF UpdateUser, Nobody
<1>11. CASE TransferOwner(h)
  BY <1>11, AskAccountTyped DEF TransferOwner
<1> QED BY <1>1, <1>2, <1>3, <1>4, <1>5, <1>6, <1>7, <1>8, <1>9, <1>10, <1>11

LEMMA RolesTyped ==
  ASSUME Typed, NEW h \in Handlers,
         NewSpace(h) \/ JoinAutoWorkspaces(h) \/ WriteRole(h)
  PROVE  Typed'
<1> DEFINE j == job[h]
<1>0. j \in Job /\ Target(j) /\ References
  BY DEF Typed, TypeOK, Located
<1>1. CASE NewSpace(h)
  <2>1. j.p \in People
    BY <1>0, <1>1 DEF NewSpace, Target
  <2>2. job' \in [Handlers -> Job] /\ \A g \in Handlers : Target(job'[g])
    BY <1>1, <2>1, NewcomerIsAJob, IdleIsAJob, AskKeepsJobs DEF NewSpace
  <2>3. made' \in 1 .. MaxSpaces /\ made + 1 \in Spaces
    <3>1. made \in 1 .. MaxSpaces
      BY DEF Typed, TypeOK
    <3>2. made < MaxSpaces /\ made' = made + 1
      BY <1>1 DEF NewSpace
    <3> QED BY <3>1, <3>2 DEF Spaces
  <2>4. space' \in [Spaces -> [is : BOOLEAN, personal : BOOLEAN,
                               owner : 0 .. MaxPeople, open : BOOLEAN]]
    BY <1>1, <2>1, <2>3 DEF NewSpace, Typed, TypeOK, People
  <2>5. \A w \in Spaces : space'[w].open => space'[w].is
    BY <1>1, <2>3 DEF NewSpace, Typed, TypeOK, Located
  <2>6. role' \in [Spaces -> [People -> Roles \cup {"none"}]]
    BY <1>1, <2>3 DEF NewSpace, Typed, TypeOK
  <2>7. References'
    BY <1>0, <1>1, <2>3
       DEF NewSpace, Typed, TypeOK, References, Members, Member
  <2> QED BY <1>1, <2>2, <2>3, <2>4, <2>5, <2>6, <2>7
             DEF NewSpace, Typed, TypeOK, Located
<1>2. CASE JoinAutoWorkspaces(h)
  <2>1. job' \in [Handlers -> Job] /\ \A g \in Handlers : Target(job'[g])
    BY <1>2, DoneKeepsJobs DEF JoinAutoWorkspaces
  <2>2. role' \in [Spaces -> [People -> Roles \cup {"none"}]]
    BY <1>2 DEF JoinAutoWorkspaces, Typed, TypeOK
  <2>3. \A w \in Spaces : /\ Members(w)' \subseteq accounts
                          /\ Members(w)' # {} => space[w].is
    BY <1>0, <1>2
       DEF JoinAutoWorkspaces, Typed, TypeOK, Located, References, Members,
           Member
  <2> QED BY <1>0, <1>2, <2>1, <2>2, <2>3
             DEF JoinAutoWorkspaces, Typed, TypeOK, Located, References
<1>3. CASE WriteRole(h)
  <2>1. /\ j.at \in {"insert", "upsert", "add", "assign", "update"}
        /\ j.w \in Spaces /\ j.p \in People
    BY <1>0, <1>3 DEF WriteRole, Target
  <2>2. After(j) \in Job /\ Target(After(j))
    <3>1. CASE j.then = "idle"
      BY <3>1, IdleIsAJob DEF After
    <3>2. CASE j.then = "own"
      <4> DEFINE k == [j EXCEPT !.at = "own", !.then = "idle", !.r = "none"]
      <4>1. "own" \in Steps /\ "idle" \in Steps
        BY DEF Steps
      <4>2. k \in Job
        BY <1>0, <4>1 DEF Job
      <4>3. Target(k)
        BY <1>0, <2>1 DEF Job, Target
      <4>4. After(j) = k
        BY <3>2 DEF After
      <4> QED BY <4>2, <4>3, <4>4
    <3>3. CASE j.then = "house"
      BY <2>1, <3>3, NewcomerIsAJob DEF After
    <3> QED BY <1>0, <3>1, <3>2, <3>3 DEF Target
  <2>3. job' \in [Handlers -> Job] /\ \A g \in Handlers : Target(job'[g])
    BY <1>3, <2>2, AskKeepsJobs DEF WriteRole
  <2>4. role' \in [Spaces -> [People -> Roles \cup {"none"}]]
    BY <1>0, <1>3, <2>1 DEF WriteRole, Typed, TypeOK, Job
  <2>5. \A w \in Spaces : /\ Members(w)' \subseteq accounts
                          /\ Members(w)' # {} => space[w].is
    BY <1>0, <1>3, <2>1
       DEF WriteRole, Applies, Typed, TypeOK, References, Members, Member
  <2>6. left' \subseteq Spaces
    BY <1>3, <2>1 DEF WriteRole, Typed, TypeOK
  <2> QED BY <1>0, <1>3, <2>3, <2>4, <2>5, <2>6
             DEF WriteRole, Typed, TypeOK, Located, References
<1> QED BY <1>1, <1>2, <1>3

LEMMA FlagsTyped ==
  ASSUME Typed, NEW h \in Handlers, SetFlags(h) \/ SeatOwner(h)
  PROVE  Typed'
<1>1. /\ job' \in [Handlers -> Job] /\ \A g \in Handlers : Target(job'[g])
  BY DoneKeepsJobs DEF SetFlags, SeatOwner
<1>2. CASE SetFlags(h)
  <2>1. disabled' \subseteq accounts /\ admins' \subseteq accounts
    BY <1>2 DEF SetFlags, Typed, TypeOK, References
  <2> QED BY <1>1, <1>2, <2>1
             DEF SetFlags, Typed, TypeOK, Located, References, Members, Member
<1>3. CASE SeatOwner(h)
  <2>1. owners' \subseteq accounts
    BY <1>3 DEF SeatOwner, Typed, TypeOK, References
  <2> QED BY <1>1, <1>3, <2>1
             DEF SeatOwner, Typed, TypeOK, Located, References, Members, Member
<1> QED BY <1>2, <1>3

LEMMA PurgeTyped ==
  ASSUME Typed, NEW w \in Spaces, Purge(w),
         UNCHANGED <<accounts, disabled, admins, owners, born, made>>,
         job' \in [Handlers -> Job], \A g \in Handlers : Target(job'[g])
  PROVE  Typed'
<1>1. NoSpace \in [is : BOOLEAN, personal : BOOLEAN,
                  owner : 0 .. MaxPeople, open : BOOLEAN]
  BY DEF NoSpace, Nobody
<1>2. space' \in [Spaces -> [is : BOOLEAN, personal : BOOLEAN,
                             owner : 0 .. MaxPeople, open : BOOLEAN]]
  BY <1>1 DEF Purge, Typed, TypeOK
<1>3. \A v \in Spaces : space'[v].open => space'[v].is
  BY DEF Purge, NoSpace, Typed, TypeOK, Located
<1>4. role' \in [Spaces -> [People -> Roles \cup {"none"}]]
  BY DEF Purge, Typed, TypeOK
<1>5. \A v \in Spaces : /\ Members(v)' \subseteq accounts
                        /\ Members(v)' # {} => space'[v].is
  BY DEF Purge, Typed, TypeOK, References, Members, Member
<1> QED BY <1>2, <1>3, <1>4, <1>5
           DEF Purge, Typed, TypeOK, Located, References

(* Who owns a workspace, and whether it is personal, is nobody's business  *)
(* here.                                                                   *)
LEMMA SpaceTyped ==
  ASSUME Typed, NEW w \in Spaces, NEW b \in BOOLEAN, NEW o \in 0 .. MaxPeople,
         \/ space' = space
         \/ space' = [space EXCEPT ![w].personal = b]
         \/ space' = [space EXCEPT ![w].owner = o],
         UNCHANGED <<accounts, disabled, admins, owners, role, born, made,
                     left>>,
         job' \in [Handlers -> Job], \A g \in Handlers : Target(job'[g])
  PROVE  Typed'
<1> DEFINE Row == [is : BOOLEAN, personal : BOOLEAN,
                   owner : 0 .. MaxPeople, open : BOOLEAN]
           Same == \A v \in Spaces : /\ space'[v].open = space[v].open
                                     /\ space'[v].is = space[v].is
<1>0. space \in [Spaces -> Row]
  BY DEF Typed, TypeOK
<1>1. space' \in [Spaces -> Row] /\ Same
  <2>1. CASE space' = space
    BY <1>0, <2>1
  <2>2. CASE space' = [space EXCEPT ![w].personal = b]
    BY <1>0, <2>2
  <2>3. CASE space' = [space EXCEPT ![w].owner = o]
    BY <1>0, <2>3
  <2> QED BY <2>1, <2>2, <2>3
<1> QED BY <1>1 DEF Typed, TypeOK, Located, References, Members, Member

LEMMA DeletionTyped ==
  ASSUME Typed, NEW h \in Handlers,
         \/ DeleteUser(h) \/ DeleteAccount(h) \/ PurgeWorkspace(h)
         \/ PurgePersonal(h)
  PROVE  Typed'
<1> DEFINE j == job[h]
<1>0. j \in Job /\ Target(j)
  BY DEF Typed, TypeOK, Located
<1>1. CASE DeleteUser(h)
  <2>1. PICK p \in accounts :
          Ask(h, [Idle EXCEPT !.at = "delete", !.gone = p,
                              !.purge = Lonely(p),
                              !.share = Own(p) \ Lonely(p),
                              !.hand = Orphaned(p)])
    BY <1>1 DEF DeleteUser
  <2> DEFINE k == [Idle EXCEPT !.at = "delete", !.gone = p,
                               !.purge = Lonely(p),
                               !.share = Own(p) \ Lonely(p),
                               !.hand = Orphaned(p)]
  <2>2. /\ "delete" \in Steps /\ p \in 0 .. MaxPeople
        /\ Lonely(p) \in SUBSET Spaces /\ Own(p) \ Lonely(p) \in SUBSET Spaces
        /\ Orphaned(p) \in SUBSET Spaces
    BY PeopleAreNumbers DEF Steps, Lonely, Own, Theirs, Orphaned
  <2>3. k \in Job
    BY <2>2, IdleIsAJob DEF Job
  <2>4. Target(k)
    BY DEF Target, Idle
  <2> QED BY <1>1, <2>1, <2>3, <2>4, AskTyped DEF DeleteUser
<1>2. CASE DeleteAccount(h)
  <2> DEFINE k == [j EXCEPT !.at = "loop"]
  <2>1. "loop" \in Steps /\ j.at = "delete"
    BY <1>2 DEF Steps, DeleteAccount
  <2>2. k \in Job /\ Target(k)
    BY <1>0, <2>1 DEF Job, Target
  <2>3. job' \in [Handlers -> Job] /\ \A g \in Handlers : Target(job'[g])
    BY <1>2, <2>2, AskKeepsJobs DEF DeleteAccount
  <2>4. role' \in [Spaces -> [People -> Roles \cup {"none"}]]
    BY <1>2 DEF DeleteAccount, Typed, TypeOK
  <2>5. \A w \in Spaces : /\ Members(w)' \subseteq accounts'
                          /\ Members(w)' # {} => space[w].is
    BY <1>2 DEF DeleteAccount, Typed, TypeOK, References, Members, Member
  <2> QED BY <1>2, <2>3, <2>4, <2>5
             DEF DeleteAccount, Typed, TypeOK, Located, References
<1>3. CASE PurgeWorkspace(h)
  BY <1>0, <1>3, DoneKeepsJobs, PurgeTyped DEF PurgeWorkspace, Target
<1>4. CASE PurgePersonal(h)
  <2>1. PICK w \in First(j.purge) :
          Purge(w) /\ Ask(h, [j EXCEPT !.purge = @ \ {w}])
    BY <1>4 DEF PurgePersonal
  <2>2. w \in Spaces
    BY <1>0, <2>1, FirstIsOne DEF Job
  <2> DEFINE k == [j EXCEPT !.purge = @ \ {w}]
  <2>3. k \in Job /\ Target(k)
    BY <1>0 DEF Job, Target
  <2>4. job' \in [Handlers -> Job] /\ \A g \in Handlers : Target(job'[g])
    BY <2>1, <2>3, AskKeepsJobs
  <2> QED BY <1>4, <2>1, <2>2, <2>4, PurgeTyped DEF PurgePersonal
<1> QED BY <1>1, <1>2, <1>3, <1>4

(* The loops over the workspaces of an account that is gone. *)
LEMMA HeirsTyped ==
  ASSUME Typed, NEW h \in Handlers,
         ShareOut(h) \/ FindHeir(h) \/ Inherit(h)
  PROVE  Typed'
<1> DEFINE j == job[h]
<1>0. j \in Job /\ Target(j)
  BY DEF Typed, TypeOK, Located
<1>1. CASE ShareOut(h)
  <2>1. PICK w \in First(j.share) :
          /\ space' = IF space[w].is
                      THEN [space EXCEPT ![w].personal = FALSE] ELSE space
          /\ Ask(h, [j EXCEPT !.at = "heir", !.w = w, !.share = @ \ {w}])
    BY <1>1 DEF ShareOut
  <2>2. w \in Spaces /\ w \in 0 .. MaxSpaces /\ "heir" \in Steps
    BY <1>0, <2>1, FirstIsOne DEF Job, Steps, Spaces
  <2>3. j.at = "loop"
    BY <1>1 DEF ShareOut
  <2> DEFINE k == [j EXCEPT !.at = "heir", !.w = w, !.share = @ \ {w}]
  <2>4. k \in Job
    BY <1>0, <2>2 DEF Job
  <2>5. Target(k)
    BY <1>0, <2>2, <2>3 DEF Job, Target
  <2>6. job' \in [Handlers -> Job] /\ \A g \in Handlers : Target(job'[g])
    BY <2>1, <2>4, <2>5, AskKeepsJobs
  <2>7. Nobody \in 0 .. MaxPeople
    BY DEF Nobody
  <2> QED BY <1>1, <2>1, <2>2, <2>6, <2>7, SpaceTyped DEF ShareOut
<1>2. CASE FindHeir(h)
  <2>1. j.at = "heir" /\ j.w \in Spaces
    BY <1>0, <1>2 DEF FindHeir, Target
  <2>2. CASE Ask(h, [j EXCEPT !.at = "loop", !.w = 0])
    <3> DEFINE k == [j EXCEPT !.at = "loop", !.w = 0]
    <3>1. "loop" \in Steps /\ 0 \in 0 .. MaxSpaces
      BY DEF Steps
    <3>2. k \in Job
      BY <1>0, <3>1 DEF Job
    <3>3. Target(k)
      BY <1>0, <2>1 DEF Job, Target
    <3> QED BY <1>2, <2>2, <3>2, <3>3, AskTyped DEF FindHeir
  <2>3. ASSUME NEW q \in Senior(j.w, j.gone),
               Ask(h, [j EXCEPT !.at = "update", !.p = q, !.r = "admin",
                                !.then = "own", !.back = "loop"])
        PROVE  Typed'
    <3> DEFINE k == [j EXCEPT !.at = "update", !.p = q, !.r = "admin",
                              !.then = "own", !.back = "loop"]
    <3>1. q \in People /\ q \in 0 .. MaxPeople
      BY PeopleAreNumbers DEF Senior, First, Active
    <3>2. /\ "update" \in Steps /\ "own" \in Steps /\ "loop" \in Steps
          /\ "admin" \in Roles \cup {"none"}
      BY DEF Steps
    <3>3. k \in Job
      BY <1>0, <3>1, <3>2 DEF Job
    <3>4. Target(k)
      BY <1>0, <2>1, <3>1 DEF Job, Target
    <3> QED BY <1>2, <2>3, <3>3, <3>4, AskTyped DEF FindHeir
  <2> QED BY <1>2, <2>2, <2>3 DEF FindHeir
<1>3. CASE Inherit(h)
  <2>1. j.at = "own" /\ j.w \in Spaces /\ j.p \in 0 .. MaxPeople
    BY <1>0, <1>3 DEF Inherit, Target, Job
  <2> DEFINE k == [j EXCEPT !.at = j.back, !.back = "idle", !.w = 0,
                            !.p = Nobody]
  <2>2. "idle" \in Steps /\ 0 \in 0 .. MaxSpaces /\ Nobody \in 0 .. MaxPeople
    BY DEF Steps, Nobody
  <2>3. k \in Job
    BY <1>0, <2>2 DEF Job
  <2>4. Target(k)
    BY <1>0, <2>1 DEF Job, Target
  <2>5. job' \in [Handlers -> Job] /\ \A g \in Handlers : Target(job'[g])
    BY <1>3, <2>3, <2>4, AskKeepsJobs DEF Inherit
  <2> QED BY <1>3, <2>1, <2>5, SpaceTyped DEF Inherit
<1> QED BY <1>1, <1>2, <1>3

LEMMA HandOverTyped ==
  ASSUME Typed, NEW h \in Handlers,
         \/ FindBoss(h) \/ HandOver(h) \/ FindRest(h) \/ PassOn(h)
         \/ DeleteUserEnds(h)
  PROVE  Typed'
<1> DEFINE j == job[h]
<1>0. j \in Job /\ Target(j)
  BY DEF Typed, TypeOK, Located
<1>1. CASE FindBoss(h)
  <2>1. PICK o \in IF owners = {} THEN {Nobody} ELSE owners :
          Ask(h, [j EXCEPT !.at = "hand", !.boss = o,
                           !.hand = IF o \in {Nobody, j.gone} THEN {} ELSE @])
    BY <1>1 DEF FindBoss
  <2> DEFINE H == IF o \in {Nobody, j.gone} THEN {} ELSE j.hand
             k == [j EXCEPT !.at = "hand", !.boss = o, !.hand = H]
  <2>2. o # Nobody => o \in People
    BY <2>1, PeopleAreNumbers DEF Typed, TypeOK, References
  <2>3. /\ "hand" \in Steps /\ o \in 0 .. MaxPeople
        /\ H \in SUBSET Spaces
    BY <1>0, <2>2, PeopleAreNumbers DEF Steps, Nobody, Job
  <2>4. k \in Job
    BY <1>0, <2>3 DEF Job
  <2>5. Target(k)
    BY <1>0, <2>2 DEF Job, Target
  <2>6. k = [j EXCEPT !.at = "hand", !.boss = o,
                      !.hand = IF o \in {Nobody, j.gone} THEN {} ELSE @]
    BY <1>0 DEF Job
  <2> QED BY <1>1, <2>1, <2>4, <2>5, <2>6, AskTyped DEF FindBoss
<1>2. CASE HandOver(h)
  <2>1. PICK w \in First(j.hand) :
          Ask(h, [j EXCEPT !.at = "upsert", !.p = j.boss, !.w = w,
                           !.r = "admin", !.then = "own", !.back = "hand",
                           !.hand = @ \ {w}])
    BY <1>2 DEF HandOver
  <2> DEFINE k == [j EXCEPT !.at = "upsert", !.p = j.boss, !.w = w,
                            !.r = "admin", !.then = "own", !.back = "hand",
                            !.hand = @ \ {w}]
  <2>2. w \in j.hand /\ w \in Spaces /\ w \in 0 .. MaxSpaces
    BY <1>0, <2>1, FirstIsOne DEF Job, Spaces
  <2>3. j.boss \in People /\ j.boss \in 0 .. MaxPeople
    BY <1>0, <1>2, <2>2 DEF HandOver, Target, Job
  <2>4. /\ "upsert" \in Steps /\ "own" \in Steps /\ "hand" \in Steps
        /\ "admin" \in Roles \cup {"none"}
    BY DEF Steps
  <2>5. k \in Job
    BY <1>0, <2>2, <2>3, <2>4 DEF Job
  <2>6. Target(k)
    BY <1>0, <2>2, <2>3 DEF Job, Target
  <2> QED BY <1>2, <2>1, <2>5, <2>6, AskTyped DEF HandOver
<1>3. CASE FindRest(h)
  <2> DEFINE R == StillOwned(j.gone)
             k == [j EXCEPT !.at = "rest", !.rest = R]
  <2>1. "rest" \in Steps /\ R \in SUBSET Spaces
    BY DEF Steps, StillOwned
  <2>2. k \in Job
    BY <1>0, <2>1 DEF Job
  <2>3. Target(k)
    BY <1>0, <1>3 DEF FindRest, Job, Target
  <2> QED BY <1>3, <2>2, <2>3, AskTyped, DoneTyped DEF FindRest
<1>4. CASE PassOn(h)
  <2>1. PICK w \in j.rest :
          LET k == [j EXCEPT !.rest = @ \ {w}]
              S == Successors(w, j.gone, j.boss) IN
          \/ S = {} /\ Ask(h, k)
          \/ \E q \in S : Ask(h, [k EXCEPT !.at = "own", !.w = w, !.p = q,
                                            !.back = "rest"])
    BY <1>4 DEF PassOn
  <2> DEFINE k == [j EXCEPT !.rest = @ \ {w}]
  <2>2. j.at = "rest" /\ w \in Spaces /\ w \in 0 .. MaxSpaces
    <3>1. j.at = "rest"
      BY <1>4 DEF PassOn
    <3>2. j.rest \subseteq Spaces
      BY <1>0 DEF Job
    <3>3. w \in Spaces
      BY <2>1, <3>2
    <3> QED BY <3>1, <3>3 DEF Spaces
  <2>3. k \in Job /\ Target(k) /\ k.at = "rest"
    BY <1>0, <2>2 DEF Job, Target
  <2>4. ASSUME NEW q \in Successors(w, j.gone, j.boss),
               Ask(h, [k EXCEPT !.at = "own", !.w = w, !.p = q,
                                !.back = "rest"])
        PROVE  Typed'
    <3> DEFINE l == [k EXCEPT !.at = "own", !.w = w, !.p = q, !.back = "rest"]
    <3>1. q \in 0 .. MaxPeople /\ q # 0
      BY <1>0, PeopleAreNumbers
         DEF Successors, First, OtherAdmins, ActiveAdmins, Active, Job, Nobody,
             People
    <3>2. q \in People /\ "own" \in Steps /\ "rest" \in Steps
      BY <3>1 DEF People, Steps
    <3> HIDE DEF k
    <3>3. l \in Job
      BY <2>2, <2>3, <3>1, <3>2 DEF Job
    <3>4. Target(l)
      BY <2>2, <2>3, <3>2 DEF Job, Target
    <3> QED BY <1>4, <2>4, <3>3, <3>4, AskTyped DEF PassOn
  <2>5. CASE Ask(h, k)
    BY <1>4, <2>3, <2>5, AskTyped DEF PassOn
  <2> QED BY <2>1, <2>4, <2>5
<1>5. CASE DeleteUserEnds(h)
  BY <1>5, DoneTyped DEF DeleteUserEnds
<1> QED BY <1>1, <1>2, <1>3, <1>4, <1>5

LEMMA RestartTyped ==
  ASSUME Typed, Restart
  PROVE  Typed'
<1>1. job' \in [Handlers -> Job] /\ \A h \in Handlers : Target(job'[h])
  BY IdleIsAJob DEF Restart
<1>2. owners' \subseteq accounts
  BY FirstIsOne DEF Restart, Elected, Active, Typed, TypeOK, References
<1>3. left' \subseteq Spaces
  BY DEF Restart, HalfDone, Typed, TypeOK
<1> DEFINE Row == [is : BOOLEAN, personal : BOOLEAN,
                   owner : 0 .. MaxPeople, open : BOOLEAN]
           F == First({w \in Spaces : space[w].is /\ ~ space[w].personal})
<1>4. space \in [Spaces -> Row]
  BY DEF Typed, TypeOK
<1>5. /\ space' \in [Spaces -> Row]
      /\ \A w \in Spaces : /\ space'[w].is = space[w].is
                           /\ space'[w].open => space[w].is
  <2>1. CASE space' = space
    BY <1>4, <2>1 DEF Typed, Located
  <2>2. CASE space' = [w \in Spaces |-> [space[w] EXCEPT !.open = (w \in F)]]
    <3>1. \A w \in Spaces : w \in F => space[w].is
      BY FirstIsOne
    <3>2. \A w \in Spaces : space[w] \in Row /\ (w \in F) \in BOOLEAN
      BY <1>4
    <3> HIDE DEF F
    <3> QED BY <2>2, <3>1, <3>2
  <2> QED BY <2>1, <2>2 DEF Restart
<1>6. Located'
  BY <1>1, <1>5 DEF Located
<1>7. References'
  BY <1>2, <1>5
     DEF Restart, Typed, TypeOK, References, Members, Member
<1> HIDE DEF Row, F
<1>8. TypeOK'
  <2>1. UNCHANGED <<accounts, role, born, made>>
    BY DEF Restart
  <2> QED BY <1>1, <1>3, <1>5, <1>7, <2>1 DEF Row, Typed, TypeOK
<1> QED BY <1>6, <1>8 DEF Typed

LEMMA StepTyped ==
  ASSUME Typed, NEW h \in Handlers, Step(h)
  PROVE  Typed'
BY AccountsTyped, RequestsTyped, RolesTyped, FlagsTyped, DeletionTyped,
   HeirsTyped, HandOverTyped DEF Step

LEMMA TypedKept == Typed /\ [Next]_vars => Typed'
<1> SUFFICES ASSUME Typed, [Next]_vars PROVE Typed'
  OBVIOUS
<1>1. CASE UNCHANGED vars
  BY <1>1 DEF vars, Typed, TypeOK, Located, References, Members, Member
<1>2. CASE Next
  BY <1>2, StepTyped, RestartTyped DEF Next
<1> QED BY <1>1, <1>2

LEMMA AlwaysTyped == Spec => []Typed
BY InitTyped, TypedKept, PTL DEF Spec

(* Members are accounts, members are in workspaces that are there, and     *)
(* owners, admins and deactivated people are accounts, however many        *)
(* requests overlap and whenever the server starts again.                  *)
THEOREM TypeInvariant == Spec => []TypeOK
<1>1. Typed => TypeOK
  BY DEF Typed
<1> QED BY AlwaysTyped, <1>1, PTL

-----------------------------------------------------------------------------
(* The owner, when one request is under way at a time.                     *)
OneAtATime == \A g, h \in Handlers : g = h

(* What the checks of a request found still holds when it is written.      *)
Rights(j) ==
    /\ j.at \in {"disable", "demote"} => j.p \notin owners
    /\ j.at = "delete" => j.gone \notin owners
    /\ j.at = "transfer" => /\ j.me \in owners /\ j.me # j.p
                            /\ j.p \in Active \cap admins

Chair == OneOwner /\ \A h \in Handlers : Rights(job[h])

LEMMA InitChair == Init => Chair
BY DEF Init, Chair, OneOwner, Rights, Active, Idle

LEMMA OthersKeepTheChair ==
  ASSUME OneAtATime, Typed, Chair, NEW h \in Handlers, NEW k, Ask(h, k),
         Rights(k), UNCHANGED <<accounts, disabled, admins, owners>>
  PROVE  Chair'
<1>1. OneOwner'
  BY DEF Chair, OneOwner, Active
<1>2. \A g \in Handlers : job'[g] = k
  BY DEF OneAtATime, Ask, Typed, TypeOK
<1>3. \A g \in Handlers : Rights(job[g])'
  BY <1>2 DEF Rights, Active
<1> QED BY <1>1, <1>3 DEF Chair

LEMMA DoneIsAsking ==
  ASSUME NEW h \in Handlers, Done(h)
  PROVE  Ask(h, Idle) /\ Rights(Idle)
BY DEF Done, Ask, Rights, Idle

LEMMA AskRoleKeepsTheChair ==
  ASSUME OneAtATime, Typed, Chair, NEW h \in Handlers,
         NEW at \in {"insert", "upsert", "add", "assign", "update"},
         NEW w, NEW p, NEW r,
         AskRole(h, at, w, p, r)
  PROVE  Chair'
<1>1. Rights([Idle EXCEPT !.at = at, !.w = w, !.p = p, !.r = r])
  BY DEF Rights, Idle
<1> QED BY <1>1, OthersKeepTheChair DEF AskRole, rows

(* Requests that write nothing of the accounts. *)
LEMMA QuietKeepsTheChair ==
  ASSUME OneAtATime, Typed, Chair, NEW h \in Handlers,
         \/ Grant(h) \/ NoSpaceOfTheirOwn(h) \/ NewSpace(h)
         \/ JoinAutoWorkspaces(h) \/ CreateWorkspace(h) \/ WriteRole(h)
         \/ AcceptInvite(h) \/ AddWorkspaceMember(h) \/ UpdateMember(h)
         \/ RemoveMember(h) \/ AdminMembership(h) \/ AdoptWorkspace(h)
         \/ DeleteWorkspace(h) \/ DeleteStrandedWorkspace(h)
         \/ PurgeWorkspace(h)
  PROVE  Chair'
<1> USE OthersKeepTheChair, DoneIsAsking DEF rows
<1>0. job[h] \in Job /\ Target(job[h])
  BY DEF Typed, TypeOK, Located
<1>1. \A at, p : at \in {"house", "create", "join"}
                    => Rights(Newcomer(at, p))
  BY DEF Rights, Newcomer, Idle
<1>2. CASE Grant(h)
  <2>1. Rights([job[h] EXCEPT !.at = "insert", !.then = "house",
                              !.me = Nobody])
    BY <1>0 DEF Rights, Job
  <2> QED BY <1>1, <1>2, <2>1 DEF Grant
<1>3. CASE NoSpaceOfTheirOwn(h)
  BY <1>1, <1>3 DEF NoSpaceOfTheirOwn
<1>4. CASE NewSpace(h)
  <2>1. Rights(Idle)
    BY DEF Rights, Idle
  <2> QED BY <1>1, <1>4, <2>1 DEF NewSpace
<1>5. CASE JoinAutoWorkspaces(h)
  BY <1>5 DEF JoinAutoWorkspaces
<1>6. CASE CreateWorkspace(h)
  BY <1>1, <1>6 DEF CreateWorkspace
<1>7. CASE WriteRole(h)
  <2>1. Rights(After(job[h]))
    <3>1. CASE job[h].then = "idle"
      BY <3>1 DEF After, Rights, Idle
    <3>2. CASE job[h].then = "own"
      BY <1>0, <3>2 DEF After, Rights, Job
    <3>3. CASE job[h].then = "house"
      BY <1>1, <3>3 DEF After
    <3> QED BY <1>0, <3>1, <3>2, <3>3 DEF Target
  <2> QED BY <1>7, <2>1 DEF WriteRole
<1>9. \A me, w : Rights([Idle EXCEPT !.at = "drop", !.me = me, !.w = w])
  BY DEF Rights, Idle
<1>10. CASE AcceptInvite(h)
  BY <1>10, AskRoleKeepsTheChair DEF AcceptInvite
<1>11. CASE AddWorkspaceMember(h)
  BY <1>11, AskRoleKeepsTheChair DEF AddWorkspaceMember
<1>12. CASE UpdateMember(h)
  BY <1>12, AskRoleKeepsTheChair DEF UpdateMember
<1>13. CASE RemoveMember(h)
  BY <1>13, AskRoleKeepsTheChair DEF RemoveMember
<1>14. CASE AdminMembership(h)
  BY <1>14, AskRoleKeepsTheChair DEF AdminMembership
<1>15. CASE AdoptWorkspace(h)
  BY <1>15, AskRoleKeepsTheChair DEF AdoptWorkspace
<1>16. CASE DeleteWorkspace(h)
  BY <1>9, <1>16 DEF DeleteWorkspace, AskDrop
<1>17. CASE DeleteStrandedWorkspace(h)
  BY <1>9, <1>17 DEF DeleteStrandedWorkspace, AskDrop
<1>18. CASE PurgeWorkspace(h)
  BY <1>18 DEF PurgeWorkspace
<1> QED BY <1>2, <1>3, <1>4, <1>5, <1>6, <1>7, <1>10, <1>11, <1>12, <1>13,
           <1>14, <1>15, <1>16, <1>17, <1>18

(* Requests about accounts are checked against the owner ... *)
LEMMA AskingKeepsTheChair ==
  ASSUME OneAtATime, Typed, Chair, NEW h \in Handlers,
         \/ SetUserDisabled(h) \/ UpdateUser(h) \/ TransferOwner(h)
         \/ DeleteUser(h)
  PROVE  Chair'
<1> USE OthersKeepTheChair DEF rows
<1> DEFINE Account(at, me, p) == [Idle EXCEPT !.at = at, !.me = me, !.p = p]
<1>1. CASE SetUserDisabled(h)
  <2>1. \A p : Rights(Account("enable", Nobody, p))
    BY DEF Rights, Idle
  <2>2. \A p : p \notin owners => Rights(Account("disable", Nobody, p))
    BY DEF Rights, Idle
  <2> QED BY <1>1, <2>1, <2>2 DEF SetUserDisabled, AskAccount
<1>2. CASE UpdateUser(h)
  <2>1. \A p : Rights(Account("promote", Nobody, p))
    BY DEF Rights, Idle
  <2>2. \A p : p \notin owners => Rights(Account("demote", Nobody, p))
    BY DEF Rights, Idle
  <2> QED BY <1>2, <2>1, <2>2 DEF UpdateUser, AskAccount
<1>3. CASE TransferOwner(h)
  <2>1. PICK me \in OwnerOnly, p \in accounts :
          p # me /\ MayOwn(p) /\ AskAccount(h, "transfer", me, p)
    BY <1>3 DEF TransferOwner
  <2>2. Rights(Account("transfer", me, p))
    BY <2>1 DEF Rights, Idle, OwnerOnly, MayOwn, Active
  <2> QED BY <2>1, <2>2 DEF AskAccount
<1>4. CASE DeleteUser(h)
  <2>1. PICK p \in accounts :
          /\ p \notin owners
          /\ Ask(h, [Idle EXCEPT !.at = "delete", !.gone = p,
                                 !.purge = Lonely(p),
                                 !.share = Own(p) \ Lonely(p),
                                 !.hand = Orphaned(p)])
    BY <1>4 DEF DeleteUser
  <2>2. Rights([Idle EXCEPT !.at = "delete", !.gone = p,
                            !.purge = Lonely(p),
                            !.share = Own(p) \ Lonely(p),
                            !.hand = Orphaned(p)])
    BY <2>1 DEF Rights, Idle
  <2> QED BY <1>4, <2>1, <2>2 DEF DeleteUser
<1> QED BY <1>1, <1>2, <1>3, <1>4

(* ... and written as they were checked. *)
Quiet(j) == j.at \notin {"disable", "demote", "delete", "transfer"}

LEMMA NothingAskedIsRight ==
  ASSUME OneAtATime, Typed, NEW h \in Handlers, NEW k, Ask(h, k), Quiet(k)
  PROVE  \A g \in Handlers : Rights(job[g])'
<1>1. \A g \in Handlers : job'[g] = k
  BY DEF OneAtATime, Ask, Typed, TypeOK
<1> QED BY <1>1 DEF Rights, Quiet

LEMMA WritingKeepsTheChair ==
  ASSUME OneAtATime, Typed, Chair, NEW h \in Handlers,
         CreateUser(h) \/ SetFlags(h) \/ SeatOwner(h) \/ DeleteAccount(h)
  PROVE  Chair'
<1> DEFINE j == job[h]
<1>0. j \in Job /\ Rights(j) /\ Quiet(Idle)
  BY DEF Typed, TypeOK, Chair, Quiet, Idle
<1>1. PICK o \in Active \cap admins : owners = {o}
  BY DEF Chair, OneOwner
<1>2. CASE CreateUser(h)
  <2>1. OneOwner'
    BY <1>1, <1>2 DEF CreateUser, OneOwner, Active
  <2>2. PICK k : Ask(h, k) /\ Quiet(k)
    <3>1. Quiet(Newcomer("house", born + 1))
      BY DEF Quiet, Newcomer, Idle
    <3>2. \A me, w, r : Quiet([Idle EXCEPT !.at = "grant", !.me = me,
                                      !.p = born + 1, !.w = w, !.r = r])
      BY DEF Quiet, Idle
    <3> QED BY <1>2, <3>1, <3>2 DEF CreateUser
  <2> QED BY <2>1, <2>2, NothingAskedIsRight DEF Chair
<1>3. CASE SetFlags(h)
  <2>1. j.at \in {"disable", "demote"} => j.p # o
    BY <1>0, <1>1 DEF Rights
  <2>2. o \in Active' /\ o \in admins' /\ owners' = {o}
    BY <1>1, <1>3, <2>1 DEF SetFlags, Active
  <2> QED BY <1>0, <1>3, <2>2, NothingAskedIsRight, DoneIsAsking
          DEF SetFlags, Chair, OneOwner
<1>4. CASE SeatOwner(h)
  <2>1. j.me = o /\ j.p \in Active \cap admins /\ j.p \in accounts
    BY <1>0, <1>1, <1>4 DEF SeatOwner, Rights, Active
  <2>2. owners' = {j.p} /\ j.p \in Active' /\ j.p \in admins'
    BY <1>1, <1>4, <2>1 DEF SeatOwner, Active
  <2> QED BY <1>0, <1>4, <2>2, NothingAskedIsRight, DoneIsAsking
          DEF SeatOwner, Chair, OneOwner
<1>5. CASE DeleteAccount(h)
  <2>1. j.gone # o
    BY <1>0, <1>1, <1>5 DEF DeleteAccount, Rights
  <2>2. owners' = {o} /\ o \in Active' /\ o \in admins'
    BY <1>1, <1>5, <2>1 DEF DeleteAccount, Active
  <2>3. Quiet([j EXCEPT !.at = "loop"])
    BY <1>0 DEF Quiet, Job
  <2> QED BY <1>5, <2>2, <2>3, NothingAskedIsRight
          DEF DeleteAccount, Chair, OneOwner
<1> QED BY <1>2, <1>3, <1>4, <1>5

(* What follows the deletion of an account does not touch the accounts.    *)
LEMMA ClearingKeepsTheChair ==
  ASSUME OneAtATime, Typed, Chair, NEW h \in Handlers,
         \/ PurgePersonal(h) \/ ShareOut(h) \/ FindHeir(h) \/ Inherit(h)
         \/ FindBoss(h) \/ HandOver(h) \/ FindRest(h) \/ PassOn(h)
         \/ DeleteUserEnds(h)
  PROVE  Chair'
<1> DEFINE j == job[h]
<1>0. j \in Job /\ Target(j)
  BY DEF Typed, TypeOK, Located
<1>1. UNCHANGED <<accounts, disabled, admins, owners>>
  BY DEF rows, PurgePersonal, ShareOut, FindHeir, Inherit, FindBoss,
         HandOver, FindRest, PassOn, DeleteUserEnds
<1>2. ASSUME NEW k, Ask(h, k), Quiet(k)
      PROVE  Chair'
  BY <1>1, <1>2, OthersKeepTheChair DEF Quiet, Rights
<1>3. Quiet(Idle) /\ (Done(h) => Ask(h, Idle))
  BY DoneIsAsking DEF Quiet, Idle
<1>4. CASE PurgePersonal(h)
  <2>1. PICK w : Ask(h, [j EXCEPT !.purge = @ \ {w}])
    BY <1>4 DEF PurgePersonal
  <2>2. Quiet([j EXCEPT !.purge = @ \ {w}])
    BY <1>0, <1>4 DEF PurgePersonal, Quiet, Job
  <2> QED BY <1>2, <2>1, <2>2
<1>5. CASE ShareOut(h)
  <2>1. PICK w : Ask(h, [j EXCEPT !.at = "heir", !.w = w, !.share = @ \ {w}])
    BY <1>5 DEF ShareOut
  <2>2. Quiet([j EXCEPT !.at = "heir", !.w = w, !.share = @ \ {w}])
    BY <1>0 DEF Quiet, Job
  <2> QED BY <1>2, <2>1, <2>2
<1>6. CASE FindHeir(h)
  <2>1. Quiet([j EXCEPT !.at = "loop", !.w = 0])
    BY <1>0 DEF Quiet, Job
  <2>2. ASSUME NEW q,
               Ask(h, [j EXCEPT !.at = "update", !.p = q, !.r = "admin",
                                !.then = "own", !.back = "loop"])
        PROVE  Chair'
    <3>1. Quiet([j EXCEPT !.at = "update", !.p = q, !.r = "admin",
                          !.then = "own", !.back = "loop"])
      BY <1>0 DEF Quiet, Job
    <3> QED BY <1>2, <2>2, <3>1
  <2> QED BY <1>2, <1>6, <2>1, <2>2 DEF FindHeir
<1>7. CASE Inherit(h)
  <2>1. Ask(h, [j EXCEPT !.at = j.back, !.back = "idle", !.w = 0,
                         !.p = Nobody])
    BY <1>7 DEF Inherit
  <2>2. Quiet([j EXCEPT !.at = j.back, !.back = "idle", !.w = 0,
                        !.p = Nobody])
    BY <1>0 DEF Quiet, Job, Target
  <2> QED BY <1>2, <2>1, <2>2
<1>8. CASE FindBoss(h)
  <2>1. PICK o : Ask(h, [j EXCEPT !.at = "hand", !.boss = o,
                            !.hand = IF o \in {Nobody, j.gone} THEN {} ELSE @])
    BY <1>8 DEF FindBoss
  <2>2. Quiet([j EXCEPT !.at = "hand", !.boss = o,
                        !.hand = IF o \in {Nobody, j.gone} THEN {} ELSE @])
    BY <1>0 DEF Quiet, Job
  <2> QED BY <1>2, <2>1, <2>2
<1>9. CASE HandOver(h)
  <2>1. PICK w : Ask(h, [j EXCEPT !.at = "upsert", !.p = j.boss, !.w = w,
                                  !.r = "admin", !.then = "own",
                                  !.back = "hand", !.hand = @ \ {w}])
    BY <1>9 DEF HandOver
  <2>2. Quiet([j EXCEPT !.at = "upsert", !.p = j.boss, !.w = w,
                        !.r = "admin", !.then = "own",
                        !.back = "hand", !.hand = @ \ {w}])
    BY <1>0 DEF Quiet, Job
  <2> QED BY <1>2, <2>1, <2>2
<1>10. CASE FindRest(h)
  <2>1. Quiet([j EXCEPT !.at = "rest", !.rest = StillOwned(j.gone)])
    BY <1>0 DEF Quiet, Job
  <2> QED BY <1>2, <1>3, <1>10, <2>1 DEF FindRest
<1>11. CASE PassOn(h)
  <2>1. PICK w \in j.rest :
          LET k == [j EXCEPT !.rest = @ \ {w}]
              S == Successors(w, j.gone, j.boss) IN
          \/ S = {} /\ Ask(h, k)
          \/ \E q \in S : Ask(h, [k EXCEPT !.at = "own", !.w = w, !.p = q,
                                            !.back = "rest"])
    BY <1>11 DEF PassOn
  <2> DEFINE k == [j EXCEPT !.rest = @ \ {w}]
  <2>2. Quiet(k)
    BY <1>0, <1>11 DEF PassOn, Quiet, Job
  <2>3. ASSUME NEW q, Ask(h, [k EXCEPT !.at = "own", !.w = w, !.p = q,
                                       !.back = "rest"])
        PROVE  Chair'
    <3>1. Quiet([k EXCEPT !.at = "own", !.w = w, !.p = q, !.back = "rest"])
      BY <1>0 DEF Quiet, Job
    <3> QED BY <1>2, <2>3, <3>1
  <2> QED BY <1>2, <2>1, <2>2, <2>3
<1>12. CASE DeleteUserEnds(h)
  BY <1>2, <1>3, <1>12 DEF DeleteUserEnds
<1> QED BY <1>4, <1>5, <1>6, <1>7, <1>8, <1>9, <1>10, <1>11, <1>12

LEMMA RestartKeepsTheChair ==
  ASSUME Chair, Restart
  PROVE  Chair'
<1>1. owners' = owners
  BY DEF Chair, OneOwner, Restart, Elected
<1>2. OneOwner'
  BY <1>1 DEF Chair, OneOwner, Restart, Active
<1>3. \A h \in Handlers : Rights(job[h])'
  BY DEF Restart, Rights, Idle
<1> QED BY <1>2, <1>3 DEF Chair

LEMMA ChairKept ==
  ASSUME OneAtATime, Typed, Chair, [Next]_vars
  PROVE  Chair'
<1>1. CASE UNCHANGED vars
  BY <1>1 DEF vars, Chair, OneOwner, Rights, Active
<1>2. ASSUME NEW h \in Handlers, Step(h) PROVE Chair'
  BY <1>2, QuietKeepsTheChair, AskingKeepsTheChair, WritingKeepsTheChair,
     ClearingKeepsTheChair DEF Step
<1> QED BY <1>1, <1>2, RestartKeepsTheChair DEF Next

(* There is one owner, active and an admin, whatever is asked of the       *)
(* accounts and whenever the server starts again, if one request ends      *)
(* before the next one begins.                                             *)
THEOREM OneOwnerStays == OneAtATime => (Spec => []OneOwner)
<1> SUFFICES ASSUME OneAtATime PROVE Spec => []OneOwner
  OBVIOUS
<1>1. Init => Chair
  BY InitChair
<1>2. Typed /\ Chair /\ [Next]_vars => Chair'
  BY ChairKept
<1>3. Chair => OneOwner
  BY DEF Chair
<1> QED BY <1>1, <1>2, <1>3, AlwaysTyped, PTL DEF Spec

-----------------------------------------------------------------------------
(* The last admin of a workspace.                                          *)
(* A change of members that is about to be written leaves an admin.        *)
Keeps(j) ==
    j.at \in {"upsert", "assign", "update"} => KeepsAnAdmin(j.w, j.p, j.r)

(* A workspace that is still to be made has no members.                    *)
Fresh == \A w \in Spaces : w > made => ~ space[w].is

Held == Fresh /\ \A h \in Handlers : Keeps(job[h])

Kept == \A w \in Spaces :
           ActiveAdmins(w) # {} /\ space'[w].is /\ ~ AddedAgain(w)
              => ActiveAdmins(w)' # {}

LEMMA InitHeld == Init => Held
<1> SUFFICES ASSUME Init PROVE Held
  OBVIOUS
<1>1. Fresh
  BY DEF Init, Fresh, NoSpace
<1>2. \A h \in Handlers : Keeps(job[h])
  BY DEF Init, Keeps, Idle
<1> QED BY <1>1, <1>2 DEF Held

LEMMA FreshKept ==
  ASSUME Typed, Fresh, Next
  PROVE  Fresh'
<1>1. CASE UNCHANGED <<space, made>>
  BY <1>1 DEF Fresh
<1>2. ASSUME NEW h \in Handlers, NewSpace(h) PROVE Fresh'
  <2>1. made \in 1 .. MaxSpaces
    BY DEF Typed, TypeOK
  <2> QED BY <1>2, <2>1 DEF NewSpace, Fresh, Typed, TypeOK, Spaces
<1>3. ASSUME NEW w, Purge(w), UNCHANGED made PROVE Fresh'
  BY <1>3 DEF Purge, NoSpace, Fresh, Typed, TypeOK
<1>4. ASSUME NEW h \in Handlers, ShareOut(h) PROVE Fresh'
  BY <1>4 DEF ShareOut, Fresh, Typed, TypeOK
<1>5. ASSUME NEW h \in Handlers, Inherit(h) PROVE Fresh'
  BY <1>5 DEF Inherit, Fresh, Typed, TypeOK
<1>6. CASE Restart
  BY <1>6 DEF Restart, Fresh, Typed, TypeOK
<1>7. ASSUME NEW h \in Handlers, Step(h), ~ NewSpace(h), ~ PurgeWorkspace(h),
             ~ PurgePersonal(h), ~ ShareOut(h), ~ Inherit(h)
      PROVE  UNCHANGED <<space, made>>
  BY <1>7 DEF Step, rows, CreateUser, Grant, NoSpaceOfTheirOwn,
     JoinAutoWorkspaces, CreateWorkspace, WriteRole, AskRole, AcceptInvite,
     AddWorkspaceMember, UpdateMember, RemoveMember, AdminMembership, AskDrop,
     DeleteWorkspace, DeleteStrandedWorkspace, AdoptWorkspace, AskAccount,
     SetUserDisabled, UpdateUser, SetFlags, TransferOwner, SeatOwner,
     DeleteUser, DeleteAccount, FindHeir, FindBoss, HandOver, FindRest,
     PassOn, DeleteUserEnds
<1>8. ASSUME NEW h \in Handlers, PurgeWorkspace(h) \/ PurgePersonal(h)
      PROVE  Fresh'
  BY <1>3, <1>8 DEF PurgeWorkspace, PurgePersonal
<1> QED BY <1>1, <1>2, <1>4, <1>5, <1>6, <1>7, <1>8 DEF Next

(* Who is asked to change leaves an admin behind.                          *)
LEMMA AskingKeeps ==
  ASSUME OneAtATime, Typed, NEW h \in Handlers, NEW k, Ask(h, k),
         \/ k.at \notin {"upsert", "assign", "update"}
         \/ Keeps(k) /\ UNCHANGED rows
  PROVE  \A g \in Handlers : Keeps(job[g])'
<1>1. \A g \in Handlers : job'[g] = k
  BY DEF OneAtATime, Ask, Typed, TypeOK
<1>2. CASE k.at \notin {"upsert", "assign", "update"}
  BY <1>1, <1>2 DEF Keeps
<1>3. CASE Keeps(k) /\ UNCHANGED rows
  BY <1>1, <1>3 DEF Keeps, KeepsAnAdmin, OtherAdmins, ActiveAdmins, Active,
                    rows
<1> QED BY <1>2, <1>3

LEMMA AskingRolesKeeps ==
  ASSUME OneAtATime, Typed, NEW h \in Handlers,
         NEW at \in {"insert", "upsert", "add", "assign", "update"},
         NEW w, NEW p, NEW r,
         AskRole(h, at, w, p, r),
         at \in {"insert", "add"} \/ KeepsAnAdmin(w, p, r)
  PROVE  \A g \in Handlers : Keeps(job[g])'
<1> DEFINE k == [Idle EXCEPT !.at = at, !.w = w, !.p = p, !.r = r]
<1>1. Keeps(k)
  BY DEF Keeps, Idle
<1>2. Ask(h, k) /\ UNCHANGED rows
  BY DEF AskRole
<1> QED BY <1>1, <1>2, AskingKeeps

LEMMA MembersKeep ==
  ASSUME OneAtATime, Typed, NEW h \in Handlers,
         \/ AcceptInvite(h) \/ AddWorkspaceMember(h) \/ UpdateMember(h)
         \/ RemoveMember(h) \/ AdminMembership(h) \/ AdoptWorkspace(h)
  PROVE  \A g \in Handlers : Keeps(job[g])'
<1> DEFINE Good == \A g \in Handlers : Keeps(job[g])'
<1>1. CASE AcceptInvite(h)
  BY <1>1, AskingRolesKeeps DEF AcceptInvite
<1>2. CASE AddWorkspaceMember(h)
  BY <1>2, AskingRolesKeeps, PeopleAreNumbers DEF AddWorkspaceMember
<1>3. CASE UpdateMember(h)
  <2>1. PICK w \in Spaces, p \in People, r \in Roles :
          MayUpdate(w, p, r) /\ AskRole(h, "update", w, p, r)
    BY <1>3 DEF UpdateMember
  <2> QED BY <2>1, AskingRolesKeeps DEF MayUpdate
<1>4. CASE RemoveMember(h)
  BY <1>4, AskingRolesKeeps DEF RemoveMember
<1>5. CASE AdminMembership(h)
  BY <1>5, AskingRolesKeeps DEF AdminMembership
<1>6. CASE AdoptWorkspace(h)
  <2>1. \A w, p : KeepsAnAdmin(w, p, "admin")
    BY DEF KeepsAnAdmin
  <2> QED BY <1>6, <2>1, AskingRolesKeeps DEF AdoptWorkspace
<1> QED BY <1>1, <1>2, <1>3, <1>4, <1>5, <1>6

(* Nothing else asks for a role but the loops of a deletion, which make    *)
(* admins.                                                                 *)
LEMMA OthersKeep ==
  ASSUME OneAtATime, Typed, NEW h \in Handlers, Step(h)
  PROVE  \A g \in Handlers : Keeps(job[g])'
<1> DEFINE j == job[h]
           Good == \A g \in Handlers : Keeps(job[g])'
           Else(k) == k.at \notin {"upsert", "assign", "update"}
<1>0. j \in Job /\ Target(j)
  BY DEF Typed, TypeOK, Located
<1>1. ASSUME NEW k, Ask(h, k), Else(k) PROVE Good
  BY <1>1, AskingKeeps
<1>2. Else(Idle) /\ (Done(h) => Ask(h, Idle))
  BY DoneIsAsking DEF Idle
<1>3. ASSUME NEW at \in {"house", "create", "join"}, NEW p,
             Ask(h, Newcomer(at, p))
      PROVE  Good
  <2>1. Else(Newcomer(at, p))
    BY DEF Newcomer, Idle
  <2> QED BY <1>1, <1>3, <2>1
<1>4. CASE CreateUser(h)
  <2>1. ASSUME NEW me, NEW w, NEW r,
               Ask(h, [Idle EXCEPT !.at = "grant", !.me = me,
                                   !.p = born + 1, !.w = w, !.r = r])
        PROVE  Good
    <3>1. Else([Idle EXCEPT !.at = "grant", !.me = me,
                            !.p = born + 1, !.w = w, !.r = r])
      BY DEF Idle
    <3> QED BY <1>1, <2>1, <3>1
  <2> QED BY <1>3, <1>4, <2>1 DEF CreateUser
<1>5. CASE Grant(h)
  <2>1. Else([j EXCEPT !.at = "insert", !.then = "house", !.me = Nobody])
    BY <1>0 DEF Job
  <2> QED BY <1>1, <1>3, <1>5, <2>1 DEF Grant
<1>6. CASE NoSpaceOfTheirOwn(h) \/ NewSpace(h) \/ CreateWorkspace(h)
  BY <1>1, <1>2, <1>3, <1>6 DEF NoSpaceOfTheirOwn, NewSpace, CreateWorkspace
<1>7. CASE \/ JoinAutoWorkspaces(h) \/ PurgeWorkspace(h) \/ SetFlags(h)
           \/ SeatOwner(h) \/ DeleteUserEnds(h)
  BY <1>1, <1>2, <1>7
     DEF JoinAutoWorkspaces, PurgeWorkspace, SetFlags, SeatOwner,
         DeleteUserEnds
<1>8. CASE WriteRole(h)
  <2>1. CASE j.then = "own"
    <3>1. Else([j EXCEPT !.at = "own", !.then = "idle", !.r = "none"])
      BY <1>0 DEF Job
    <3> QED BY <1>1, <1>8, <2>1, <3>1 DEF WriteRole, After
  <2>2. CASE j.then = "idle"
    BY <1>1, <1>2, <1>8, <2>2 DEF WriteRole, After
  <2>3. CASE j.then = "house"
    BY <1>3, <1>8, <2>3 DEF WriteRole, After
  <2> QED BY <1>0, <2>1, <2>2, <2>3 DEF Target
<1>9. CASE \/ AcceptInvite(h) \/ AddWorkspaceMember(h) \/ UpdateMember(h)
           \/ RemoveMember(h) \/ AdminMembership(h) \/ AdoptWorkspace(h)
  BY <1>9, MembersKeep
<1>10. CASE DeleteWorkspace(h) \/ DeleteStrandedWorkspace(h)
  <2>1. PICK me, w : Ask(h, [Idle EXCEPT !.at = "drop", !.me = me, !.w = w])
    BY <1>10 DEF DeleteWorkspace, DeleteStrandedWorkspace, AskDrop
  <2>2. Else([Idle EXCEPT !.at = "drop", !.me = me, !.w = w])
    BY DEF Idle
  <2> QED BY <1>1, <2>1, <2>2
<1>11. CASE SetUserDisabled(h) \/ UpdateUser(h) \/ TransferOwner(h)
  <2>1. ASSUME NEW at \in {"enable", "disable", "promote", "demote",
                           "transfer"},
               NEW me, NEW p, AskAccount(h, at, me, p)
        PROVE  Good
    <3>1. Else([Idle EXCEPT !.at = at, !.me = me, !.p = p])
      BY DEF Idle
    <3> QED BY <1>1, <2>1, <3>1 DEF AskAccount
  <2> QED BY <1>11, <2>1 DEF SetUserDisabled, UpdateUser, TransferOwner
<1>12. CASE DeleteUser(h)
  <2>1. PICK p : Ask(h, [Idle EXCEPT !.at = "delete", !.gone = p,
                                     !.purge = Lonely(p),
                                     !.share = Own(p) \ Lonely(p),
                                     !.hand = Orphaned(p)])
    BY <1>12 DEF DeleteUser
  <2>2. Else([Idle EXCEPT !.at = "delete", !.gone = p, !.purge = Lonely(p),
                          !.share = Own(p) \ Lonely(p), !.hand = Orphaned(p)])
    BY DEF Idle
  <2> QED BY <1>1, <2>1, <2>2
<1>13. CASE DeleteAccount(h)
  <2>1. Else([j EXCEPT !.at = "loop"])
    BY <1>0 DEF Job
  <2> QED BY <1>1, <1>13, <2>1 DEF DeleteAccount
<1>14. CASE PurgePersonal(h)
  <2>1. PICK w : Ask(h, [j EXCEPT !.purge = @ \ {w}])
    BY <1>14 DEF PurgePersonal
  <2>2. Else([j EXCEPT !.purge = @ \ {w}])
    BY <1>0, <1>14 DEF PurgePersonal, Job
  <2> QED BY <1>1, <2>1, <2>2
<1>15. CASE ShareOut(h)
  <2>1. PICK w : Ask(h, [j EXCEPT !.at = "heir", !.w = w, !.share = @ \ {w}])
    BY <1>15 DEF ShareOut
  <2>2. Else([j EXCEPT !.at = "heir", !.w = w, !.share = @ \ {w}])
    BY <1>0 DEF Job
  <2> QED BY <1>1, <2>1, <2>2
<1>16. CASE FindHeir(h)
  <2>1. Else([j EXCEPT !.at = "loop", !.w = 0])
    BY <1>0 DEF Job
  <2>2. ASSUME NEW q,
               Ask(h, [j EXCEPT !.at = "update", !.p = q, !.r = "admin",
                                !.then = "own", !.back = "loop"])
        PROVE  Good
    <3>1. Keeps([j EXCEPT !.at = "update", !.p = q, !.r = "admin",
                          !.then = "own", !.back = "loop"])
      BY <1>0 DEF Keeps, KeepsAnAdmin, Job
    <3>2. UNCHANGED rows
      BY <1>16 DEF FindHeir
    <3> QED BY <2>2, <3>1, <3>2, AskingKeeps
  <2> QED BY <1>1, <1>16, <2>1, <2>2 DEF FindHeir
<1>17. CASE Inherit(h)
  <2>1. Ask(h, [j EXCEPT !.at = j.back, !.back = "idle", !.w = 0,
                         !.p = Nobody])
    BY <1>17 DEF Inherit
  <2>2. Else([j EXCEPT !.at = j.back, !.back = "idle", !.w = 0,
                       !.p = Nobody])
    BY <1>0 DEF Job, Target
  <2> QED BY <1>1, <2>1, <2>2
<1>18. CASE FindBoss(h)
  <2>1. PICK o : Ask(h, [j EXCEPT !.at = "hand", !.boss = o,
                            !.hand = IF o \in {Nobody, j.gone} THEN {} ELSE @])
    BY <1>18 DEF FindBoss
  <2>2. Else([j EXCEPT !.at = "hand", !.boss = o,
                       !.hand = IF o \in {Nobody, j.gone} THEN {} ELSE @])
    BY <1>0 DEF Job
  <2> QED BY <1>1, <2>1, <2>2
<1>19. CASE HandOver(h)
  <2>1. PICK w : Ask(h, [j EXCEPT !.at = "upsert", !.p = j.boss, !.w = w,
                                  !.r = "admin", !.then = "own",
                                  !.back = "hand", !.hand = @ \ {w}])
    BY <1>19 DEF HandOver
  <2>2. Keeps([j EXCEPT !.at = "upsert", !.p = j.boss, !.w = w,
                        !.r = "admin", !.then = "own",
                        !.back = "hand", !.hand = @ \ {w}])
    BY <1>0 DEF Keeps, KeepsAnAdmin, Job
  <2>3. UNCHANGED rows
    BY <1>19 DEF HandOver
  <2> QED BY <2>1, <2>2, <2>3, AskingKeeps
<1>20. CASE FindRest(h)
  <2>1. Else([j EXCEPT !.at = "rest", !.rest = StillOwned(j.gone)])
    BY <1>0 DEF Job
  <2> QED BY <1>1, <1>2, <1>20, <2>1 DEF FindRest
<1>21. CASE PassOn(h)
  <2>1. PICK w \in j.rest :
          LET k == [j EXCEPT !.rest = @ \ {w}]
              S == Successors(w, j.gone, j.boss) IN
          \/ S = {} /\ Ask(h, k)
          \/ \E q \in S : Ask(h, [k EXCEPT !.at = "own", !.w = w, !.p = q,
                                            !.back = "rest"])
    BY <1>21 DEF PassOn
  <2> DEFINE k == [j EXCEPT !.rest = @ \ {w}]
  <2>2. Else(k)
    BY <1>0, <1>21 DEF PassOn, Job
  <2>3. ASSUME NEW q, Ask(h, [k EXCEPT !.at = "own", !.w = w, !.p = q,
                                       !.back = "rest"])
        PROVE  Good
    <3>1. Else([k EXCEPT !.at = "own", !.w = w, !.p = q, !.back = "rest"])
      BY <1>0 DEF Job
    <3> QED BY <1>1, <2>3, <3>1
  <2> QED BY <1>1, <2>1, <2>2, <2>3
<1> QED BY <1>4, <1>5, <1>6, <1>7, <1>8, <1>9, <1>10, <1>11, <1>12, <1>13,
           <1>14, <1>15, <1>16, <1>17, <1>18, <1>19, <1>20, <1>21 DEF Step

LEMMA HeldKept ==
  ASSUME OneAtATime, Typed, Held, [Next]_vars
  PROVE  Held'
<1>1. CASE UNCHANGED vars
  BY <1>1 DEF vars, Held, Fresh, Keeps, KeepsAnAdmin, OtherAdmins,
              ActiveAdmins, Active
<1>2. CASE Restart
  <2>1. \A h \in Handlers : Keeps(job[h])'
    BY <1>2 DEF Restart, Keeps, Idle
  <2> QED BY <1>2, <2>1, FreshKept DEF Held, Next
<1>3. ASSUME NEW h \in Handlers, Step(h) PROVE Held'
  BY <1>3, FreshKept, OthersKeep DEF Held, Next
<1> QED BY <1>1, <1>2, <1>3 DEF Next

(* What is written of the members.                                         *)
LEMMA WritingLeavesAnAdmin ==
  ASSUME Typed, Held, NEW h \in Handlers, WriteRole(h)
  PROVE  Kept
<1> DEFINE j == job[h]
<1>0. j \in Job /\ Target(j) /\ Keeps(j)
  BY DEF Typed, TypeOK, Located, Held
<1>1. /\ j.at \in {"insert", "upsert", "add", "assign", "update"}
      /\ j.w \in Spaces /\ j.p \in People
  BY <1>0 DEF WriteRole, Target
<1>2. SUFFICES ASSUME NEW w \in Spaces, NEW q \in ActiveAdmins(w),
                      ~ AddedAgain(w)
               PROVE  ActiveAdmins(w)' # {}
  BY DEF Kept
<1>3. Active' = Active /\ q \in Active /\ role[w][q] = "admin" /\ q \in People
  BY <1>2, PeopleAreNumbers DEF WriteRole, Active, ActiveAdmins
<1>4. \A v \in Spaces, s \in People :
         ~ (v = j.w /\ s = j.p) => role'[v][s] = role[v][s]
  BY DEF WriteRole, Typed, TypeOK
<1>5. CASE ~ (w = j.w /\ q = j.p)
  BY <1>3, <1>4, <1>5 DEF ActiveAdmins
<1>6. CASE w = j.w /\ q = j.p
  <2>1. CASE ~ Applies(j) \/ j.r = "admin"
    <3>1. role'[w][q] = "admin"
      BY <1>1, <1>3, <1>6, <2>1 DEF WriteRole, Typed, TypeOK
    <3> QED BY <1>3, <3>1 DEF ActiveAdmins
  <2>2. CASE Applies(j) /\ j.r # "admin"
    <3>1. j.at \notin {"insert", "add"}
      <4>1. Member(w, j.p)
        BY <1>3, <1>6 DEF Member
      <4>2. j.at # "insert"
        BY <1>6, <2>2, <4>1 DEF Applies
      <4>3. job'[h].at # "add"
        <5>1. job'[h] = After(j)
          BY DEF WriteRole, Ask, Typed, TypeOK
        <5>2. After(j).at \in {"idle", "own", "house"}
          BY <1>0 DEF After, Target, Idle, Newcomer, Job
        <5> QED BY <5>1, <5>2
      <4> QED BY <1>2, <1>6, <4>1, <4>2, <4>3 DEF AddedAgain
    <3>2. PICK s \in OtherAdmins(w, q) : TRUE
      BY <1>0, <1>1, <1>3, <1>6, <2>2, <3>1 DEF Keeps, KeepsAnAdmin
    <3>3. s \in Active /\ role[w][s] = "admin" /\ s # q /\ s \in People
      BY <3>2, PeopleAreNumbers DEF OtherAdmins, ActiveAdmins, Active
    <3>4. role'[w][s] = "admin"
      BY <1>4, <1>6, <3>3
    <3> QED BY <1>3, <3>3, <3>4 DEF ActiveAdmins
  <2> QED BY <2>1, <2>2
<1> QED BY <1>5, <1>6

LEMMA EveryStepKeepsAdmins ==
  ASSUME Typed, Held, [Next]_vars, UNCHANGED <<accounts, disabled>>
  PROVE  Kept
<1>1. CASE UNCHANGED role
  BY <1>1 DEF Kept, ActiveAdmins, Active
<1>2. ASSUME NEW h \in Handlers, NewSpace(h) PROVE Kept
  <2>1. made + 1 \in Spaces /\ made + 1 > made
    <3>1. made \in 1 .. MaxSpaces /\ made < MaxSpaces
      BY <1>2 DEF NewSpace, Typed, TypeOK
    <3> QED BY <3>1 DEF Spaces
  <2>2. ActiveAdmins(made + 1) = {}
    BY <2>1, PeopleAreNumbers
       DEF Held, Fresh, Typed, TypeOK, References, Members, Member,
           ActiveAdmins, Active
  <2>3. \A w \in Spaces : w # made + 1 => role'[w] = role[w]
    BY <1>2 DEF NewSpace, Typed, TypeOK
  <2> QED BY <2>2, <2>3 DEF Kept, ActiveAdmins, Active
<1>3. ASSUME NEW h \in Handlers, JoinAutoWorkspaces(h) PROVE Kept
  <2>1. \A w \in Spaces, q \in People :
           role[w][q] = "admin" => role'[w][q] = "admin"
    BY <1>3 DEF JoinAutoWorkspaces, Member, Typed, TypeOK
  <2> QED BY <2>1, PeopleAreNumbers DEF Kept, ActiveAdmins, Active
<1>4. ASSUME NEW v, Purge(v) PROVE Kept
  <2>1. \A w \in Spaces : w # v => role'[w] = role[w]
    BY <1>4 DEF Purge, Typed, TypeOK
  <2>2. v \in Spaces => ~ space'[v].is
    BY <1>4 DEF Purge, NoSpace, Typed, TypeOK
  <2> QED BY <2>1, <2>2 DEF Kept, ActiveAdmins, Active
<1>5. ASSUME NEW h \in Handlers, DeleteAccount(h) PROVE Kept
  <2>1. job[h].gone \notin accounts
    BY <1>5 DEF DeleteAccount
  <2>2. \A w \in Spaces, q \in accounts : role'[w][q] = role[w][q]
    BY <1>5, <2>1, PeopleAreNumbers DEF DeleteAccount, Typed, TypeOK
  <2> QED BY <2>2 DEF Kept, ActiveAdmins, Active
<1>6. ASSUME NEW h \in Handlers, Step(h), ~ NewSpace(h),
             ~ JoinAutoWorkspaces(h), ~ WriteRole(h), ~ PurgeWorkspace(h),
             ~ PurgePersonal(h), ~ DeleteAccount(h)
      PROVE  UNCHANGED role
  BY <1>6 DEF Step, rows, CreateUser, Grant, NoSpaceOfTheirOwn,
     CreateWorkspace, AskRole, AcceptInvite,
     AddWorkspaceMember, UpdateMember, RemoveMember, AdminMembership, AskDrop,
     DeleteWorkspace, DeleteStrandedWorkspace, AdoptWorkspace, AskAccount,
     SetUserDisabled, UpdateUser, SetFlags, TransferOwner, SeatOwner,
     DeleteUser, ShareOut, FindHeir, Inherit, FindBoss, HandOver, FindRest,
     PassOn, DeleteUserEnds
<1>7. ASSUME NEW h \in Handlers, PurgeWorkspace(h) \/ PurgePersonal(h)
      PROVE  Kept
  BY <1>4, <1>7 DEF PurgeWorkspace, PurgePersonal
<1>8. CASE Restart \/ UNCHANGED vars
  BY <1>1, <1>8 DEF Restart, vars
<1> QED BY <1>1, <1>2, <1>3, <1>5, <1>6, <1>7, <1>8, WritingLeavesAnAdmin
        DEF Next

(* As long as one request ends before the next one begins, no change of    *)
(* members leaves a workspace without an active admin, but for adding      *)
(* somebody who is a member already (workspaces.go:888).                   *)
THEOREM AdminsStay ==
  OneAtATime => (Spec => LastAdminStays)
<1> SUFFICES ASSUME OneAtATime PROVE Spec => LastAdminStays
  OBVIOUS
<1>1. Init => Held
  BY InitHeld
<1>2. Typed /\ Held /\ [Next]_vars => Held'
  BY HeldKept
<1>3. Typed /\ Held /\ [Next]_vars
         => [UNCHANGED <<accounts, disabled>> => Kept]_vars
  BY EveryStepKeepsAdmins
<1> QED BY <1>1, <1>2, <1>3, AlwaysTyped, PTL
        DEF Spec, LastAdminStays, Kept

-----------------------------------------------------------------------------
(* What goes with an account or a workspace.  Between the checks and the   *)
(* deletion itself an admin stays an admin, and a personal space nobody    *)
(* else was in stays so; once the account is gone, nobody is in it.        *)
Asked(j) ==
    /\ j.at = "drop" => \/ j.me = Nobody /\ Members(j.w) = {}
                        \/ j.me \in ActiveAdmins(j.w)
    /\ j.purge # {} => j.at \in {"delete", "loop"}
    /\ j.at = "delete" => \A w \in j.purge : Members(w) \subseteq {j.gone}
    /\ j.at = "loop" => \A w \in j.purge : Members(w) = {}

Work == \A h \in Handlers : Asked(job[h])

LEMMA InitWork == Init => Work
BY DEF Init, Work, Asked, Idle

LEMMA AskedIsAll ==
  ASSUME OneAtATime, Typed, NEW h \in Handlers, NEW k, Ask(h, k), Asked(k)'
  PROVE  Work'
<1>1. \A g \in Handlers : job'[g] = k
  BY DEF OneAtATime, Ask, Typed, TypeOK
<1> QED BY <1>1 DEF Work, Asked

(* Whoever is alone in a workspace is its only member.                     *)
LEMMA AloneIsAlone ==
  ASSUME Typed, NEW w \in Spaces, NEW p, Member(w, p), p \in People,
         Cardinality(Members(w)) <= 1
  PROVE  Members(w) \subseteq {p}
<1>1. IsFiniteSet(People)
  BY FS_Interval, BoundsAssumption DEF People
<1>2. IsFiniteSet(Members(w))
  BY <1>1, FS_Subset DEF Members
<1>3. p \in Members(w) /\ Cardinality(Members(w)) # 0
  BY <1>2, FS_EmptySet DEF Members
<1>4. Cardinality(Members(w)) = 1
  BY <1>2, <1>3, FS_CardinalityType
<1> QED BY <1>2, <1>3, <1>4, FS_Singleton

(* The deletions, from the request to the last space.                      *)
LEMMA DeletingIsAsked ==
  ASSUME OneAtATime, Typed, Work, NEW h \in Handlers,
         \/ DeleteWorkspace(h) \/ DeleteStrandedWorkspace(h)
         \/ DeleteUser(h) \/ DeleteAccount(h) \/ PurgePersonal(h)
  PROVE  Work'
<1> DEFINE j == job[h]
<1>0. j \in Job /\ Target(j) /\ Asked(j)
  BY DEF Typed, TypeOK, Located, Work
<1>1. CASE DeleteWorkspace(h)
  <2>1. PICK me \in Active, w \in Spaces :
          role[w][me] = "admin" /\ AskDrop(h, me, w)
    BY <1>1 DEF DeleteWorkspace
  <2> DEFINE k == [Idle EXCEPT !.at = "drop", !.me = me, !.w = w]
  <2>1a. Ask(h, k) /\ UNCHANGED rows
    BY <2>1 DEF AskDrop
  <2>2. k.at = "drop" /\ k.me = me /\ k.w = w /\ k.purge = {}
    BY DEF Idle
  <2> HIDE DEF k
  <2>3. me \in ActiveAdmins(w)'
    BY <2>1, <2>1a DEF ActiveAdmins, Active, rows
  <2>4. Asked(k)'
    BY <2>2, <2>3 DEF Asked
  <2> QED BY <2>1a, <2>4, AskedIsAll
<1>2. CASE DeleteStrandedWorkspace(h)
  <2>1. PICK w \in Spaces : Members(w) = {} /\ AskDrop(h, Nobody, w)
    BY <1>2 DEF DeleteStrandedWorkspace
  <2> DEFINE k == [Idle EXCEPT !.at = "drop", !.me = Nobody, !.w = w]
  <2>1a. Ask(h, k) /\ UNCHANGED rows
    BY <2>1 DEF AskDrop
  <2>2. k.at = "drop" /\ k.me = Nobody /\ k.w = w /\ k.purge = {}
    BY DEF Idle
  <2> HIDE DEF k
  <2>3. Members(w)' = {}
    BY <2>1, <2>1a DEF Members, Member, rows
  <2>4. Asked(k)'
    BY <2>2, <2>3 DEF Asked
  <2> QED BY <2>1a, <2>4, AskedIsAll
<1>3. CASE DeleteUser(h)
  <2>1. PICK p \in accounts :
          Ask(h, [Idle EXCEPT !.at = "delete", !.gone = p,
                              !.purge = Lonely(p),
                              !.share = Own(p) \ Lonely(p),
                              !.hand = Orphaned(p)])
    BY <1>3 DEF DeleteUser
  <2>1a. PICK k : k = [Idle EXCEPT !.at = "delete", !.gone = p,
                                  !.purge = Lonely(p),
                                  !.share = Own(p) \ Lonely(p),
                                  !.hand = Orphaned(p)]
    OBVIOUS
  <2>2. k.at = "delete" /\ k.gone = p /\ k.purge = Lonely(p)
    BY <2>1a DEF Idle
  <2>3. Ask(h, k) /\ UNCHANGED rows
    BY <1>3, <2>1, <2>1a DEF DeleteUser
  <2>4. \A w \in Lonely(p) : Members(w) \subseteq {p}
    BY AloneIsAlone, PeopleAreNumbers DEF Lonely, Own, Theirs
  <2>5. \A w \in k.purge : Members(w)' \subseteq {p}
    BY <2>2, <2>3, <2>4 DEF rows, Members, Member
  <2>6. Asked(k)'
    BY <2>2, <2>5 DEF Asked
  <2> QED BY <2>3, <2>6, AskedIsAll
<1>4. CASE DeleteAccount(h)
  <2>0. PICK k : k = [j EXCEPT !.at = "loop"]
    OBVIOUS
  <2>1. /\ k.at = "loop" /\ k.purge = j.purge /\ Ask(h, k)
        /\ j.at = "delete" /\ j.purge \subseteq Spaces
    BY <1>0, <1>4, <2>0 DEF DeleteAccount, Job
  <2>2. \A w \in j.purge : Members(w) \subseteq {j.gone}
    BY <1>0, <2>1 DEF Asked
  <2>3. \A w \in k.purge : Members(w)' = {}
    BY <1>4, <2>1, <2>2
       DEF DeleteAccount, Members, Member, Typed, TypeOK
  <2>4. Asked(k)'
    BY <2>1, <2>3 DEF Asked
  <2> QED BY <2>1, <2>4, AskedIsAll
<1>5. CASE PurgePersonal(h)
  <2>1. PICK w \in First(j.purge) :
          Purge(w) /\ Ask(h, [j EXCEPT !.purge = @ \ {w}])
    BY <1>5 DEF PurgePersonal
  <2>0. PICK k : k = [j EXCEPT !.purge = @ \ {w}]
    OBVIOUS
  <2>2. /\ k.at = "loop" /\ k.purge = j.purge \ {w} /\ Ask(h, k)
        /\ j.at = "loop" /\ j.purge \subseteq Spaces
    BY <1>0, <1>5, <2>0, <2>1 DEF PurgePersonal, Job
  <2>3. \A v \in j.purge : Members(v) = {}
    BY <1>0, <2>2 DEF Asked
  <2>4. \A v \in k.purge : Members(v)' = {}
    BY <2>1, <2>2, <2>3 DEF Purge, Members, Member, Typed, TypeOK
  <2>5. Asked(k)'
    BY <2>2, <2>4 DEF Asked
  <2> QED BY <2>2, <2>5, AskedIsAll
<1> QED BY <1>1, <1>2, <1>3, <1>4, <1>5

(* Nothing else takes a workspace with it.                                 *)
LEMMA OthersAreAsked ==
  ASSUME OneAtATime, Typed, Work, NEW h \in Handlers, Step(h)
  PROVE  Work'
<1> DEFINE j == job[h]
           Else(k) == k.purge = {} /\ k.at # "drop"
<1>0. j \in Job /\ Target(j) /\ Asked(j)
  BY DEF Typed, TypeOK, Located, Work
<1>1. ASSUME NEW k, Ask(h, k), Else(k) PROVE Work'
  <2>1. Asked(k)'
    BY <1>1 DEF Asked
  <2> QED BY <1>1, <2>1, AskedIsAll
<1>2. Else(Idle) /\ (Done(h) => Ask(h, Idle))
  BY DoneIsAsking DEF Idle
<1>3. ASSUME NEW at \in {"house", "create", "join"}, NEW p,
             Ask(h, Newcomer(at, p))
      PROVE  Work'
  <2>1. Else(Newcomer(at, p))
    BY DEF Newcomer, Idle
  <2> QED BY <1>1, <1>3, <2>1
<1>4. CASE CreateUser(h)
  <2>1. ASSUME NEW me, NEW w, NEW r,
               Ask(h, [Idle EXCEPT !.at = "grant", !.me = me,
                                   !.p = born + 1, !.w = w, !.r = r])
        PROVE  Work'
    <3>1. Else([Idle EXCEPT !.at = "grant", !.me = me,
                            !.p = born + 1, !.w = w, !.r = r])
      BY DEF Idle
    <3> QED BY <1>1, <2>1, <3>1
  <2> QED BY <1>3, <1>4, <2>1 DEF CreateUser
<1>5. CASE Grant(h)
  <2>1. Else([j EXCEPT !.at = "insert", !.then = "house", !.me = Nobody])
    BY <1>0, <1>5 DEF Job, Asked, Grant
  <2> QED BY <1>1, <1>3, <1>5, <2>1 DEF Grant
<1>6. CASE NoSpaceOfTheirOwn(h) \/ NewSpace(h) \/ CreateWorkspace(h)
  BY <1>1, <1>2, <1>3, <1>6 DEF NoSpaceOfTheirOwn, NewSpace, CreateWorkspace
<1>7. CASE \/ JoinAutoWorkspaces(h) \/ PurgeWorkspace(h) \/ SetFlags(h)
           \/ SeatOwner(h) \/ DeleteUserEnds(h)
  BY <1>1, <1>2, <1>7
     DEF JoinAutoWorkspaces, PurgeWorkspace, SetFlags, SeatOwner,
         DeleteUserEnds
<1>8. CASE WriteRole(h)
  <2>1. CASE j.then = "own"
    <3>1. Else([j EXCEPT !.at = "own", !.then = "idle", !.r = "none"])
      BY <1>0, <1>8 DEF Job, Asked, WriteRole
    <3> QED BY <1>1, <1>8, <2>1, <3>1 DEF WriteRole, After
  <2>2. CASE j.then = "idle"
    BY <1>1, <1>2, <1>8, <2>2 DEF WriteRole, After
  <2>3. CASE j.then = "house"
    BY <1>3, <1>8, <2>3 DEF WriteRole, After
  <2> QED BY <1>0, <2>1, <2>2, <2>3 DEF Target
<1>9. CASE \/ AcceptInvite(h) \/ AddWorkspaceMember(h) \/ UpdateMember(h)
           \/ RemoveMember(h) \/ AdminMembership(h) \/ AdoptWorkspace(h)
  <2>1. PICK at \in {"insert", "upsert", "add", "assign", "update"},
             w \in Spaces, p \in People \cup accounts,
             r \in Roles \cup {"none"} :
          AskRole(h, at, w, p, r)
    BY <1>9 DEF AcceptInvite, AddWorkspaceMember, UpdateMember, RemoveMember,
                AdminMembership, AdoptWorkspace, Active, OwnerOnly
  <2>2. Else([Idle EXCEPT !.at = at, !.w = w, !.p = p, !.r = r])
    BY DEF Idle
  <2> QED BY <1>1, <2>1, <2>2 DEF AskRole
<1>10. CASE SetUserDisabled(h) \/ UpdateUser(h) \/ TransferOwner(h)
  <2>1. PICK at \in {"enable", "disable", "promote", "demote", "transfer"},
             me \in accounts \cup {Nobody}, p \in accounts :
          AskAccount(h, at, me, p)
    BY <1>10 DEF SetUserDisabled, UpdateUser, TransferOwner, OwnerOnly, Active
  <2>2. Else([Idle EXCEPT !.at = at, !.me = me, !.p = p])
    BY DEF Idle
  <2> QED BY <1>1, <2>1, <2>2 DEF AskAccount
<1>11. CASE ShareOut(h)
  <2>1. PICK w : Ask(h, [j EXCEPT !.at = "heir", !.w = w, !.share = @ \ {w}])
    BY <1>11 DEF ShareOut
  <2>2. Else([j EXCEPT !.at = "heir", !.w = w, !.share = @ \ {w}])
    BY <1>0, <1>11 DEF Job, ShareOut
  <2> QED BY <1>1, <2>1, <2>2
<1>12. CASE FindHeir(h)
  <2>0. j.purge = {}
    BY <1>0, <1>12 DEF Asked, FindHeir
  <2>1. Else([j EXCEPT !.at = "loop", !.w = 0])
    BY <1>0, <2>0 DEF Job
  <2>2. ASSUME NEW q,
               Ask(h, [j EXCEPT !.at = "update", !.p = q, !.r = "admin",
                                !.then = "own", !.back = "loop"])
        PROVE  Work'
    <3>1. Else([j EXCEPT !.at = "update", !.p = q, !.r = "admin",
                         !.then = "own", !.back = "loop"])
      BY <1>0, <2>0 DEF Job
    <3> QED BY <1>1, <2>2, <3>1
  <2> QED BY <1>1, <1>12, <2>1, <2>2 DEF FindHeir
<1>13. CASE Inherit(h)
  <2>1. Ask(h, [j EXCEPT !.at = j.back, !.back = "idle", !.w = 0,
                         !.p = Nobody])
    BY <1>13 DEF Inherit
  <2>2. Else([j EXCEPT !.at = j.back, !.back = "idle", !.w = 0,
                       !.p = Nobody])
    BY <1>0, <1>13 DEF Job, Target, Inherit, Asked
  <2> QED BY <1>1, <2>1, <2>2
<1>14. CASE FindBoss(h)
  <2>1. PICK o : Ask(h, [j EXCEPT !.at = "hand", !.boss = o,
                            !.hand = IF o \in {Nobody, j.gone} THEN {} ELSE @])
    BY <1>14 DEF FindBoss
  <2>2. Else([j EXCEPT !.at = "hand", !.boss = o,
                       !.hand = IF o \in {Nobody, j.gone} THEN {} ELSE @])
    BY <1>0, <1>14 DEF Job, FindBoss
  <2> QED BY <1>1, <2>1, <2>2
<1>15. CASE HandOver(h)
  <2>1. PICK w : Ask(h, [j EXCEPT !.at = "upsert", !.p = j.boss, !.w = w,
                                  !.r = "admin", !.then = "own",
                                  !.back = "hand", !.hand = @ \ {w}])
    BY <1>15 DEF HandOver
  <2>2. Else([j EXCEPT !.at = "upsert", !.p = j.boss, !.w = w,
                       !.r = "admin", !.then = "own",
                       !.back = "hand", !.hand = @ \ {w}])
    BY <1>0, <1>15 DEF Job, HandOver, Asked
  <2> QED BY <1>1, <2>1, <2>2
<1>16. CASE FindRest(h)
  <2>1. Else([j EXCEPT !.at = "rest", !.rest = StillOwned(j.gone)])
    BY <1>0, <1>16 DEF Job, FindRest, Asked
  <2> QED BY <1>1, <1>2, <1>16, <2>1 DEF FindRest
<1>17. CASE PassOn(h)
  <2>1. PICK w \in j.rest :
          LET k == [j EXCEPT !.rest = @ \ {w}]
              S == Successors(w, j.gone, j.boss) IN
          \/ S = {} /\ Ask(h, k)
          \/ \E q \in S : Ask(h, [k EXCEPT !.at = "own", !.w = w, !.p = q,
                                            !.back = "rest"])
    BY <1>17 DEF PassOn
  <2> DEFINE k == [j EXCEPT !.rest = @ \ {w}]
  <2>2. Else(k) /\ k.purge = {}
    BY <1>0, <1>17 DEF PassOn, Job, Asked
  <2>3. ASSUME NEW q, Ask(h, [k EXCEPT !.at = "own", !.w = w, !.p = q,
                                       !.back = "rest"])
        PROVE  Work'
    <3>1. Else([k EXCEPT !.at = "own", !.w = w, !.p = q, !.back = "rest"])
      BY <1>0, <2>2 DEF Job
    <3> QED BY <1>1, <2>3, <3>1
  <2> QED BY <1>1, <2>1, <2>2, <2>3
<1> QED BY <1>4, <1>5, <1>6, <1>7, <1>8, <1>9, <1>10, <1>11, <1>12, <1>13,
           <1>14, <1>15, <1>16, <1>17, DeletingIsAsked DEF Step

LEMMA WorkKept ==
  ASSUME OneAtATime, Typed, Work, [Next]_vars
  PROVE  Work'
<1>1. CASE UNCHANGED vars
  BY <1>1 DEF vars, Work, Asked, Members, Member, ActiveAdmins, Active
<1>2. CASE Restart
  BY <1>2 DEF Restart, Work, Asked, Idle
<1> QED BY <1>1, <1>2, OthersAreAsked DEF Next

(* A workspace that goes, with everybody out of it or at the word of one   *)
(* of its admins.                                                          *)
Justified(w) ==
    \/ Members(w) = {}
    \/ \E h \in Handlers : job[h].at = "drop" /\ job[h].me \in ActiveAdmins(w)

Goes == \A w \in Spaces : space[w].is /\ ~ space'[w].is => Justified(w)

LEMMA NothingElseGoes ==
  ASSUME Typed, Next, NEW w \in Spaces, space[w].is, ~ space'[w].is
  PROVE  \/ \E h \in Handlers : PurgeWorkspace(h) /\ w = job[h].w
         \/ \E h \in Handlers : PurgePersonal(h) /\ w \in job[h].purge
<1> USE DEF Typed, TypeOK
<1>1. space' # space
  OBVIOUS
<1>2. ~ Restart
  <2>1. ASSUME NEW F, space' = [v \in Spaces |->
                                  [space[v] EXCEPT !.open = (v \in F)]]
        PROVE  space'[w].is = space[w].is
    BY <2>1
  <2> QED BY <1>1, <2>1 DEF Restart
<1>3. PICK h \in Handlers : Step(h)
  BY <1>2 DEF Next
<1>4. ~ NewSpace(h)
  <2>1. made + 1 \in Spaces => space[made + 1].is \in BOOLEAN
    OBVIOUS
  <2> QED BY DEF NewSpace
<1>5. ~ ShareOut(h)
  <2>1. ASSUME NEW v, space' = [space EXCEPT ![v].personal = FALSE]
        PROVE  space'[w].is = space[w].is
    BY <2>1
  <2> QED BY <1>1, <2>1 DEF ShareOut
<1>5a. ~ Inherit(h)
  <2>1. ASSUME NEW v, NEW p, space' = [space EXCEPT ![v].owner = p]
        PROVE  space'[w].is = space[w].is
    BY <2>1
  <2> QED BY <1>1, <2>1 DEF Inherit
<1>6. CASE PurgeWorkspace(h)
  BY <1>6 DEF PurgeWorkspace, Purge
<1>7. CASE PurgePersonal(h)
  <2>1. PICK v \in First(job[h].purge) : Purge(v)
    BY <1>7 DEF PurgePersonal
  <2>2. v = w
    BY <2>1 DEF Purge
  <2> QED BY <1>7, <2>1, <2>2, FirstIsOne
<1>8. CASE ~ PurgeWorkspace(h) /\ ~ PurgePersonal(h)
  <2>1. UNCHANGED space
    BY <1>3, <1>4, <1>5, <1>5a, <1>8 DEF Step, rows, CreateUser, Grant,
       NoSpaceOfTheirOwn, JoinAutoWorkspaces, CreateWorkspace, WriteRole,
       AskRole, AcceptInvite, AddWorkspaceMember, UpdateMember, RemoveMember,
       AdminMembership, AskDrop, DeleteWorkspace, DeleteStrandedWorkspace,
       AdoptWorkspace, AskAccount, SetUserDisabled, UpdateUser, SetFlags,
       TransferOwner, SeatOwner, DeleteUser, DeleteAccount, FindHeir,
       FindBoss, HandOver, FindRest, PassOn, DeleteUserEnds
  <2> QED BY <1>1, <2>1
<1> QED BY <1>6, <1>7, <1>8

(* No account that is deleted and no request about a workspace takes the   *)
(* work of others along, as long as one request ends before the next one   *)
(* begins.                                                                 *)
THEOREM WorkOfOthersStays == OneAtATime => (Spec => OthersWorkSurvives)
<1> SUFFICES ASSUME OneAtATime PROVE Spec => OthersWorkSurvives
  OBVIOUS
<1>1. Init => Work
  BY InitWork
<1>2. Typed /\ Work /\ [Next]_vars => Work'
  BY WorkKept
<1>3. Typed /\ Work /\ [Next]_vars => [Goes]_vars
  <2> SUFFICES ASSUME Typed, Work, Next PROVE Goes
    BY DEF vars
  <2> SUFFICES ASSUME NEW w \in Spaces, space[w].is, ~ space'[w].is
               PROVE  Justified(w)
    BY DEF Goes
  <2>1. ASSUME NEW h \in Handlers, PurgeWorkspace(h), w = job[h].w
        PROVE  Justified(w)
    BY <2>1 DEF PurgeWorkspace, Work, Asked, Justified
  <2>2. ASSUME NEW h \in Handlers, PurgePersonal(h), w \in job[h].purge
        PROVE  Justified(w)
    BY <2>2 DEF PurgePersonal, Work, Asked, Justified
  <2> QED BY <2>1, <2>2, NothingElseGoes
<1> QED BY <1>1, <1>2, <1>3, AlwaysTyped, PTL
        DEF Spec, OthersWorkSurvives, Goes, Justified

-----------------------------------------------------------------------------
(* Who is in charge of a workspace.  A request that is no deletion finds   *)
(* every workspace in order, and what it is about to write leaves it so:   *)
(* it is for an account that is there, and takes nothing from the person   *)
(* of a personal space, unless it comes through a door that does not ask,  *)
(* and then the space is in left.                                          *)
InCharge(w) ==
    /\ space[w].personal => /\ space[w].owner \in accounts
                            /\ role[w][space[w].owner] = "admin"
    /\ space[w].is => space[w].owner \in accounts

Rightful(j) ==
    /\ j.at \in {"grant", "house", "create", "insert"} \/ j.then = "house"
          => j.p \in accounts
    /\ j.at \in {"upsert", "update"} => \/ j.r = "admin"
                                        \/ j.p # PersonalOwner(j.w)
                                        \/ j.w \in left

Deleting == {"delete", "loop", "heir", "hand", "rest"}

Plain(j) ==
    /\ j.gone = Nobody /\ j.at \notin Deleting \cup {"own"}
    /\ j.then # "own" /\ j.back = "idle"
    /\ j.purge = {} /\ j.share = {} /\ j.hand = {} /\ j.rest = {}

(* Where a deletion is: in one of its loops, or writing an heir and coming *)
(* back to the loop. The heir is there, and what is handed on is no        *)
(* personal space any more.                                                *)
Late(j) == {"hand", "rest"} \cap {j.at, j.back} # {}
Resting(j) == "rest" \in {j.at, j.back}

Going(j) ==
    /\ j.gone # Nobody
    /\ \/ j.at \in Deleting /\ j.then = "idle" /\ j.back = "idle"
       \/ j.at = "own" /\ j.then = "idle" /\ j.back # "idle"
       \/ j.at \in {"update", "upsert"} /\ j.then = "own" /\ j.back # "idle"
    /\ j.gone \in accounts => j.at = "delete"
    /\ "own" \in {j.at, j.then} => j.p \in accounts
    /\ "own" \in {j.at, j.then} \/ j.at = "heir" => ~ space[j.w].personal
    /\ Late(j) => j.purge = {} /\ j.share = {} /\ j.boss \in owners
    /\ \A w \in j.hand \cup j.rest : ~ space[w].personal
    /\ j.at = "delete" => \A w \in Spaces \ left :
          space[w].personal /\ space[w].owner = j.gone
             => w \in j.purge \cup j.share

(* What a deletion has yet to deal with is in one of its lists.            *)
Due(j, w) == j.gone # Nobody /\ j.at # "delete" /\ space[w].owner = j.gone

InHand(j, w) ==
    /\ space[w].personal =>
          \/ space[w].owner \in accounts /\ role[w][space[w].owner] = "admin"
          \/ Due(j, w) /\ w \in j.purge \cup j.share
    /\ space[w].is /\ ~ space[w].personal =>
          \/ space[w].owner \in accounts
          \/ /\ Due(j, w)
             /\ Resting(j) => w \in j.rest \/ (j.at = "own" /\ w = j.w)

Ordered(j) ==
    /\ Rightful(j) /\ (Plain(j) \/ Going(j))
    /\ \A w \in Spaces \ left : InHand(j, w)

Order ==
    /\ \A w \in Spaces : space[w].personal => space[w].is
    /\ \A h \in Handlers : Ordered(job[h])
    /\ Handlers = {} => \A w \in Spaces \ left : InCharge(w)

LEMMA InitOrder == Init => Order
<1> SUFFICES ASSUME Init PROVE Order
  OBVIOUS
<1>1. \A w \in Spaces : /\ ~ space[w].personal
                        /\ space[w].is => space[w].owner \in accounts
  BY DEF Init, NoSpace
<1>2. \A w \in Spaces : InCharge(w) /\ InHand(Idle, w)
  BY <1>1 DEF InCharge, InHand
<1>3. Rightful(Idle) /\ Plain(Idle)
  BY DEF Rightful, Plain, Idle, Deleting
<1>4. \A h \in Handlers : job[h] = Idle
  BY DEF Init
<1> QED BY <1>1, <1>2, <1>3, <1>4 DEF Order, Ordered

(* One request at a time: what it asks for is all there is to write.       *)
LEMMA OrderedIsAll ==
  ASSUME OneAtATime, Typed, NEW h \in Handlers, NEW k, Ask(h, k), Ordered(k)',
         \A w \in Spaces : space'[w].personal => space'[w].is
  PROVE  Order'
<1>1. \A g \in Handlers : job'[g] = k
  BY DEF OneAtATime, Ask, Typed, TypeOK
<1>2. \A g \in Handlers : Ordered(job[g])'
  BY <1>1 DEF Ordered, Rightful, Plain, Going, InHand, Due, Late, Resting
<1>3. Handlers # {}
  OBVIOUS
<1> QED BY <1>2, <1>3 DEF Order

LEMMA StillOrdered ==
  ASSUME OneAtATime, Typed, Order, NEW h \in Handlers, NEW k, Ask(h, k),
         Ordered(k), UNCHANGED <<rows, left>>
  PROVE  Order'
<1>1. Ordered(k)'
  BY DEF rows, Ordered, Rightful, Plain, Going, InHand, InCharge, Due, Late,
         Resting, PersonalOwner
<1>2. \A w \in Spaces : space'[w].personal => space'[w].is
  BY DEF Order, rows
<1> QED BY <1>1, <1>2, OrderedIsAll

LEMMA NobodyIsNoAccount ==
  ASSUME Typed PROVE Nobody \notin accounts
BY PeopleAreNumbers DEF Nobody, People

(* A request that is no deletion finds every workspace in order ...        *)
LEMMA PlainFindsOrder ==
  ASSUME Order, NEW h \in Handlers, Plain(job[h])
  PROVE  \A w \in Spaces \ left : InCharge(w)
<1>1. \A w \in Spaces \ left : InHand(job[h], w)
  BY DEF Order, Ordered
<1>2. \A w \in Spaces : space[w].personal => space[w].is
  BY DEF Order
<1> QED BY <1>1, <1>2 DEF Plain, InHand, InCharge, Due

(* ... and has to leave it so.                                             *)
LEMMA PlainLeavesOrder ==
  ASSUME OneAtATime, Typed, NEW h \in Handlers, NEW k, Ask(h, k), Plain(k),
         Rightful(k)', \A w \in Spaces \ left' : InCharge(w)',
         \A w \in Spaces : space'[w].personal => space'[w].is
  PROVE  Order'
<1>1. Plain(k)'
  BY DEF Plain
<1>2. \A w \in Spaces \ left' : InHand(k, w)'
  BY DEF InHand, InCharge
<1>3. Ordered(k)'
  BY <1>1, <1>2 DEF Ordered
<1> QED BY <1>3, OrderedIsAll

(* A job that is asked for while the rows stay as they are.                *)
LEMMA PlainAsks ==
  ASSUME OneAtATime, Typed, Order, NEW h \in Handlers, Plain(job[h]), NEW k,
         Ask(h, k), Plain(k), Rightful(k), UNCHANGED <<rows, left>>
  PROVE  Order'
<1>1. \A w \in Spaces \ left : InHand(k, w)
  BY PlainFindsOrder DEF InCharge, InHand
<1> QED BY <1>1, StillOrdered DEF Ordered

LEMMA FreeIsPlain ==
  ASSUME Typed, Order, NEW h \in Handlers,
         \/ job[h].at \notin Deleting \cup {"own", "update", "upsert"}
         \/ job[h].at # "own" /\ job[h].then \in {"idle", "house"}
              /\ job[h].at \notin Deleting
  PROVE  Plain(job[h])
BY DEF Order, Ordered, Plain, Going

LEMMA NewcomerIsPlain ==
  ASSUME NEW at \in {"house", "create", "join"}, NEW p
  PROVE  /\ Plain(Newcomer(at, p))
         /\ p \in accounts => Rightful(Newcomer(at, p))
         /\ at = "join" => Rightful(Newcomer(at, p))
BY DEF Plain, Rightful, Newcomer, Idle, Deleting

LEMMA IdleIsPlain == Plain(Idle) /\ Rightful(Idle)
BY DEF Plain, Rightful, Idle, Deleting

LEMMA AskedRoleIsPlain ==
  ASSUME OneAtATime, Typed, Order, NEW h \in Handlers, Free(h),
         NEW at \in {"insert", "upsert", "add", "assign", "update"},
         NEW w, NEW p, NEW r,
         AskRole(h, at, w, p, r),
         IF at = "insert" THEN p \in accounts
         ELSE \/ at \in {"add", "assign"}
              \/ r = "admin" \/ p # PersonalOwner(w) \/ w \in left
  PROVE  Order'
<1> DEFINE k == [Idle EXCEPT !.at = at, !.w = w, !.p = p, !.r = r]
<1>1. Plain(k) /\ Rightful(k)
  BY DEF Plain, Rightful, Idle, Deleting
<1>2. Plain(job[h])
  BY FreeIsPlain DEF Free, Deleting
<1>3. Ask(h, k) /\ UNCHANGED <<rows, left>>
  BY DEF AskRole
<1> HIDE DEF k
<1> QED BY <1>1, <1>2, <1>3, PlainAsks

(* Requests that find rows in order and leave them as they are.            *)
LEMMA RequestsKeepOrder ==
  ASSUME OneAtATime, Typed, Order, NEW h \in Handlers,
         \/ Grant(h) \/ NoSpaceOfTheirOwn(h) \/ CreateWorkspace(h)
         \/ AcceptInvite(h) \/ AddWorkspaceMember(h) \/ UpdateMember(h)
         \/ RemoveMember(h) \/ AdminMembership(h) \/ AdoptWorkspace(h)
         \/ DeleteWorkspace(h) \/ DeleteStrandedWorkspace(h)
         \/ SetUserDisabled(h) \/ UpdateUser(h) \/ TransferOwner(h)
  PROVE  Order'
<1> DEFINE j == job[h]
<1>0. j \in Job /\ Target(j) /\ Ordered(j)
  BY DEF Typed, TypeOK, Located, Order
<1>1. CASE Grant(h)
  <2>1. j.at = "grant" /\ j.p \in accounts
    BY <1>0, <1>1 DEF Grant, Ordered, Rightful
  <2>2. Plain(j)
    BY <2>1, FreeIsPlain DEF Deleting
  <2>3. PICK k : k = [j EXCEPT !.at = "insert", !.then = "house",
                               !.me = Nobody]
    OBVIOUS
  <2>4. Plain(k) /\ Rightful(k)
    BY <1>0, <2>1, <2>2, <2>3 DEF Plain, Rightful, Deleting, Job
  <2>5. Ask(h, k) \/ Ask(h, Newcomer("house", j.p))
    BY <1>1, <2>3 DEF Grant
  <2>6. UNCHANGED <<rows, left>>
    BY <1>1 DEF Grant
  <2> QED BY <2>1, <2>2, <2>4, <2>5, <2>6, NewcomerIsPlain, PlainAsks
<1>2. CASE NoSpaceOfTheirOwn(h)
  <2>1. Plain(j)
    BY <1>2, FreeIsPlain DEF NoSpaceOfTheirOwn, Deleting
  <2> QED BY <1>2, <2>1, NewcomerIsPlain, PlainAsks DEF NoSpaceOfTheirOwn
<1>3. CASE CreateWorkspace(h)
  <2>1. Plain(j)
    BY <1>3, FreeIsPlain DEF CreateWorkspace, Free, Deleting
  <2>2. PICK me \in accounts : Ask(h, Newcomer("create", me))
    BY <1>3 DEF CreateWorkspace, Active
  <2>3. UNCHANGED <<rows, left>>
    BY <1>3 DEF CreateWorkspace
  <2> QED BY <2>1, <2>2, <2>3, NewcomerIsPlain, PlainAsks
<1>4. CASE AcceptInvite(h)
  BY <1>4, AskedRoleIsPlain DEF AcceptInvite, Active
<1>5. CASE AddWorkspaceMember(h)
  BY <1>5, AskedRoleIsPlain DEF AddWorkspaceMember
<1>6. CASE UpdateMember(h)
  <2>1. PICK w \in Spaces, p \in People, r \in Roles :
          MayUpdate(w, p, r) /\ AskRole(h, "update", w, p, r)
    BY <1>6 DEF UpdateMember
  <2>2. Free(h)
    BY <1>6 DEF UpdateMember
  <2> QED BY <2>1, <2>2, AskedRoleIsPlain DEF MayUpdate
<1>7. CASE RemoveMember(h)
  BY <1>7, AskedRoleIsPlain DEF RemoveMember
<1>8. CASE AdminMembership(h)
  BY <1>8, AskedRoleIsPlain DEF AdminMembership
<1>9. CASE AdoptWorkspace(h)
  BY <1>9, AskedRoleIsPlain DEF AdoptWorkspace
<1>10. CASE DeleteWorkspace(h) \/ DeleteStrandedWorkspace(h)
  <2>1. PICK me, w : AskDrop(h, me, w)
    BY <1>10 DEF DeleteWorkspace, DeleteStrandedWorkspace
  <2>2. PICK k : k = [Idle EXCEPT !.at = "drop", !.me = me, !.w = w]
    OBVIOUS
  <2>3. Plain(k) /\ Rightful(k)
    BY <2>2 DEF Plain, Rightful, Idle, Deleting
  <2>4. Ask(h, k) /\ UNCHANGED <<rows, left>>
    BY <2>1, <2>2 DEF AskDrop
  <2>5. Plain(j)
    BY <1>10, FreeIsPlain
       DEF DeleteWorkspace, DeleteStrandedWorkspace, Free, Deleting
  <2> QED BY <2>3, <2>4, <2>5, PlainAsks
<1>11. CASE SetUserDisabled(h) \/ UpdateUser(h) \/ TransferOwner(h)
  <2>1. PICK at \in {"enable", "disable", "promote", "demote", "transfer"},
             me \in accounts \cup {Nobody}, p \in accounts :
          AskAccount(h, at, me, p)
    BY <1>11 DEF SetUserDisabled, UpdateUser, TransferOwner, OwnerOnly, Active
  <2>2. PICK k : k = [Idle EXCEPT !.at = at, !.me = me, !.p = p]
    OBVIOUS
  <2>3. Plain(k) /\ Rightful(k)
    BY <2>2 DEF Plain, Rightful, Idle, Deleting
  <2>4. Ask(h, k) /\ UNCHANGED <<rows, left>>
    BY <2>1, <2>2 DEF AskAccount
  <2>5. Plain(j)
    BY <1>11, FreeIsPlain
       DEF SetUserDisabled, UpdateUser, TransferOwner, Free, Deleting
  <2> QED BY <2>3, <2>4, <2>5, PlainAsks
<1> QED BY <1>1, <1>2, <1>3, <1>4, <1>5, <1>6, <1>7, <1>8, <1>9, <1>10, <1>11

(* Accounts and roles that are written.                                    *)
LEMMA AccountsKeepOrder ==
  ASSUME OneAtATime, Typed, Order, NEW h \in Handlers,
         CreateUser(h) \/ SetFlags(h) \/ SeatOwner(h) \/ PurgeWorkspace(h)
  PROVE  Order'
<1>0. \A w \in Spaces : space[w].personal => space[w].is
  BY DEF Order
<1>1. Plain(job[h])
  BY FreeIsPlain DEF CreateUser, SetFlags, SeatOwner, PurgeWorkspace, Free,
                     Deleting
<1>2. \A w \in Spaces \ left : InCharge(w)
  BY <1>1, PlainFindsOrder
<1>3. CASE CreateUser(h)
  <2>1. UNCHANGED <<space, role, left>> /\ accounts' = accounts \cup {born + 1}
    BY <1>3 DEF CreateUser
  <2>2. \A w \in Spaces \ left' : InCharge(w)'
    BY <1>2, <2>1 DEF InCharge
  <2>3. PICK k : Ask(h, k) /\ Plain(k) /\ k.p = born + 1
                   /\ k.at \notin {"upsert", "update"}
    <3>1. ASSUME NEW me, NEW w, NEW r,
                 Ask(h, [Idle EXCEPT !.at = "grant", !.me = me,
                                     !.p = born + 1, !.w = w, !.r = r])
          PROVE  \E k : Ask(h, k) /\ Plain(k) /\ k.p = born + 1
                          /\ k.at \notin {"upsert", "update"}
      <4> DEFINE k == [Idle EXCEPT !.at = "grant", !.me = me,
                                   !.p = born + 1, !.w = w, !.r = r]
      <4>1. /\ Plain(k) /\ k.p = born + 1
            /\ k.at \notin {"upsert", "update"}
        BY DEF Plain, Idle, Deleting
      <4> QED BY <3>1, <4>1
    <3>2. ASSUME Ask(h, Newcomer("house", born + 1))
          PROVE  \E k : Ask(h, k) /\ Plain(k) /\ k.p = born + 1
                          /\ k.at \notin {"upsert", "update"}
      <4>1. LET k == Newcomer("house", born + 1) IN
            Plain(k) /\ k.p = born + 1 /\ k.at \notin {"upsert", "update"}
        BY DEF Newcomer, Plain, Idle, Deleting
      <4> QED BY <3>2, <4>1
    <3> QED BY <1>3, <3>1, <3>2 DEF CreateUser
  <2>4. k.p \in accounts'
    BY <2>1, <2>3
  <2>5. Rightful(k)'
    BY <2>3, <2>4 DEF Rightful
  <2> QED BY <1>0, <2>1, <2>2, <2>3, <2>5, PlainLeavesOrder
<1>4. CASE SetFlags(h) \/ SeatOwner(h)
  <2>1. UNCHANGED <<space, role, left, accounts>> /\ Ask(h, Idle)
    BY <1>4, DoneIsAsking DEF SetFlags, SeatOwner
  <2>2. \A w \in Spaces \ left' : InCharge(w)'
    BY <1>2, <2>1 DEF InCharge
  <2>3. Rightful(Idle)'
    BY DEF Rightful, Idle
  <2> QED BY <1>0, <2>1, <2>2, <2>3, IdleIsPlain, PlainLeavesOrder
<1>5. CASE PurgeWorkspace(h)
  <2>1. Purge(job[h].w) /\ Ask(h, Idle) /\ UNCHANGED accounts
    BY <1>5, DoneIsAsking DEF PurgeWorkspace
  <2>2. \A w \in Spaces : IF w = job[h].w
                          THEN ~ space'[w].is /\ ~ space'[w].personal
                          ELSE space'[w] = space[w] /\ role'[w] = role[w]
    BY <2>1 DEF Purge, NoSpace, Typed, TypeOK
  <2>3. \A w \in Spaces \ left' : w = job[h].w \/ w \notin left
    BY <2>1 DEF Purge
  <2>4. \A w \in Spaces \ left' : InCharge(w)'
    BY <1>2, <2>1, <2>2, <2>3 DEF InCharge
  <2>5. Rightful(Idle)'
    BY DEF Rightful, Idle
  <2> QED BY <1>0, <2>1, <2>2, <2>4, <2>5, IdleIsPlain, PlainLeavesOrder
<1> QED BY <1>3, <1>4, <1>5

LEMMA RolesKeepOrder ==
  ASSUME OneAtATime, Typed, Order, NEW h \in Handlers,
         NewSpace(h) \/ JoinAutoWorkspaces(h)
  PROVE  Order'
<1> DEFINE j == job[h]
<1>0. /\ \A w \in Spaces : space[w].personal => space[w].is
      /\ Ordered(j) /\ j \in Job /\ Target(j)
  BY DEF Order, Typed, TypeOK, Located
<1>1. Plain(j)
  BY FreeIsPlain DEF NewSpace, JoinAutoWorkspaces, Deleting
<1>2. \A w \in Spaces \ left : InCharge(w)
  BY <1>1, PlainFindsOrder
<1>3. CASE NewSpace(h)
  <2>1. j.p \in accounts /\ j.p \in People
    BY <1>0, <1>3 DEF NewSpace, Ordered, Rightful, Target
  <2>2. made + 1 \in Spaces
    <3>1. made \in 1 .. MaxSpaces /\ made < MaxSpaces
      BY <1>3 DEF NewSpace, Typed, TypeOK
    <3> QED BY <3>1 DEF Spaces
  <2>3. /\ space'[made + 1].is /\ space'[made + 1].owner = j.p
        /\ role'[made + 1][j.p] = "admin"
    BY <1>3, <2>1, <2>2 DEF NewSpace, Typed, TypeOK
  <2>4. \A w \in Spaces : w # made + 1
           => space'[w] = space[w] /\ role'[w] = role[w]
    BY <1>3 DEF NewSpace, Typed, TypeOK
  <2>5. UNCHANGED <<accounts, left>>
    BY <1>3 DEF NewSpace
  <2>6. \A w \in Spaces \ left' : InCharge(w)'
    BY <1>2, <2>1, <2>3, <2>4, <2>5 DEF InCharge
  <2>7. Ask(h, Newcomer("join", j.p)) \/ Ask(h, Idle)
    BY <1>3 DEF NewSpace
  <2>8. \A p : Rightful(Newcomer("join", p))' /\ Rightful(Idle)'
    BY DEF Rightful, Idle, Newcomer
  <2>9. \A w \in Spaces : space'[w].personal => space'[w].is
    BY <1>0, <2>3, <2>4
  <2>10. CASE Ask(h, Idle)
    BY <2>6, <2>8, <2>9, <2>10, IdleIsPlain, PlainLeavesOrder
  <2>11. CASE Ask(h, Newcomer("join", j.p))
    <3>1. PICK k : k = Newcomer("join", j.p)
      OBVIOUS
    <3>2. PICK p : p = j.p
      OBVIOUS
    <3>3. k = Newcomer("join", p) /\ Ask(h, k)
      BY <2>11, <3>1, <3>2
    <3>4. Rightful(k)' /\ Plain(k)
      BY <3>3 DEF Rightful, Plain, Newcomer, Idle, Deleting
    <3> QED BY <2>6, <2>9, <3>3, <3>4, PlainLeavesOrder
  <2> QED BY <2>7, <2>10, <2>11
<1>4. CASE JoinAutoWorkspaces(h)
  <2>1. \A w \in Spaces, q \in People :
           role[w][q] = "admin" => role'[w][q] = "admin"
    BY <1>4 DEF JoinAutoWorkspaces, Member, Typed, TypeOK
  <2>2. UNCHANGED <<space, left, accounts>> /\ Ask(h, Idle)
    BY <1>4, DoneIsAsking DEF JoinAutoWorkspaces
  <2>3. \A w \in Spaces \ left' : InCharge(w)'
    BY <1>2, <2>1, <2>2, PeopleAreNumbers DEF InCharge
  <2>4. Rightful(Idle)'
    BY DEF Rightful, Idle
  <2> QED BY <1>0, <2>2, <2>3, <2>4, IdleIsPlain, PlainLeavesOrder
<1> QED BY <1>3, <1>4

(* A role that is written takes nothing from the person of a personal      *)
(* space that is not left to itself.                                       *)
LEMMA WritingKeepsThePerson ==
  ASSUME Typed, NEW h \in Handlers, WriteRole(h), Rightful(job[h]),
         NEW w \in Spaces \ left', space[w].personal,
         space[w].owner \in accounts, role[w][space[w].owner] = "admin"
  PROVE  role'[w][space[w].owner] = "admin"
<1> DEFINE j == job[h]
           o == space[w].owner
<1>0. j \in Job /\ Target(j) /\ o \in People
  BY PeopleAreNumbers DEF Typed, TypeOK, Located
<1>1. /\ j.at \in {"insert", "upsert", "add", "assign", "update"}
      /\ j.w \in Spaces /\ j.p \in People
  BY <1>0 DEF WriteRole, Target
<1>2. CASE ~ (w = j.w /\ o = j.p) \/ ~ Applies(j)
  BY <1>0, <1>1, <1>2 DEF WriteRole, Typed, TypeOK
<1>3. CASE w = j.w /\ o = j.p /\ Applies(j)
  <2>1. j.at # "insert"
    BY <1>3 DEF Applies, Member
  <2>2. j.r = "admin" \/ (w \notin left /\ ~ Unseats(j))
    BY <1>3 DEF WriteRole, Reseats
  <2>3. j.r = "admin"
    BY <1>1, <1>3, <2>1, <2>2 DEF Rightful, PersonalOwner, Unseats
  <2> QED BY <1>0, <1>1, <1>3, <2>3 DEF WriteRole, Typed, TypeOK
<1> QED BY <1>2, <1>3

(* A space is only taken out of left when its person, who is there, comes  *)
(* to administer it again.                                                 *)
LEMMA ReseatedIsInCharge ==
  ASSUME Typed, NEW h \in Handlers, WriteRole(h),
         NEW w \in left \ left'
  PROVE  InCharge(w)' /\ space[w].personal
<1> DEFINE j == job[h]
<1>0. j \in Job /\ Target(j)
  BY DEF Typed, TypeOK, Located
<1>1. /\ j.at \in {"insert", "upsert", "add", "assign", "update"}
      /\ j.w \in Spaces /\ j.p \in People
  BY <1>0 DEF WriteRole, Target
<1>2. Reseats(j) /\ w = j.w
  BY DEF WriteRole
<1>3. space[w].personal /\ space[w].owner = j.p
  <2>1. j.p # Nobody
    BY <1>1, BoundsAssumption DEF People, Nobody
  <2> QED BY <1>2, <2>1 DEF Reseats, PersonalOwner
<1>4. j.p \in accounts
  BY <1>1, <1>2 DEF Reseats, Applies, Typed, TypeOK, References, Members
<1>5. role'[w][j.p] = "admin"
  BY <1>1, <1>2 DEF Reseats, WriteRole, Typed, TypeOK
<1> QED BY <1>3, <1>4, <1>5 DEF InCharge, WriteRole

LEMMA WritingKeepsOrder ==
  ASSUME OneAtATime, Typed, Order, NEW h \in Handlers, WriteRole(h)
  PROVE  Order'
<1> DEFINE j == job[h]
<1>0. /\ \A w \in Spaces : space[w].personal => space[w].is
      /\ Ordered(j) /\ j \in Job /\ Target(j) /\ Rightful(j)
      /\ j.at \in {"insert", "upsert", "add", "assign", "update"}
      /\ Ask(h, After(j)) /\ UNCHANGED <<accounts, owners, space>>
  BY DEF Order, Ordered, Typed, TypeOK, Located, WriteRole
<1>1. \A w \in Spaces \ left : InHand(j, w)
  BY <1>0 DEF Ordered
<1>2. CASE j.then # "own"
  <2>1. j.then \in {"idle", "house"}
    BY <1>0, <1>2 DEF Target
  <2>2. Plain(j)
    BY <1>0, <2>1, FreeIsPlain DEF Deleting
  <2>3. \A w \in Spaces \ left : InCharge(w)
    BY <2>2, PlainFindsOrder
  <2>4. \A w \in Spaces \ left' : InCharge(w)'
    <3>1. ASSUME NEW w \in Spaces \ left', w \notin left
          PROVE  InCharge(w)'
      BY <1>0, <2>3, <3>1, WritingKeepsThePerson DEF InCharge
    <3> QED BY <3>1, ReseatedIsInCharge
  <2>5. CASE j.then = "idle"
    <3>1. Ask(h, Idle)
      BY <1>0, <2>5 DEF After
    <3>2. Rightful(Idle)'
      BY DEF Rightful, Idle
    <3> QED BY <1>0, <2>4, <3>1, <3>2, IdleIsPlain, PlainLeavesOrder
  <2>6. CASE j.then = "house"
    <3>1. PICK p : p = j.p /\ p \in accounts'
      BY <1>0, <2>6 DEF Rightful
    <3>2. PICK k : k = Newcomer("house", p) /\ Ask(h, k)
      BY <1>0, <2>6, <3>1 DEF After
    <3>3. Rightful(k)' /\ Plain(k)
      BY <3>1, <3>2 DEF Rightful, Plain, Newcomer, Idle, Deleting
    <3> QED BY <1>0, <2>4, <3>2, <3>3, PlainLeavesOrder
  <2> QED BY <2>1, <2>5, <2>6
<1>3. CASE j.then = "own"
  <2>1. Going(j)
    BY <1>0, <1>3 DEF Ordered, Plain
  <2>2. PICK k : k = [j EXCEPT !.at = "own", !.then = "idle", !.r = "none"]
    OBVIOUS
  <2>3. Ask(h, k)
    BY <1>0, <1>3, <2>2 DEF After
  <2>4. /\ k.at = "own" /\ k.then = "idle" /\ k.back = j.back
        /\ k.gone = j.gone /\ k.p = j.p /\ k.w = j.w /\ k.boss = j.boss
        /\ k.purge = j.purge /\ k.share = j.share /\ k.hand = j.hand
        /\ k.rest = j.rest
    BY <1>0, <2>2 DEF Job
  <2>5. Going(k)'
    BY <1>0, <1>3, <2>1, <2>4 DEF Going, Late, Deleting
  <2>6. Rightful(k)'
    BY <2>4 DEF Rightful
  <2>7. ASSUME NEW w \in Spaces \ left' PROVE InHand(k, w)'
    <3>0. CASE w \in left
      BY <1>0, <2>7, <3>0, ReseatedIsInCharge DEF InCharge, InHand
    <3> SUFFICES ASSUME w \notin left PROVE InHand(k, w)'
      BY <3>0
    <3>1. space[w].personal =>
            \/ space[w].owner \in accounts /\ role[w][space[w].owner] = "admin"
            \/ Due(j, w) /\ w \in j.purge \cup j.share
      BY <1>0, <1>1, <2>7 DEF InHand
    <3>2. (Due(j, w) => Due(k, w)') /\ (Resting(k) => Resting(j))
      BY <1>0, <2>4 DEF Due, Resting
    <3>3. space[w].personal =>
            \/ space[w].owner \in accounts
                 /\ role'[w][space[w].owner] = "admin"
            \/ Due(k, w)' /\ w \in k.purge \cup k.share
      BY <1>0, <2>4, <2>7, <3>1, <3>2, WritingKeepsThePerson
    <3>4. space[w].is /\ ~ space[w].personal =>
            \/ space[w].owner \in accounts
            \/ Due(j, w) /\ (Resting(j) => w \in j.rest)
      BY <1>0, <1>1, <2>7 DEF InHand
    <3>5. space[w].is /\ ~ space[w].personal =>
            \/ space[w].owner \in accounts
            \/ Due(k, w)' /\ (Resting(k) => w \in k.rest)
      BY <2>4, <3>2, <3>4
    <3> QED BY <1>0, <3>3, <3>5 DEF InHand, Resting
  <2>8. Ordered(k)'
    BY <1>0, <2>5, <2>6, <2>7 DEF Ordered
  <2> QED BY <1>0, <2>3, <2>8, OrderedIsAll
<1> QED BY <1>2, <1>3

(* The deletion of an account.                                             *)
LEMMA DeletingKeepsOrder ==
  ASSUME OneAtATime, Typed, Order, NEW h \in Handlers,
         DeleteUser(h) \/ DeleteAccount(h)
  PROVE  Order'
<1> DEFINE j == job[h]
<1>0. /\ \A w \in Spaces : space[w].personal => space[w].is
      /\ Ordered(j) /\ j \in Job /\ Target(j)
      /\ \A w \in Spaces \ left : InHand(j, w)
  BY DEF Order, Ordered, Typed, TypeOK, Located
<1>1. CASE DeleteUser(h)
  <2>1. PICK p \in accounts :
          Ask(h, [Idle EXCEPT !.at = "delete", !.gone = p,
                              !.purge = Lonely(p),
                              !.share = Own(p) \ Lonely(p),
                              !.hand = Orphaned(p)])
    BY <1>1 DEF DeleteUser
  <2>2. PICK k : k = [Idle EXCEPT !.at = "delete", !.gone = p,
                                  !.purge = Lonely(p),
                                  !.share = Own(p) \ Lonely(p),
                                  !.hand = Orphaned(p)]
    OBVIOUS
  <2>3. /\ k.at = "delete" /\ k.then = "idle" /\ k.back = "idle"
        /\ k.gone = p /\ k.purge = Lonely(p) /\ k.share = Own(p) \ Lonely(p)
        /\ k.hand = Orphaned(p) /\ k.rest = {}
    BY <2>2 DEF Idle
  <2>4. Ask(h, k) /\ UNCHANGED <<rows, left>>
    BY <1>1, <2>1, <2>2 DEF DeleteUser
  <2>5. \A w \in Spaces \ left : InCharge(w)
    <3>1. Plain(j)
      BY <1>1, FreeIsPlain DEF DeleteUser, Free, Deleting
    <3> QED BY <3>1, PlainFindsOrder
  <2>6. p # Nobody /\ p \in People
    BY <2>1, NobodyIsNoAccount, PeopleAreNumbers
  <2>7. \A w \in Spaces \ left :
           space[w].personal /\ space[w].owner = p => w \in Own(p)
    BY <2>5 DEF InCharge, Own, Theirs, Member
  <2>8. \A w \in k.hand \cup k.rest : ~ space[w].personal
    BY <2>3 DEF Orphaned
  <2>9. Going(k)
    BY <2>3, <2>6, <2>7, <2>8 DEF Going, Late, Deleting
  <2>10. Rightful(k)
    BY <2>3 DEF Rightful
  <2>11. \A w \in Spaces \ left : InHand(k, w)
    BY <2>5 DEF InCharge, InHand
  <2> QED BY <2>4, <2>9, <2>10, <2>11, StillOrdered DEF Ordered
<1>2. CASE DeleteAccount(h)
  <2>1. PICK k : k = [j EXCEPT !.at = "loop"]
    OBVIOUS
  <2>2. /\ k.at = "loop" /\ k.then = j.then /\ k.back = j.back
        /\ k.gone = j.gone /\ k.purge = j.purge /\ k.share = j.share
        /\ k.hand = j.hand /\ k.rest = j.rest /\ j.at = "delete"
    BY <1>0, <1>2, <2>1 DEF Job, DeleteAccount
  <2>3. Ask(h, k) /\ UNCHANGED <<space, left>>
        /\ accounts' = accounts \ {j.gone}
    BY <1>2, <2>1 DEF DeleteAccount
  <2>4. Going(j)
    BY <1>0, <2>2 DEF Ordered, Plain, Deleting
  <2>5. j.then = "idle" /\ j.back = "idle" /\ j.gone # Nobody
    BY <2>2, <2>4 DEF Going
  <2>6. Going(k)'
    BY <2>2, <2>3, <2>4, <2>5 DEF Going, Late, Deleting
  <2>7. Rightful(k)'
    BY <2>2, <2>5 DEF Rightful
  <2>8. ASSUME NEW w \in Spaces \ left PROVE InHand(k, w)'
    <3>1. /\ space[w].personal => /\ space[w].owner \in accounts
                                  /\ role[w][space[w].owner] = "admin"
          /\ space[w].is /\ ~ space[w].personal => space[w].owner \in accounts
      BY <1>0, <2>2, <2>8 DEF InHand, Due
    <3>2. ~ Resting(k)
      BY <2>2, <2>5 DEF Resting
    <3>3. CASE space[w].owner = j.gone
      <4>1. Due(k, w)'
        BY <2>2, <2>3, <2>5, <3>3 DEF Due
      <4>2. space[w].personal => w \in k.purge \cup k.share
        BY <2>2, <2>4, <2>8, <3>3 DEF Going
      <4> QED BY <2>3, <3>2, <4>1, <4>2 DEF InHand, Resting
    <3>4. CASE space[w].owner # j.gone
      <4>1. space[w].owner \in accounts => role'[w][space[w].owner]
                                             = role[w][space[w].owner]
        BY <1>2, <3>4, PeopleAreNumbers DEF DeleteAccount, Typed, TypeOK
      <4> QED BY <2>3, <3>1, <3>4, <4>1 DEF InHand
    <3> QED BY <3>3, <3>4
  <2>9. Ordered(k)'
    BY <2>3, <2>6, <2>7, <2>8 DEF Ordered
  <2> QED BY <1>0, <2>3, <2>9, OrderedIsAll
<1> QED BY <1>1, <1>2

(* The loops, one personal space after the other.                          *)
LEMMA LoopsKeepOrder ==
  ASSUME OneAtATime, Typed, Order, NEW h \in Handlers,
         PurgePersonal(h) \/ ShareOut(h)
  PROVE  Order'
<1> DEFINE j == job[h]
<1>0. /\ \A w \in Spaces : space[w].personal => space[w].is
      /\ Ordered(j) /\ j \in Job /\ j.at = "loop"
      /\ \A w \in Spaces \ left : InHand(j, w)
  BY DEF Order, Ordered, Typed, TypeOK, PurgePersonal, ShareOut
<1>1. Going(j) /\ Rightful(j)
  BY <1>0 DEF Ordered, Plain, Deleting
<1>2. /\ j.then = "idle" /\ j.back = "idle" /\ j.gone # Nobody
      /\ j.gone \notin accounts
      /\ \A w \in j.hand \cup j.rest : ~ space[w].personal
  BY <1>0, <1>1 DEF Going
<1>3. CASE PurgePersonal(h)
  <2>1. PICK w \in First(j.purge) :
          Purge(w) /\ Ask(h, [j EXCEPT !.purge = @ \ {w}])
    BY <1>3 DEF PurgePersonal
  <2>2. PICK k : k = [j EXCEPT !.purge = @ \ {w}]
    OBVIOUS
  <2>3. /\ k.at = "loop" /\ k.then = "idle" /\ k.back = "idle"
        /\ k.gone = j.gone /\ k.purge = j.purge \ {w} /\ k.share = j.share
        /\ k.hand = j.hand /\ k.rest = j.rest
    BY <1>0, <1>2, <2>2 DEF Job
  <2>4. Ask(h, k) /\ UNCHANGED accounts
    BY <1>3, <2>1, <2>2 DEF PurgePersonal
  <2>5. \A v \in Spaces : IF v = w
                          THEN ~ space'[v].is /\ ~ space'[v].personal
                          ELSE space'[v] = space[v] /\ role'[v] = role[v]
    BY <2>1 DEF Purge, NoSpace, Typed, TypeOK
  <2>6. \A v \in Spaces : space'[v].personal => space'[v].is
    BY <1>0, <2>5
  <2>7. \A v \in k.hand \cup k.rest : ~ space'[v].personal
    BY <1>0, <1>2, <2>3, <2>5 DEF Job
  <2>8. Going(k)'
    BY <1>2, <2>3, <2>4, <2>7 DEF Going, Late, Deleting
  <2>9. Rightful(k)'
    BY <2>3 DEF Rightful
  <2>10. ASSUME NEW v \in Spaces \ left' PROVE InHand(k, v)'
    <3>1. CASE v = w
      BY <2>5, <3>1 DEF InHand
    <3>2. CASE v # w
      <4>1. v \in Spaces \ left
        BY <2>1, <3>2 DEF Purge
      <4>2. Due(j, v) => Due(k, v)'
        BY <2>3, <2>5, <3>2 DEF Due
      <4>3. InHand(j, v) /\ ~ Resting(k)
        BY <1>0, <2>3, <4>1 DEF Resting
      <4>4. v \in j.purge \cup j.share => v \in k.purge \cup k.share
        BY <2>3, <3>2
      <4>5. space'[v] = space[v] /\ role'[v] = role[v]
        BY <2>5, <3>2
      <4> QED BY <2>4, <4>2, <4>3, <4>4, <4>5 DEF InHand, Resting
    <3> QED BY <3>1, <3>2
  <2>11. Ordered(k)'
    BY <2>8, <2>9, <2>10 DEF Ordered
  <2> QED BY <2>4, <2>6, <2>11, OrderedIsAll
<1>4. CASE ShareOut(h)
  <2>1. PICK w \in First(j.share) :
          /\ space' = IF space[w].is
                      THEN [space EXCEPT ![w].personal = FALSE] ELSE space
          /\ Ask(h, [j EXCEPT !.at = "heir", !.w = w, !.share = @ \ {w}])
    BY <1>4 DEF ShareOut
  <2>2. PICK k : k = [j EXCEPT !.at = "heir", !.w = w, !.share = @ \ {w}]
    OBVIOUS
  <2>3. /\ k.at = "heir" /\ k.then = "idle" /\ k.back = "idle" /\ k.w = w
        /\ k.gone = j.gone /\ k.purge = j.purge /\ k.share = j.share \ {w}
        /\ k.hand = j.hand /\ k.rest = j.rest
    BY <1>0, <1>2, <2>2 DEF Job
  <2>4. Ask(h, k) /\ UNCHANGED <<accounts, role, left>>
    BY <1>4, <2>1, <2>2 DEF ShareOut
  <2>5. w \in Spaces
    BY <1>0, <2>1, FirstIsOne DEF Job
  <2>6. \A v \in Spaces : /\ space'[v].is = space[v].is
                          /\ space'[v].owner = space[v].owner
                          /\ v # w => space'[v].personal = space[v].personal
                          /\ v = w => ~ space'[v].personal
    <3>1. CASE space[w].is
      <4>1. space' = [space EXCEPT ![w].personal = FALSE]
        BY <2>1, <3>1
      <4> QED BY <4>1 DEF Typed, TypeOK
    <3>2. CASE ~ space[w].is
      BY <1>0, <2>1, <2>5, <3>2
    <3> QED BY <3>1, <3>2
  <2>7. \A v \in Spaces : space'[v].personal => space'[v].is
    BY <1>0, <2>6
  <2>8. \A v \in k.hand \cup k.rest : ~ space'[v].personal
    BY <1>0, <1>2, <2>3, <2>6 DEF Job
  <2>9. Going(k)'
    BY <1>2, <2>3, <2>4, <2>5, <2>6, <2>8 DEF Going, Late, Deleting
  <2>10. Rightful(k)'
    BY <2>3 DEF Rightful
  <2>11. ASSUME NEW v \in Spaces \ left' PROVE InHand(k, v)'
    <3>1. InHand(j, v) /\ ~ Resting(k) /\ (Due(j, v) => Due(k, v)')
      BY <1>0, <2>3, <2>4, <2>6, <2>11 DEF Resting, Due
    <3>2. CASE v # w
      BY <2>3, <2>4, <2>6, <3>1, <3>2 DEF InHand, Resting
    <3>3. CASE v = w
      BY <2>3, <2>4, <2>6, <3>1, <3>3 DEF InHand, Resting
    <3> QED BY <3>2, <3>3
  <2>12. Ordered(k)'
    BY <2>9, <2>10, <2>11 DEF Ordered
  <2> QED BY <2>4, <2>7, <2>12, OrderedIsAll
<1> QED BY <1>3, <1>4

(* An heir, and coming back to the loop.                                   *)
LEMMA HeirsKeepOrder ==
  ASSUME OneAtATime, Typed, Order, NEW h \in Handlers,
         FindHeir(h) \/ Inherit(h)
  PROVE  Order'
<1> DEFINE j == job[h]
<1>0. /\ \A w \in Spaces : space[w].personal => space[w].is
      /\ Ordered(j) /\ j \in Job /\ Target(j) /\ j.at \in {"heir", "own"}
      /\ \A w \in Spaces \ left : InHand(j, w)
  BY DEF Order, Ordered, Typed, TypeOK, Located, FindHeir, Inherit
<1>1. Going(j)
  BY <1>0 DEF Ordered, Plain, Deleting
<1>2. /\ j.then = "idle" /\ j.gone # Nobody /\ j.gone \notin accounts
      /\ j.at = "heir" => j.back = "idle"
      /\ j.at = "own" => j.back # "idle" /\ j.p \in accounts
      /\ ~ space[j.w].personal
      /\ \A w \in j.hand \cup j.rest : ~ space[w].personal
  BY <1>0, <1>1 DEF Going, Deleting
<1>3. CASE FindHeir(h)
  <2>0. j.at = "heir" /\ UNCHANGED <<rows, left>>
    BY <1>3 DEF FindHeir
  <2>1. CASE Ask(h, [j EXCEPT !.at = "loop", !.w = 0])
    <3>1. PICK k : k = [j EXCEPT !.at = "loop", !.w = 0]
      OBVIOUS
    <3>2. /\ k.at = "loop" /\ k.then = "idle" /\ k.back = "idle"
          /\ k.gone = j.gone /\ k.purge = j.purge /\ k.share = j.share
          /\ k.hand = j.hand /\ k.rest = j.rest
      BY <1>0, <1>2, <2>0, <3>1 DEF Job
    <3>3. Going(k) /\ Rightful(k)
      BY <1>2, <3>2 DEF Going, Late, Deleting, Rightful
    <3>4. \A w \in Spaces \ left : InHand(k, w)
      BY <1>0, <2>0, <3>2 DEF InHand, Due, Resting
    <3> QED BY <2>0, <2>1, <3>1, <3>3, <3>4, StillOrdered DEF Ordered
  <2>2. ASSUME NEW q \in Senior(j.w, j.gone),
               Ask(h, [j EXCEPT !.at = "update", !.p = q, !.r = "admin",
                                !.then = "own", !.back = "loop"])
        PROVE  Order'
    <3>1. PICK k : k = [j EXCEPT !.at = "update", !.p = q, !.r = "admin",
                                 !.then = "own", !.back = "loop"]
      OBVIOUS
    <3>2. /\ k.at = "update" /\ k.then = "own" /\ k.back = "loop"
          /\ k.p = q /\ k.w = j.w /\ k.r = "admin"
          /\ k.gone = j.gone /\ k.purge = j.purge /\ k.share = j.share
          /\ k.hand = j.hand /\ k.rest = j.rest
      BY <1>0, <3>1 DEF Job
    <3>3. q \in accounts
      BY DEF Senior, First, Active
    <3>4. Going(k) /\ Rightful(k)
      BY <1>2, <3>2, <3>3 DEF Going, Late, Deleting, Rightful
    <3>5. \A w \in Spaces \ left : InHand(k, w)
      BY <1>0, <2>0, <3>2 DEF InHand, Due, Resting
    <3> QED BY <2>0, <2>2, <3>1, <3>4, <3>5, StillOrdered DEF Ordered
  <2> QED BY <1>3, <2>1, <2>2 DEF FindHeir
<1>4. CASE Inherit(h)
  <2>1. PICK k : k = [j EXCEPT !.at = j.back, !.back = "idle", !.w = 0,
                               !.p = Nobody]
    OBVIOUS
  <2>2. /\ k.at = j.back /\ k.then = "idle" /\ k.back = "idle"
        /\ k.gone = j.gone /\ k.purge = j.purge /\ k.share = j.share
        /\ k.hand = j.hand /\ k.rest = j.rest /\ k.boss = j.boss
    BY <1>0, <1>2, <2>1 DEF Job
  <2>3. /\ Ask(h, k) /\ j.at = "own" /\ j.back \in {"loop", "hand", "rest"}
        /\ UNCHANGED <<accounts, owners, role, left>>
        /\ j.w \in Spaces /\ j.p \in accounts
    BY <1>0, <1>2, <1>4, <2>1 DEF Inherit, Target
  <2>4. \A w \in Spaces :
           /\ space'[w].is = space[w].is
           /\ space'[w].personal = space[w].personal
           /\ w # j.w => space'[w].owner = space[w].owner
           /\ w = j.w /\ space[w].is => space'[w].owner = j.p
    <3>1. CASE space' = [space EXCEPT ![j.w].owner = j.p]
      BY <3>1 DEF Typed, TypeOK
    <3>2. CASE space' = space /\ ~ space[j.w].is
      BY <3>2
    <3> QED BY <1>4, <3>1, <3>2 DEF Inherit
  <2>5. \A w \in Spaces : space'[w].personal => space'[w].is
    BY <1>0, <2>4
  <2>6. \A w \in k.hand \cup k.rest : ~ space'[w].personal
    BY <1>0, <1>2, <2>2, <2>4 DEF Job
  <2>7. Late(k) => k.purge = {} /\ k.share = {} /\ k.boss \in owners'
    BY <1>1, <2>2, <2>3 DEF Going, Late
  <2>8. Going(k)'
    BY <1>2, <2>2, <2>3, <2>6, <2>7 DEF Going, Late, Deleting
  <2>9. Rightful(k)'
    BY <2>2, <2>3 DEF Rightful
  <2>10. ASSUME NEW w \in Spaces \ left' PROVE InHand(k, w)'
    <3>1. InHand(j, w) /\ (Resting(k) <=> Resting(j))
      BY <1>0, <2>2, <2>3, <2>10 DEF Resting
    <3>2. CASE w = j.w
      BY <1>2, <2>3, <2>4, <3>2 DEF InHand
    <3>3. CASE w # j.w
      <4>1. Due(j, w) => Due(k, w)'
        BY <2>2, <2>3, <2>4, <3>3 DEF Due
      <4> QED BY <2>2, <2>3, <2>4, <3>1, <3>3, <4>1 DEF InHand, Resting
    <3> QED BY <3>2, <3>3
  <2>11. Ordered(k)'
    BY <2>8, <2>9, <2>10 DEF Ordered
  <2> QED BY <2>3, <2>5, <2>11, OrderedIsAll
<1> QED BY <1>3, <1>4

(* What is handed on goes to the owner of the instance, who is there, or   *)
(* to an admin of the workspace; and at the end nothing is left.           *)
LEMMA HandingKeepsOrder ==
  ASSUME OneAtATime, Typed, Chair, Order, NEW h \in Handlers,
         \/ FindBoss(h) \/ HandOver(h) \/ FindRest(h) \/ PassOn(h)
         \/ DeleteUserEnds(h)
  PROVE  Order'
<1> DEFINE j == job[h]
<1>0. /\ \A w \in Spaces : space[w].personal => space[w].is
      /\ Ordered(j) /\ j \in Job /\ Target(j)
      /\ j.at \in {"loop", "hand", "rest"}
      /\ \A w \in Spaces \ left : InHand(j, w)
  BY DEF Order, Ordered, Typed, TypeOK, Located, FindBoss, HandOver, FindRest,
         PassOn, DeleteUserEnds
<1>1. Going(j)
  BY <1>0 DEF Ordered, Plain, Deleting
<1>2. /\ j.then = "idle" /\ j.back = "idle" /\ j.gone # Nobody
      /\ j.gone \notin accounts
      /\ \A w \in j.hand \cup j.rest : w \in Spaces /\ ~ space[w].personal
  BY <1>0, <1>1 DEF Going, Deleting, Job
<1>3. j.at \in {"hand", "rest"}
         => j.purge = {} /\ j.share = {} /\ j.boss \in owners
  BY <1>1 DEF Going, Late
<1>4. UNCHANGED <<rows, left>> /\ owners \subseteq accounts
  BY DEF FindBoss, HandOver, FindRest, PassOn, DeleteUserEnds, Typed, TypeOK,
         References
<1>5. CASE FindBoss(h)
  <2>1. PICK o \in owners :
          Ask(h, [j EXCEPT !.at = "hand", !.boss = o,
                           !.hand = IF o \in {Nobody, j.gone} THEN {} ELSE @])
    BY <1>5 DEF FindBoss, Chair, OneOwner
  <2>2. PICK k : k = [j EXCEPT !.at = "hand", !.boss = o,
                         !.hand = IF o \in {Nobody, j.gone} THEN {} ELSE @]
    OBVIOUS
  <2>3. /\ k.at = "hand" /\ k.then = "idle" /\ k.back = "idle"
        /\ k.gone = j.gone /\ k.purge = j.purge /\ k.share = j.share
        /\ k.hand \subseteq j.hand /\ k.rest = j.rest /\ k.boss = o
    BY <1>0, <1>2, <2>2 DEF Job
  <2>4. j.at = "loop" /\ j.purge = {} /\ j.share = {}
    BY <1>5 DEF FindBoss
  <2>5. Going(k) /\ Rightful(k)
    BY <1>2, <2>1, <2>3, <2>4 DEF Going, Late, Deleting, Rightful
  <2>6. \A w \in Spaces \ left : InHand(k, w)
    BY <1>0, <2>3, <2>4 DEF InHand, Due, Resting
  <2> QED BY <1>4, <2>1, <2>2, <2>5, <2>6, StillOrdered DEF Ordered
<1>6. CASE HandOver(h)
  <2>1. PICK w \in j.hand :
          Ask(h, [j EXCEPT !.at = "upsert", !.p = j.boss, !.w = w,
                           !.r = "admin", !.then = "own", !.back = "hand",
                           !.hand = @ \ {w}])
    BY <1>6, FirstIsOne DEF HandOver
  <2>2. PICK k : k = [j EXCEPT !.at = "upsert", !.p = j.boss, !.w = w,
                               !.r = "admin", !.then = "own", !.back = "hand",
                               !.hand = @ \ {w}]
    OBVIOUS
  <2>3. /\ k.at = "upsert" /\ k.then = "own" /\ k.back = "hand"
        /\ k.p = j.boss /\ k.w = w /\ k.r = "admin"
        /\ k.gone = j.gone /\ k.purge = j.purge /\ k.share = j.share
        /\ k.hand = j.hand \ {w} /\ k.rest = j.rest /\ k.boss = j.boss
    BY <1>0, <2>2 DEF Job
  <2>4. j.at = "hand"
    BY <1>6 DEF HandOver
  <2>5. Going(k) /\ Rightful(k)
    BY <1>2, <1>3, <1>4, <2>1, <2>3, <2>4
       DEF Going, Late, Deleting, Rightful
  <2>6. \A v \in Spaces \ left : InHand(k, v)
    BY <1>0, <2>3, <2>4 DEF InHand, Due, Resting
  <2> QED BY <1>4, <2>1, <2>2, <2>5, <2>6, StillOrdered DEF Ordered
<1>7. ASSUME Ask(h, Idle), \A w \in Spaces \ left : InCharge(w)
      PROVE  Order'
  <2>1. \A w \in Spaces \ left : InHand(Idle, w)
    BY <1>7 DEF InCharge, InHand
  <2> QED BY <1>4, <1>7, <2>1, IdleIsPlain, StillOrdered DEF Ordered
<1>8. CASE FindRest(h)
  <2>1. j.at = "hand"
    BY <1>8 DEF FindRest
  <2>2. CASE StillOwned(j.gone) = {}
    <3>1. Ask(h, Idle)
      BY <1>8, <2>2, DoneIsAsking DEF FindRest
    <3>2. ASSUME NEW w \in Spaces \ left PROVE InCharge(w)
      <4>1. InHand(j, w) /\ (space[w].personal => space[w].is)
        BY <1>0
      <4>2. space[w].is /\ ~ space[w].personal => space[w].owner # j.gone
        BY <2>2 DEF StillOwned
      <4> QED BY <1>3, <2>1, <4>1, <4>2 DEF InHand, InCharge, Due
    <3> QED BY <1>7, <3>1, <3>2
  <2>3. CASE StillOwned(j.gone) # {}
    <3>1. PICK k : k = [j EXCEPT !.at = "rest", !.rest = StillOwned(j.gone)]
      OBVIOUS
    <3>2. /\ k.at = "rest" /\ k.then = "idle" /\ k.back = "idle"
          /\ k.gone = j.gone /\ k.purge = j.purge /\ k.share = j.share
          /\ k.hand = j.hand /\ k.rest = StillOwned(j.gone)
          /\ k.boss = j.boss
      BY <1>0, <1>2, <3>1 DEF Job
    <3>3. \A w \in k.rest : ~ space[w].personal
      BY <3>2 DEF StillOwned
    <3>4. Going(k) /\ Rightful(k)
      BY <1>2, <1>3, <2>1, <3>2, <3>3 DEF Going, Late, Deleting, Rightful
    <3>5. ASSUME NEW w \in Spaces \ left PROVE InHand(k, w)
      <4>1. InHand(j, w) /\ (Due(j, w) => Due(k, w))
        BY <1>0, <2>1, <3>2 DEF Due
      <4>2. space[w].is /\ ~ space[w].personal /\ Due(k, w) => w \in k.rest
        BY <3>2 DEF StillOwned, Due
      <4> QED BY <3>2, <4>1, <4>2 DEF InHand
    <3>6. Ask(h, k)
      BY <1>8, <2>3, <3>1 DEF FindRest
    <3> QED BY <1>4, <3>4, <3>5, <3>6, StillOrdered DEF Ordered
  <2> QED BY <2>2, <2>3
<1>9. CASE PassOn(h)
  <2>1. PICK w \in j.rest :
          LET k == [j EXCEPT !.rest = @ \ {w}]
              S == Successors(w, j.gone, j.boss) IN
          \/ S = {} /\ Ask(h, k)
          \/ \E q \in S : Ask(h, [k EXCEPT !.at = "own", !.w = w, !.p = q,
                                            !.back = "rest"])
    BY <1>9 DEF PassOn
  <2>2. j.at = "rest" /\ j.boss \in accounts /\ j.boss # Nobody
          /\ j.boss # j.gone
    BY <1>2, <1>3, <1>4, <1>9, NobodyIsNoAccount DEF PassOn
  <2>3. /\ Successors(w, j.gone, j.boss) \subseteq accounts
        /\ Successors(w, j.gone, j.boss) # {}
    <3>1. First(OtherAdmins(w, j.gone)) \subseteq accounts \ {j.gone}
      BY FirstIsOne DEF OtherAdmins, ActiveAdmins, Active
    <3> QED BY <2>2, <3>1, NobodyIsNoAccount DEF Successors
  <2>9. PICK l : l = [j EXCEPT !.rest = @ \ {w}]
    OBVIOUS
  <2>4. PICK q \in accounts :
          Ask(h, [l EXCEPT !.at = "own", !.w = w, !.p = q, !.back = "rest"])
    BY <2>1, <2>3, <2>9
  <2>5. PICK k : k = [l EXCEPT !.at = "own", !.w = w, !.p = q,
                               !.back = "rest"]
    OBVIOUS
  <2>6. /\ k.at = "own" /\ k.then = "idle" /\ k.back = "rest"
        /\ k.p = q /\ k.w = w
        /\ k.gone = j.gone /\ k.purge = j.purge /\ k.share = j.share
        /\ k.hand = j.hand /\ k.rest = j.rest \ {w} /\ k.boss = j.boss
    <3>1. l \in Job /\ l.rest = j.rest \ {w} /\ l.then = "idle"
          /\ l.gone = j.gone /\ l.purge = j.purge /\ l.share = j.share
          /\ l.hand = j.hand /\ l.boss = j.boss
      BY <1>0, <1>2, <2>9 DEF Job
    <3> QED BY <2>5, <3>1 DEF Job
  <2>7. Going(k) /\ Rightful(k)
    BY <1>2, <1>3, <2>1, <2>2, <2>6 DEF Going, Late, Deleting, Rightful
  <2>8. ASSUME NEW v \in Spaces \ left PROVE InHand(k, v)
    <3>1. InHand(j, v) /\ (Due(j, v) => Due(k, v)) /\ Resting(j)
      BY <1>0, <2>2, <2>6 DEF Due, Resting
    <3>2. v \in j.rest => v \in k.rest \/ v = k.w
      BY <2>6
    <3> QED BY <2>2, <2>6, <3>1, <3>2 DEF InHand
  <2> QED BY <1>4, <2>4, <2>5, <2>7, <2>8, StillOrdered DEF Ordered
<1>10. CASE DeleteUserEnds(h)
  <2>1. j.at = "rest" /\ j.rest = {} /\ Ask(h, Idle)
    BY <1>10, DoneIsAsking DEF DeleteUserEnds
  <2>2. ASSUME NEW w \in Spaces \ left PROVE InCharge(w)
    <3>1. InHand(j, w) /\ (space[w].personal => space[w].is)
      BY <1>0
    <3>2. Resting(j)
      BY <2>1 DEF Resting
    <3> QED BY <1>3, <2>1, <3>1, <3>2 DEF InHand, InCharge
  <2> QED BY <1>7, <2>1, <2>2
<1> QED BY <1>5, <1>6, <1>8, <1>9, <1>10

(* What a restart cuts off, it leaves behind.                              *)
LEMMA RestartKeepsOrder ==
  ASSUME Typed, Order, Restart
  PROVE  Order'
<1>1. \A w \in Spaces : /\ space'[w].is = space[w].is
                        /\ space'[w].personal = space[w].personal
                        /\ space'[w].owner = space[w].owner
  <2>1. CASE space' = space
    BY <2>1
  <2>2. ASSUME NEW F, space' = [w \in Spaces |->
                                  [space[w] EXCEPT !.open = (w \in F)]]
        PROVE  \A w \in Spaces : /\ space'[w].is = space[w].is
                                 /\ space'[w].personal = space[w].personal
                                 /\ space'[w].owner = space[w].owner
    BY <2>2 DEF Typed, TypeOK
  <2> QED BY <2>1, <2>2 DEF Restart
<1>2. UNCHANGED <<accounts, role>> /\ left \subseteq left'
  BY DEF Restart
<1>3. ASSUME NEW w \in Spaces \ left' PROVE InCharge(w)
  <2>1. w \notin left /\ \A h \in Handlers : w \notin HalfDone(job[h])
    BY <1>3 DEF Restart
  <2>2. CASE Handlers = {}
    BY <2>1, <2>2 DEF Order
  <2>3. ASSUME NEW h \in Handlers PROVE InCharge(w)
    <3>1. InHand(job[h], w) /\ (space[w].personal => space[w].is)
      BY <2>1 DEF Order, Ordered
    <3>2. ~ (Due(job[h], w) /\ space[w].is)
      BY <2>1 DEF HalfDone, Due
    <3> QED BY <3>1, <3>2 DEF InHand, InCharge
  <2> QED BY <2>2, <2>3
<1>4. \A w \in Spaces \ left' : InCharge(w)'
  BY <1>1, <1>2, <1>3 DEF InCharge
<1>5. \A h \in Handlers : job'[h] = Idle
  BY DEF Restart
<1>6. \A h \in Handlers : Rightful(job[h])' /\ Plain(job[h])'
  BY <1>5 DEF Rightful, Plain, Idle, Deleting
<1>7. \A h \in Handlers : \A w \in Spaces \ left' : InHand(job[h], w)'
  BY <1>4 DEF InHand, InCharge
<1>8. \A w \in Spaces : space'[w].personal => space'[w].is
  BY <1>1 DEF Order
<1> QED BY <1>4, <1>6, <1>7, <1>8 DEF Order, Ordered

LEMMA OrderKept ==
  ASSUME OneAtATime, Typed, Chair, Order, [Next]_vars
  PROVE  Order'
<1>1. CASE UNCHANGED vars
  BY <1>1 DEF vars, Order, Ordered, Rightful, Plain, Going, InHand, InCharge,
              Due, Late, Resting, PersonalOwner
<1>2. ASSUME NEW h \in Handlers, Step(h) PROVE Order'
  BY <1>2, RequestsKeepOrder, AccountsKeepOrder, RolesKeepOrder,
     WritingKeepsOrder, DeletingKeepsOrder, LoopsKeepOrder, HeirsKeepOrder,
     HandingKeepsOrder DEF Step
<1> QED BY <1>1, <1>2, RestartKeepsOrder DEF Next

LEMMA SettledIsInCharge ==
  ASSUME Typed, Order PROVE PersonInCharge
<1> SUFFICES ASSUME Settled, NEW w \in Spaces \ left
             PROVE  /\ space[w].is \/ space[w].personal
                           => space[w].owner \in accounts
                    /\ space[w].personal => role[w][space[w].owner] = "admin"
  BY DEF PersonInCharge
<1>1. InCharge(w)
  <2>1. CASE Handlers = {}
    BY <2>1 DEF Order
  <2>2. ASSUME NEW h \in Handlers PROVE InCharge(w)
    <3>1. Plain(job[h])
      BY FreeIsPlain DEF Settled, Free, Deleting
    <3> QED BY <3>1, PlainFindsOrder
  <2> QED BY <2>1, <2>2
<1> QED BY <1>1 DEF InCharge

(* Between requests no workspace points at an owner who is gone, and       *)
(* whoever owns a personal space administers it, as long as one request    *)
(* ends before the next one begins: all but the spaces a restart cut off,  *)
(* and those whose person was put down by the members dialog or the user   *)
(* management (workspaces.go:888 and 1309-1315; see Unseats).              *)
THEOREM SomebodyInCharge ==
  OneAtATime => (Spec => []PersonInCharge)
<1> SUFFICES ASSUME OneAtATime PROVE Spec => []PersonInCharge
  OBVIOUS
<1>1. Init => Chair /\ Order
  BY InitChair, InitOrder
<1>2. Typed /\ Chair /\ Order /\ [Next]_vars => Chair' /\ Order'
  BY ChairKept, OrderKept
<1>3. Typed /\ Order => PersonInCharge
  BY SettledIsInCharge
<1> QED BY <1>1, <1>2, <1>3, AlwaysTyped, PTL DEF Spec

=============================================================================
