--------------------------- MODULE PageTreeProofs ---------------------------
(***************************************************************************)
(* The tree of pages, proved for every set of pages, workspaces, handlers  *)
(* and surfaces: types and the foreign key, and that moves never close a   *)
(* cycle.  When one request is under way at a time, pages stay in the      *)
(* workspace of their parent; when besides no tool restores pages, nothing *)
(* live hangs under the trash and the purge stays within its cutoff.       *)
(***************************************************************************)
EXTENDS PageTree, TLAPS

USE NilAssumption, MaxBatchAssumption

-----------------------------------------------------------------------------
(* What subtreeIDs returns. *)
LEMMA SubtreeIsClosed ==
  ASSUME NEW p \in exists
  PROVE  /\ p \in Subtree(p) /\ Subtree(p) \subseteq exists
         /\ Closed(Subtree(p))
BY DEF Subtree, Closed

LEMMA SubtreeIsLeast ==
  ASSUME NEW p \in exists, NEW T \in SUBSET exists, p \in T, Closed(T)
  PROVE  Subtree(p) \subseteq T
BY DEF Subtree

LEMMA SubtreeOnlyExisting ==
  ASSUME NEW p PROVE Subtree(p) \subseteq exists
BY DEF Subtree

(* A page of a subtree hangs in it, but for the root. *)
LEMMA SubtreeHangsTogether ==
  ASSUME NEW p \in exists, NEW q \in Subtree(p), q # p
  PROVE  parent[q] \in Subtree(p)
<1> SUFFICES ASSUME parent[q] \notin Subtree(p) PROVE FALSE
  OBVIOUS
<1> DEFINE T == Subtree(p) \ {q}
<1>1. T \in SUBSET exists /\ p \in T
  BY SubtreeIsClosed
<1>2. Closed(T)
  BY SubtreeIsClosed DEF Closed
<1>3. Subtree(p) \subseteq T
  BY <1>1, <1>2, SubtreeIsLeast
<1> QED BY <1>3

LEMMA CascadeIsClosed ==
  ASSUME NEW S \in SUBSET exists
  PROVE  /\ S \subseteq Cascade(S) /\ Cascade(S) \subseteq exists
         /\ Closed(Cascade(S))
<1>1. \A p \in S : /\ p \in Subtree(p) /\ Subtree(p) \subseteq exists
                   /\ Closed(Subtree(p))
  BY SubtreeIsClosed
<1>2. S \subseteq Cascade(S) /\ Cascade(S) \subseteq exists
  BY <1>1 DEF Cascade
<1>3. ASSUME NEW q \in exists, parent[q] \in Cascade(S)
      PROVE  q \in Cascade(S)
  <2>1. PICK p \in S : parent[q] \in Subtree(p)
    BY <1>3 DEF Cascade
  <2>2. q \in Subtree(p)
    BY <1>1, <2>1 DEF Closed
  <2> QED BY <2>2 DEF Cascade
<1> QED BY <1>2, <1>3 DEF Closed

(* Cascades that stay within a closed set. *)
LEMMA CascadeIsLeast ==
  ASSUME NEW S \in SUBSET exists, Closed(S)
  PROVE  Cascade(S) = S
<1>1. \A p \in S : Subtree(p) \subseteq S
  BY SubtreeIsLeast
<1> QED BY <1>1, CascadeIsClosed DEF Cascade

-----------------------------------------------------------------------------
(* Types. *)
LEMMA InitType == Init => TypeOK
BY DEF Init, TypeOK, ParentsExist, Request, Idle

LEMMA DeleteType ==
  ASSUME TypeOK, NEW S \in SUBSET exists, Delete(Cascade(S)),
         UNCHANGED <<used, spaces, clock, req>> \/
         (UNCHANGED <<used, clock, req>> /\ spaces' \subseteq Workspaces)
  PROVE  TypeOK'
<1>1. Closed(Cascade(S)) /\ Cascade(S) \subseteq exists
  BY CascadeIsClosed
<1>2. /\ exists' \subseteq used' /\ used' \subseteq Pages
      /\ parent' \in [Pages -> Pages \cup {Nil}]
      /\ home' \in [Pages -> Workspaces \cup {Nil}]
      /\ trashed' \in [Pages -> Nat]
  BY DEF TypeOK, Delete
<1>3. spaces' \subseteq Workspaces /\ clock' \in Nat
      /\ req' \in [Handlers -> Request]
  BY DEF TypeOK
<1>4. ASSUME NEW p \in exists'
      PROVE  parent'[p] \in exists' \cup {Nil}
  <2>1. p \in exists /\ p \notin Cascade(S) /\ p \in Pages
    BY <1>4 DEF Delete, TypeOK
  <2>2. parent'[p] = parent[p] /\ parent[p] \in exists \cup {Nil}
    BY <2>1 DEF Delete, TypeOK, ParentsExist
  <2>3. parent[p] \notin Cascade(S)
    BY <1>1, <2>1 DEF Closed
  <2> QED BY <2>2, <2>3 DEF Delete
<1> QED BY <1>2, <1>3, <1>4 DEF TypeOK, ParentsExist

LEMMA AskType ==
  ASSUME TypeOK, NEW h \in Handlers, NEW r \in Request, Ask(h, r)
  PROVE  req' \in [Handlers -> Request]
BY DEF TypeOK, Ask

LEMMA DoneType ==
  ASSUME TypeOK, NEW h \in Handlers, Done(h)
  PROVE  req' \in [Handlers -> Request]
BY DEF TypeOK, Done, Idle, Request

LEMMA ReqType ==
  ASSUME TypeOK, NEW h \in Handlers
  PROVE  /\ req[h] \in Request
         /\ req[h].page \in Pages \cup {Nil} /\ req[h].to \in Pages \cup {Nil}
         /\ req[h].ids \in SUBSET Pages /\ req[h].ws \in Workspaces \cup {Nil}
BY DEF TypeOK, Request

LEMMA InsertType ==
  ASSUME TypeOK, NEW p \in Pages \ used, NEW to \in exists \cup {Nil},
         NEW w \in Workspaces \cup {Nil}, Insert(p, to, w),
         UNCHANGED <<spaces, clock>>, req' \in [Handlers -> Request]
  PROVE  TypeOK'
BY DEF TypeOK, Insert, ParentsExist

(* The steps that only note what a request has read. *)
Reads(h) == \/ CreateRead(h) \/ IngestStart(h) \/ ReparentRead(h)
            \/ AgentTrashRead(h) \/ AgentRestoreRead(h) \/ MoveRead(h)

LEMMA ReadsAsk ==
  ASSUME TypeOK, NEW h \in Handlers, Reads(h)
  PROVE  /\ \E r \in Request : Ask(h, r)
         /\ UNCHANGED <<exists, used, parent, home, trashed, spaces, clock>>
<1>0. exists \subseteq Pages /\ spaces \subseteq Workspaces
      /\ \A p \in exists : home[p] \in Workspaces \cup {Nil}
  BY DEF TypeOK
<1>1. CASE CreateRead(h)
  BY <1>0, <1>1 DEF CreateRead, Aim, Idle, Request
<1>2. CASE IngestStart(h)
  BY <1>0, <1>2 DEF IngestStart, Aim, Idle, Request
<1>3. CASE ReparentRead(h)
  BY <1>0, <1>3 DEF ReparentRead, Idle, Request
<1>4. CASE AgentTrashRead(h)
  BY <1>0, <1>4, SubtreeOnlyExisting DEF AgentTrashRead, Idle, Request
<1>5. CASE AgentRestoreRead(h)
  BY <1>0, <1>5 DEF AgentRestoreRead, Idle, Request
<1>6. CASE MoveRead(h)
  BY <1>0, <1>6, SubtreeOnlyExisting DEF MoveRead, Idle, Request
<1> QED BY <1>1, <1>2, <1>3, <1>4, <1>5, <1>6 DEF Reads

LEMMA StepType == TypeOK /\ [Next]_vars => TypeOK'
<1> SUFFICES ASSUME TypeOK, [Next]_vars PROVE TypeOK'
  OBVIOUS
<1>1. CASE UNCHANGED vars
  BY <1>1 DEF vars, TypeOK, ParentsExist
<1>2. CASE PurgeTrash
  <2>1. PICK c \in 1 .. clock : Delete(Cascade(Expired(c)))
    BY <1>2 DEF PurgeTrash
  <2>2. Expired(c) \in SUBSET exists
    BY DEF Expired
  <2> QED BY <1>2, <2>1, <2>2, DeleteType DEF PurgeTrash
<1>3. ASSUME NEW h \in Handlers, Step(h)
      PROVE  TypeOK'
  <2>0. /\ req[h] \in Request
        /\ req[h].page \in Pages \cup {Nil} /\ req[h].to \in Pages \cup {Nil}
        /\ req[h].ids \in SUBSET Pages /\ req[h].ws \in Workspaces \cup {Nil}
    BY ReqType
  <2>1. CASE GiveUp(h)
    BY <2>1, DoneType DEF GiveUp, TypeOK, ParentsExist
  <2>2. CASE Reads(h)
    <3>1. PICK r \in Request : Ask(h, r)
      BY <2>2, ReadsAsk
    <3> QED BY <2>2, <3>1, ReadsAsk, AskType DEF TypeOK, ParentsExist
  <2>3. CASE CreateInsert(h)
    <3>1. PICK p \in Pages \ used : Insert(p, req[h].to, req[h].ws)
      BY <2>3 DEF CreateInsert
    <3> QED BY <2>0, <2>3, <3>1, DoneType, InsertType DEF CreateInsert
  <2>4. CASE IngestRow(h)
    <3>1. PICK p \in Pages \ used : Insert(p, req[h].to, req[h].ws)
      BY <2>4 DEF IngestRow
    <3>2. req' \in [Handlers -> Request]
      BY <2>4 DEF IngestRow, TypeOK
    <3> QED BY <2>0, <2>4, <3>1, <3>2, InsertType DEF IngestRow
  <2>5. CASE ReparentWrite(h)
    <3>1. /\ parent' = [parent EXCEPT ![req[h].page] = req[h].to]
          /\ req[h].page \in exists /\ req[h].to \in exists \cup {Nil}
      BY <2>0, <2>5 DEF ReparentWrite, MayHang, Live
    <3>2. UNCHANGED <<exists, used, home, trashed, spaces, clock>>
          /\ req' \in [Handlers -> Request]
      BY <2>5, DoneType DEF ReparentWrite
    <3>3. parent' \in [Pages -> Pages \cup {Nil}] /\ ParentsExist'
      BY <3>1, <3>2 DEF TypeOK, ParentsExist
    <3> QED BY <3>2, <3>3 DEF TypeOK
  <2>6. CASE Trash(h)
    BY <2>6 DEF Trash, PutInTrash, TypeOK, ParentsExist
  <2>7. CASE AgentTrashWrite(h)
    BY <2>7, DoneType DEF AgentTrashWrite, PutInTrash, TypeOK, ParentsExist
  <2>8. CASE Restore(h)
    <3>1. PICK p \in exists :
             /\ trashed' = [q \in Pages |->
                               IF q \in ComesBack(p) THEN 0 ELSE trashed[q]]
             /\ parent' = [parent EXCEPT ![p] = NewParent(p)]
      BY <2>8 DEF Restore
    <3>2. NewParent(p) \in exists \cup {Nil}
      BY DEF NewParent, Live
    <3> QED BY <2>8, <3>1, <3>2 DEF Restore, TypeOK, ParentsExist
  <2>9. CASE AgentRestoreWrite(h)
    BY <2>9, DoneType DEF AgentRestoreWrite, TypeOK, ParentsExist
  <2>10. CASE DeleteForGood(h)
    <3>1. PICK p \in exists : Delete(Cascade({p}))
      BY <2>10 DEF DeleteForGood
    <3> QED BY <2>10, <3>1, DeleteType DEF DeleteForGood
  <2>11. CASE MoveWrite(h)
    <3>1. /\ parent' = [parent EXCEPT ![req[h].page] = Nil]
          /\ home' \in [Pages -> Workspaces \cup {Nil}]
      BY <2>0, <2>11 DEF MoveWrite, TypeOK
    <3>2. UNCHANGED <<exists, used, trashed, spaces, clock>>
          /\ req' \in [Handlers -> Request]
      BY <2>11, DoneType DEF MoveWrite
    <3> QED BY <3>1, <3>2 DEF TypeOK, ParentsExist
  <2>12. CASE PurgeWorkspace(h)
    <3>1. PICK w \in spaces : Delete(Cascade(PagesOf(w))) /\ spaces' = spaces \ {w}
      BY <2>12 DEF PurgeWorkspace
    <3>2. PagesOf(w) \in SUBSET exists /\ spaces' \subseteq Workspaces
      BY <3>1 DEF PagesOf, TypeOK
    <3> QED BY <2>12, <3>1, <3>2, DeleteType DEF PurgeWorkspace
  <2> QED
    BY <1>3, <2>1, <2>2, <2>3, <2>4, <2>5, <2>6, <2>7, <2>8, <2>9, <2>10,
       <2>11, <2>12 DEF Step, Reads
<1> QED BY <1>1, <1>2, <1>3 DEF Next

(* Rows have their types and a parent_id names a row, whatever requests    *)
(* and tools interleave: TypeOK of PageTree.                               *)
THEOREM TypeInvariant == Spec => []TypeOK
<1>1. Init => TypeOK
  BY InitType
<1>2. TypeOK /\ [Next]_vars => TypeOK'
  BY StepType
<1> QED BY <1>1, <1>2, PTL DEF Spec

-----------------------------------------------------------------------------
(* No cycles. *)

(* Pages may go, and keep their parent or lose it. *)
LEMMA AcyclicLess ==
  ASSUME TypeOK, Acyclic, exists' \subseteq exists,
         \A p \in exists' : parent'[p] \in {parent[p], Nil}
  PROVE  Acyclic'
<1> SUFFICES ASSUME NEW S \in SUBSET exists', S # {}
             PROVE  \E p \in S : parent'[p] \notin S
  BY DEF Acyclic
<1>1. PICK p \in S : parent[p] \notin S
  BY DEF Acyclic
<1>2. Nil \notin S
  BY DEF TypeOK
<1> QED BY <1>1, <1>2

LEMMA AcyclicInsert ==
  ASSUME TypeOK, Acyclic, NEW p \in Pages \ used, NEW to \in exists \cup {Nil},
         NEW w, Insert(p, to, w)
  PROVE  Acyclic'
<1>1. /\ exists' = exists \cup {p} /\ p \notin exists /\ p # Nil
      /\ \A q \in exists : parent'[q] = parent[q]
      /\ parent'[p] = to /\ to # p
  BY DEF Insert, TypeOK
<1>2. \A q \in exists : parent[q] # p
  BY <1>1 DEF TypeOK, ParentsExist
<1> SUFFICES ASSUME NEW S \in SUBSET exists', S # {}
             PROVE  \E q \in S : parent'[q] \notin S
  BY DEF Acyclic
<1>3. CASE S = {p}
  BY <1>1, <1>3
<1>4. CASE S # {p}
  <2>1. S \ {p} \in SUBSET exists /\ S \ {p} # {}
    BY <1>1, <1>4
  <2>2. PICK q \in S \ {p} : parent[q] \notin S \ {p}
    BY <2>1 DEF Acyclic
  <2> QED BY <1>1, <1>2, <2>1, <2>2
<1> QED BY <1>3, <1>4

(* The cycle check: a page hung outside its own subtree closes no cycle.   *)
LEMMA AcyclicHang ==
  ASSUME TypeOK, Acyclic, NEW p \in exists, NEW x \in exists,
         x \notin Subtree(p), UNCHANGED exists,
         parent' = [parent EXCEPT ![p] = x]
  PROVE  Acyclic'
<1>0. p \in Pages /\ \A q \in exists : q # p => parent'[q] = parent[q]
  BY DEF TypeOK
<1>1. p \in Subtree(p) /\ Closed(Subtree(p))
  BY SubtreeIsClosed
<1> SUFFICES ASSUME NEW S \in SUBSET exists, S # {},
                    \A q \in S : parent'[q] \in S
             PROVE  FALSE
  BY DEF Acyclic
<1>2. PICK q \in S : parent[q] \notin S
  BY DEF Acyclic
<1>3. q = p /\ x \in S
  BY <1>0, <1>2 DEF TypeOK
<1> DEFINE T == S \ Subtree(p)
<1>4. T \in SUBSET exists /\ T # {}
  BY <1>3
<1>5. PICK t \in T : parent[t] \notin T
  BY <1>4 DEF Acyclic
<1>6. t # p /\ parent[t] \in S
  BY <1>0, <1>1, <1>5
<1>7. parent[t] \in Subtree(p)
  BY <1>5, <1>6
<1> QED BY <1>1, <1>5, <1>7 DEF Closed

LEMMA StepAcyclic == TypeOK /\ TypeOK' /\ Acyclic /\ [Next]_vars => Acyclic'
<1> SUFFICES ASSUME TypeOK, TypeOK', Acyclic, [Next]_vars PROVE Acyclic'
  OBVIOUS
<1>1. CASE UNCHANGED <<exists, parent>>
  BY <1>1, AcyclicLess
<1>2. ASSUME NEW S, Delete(S)
      PROVE  Acyclic'
  BY <1>2, AcyclicLess DEF Delete, TypeOK
<1>3. CASE PurgeTrash
  BY <1>2, <1>3 DEF PurgeTrash
<1>4. ASSUME NEW h \in Handlers, Step(h)
      PROVE  Acyclic'
  <2>0. req[h].to \in Pages \cup {Nil} /\ req[h].page \in Pages \cup {Nil}
    BY ReqType
  <2>1. CASE Reads(h)
    BY <1>1, <2>1, ReadsAsk
  <2>2. CASE CreateInsert(h)
    BY <2>2, AcyclicInsert DEF CreateInsert
  <2>3. CASE IngestRow(h)
    BY <2>3, AcyclicInsert DEF IngestRow
  <2>4. CASE ReparentWrite(h)
    <3>1. CASE req[h].to = Nil
      BY <2>4, <3>1, AcyclicLess DEF ReparentWrite, TypeOK
    <3>2. CASE req[h].to # Nil
      BY <2>4, <3>2, AcyclicHang DEF ReparentWrite, MayHang, Live
    <3> QED BY <3>1, <3>2
  <2>5. CASE Restore(h)
    <3>1. PICK p \in exists : parent' = [parent EXCEPT ![p] = NewParent(p)]
      BY <2>5 DEF Restore
    <3>2. NewParent(p) \in {parent[p], Nil}
      BY DEF NewParent
    <3> QED BY <2>5, <3>1, <3>2, AcyclicLess DEF Restore, TypeOK
  <2>6. CASE MoveWrite(h)
    BY <2>0, <2>6, AcyclicLess DEF MoveWrite, TypeOK
  <2>7. CASE DeleteForGood(h) \/ PurgeWorkspace(h)
    BY <1>2, <2>7 DEF DeleteForGood, PurgeWorkspace
  <2> QED
    BY <1>1, <1>4, <2>1, <2>2, <2>3, <2>4, <2>5, <2>6, <2>7
       DEF Step, Reads, GiveUp, Trash, AgentTrashWrite, AgentRestoreWrite
<1> QED BY <1>1, <1>3, <1>4 DEF Next, vars

(* Moves, restores and deletions, of any number of requests at once, never *)
(* make a page its own ancestor: Acyclic of PageTree.                      *)
THEOREM NeverACycle == Spec => []Acyclic
<1>1. Init => Acyclic
  BY DEF Init, Acyclic
<1>2. Acyclic /\ TypeOK /\ TypeOK' /\ [Next]_vars => Acyclic'
  BY StepAcyclic
<1> QED BY <1>1, <1>2, TypeInvariant, PTL DEF Spec

-----------------------------------------------------------------------------
(* One request at a time. *)
OneAtATime == \A g, h \in Handlers : g = h

(* What a request has read is still so when it writes: only PurgeTrash can *)
(* come between, and it takes whole subtrees.                              *)
Holds(r) ==
  /\ r.op \in {"create", "ingest"} =>
        /\ r.ws \in spaces
        /\ r.to \in exists => Live(r.to) /\ home[r.to] = r.ws
  /\ r.op = "reparent" /\ r.page \in exists /\ r.to \in exists
        => home[r.page] = home[r.to]
  /\ r.op = "move" =>
        /\ r.ws \in spaces
        /\ r.page \in exists => r.page \in r.ids
        /\ \A q \in r.ids \cap exists : q = r.page \/ parent[q] \in r.ids
  /\ r.op \in {"move", "trash"} => Closed(r.ids)

AtHome == /\ SameWorkspace /\ HomesExist
          /\ \A h \in Handlers : Holds(req[h])

LEMMA IdleHolds == Holds(Idle)
BY DEF Holds, Idle

LEMMA DoneHolds ==
  ASSUME OneAtATime, TypeOK, NEW h \in Handlers, Done(h)
  PROVE  \A g \in Handlers : req'[g] = Idle
BY DEF OneAtATime, Done, TypeOK

LEMMA FreeHolds ==
  ASSUME OneAtATime, NEW h \in Handlers, Free(h), UNCHANGED req
  PROVE  \A g \in Handlers : req'[g] = Idle
BY DEF OneAtATime, Free

LEMMA IdleHoldsNext ==
  ASSUME \A g \in Handlers : req'[g] = Idle
  PROVE  \A g \in Handlers : Holds(req[g])'
BY DEF Holds, Idle

(* Deleting a closed set keeps the tree in its workspaces. *)
LEMMA DeleteAtHome ==
  ASSUME TypeOK, SameWorkspace, HomesExist,
         NEW S \in SUBSET exists, Closed(S), Delete(S),
         \A p \in exists \ S : home[p] \in spaces'
  PROVE  SameWorkspace' /\ HomesExist'
<1>1. ASSUME NEW p \in exists'
      PROVE  /\ p \in exists /\ p \in Pages /\ p \notin S
             /\ parent'[p] = parent[p] /\ home'[p] = home[p]
             /\ parent[p] # Nil => /\ parent[p] \in exists \ S
                                   /\ home'[parent[p]] = home[parent[p]]
  <2>1. p \in exists /\ p \in Pages /\ p \notin S
        /\ parent'[p] = parent[p] /\ home'[p] = home[p]
    BY <1>1 DEF Delete, TypeOK
  <2>2. ASSUME parent[p] # Nil
        PROVE  parent[p] \in exists \ S /\ home'[parent[p]] = home[parent[p]]
    <3>1. parent[p] \in exists /\ parent[p] \in Pages /\ parent[p] \notin S
      BY <2>1, <2>2 DEF Closed, TypeOK, ParentsExist
    <3> QED BY <3>1 DEF Delete
  <2> QED BY <2>1, <2>2
<1> QED BY <1>1 DEF SameWorkspace, HomesExist

LEMMA PurgeHolds ==
  ASSUME TypeOK, NEW r \in Request, Holds(r), NEW S \in SUBSET exists,
         Closed(S), Delete(S), UNCHANGED spaces
  PROVE  Holds(r)'
<1>1. exists' \subseteq exists
      /\ \A p \in exists' : /\ p \in Pages /\ parent'[p] = parent[p]
                            /\ home'[p] = home[p] /\ trashed'[p] = trashed[p]
  BY DEF Delete, TypeOK
<1> QED BY <1>1 DEF Holds, Live, Closed

LEMMA InsertAtHome ==
  ASSUME TypeOK, SameWorkspace, HomesExist,
         NEW p \in Pages \ used, NEW to \in exists \cup {Nil}, NEW w \in spaces,
         to \in exists => home[to] = w,
         Insert(p, to, w), UNCHANGED spaces
  PROVE  SameWorkspace' /\ HomesExist'
<1>1. /\ exists' = exists \cup {p} /\ p \notin exists /\ to # p
      /\ parent'[p] = to /\ home'[p] = w
      /\ \A q \in exists : parent'[q] = parent[q] /\ home'[q] = home[q]
      /\ \A q \in exists : parent[q] \in exists \cup {Nil}
  BY DEF Insert, TypeOK, ParentsExist
<1> QED BY <1>1 DEF SameWorkspace, HomesExist

LEMMA ReadsHold ==
  ASSUME OneAtATime, TypeOK, HomesExist, NEW h \in Handlers, Reads(h)
  PROVE  \A g \in Handlers : Holds(req[g])'
<1>0. \A g \in Handlers : g = h
  BY DEF OneAtATime
<1>1. UNCHANGED <<exists, parent, home, trashed, spaces>>
  BY ReadsAsk
<1>2. Nil \notin exists
  BY DEF TypeOK
<1>3. SUFFICES Holds(req'[h])
  BY <1>0, <1>1 DEF Holds, Live, Closed
<1>4. ASSUME NEW r, Ask(h, r)
      PROVE  req'[h] = r
  BY <1>4 DEF Ask, TypeOK
<1>5. CASE CreateRead(h)
  BY <1>2, <1>4, <1>5 DEF CreateRead, Aim, Holds, Idle, HomesExist, Live
<1>6. CASE IngestStart(h)
  BY <1>2, <1>4, <1>6 DEF IngestStart, Aim, Holds, Idle, HomesExist, Live
<1>7. CASE ReparentRead(h)
  BY <1>2, <1>4, <1>7 DEF ReparentRead, Holds, Idle, WorkspaceOf
<1>8. CASE AgentTrashRead(h)
  BY <1>4, <1>8, SubtreeIsClosed DEF AgentTrashRead, Holds, Idle
<1>9. CASE AgentRestoreRead(h)
  BY <1>4, <1>9 DEF AgentRestoreRead, Holds, Idle
<1>10. CASE MoveRead(h)
  <2>1. PICK p \in exists, w \in spaces :
           Ask(h, [Idle EXCEPT !.op = "move", !.page = p, !.ws = w,
                               !.ids = Subtree(p)])
    BY <1>10 DEF MoveRead
  <2>2. req'[h] = [Idle EXCEPT !.op = "move", !.page = p, !.ws = w,
                               !.ids = Subtree(p)]
    BY <2>1, <1>4
  <2>3. /\ req'[h].op = "move" /\ req'[h].page = p /\ req'[h].ws = w
        /\ req'[h].ids = Subtree(p)
    BY <2>2 DEF Idle
  <2>4. /\ p \in Subtree(p) /\ Closed(Subtree(p))
        /\ \A q \in Subtree(p) : q = p \/ parent[q] \in Subtree(p)
    BY SubtreeIsClosed, SubtreeHangsTogether
  <2> QED BY <2>3, <2>4 DEF Holds
<1> QED BY <1>5, <1>6, <1>7, <1>8, <1>9, <1>10 DEF Reads

LEMMA MoveAtHome ==
  ASSUME TypeOK, SameWorkspace, HomesExist, NEW h \in Handlers,
         Holds(req[h]), MoveWrite(h)
  PROVE  SameWorkspace' /\ HomesExist'
<1> DEFINE r == req[h]
<1>1. /\ r.ws \in spaces /\ UNCHANGED <<exists, spaces>>
      /\ r.page \in exists => r.page \in r.ids
      /\ \A q \in r.ids \cap exists : q = r.page \/ parent[q] \in r.ids
      /\ Closed(r.ids)
  BY DEF MoveWrite, Holds
<1>2. ASSUME NEW q \in exists
      PROVE  /\ home'[q] = IF q \in r.ids THEN r.ws ELSE home[q]
             /\ parent'[q] = IF q = r.page THEN Nil ELSE parent[q]
  BY DEF MoveWrite, TypeOK
<1>3. HomesExist'
  BY <1>1, <1>2 DEF HomesExist
<1>4. ASSUME NEW q \in exists, parent'[q] # Nil
      PROVE  home'[q] = home'[parent'[q]]
  <2>1. q # r.page /\ parent'[q] = parent[q] /\ parent[q] \in exists
        /\ home[q] = home[parent[q]]
    BY <1>2, <1>4 DEF TypeOK, ParentsExist, SameWorkspace
  <2>2. q \in r.ids <=> parent[q] \in r.ids
    BY <1>1, <2>1 DEF Closed
  <2> QED BY <1>2, <2>1, <2>2
<1> QED BY <1>1, <1>3, <1>4 DEF SameWorkspace

LEMMA StepAtHome ==
  ASSUME OneAtATime, TypeOK, AtHome, [Next]_vars
  PROVE  AtHome'
<1>0. SameWorkspace /\ HomesExist
  BY DEF AtHome
<1>1. CASE UNCHANGED vars
  BY <1>1 DEF vars, AtHome, SameWorkspace, HomesExist, Holds, Live, Closed
<1>2. CASE PurgeTrash
  <2>1. PICK c \in 1 .. clock : Delete(Cascade(Expired(c)))
    BY <1>2 DEF PurgeTrash
  <2>2. Cascade(Expired(c)) \in SUBSET exists /\ Closed(Cascade(Expired(c)))
    BY CascadeIsClosed DEF Expired
  <2>3. UNCHANGED <<spaces, req>>
    BY <1>2 DEF PurgeTrash
  <2>4. SameWorkspace' /\ HomesExist'
    BY <1>0, <2>1, <2>2, <2>3, DeleteAtHome DEF HomesExist
  <2>5. ASSUME NEW h \in Handlers
        PROVE  Holds(req[h])'
    <3>1. Holds(req[h]) /\ req[h] \in Request
      BY ReqType DEF AtHome
    <3> QED BY <2>1, <2>2, <2>3, <3>1, PurgeHolds DEF Holds, Closed, Live
  <2> QED BY <2>4, <2>5 DEF AtHome
<1>3. ASSUME NEW h \in Handlers, Step(h)
      PROVE  AtHome'
  <2>0. Holds(req[h]) /\ req[h].to \in Pages \cup {Nil}
        /\ req[h].page \in Pages \cup {Nil}
    BY ReqType DEF AtHome
  <2>1. CASE GiveUp(h)
    BY <1>0, <2>1, DoneHolds, IdleHoldsNext
       DEF GiveUp, AtHome, SameWorkspace, HomesExist
  <2>2. CASE Reads(h)
    BY <1>0, <2>2, ReadsHold, ReadsAsk DEF AtHome, SameWorkspace, HomesExist
  <2>3. CASE CreateInsert(h)
    <3>1. PICK p \in Pages \ used : Insert(p, req[h].to, req[h].ws)
      BY <2>3 DEF CreateInsert
    <3>2. SameWorkspace' /\ HomesExist'
      BY <1>0, <2>0, <2>3, <3>1, InsertAtHome DEF CreateInsert, Holds
    <3> QED BY <2>3, <3>2, DoneHolds, IdleHoldsNext DEF CreateInsert, AtHome
  <2>4. CASE IngestRow(h)
    <3>1. PICK p \in Pages \ used : Insert(p, req[h].to, req[h].ws)
      BY <2>4 DEF IngestRow
    <3>2. SameWorkspace' /\ HomesExist'
      BY <1>0, <2>0, <2>4, <3>1, InsertAtHome DEF IngestRow, Holds
    <3>3. Holds(req[h])'
      BY <2>0, <2>4, <3>1 DEF IngestRow, Holds, Insert, Live, TypeOK
    <3> QED BY <2>4, <3>2, <3>3 DEF OneAtATime, AtHome
  <2>5. CASE ReparentWrite(h)
    <3>1. SameWorkspace' /\ HomesExist'
      BY <1>0, <2>0, <2>5
         DEF ReparentWrite, MayHang, Live, Holds, SameWorkspace, HomesExist, TypeOK
    <3> QED BY <2>5, <3>1, DoneHolds, IdleHoldsNext DEF ReparentWrite, AtHome
  <2>6. CASE Trash(h)
    BY <1>0, <2>6, FreeHolds, IdleHoldsNext
       DEF Trash, AtHome, SameWorkspace, HomesExist
  <2>7. CASE AgentTrashWrite(h) \/ AgentRestoreWrite(h)
    BY <1>0, <2>7, DoneHolds, IdleHoldsNext
       DEF AgentTrashWrite, AgentRestoreWrite, AtHome, SameWorkspace, HomesExist
  <2>8. CASE Restore(h)
    <3>1. PICK p \in exists : parent' = [parent EXCEPT ![p] = NewParent(p)]
      BY <2>8 DEF Restore
    <3>2. NewParent(p) \in {parent[p], Nil}
      BY DEF NewParent
    <3>3. SameWorkspace' /\ HomesExist'
      BY <1>0, <2>8, <3>1, <3>2 DEF Restore, SameWorkspace, HomesExist, TypeOK
    <3> QED BY <2>8, <3>3, FreeHolds, IdleHoldsNext DEF Restore, AtHome
  <2>9. CASE DeleteForGood(h)
    <3>1. PICK p \in exists : Delete(Cascade({p}))
      BY <2>9 DEF DeleteForGood
    <3>2. SameWorkspace' /\ HomesExist'
      BY <1>0, <2>9, <3>1, CascadeIsClosed, DeleteAtHome
         DEF DeleteForGood, HomesExist
    <3> QED BY <2>9, <3>2, FreeHolds, IdleHoldsNext DEF DeleteForGood, AtHome
  <2>10. CASE MoveWrite(h)
    BY <1>0, <2>0, <2>10, MoveAtHome, DoneHolds, IdleHoldsNext
       DEF MoveWrite, AtHome
  <2>11. CASE PurgeWorkspace(h)
    <3>1. PICK w \in spaces : Delete(Cascade(PagesOf(w))) /\ spaces' = spaces \ {w}
      BY <2>11 DEF PurgeWorkspace
    <3>2. /\ Cascade(PagesOf(w)) \in SUBSET exists
          /\ Closed(Cascade(PagesOf(w))) /\ PagesOf(w) \subseteq Cascade(PagesOf(w))
      BY CascadeIsClosed DEF PagesOf
    <3>3. \A p \in exists \ Cascade(PagesOf(w)) : home[p] \in spaces'
      BY <1>0, <3>1, <3>2 DEF PagesOf, HomesExist
    <3>4. SameWorkspace' /\ HomesExist'
      BY <1>0, <3>1, <3>2, <3>3, DeleteAtHome
    <3> QED BY <2>11, <3>4, FreeHolds, IdleHoldsNext DEF PurgeWorkspace, AtHome
  <2> QED
    BY <1>3, <2>1, <2>2, <2>3, <2>4, <2>5, <2>6, <2>7, <2>8, <2>9, <2>10, <2>11
       DEF Step, Reads
<1> QED BY <1>1, <1>2, <1>3 DEF Next

LEMMA AtHomeAlways ==
  ASSUME OneAtATime
  PROVE  Spec => [](TypeOK /\ AtHome)
<1>1. Init => AtHome
  BY IdleHolds DEF Init, AtHome, SameWorkspace, HomesExist
<1>2. AtHome /\ TypeOK /\ [Next]_vars => AtHome'
  BY StepAtHome
<1> QED BY <1>1, <1>2, TypeInvariant, PTL DEF Spec

(* While no two requests overlap, a page lies in the workspace of its      *)
(* parent, and in one that exists: WellHoused of PageTree.                 *)
THEOREM HomeOfTheParent == ASSUME OneAtATime PROVE Spec => []WellHoused
<1>1. AtHome => WellHoused
  BY DEF AtHome, WellHoused
<1> QED BY <1>1, AtHomeAlways, PTL

(* While no two requests overlap, the purge of a workspace takes pages of  *)
(* that workspace only: the second half of PurgesStayInside of PageTree.   *)
THEOREM PurgeOfOneWorkspace ==
  ASSUME OneAtATime PROVE Spec => [][TakesOfOneWorkspace]_vars
<1>1. ASSUME TypeOK, AtHome, [Next]_vars
      PROVE  [TakesOfOneWorkspace]_vars
  <2>1. SUFFICES ASSUME spaces' # spaces, NEW p \in exists \ exists'
                 PROVE  home[p] \in spaces \ spaces'
    BY DEF TakesOfOneWorkspace
  <2>2. PICK h \in Handlers : PurgeWorkspace(h)
    BY <1>1, <2>1, ReadsAsk
       DEF Next, vars, Step, Reads, PurgeTrash, GiveUp, CreateInsert, IngestRow,
           ReparentWrite, Trash, AgentTrashWrite, Restore, AgentRestoreWrite,
           DeleteForGood, MoveWrite
  <2>3. PICK w \in spaces : Delete(Cascade(PagesOf(w))) /\ spaces' = spaces \ {w}
    BY <2>2 DEF PurgeWorkspace
  <2>4. Closed(PagesOf(w)) /\ PagesOf(w) \in SUBSET exists
    BY <1>1, <2>3 DEF Closed, PagesOf, AtHome, SameWorkspace, TypeOK, ParentsExist
  <2>5. Cascade(PagesOf(w)) = PagesOf(w)
    BY <2>4, CascadeIsLeast
  <2> QED BY <2>1, <2>3, <2>5 DEF Delete, PagesOf
<1> QED BY <1>1, AtHomeAlways, PTL DEF Spec

-----------------------------------------------------------------------------
(* The trash.  NoLiveUnderTrashed is not inductive: Restore brings a batch *)
(* back from a subtree, and a page of a later batch between two pages of   *)
(* it would leave a live page under a trashed one.  BatchOrder rules that  *)
(* out: below a trashed page all was put in the trash with it or before.   *)
BatchOrder ==
  /\ \A p \in exists : trashed[p] <= clock
  /\ \A p \in exists : parent[p] # Nil /\ trashed[parent[p]] # 0
                          => trashed[p] # 0 /\ trashed[p] <= trashed[parent[p]]

(* No tool restores, as no tool calls. *)
NoAgent == "agent" \notin Surfaces

NoneRestoring == \A h \in Handlers : req[h].op # "restore"

LEMMA NeverRestoring ==
  ASSUME NoAgent, TypeOK, NoneRestoring, [Next]_vars
  PROVE  NoneRestoring'
<1>1. ASSUME NEW h \in Handlers, NEW r, Ask(h, r), r.op # "restore"
      PROVE  NoneRestoring'
  BY <1>1 DEF Ask, NoneRestoring, TypeOK
<1>2. ASSUME NEW h \in Handlers, Done(h)
      PROVE  NoneRestoring'
  BY <1>2 DEF Done, Idle, NoneRestoring, TypeOK
<1>3. CASE UNCHANGED req
  BY <1>3 DEF NoneRestoring
<1>4. ASSUME NEW h \in Handlers, Step(h)
      PROVE  NoneRestoring'
  <2>1. CASE CreateRead(h)
    BY <1>1, <2>1 DEF CreateRead, Aim, Idle
  <2>2. CASE ReparentRead(h)
    BY <1>1, <2>2 DEF ReparentRead, Idle
  <2>3. CASE MoveRead(h)
    BY <1>1, <2>3 DEF MoveRead, Idle
  <2>4. CASE IngestStart(h) \/ AgentTrashRead(h) \/ AgentRestoreRead(h)
    BY <2>4 DEF IngestStart, AgentTrashRead, AgentRestoreRead, NoAgent
  <2> QED
    BY <1>2, <1>3, <1>4, <2>1, <2>2, <2>3, <2>4
       DEF Step, GiveUp, CreateInsert, IngestRow, ReparentWrite, Trash,
           AgentTrashWrite, Restore, AgentRestoreWrite, DeleteForGood,
           MoveWrite, PurgeWorkspace
<1> QED BY <1>3, <1>4 DEF Next, vars, PurgeTrash

LEMMA PutInTrashOrder ==
  ASSUME TypeOK, BatchOrder, NEW ids, Closed(ids), PutInTrash(ids),
         UNCHANGED <<exists, parent>>
  PROVE  BatchOrder'
<1>1. /\ clock' = clock + 1 /\ clock \in Nat
      /\ \A p \in exists : /\ trashed[p] \in Nat
                           /\ trashed'[p] = IF p \in ids /\ trashed[p] = 0
                                            THEN clock + 1 ELSE trashed[p]
  BY DEF PutInTrash, TypeOK, Live
<1>2. \A p \in exists : trashed'[p] <= clock'
  BY <1>1 DEF BatchOrder
<1>3. ASSUME NEW p \in exists, parent[p] # Nil, trashed'[parent[p]] # 0
      PROVE  trashed'[p] # 0 /\ trashed'[p] <= trashed'[parent[p]]
  <2>1. parent[p] \in exists
    BY <1>3 DEF TypeOK, ParentsExist
  <2>2. CASE trashed[parent[p]] # 0
    BY <1>1, <1>3, <2>1, <2>2 DEF BatchOrder
  <2>3. CASE trashed[parent[p]] = 0
    <3>1. parent[p] \in ids /\ trashed'[parent[p]] = clock + 1
      BY <1>1, <1>3, <2>1, <2>3
    <3>2. p \in ids
      BY <3>1 DEF Closed
    <3> QED BY <1>1, <3>1, <3>2 DEF BatchOrder
  <2> QED BY <2>2, <2>3
<1> QED BY <1>2, <1>3 DEF BatchOrder

LEMMA DeleteOrder ==
  ASSUME TypeOK, BatchOrder, NEW S \in SUBSET exists, Closed(S), Delete(S),
         UNCHANGED clock
  PROVE  BatchOrder'
<1>1. ASSUME NEW p \in exists'
      PROVE  /\ p \in exists /\ trashed'[p] = trashed[p] /\ parent'[p] = parent[p]
             /\ parent[p] # Nil => trashed'[parent[p]] = trashed[parent[p]]
  <2>1. p \in exists /\ p \in Pages /\ p \notin S
    BY <1>1 DEF Delete, TypeOK
  <2>2. parent[p] # Nil => parent[p] \in Pages /\ parent[p] \notin S
    BY <2>1 DEF Closed, TypeOK, ParentsExist
  <2> QED BY <2>1, <2>2 DEF Delete
<1> QED BY <1>1 DEF BatchOrder

(* All below a trashed page is trashed, and not later than it. *)
LEMMA OrderBelow ==
  ASSUME TypeOK, BatchOrder, NEW p \in exists, trashed[p] # 0
  PROVE  \A q \in Subtree(p) : trashed[q] # 0 /\ trashed[q] <= trashed[p]
<1> DEFINE T == {q \in exists : trashed[q] # 0 /\ trashed[q] <= trashed[p]}
<1>1. trashed[p] \in Nat /\ \A q \in exists : trashed[q] \in Nat
  BY DEF TypeOK
<1>2. p \in T /\ T \in SUBSET exists
  BY <1>1
<1>3. ASSUME NEW q \in exists, parent[q] \in T
      PROVE  q \in T
  <2>1. parent[q] # Nil /\ parent[q] \in exists
    BY <1>3 DEF TypeOK
  <2>2. trashed[q] # 0 /\ trashed[q] <= trashed[parent[q]]
    BY <1>3, <2>1 DEF BatchOrder
  <2> QED BY <1>1, <1>3, <2>1, <2>2
<1>4. Subtree(p) \subseteq T
  BY <1>2, <1>3, SubtreeIsLeast DEF Closed
<1> QED BY <1>4

LEMMA RestoreOrder ==
  ASSUME TypeOK, BatchOrder, NEW h \in Handlers, Restore(h)
  PROVE  BatchOrder'
<1>1. PICK p \in exists :
         /\ trashed[p] # 0
         /\ trashed' = [q \in Pages |->
                           IF q \in ComesBack(p) THEN 0 ELSE trashed[q]]
         /\ parent' = [parent EXCEPT ![p] = NewParent(p)]
  BY DEF Restore
<1>2. /\ UNCHANGED <<exists, clock>>
      /\ \A q \in exists :
            /\ trashed[q] \in Nat
            /\ trashed'[q] = IF q \in Subtree(p) /\ trashed[q] = trashed[p]
                             THEN 0 ELSE trashed[q]
            /\ parent'[q] = IF q = p THEN NewParent(p) ELSE parent[q]
  BY <1>1 DEF Restore, ComesBack, TypeOK
<1>3. clock \in Nat /\ \A q \in exists : trashed'[q] <= clock'
  BY <1>2 DEF BatchOrder, TypeOK
<1>4. ASSUME NEW q \in exists, parent'[q] # Nil, trashed'[parent'[q]] # 0
      PROVE  trashed'[q] # 0 /\ trashed'[q] <= trashed'[parent'[q]]
  <2>1. CASE q = p
    <3>1. parent'[q] \in exists /\ trashed[parent'[q]] = 0
      BY <1>2, <1>4, <2>1 DEF NewParent, Live
    <3> QED BY <1>2, <1>4, <3>1
  <2>2. CASE q # p
    <3>1. /\ parent'[q] = parent[q] /\ parent[q] \in exists
          /\ trashed'[parent[q]] = trashed[parent[q]]
      BY <1>2, <1>4, <2>2 DEF TypeOK, ParentsExist
    <3>2. trashed[q] # 0 /\ trashed[q] <= trashed[parent[q]]
      BY <1>4, <3>1 DEF BatchOrder
    <3>3. ASSUME q \in Subtree(p), trashed[q] = trashed[p]
          PROVE  FALSE
      <4>1. parent[q] \in Subtree(p)
        BY <2>2, <3>3, SubtreeHangsTogether
      <4>2. trashed[parent[q]] <= trashed[p]
        BY <1>1, <4>1, OrderBelow
      <4>3. trashed[parent[q]] = trashed[p]
        BY <1>2, <3>1, <3>2, <3>3, <4>2
      <4> QED BY <1>2, <1>4, <3>1, <4>1, <4>3
    <3> QED BY <1>2, <3>1, <3>2, <3>3
  <2> QED BY <2>1, <2>2
<1> QED BY <1>2, <1>3, <1>4 DEF BatchOrder

LEMMA InsertOrder ==
  ASSUME TypeOK, BatchOrder, NEW p \in Pages \ used,
         NEW to \in exists \cup {Nil}, NEW w, to \in exists => Live(to),
         Insert(p, to, w), UNCHANGED clock
  PROVE  BatchOrder'
<1>1. /\ exists' = exists \cup {p} /\ p \notin exists /\ to # p
      /\ parent'[p] = to /\ trashed'[p] = 0 /\ clock \in Nat
      /\ \A q \in exists : parent'[q] = parent[q] /\ trashed'[q] = trashed[q]
      /\ \A q \in exists : parent[q] \in exists \cup {Nil}
  BY DEF Insert, TypeOK, ParentsExist
<1> QED BY <1>1 DEF BatchOrder, Live

LEMMA StepOrder ==
  ASSUME OneAtATime, TypeOK, AtHome, NoneRestoring, BatchOrder, [Next]_vars
  PROVE  BatchOrder'
<1>1. CASE UNCHANGED <<exists, parent, trashed, clock>>
  BY <1>1 DEF BatchOrder
<1>2. CASE PurgeTrash
  BY <1>2, CascadeIsClosed, DeleteOrder DEF PurgeTrash, Expired
<1>3. ASSUME NEW h \in Handlers, Step(h)
      PROVE  BatchOrder'
  <2>0. Holds(req[h]) /\ req[h].to \in Pages \cup {Nil}
    BY ReqType DEF AtHome
  <2>1. CASE Reads(h)
    BY <1>1, <2>1, ReadsAsk
  <2>2. CASE CreateInsert(h)
    BY <2>0, <2>2, InsertOrder DEF CreateInsert, Holds
  <2>3. CASE IngestRow(h)
    BY <2>0, <2>3, InsertOrder DEF IngestRow, Holds
  <2>4. CASE ReparentWrite(h)
    <3>1. /\ req[h].to \in exists => trashed[req[h].to] = 0
          /\ UNCHANGED <<exists, trashed, clock>>
          /\ \A q \in exists : parent'[q] \in {parent[q], req[h].to}
          /\ req[h].to \in exists \cup {Nil}
      BY <2>4 DEF ReparentWrite, MayHang, Live, TypeOK
    <3> QED BY <3>1 DEF BatchOrder
  <2>5. CASE Trash(h)
    BY <2>5, SubtreeIsClosed, PutInTrashOrder DEF Trash
  <2>6. CASE AgentTrashWrite(h)
    BY <2>0, <2>6, PutInTrashOrder DEF AgentTrashWrite, Holds
  <2>7. CASE Restore(h)
    BY <2>7, RestoreOrder
  <2>8. CASE AgentRestoreWrite(h)
    BY <2>8 DEF AgentRestoreWrite, NoneRestoring
  <2>9. CASE DeleteForGood(h)
    BY <2>9, CascadeIsClosed, DeleteOrder DEF DeleteForGood
  <2>10. CASE MoveWrite(h)
    <3>1. /\ UNCHANGED <<exists, trashed, clock>>
          /\ \A q \in exists : parent'[q] \in {parent[q], Nil}
      BY <2>10 DEF MoveWrite, TypeOK
    <3> QED BY <3>1 DEF BatchOrder
  <2>11. CASE PurgeWorkspace(h)
    BY <2>11, CascadeIsClosed, DeleteOrder DEF PurgeWorkspace, PagesOf
  <2> QED
    BY <1>1, <1>3, <2>1, <2>2, <2>3, <2>4, <2>5, <2>6, <2>7, <2>8, <2>9,
       <2>10, <2>11
       DEF Step, Reads, GiveUp
<1> QED BY <1>1, <1>2, <1>3 DEF Next, vars

LEMMA OrderAlways ==
  ASSUME OneAtATime, NoAgent
  PROVE  Spec => [](TypeOK /\ BatchOrder)
<1>1. Init => NoneRestoring /\ BatchOrder
  BY DEF Init, NoneRestoring, BatchOrder, Idle
<1>2. NoneRestoring /\ TypeOK /\ [Next]_vars => NoneRestoring'
  BY NeverRestoring
<1>3. BatchOrder /\ NoneRestoring /\ TypeOK /\ AtHome /\ [Next]_vars => BatchOrder'
  BY StepOrder
<1> QED BY <1>1, <1>2, <1>3, AtHomeAlways, PTL DEF Spec

(* While no two requests overlap and no tool restores, nothing live hangs  *)
(* under a trashed page: NoLiveUnderTrashed of PageTree.                   *)
THEOREM TrashIsClosed ==
  ASSUME OneAtATime, NoAgent PROVE Spec => []NoLiveUnderTrashed
<1>1. BatchOrder => NoLiveUnderTrashed
  BY DEF BatchOrder, NoLiveUnderTrashed
<1> QED BY <1>1, OrderAlways, PTL

(* Then the purge deletes exactly the pages its cutoff names, although its *)
(* DELETE cascades: the first half of PurgesStayInside of PageTree.        *)
THEOREM PurgeOfOldTrash ==
  ASSUME OneAtATime, NoAgent PROVE Spec => [][TakesOnlyExpired]_vars
<1>1. ASSUME TypeOK, BatchOrder, [Next]_vars
      PROVE  [TakesOnlyExpired]_vars
  <2>1. SUFFICES ASSUME PurgeTrash
                 PROVE  \E c \in 1 .. clock : exists \ exists' = Expired(c)
    BY DEF TakesOnlyExpired
  <2>2. PICK c \in 1 .. clock : Delete(Cascade(Expired(c)))
    BY <2>1 DEF PurgeTrash
  <2>3. Expired(c) \in SUBSET exists
    BY DEF Expired
  <2>4. ASSUME NEW q \in exists, parent[q] \in Expired(c)
        PROVE  q \in Expired(c)
    <3>1. parent[q] \in exists /\ parent[q] # Nil /\ trashed[parent[q]] # 0
          /\ trashed[parent[q]] <= c
      BY <1>1, <2>4 DEF Expired, TypeOK
    <3>2. trashed[q] # 0 /\ trashed[q] <= trashed[parent[q]]
      BY <1>1, <3>1 DEF BatchOrder
    <3>3. trashed[q] \in Nat /\ trashed[parent[q]] \in Nat /\ c \in Nat
      BY <1>1, <3>1 DEF TypeOK
    <3> QED BY <3>1, <3>2, <3>3 DEF Expired
  <2>5. Cascade(Expired(c)) = Expired(c)
    BY <2>3, <2>4, CascadeIsLeast DEF Closed
  <2> QED BY <2>2, <2>3, <2>5 DEF Delete
<1> QED BY <1>1, OrderAlways, PTL DEF Spec

(* So neither purge takes a page that is none of its own: PurgesStayInside *)
(* of PageTree.                                                            *)
THEOREM PurgesKeepTheRest ==
  ASSUME OneAtATime, NoAgent PROVE Spec => PurgesStayInside
BY PurgeOfOldTrash, PurgeOfOneWorkspace, PTL DEF PurgesStayInside

-----------------------------------------------------------------------------
(* What comes back with a page.                                            *)
LEMMA SubtreeWithin ==
  ASSUME NEW p \in exists, NEW q \in Subtree(p)
  PROVE  Subtree(q) \subseteq Subtree(p)
<1>1. q \in exists
  BY SubtreeOnlyExisting
<1> QED BY <1>1, SubtreeIsClosed, SubtreeIsLeast

Together ==
    \A p \in exists \cap exists' :
        trashed[p] # 0 /\ trashed'[p] = 0
           => \A q \in Subtree(p) : trashed[q] = trashed[p] => trashed'[q] = 0

LEMMA RestoreTogether ==
  ASSUME TypeOK, NEW h \in Handlers, Restore(h)
  PROVE  Together
<1>1. PICK r \in exists :
        /\ trashed[r] # 0
        /\ trashed' = [q \in Pages |->
                          IF q \in ComesBack(r) THEN 0 ELSE trashed[q]]
  BY DEF Restore
<1>2. SUFFICES ASSUME NEW p \in exists, trashed[p] # 0, trashed'[p] = 0,
                      NEW q \in Subtree(p), trashed[q] = trashed[p]
               PROVE  trashed'[q] = 0
  BY DEF Together
<1>3. exists \subseteq Pages /\ q \in exists
  BY SubtreeOnlyExisting DEF TypeOK
<1>4. p \in Subtree(r) /\ trashed[p] = trashed[r]
  BY <1>1, <1>2, <1>3 DEF ComesBack
<1>5. q \in Subtree(r)
  BY <1>1, <1>4, SubtreeWithin
<1> QED BY <1>1, <1>2, <1>3, <1>4, <1>5 DEF ComesBack

(* Nothing else brings a page back: a DELETE clears the rows it takes, an  *)
(* INSERT writes a page that was none.                                     *)
LEMMA OthersBringNothingBack ==
  ASSUME TypeOK, NoneRestoring, [Next]_vars,
         \A h \in Handlers : ~ Restore(h)
  PROVE  \A p \in exists \cap exists' : trashed[p] # 0 => trashed'[p] # 0
<1> DEFINE Kept == \A p \in exists \cap exists' :
                      trashed[p] # 0 => trashed'[p] # 0
<1>0. exists \subseteq used /\ exists \subseteq Pages /\ clock \in Nat
      /\ trashed \in [Pages -> Nat]
  BY DEF TypeOK
<1>1. CASE UNCHANGED trashed
  BY <1>1
<1>2. ASSUME NEW S, Delete(S) PROVE Kept
  BY <1>0, <1>2 DEF Delete
<1>3. ASSUME NEW ids, PutInTrash(ids) PROVE Kept
  BY <1>0, <1>3 DEF PutInTrash, Live
<1>4. ASSUME NEW p \in Pages \ used, NEW to, NEW w, Insert(p, to, w)
      PROVE  Kept
  BY <1>0, <1>4 DEF Insert
<1>5. CASE PurgeTrash
  BY <1>2, <1>5 DEF PurgeTrash
<1>6. ASSUME NEW h \in Handlers, Step(h) PROVE Kept
  <2>1. CASE GiveUp(h) \/ Reads(h) \/ ReparentWrite(h) \/ MoveWrite(h)
    BY <1>1, <2>1, ReadsAsk DEF GiveUp, ReparentWrite, MoveWrite
  <2>2. CASE CreateInsert(h) \/ IngestRow(h)
    BY <1>4, <2>2 DEF CreateInsert, IngestRow
  <2>3. CASE Trash(h) \/ AgentTrashWrite(h)
    BY <1>3, <2>3 DEF Trash, AgentTrashWrite
  <2>4. CASE DeleteForGood(h) \/ PurgeWorkspace(h)
    BY <1>2, <2>4 DEF DeleteForGood, PurgeWorkspace
  <2>5. ~ AgentRestoreWrite(h)
    BY DEF NoneRestoring, AgentRestoreWrite
  <2> QED BY <1>6, <2>1, <2>2, <2>3, <2>4, <2>5 DEF Step, Reads
<1> QED BY <1>1, <1>5, <1>6 DEF Next, vars

(* Without tools, and however many requests overlap, a page that comes     *)
(* back from the trash brings along all below it that went with it:        *)
(* RestoredTogether of PageTree.                                           *)
THEOREM BatchesComeBack == ASSUME NoAgent PROVE Spec => RestoredTogether
<1>1. Init => NoneRestoring
  BY DEF Init, NoneRestoring, Idle
<1>2. NoneRestoring /\ TypeOK /\ [Next]_vars => NoneRestoring'
  BY NeverRestoring
<1>3. TypeOK /\ NoneRestoring /\ [Next]_vars => [Together]_vars
  BY RestoreTogether, OthersBringNothingBack DEF Together
<1> QED BY <1>1, <1>2, <1>3, TypeInvariant, PTL
        DEF Spec, RestoredTogether, Together
=============================================================================
