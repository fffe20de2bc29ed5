------------------------------ MODULE PageTree ------------------------------
(***************************************************************************)
(* The tree of pages in the table `pages`: creating, moving, trashing,     *)
(* restoring and deleting (pages.go, mcp_db.go, mcp_pages.go,              *)
(* mcp_merged.go, ingest.go), carrying a subtree to another workspace      *)
(* (workspace_move.go), the purge of old trash (ops.go) and of workspaces  *)
(* (lifecycle_account.go).                                                 *)
(*                                                                         *)
(* The server holds one database connection: a statement or a transaction  *)
(* is atomic, and whatever another request does falls between two of them. *)
(* A handler that reads in one statement and writes in a later one is two  *)
(* actions here, joined by the request record it keeps.                    *)
(*                                                                         *)
(* Left out: positions, visibility and roles (GiveUp stands for every      *)
(* refusal they lead to), duplication, imports, forms and templates.       *)
(***************************************************************************)
EXTENDS Naturals, FiniteSets

CONSTANTS
    Pages,       \* page ids; newID never gives one twice
    Workspaces,
    Handlers,    \* the requests that can be under way at one time
    Surfaces,    \* who calls: "browser" (REST), "agent" (MCP tools)
    Nil,         \* SQL NULL
    MaxBatch     \* bound: how often something is put in the trash

ASSUME SurfacesAssumption == Surfaces \subseteq {"browser", "agent"}
ASSUME NilAssumption == Nil \notin Pages /\ Nil \notin Workspaces
ASSUME MaxBatchAssumption == MaxBatch \in Nat

VARIABLES
    exists,      \* ids with a row in pages
    used,        \* ids given out so far
    parent,      \* parent_id
    home,        \* workspace_id
    trashed,     \* trashed_at: 0 when NULL, else the number of the batch
    spaces,      \* rows of workspaces
    clock,       \* the last batch timestamp
    req          \* what each handler has read and not yet written

vars == <<exists, used, parent, home, trashed, spaces, clock, req>>

-----------------------------------------------------------------------------
Idle == [op |-> "idle", page |-> Nil, to |-> Nil, ids |-> {}, ws |-> Nil]

Request == [op : {"idle", "create", "ingest", "reparent", "move",
                  "trash", "restore"},
            page : Pages \cup {Nil}, to : Pages \cup {Nil},
            ids : SUBSET Pages, ws : Workspaces \cup {Nil}]

(* The foreign key of parent_id. *)
ParentsExist == \A p \in exists : parent[p] \in exists \cup {Nil}

TypeOK ==
    /\ exists \subseteq used /\ used \subseteq Pages
    /\ parent \in [Pages -> Pages \cup {Nil}]
    /\ home \in [Pages -> Workspaces \cup {Nil}]
    /\ trashed \in [Pages -> Nat]
    /\ spaces \subseteq Workspaces
    /\ clock \in Nat
    /\ req \in [Handlers -> Request]
    /\ ParentsExist

Init ==
    /\ exists = {} /\ used = {}
    /\ parent = [p \in Pages |-> Nil]
    /\ home = [p \in Pages |-> Nil]
    /\ trashed = [p \in Pages |-> 0]
    /\ spaces = Workspaces
    /\ clock = 0
    /\ req = [h \in Handlers |-> Idle]

-----------------------------------------------------------------------------
(* A set that holds the children of its members. *)
Closed(S) == \A q \in exists : parent[q] \in S => q \in S

(* Mistake: the page and its children, and nothing deeper. *)
SubtreeShallow(p) == {q \in exists : p \in exists /\ (q = p \/ parent[q] = p)}

(* subtreeIDs: the least closed set around p, empty when p has no row.      *)
Subtree(p) == {q \in exists : /\ p \in exists
                              /\ \A S \in SUBSET exists :
                                    p \in S /\ Closed(S) => q \in S}

Live(p) == p \in exists /\ trashed[p] = 0

(* Mistake: no ON DELETE CASCADE. *)
CascadeNothing(S) == S

(* DELETE FROM pages ... : the foreign key takes all that hangs below.      *)
Cascade(S) == UNION {Subtree(p) : p \in S}

(* Mistake: the workspaces are not compared. *)
WorkspaceUnread(p) == Nil

(* What workspace_id gives for an id without a row: pageWorkspace's "".    *)
WorkspaceOf(p) == IF p \in exists THEN home[p] ELSE Nil

(* Rows are cleared of what a deleted page said. *)
Delete(S) ==
    /\ exists' = exists \ S
    /\ parent' = [p \in Pages |-> IF p \in S THEN Nil ELSE parent[p]]
    /\ home' = [p \in Pages |-> IF p \in S THEN Nil ELSE home[p]]
    /\ trashed' = [p \in Pages |-> IF p \in S THEN 0 ELSE trashed[p]]

(* UPDATE pages SET trashed_at = ts WHERE id IN ids AND trashed_at IS NULL *)
PutInTrash(ids) ==
    /\ clock < MaxBatch
    /\ clock' = clock + 1
    /\ trashed' = [p \in Pages |->
                      IF p \in ids /\ Live(p) THEN clock + 1 ELSE trashed[p]]

Free(h) == req[h] = Idle
Ask(h, r) == req' = [req EXCEPT ![h] = r]
Done(h) == req' = [req EXCEPT ![h] = Idle]

(* A request that ends early: a permission that failed, an error, a client *)
(* that left, a restart.                                                   *)
GiveUp(h) ==
    /\ ~ Free(h)
    /\ Done(h)
    /\ UNCHANGED <<exists, used, parent, home, trashed, spaces, clock>>

-----------------------------------------------------------------------------
(* A new page. A child (of a page or of a database) takes the workspace of *)
(* its parent, read in a statement of its own; the INSERT only checks that *)
(* the parent has a row.                                                   *)
Aim(h, op) ==
    \/ \E p \in exists :
          /\ Live(p)
          /\ Ask(h, [Idle EXCEPT !.op = op, !.to = p, !.ws = home[p]])
    \/ \E w \in spaces : Ask(h, [Idle EXCEPT !.op = op, !.ws = w])

CreateRead(h) ==
    /\ Free(h)
    /\ Aim(h, "create")
    /\ UNCHANGED <<exists, used, parent, home, trashed, spaces, clock>>

Insert(p, to, w) ==
    /\ exists' = exists \cup {p}
    /\ used' = used \cup {p}
    /\ parent' = [parent EXCEPT ![p] = to]
    /\ home' = [home EXCEPT ![p] = w]
    /\ trashed' = [trashed EXCEPT ![p] = 0]

CreateInsert(h) ==
    /\ req[h].op = "create"
    /\ req[h].to \in exists \cup {Nil}
    /\ \E p \in Pages \ used : Insert(p, req[h].to, req[h].ws)
    /\ Done(h)
    /\ UNCHANGED <<spaces, clock>>

(* The ingest tool: it looks at its target once, then a goroutine inserts  *)
(* one page after another; GiveUp ends the job.                            *)
IngestStart(h) ==
    /\ "agent" \in Surfaces
    /\ Free(h)
    /\ Aim(h, "ingest")
    /\ UNCHANGED <<exists, used, parent, home, trashed, spaces, clock>>

IngestRow(h) ==
    /\ req[h].op = "ingest"
    /\ req[h].to \in exists \cup {Nil}
    /\ \E p \in Pages \ used : Insert(p, req[h].to, req[h].ws)
    /\ UNCHANGED <<spaces, clock, req>>

-----------------------------------------------------------------------------
(* A new parent, from the sidebar or by update_page. The workspaces are    *)
(* compared before the transaction; existence and the cycle within it.     *)
ReparentRead(h) ==
    /\ Free(h)
    /\ \E p \in exists, x \in exists \cup {Nil} :
          /\ x # p
          /\ x = Nil \/ WorkspaceOf(x) = WorkspaceOf(p)
          /\ Ask(h, [Idle EXCEPT !.op = "reparent", !.page = p, !.to = x])
    /\ UNCHANGED <<exists, used, parent, home, trashed, spaces, clock>>

(* Mistake: only the page itself is refused as its parent. *)
MayHangAnywhere(p, x) == Live(x) /\ x # p

MayHang(p, x) == Live(x) /\ x \notin Subtree(p)

ReparentWrite(h) ==
    LET p == req[h].page
        x == req[h].to IN
    /\ req[h].op = "reparent"
    /\ p \in exists
    /\ x = Nil \/ MayHang(p, x)
    /\ parent' = [parent EXCEPT ![p] = x]
    /\ Done(h)
    /\ UNCHANGED <<exists, used, home, trashed, spaces, clock>>

-----------------------------------------------------------------------------
(* Putting a subtree in the trash: one transaction by the REST handler,    *)
(* two statements by the tool.                                             *)
Trash(h) ==
    /\ "browser" \in Surfaces
    /\ Free(h)
    /\ \E p \in exists : PutInTrash(Subtree(p))
    /\ UNCHANGED <<exists, used, parent, home, spaces, req>>

AgentTrashRead(h) ==
    /\ "agent" \in Surfaces
    /\ Free(h)
    /\ \E p \in exists :
          Ask(h, [Idle EXCEPT !.op = "trash", !.ids = Subtree(p)])
    /\ UNCHANGED <<exists, used, parent, home, trashed, spaces, clock>>

AgentTrashWrite(h) ==
    /\ req[h].op = "trash"
    /\ PutInTrash(req[h].ids)
    /\ Done(h)
    /\ UNCHANGED <<exists, used, parent, home, spaces>>

(* Restoring in the interface: the pages of the subtree that carry the     *)
(* batch of its root, and the root to the top level when its parent is     *)
(* not live.                                                               *)
(* Mistakes: the parent is kept though it is trashed; the page comes back  *)
(* without what was trashed with it.                                       *)
NewParentKept(p) == parent[p]

ComesBackAlone(p) == {p}

NewParent(p) == IF parent[p] # Nil /\ Live(parent[p]) THEN parent[p] ELSE Nil

ComesBack(p) == {q \in Subtree(p) : trashed[q] = trashed[p]}

Restore(h) ==
    /\ "browser" \in Surfaces
    /\ Free(h)
    /\ \E p \in exists :
          /\ trashed[p] # 0
          /\ trashed' = [q \in Pages |->
                            IF q \in ComesBack(p) THEN 0 ELSE trashed[q]]
          /\ parent' = [parent EXCEPT ![p] = NewParent(p)]
    /\ UNCHANGED <<exists, used, home, spaces, clock, req>>

(* Restoring by the tool: this one page, where it hangs. *)
AgentRestoreRead(h) ==
    /\ "agent" \in Surfaces
    /\ Free(h)
    /\ \E p \in exists :
          /\ trashed[p] # 0
          /\ Ask(h, [Idle EXCEPT !.op = "restore", !.page = p])
    /\ UNCHANGED <<exists, used, parent, home, trashed, spaces, clock>>

AgentRestoreWrite(h) ==
    /\ req[h].op = "restore"
    /\ trashed' = [trashed EXCEPT ![req[h].page] = 0]
    /\ Done(h)
    /\ UNCHANGED <<exists, used, parent, home, spaces, clock>>

(* "Delete permanently", and its cascade. *)
DeleteForGood(h) ==
    /\ "browser" \in Surfaces
    /\ Free(h)
    /\ \E p \in exists : Delete(Cascade({p}))
    /\ UNCHANGED <<used, spaces, clock, req>>

(* The cleanup tick deletes what was put in the trash before the cutoff.   *)
Expired(c) == {p \in exists : trashed[p] # 0 /\ trashed[p] <= c}

PurgeTrash ==
    /\ \E c \in 1 .. clock : Delete(Cascade(Expired(c)))
    /\ UNCHANGED <<used, spaces, clock, req>>

-----------------------------------------------------------------------------
(* To another workspace: the checks and the list of the subtree are read   *)
(* statement by statement, the transaction writes what that list says.     *)
MoveRead(h) ==
    /\ Free(h)
    /\ \E p \in exists, w \in spaces :
          /\ Live(p)
          /\ home[p] # w
          /\ Ask(h, [Idle EXCEPT !.op = "move", !.page = p, !.ws = w,
                                 !.ids = Subtree(p)])
    /\ UNCHANGED <<exists, used, parent, home, trashed, spaces, clock>>

MoveWrite(h) ==
    /\ req[h].op = "move"
    /\ parent' = [parent EXCEPT ![req[h].page] = Nil]
    /\ home' = [q \in Pages |->
                   IF q \in req[h].ids \cap exists THEN req[h].ws ELSE home[q]]
    /\ Done(h)
    /\ UNCHANGED <<exists, used, trashed, spaces, clock>>

(* purgeWorkspace: the pages of the workspace and then its row. *)
PagesOf(w) == {p \in exists : home[p] = w}

PurgeWorkspace(h) ==
    /\ Free(h)
    /\ \E w \in spaces :
          /\ Delete(Cascade(PagesOf(w)))
          /\ spaces' = spaces \ {w}
    /\ UNCHANGED <<used, clock, req>>

-----------------------------------------------------------------------------
Step(h) ==
    \/ GiveUp(h)
    \/ CreateRead(h) \/ CreateInsert(h)
    \/ IngestStart(h) \/ IngestRow(h)
    \/ ReparentRead(h) \/ ReparentWrite(h)
    \/ Trash(h) \/ AgentTrashRead(h) \/ AgentTrashWrite(h)
    \/ Restore(h) \/ AgentRestoreRead(h) \/ AgentRestoreWrite(h)
    \/ DeleteForGood(h)
    \/ MoveRead(h) \/ MoveWrite(h)
    \/ PurgeWorkspace(h)

Next == PurgeTrash \/ \E h \in Handlers : Step(h)

Spec == Init /\ [][Next]_vars

-----------------------------------------------------------------------------
(* No page is its own ancestor: every set of pages has a member whose      *)
(* parent is outside it. The cycle check of a move and its UPDATE share a  *)
(* transaction (pages.go:612, mcp_db.go:298); a page in a cycle would      *)
(* hang below no root and be out of reach of every list.                   *)
Acyclic == \A S \in SUBSET exists :
              S # {} => \E p \in S : parent[p] \notin S

(* Nothing live hangs under a trashed page: it would be out of reach in    *)
(* the sidebar and deleted with its parent (pages.go:975, 1043).           *)
NoLiveUnderTrashed ==
    \A p \in exists : parent[p] # Nil /\ trashed[parent[p]] # 0
                         => trashed[p] # 0

(* A page lies in the workspace of its parent (workspace_move.go:16):      *)
(* permissions are read off whichever page is looked at. And no page lies  *)
(* in a workspace that is gone, where no interface would show it           *)
(* (lifecycle_account.go:30).                                              *)
SameWorkspace ==
    \A p \in exists : parent[p] # Nil => home[p] = home[parent[p]]

HomesExist == \A p \in exists : home[p] \in spaces

WellHoused == SameWorkspace /\ HomesExist

(* The cleanup tick deletes what is older than the cutoff and nothing      *)
(* else, and deleting a workspace takes pages of that workspace only,      *)
(* although both DELETEs cascade along parent_id (ops.go:86, 134,          *)
(* lifecycle_account.go:83).                                               *)
TakesOnlyExpired ==
    PurgeTrash => \E c \in 1 .. clock : exists \ exists' = Expired(c)

TakesOfOneWorkspace ==
    spaces' # spaces => \A p \in exists \ exists' : home[p] \in spaces \ spaces'

PurgesStayInside == [][TakesOnlyExpired /\ TakesOfOneWorkspace]_vars

(* What was put in the trash together comes back together: with a page     *)
(* return the pages below it that carry its batch (pages.go:1065).         *)
RestoredTogether ==
    [][\A p \in exists \cap exists' :
          trashed[p] # 0 /\ trashed'[p] = 0
             => \A q \in Subtree(p) : trashed[q] = trashed[p]
                                         => trashed'[q] = 0]_vars
=============================================================================
