# A verification development for salt.md

salt.md is a self-hosted notes and wiki server: one Go process (`src/server`),
one SQLite database behind it, and a React editor (`src/web/src`) in which
several people edit pages together over a WebSocket. The modules in this
directory model the parts in which the order of events decides whether
somebody's text survives, whether the tree stays a tree, whether somebody
stays in charge, whether a window shows what the server has, and whether a
connection outlives its renewals. TLC checks them on small instances; TLAPS
proves the theorems of section 4 for every value of the constants.

Contents: 1 the system, 2 the modules, 3 the runs, 4 the theorems,
5 disagreements between text and code, 6 what is not modelled, 7 the plan.

## 1. The system

### What runs at the same time

* The server handles every HTTP request and every WebSocket in a goroutine of
  its own. The database is opened with **one** connection (`server/db.go`), so
  a statement or a transaction is atomic, and between two statements of a
  handler any other handler can run. That is the granularity of all modules:
  one action per statement, per transaction, per critical section of a mutex,
  or per event handler of the browser.
* A collaboration socket has a read loop (the handler), a write loop, a ping
  loop and an access check, all goroutines. They share the room, under
  `room.mu`, and the hub, under `hub.mu`.
* A browser tab is single-threaded: one event handler at a time, with a
  document in memory that outlives its socket. What a handler sets is drawn
  later, and other handlers may run before that.
* The server tells a browser *that* something moved, over one stream of
  events; the browser then asks what. Answers come in any order, or not at all.
* Copies are everywhere: a list in a sidebar, the schema a dialog was opened
  with, the properties a tool has read. Most writes are made from one.
* Crashes are real. Updates are persisted one INSERT at a time, compaction is
  an upsert followed by a DELETE, an outside write is an UPDATE followed by two
  DELETEs, an account is deleted before its workspaces are handed on. None of
  these pairs is a transaction.

### Components, their state and what makes them correct

| component | code | state | operations | correct when | module |
|---|---|---|---|---|---|
| realtime relay | `collab.go`, `web/src/collab.ts`, seeding in `Editor.tsx` | `yjs_state`, `yjs_updates`, rooms, connections, the document of each tab | dial, join, load, update, snapshot, reset, kick, leave | no update is lost or missed, all see the same text, a replaced document stays replaced, the body is seeded once | `Collab` |
| page text and history | `docgen.go`, `history.go`, `pages.go`, `mcp_pages.go`, `mcp_history.go`, `mdimport.go`, `Editor.tsx` | `pages.content`, `doc_gen`, `page_revisions`, autosaves on their way | autosave, outside write, restore | an old copy never overwrites a newer text, what was typed is kept somewhere | `PageText` |
| page tree | `pages.go`, `workspace_move.go`, `mcp_db.go`, `mcp_pages.go`, `mcp_merged.go`, `ingest.go`, `ops.go` | `parent_id`, `workspace_id`, `trashed_at` | create, reparent, trash, restore, delete, move, purge | no cycle, nothing live below the trash, a subtree is in one workspace, the purge takes what has expired | `PageTree` |
| accounts, roles and workspaces | `users.go`, `roles.go`, `workspaces.go`, `lifecycle_account.go`, `admin.go`, `oauth.go` | `users`, `org_members`, `workspaces`, `workspace_members` | create, invite, promote, demote, remove, transfer, deactivate, delete, adopt | the instance has one owner who can act, a workspace keeps an admin, a deletion takes nobody else's work along | `Membership` |
| live updates, agents at work | `events.go`, `presence.go`, the effects of `App.tsx`, `CollectionView.tsx`, `agentPresence.ts` | subscribers and their channels; per window the stream, its watchdog, timers, requests, and three lists | announce, connect, hear, reload, return, refresh | a window at rest shows what the server has; what is shown never goes back | `Feed`, `Mirror` |
| tabs and browser history | `App.tsx` | `openTabs`, `currentId` and their mirrors, the list, looked-up pages, `history` | go, open, close, back and forward, create, trash, filter, resolve, land | the address, the active page and its tab agree; a live page keeps its tab, a page that is gone loses it | `Tabs` |
| databases, taking changes back | `collections.go`, `mcp_schema.go`, `mcp_db.go`, `audit.go`, `smartdate.go`, `CollectionView.tsx`, `SchemaEditor.tsx`, `collectionFilters.ts`, `PropertyValue.tsx`, `format.ts` | schema and views, their copies, the properties of rows, the log | load, save, merge, take back, filter | a save takes along nothing its maker never touched; server and browser pick the same rows; an edit made meanwhile is not taken back | `Database`, `Filters` |
| connections of agent platforms | `oauth_provider.go` | codes, grants, access tokens, the renewals it remembers | approve, exchange, renew, revoke, end | a token handed out renews its connection whoever renews beside it; ending one ends all of it | `Connections` |
| search index | `searchindex.go`, `chunks.go`, `links.go` | `pages_fts`, `page_chunks` | index, reindex, remove | the index of a page is that of its last text | planned |
| webhooks | `webhooks.go` | deliveries | deliver, record | the recorded result is that of the last delivery | planned |
| tunnel | `tunnel.go` | status, process | start, stop, supervise | off means no process, at most one process | planned |
| everything else | see section 6 | | | | |

How they interact: an outside write (`PageText`) ends in `resetYjsDoc`
(`Collab`); an editor's autosave names the generation the relay told it;
moving, trashing and deleting pages (`PageTree`) kicks the editors of the
relay; deleting a workspace or an account (`Membership`) calls the purge of
`PageTree`; loss of membership ends the connections of the relay through its
access check; deleting an account ends its `Connections`. Every write that
changes a list is announced on the stream that `Feed` follows, and `Tabs`
reacts to the list of pages it fetches; the rows and the schema of `Database`
come through `CollectionView`. A row of a database is a page, with properties
besides its text.

## 2. The modules

| module | what it is |
|---|---|
| `Collab`, `PageText`, `PageTree`, `Membership` | four components of the server: constants with their assumptions, variables, one action per step of the code, properties at the end |
| `Feed`, `Tabs`, `Database` | three components that span browser and server, in the same form |
| `Connections` | a component of the server together with the client it was written for, a platform that renews from several machines |
| `Mirror` | the abstract specification of a list on a screen, which the rows of `Feed` implement |
| `Filters` | the two readings of a condition on a property, as operators; `Database` extends it |
| `MCCollab`, `MCPageText`, `MCPageTree`, `MCMembership`, `MCFeed`, `MCTabs`, `MCDatabase`, `MCConnections` | model values, symmetry and the instances for TLC |
| `CollabProofs`, `PageTextProofs`, `PageTreeProofs`, `MembershipProofs`, `FeedProofs`, `TabsProofs`, `DatabaseProofs`, `ConnectionsProofs` | the theorems |

In the modules of the server a *job* (or *request*) record joins the steps of a
handler: it holds what the handler has read and what it will write next, and
whatever other handlers do falls between its steps. Operators marked `(mutant)`
or `Mistake` are plausible errors in the definition below them; each property
of a run is broken when the definition is replaced by such an error, so none of
them holds by the shape of the model.

### Collab

*State.* The rows `yjsState`, `yjsUpdates`, `docGen` and `trashed` of one page;
the tabs whose account `mayRead` it and those whose account `mayWrite` it;
the map entry `hub` and the `rooms` objects it ever pointed to (a room outlives
its entry, which is what makes `leave` delicate, see section 5); per connection
the position of its goroutines `st`, its queue `out`, the frames `inq` the tab
has sent, and whether `done` and the socket are closed; per tab the provider;
per outside writer its position between two statements. `edits`, `seeds`,
`bornIn` and `stored` are history: which update seeded, which generation its
author named, and which updates were committed and not reset since.

*Actions.* `Dial`, `Join`, `RefuseStale`, `Load` are `handleCollab` up to the
read loop, cut where the code lets go of a lock. `DropFrame`, `PersistUpdate`,
`PersistFails`, `ApplySnapshot`, `SnapshotFails` are one turn of the read loop.
`CloseSocket`, `NetDrop`, `PeerGone`, `Leave` end a connection. `Recv`, `Seed`,
`Edit`, `OnClose`, `Abandon`, `Mount`, `CloseTab` are the tab. `OutsideWrite`,
`ResetLookup`, `ResetUpdates`, `ResetState`, `ResetRoom` are a write from
outside with its `resetYjsDoc`; `Trash`, `KickLookup`, `KickRoom`, `Restore`
the trash. `EndAccess` takes the right to write away, or the right to read with
it, with or without `dropUser`; `Recheck` is the tick of `recheckCollabAccess`
that finds a reader who has lost it, and `Dial` answers nobody but those who
may read. `Restart` and `CrashInSnapshot` happen to all.

*Abstractions.* A Yjs document is the set of ids of the updates merged into it,
which is what a join semilattice needs; the merging of two concurrent edits is
the business of Yjs. Frames go from the queue to the tab in one step: a frame
in the socket and a frame in the queue are told apart by nothing here. The
three reads of a load are one step because all writers of these tables in this
room hold `room.mu`, except those of a room dropped from the hub. `enqueue`
follows Go's `select`: with `done` closed and space in the channel either
branch may be taken. The body of the page is taken to be non-empty, so a tab
told to seed does seed. Awareness and ping frames and `room.epoch`, which
nothing reads, are left out.

### PageText

*State.* `content` and `docGen` of one page, the live document, the revisions
`revs` with whether the newest is `young` (the two-minute throttle), the editor
in each tab, autosaves that were `sent`, and per handler the statements it has
left `todo`. A text is the set of the pieces it holds; a piece is one keystroke
or one outside write. History: the text `base` the last outside write left, the
generation each piece was `born` under, whether the live document is `stale`
and an editor was `caught` by it, which pieces were ever `stored`, which were
`lost` with a request that never arrived.

*Actions.* `Script` and `RestoreScript` list the statements of every kind of
write, in the order of the code; `At`/`Then`/`Skip` run them one by one
(`Throttle`, `ReadBody`, `ReadCurrent`, `CompareNewest`, `KeepRevision`,
`Write`, `Reset`, `Answer`). `TakeSave` is the transaction of an autosave with
`materializeGuard`; a refused copy goes through `keepRefusedCopy`. `Load`,
`Connect`, `Refused`, `NetDrop`, `HearReset`, `Type`, `AutoSave`, `Unmount`
are the editor; `LoseSave` and `Restart` the faults.

*Abstractions.* What `Collab` shows is taken for granted: connected editors
hold what the live document holds, one of them seeds an empty one, a reset
reaches all at once. Left out: titles, the search index, deleting text, front
ends that name no generation.

### PageTree

*State.* Per page whether it has a row, its `parent`, its `home` workspace and
the number of the batch it was `trashed` with; the workspaces there are; per
handler what it has read and not yet written. The foreign key of `parent_id`
with its cascade is `Cascade`; a subtree is the least set closed under
children.

*Actions.* One per statement or transaction: `CreateRead`/`CreateInsert`,
`IngestStart`/`IngestRow`, `ReparentRead`/`ReparentWrite`, `Trash`,
`AgentTrashRead`/`AgentTrashWrite`, `Restore`, `AgentRestoreRead`/
`AgentRestoreWrite`, `DeleteForGood`, `PurgeTrash`, `MoveRead`/`MoveWrite`,
`PurgeWorkspace`. `GiveUp` stands for every refusal between the two halves
(roles, visibility, a parent that is gone). `Surfaces` says who calls: the
interface, the tools of the agents, or both; their code differs.

### Membership

*State.* Rows of `users` (with `disabled` and `is_admin`), the owners in
`org_members`, `workspaces` (there, personal, owner, open to all) and
`workspace_members`; per handler what it has yet to write; `left`, the
workspaces left to themselves: by a restart in the middle of the deletion of
their person, or as long as that person is put down (`Unseats`, `Reseats`).

*Actions.* The checks of a handler are one action, each of its writes another.
`CreateUser`, `Grant`, `NoSpaceOfTheirOwn`, `NewSpace`, `JoinAutoWorkspaces`
are the creation of an account by whichever way and `onboardUser`;
`AcceptInvite`, `AddWorkspaceMember`, `UpdateMember`, `RemoveMember`,
`AdminMembership`, `AdoptWorkspace` check and `WriteRole` writes one row of
`workspace_members`, with the foreign keys; `SetUserDisabled`, `UpdateUser`
and `SetFlags`, `TransferOwner` and `SeatOwner` change accounts;
`DeleteWorkspace`, `DeleteStrandedWorkspace` and `PurgeWorkspace` workspaces.
`DeleteUser` writes the plan of `deletionImpactOf` down, `DeleteAccount` is the
DELETE with its cascade, and `PurgePersonal`, `ShareOut`, `FindHeir`,
`Inherit`, `FindBoss`, `HandOver`, `FindRest`, `PassOn`, `DeleteUserEnds` are
`applyDeletion` statement by statement. `Restart` is `migrateOrg`.

*Abstractions.* Ids are numbers in the order of `created_at`. The two INSERTs
of a new workspace are one step; so are the UPDATE of `users` and that of
`org_members` in `handleUpdateUser`. An account created by an admin is put in
one workspace at most. A newcomer who accepts an invitation is an account that
signs up and then accepts it.

### Feed

*State.* A list is the number of times it has changed on the server (`server`),
so a copy of it is the number it had when it was read. `owed` are the changes
that are written and not announced; `stream`, `queue` and `watch` the
`EventSource`, the channel of its subscriber with the wire, and the watchdog;
`timer` the debounced reloads; `tree`, `rows` and `agents` what is on screen,
with the requests for each. The rows come in `Steps` answers, shown as they
come, under an `epoch`. History: which lists lost an event, and whether to a
full channel or to a gap in the stream, which requests failed.

*Actions.* `Write` and `Announce` are a handler that changes a list and its
`broadcast`; `Accept` is `handleEvents`, which subscribes before it writes the
first byte; `Open`, `Hear`, `Watchdog`, `Refresh`, `Return` are the effect in
`App.tsx`, with `Break` for the ways a connection ends (noticed, unnoticed,
refused); `ReloadPages`/`ReadPages`/`ShowPages`, `ReloadRows`/`ReadRows`/
`ShowRows` and `LoadAgents`/`ReadAgents`/`ShowAgents` the three fetches, and
`Fail` a request that does not come back with a list.

*Abstract specification.* `Mirror` says what a copy may do: stay, or move
forward to a state the source has been in. The oldest and the newest step of
the rows both implement it (`RowsMirror`). The list of pages does not: it has
no epoch, and the answers to two requests may cross.

### Tabs

*State.* `openTabs` and `currentId` with the mirrors `tabsRef` and `activeRef`,
from which handlers read; the list `pages` on screen; `extra` and `resolving`
for tabs the list knows nothing about; `history` and `pos` of the browser;
`dirty`, what was set since the last drawing.

*Actions.* `Flush` is one drawing followed by the effects in their order:
filter, resolve, land. `Go`, `OpenInNewTab`, `Close`, `FollowLink`, `Pop`,
`Missing` are handlers of what the person does, which React draws at once
(`urgent`; `Missing` is the button of an editor that could not load its page);
`Created`, `Trashed`, `Resolve`, `Blip`, `ListComes` are answers that come on
their own. `Other` is another session.

### Filters and Database

*State.* The schema maps property ids to their types, the views are a set of
names; `copy`, `answer`, `draft` and `agent` are copies of both that a window,
an answer on its way, an open Properties dialog and a tool call hold; `puts`
are saves on their way, with what their makers meant to change. `row` is the
properties of one row, `log` the recorded changes, `revert` a take-back between
its read and its write.

*Actions.* `LoadConfig`/`ShowConfig`, `ChangeViews`, `SetPropOptions`,
`OpenDialog`/`SaveDialog`/`CloseDialog` are the window, `PutCollection` the
route, `LosePut` the network; `LoadCollection`/`SaveCollection`/`GiveUp` the
tools. `PatchProps`, `SetProperties` and `ReadForRevert`/`WriteRevert` write
the row.

*Filters* translates a condition twice: `Where` is the SQL of `rowFilter.where`
with `resolveDates` and `typedIs`, `Matches` is `matchesFilter` of the browser.
`Stored` are the values the cell editors and the tools leave in a cell of each
type, `Conditions` the conditions the interface lets a person build. A text is
one of a few words, numerals and days, because nothing else is compared.
*Contains* folds capitals, and each side does it in its own way: `SqlLike` by
`AsciiFold`, as SQLite's LIKE, `Includes` by `LowerCase`, as JavaScript.

### Connections

*State.* Per connection its `life` (a code, a code that was seen, a row that
stands, ended) and the number of its `newest` refresh token, whose hash the row
has; the `access` tokens that have not run out; `renewals`, what
`oauthRefresh` remembers of the tokens it replaced; `lock` for `renewMu`; per
machine of the platform its request, and the pair they all have in `store`.
`cut` is history: the tokens whose replacement was forgotten.

*Actions.* `Approve`; `ReadCode`, `DropCode`, `InsertGrant`, `IssueAccess` are
the exchange statement by statement; `FindGrant`, `Rotate`, `IssueAccess` the
renewal, all under the lock; `FindRevoked`, `EndRevoked` the revocation, which
takes no lock; `DeleteGrant` the End a person presses. `Fails` is a statement
that fails, `Restart` the end of the process, `Expire`, `ExpireCode` and `Age`
the passing of time. `Renew`, `Store`, `Drop`, `Error`, `Lose`, `Disconnect`
are the platform as the comments of the code describe it: it stores whichever
answer comes last, and drops the pair when it is refused.

*Abstractions.* A refresh token is its connection and its number in the line
of replacements. Time is a choice: anything may be over at any moment, the
overlaps of one line in the order of their renewals. What has run out and what
was swept are not told apart, since expiry is looked at whenever a token is
used. The three lookups of `FindGrant` are one step: the lock keeps other
renewals out, and a connection that ends between them is refused either way.

## 3. The runs

| run | module | instance | what it shows |
|---|---|---|---|
| `relay` | `MCCollab` | 2 tabs, 2 connections, 3 rooms, 3 updates, 1 fault | no update is lost, missed, refused by the primary key or relayed to the wrong room; the body is seeded once; when nothing is under way all see one text, and closing the last tab is safe; a compaction under way has somebody at work on it |
| `reset` | `MCCollab` | 2 tabs, 1 outside write, 1 trashing, 1 update, 1 disk fault, a compaction at every update | a connection that was emptied out never adds to the log |
| `converges` | `MCCollab` | `FairSpec`, 2 updates, 1 fault | after the last fault all open editors that may read the page and the database hold the same text; who may not read it stays out |
| `oldcopy` | `MCCollab` | 1 update, 1 outside write, 1 fault | violated: an old document passes under the new generation |
| `any` | `MCPageTree` | 3 pages, 2 workspaces, 2 requests, interface and tools | rows and foreign keys, and no cycle, whatever interleaves |
| `alone` | `MCPageTree` | 4 pages, 2 workspaces, 1 request, interface, 3 batches | nothing live below the trash, one workspace per subtree, and one that exists, both purges within bounds, a batch comes back whole |
| `text` | `MCPageText` | 1 editor, 2 requests, 2 pieces, every kind of write, 1 outside write, 1 fault | no old copy returns over the write that replaced it; nothing typed is dropped |
| `people` | `MCMembership` | 3 accounts, 1 of them deactivated or a second admin, 2 workspaces, admins and members, 1 request, any restarts | one owner who can act; the last admin stays unless added again with a lower role; a personal space stays with its person unless he is put down, and a shared one with an account that exists; nobody else's work is purged |
| `feed` | `MCFeed` | 2 requests of a kind, 2 steps of rows, room for 1 event, 2 changes, 1 fault or visit | a window at rest shows what the server has, for whatever was not lost; the rows implement `Mirror`; the sidebar catches up by itself |
| `tabs` | `MCTabs` | a document, a database with a row, a page to be created, 2 events, any history | no page in two tabs; the address, the active page and its tab agree; a live page keeps its tab and one that is gone loses it |
| `database` | `MCDatabase` | a window with its dialog, a tool call, 2 properties of every type, 2 views, 3 events | a save takes along nothing its maker never touched; both readings of a condition pick the same rows; a take-back leaves later edits alone |
| `connections` | `MCConnections` | 2 machines, 1 connection, 5 events (faults, tokens running out, what people do) | a token handed out renews as long as its overlap; no access token outlives its connection; a platform whose access token has run out gets another or is told that there is none |

### Why the bounds are enough

*Collab.* Two tabs are enough for every interleaving of a joiner with an
editor, of a seeder with a second opener, of a compacter with somebody who
types during the round trip; a tab that reconnects uses the second slot, which
is how an old and a new connection of one tab coexist. Three rooms let two
rooms that were dropped from the hub coexist with the one in it.
`compactThreshold` is 2 (1 in `reset`) instead of 200. `outBuffer` is larger
than what two tabs can fill; a full queue was looked at separately, see
section 5. Symmetry over tabs and connections is used where all tabs have the
same rights, and never in the liveness runs.

*PageTree.* A cycle needs two concurrent moves and two pages, a cascade into a
third page the third; four pages give a batch inside a batch inside a live
parent. Two requests are all a race between a check and a write needs. The
properties of `alone` other than `Acyclic` do **not** hold with two requests or
with the tools, which section 5 lists; the run shows what the sequential code
guarantees, and section 4 proves the same under the same premise.

*PageText.* With two requests an autosave and an outside write, or two
autosaves, interleave statement by statement. Larger instances held as well:
two tabs with one request and a fault, one tab with two requests and two
outside writes, two tabs with two requests without faults.

*Membership.* Three accounts are an owner, a second admin and a third person
who inherits or is left over; two workspaces are the shared one and a personal
one. `MaxMarked` is 1: besides the owner one account at a time is deactivated,
an admin of the instance, or both, each in turn. `MaxRoles` is 4: a request
adds a membership while there are fewer than four in all, so that either
workspace can fill with all three people, not both at once (the open one is
also joined without a request). The number of calls is not bounded: roles,
rights and deactivations change back and forth, and a restart may come between
any two writes. The larger instance with `MaxMarked` 2 and `MaxRoles` 6, which
bounds neither, held as well (5.3 million states).

*Feed.* Two overlapping requests are what it takes for answers to cross, two
steps for a list of rows that is half old and half new, two changes for a third
state to go back from. A channel of one stands for one of sixteen: it is full
after a single event that is not read. One fault at every possible moment is
every way a stream ends; faults that pile up only add to what was lost, which
the theorems of section 4 cover for any number.

*Tabs.* A document, a row and a page that comes and goes are the three kinds of
page the effects tell apart. The person may do anything at any time; two events
bound what other sessions do to pages, failures, creations and trashings. The
first address and the first tabs are those an earlier session can leave.

*Database.* One window with a dialog and one tool is every pair of a copy and a
save; two windows that save the same half overwrite each other by the design of
the route. Three events are an addition, an edit from an older copy and a third
in between. Every type of property and every condition on it is enumerated in
full for the values of `Stored`. Of the three words two differ in a capital
beyond the letters from A to Z and one contains another; the two accounts
differ in capitals from A to Z.

*Connections.* Two machines are two renewals at once with one token, and one
that is answered late; five events let a connection be renewed several times
between a restart, an overlap that ends and an answer that is lost. A
connection shares nothing with another but the lock. The numbers in a line need
no bound of their own: an access token that runs out, and a renewal of a pair
that still works, is one of the events.

*Fairness* (`converges`, `feed`, `tabs`, `connections`). Weak fairness of what
goes on by itself:
a handler goroutine and its read loop, the goroutine that closes a socket, the
ping loop that notices a dead peer, the ticker that asks for the right to read
again, the event handlers of a tab, its reconnect
timer, and a handler that has begun an outside write. The Go scheduler and the
event loop of the browser run them all. Nobody is assumed to type, to open or
to close a page. Faults are bounded by `MaxFaults`, so "after the last fault"
is a state that comes. In `Feed`: a handler that has written announces,
requests are answered, timers fire, `EventSource` connects and the watchdog
bites; nobody has to come back to the window or press Refresh. In `Tabs`: React
draws what was set, and requests of the window are answered; nobody has to
click. In `Connections`: handlers go on, the platform hears its answers and
renews a pair that does not work any more; nobody has to approve or end one.

*Deadlock* is not checked. In `Collab`, `PageText`, `Feed`, `Tabs` and
`Database` the system rightly stops when the bounds on updates, writes, events
and faults are used up and everything has arrived; so does `Connections`; in
`PageTree` and `Membership` ids are never given twice, so when all are used and
gone, what is left can be a state in which only a restart or nothing happens.

## 4. The theorems

All hold for any number of tabs, connections, rooms, handlers, pages,
accounts, workspaces and machines and for any bounds, from the assumptions on
the constants each
module names.

* `CollabProofs!TypeInvariant`: `Spec => []TypeOK`. `TypeOK` is not inductive:
  counting an update needs the room of the connection, and a frame needs the
  tab it came from. `Located` adds both.
* `CollabProofs!KickedStaysMute`: `Spec => KickedIsMute`. The invariant
  `Members` says that the members of a room are connections in the server that
  point to it, and that a connection a reset emptied out is in no member set;
  `persistUpdate` then fails its membership test for it.
* `CollabProofs!OneRoomWithoutResets`: without outside writes and trashings,
  `Spec => []OneLiveRoom`, under any faults. `AllInHub` says that every
  connection past its join is in the room of the hub. The premise is needed:
  one outside write is enough to violate the property (section 5).
* `CollabProofs!CounterIsFree`: under the same premise `Spec => []SeqIsFree`.
  `SeqIsFree` alone says nothing of the rows beyond the next one, so `Counted`
  adds that the log is ascending, that only the hub's room is loaded, that no
  row is above its counter, and that nobody is open in a room not loaded. The
  two lemmas about the log (`AppendsAtEnd`, `LeavesTheEnd`) say that an insert
  above all rows appends and that a compaction leaves the end of the log.
* `CollabProofs!CompactionLosesNothing` and `NobodyMissesAnUpdate`: under the
  same premise, and as long as the relay asks only the living for a snapshot,
  `[]NothingLost` and `[]NothingMissed`. Neither is inductive: that a snapshot
  covers the rows it replaces is decided when the request is queued, and must
  be carried to the moment the answer is applied. `Links` does that along the
  queue: what an open tab lacks of the committed updates is ahead of it in its
  own queue (`Fed`), what it lacks at a request is ahead of the request or has
  a row above the number asked for (`Asked`), and an answer under way holds all
  but such rows (`Answers`). `AskState` says that only the connection the room
  waits for has a request or an answer under way, one of either. Most lemmas
  say what a frame more at the end of a queue, a frame less at its head, a row
  more or a compacted log does to these.
* `CollabProofs!AllSeeTheSame`: under the same premises `[](used.disk = 0 =>
  SameForAll)`. `Upper` is the other half of `Links`: nothing is in the
  database, a queue or a tab that was not committed, or is not in the frames
  the tab has sent (`Heard`). `SameForAll` itself says nothing when the disk
  failed, because then a tab holds text nobody else has until it reconnects.
* `CollabProofs!WhileNoQueueRunsFull`: the premise about the living,
  `[][AsksTheLiving]_vars`, follows from `[]NoOverflow`: nobody who may write
  was shut down by `enqueue` over a socket that is still open. In the runs,
  whose buffer is longer than anything that is ever queued, it always holds.
  The premise cannot be dropped. The code goes on reading from a connection
  that `enqueue` shut down for a full queue until its socket is closed, its
  next update may be the one that makes the room ask it for a snapshot, and the
  `select` of `writeLoop`, which chooses at random between `done` and a frame,
  may still hand it all that is left in the queue, the request included; its
  answer then lacks the frame it was denied. With a buffer of three frames TLC
  finds that (`NothingLost`). With the 512 of the code the writer would have to
  choose the frame hundreds of times in a row, so it is no event to wait for;
  it is what separates the word "provably" (`collab.go:25`) from a proof.
* `CollabProofs!SomebodyIsAtWork`: without outside writes and trashings,
  `Spec => []CompactionGoesOn`, whatever the queues do. `Compacting` adds that
  the room is loaded, and that its connection is open.
* `CollabProofs!TheSeedIsOne`: without outside writes and trashings, and with a
  buffer of two frames or more (the code's has 512), `Spec => []SeededOnce`.
  `SeedInv` follows who may still seed: while the document has no row no
  connection broke and only the seeder of the room was told that it is new,
  and after the first seed nobody may.
* `PageTreeProofs!TypeInvariant` and `NeverACycle`, for all surfaces and any
  number of requests. Acyclicity rests on the transaction of
  `handleUpdatePage`: the check and the UPDATE are one step.
* `PageTreeProofs!HomeOfTheParent` and `PurgeOfOneWorkspace` under `OneAtATime`
  (at most one handler): the invariant `AtHome` carries what a request has read
  about homes to the moment it writes.
* `PageTreeProofs!TrashIsClosed` and `PurgesKeepTheRest` under `OneAtATime` and
  without tools: `BatchOrder` says that a page below the trash was trashed no
  later than what it hangs under. The second adds `PurgeOfOneWorkspace`.
* `PageTreeProofs!BatchesComeBack` without tools, however many requests
  overlap: `Spec => RestoredTogether`. A subtree holds the subtrees of its
  members (`SubtreeWithin`), so what comes back with a root includes what comes
  back with each page below it; every other statement that writes `trashed_at`
  leaves pages in the trash there (`OthersBringNothingBack`).
* `PageTextProofs!TypeInvariant`, from `Sound` (types, pieces that exist, what
  connected editors hold, refused copies that are still awaited).
* `PageTextProofs!TypedKept`: `Spec => []TypedIsKept`, from the same invariant
  read piece by piece.
* `PageTextProofs!OldCopyStaysOut`: `Spec => []NoOldCopyBack`. The invariant
  orders the generations: no piece is born under a generation that is still to
  come, and a current editor that is not `caught` descends from the last
  outside write.
* `MembershipProofs!TypeInvariant`: members are accounts, members are in
  workspaces that are there, owners and admins are accounts, for any number of
  requests and any restart. `Located` adds what a job points at (a row that is
  written has a workspace and an account) and that only a workspace that is
  there is open.
* `MembershipProofs!OneOwnerStays` under `OneAtATime`: `Chair` adds to
  `OneOwner` that what the checks of a request found (`Rights`) is still so
  when it is written: who is to be deactivated, demoted or deleted is not the
  owner, who is seated is an active admin other than the owner.
* `MembershipProofs!AdminsStay` under `OneAtATime`: `Held` says that a role
  about to be written leaves an admin, and that a workspace still to be made
  has no members.
* `MembershipProofs!WorkOfOthersStays` under `OneAtATime`: `Spec =>
  OthersWorkSurvives`. `Asked` carries what the checks found to the statement
  that removes a workspace: who asked is an active admin of it or nobody is in
  it, and a personal space on the list of a deletion has no member but the
  account that goes, and none once it is gone.
* `MembershipProofs!SomebodyInCharge` under `OneAtATime`:
  `Spec => []PersonInCharge`. The property speaks of the time
  between requests only; `Order` says what holds inside a deletion. `InHand`
  says that a workspace whose owner is gone is in a list of the deletion that
  removed the account (the personal ones to be purged or shared out, or the
  rest), or will still be found by the query that fills the rest; `Going` says
  that whoever inherits is there, that nothing in the lists of shared
  workspaces is personal, and that the account that takes what nobody else
  administers is the owner of the instance (from `Chair`). So the lists are
  empty at the end because everything in them found an owner, not because
  anything was skipped. What a restart cuts off, and the spaces whose person
  was put down through the two doors that do not ask (section 5), are in
  `left`, which the property excepts; `Rightful` says of every other role about
  to be written that it leaves the person an admin.

* `FeedProofs!TypeInvariant`, `TreeStaysCurrent`, `ListsStayCurrent` and
  `RowsImplementMirror`, from `IInv`, which has a part for each list.
  `PagesInv` says that what is on screen or in an answer is no newer than the
  server, and that a screen which is behind has something on its way: a change
  not announced, an event in the channel, a timer, a request not read, an
  answer that is current, or a stream that will be opened. `AgentsInv` says the
  same for the one request of the agents. `RowsInv` orders the readings: the
  steps a reading has collected never go back, and only the newest reading is
  drawn, so it starts no earlier than what it replaces. The refinement has one
  step per action that redraws the rows; all others map to a stutter or to
  `Change`.
* `TabsProofs!NoPageTwice`, `AddressAndTabAgree` and `LiveTabsAreKept`, for any
  documents, rows and events, from `IInv`. The lemmas before it say what the
  operators on lists return: each keeps a page from being in a list twice, and
  what is kept of a list is what was in it. `Mirrored` says that the mirrors
  lag only behind what is marked as dirty, `Whole` that every entry of the
  history is of a piece (its address is its active page, which is in its tabs),
  so going back lands in agreement, and `Known` that a page which was never in
  the trash is called live by every list, answer and looked-up page there is.
  The assumption on the constants that the proofs need is that the tabs an
  earlier session left hold no page twice; that is what `NoPageTwice` says of
  the session that left them. `Kept` and `FirstOf` write `filter` and `find` by
  the rank of an index, because the prover knows nothing of `SelectSeq`.
* `DatabaseProofs!TypeInvariant`, `NothingIsLost` and `EditsAreLeftAlone`: a
  save on its way that carries one half is about that half, and a take-back
  under way changes nothing but what it found as the entry left it.
* `DatabaseProofs!ReadingsAgreeOnRows`: `Spec => []SameRows`. That the type of
  a property is a kind comes from `TypeOK`; the rest is a fact about the
  operators of `Filters` (`ReadingsAgree`), case by case: a condition is of one
  of four shapes (`ShapesOfConditions`); what resolving days and accounts puts
  into it is the same on both sides and nothing a condition waits for
  (`SameValues`, `SameBound`); equality and comparison then agree on every cell
  the kind can hold (`SameIs`, `SameCompare`), and *contains* where both ways
  of folding capitals do (`SameForContains`). It assumes what the strings are
  (`TextsAssumption`): no text is empty, a day is no numeral, and no account
  has a name like `@me`, `true` or `false`. The last leaves something out:
  nothing in the code forbids such a name, and under `@me` the two readings
  would differ on it as they do on the words true and false.
* `ConnectionsProofs!TypeInvariant` and `RenewalsAreAnswered`, from `IInv`.
  `Lines` says that every token that was replaced is remembered or was
  forgotten, and that from one that is remembered on, all up to the newest are:
  the loop of `renewedAMomentAgo` then ends at the current token (`LineEnds`).
  It holds because overlaps end oldest first and a restart forgets all. `Sound`
  says what a request holds where it is; who is about to rotate holds the lock
  and the newest token, and an exchange has its code to itself (`Codes`).

*Only model-checked:* the liveness properties `Converges`, `ConnectionGoesOn`,
`TreeCatchesUp` and `GoneTabsClose`, because liveness under fairness and
`ENABLED` are out of the prover's reach. Every other property of a passing run
is a theorem, some under premises their names or statements give. No module
here declares a RECURSIVE operator.

## 5. Disagreements between text and code

With a run (quoted in `PROJECT.json` under `findings`): `oldcopy`, the reset
looks the room up before it locks it.

Seen on instances of the modules, without a run of their own. Where a property
excepts such a case, its comment says so.

* `Collab`, one outside write: `leave` drops the entry of the hub by page, and
  so the room of its successor (`OneLiveRoom`; `collab.go:333`, against the
  comment at `collab.go:309-310`).
* `PageText`: a restore within two minutes of the last revision files no copy
  of what it replaces (`history.go:96` and `117`, against
  `wiki/history-and-audit.md:110-112`, where a restore can itself be undone).
* `Membership`: the members dialog adds a member again, with a lower role, and
  asks for no other admin (`workspaces.go:888`, against
  `wiki/workspaces.md:201`, "A workspace never loses its last admin. Demoting
  one is refused"). One call does it, by the last admin about himself.
  `LastAdminStays` excepts it by name (`AddedAgain`), and holds for every other
  change.
* `PageTree`, two requests: a page created under one that is being moved to
  another workspace stays behind (`WellHoused`; `workspace_move.go:16-17`
  says that the whole subtree comes along). A page created under a parent that
  is being trashed stays live below it (`pages.go:343`). A page can be created
  in a workspace that was purged between its check and its INSERT.
* `PageTree`, tools: a page restored by the tool stays below its trashed parent
  and is purged with it (`PurgesStayInside`; `mcp.go:426` says the page
  keeps existing).
* `Membership`: the user management demotes or removes the person of a personal
  space, and the members dialog demotes him by adding him again
  (`workspaces.go:1309-1315` and `888`), though `personalOwner` calls him
  untouchable (`workspaces.go:970-975`) and changing or removing a member
  refuses it. Deleting that account then leaves a personal space with guests
  that points at nobody, and that the clean-up view does not list. The model
  takes both doors; `PersonInCharge` excepts a space while its person is put
  down through one (`Unseats` puts it into `left`, `Reseats` takes it out).
* `Membership`, two requests: two concurrent transfers leave two owners
  (`roles.go:337-338` says never); two admins demote each other; who is invited
  into a personal space between the plan and the purge of a deletion loses
  their work with it.
* `Membership`, restart inside `applyDeletion`: a personal space with guests
  stays behind, and the clean-up view, which `lifecycle_account.go:340-343`
  relies on, skips personal spaces with members.
* `Collab`: live updates can reach a connection before its replay
  (`collab.go:464-466`); a connection with a full queue is still asked for
  snapshots (`collab.go:28-29`); a viewer can be the one who is told to seed
  (`wiki/permissions.md:208`), and then nobody does; a seeder that reconnects
  can be told to seed again (`collab.go:514-515`); a compaction is stuck while
  the tab it was asked of has lost the right to write.
* `Feed`: a stream that is refused before its first word has no watchdog, and
  `EventSource` does not try again, although `App.tsx:562-563` calls the
  recovery automatic. Rows and agents are not fetched again at a reconnection,
  which Refresh forces too. A presence event that comes while the agents are
  being fetched changes nothing. Of two answers to `loadPages` the later one
  stays, whichever was asked first. A failed reload leaves the old list.
* `Tabs`: a row that was looked up while it lived keeps its tab after it is
  purged; with no live page left, the landing puts back a tab that was filtered
  out; two handlers between two drawings can bring a closed tab back, or leave
  the active page without one; a page that has been created is gone to in
  whichever tab is active when the answer comes.
* `Filters` (`KnownToDiffer`): the words true and false on a property that is
  no checkbox, a box stored unticked under *is empty*, *less than* for a cell
  with no value, and *contains* where the text or what is looked for has a
  capital beyond A to Z are read differently by the server and the browser. A
  row *Ärger* is not sent for *contains ärger* (`collections.go:378-380`, a
  LIKE of SQLite, which folds the letters of ASCII only), though the browser
  would show it (`collectionFilters.ts:86-91`).
* `Database`: the Properties dialog sends both halves as they were when it was
  opened, and the tools write both back, although `CollectionView.tsx:463-466`
  says that only the half that changed is sent. `loadConfig` has no epoch: an
  older answer can follow a newer one.
* `Database`: a take-back compares and writes in two statements, and writes all
  properties of the row (`audit.go:341` and `374`): an edit in between is lost.
* `Connections`: a platform that disconnects with a refresh token another of
  its machines has just rotated, or after the overlap, ends nothing: the
  revocation looks for the current token only (`oauth_provider.go:603`, against
  "gone at once" at 595-597). An exchange or a renewal whose connection is
  ended before its access token is written is answered 500 rather than refused.
  And, outside the model, a SELECT that fails is answered like an unknown token
  (451, 482), which a platform takes for the end of the connection.

## 6. What is not modelled

Conversions (Markdown, CSV, HTML, PDF text, formulas), static assets, mail,
backups, imports and exports, public pages and forms, settings, the protocol of
the tools, signing in, the desktop shell and the drawing of the interface keep
no state that several actors race for, or are input and output;
`PROJECT.json` lists each with its reason. Inside the modelled parts: the page
text knows no deletion of text, the page tree no visibility and positions, the
membership no sessions, tokens and emergency access, the feed no events that
only draw a notice and no time stamps of check-ins, the tabs no switching of
workspaces, the database no options, formulas, relations and rollups, the
connections no scopes, no registration of clients, no second exchange of a code
and no revocation by access token.

## 7. The plan

Done: the eight components above, the first refinement (`Feed` to `Mirror`),
and theorems about all of them, which state every property of a run that is
not a liveness property.

1. `SearchIndex`: `reindexPage` as statements of concurrent requests, with the
   rebuild at startup; the index of a page is that of its last text.
2. `Tunnel`: start, stop and the supervisor over one process slot.
3. `Webhooks`: deliveries that record their results out of order.
4. `SharedDoc`, the document every tab agrees on, and a page that keeps every
   text it was given: abstract specifications that `Collab` and `PageText` are
   to implement; the same for the owner's chair, which `Membership` implements.
5. A composition of `Collab` and `PageText`, for the two hazards that lie
   between them (an editor that opens a blank document, a page trashed between
   the check and the join), and of `Feed` with `Tabs`.
6. Proofs: the refinements of 4.
