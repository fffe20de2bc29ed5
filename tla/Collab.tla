------------------------------- MODULE Collab -------------------------------
(***************************************************************************)
(* The realtime relay of one page: server/collab.go together with the      *)
(* browser's provider, web/src/collab.ts.                                  *)
(*                                                                         *)
(* The server never reads the CRDT.  It keeps a snapshot (yjs_state) and a *)
(* log of updates (yjs_updates), replays both to whoever joins, relays     *)
(* every new update to the other connections, and now and then asks one    *)
(* client for a snapshot that replaces the log.  Writes from outside the   *)
(* editor (REST, MCP, restore, import) throw the document away.            *)
(*                                                                         *)
(* Abstracted: a Yjs document is the set of update ids merged into it (the *)
(* CRDT join is set union), awareness frames and pings are left out (see   *)
(* Presence), room.epoch is left out because nothing reads it.  What is    *)
(* kept is every critical section: each action below is one region under   *)
(* room.mu / hub.mu, one SQL statement, or one event handler of the tab.   *)
(***************************************************************************)
EXTENDS Integers, Sequences, FiniteSets

CONSTANTS
  Tabs,               \* browser tabs that can have the page open
  Viewers,            \* those whose account may only read the page, from the start
  Writers,            \* handlers that replace or trash the page
  Conns,              \* connection slots (one WebSocket each, reused)
  Nil,                \* a nil *collabConn, and no tab
  MaxRooms,           \* room objects the hub can have alive at once
  outBuffer,          \* capacity of an outbound queue beyond the stored log
  compactThreshold,   \* log rows that make the server ask for a snapshot
  MaxUpdates,         \* bound: updates the tabs make (edits and seeds)
  MaxWrites,          \* bound: writes from outside the editor
  MaxTrash,           \* bound: times the page is trashed
  MaxFaults,          \* bound: network drops, restarts, closed tabs, lost rights
  MaxDiskFaults       \* bound: statements the disk refuses

ASSUME CollabAssumption ==
  /\ Nil \notin Conns /\ Nil \notin Tabs
  /\ Viewers \subseteq Tabs
  /\ MaxRooms \in Nat \ {0}
  /\ outBuffer \in Nat \ {0}
  /\ compactThreshold \in Nat \ {0}
  /\ MaxUpdates \in Nat /\ MaxWrites \in Nat
  /\ MaxTrash \in Nat /\ MaxFaults \in Nat /\ MaxDiskFaults \in Nat

NoRoom == 0
Rooms == 1 .. MaxRooms
Updates == 1 .. MaxUpdates

VARIABLES
  docGen,      \* pages.doc_gen
  trashed,     \* pages.trashed_at IS NOT NULL
  yjsState,    \* the row of yjs_state: [have, seq, doc]
  yjsUpdates,  \* the rows of yjs_updates: seq -> set of update ids
  hub,         \* collabHub.rooms[page]
  rooms,       \* the collabRoom objects
  conn,        \* the collabConn objects, their goroutines and their socket
  tab,         \* the SaltProvider of each tab
  writer,      \* the handlers of outside writes and of trashing, between steps
  mayRead,     \* tabs whose account may read the page (canReadReq)
  mayWrite,    \* tabs whose account may write the page (canWriteReq)
  edits,       \* how many updates were made so far
  seeds,       \* which of them seeded the document from pages.content
  bornIn,      \* the generation of the tab that made each update
  stored,      \* what was committed to the log and not reset since
  used         \* how much of each bound was used

dbVars == <<docGen, trashed, yjsState, yjsUpdates, mayRead>>
historyVars == <<edits, seeds, bornIn>>
vars == <<docGen, trashed, yjsState, yjsUpdates, mayRead, hub, rooms, conn, tab,
          writer, mayWrite, edits, seeds, bornIn, stored, used>>

-----------------------------------------------------------------------------
(* Frames.  Server to client: hello, update, synced, snapshotRequest.      *)
(* Client to server: update, snapshot.                                     *)

Hello(new) == [type |-> "hello", new |-> new]
Update(s) == [type |-> "update", doc |-> s]
Synced == [type |-> "synced"]
SnapshotRequest(n) == [type |-> "snapshotRequest", seq |-> n]
Snapshot(n, s) == [type |-> "snapshot", seq |-> n, doc |-> s]

OutFrames ==
  [type : {"hello"}, new : BOOLEAN] \cup [type : {"update"}, doc : SUBSET Updates]
    \cup [type : {"synced"}] \cup [type : {"snapshotRequest"}, seq : Nat]
InFrames ==
  [type : {"update"}, doc : SUBSET Updates]
    \cup [type : {"snapshot"}, seq : Nat, doc : SUBSET Updates]

NewRoom == [conns |-> {}, loaded |-> FALSE, seq |-> -1, pending |-> 0,
            compacting |-> FALSE, compactConn |-> Nil,
            seeded |-> FALSE, seedConn |-> Nil]

FreeConn == [st |-> "free", tab |-> Nil, gen |-> 0, room |-> NoRoom, cap |-> 0,
             out |-> <<>>, inq |-> <<>>, done |-> FALSE, closed |-> FALSE,
             code |-> "other", kicked |-> FALSE]

NewTab(g) == [open |-> TRUE, gen |-> g, conn |-> Nil, doc |-> {},
              everSynced |-> FALSE, isNew |-> FALSE, seed |-> FALSE]

ClosedTab == [NewTab(0) EXCEPT !.open = FALSE]

NoState == [have |-> FALSE, seq |-> 0, doc |-> {}]
IdleWriter == [pc |-> "idle", room |-> NoRoom]

(* The log is kept in the order of its primary key, as ORDER BY seq reads  *)
(* it: rows with seq <= n are its first UpTo(n) rows.                      *)
UpTo(n) == Cardinality({i \in DOMAIN yjsUpdates : yjsUpdates[i].seq <= n})
HasSeq(n) == \E i \in DOMAIN yjsUpdates : yjsUpdates[i].seq = n

\* (mutant) A room that loads its counter from the snapshot alone.
NewestSeqOfSnapshot == yjsState.seq

NewestSeq == IF yjsUpdates = <<>> THEN yjsState.seq
             ELSE yjsUpdates[Len(yjsUpdates)].seq

\* INSERT INTO yjs_updates, and DELETE ... WHERE seq <= n.
LogWith(n, s) ==
  SubSeq(yjsUpdates, 1, UpTo(n)) \o <<[seq |-> n, doc |-> s]>>
    \o SubSeq(yjsUpdates, UpTo(n) + 1, Len(yjsUpdates))

\* (mutant) A compaction that deletes the rows added during the round trip too.
LogAfterAll(n) == <<>>

LogAfter(n) == SubSeq(yjsUpdates, UpTo(n) + 1, Len(yjsUpdates))

\* Every update a pair of snapshot and log holds, and what the database holds.
Merged(state, log) == state.doc \cup UNION {log[i].doc : i \in DOMAIN log}
Kept == Merged(yjsState, yjsUpdates)

\* (mutant) A join that is sent the snapshot but not the log behind it.
ReplaySnapshotOnly == IF yjsState.have THEN <<Update(yjsState.doc)>> ELSE <<>>

\* What one join is sent: the snapshot, if any, then the log.
Replay ==
  (IF yjsState.have THEN <<Update(yjsState.doc)>> ELSE <<>>)
    \o [i \in DOMAIN yjsUpdates |-> Update(yjsUpdates[i].doc)]

-----------------------------------------------------------------------------
(* collabConn.enqueue.  With room in the queue and c.done open the frame   *)
(* is queued; with a full queue the connection is shut down and the frame  *)
(* is lost; once c.done is closed and there is room again, Go's select may *)
(* take either branch.                                                     *)

CanTake(k) == Len(conn[k].out) < conn[k].cap
MayRefuse(k) == conn[k].done \/ ~CanTake(k)

Queued(c, m) == [c EXCEPT !.out = Append(@, m)]
Shutdown(c) == [c EXCEPT !.done = TRUE]

\* The sets of connections in `to` that may take a broadcast frame.
Takers(to) ==
  {acc \in SUBSET to : /\ \A k \in acc : CanTake(k)
                       /\ \A k \in to \ acc : MayRefuse(k)}

Broadcast(to, acc, m) ==
  [k \in Conns |-> IF k \in acc THEN Queued(conn[k], m)
                   ELSE IF k \in to THEN Shutdown(conn[k]) ELSE conn[k]]

\* Queue as much of fs as fits; the first frame that does not ends the connection.
QueuedAll(c, fs) ==
  LET left == c.cap - Len(c.out)
  IN IF Len(fs) <= left THEN [c EXCEPT !.out = @ \o fs]
     ELSE Shutdown([c EXCEPT !.out = @ \o SubSeq(fs, 1, left)])

\* A shutdown with code 4001; a connection already shut down keeps its code.
Reset4001(c) == IF c.done THEN [c EXCEPT !.kicked = TRUE]
                ELSE [c EXCEPT !.done = TRUE, !.code = "reset", !.kicked = TRUE]

\* Frames the tab sends on its socket; gone if the socket is not open.
SendOn(cs, k, fs) ==
  IF k = Nil \/ cs[k].closed THEN cs ELSE [cs EXCEPT ![k].inq = @ \o fs]

InServer(k) == conn[k].st \in {"accepted", "joined", "open", "refused"}
InRoom(k) == conn[k].st \in {"joined", "open", "refused"}
Owned(k) == \E t \in Tabs : tab[t].conn = k

\* A connection slot is reusable once the server and the tab are both done.
Released(k, code) ==
  IF Owned(k) THEN [FreeConn EXCEPT !.st = "gone", !.tab = conn[k].tab,
                                    !.done = TRUE, !.closed = TRUE, !.code = code]
  ELSE FreeConn

Init ==
  /\ docGen = 0 /\ trashed = FALSE
  /\ yjsState = NoState /\ yjsUpdates = <<>>
  /\ hub = NoRoom /\ rooms = [r \in Rooms |-> NewRoom]
  /\ conn = [k \in Conns |-> FreeConn]
  /\ tab = [t \in Tabs |-> ClosedTab]
  /\ writer = [w \in Writers |-> IdleWriter]
  /\ mayRead = Tabs /\ mayWrite = Tabs \ Viewers
  /\ edits = 0 /\ seeds = {} /\ bornIn = [u \in Updates |-> 0]
  /\ stored = {} /\ used = [trash |-> 0, fault |-> 0, disk |-> 0]

-----------------------------------------------------------------------------
(* handleCollab, up to the read loop.                                      *)

\* The checks (whoever may not read the page, and everybody while it is in the
\* trash, is answered 404 and tries again), the upgrade, the count of stored
\* updates that sizes the queue, and the goroutines of the connection.  The tab
\* names its generation.
Dial(t, k) ==
  /\ tab[t].open /\ tab[t].conn = Nil
  /\ t \in mayRead /\ ~trashed
  /\ conn[k].st = "free"
  /\ conn' = [conn EXCEPT ![k] = [FreeConn EXCEPT !.st = "accepted", !.tab = t, !.gen = tab[t].gen,
                                  !.cap = outBuffer + Len(yjsUpdates)]]
  /\ tab' = [tab EXCEPT ![t].conn = k]
  /\ UNCHANGED <<dbVars, hub, rooms, writer, mayWrite, historyVars, stored, used>>

\* A room object nothing refers to any more.
Unreferenced(r) ==
  /\ r # hub /\ \A w \in Writers : writer[w].room # r
  /\ \A k \in Conns : InRoom(k) => conn[k].room # r

\* hub.join: get or create the room and become a member, under hub.mu.
Join(k) ==
  /\ conn[k].st = "accepted"
  /\ \E r \in Rooms :
       /\ IF hub # NoRoom THEN r = hub
          ELSE Unreferenced(r) /\ \A q \in Rooms : Unreferenced(q) => r <= q
       /\ hub' = r
       /\ rooms' = [rooms EXCEPT ![r] =
                      [(IF hub # NoRoom THEN rooms[r] ELSE NewRoom) EXCEPT
                         !.conns = @ \cup {k}]]
       /\ conn' = [conn EXCEPT ![k].st = "joined", ![k].room = r]
  /\ UNCHANGED <<dbVars, tab, writer, mayWrite, historyVars, stored, used>>

\* Under room.mu: the generation the tab named is not the current one.
RefuseStale(k) ==
  /\ conn[k].st = "joined" /\ conn[k].gen # docGen
  /\ conn' = [conn EXCEPT ![k].st = "refused"]
  /\ UNCHANGED <<dbVars, hub, rooms, tab, writer, mayWrite, historyVars, stored, used>>

\* (mutant) A second joiner is told to seed while the first one still seeds.
FindsNewAgain(R) == ~yjsState.have /\ yjsUpdates = <<>> /\ ~R.seeded

\* Whether this joiner finds a document nobody has written or is about to seed.
FindsNew(R) == /\ ~yjsState.have /\ yjsUpdates = <<>>
               /\ ~R.seeded /\ R.seedConn = Nil

\* What the first joiner of a room reads from the database.
Loaded(R) == IF R.loaded THEN R
             ELSE [R EXCEPT !.loaded = TRUE, !.seq = NewestSeq,
                            !.pending = Len(yjsUpdates)]

\* Under room.mu: load the document and queue the replay.
Load(k) ==
  /\ conn[k].st = "joined" /\ conn[k].gen = docGen
  /\ LET r == conn[k].room
         new == FindsNew(rooms[r])
     IN /\ rooms' = [rooms EXCEPT ![r] =
                       [Loaded(rooms[r]) EXCEPT !.seedConn = IF new THEN k ELSE @]]
        /\ conn' = [conn EXCEPT ![k] =
                      [QueuedAll(@, <<Hello(new)>> \o Replay \o <<Synced>>)
                         EXCEPT !.st = "open"]]
  /\ UNCHANGED <<dbVars, hub, tab, writer, mayWrite, historyVars, stored, used>>

-----------------------------------------------------------------------------
(* The read loop: one frame at a time, in the order the tab sent them.     *)

Reads(k, type) ==
  /\ conn[k].st = "open" /\ ~conn[k].closed
  /\ conn[k].inq # <<>> /\ Head(conn[k].inq).type = type

\* (mutant) A frame of a connection that a reset emptied out is accepted.
IsMemberAlways(k) == TRUE

IsMember(k) == k \in rooms[conn[k].room].conns
Taken(c) == [c EXCEPT !.inq = Tail(@)]

\* A frame the loop drops: the account may not write the page any more, the
\* update comes from a connection a reset emptied out of the room, or the
\* snapshot was not asked for (any more).
DropFrame(k) ==
  /\ \/ Reads(k, "update") /\ ~IsMember(k)
     \/ /\ Reads(k, "snapshot")
        /\ LET R == rooms[conn[k].room]
           IN R.compactConn # k \/ ~R.compacting
     \/ /\ Reads(k, "update") \/ Reads(k, "snapshot")
        /\ conn[k].tab \notin mayWrite
  /\ conn' = [conn EXCEPT ![k] = Taken(@)]
  /\ UNCHANGED <<dbVars, hub, rooms, tab, writer, mayWrite, historyVars, stored, used>>

Fault == used.fault < MaxFaults /\ used' = [used EXCEPT !.fault = @ + 1]
DiskFault == used.disk < MaxDiskFaults /\ used' = [used EXCEPT !.disk = @ + 1]

\* persistUpdate, when the INSERT fails: on the primary key because another
\* room wrote this seq, or for a reason of the disk (a fault).
PersistFails(k) ==
  LET r == conn[k].room IN
  /\ Reads(k, "update") /\ IsMember(k) /\ conn[k].tab \in mayWrite
  /\ IF HasSeq(rooms[r].seq + 1) THEN UNCHANGED used ELSE DiskFault
  /\ rooms' = [rooms EXCEPT ![r].seeded = TRUE]
  /\ conn' = [conn EXCEPT ![k] = Taken(@)]
  /\ UNCHANGED <<dbVars, hub, tab, writer, mayWrite, historyVars, stored>>

\* (mutant) An update is relayed only while the room compacts.
OthersWhileCompacting(R, k) == IF R.compacting THEN R.conns \ {k} ELSE {}

\* Whom an update of k is relayed to.
Others(R, k) == R.conns \ {k}

\* persistUpdate: seq, INSERT and broadcast are one step under room.mu, and
\* the request for a snapshot is queued to the sender behind its own update.
PersistUpdate(k) ==
  LET r == conn[k].room
      R == rooms[r]
      m == Head(conn[k].inq)
      n == R.seq + 1
      asks == R.pending + 1 >= compactThreshold /\ ~R.compacting
      others == Others(R, k)
  IN
  /\ Reads(k, "update") /\ IsMember(k) /\ conn[k].tab \in mayWrite
  /\ ~HasSeq(n)
  /\ yjsUpdates' = LogWith(n, m.doc)
  /\ stored' = stored \cup m.doc
  /\ rooms' = [rooms EXCEPT ![r] =
                 [R EXCEPT !.seeded = TRUE, !.seq = n, !.pending = @ + 1,
                           !.compacting = @ \/ asks,
                           !.compactConn = IF asks THEN k ELSE @]]
  /\ \E acc \in Takers(others) :
       \E got \in {b \in BOOLEAN : (b => asks /\ CanTake(k)) /\ (~b => ~asks \/ MayRefuse(k))} :
         LET sent == Broadcast(others, acc, m)
             c == Taken(conn[k])
         IN conn' = [sent EXCEPT ![k] =
                       IF ~asks THEN c
                       ELSE IF got THEN Queued(c, SnapshotRequest(n)) ELSE Shutdown(c)]
  /\ UNCHANGED <<docGen, trashed, yjsState, mayRead, hub, tab, writer, mayWrite,
                 historyVars, used>>

\* applySnapshot reaches the database: the snapshot is written for rows <= seq.
Compacts(k) ==
  LET R == rooms[conn[k].room] IN
  /\ Reads(k, "snapshot") /\ conn[k].tab \in mayWrite
  /\ R.compactConn = k /\ R.compacting

\* (mutant) The room goes on waiting for a compaction that is over.
StillCompacting(R) == R

NotCompacting(R) == [R EXCEPT !.compacting = FALSE, !.compactConn = Nil]

\* (mutant) The rows covered by the snapshot are subtracted, not counted.
RemainingSubtracted(R, n) == R.pending - n

\* The rows a compaction up to n leaves in the log, counted again.
Remaining(R, n) == Len(LogAfter(n))

\* applySnapshot gives up: the named seq is out of range, or the upsert fails.
SnapshotFails(k) ==
  LET r == conn[k].room
      n == Head(conn[k].inq).seq
  IN
  /\ Compacts(k)
  /\ IF n <= 0 \/ n > rooms[r].seq THEN UNCHANGED used ELSE DiskFault
  /\ rooms' = [rooms EXCEPT ![r] = NotCompacting(@)]
  /\ conn' = [conn EXCEPT ![k] = Taken(@)]
  /\ UNCHANGED <<dbVars, hub, tab, writer, mayWrite, historyVars, stored>>

\* applySnapshot: upsert, DELETE of the covered rows, count of what remains.
ApplySnapshot(k) ==
  LET r == conn[k].room
      m == Head(conn[k].inq)
  IN
  /\ Compacts(k) /\ m.seq > 0 /\ m.seq <= rooms[r].seq
  /\ yjsState' = [have |-> TRUE, seq |-> m.seq, doc |-> m.doc]
  /\ yjsUpdates' = LogAfter(m.seq)
  /\ rooms' = [rooms EXCEPT ![r] = [NotCompacting(@) EXCEPT
                                      !.pending = Remaining(rooms[r], m.seq)]]
  /\ conn' = [conn EXCEPT ![k] = Taken(@)]
  /\ UNCHANGED <<docGen, trashed, mayRead, hub, tab, writer, mayWrite, historyVars,
                 stored, used>>

-----------------------------------------------------------------------------
(* The end of a connection.                                                *)

\* The goroutine of shutdown closes the socket; frames in flight are lost.
CloseSocket(k) ==
  /\ InServer(k) /\ conn[k].done /\ ~conn[k].closed
  /\ conn' = [conn EXCEPT ![k].closed = TRUE]
  /\ UNCHANGED <<dbVars, hub, rooms, tab, writer, mayWrite, historyVars, stored, used>>

Cut(c) == [c EXCEPT !.done = TRUE, !.closed = TRUE, !.code = "other"]

\* The network breaks under a tab that is still there.
NetDrop(k) ==
  /\ InServer(k) /\ ~conn[k].closed /\ Owned(k)
  /\ Fault
  /\ conn' = [conn EXCEPT ![k] = Cut(@)]
  /\ UNCHANGED <<dbVars, hub, rooms, tab, writer, mayWrite, historyVars, stored>>

\* The ping loop or the read loop finds out that the tab is gone.
PeerGone(k) ==
  /\ InServer(k) /\ ~conn[k].closed /\ ~Owned(k)
  /\ conn' = [conn EXCEPT ![k] = Cut(@)]
  /\ UNCHANGED <<dbVars, hub, rooms, tab, writer, mayWrite, historyVars, stored, used>>

\* (mutant) The hub drops the room with its last but one member.
IsEmptyEarly(R) == Cardinality(R.conns) <= 1

IsEmpty(R) == R.conns = {}

\* hub.leave: the read loop ended, or the join was refused as stale.  If the
\* room of this connection is empty, the hub drops the page's room.
Leave(k) ==
  LET r == conn[k].room
      R == rooms[r]
      left == [R EXCEPT
                 !.conns = @ \ {k},
                 !.seedConn = IF @ = k /\ ~R.seeded THEN Nil ELSE @,
                 !.compacting = @ /\ R.compactConn # k,
                 !.compactConn = IF @ = k THEN Nil ELSE @]
      hub2 == IF IsEmpty(left) THEN NoRoom ELSE hub
      garbage == /\ r # hub2 /\ \A w \in Writers : writer[w].room # r
                 /\ \A j \in Conns \ {k} : InRoom(j) => conn[j].room # r
  IN
  /\ \/ conn[k].st = "open" /\ conn[k].closed
     \/ conn[k].st = "refused"
  /\ hub' = hub2
  /\ rooms' = [rooms EXCEPT ![r] = IF garbage THEN NewRoom ELSE left]
  /\ conn' = [conn EXCEPT ![k] =
                Released(k, IF @.st = "refused" /\ ~@.done THEN "reset" ELSE @.code)]
  /\ UNCHANGED <<dbVars, tab, writer, mayWrite, historyVars, stored, used>>

-----------------------------------------------------------------------------
(* The tab: SaltProvider and the editor above it.                          *)

\* The page is opened (or mounted again): GET /api/pages/{id} brings the body
\* and the generation, and the document starts empty.
Mount(t) ==
  /\ ~tab[t].open /\ t \in mayRead
  /\ tab' = [tab EXCEPT ![t] = NewTab(docGen)]
  /\ UNCHANGED <<dbVars, hub, rooms, conn, writer, mayWrite, historyVars, stored, used>>

\* (mutant) A reconnect that keeps the offline edits to itself.
PushNothing(t) == <<>>

\* What a tab sends when a sync is complete: after a reconnect, its whole state.
PushOnSync(t) == IF tab[t].everSynced THEN <<Update(tab[t].doc)>> ELSE <<>>

\* onmessage, for the oldest frame of the outbound queue.  Frames of a socket
\* the tab has given up reach nobody.
Recv(k) ==
  LET m == Head(conn[k].out)
      t == conn[k].tab
      popped == [conn EXCEPT ![k].out = Tail(@)]
  IN
  /\ InServer(k) /\ ~conn[k].closed /\ conn[k].out # <<>>
  /\ \/ /\ ~Owned(k)
        /\ conn' = popped /\ UNCHANGED tab
     \/ /\ Owned(k) /\ m.type = "hello"
        /\ tab' = [tab EXCEPT ![t].isNew = IF tab[t].everSynced THEN @ ELSE m.new]
        /\ conn' = popped
     \/ /\ Owned(k) /\ m.type = "update"
        /\ tab' = [tab EXCEPT ![t].doc = @ \cup m.doc]
        /\ conn' = popped
     \/ /\ Owned(k) /\ m.type = "synced"
        /\ tab' = [tab EXCEPT ![t].everSynced = TRUE,
                              ![t].seed = @ \/ (tab[t].isNew /\ ~tab[t].everSynced)]
        /\ conn' = SendOn(popped, k, PushOnSync(t))
     \/ /\ Owned(k) /\ m.type = "snapshotRequest"
        /\ conn' = SendOn(popped, k, <<Snapshot(m.seq, tab[t].doc)>>) /\ UNCHANGED tab
  /\ UNCHANGED <<dbVars, hub, rooms, writer, mayWrite, historyVars, stored, used>>

\* A new update of tab t, merged into its document and sent.
Makes(t) ==
  /\ edits < MaxUpdates
  /\ edits' = edits + 1
  /\ bornIn' = [bornIn EXCEPT ![edits + 1] = tab[t].gen]
  /\ tab' = [tab EXCEPT ![t].doc = @ \cup {edits + 1}, ![t].seed = FALSE]
  /\ conn' = SendOn(conn, tab[t].conn, <<Update({edits + 1})>>)

\* The effect of the editor that seeds an empty document from pages.content.
Seed(t) ==
  /\ tab[t].open /\ tab[t].seed
  /\ IF tab[t].doc = {}
     THEN Makes(t) /\ seeds' = seeds \cup {edits + 1}
     ELSE tab' = [tab EXCEPT ![t].seed = FALSE] /\ UNCHANGED <<conn, edits, bornIn, seeds>>
  /\ UNCHANGED <<dbVars, hub, rooms, writer, mayWrite, stored, used>>

\* Somebody types; the editor is editable once the first sync is done, online
\* or not.
Edit(t) ==
  /\ tab[t].open /\ tab[t].everSynced /\ ~tab[t].seed /\ t \notin Viewers
  /\ Makes(t)
  /\ UNCHANGED <<dbVars, hub, rooms, writer, mayWrite, seeds, stored, used>>

\* The slot of a connection its tab lets go of.
LetGo(k) == [conn EXCEPT ![k] = IF @.st = "gone" THEN FreeConn ELSE @]

\* onclose: 4001 mounts the page again, anything else reconnects.
OnClose(t) ==
  LET k == tab[t].conn IN
  /\ k # Nil /\ conn[k].closed
  /\ tab' = [tab EXCEPT ![t] = IF conn[k].code = "reset" THEN ClosedTab
                               ELSE [@ EXCEPT !.conn = Nil]]
  /\ conn' = LetGo(k)
  /\ UNCHANGED <<dbVars, hub, rooms, writer, mayWrite, historyVars, stored, used>>

\* The watchdog gives up on a silent socket and the tab connects again; the
\* server notices later (PeerGone).
Abandon(t) ==
  LET k == tab[t].conn IN
  /\ k # Nil
  /\ Fault
  /\ tab' = [tab EXCEPT ![t].conn = Nil]
  /\ conn' = LetGo(k)
  /\ UNCHANGED <<dbVars, hub, rooms, writer, mayWrite, historyVars, stored>>

\* The tab is closed, and its document with it.
CloseTab(t) ==
  LET k == tab[t].conn IN
  /\ tab[t].open
  /\ Fault
  /\ tab' = [tab EXCEPT ![t] = ClosedTab]
  /\ conn' = IF k = Nil THEN conn ELSE LetGo(k)
  /\ UNCHANGED <<dbVars, hub, rooms, writer, mayWrite, historyVars, stored>>

-----------------------------------------------------------------------------
(* Writes from outside the editor, and the trash.                          *)

At(w, pc) == writer[w].pc = pc
Goes(w, pc, r) == writer' = [writer EXCEPT ![w] = [pc |-> pc, room |-> r]]

\* The statement that replaces pages.content and bumps doc_gen.
OutsideWrite(w) ==
  /\ At(w, "idle") /\ docGen < MaxWrites /\ ~trashed
  /\ docGen' = docGen + 1
  /\ Goes(w, "written", NoRoom)
  /\ UNCHANGED <<trashed, yjsState, yjsUpdates, mayRead, hub, rooms, conn, tab, mayWrite,
                 historyVars, stored, used>>

\* resetYjsDoc: the room is looked up under hub.mu, which is then released.
ResetLookup(w) ==
  /\ At(w, "written")
  /\ Goes(w, "reset", hub)
  /\ UNCHANGED <<dbVars, hub, rooms, conn, tab, mayWrite, historyVars, stored, used>>

\* resetYjsDoc without a room: two statements under no lock.
ResetUpdates(w) ==
  /\ At(w, "reset") /\ writer[w].room = NoRoom
  /\ yjsUpdates' = <<>>
  /\ stored' = stored \cap yjsState.doc
  /\ Goes(w, "resetState", NoRoom)
  /\ UNCHANGED <<docGen, trashed, yjsState, mayRead, hub, rooms, conn, tab, mayWrite,
                 historyVars, used>>

ResetState(w) ==
  /\ At(w, "resetState")
  /\ yjsState' = NoState
  /\ stored' = stored \cap Merged(NoState, yjsUpdates)
  /\ Goes(w, "idle", NoRoom)
  /\ UNCHANGED <<docGen, trashed, yjsUpdates, mayRead, hub, rooms, conn, tab, mayWrite,
                 historyVars, used>>

\* resetYjsDoc under room.mu: both deletes, the room back to its beginning,
\* and every member out and closed with 4001.
ResetRoom(w) ==
  LET r == writer[w].room IN
  /\ At(w, "reset") /\ r # NoRoom
  /\ yjsUpdates' = <<>> /\ yjsState' = NoState /\ stored' = {}
  /\ rooms' = [rooms EXCEPT ![r] = NewRoom]
  /\ conn' = [k \in Conns |-> IF k \in rooms[r].conns THEN Reset4001(conn[k])
                              ELSE conn[k]]
  /\ Goes(w, "idle", NoRoom)
  /\ UNCHANGED <<docGen, trashed, mayRead, hub, tab, mayWrite, historyVars, used>>

\* The page is trashed; collabHub.reset then closes its editors.
Trash(w) ==
  /\ At(w, "idle") /\ ~trashed /\ used.trash < MaxTrash
  /\ trashed' = TRUE
  /\ used' = [used EXCEPT !.trash = @ + 1]
  /\ Goes(w, "trashed", NoRoom)
  /\ UNCHANGED <<docGen, yjsState, yjsUpdates, mayRead, hub, rooms, conn, tab, mayWrite,
                 historyVars, stored>>

KickLookup(w) ==
  /\ At(w, "trashed")
  /\ Goes(w, IF hub = NoRoom THEN "idle" ELSE "kick", hub)
  /\ UNCHANGED <<dbVars, hub, rooms, conn, tab, mayWrite, historyVars, stored, used>>

KickRoom(w) ==
  LET r == writer[w].room IN
  /\ At(w, "kick")
  /\ rooms' = [rooms EXCEPT ![r] = [@ EXCEPT !.loaded = FALSE, !.conns = {}]]
  /\ conn' = [k \in Conns |-> IF k \in rooms[r].conns THEN Reset4001(conn[k])
                              ELSE conn[k]]
  /\ Goes(w, "idle", NoRoom)
  /\ UNCHANGED <<dbVars, hub, tab, mayWrite, historyVars, stored, used>>

Restore(w) ==
  /\ At(w, "idle") /\ trashed
  /\ trashed' = FALSE
  /\ UNCHANGED <<docGen, yjsState, yjsUpdates, mayRead, hub, rooms, conn, tab, writer,
                 mayWrite, historyVars, stored, used>>

-----------------------------------------------------------------------------
(* The rights of an account, and the process.                              *)

\* An account loses the right to write, which is asked for on every frame.
LosesWrite(t) ==
  /\ t \in mayWrite
  /\ UNCHANGED <<mayRead, conn>>

\* It loses the right to be here at all. When it is deactivated, dropUser closes
\* its connections; otherwise they are found out later (Recheck).
LosesRead(t) ==
  /\ t \in mayRead /\ mayRead' = mayRead \ {t}
  /\ \/ UNCHANGED conn
     \/ conn' = [k \in Conns |-> IF InRoom(k) /\ conn[k].tab = t THEN Shutdown(conn[k])
                                 ELSE conn[k]]

EndAccess(t) ==
  /\ LosesWrite(t) \/ LosesRead(t)
  /\ Fault
  /\ mayWrite' = mayWrite \ {t}
  /\ UNCHANGED <<docGen, trashed, yjsState, yjsUpdates, hub, rooms, tab, writer,
                 historyVars, stored>>

\* recheckCollabAccess, at a tick of the connection's own clock.
Recheck(k) ==
  /\ InServer(k) /\ ~conn[k].done /\ conn[k].tab \notin mayRead
  /\ conn' = [conn EXCEPT ![k] = Shutdown(@)]
  /\ UNCHANGED <<dbVars, hub, rooms, tab, writer, mayWrite, historyVars, stored, used>>

\* The process ends: what is in memory is lost, the database is not.
LosesMemory ==
  /\ hub' = NoRoom
  /\ rooms' = [r \in Rooms |-> NewRoom]
  /\ writer' = [w \in Writers |-> IdleWriter]
  /\ conn' = [k \in Conns |-> IF InServer(k) THEN Released(k, "other") ELSE conn[k]]

Restart ==
  /\ Fault
  /\ LosesMemory
  /\ UNCHANGED <<dbVars, tab, mayWrite, historyVars, stored>>

\* The process ends between the two statements of applySnapshot.
CrashInSnapshot(k) ==
  LET m == Head(conn[k].inq) IN
  /\ Compacts(k) /\ m.seq > 0 /\ m.seq <= rooms[conn[k].room].seq
  /\ Fault
  /\ yjsState' = [have |-> TRUE, seq |-> m.seq, doc |-> m.doc]
  /\ LosesMemory
  /\ UNCHANGED <<docGen, trashed, yjsUpdates, mayRead, tab, mayWrite, historyVars, stored>>

-----------------------------------------------------------------------------
ServerStep(k) ==
  \/ Join(k) \/ RefuseStale(k) \/ Load(k)
  \/ DropFrame(k) \/ PersistFails(k) \/ PersistUpdate(k)
  \/ SnapshotFails(k) \/ ApplySnapshot(k)
  \/ CloseSocket(k) \/ PeerGone(k) \/ Recheck(k) \/ Leave(k)

WriterStep(w) ==
  \/ OutsideWrite(w) \/ ResetLookup(w) \/ ResetUpdates(w) \/ ResetState(w)
  \/ ResetRoom(w) \/ Trash(w) \/ KickLookup(w) \/ KickRoom(w) \/ Restore(w)

TabStep(t) ==
  \/ Mount(t) \/ Seed(t) \/ Edit(t) \/ OnClose(t)
  \/ Abandon(t) \/ CloseTab(t) \/ EndAccess(t)

Next ==
  \/ \E k \in Conns : ServerStep(k) \/ Recv(k) \/ NetDrop(k) \/ CrashInSnapshot(k)
  \/ \E t \in Tabs : TabStep(t) \/ \E k \in Conns : Dial(t, k)
  \/ \E w \in Writers : WriterStep(w)
  \/ Restart

Spec == Init /\ [][Next]_vars

(* What goes on by itself: the handler goroutine of a connection and its   *)
(* read loop, the goroutines that write, close and ping, the event         *)
(* handlers and the reconnect timer of a tab, and a handler that has begun *)
(* an outside write.  Nobody has to type, open or close anything.          *)
Handler(k) ==
  \/ Join(k) \/ RefuseStale(k) \/ Load(k) \/ Leave(k)
  \/ DropFrame(k) \/ PersistFails(k) \/ PersistUpdate(k)
  \/ SnapshotFails(k) \/ ApplySnapshot(k)
Redial(t) == \E k \in Conns : Dial(t, k)
Resetting(w) ==
  \/ ResetLookup(w) \/ ResetUpdates(w) \/ ResetState(w) \/ ResetRoom(w)
  \/ KickLookup(w) \/ KickRoom(w)

Fairness ==
  /\ \A k \in Conns : /\ WF_vars(Handler(k)) /\ WF_vars(Recv(k))
                      /\ WF_vars(CloseSocket(k)) /\ WF_vars(PeerGone(k))
                      /\ WF_vars(Recheck(k))
  /\ \A t \in Tabs : WF_vars(OnClose(t)) /\ WF_vars(Seed(t)) /\ WF_vars(Redial(t))
  /\ \A w \in Writers : WF_vars(Resetting(w))

FairSpec == Spec /\ Fairness

-----------------------------------------------------------------------------
(* Properties.                                                             *)

RowType == [seq : Nat, doc : SUBSET Updates]
RoomType ==
  [conns : SUBSET Conns, loaded : BOOLEAN, seq : Nat \cup {-1}, pending : Nat,
   compacting : BOOLEAN, compactConn : Conns \cup {Nil},
   seeded : BOOLEAN, seedConn : Conns \cup {Nil}]
ConnType ==
  [st : {"free", "accepted", "joined", "open", "refused", "gone"},
   tab : Tabs \cup {Nil}, gen : Nat, room : Rooms \cup {NoRoom}, cap : Nat,
   out : Seq(OutFrames), inq : Seq(InFrames), done : BOOLEAN, closed : BOOLEAN,
   code : {"reset", "other"}, kicked : BOOLEAN]
TabType ==
  [open : BOOLEAN, gen : Nat, conn : Conns \cup {Nil}, doc : SUBSET Updates,
   everSynced : BOOLEAN, isNew : BOOLEAN, seed : BOOLEAN]
WriterType ==
  [pc : {"idle", "written", "reset", "resetState", "trashed", "kick"},
   room : Rooms \cup {NoRoom}]

\* The types of the variables.
TypeOK ==
  /\ docGen \in Nat /\ trashed \in BOOLEAN
  /\ yjsState \in [have : BOOLEAN, seq : Nat, doc : SUBSET Updates]
  /\ yjsUpdates \in Seq(RowType)
  /\ hub \in Rooms \cup {NoRoom}
  /\ rooms \in [Rooms -> RoomType]
  /\ conn \in [Conns -> ConnType]
  /\ tab \in [Tabs -> TabType]
  /\ writer \in [Writers -> WriterType]
  /\ mayRead \subseteq Tabs /\ mayWrite \subseteq Tabs
  /\ edits \in 0 .. MaxUpdates /\ seeds \subseteq Updates
  /\ bornIn \in [Updates -> Nat] /\ stored \subseteq Updates
  /\ used \in [trash : Nat, fault : Nat, disk : Nat]

(* Compaction never loses an update: what was committed to the log since   *)
(* the last reset is in the snapshot or in the log.  This is why a client  *)
(* asked for a snapshot at seq N must have been delivered every update     *)
(* <= N (collab.go:23-29), whatever connections come and go meanwhile.     *)
NothingLost == stored \subseteq Kept

\* What the server has queued for a connection and the tab has not seen yet.
Coming(k) == UNION {conn[k].out[i].doc :
                      i \in {j \in DOMAIN conn[k].out : conn[k].out[j].type = "update"}}

(* Nothing is missed: an open, healthy connection has been delivered, or   *)
(* is about to be delivered, every update committed so far, so an update   *)
(* committed while somebody joins is in the replay or relayed live, never  *)
(* in neither (collab.go:464-466).                                         *)
NothingMissed ==
  \A k \in Conns : \A t \in Tabs :
    conn[k].st = "open" /\ ~conn[k].done /\ tab[t].conn = k
      => stored \subseteq tab[t].doc \cup Coming(k)

(* The next seq of a room is free, so an INSERT never fails on the primary *)
(* key and no update is dropped (collab.go:605-610): the counter a room    *)
(* loaded or advanced never falls behind the rows of the database.         *)
SeqIsFree ==
  \A r \in Rooms : rooms[r].loaded /\ rooms[r].conns # {} => ~HasSeq(rooms[r].seq + 1)

(* One live room per page: every member is in the room the hub knows, or   *)
(* edits would not be relayed between editors of one page (the promise of  *)
(* join and leave, collab.go:293-294 and 309-310).                         *)
OneLiveRoom == \A r \in Rooms : rooms[r].conns # {} => r = hub

(* A page's body enters the live document of one generation once           *)
(* (collab.go:514-515), as long as no connection breaks: a seeder that     *)
(* comes back after another was told to seed adds the body again.          *)
SeededOnce ==
  used.fault = 0 => Cardinality({u \in Kept \cap seeds : bornIn[u] = docGen}) <= 1

Quiet == \A k \in Conns : /\ conn[k].st \in {"free", "open"}
                          /\ conn[k].out = <<>> /\ conn[k].inq = <<>>
                          /\ ~conn[k].done
Connected(t) == tab[t].open /\ tab[t].conn # Nil /\ tab[t].everSynced /\ ~tab[t].seed

(* Whenever nothing is under way, all who have the page open and may write *)
(* see the same text, and the database holds it in its snapshot or in its  *)
(* log: a tab may be closed, and the server stopped, without losing work   *)
(* (persistUpdate and applySnapshot, collab.go:595-653). What somebody     *)
(* without that right typed or seeded stays in his own tab (545-562).      *)
SameForAll ==
  Quiet => \A t \in mayWrite : Connected(t) =>
             /\ tab[t].doc \subseteq Kept
             /\ \A u \in mayWrite : Connected(u) => tab[t].doc = tab[u].doc

(* A compaction that is under way has somebody at work on it, so that the  *)
(* log will be compacted again (collab.go:615-653): the client it was      *)
(* asked of is still in the room, and is about to hear of it, or to answer,*)
(* or to leave. Only one that has lost the right to write since is stuck.  *)
CompactionGoesOn ==
  \A r \in Rooms : rooms[r].compacting =>
    LET k == rooms[r].compactConn
        Holds(frames, type) == \E j \in DOMAIN frames : frames[j].type = type
    IN  /\ k \in rooms[r].conns
        /\ \/ conn[k].done \/ conn[k].closed
           \/ conn[k].tab \notin mayWrite
           \/ \A t \in Tabs : tab[t].conn # k
           \/ Holds(conn[k].out, "snapshotRequest")
           \/ Holds(conn[k].inq, "snapshot")

(* A connection a reset has emptied out of its room adds nothing to the    *)
(* log any more, however long its frames were under way (collab.go:31-35). *)
KickedIsMute ==
  [][\A k \in Conns :
       conn[k].kicked /\ Len(conn'[k].inq) < Len(conn[k].inq) /\ conn'[k].st = "open"
         => Len(yjsUpdates') <= Len(yjsUpdates)]_vars

(* Once no outside write is between its UPDATE and its reset, an editor    *)
(* that names the current generation and is not being closed holds nothing *)
(* of an older document: its autosave, which the server accepts, cannot    *)
(* put the old text back over the new (docgen.go:38-40).                   *)
NoOldCopyPasses ==
  (\A w \in Writers : writer[w].pc = "idle")
    => \A t \in Tabs : tab[t].gen = docGen /\ tab[t].conn # Nil /\ ~conn[tab[t].conn].done
                         => \A u \in tab[t].doc : bornIn[u] = docGen

(* Whatever was dropped, cut or restarted, every open editor that may still *)
(* read the page ends up with the text of the database, and the database   *)
(* with what those wrote who may still write it: the relay converges       *)
(* (wiki/collaboration.md, "Losing the connection"). Whoever may not read  *)
(* it any more ends up without a connection and stays so (collab.go:426,   *)
(* 664-680); what he wrote offline stays in his tab.                       *)
Converges ==
  <>[](\A t \in Tabs : tab[t].open =>
         /\ t \in mayRead => Kept \subseteq tab[t].doc
         /\ t \in mayWrite => tab[t].doc \subseteq Kept
         /\ t \notin mayRead => tab[t].conn = Nil)
=============================================================================
