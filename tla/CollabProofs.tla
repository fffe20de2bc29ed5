---------------------------- MODULE CollabProofs ----------------------------
(***************************************************************************)
(* The theorems about Collab, for any number of tabs, connections, rooms   *)
(* and writers and any bounds: what it holds first, and then what its      *)
(* queues hold.                                                            *)
(*                                                                         *)
(* Type correctness is the beginning.  TypeOK is not inductive by itself:  *)
(* that persistUpdate finds a room to count in, and that a frame finds a   *)
(* tab, needs Located.  One lemma per action; the lemmas before them say   *)
(* what the operators on connections, queues and the log return.           *)
(***************************************************************************)
EXTENDS Collab, TLAPS, SequenceTheorems, FiniteSetTheorems

(* Where the code dereferences something: a connection past join has a     *)
(* room, a used slot a tab, and a handler about to kick has a room.        *)
Located ==
  /\ \A k \in Conns : InRoom(k) => conn[k].room \in Rooms
  /\ \A k \in Conns : conn[k].st # "free" => conn[k].tab \in Tabs
  /\ \A w \in Writers : writer[w].pc = "kick" => writer[w].room \in Rooms

TypeInv == TypeOK /\ Located

LEMMA FreeConnType == FreeConn \in ConnType
BY CollabAssumption DEF FreeConn, ConnType

LEMMA NewTabType == ASSUME NEW g \in Nat PROVE NewTab(g) \in TabType
BY DEF NewTab, TabType

LEMMA ClosedTabType == ClosedTab \in TabType
BY DEF ClosedTab, NewTab, TabType

LEMMA NewRoomType == NewRoom \in RoomType
BY DEF NewRoom, RoomType

LEMMA OutType ==
  ASSUME NEW c \in ConnType
  PROVE  /\ c.out \in Seq(OutFrames)
         /\ \A s \in Seq(OutFrames) : [c EXCEPT !.out = s] \in ConnType
BY DEF ConnType

LEMMA InqType ==
  ASSUME NEW c \in ConnType
  PROVE  /\ c.inq \in Seq(InFrames)
         /\ \A s \in Seq(InFrames) : [c EXCEPT !.inq = s] \in ConnType
BY DEF ConnType

LEMMA QueuedType ==
  ASSUME NEW c \in ConnType, NEW m \in OutFrames
  PROVE  Queued(c, m) \in ConnType
BY AppendProperties, OutType DEF Queued

LEMMA ShutdownType == ASSUME NEW c \in ConnType PROVE Shutdown(c) \in ConnType
BY DEF Shutdown, ConnType

LEMMA QueuedAllType ==
  ASSUME NEW c \in ConnType, NEW fs \in Seq(OutFrames)
  PROVE  QueuedAll(c, fs) \in ConnType
<1>1. CASE Len(fs) <= c.cap - Len(c.out)
  <2>1. c.out \o fs \in Seq(OutFrames)
    BY OutType, ConcatProperties
  <2> QED BY <1>1, <2>1, OutType DEF QueuedAll
<1>2. CASE ~(Len(fs) <= c.cap - Len(c.out))
  <2> DEFINE left == c.cap - Len(c.out)
  <2>0. left \in Int /\ left < Len(fs)
    BY <1>2 DEF ConnType
  <2>1. SubSeq(fs, 1, left) \in Seq(OutFrames)
    BY <2>0
  <2>2. c.out \o SubSeq(fs, 1, left) \in Seq(OutFrames)
    BY <2>1, OutType, ConcatProperties
  <2>3. [c EXCEPT !.out = @ \o SubSeq(fs, 1, left)] \in ConnType
    BY <2>2, OutType
  <2> QED BY <1>2, <2>3, ShutdownType DEF QueuedAll
<1> QED BY <1>1, <1>2

LEMMA TakenType ==
  ASSUME NEW c \in ConnType, c.inq # <<>>
  PROVE  /\ Taken(c) \in ConnType
         /\ Head(c.inq) \in InFrames
<1>1. c.inq \in Seq(InFrames)
  BY InqType
<1>2. Tail(c.inq) \in Seq(InFrames) /\ Head(c.inq) \in InFrames
  BY <1>1, HeadTailProperties
<1> QED BY <1>2, InqType DEF Taken

LEMMA Reset4001Type == ASSUME NEW c \in ConnType PROVE Reset4001(c) \in ConnType
BY DEF Reset4001, ConnType

LEMMA CutType == ASSUME NEW c \in ConnType PROVE Cut(c) \in ConnType
BY DEF Cut, ConnType

LEMMA BroadcastType ==
  ASSUME TypeOK, NEW to, NEW acc, NEW m \in OutFrames
  PROVE  Broadcast(to, acc, m) \in [Conns -> ConnType]
BY QueuedType, ShutdownType DEF Broadcast, TypeOK

LEMMA SendOnType ==
  ASSUME NEW cs \in [Conns -> ConnType], NEW k \in Conns \cup {Nil}, NEW fs \in Seq(InFrames)
  PROVE  SendOn(cs, k, fs) \in [Conns -> ConnType]
<1>1. CASE k \in Conns /\ k # Nil
  <2>1. cs[k] \in ConnType /\ cs[k].inq \o fs \in Seq(InFrames)
    BY <1>1, InqType, ConcatProperties
  <2>2. [cs[k] EXCEPT !.inq = @ \o fs] \in ConnType
    BY <2>1, InqType
  <2> QED BY <1>1, <2>2 DEF SendOn
<1> QED BY <1>1 DEF SendOn

LEMMA ReleasedType ==
  ASSUME TypeOK, NEW k \in Conns, NEW code \in {"reset", "other"}
  PROVE  Released(k, code) \in ConnType
BY FreeConnType DEF Released, TypeOK, ConnType

LEMMA ReplayType ==
  ASSUME TypeOK
  PROVE  Replay \in Seq(OutFrames)
<1>0. \A s \in SUBSET Updates : Update(s) \in OutFrames
  BY DEF Update, OutFrames
<1>1. [i \in DOMAIN yjsUpdates |-> Update(yjsUpdates[i].doc)] \in Seq(OutFrames)
  <2> DEFINE N == Len(yjsUpdates)
  <2>1. N \in Nat /\ DOMAIN yjsUpdates = 1 .. N
    BY DEF TypeOK
  <2>2. \A i \in 1 .. N : Update(yjsUpdates[i].doc) \in OutFrames
    <3>1. \A i \in 1 .. N : yjsUpdates[i] \in RowType
      BY ElementOfSeq DEF TypeOK
    <3> QED BY <3>1, <1>0 DEF RowType
  <2> QED BY <2>1, <2>2, IsASeq
<1>2. Update(yjsState.doc) \in OutFrames
  BY DEF TypeOK, Update, OutFrames
<1> QED BY <1>1, <1>2 DEF Replay

LEMMA UpToType ==
  ASSUME TypeOK, NEW n \in Int
  PROVE  UpTo(n) \in 0 .. Len(yjsUpdates)
<1> DEFINE D == DOMAIN yjsUpdates
           E == {i \in D : yjsUpdates[i].seq <= n}
<1>1. D = 1 .. Len(yjsUpdates) /\ Len(yjsUpdates) \in Nat
  BY DEF TypeOK
<1>2. IsFiniteSet(D) /\ Cardinality(D) = Len(yjsUpdates)
  <2>1. 1 \in Int /\ Len(yjsUpdates) \in Int
    BY <1>1
  <2>2. /\ IsFiniteSet(1 .. Len(yjsUpdates))
        /\ Cardinality(1 .. Len(yjsUpdates)) =
             IF 1 > Len(yjsUpdates) THEN 0 ELSE Len(yjsUpdates) - 1 + 1
    BY <2>1, FS_Interval
  <2> QED BY <1>1, <2>2
<1>3. IsFiniteSet(E) /\ Cardinality(E) <= Cardinality(D) /\ Cardinality(E) \in Nat
  BY <1>2, FS_Subset, FS_CardinalityType
<1> QED BY <1>2, <1>3 DEF UpTo

LEMMA LogWithType ==
  ASSUME TypeOK, NEW n \in Nat, NEW s \in SUBSET Updates
  PROVE  LogWith(n, s) \in Seq(RowType)
<1>1. /\ yjsUpdates \in Seq(RowType) /\ Len(yjsUpdates) \in Nat
      /\ \A i \in 1 .. Len(yjsUpdates) : yjsUpdates[i] \in RowType
  BY ElementOfSeq, LenProperties DEF TypeOK
<1>2. UpTo(n) \in 0 .. Len(yjsUpdates)
  BY UpToType
<1>3. SubSeq(yjsUpdates, 1, UpTo(n)) \in Seq(RowType)
  BY <1>1, <1>2, SubSeqProperties
<1>4. SubSeq(yjsUpdates, UpTo(n) + 1, Len(yjsUpdates)) \in Seq(RowType)
  BY <1>1, <1>2, SubSeqProperties
<1>5. <<[seq |-> n, doc |-> s]>> \in Seq(RowType)
  BY DEF RowType
<1> QED BY <1>3, <1>4, <1>5, ConcatProperties DEF LogWith

LEMMA LogAfterType ==
  ASSUME TypeOK, NEW n \in Int
  PROVE  /\ LogAfter(n) \in Seq(RowType)
         /\ Len(LogAfter(n)) \in Nat
         /\ Len(LogAfter(n)) <= Len(yjsUpdates)
<1>1. /\ yjsUpdates \in Seq(RowType) /\ Len(yjsUpdates) \in Nat
      /\ \A i \in 1 .. Len(yjsUpdates) : yjsUpdates[i] \in RowType
  BY ElementOfSeq, LenProperties DEF TypeOK
<1>2. UpTo(n) \in 0 .. Len(yjsUpdates)
  BY UpToType
<1>3. /\ SubSeq(yjsUpdates, UpTo(n) + 1, Len(yjsUpdates)) \in Seq(RowType)
      /\ Len(SubSeq(yjsUpdates, UpTo(n) + 1, Len(yjsUpdates)))
           = IF UpTo(n) + 1 <= Len(yjsUpdates)
             THEN Len(yjsUpdates) - (UpTo(n) + 1) + 1 ELSE 0
  BY <1>1, <1>2, SubSeqProperties
<1> QED BY <1>1, <1>2, <1>3 DEF LogAfter

LEMMA HeadOf ==
  ASSUME TypeOK, NEW k \in Conns
  PROVE  /\ conn[k] \in ConnType
         /\ Reads(k, "update") => /\ Head(conn[k].inq).doc \in SUBSET Updates
                                  /\ Taken(conn[k]) \in ConnType
         /\ Reads(k, "snapshot") => /\ Head(conn[k].inq).doc \in SUBSET Updates
                                    /\ Head(conn[k].inq).seq \in Nat
                                    /\ Taken(conn[k]) \in ConnType
<1>1. conn[k] \in ConnType
  BY DEF TypeOK
<1>2. ASSUME conn[k].inq # <<>>
      PROVE  Taken(conn[k]) \in ConnType /\ Head(conn[k].inq) \in InFrames
  BY <1>1, <1>2, TakenType
<1> QED BY <1>1, <1>2 DEF Reads, InFrames

LEMMA FaultType ==
  ASSUME TypeOK, Fault \/ DiskFault \/ UNCHANGED used
  PROVE  used' \in [trash : Nat, fault : Nat, disk : Nat]
<1>1. used \in [trash : Nat, fault : Nat, disk : Nat]
  BY DEF TypeOK
<1>2. used.fault + 1 \in Nat /\ used.disk + 1 \in Nat
  BY <1>1
<1>3. CASE Fault
  BY <1>1, <1>2, <1>3 DEF Fault
<1>4. CASE DiskFault
  BY <1>1, <1>2, <1>4 DEF DiskFault
<1>5. CASE UNCHANGED used
  BY <1>1, <1>5
<1> QED BY <1>3, <1>4, <1>5

LEMMA InitType == Init => TypeInv
<1> SUFFICES ASSUME Init PROVE TypeInv
  OBVIOUS
<1>1. /\ FreeConn \in ConnType /\ ClosedTab \in TabType /\ NewRoom \in RoomType
      /\ FreeConn.st = "free"
  BY FreeConnType, ClosedTabType, NewRoomType DEF FreeConn
<1>2. TypeOK
  <2>1. /\ docGen \in Nat /\ trashed \in BOOLEAN
        /\ yjsState \in [have : BOOLEAN, seq : Nat, doc : SUBSET Updates]
        /\ yjsUpdates \in Seq(RowType)
        /\ hub \in Rooms \cup {NoRoom}
    BY EmptySeq DEF Init, NoState
  <2>2. /\ rooms \in [Rooms -> RoomType] /\ conn \in [Conns -> ConnType]
        /\ tab \in [Tabs -> TabType]
    BY <1>1 DEF Init
  <2>3. writer \in [Writers -> WriterType]
    BY DEF Init, IdleWriter, WriterType, NoRoom
  <2>4. /\ mayRead \subseteq Tabs /\ mayWrite \subseteq Tabs
        /\ edits \in 0 .. MaxUpdates /\ seeds \subseteq Updates
        /\ bornIn \in [Updates -> Nat] /\ stored \subseteq Updates
        /\ used \in [trash : Nat, fault : Nat, disk : Nat]
    BY CollabAssumption DEF Init
  <2> QED BY <2>1, <2>2, <2>3, <2>4 DEF TypeOK
<1>3. Located
  BY <1>1 DEF Init, Located, InRoom, IdleWriter
<1> QED BY <1>2, <1>3 DEF TypeInv

(* A connection whose slot changes to a value that keeps its place.        *)
LEMMA KeepsPlace ==
  ASSUME TypeInv, NEW k \in Conns, NEW c \in ConnType,
         conn' = [conn EXCEPT ![k] = c],
         c.st = "free" \/ c.tab \in Tabs,
         c.st \in {"joined", "open", "refused"} => c.room \in Rooms,
         UNCHANGED writer
  PROVE  conn' \in [Conns -> ConnType] /\ Located'
<1>1. conn' \in [Conns -> ConnType]
  BY DEF TypeInv, TypeOK
<1>2. Located'
  BY DEF TypeInv, TypeOK, Located, InRoom
<1> QED BY <1>1, <1>2

LEMMA DialType ==
  ASSUME TypeInv, NEW t \in Tabs, NEW k \in Conns, Dial(t, k)
  PROVE  TypeInv'
<1> DEFINE c == [FreeConn EXCEPT !.st = "accepted", !.tab = t, !.gen = tab[t].gen,
                                 !.cap = outBuffer + Len(yjsUpdates)]
<1>1. tab[t] \in TabType /\ tab[t].gen \in Nat
  BY DEF TypeInv, TypeOK, TabType
<1>2. outBuffer + Len(yjsUpdates) \in Nat
  BY CollabAssumption, LenProperties DEF TypeInv, TypeOK
<1>3. c \in ConnType /\ c.st = "accepted" /\ c.tab = t
  BY <1>1, <1>2, FreeConnType DEF FreeConn, ConnType
<1>4. conn' \in [Conns -> ConnType] /\ Located'
  BY <1>3, KeepsPlace DEF Dial
<1>5. tab' \in [Tabs -> TabType]
  BY <1>1 DEF TypeInv, TypeOK, TabType, Dial
<1>6. TypeOK'
  BY <1>4, <1>5 DEF TypeInv, TypeOK, Dial, dbVars, historyVars
<1> QED BY <1>4, <1>6 DEF TypeInv

LEMMA JoinType ==
  ASSUME TypeInv, NEW k \in Conns, Join(k)
  PROVE  TypeInv'
<1>1. PICK r \in Rooms :
        /\ hub' = r
        /\ rooms' = [rooms EXCEPT ![r] =
                      [(IF hub # NoRoom THEN rooms[r] ELSE NewRoom) EXCEPT
                         !.conns = @ \cup {k}]]
        /\ conn' = [conn EXCEPT ![k].st = "joined", ![k].room = r]
  BY DEF Join
<1> DEFINE c == [conn[k] EXCEPT !.st = "joined", !.room = r]
<1>0. conn[k] \in ConnType /\ conn[k].tab \in Tabs
  BY DEF TypeInv, TypeOK, Join, Located
<1>a. c \in ConnType /\ c.tab \in Tabs /\ c.room = r
  BY <1>0 DEF ConnType
<1>2. c \in ConnType /\ c.tab \in Tabs /\ c.room = r /\ conn' = [conn EXCEPT ![k] = c]
  BY <1>a, <1>1
<1>3. conn' \in [Conns -> ConnType] /\ Located'
  BY <1>2, KeepsPlace, ZenonT(40) DEF Join
<1>4. rooms' \in [Rooms -> RoomType]
  <2>1. \A R \in RoomType : [R EXCEPT !.conns = @ \cup {k}] \in RoomType
    BY DEF RoomType
  <2> DEFINE B == IF hub # NoRoom THEN rooms[r] ELSE NewRoom
  <2>2. B \in RoomType
    BY NewRoomType DEF TypeInv, TypeOK
  <2>3. [B EXCEPT !.conns = @ \cup {k}] \in RoomType
    BY <2>1, <2>2
  <2>4. rooms' = [rooms EXCEPT ![r] = [B EXCEPT !.conns = @ \cup {k}]]
    BY <1>1
  <2> QED BY <2>3, <2>4 DEF TypeInv, TypeOK
<1>5. TypeOK'
  BY <1>1, <1>3, <1>4 DEF TypeInv, TypeOK, Join, dbVars, historyVars
<1> QED BY <1>3, <1>5 DEF TypeInv

LEMMA RefuseStaleType ==
  ASSUME TypeInv, NEW k \in Conns, RefuseStale(k)
  PROVE  TypeInv'
<1> DEFINE c == [conn[k] EXCEPT !.st = "refused"]
<1>0. conn[k] \in ConnType /\ conn[k].tab \in Tabs /\ conn[k].room \in Rooms
  BY DEF TypeInv, TypeOK, RefuseStale, Located, InRoom
<1>a. c \in ConnType /\ c.tab \in Tabs /\ c.room \in Rooms
  BY <1>0 DEF ConnType
<1>1. c \in ConnType /\ c.tab \in Tabs /\ c.room \in Rooms /\ conn' = [conn EXCEPT ![k] = c]
  BY <1>a DEF RefuseStale
<1>2. conn' \in [Conns -> ConnType] /\ Located'
  BY <1>1, KeepsPlace DEF RefuseStale
<1>3. TypeOK'
  BY <1>2 DEF TypeInv, TypeOK, RefuseStale, dbVars, historyVars
<1> QED BY <1>2, <1>3 DEF TypeInv

LEMMA QueuedAllPlace ==
  ASSUME NEW c \in ConnType, NEW fs \in Seq(OutFrames)
  PROVE  /\ QueuedAll(c, fs).tab = c.tab /\ QueuedAll(c, fs).room = c.room
         /\ QueuedAll(c, fs).kicked = c.kicked
BY DEF QueuedAll, ConnType, Shutdown

LEMMA NewestSeqType ==
  ASSUME TypeOK
  PROVE  NewestSeq \in Nat
<1>1. CASE yjsUpdates = <<>>
  BY <1>1 DEF TypeOK, NewestSeq
<1>2. CASE yjsUpdates # <<>>
  <2>1. yjsUpdates[Len(yjsUpdates)] \in RowType
    BY <1>2, ElementOfSeq, EmptySeq DEF TypeOK
  <2> QED BY <1>2, <2>1 DEF NewestSeq, RowType
<1> QED BY <1>1, <1>2

LEMMA LoadedType ==
  ASSUME TypeOK, NEW R \in RoomType
  PROVE  Loaded(R) \in RoomType /\ Loaded(R).conns = R.conns
<1>1. NewestSeq \in Nat /\ Len(yjsUpdates) \in Nat
  BY NewestSeqType, LenProperties DEF TypeOK
<1> QED BY <1>1 DEF Loaded, RoomType

LEMMA LoadType ==
  ASSUME TypeInv, NEW k \in Conns, Load(k)
  PROVE  TypeInv'
<1> DEFINE r == conn[k].room
           new == FindsNew(rooms[r])
           fs == <<Hello(new)>> \o Replay \o <<Synced>>
           q == QueuedAll(conn[k], fs)
           c == [q EXCEPT !.st = "open"]
<1>1. conn[k] \in ConnType /\ conn[k].tab \in Tabs /\ r \in Rooms /\ rooms[r] \in RoomType
  BY DEF TypeInv, TypeOK, Load, Located, InRoom
<1>2. fs \in Seq(OutFrames)
  <2>1. Hello(new) \in OutFrames /\ Synced \in OutFrames
    BY <1>1 DEF Hello, Synced, OutFrames, FindsNew, TypeInv, TypeOK, RoomType
  <2>2. <<Hello(new)>> \in Seq(OutFrames) /\ <<Synced>> \in Seq(OutFrames)
    BY <2>1
  <2> QED BY <2>2, ReplayType, ConcatProperties DEF TypeInv
<1>3. q \in ConnType /\ q.tab = conn[k].tab /\ q.room = r
  BY <1>1, <1>2, QueuedAllType, QueuedAllPlace
<1>4. c \in ConnType /\ c.tab \in Tabs /\ c.room \in Rooms
  BY <1>1, <1>3 DEF ConnType
<1>5. conn' \in [Conns -> ConnType] /\ Located'
  BY <1>4, KeepsPlace DEF Load
<1>6. rooms' \in [Rooms -> RoomType]
  <2> DEFINE L == Loaded(rooms[r])
  <2>1. L \in RoomType
    BY <1>1, LoadedType DEF TypeInv
  <2>2. [L EXCEPT !.seedConn = IF new THEN k ELSE @] \in RoomType
    BY <2>1 DEF RoomType
  <2>3. rooms' = [rooms EXCEPT ![r] = [L EXCEPT !.seedConn = IF new THEN k ELSE @]]
    BY DEF Load
  <2> QED BY <2>2, <2>3 DEF TypeInv, TypeOK
<1>7. TypeOK'
  BY <1>5, <1>6 DEF TypeInv, TypeOK, Load, dbVars, historyVars
<1> QED BY <1>5, <1>7 DEF TypeInv

LEMMA DropFrameType ==
  ASSUME TypeInv, NEW k \in Conns, DropFrame(k)
  PROVE  TypeInv'
<1>1. /\ Taken(conn[k]) \in ConnType
      /\ Taken(conn[k]).tab \in Tabs /\ Taken(conn[k]).room \in Rooms
  BY HeadOf, ZenonT(40) DEF TypeInv, TypeOK, Located, DropFrame, InRoom, Reads, Taken, ConnType
<1>2. conn' \in [Conns -> ConnType] /\ Located'
  BY <1>1, KeepsPlace DEF DropFrame
<1>3. TypeOK'
  BY <1>2 DEF TypeInv, TypeOK, DropFrame, dbVars, historyVars
<1> QED BY <1>2, <1>3 DEF TypeInv

LEMMA PersistFailsType ==
  ASSUME TypeInv, NEW k \in Conns, PersistFails(k)
  PROVE  TypeInv'
<1>1. /\ Taken(conn[k]) \in ConnType
      /\ Taken(conn[k]).tab \in Tabs /\ Taken(conn[k]).room \in Rooms
  BY HeadOf, ZenonT(40) DEF TypeInv, TypeOK, Located, PersistFails, InRoom, Reads, Taken, ConnType
<1>2. conn' \in [Conns -> ConnType] /\ Located'
  BY <1>1, KeepsPlace DEF PersistFails
<1>3. rooms' \in [Rooms -> RoomType]
  <2> DEFINE r == conn[k].room
             R == [rooms[r] EXCEPT !.seeded = TRUE]
  <2>1. r \in Rooms /\ rooms[r] \in RoomType
    BY DEF TypeInv, TypeOK, Located, PersistFails, InRoom, Reads
  <2>2. R \in RoomType
    BY <2>1 DEF RoomType
  <2>3. rooms' = [rooms EXCEPT ![r] = R]
    BY DEF PersistFails
  <2> QED BY <2>1, <2>2, <2>3 DEF TypeInv, TypeOK
<1>4. used' \in [trash : Nat, fault : Nat, disk : Nat]
  BY FaultType DEF TypeInv, PersistFails
<1>5. TypeOK'
  BY <1>2, <1>3, <1>4 DEF TypeInv, TypeOK, PersistFails, dbVars, historyVars
<1> QED BY <1>2, <1>5 DEF TypeInv

(* Where a connection is: what an operation on its queues leaves alone.    *)
SamePlace(c, d) == c.st = d.st /\ c.tab = d.tab /\ c.room = d.room

LEMMA SamePlaceOps ==
  ASSUME NEW c \in ConnType
  PROVE  /\ \A m : SamePlace(Queued(c, m), c)
         /\ SamePlace(Shutdown(c), c)
         /\ SamePlace(Taken(c), c)
         /\ SamePlace(Reset4001(c), c)
         /\ SamePlace(Cut(c), c)
BY DEF SamePlace, Queued, Shutdown, Taken, Reset4001, Cut, ConnType

LEMMA SamePlaces ==
  ASSUME TypeInv, conn' \in [Conns -> ConnType], UNCHANGED writer,
         \A k \in Conns : SamePlace(conn'[k], conn[k])
  PROVE  Located'
BY DEF TypeInv, Located, InRoom, SamePlace

LEMMA BroadcastPlace ==
  ASSUME TypeOK, NEW to, NEW acc, NEW m
  PROVE  \A k \in Conns : SamePlace(Broadcast(to, acc, m)[k], conn[k])
<1> SUFFICES ASSUME NEW k \in Conns
             PROVE  SamePlace(Broadcast(to, acc, m)[k], conn[k])
  OBVIOUS
<1>1. conn[k] \in ConnType
  BY DEF TypeOK
<1>2. \/ Broadcast(to, acc, m)[k] = Queued(conn[k], m)
      \/ Broadcast(to, acc, m)[k] = Shutdown(conn[k])
      \/ Broadcast(to, acc, m)[k] = conn[k]
  BY DEF Broadcast
<1> QED BY <1>1, <1>2, SamePlaceOps DEF SamePlace

LEMMA PersistUpdateType ==
  ASSUME TypeInv, NEW k \in Conns, PersistUpdate(k)
  PROVE  TypeInv'
<1> DEFINE r == conn[k].room
           R == rooms[r]
           m == Head(conn[k].inq)
           n == R.seq + 1
           asks == R.pending + 1 >= compactThreshold /\ ~R.compacting
           others == Others(R, k)
           c == Taken(conn[k])
<1>1. /\ conn[k] \in ConnType /\ r \in Rooms /\ R \in RoomType
      /\ m.doc \in SUBSET Updates /\ c \in ConnType
  BY HeadOf DEF TypeInv, TypeOK, PersistUpdate, Located, InRoom, Reads
<1>2. n \in Nat
  BY <1>1 DEF RoomType
<1>3. yjsUpdates' \in Seq(RowType)
  BY <1>1, <1>2, LogWithType DEF PersistUpdate, TypeInv
<1>4. rooms' \in [Rooms -> RoomType]
  <2> DEFINE R2 == [R EXCEPT !.seeded = TRUE, !.seq = n, !.pending = @ + 1,
                             !.compacting = @ \/ asks,
                             !.compactConn = IF asks THEN k ELSE @]
  <2>1. R2 \in RoomType
    <3> DEFINE b == R.compacting \/ asks
               x == IF asks THEN k ELSE R.compactConn
    <3>1. b \in BOOLEAN
      OBVIOUS
    <3>2. x \in Conns \cup {Nil} /\ R.pending + 1 \in Nat
      BY <1>1 DEF RoomType
    <3>3. R2 = [R EXCEPT !.seeded = TRUE, !.seq = n, !.pending = R.pending + 1,
                         !.compacting = b, !.compactConn = x]
      BY <1>1 DEF RoomType
    <3> HIDE DEF R, n, b, x, R2
    <3> QED BY <1>1, <1>2, <3>1, <3>2, <3>3 DEF RoomType
  <2>2. rooms' = [rooms EXCEPT ![r] = R2]
    BY DEF PersistUpdate
  <2> QED BY <1>1, <2>1, <2>2 DEF TypeInv, TypeOK
<1>5. PICK acc \in Takers(others), got \in BOOLEAN :
        conn' = [Broadcast(others, acc, m) EXCEPT ![k] =
                   IF ~asks THEN c
                   ELSE IF got THEN Queued(c, SnapshotRequest(n)) ELSE Shutdown(c)]
  BY DEF PersistUpdate
<1>6. m \in OutFrames
  <2>1. conn[k].inq # <<>> /\ m.type = "update"
    BY DEF PersistUpdate, Reads
  <2>2. m \in InFrames
    BY <1>1, <2>1, TakenType
  <2> QED BY <2>1, <2>2 DEF InFrames, OutFrames
<1> DEFINE d == IF ~asks THEN c
                ELSE IF got THEN Queued(c, SnapshotRequest(n)) ELSE Shutdown(c)
<1>7. d \in ConnType /\ SamePlace(d, conn[k])
  <2>1. SnapshotRequest(n) \in OutFrames
    BY <1>2 DEF SnapshotRequest, OutFrames
  <2>2. Queued(c, SnapshotRequest(n)) \in ConnType /\ Shutdown(c) \in ConnType
    BY <1>1, <2>1, QueuedType, ShutdownType
  <2>3. /\ SamePlace(c, conn[k]) /\ SamePlace(Shutdown(c), c)
        /\ SamePlace(Queued(c, SnapshotRequest(n)), c)
    BY <1>1, SamePlaceOps
  <2> QED BY <1>1, <2>2, <2>3 DEF SamePlace
<1>8. Broadcast(others, acc, m) \in [Conns -> ConnType]
  BY <1>6, BroadcastType DEF TypeInv
<1>9. conn' \in [Conns -> ConnType]
  BY <1>5, <1>7, <1>8
<1>10. \A j \in Conns : SamePlace(conn'[j], conn[j])
  BY <1>5, <1>7, <1>8, BroadcastPlace DEF TypeInv
<1>11. Located'
  BY <1>9, <1>10, SamePlaces, Zenon DEF PersistUpdate
<1>12. stored' \subseteq Updates
  BY <1>1 DEF PersistUpdate, TypeInv, TypeOK
<1>13. TypeOK'
  BY <1>3, <1>4, <1>9, <1>12 DEF TypeInv, TypeOK, PersistUpdate, historyVars
<1> QED BY <1>11, <1>13 DEF TypeInv

LEMMA CompactsFacts ==
  ASSUME TypeInv, NEW k \in Conns, Compacts(k)
  PROVE  /\ conn[k].room \in Rooms /\ rooms[conn[k].room] \in RoomType
         /\ conn[k].st = "open" /\ conn[k].tab \in Tabs
         /\ Taken(conn[k]) \in ConnType
         /\ SamePlace(Taken(conn[k]), conn[k])
         /\ Head(conn[k].inq).doc \in SUBSET Updates
         /\ Head(conn[k].inq).seq \in Nat
BY HeadOf, SamePlaceOps DEF TypeInv, TypeOK, Compacts, Located, InRoom, Reads

LEMMA NotCompactingType ==
  ASSUME NEW R \in RoomType
  PROVE  NotCompacting(R) \in RoomType /\ NotCompacting(R).conns = R.conns
BY DEF NotCompacting, RoomType

LEMMA SnapshotFailsType ==
  ASSUME TypeInv, NEW k \in Conns, SnapshotFails(k)
  PROVE  TypeInv'
<1> DEFINE r == conn[k].room
<1>1. Compacts(k)
  BY DEF SnapshotFails
<1>2. conn' = [conn EXCEPT ![k] = Taken(conn[k])]
  BY DEF SnapshotFails
<1>3. conn' \in [Conns -> ConnType] /\ Located'
  BY <1>1, <1>2, CompactsFacts, KeepsPlace DEF SnapshotFails, SamePlace
<1>4. rooms' \in [Rooms -> RoomType]
  BY <1>1, CompactsFacts, NotCompactingType DEF SnapshotFails, TypeInv, TypeOK
<1>5. used' \in [trash : Nat, fault : Nat, disk : Nat]
  BY FaultType DEF TypeInv, SnapshotFails
<1>6. TypeOK'
  BY <1>3, <1>4, <1>5 DEF TypeInv, TypeOK, SnapshotFails, dbVars, historyVars
<1> QED BY <1>3, <1>6 DEF TypeInv

LEMMA ApplySnapshotType ==
  ASSUME TypeInv, NEW k \in Conns, ApplySnapshot(k)
  PROVE  TypeInv'
<1> DEFINE r == conn[k].room
           m == Head(conn[k].inq)
<1>1. Compacts(k)
  BY DEF ApplySnapshot
<1>2. conn' = [conn EXCEPT ![k] = Taken(conn[k])]
  BY DEF ApplySnapshot
<1>3. conn' \in [Conns -> ConnType] /\ Located'
  BY <1>1, <1>2, CompactsFacts, KeepsPlace DEF ApplySnapshot, SamePlace
<1>4. m.seq \in Nat /\ m.doc \in SUBSET Updates /\ r \in Rooms /\ rooms[r] \in RoomType
  BY <1>1, CompactsFacts
<1>5. yjsState' \in [have : BOOLEAN, seq : Nat, doc : SUBSET Updates]
  BY <1>4 DEF ApplySnapshot
<1>6. yjsUpdates' \in Seq(RowType) /\ Remaining(rooms[r], m.seq) \in Nat
  BY <1>4, LogAfterType DEF ApplySnapshot, Remaining, TypeInv
<1>7. rooms' \in [Rooms -> RoomType]
  <2> DEFINE R == NotCompacting(rooms[r])
             R2 == [R EXCEPT !.pending = Remaining(rooms[r], m.seq)]
  <2>1. R \in RoomType
    BY <1>4, NotCompactingType
  <2>2. R2 \in RoomType
    <3> HIDE DEF R
    <3> QED BY <1>6, <2>1 DEF RoomType
  <2>3. rooms' = [rooms EXCEPT ![r] = R2]
    BY DEF ApplySnapshot
  <2> QED BY <2>2, <2>3 DEF TypeInv, TypeOK
<1>8. TypeOK'
  BY <1>3, <1>5, <1>6, <1>7 DEF TypeInv, TypeOK, ApplySnapshot, historyVars
<1> QED BY <1>3, <1>8 DEF TypeInv

(* The actions that only change the slot k to a value that stays in place. *)
LEMMA CutsType ==
  ASSUME TypeInv, NEW k \in Conns, CloseSocket(k) \/ NetDrop(k) \/ PeerGone(k) \/ Recheck(k)
  PROVE  TypeInv'
<1> DEFINE closed == [conn[k] EXCEPT !.closed = TRUE]
<1>1. PICK c \in {closed, Cut(conn[k]), Shutdown(conn[k])} : conn' = [conn EXCEPT ![k] = c]
  BY DEF CloseSocket, NetDrop, PeerGone, Recheck
<1>2. /\ conn[k] \in ConnType /\ conn[k].tab \in Tabs
      /\ InRoom(k) => conn[k].room \in Rooms
  BY DEF TypeInv, TypeOK, Located, CloseSocket, NetDrop, PeerGone, Recheck, InServer
<1>3. c \in ConnType /\ SamePlace(c, conn[k])
  <2>1. closed \in ConnType /\ SamePlace(closed, conn[k])
    BY <1>2 DEF ConnType, SamePlace
  <2> QED BY <1>1, <1>2, <2>1, CutType, ShutdownType, SamePlaceOps
<1>4. conn' \in [Conns -> ConnType] /\ Located'
  BY <1>1, <1>2, <1>3, KeepsPlace
     DEF SamePlace, InRoom, CloseSocket, NetDrop, PeerGone, Recheck
<1>5. used' \in [trash : Nat, fault : Nat, disk : Nat]
  BY FaultType DEF TypeInv, CloseSocket, NetDrop, PeerGone, Recheck
<1>6. TypeOK'
  BY <1>4, <1>5
     DEF TypeInv, TypeOK, CloseSocket, NetDrop, PeerGone, Recheck, dbVars, historyVars
<1> QED BY <1>4, <1>6 DEF TypeInv

LEMMA ReleasedPlace ==
  ASSUME TypeInv, NEW k \in Conns, NEW code, conn[k].st # "free"
  PROVE  /\ Released(k, code).st \in {"free", "gone"}
         /\ Released(k, code).st # "free" => Released(k, code).tab \in Tabs
         /\ ~Released(k, code).kicked
BY DEF TypeInv, Located, Released, FreeConn

LEMMA LeaveType ==
  ASSUME TypeInv, NEW k \in Conns, Leave(k)
  PROVE  TypeInv'
<1> DEFINE r == conn[k].room
           R == rooms[r]
           sc == IF R.seedConn = k /\ ~R.seeded THEN Nil ELSE R.seedConn
           co == R.compacting /\ R.compactConn # k
           cc == IF R.compactConn = k THEN Nil ELSE R.compactConn
           left == [R EXCEPT !.conns = R.conns \ {k}, !.seedConn = sc,
                             !.compacting = co, !.compactConn = cc]
           code == IF conn[k].st = "refused" /\ ~conn[k].done
                   THEN "reset" ELSE conn[k].code
<1>1. /\ conn[k] \in ConnType /\ r \in Rooms /\ R \in RoomType
      /\ conn[k].st \in {"open", "refused"}
  BY DEF TypeInv, TypeOK, Located, Leave, InRoom
<1>2. left \in RoomType
  <2>1. sc \in Conns \cup {Nil} /\ cc \in Conns \cup {Nil} /\ R.conns \ {k} \in SUBSET Conns
    BY <1>1 DEF RoomType
  <2>2. co \in BOOLEAN
    OBVIOUS
  <2> HIDE DEF R, sc, co, cc
  <2> QED BY <1>1, <2>1, <2>2 DEF RoomType
<1>3. /\ hub' \in {NoRoom, hub}
      /\ \/ rooms' = [rooms EXCEPT ![r] = NewRoom]
         \/ rooms' = [rooms EXCEPT ![r] = left]
      /\ conn' = [conn EXCEPT ![k] = Released(k, code)]
  <2>1. left = [R EXCEPT
                 !.conns = @ \ {k},
                 !.seedConn = IF @ = k /\ ~R.seeded THEN Nil ELSE @,
                 !.compacting = @ /\ R.compactConn # k,
                 !.compactConn = IF @ = k THEN Nil ELSE @]
    BY <1>1 DEF RoomType
  <2> HIDE DEF left
  <2> QED BY <2>1, Zenon DEF Leave
<1>4. code \in {"reset", "other"}
  BY <1>1 DEF ConnType
<1>5. Released(k, code) \in ConnType
  BY <1>4, ReleasedType DEF TypeInv
<1>6. conn' \in [Conns -> ConnType] /\ Located'
  BY <1>1, <1>3, <1>5, ReleasedPlace, KeepsPlace DEF Leave
<1>7. rooms' \in [Rooms -> RoomType]
  BY <1>2, <1>3, NewRoomType DEF TypeInv, TypeOK
<1>8. TypeOK'
  BY <1>3, <1>6, <1>7 DEF TypeInv, TypeOK, Leave, dbVars, historyVars
<1> QED BY <1>6, <1>8 DEF TypeInv

LEMMA MountType ==
  ASSUME TypeInv, NEW t \in Tabs, Mount(t)
  PROVE  TypeInv'
<1>1. tab' \in [Tabs -> TabType]
  BY NewTabType DEF TypeInv, TypeOK, Mount
<1> QED BY <1>1 DEF TypeInv, TypeOK, Located, InRoom, Mount, dbVars, historyVars

LEMMA SendOnPlace ==
  ASSUME NEW cs \in [Conns -> ConnType], NEW k \in Conns \cup {Nil}, NEW fs
  PROVE  \A j \in Conns : /\ SamePlace(SendOn(cs, k, fs)[j], cs[j])
                          /\ SendOn(cs, k, fs)[j].kicked = cs[j].kicked
<1> SUFFICES ASSUME NEW j \in Conns
             PROVE  /\ SamePlace(SendOn(cs, k, fs)[j], cs[j])
                    /\ SendOn(cs, k, fs)[j].kicked = cs[j].kicked
  OBVIOUS
<1>1. cs[j] \in ConnType
  OBVIOUS
<1>2. \/ SendOn(cs, k, fs)[j] = cs[j]
      \/ SendOn(cs, k, fs)[j] = [cs[j] EXCEPT !.inq = @ \o fs]
  BY DEF SendOn
<1> QED BY <1>1, <1>2 DEF SamePlace, ConnType

LEMMA TabUpdate ==
  ASSUME NEW T \in TabType
  PROVE  /\ \A b \in BOOLEAN : [T EXCEPT !.isNew = b] \in TabType
         /\ \A b \in BOOLEAN : [T EXCEPT !.seed = b] \in TabType
         /\ \A s \in SUBSET Updates : [T EXCEPT !.doc = s] \in TabType
         /\ \A b \in BOOLEAN : [T EXCEPT !.everSynced = TRUE, !.seed = b] \in TabType
         /\ \A s \in SUBSET Updates : [T EXCEPT !.doc = s, !.seed = FALSE] \in TabType
         /\ \A x \in Conns \cup {Nil} : [T EXCEPT !.conn = x] \in TabType
BY Zenon DEF TabType

LEMMA RecvType ==
  ASSUME TypeInv, NEW k \in Conns, Recv(k)
  PROVE  TypeInv'
<1> DEFINE m == Head(conn[k].out)
           t == conn[k].tab
           c == [conn[k] EXCEPT !.out = Tail(@)]
           popped == [conn EXCEPT ![k].out = Tail(@)]
<1>1. /\ conn[k] \in ConnType /\ t \in Tabs /\ tab[t] \in TabType
      /\ conn[k].out # <<>>
  BY DEF TypeInv, TypeOK, Located, Recv, InServer
<1>2. c \in ConnType /\ m \in OutFrames
  BY <1>1, OutType, HeadTailProperties
<1>3. popped \in [Conns -> ConnType] /\ \A j \in Conns : SamePlace(popped[j], conn[j])
  <2>1. popped = [conn EXCEPT ![k] = c]
    OBVIOUS
  <2>2. SamePlace(c, conn[k])
    BY <1>1 DEF SamePlace, ConnType
  <2> QED BY <1>2, <2>1, <2>2 DEF TypeInv, TypeOK, SamePlace
<1>4. tab' \in [Tabs -> TabType]
  <2>1. CASE UNCHANGED tab
    BY <2>1 DEF TypeInv, TypeOK
  <2>2. CASE /\ m.type = "hello"
             /\ tab' = [tab EXCEPT ![t].isNew = IF tab[t].everSynced THEN @ ELSE m.new]
    <3>1. m.new \in BOOLEAN
      BY <1>2, <2>2 DEF OutFrames
    <3>2. (IF tab[t].everSynced THEN tab[t].isNew ELSE m.new) \in BOOLEAN
      BY <1>1, <3>1 DEF TabType
    <3> QED BY <1>1, <2>2, <3>2, TabUpdate, Zenon DEF TypeInv, TypeOK
  <2>3. CASE /\ m.type = "update"
             /\ tab' = [tab EXCEPT ![t].doc = @ \cup m.doc]
    <3>1. tab[t].doc \cup m.doc \in SUBSET Updates
      BY <1>1, <1>2, <2>3 DEF OutFrames, TabType
    <3> QED BY <1>1, <2>3, <3>1, TabUpdate, Zenon DEF TypeInv, TypeOK
  <2>4. CASE tab' = [tab EXCEPT ![t].everSynced = TRUE,
                                ![t].seed = @ \/ (tab[t].isNew /\ ~tab[t].everSynced)]
    <3> DEFINE b == tab[t].seed \/ (tab[t].isNew /\ ~tab[t].everSynced)
    <3>1. b \in BOOLEAN
      OBVIOUS
    <3>2. tab' = [tab EXCEPT ![t] = [tab[t] EXCEPT !.everSynced = TRUE, !.seed = b]]
      BY <1>1, <2>4 DEF TypeInv, TypeOK, TabType
    <3> HIDE DEF b
    <3> QED BY <1>1, <3>1, <3>2, TabUpdate, Zenon DEF TypeInv, TypeOK
  <2> QED BY <2>1, <2>2, <2>3, <2>4 DEF Recv
<1>5. /\ PushOnSync(t) \in Seq(InFrames)
      /\ m.type = "snapshotRequest" => <<Snapshot(m.seq, tab[t].doc)>> \in Seq(InFrames)
  <2>1. tab[t].doc \in SUBSET Updates
    BY <1>1 DEF TabType
  <2>2. Update(tab[t].doc) \in InFrames
    BY <2>1 DEF Update, InFrames
  <2>3. m.type = "snapshotRequest" => Snapshot(m.seq, tab[t].doc) \in InFrames
    BY <1>2, <2>1 DEF OutFrames, InFrames, Snapshot
  <2> QED BY <2>2, <2>3, EmptySeq DEF PushOnSync
<1>6. \/ conn' = popped
      \/ conn' = SendOn(popped, k, PushOnSync(t))
      \/ m.type = "snapshotRequest" /\ conn' = SendOn(popped, k, <<Snapshot(m.seq, tab[t].doc)>>)
  BY DEF Recv
<1>a. PICK fs \in Seq(InFrames) : conn' = popped \/ conn' = SendOn(popped, k, fs)
  BY <1>5, <1>6, EmptySeq
<1>b. /\ SendOn(popped, k, fs) \in [Conns -> ConnType]
      /\ \A j \in Conns : SamePlace(SendOn(popped, k, fs)[j], popped[j])
  <2>1. k \in Conns \cup {Nil}
    OBVIOUS
  <2> HIDE DEF popped
  <2> QED BY <1>3, <2>1, SendOnType, SendOnPlace
<1>7. conn' \in [Conns -> ConnType]
  BY <1>3, <1>a, <1>b
<1>8. \A j \in Conns : SamePlace(conn'[j], conn[j])
  BY <1>3, <1>a, <1>b DEF SamePlace
<1>9. Located'
  BY <1>7, <1>8, SamePlaces DEF Recv
<1>10. TypeOK'
  BY <1>4, <1>7 DEF TypeInv, TypeOK, Recv, dbVars, historyVars
<1> QED BY <1>9, <1>10 DEF TypeInv

LEMMA MakesType ==
  ASSUME TypeInv, NEW t \in Tabs, Makes(t)
  PROVE  /\ edits' \in 0 .. MaxUpdates /\ bornIn' \in [Updates -> Nat]
         /\ tab' \in [Tabs -> TabType] /\ conn' \in [Conns -> ConnType]
         /\ edits + 1 \in Updates
         /\ \A j \in Conns : SamePlace(conn'[j], conn[j])
<1>1. /\ tab[t] \in TabType /\ tab[t].doc \in SUBSET Updates
      /\ tab[t].gen \in Nat /\ tab[t].conn \in Conns \cup {Nil}
      /\ conn \in [Conns -> ConnType]
  BY DEF TypeInv, TypeOK, TabType
<1>2. edits + 1 \in Updates /\ edits' \in 0 .. MaxUpdates
  BY CollabAssumption DEF TypeInv, TypeOK, Makes, Updates
<1>3. tab' \in [Tabs -> TabType]
  <2>1. tab' = [tab EXCEPT ![t] =
                  [tab[t] EXCEPT !.doc = tab[t].doc \cup {edits + 1}, !.seed = FALSE]]
    BY <1>1 DEF Makes, TypeInv, TypeOK, TabType
  <2>2. tab[t].doc \cup {edits + 1} \in SUBSET Updates
    BY <1>1, <1>2
  <2> QED BY <1>1, <2>1, <2>2, TabUpdate, Zenon DEF TypeInv, TypeOK
<1>4. /\ conn' \in [Conns -> ConnType]
      /\ \A j \in Conns : SamePlace(conn'[j], conn[j])
  <2> DEFINE fs == <<Update({edits + 1})>>
  <2>1. Update({edits + 1}) \in InFrames
    BY <1>2 DEF Update, InFrames
  <2>2. fs \in Seq(InFrames)
    BY <2>1
  <2>3. conn' = SendOn(conn, tab[t].conn, fs)
    BY DEF Makes
  <2> HIDE DEF fs
  <2> QED BY <1>1, <2>2, <2>3, SendOnType, SendOnPlace
<1>5. bornIn' \in [Updates -> Nat]
  BY <1>1 DEF Makes, TypeInv, TypeOK
<1> QED BY <1>2, <1>3, <1>4, <1>5

LEMMA SeedEditType ==
  ASSUME TypeInv, NEW t \in Tabs, Seed(t) \/ Edit(t)
  PROVE  TypeInv'
<1>1. CASE Makes(t)
  <2>1. seeds' \subseteq Updates
    BY <1>1, MakesType DEF Seed, Edit, TypeInv, TypeOK
  <2>2. Located'
    BY <1>1, MakesType, SamePlaces DEF Seed, Edit
  <2>3. TypeOK'
    BY <1>1, <2>1, MakesType DEF TypeInv, TypeOK, Seed, Edit, dbVars
  <2> QED BY <2>2, <2>3 DEF TypeInv
<1>2. CASE /\ Seed(t) /\ tab' = [tab EXCEPT ![t].seed = FALSE]
           /\ UNCHANGED <<conn, edits, bornIn, seeds>>
  <2>1. tab' \in [Tabs -> TabType]
    BY <1>2, TabUpdate, Zenon DEF TypeInv, TypeOK
  <2> QED BY <1>2, <2>1 DEF TypeInv, TypeOK, Located, InRoom, Seed, dbVars
<1> QED BY <1>1, <1>2 DEF Seed, Edit

LEMMA LetGoType ==
  ASSUME TypeInv, NEW k \in Conns
  PROVE  /\ LetGo(k) \in [Conns -> ConnType]
         /\ conn' \in {conn, LetGo(k)} /\ UNCHANGED writer => Located'
<1> DEFINE c == IF conn[k].st = "gone" THEN FreeConn ELSE conn[k]
<1>1. c \in ConnType /\ (c.st = "free" \/ c = conn[k])
  BY FreeConnType DEF TypeInv, TypeOK, FreeConn
<1>2. LetGo(k) = [conn EXCEPT ![k] = c]
  BY DEF LetGo
<1>3. LetGo(k) \in [Conns -> ConnType]
  BY <1>1, <1>2 DEF TypeInv, TypeOK
<1>4. ASSUME conn' = LetGo(k), UNCHANGED writer PROVE Located'
  BY <1>1, <1>2, <1>4 DEF TypeInv, TypeOK, Located, InRoom
<1>5. ASSUME UNCHANGED <<conn, writer>> PROVE Located'
  BY <1>5 DEF TypeInv, Located, InRoom
<1> QED BY <1>3, <1>4, <1>5

LEMMA TabLeavesType ==
  ASSUME TypeInv, NEW t \in Tabs, OnClose(t) \/ Abandon(t) \/ CloseTab(t)
  PROVE  TypeInv'
<1> DEFINE k == tab[t].conn
<1>1. tab[t] \in TabType /\ k \in Conns \cup {Nil}
  BY DEF TypeInv, TypeOK, TabType
<1>2. tab' \in [Tabs -> TabType]
  <2>1. [tab[t] EXCEPT !.conn = Nil] \in TabType
    BY <1>1, TabUpdate, Zenon
  <2>2. \E T \in {ClosedTab, [tab[t] EXCEPT !.conn = Nil]} : tab' = [tab EXCEPT ![t] = T]
    BY <1>1 DEF OnClose, Abandon, CloseTab, TypeInv, TypeOK, TabType
  <2> QED BY <2>1, <2>2, ClosedTabType DEF TypeInv, TypeOK
<1>3. /\ conn' = conn \/ (k \in Conns /\ conn' = LetGo(k))
      /\ UNCHANGED writer
  BY <1>1 DEF OnClose, Abandon, CloseTab
<1>4. conn' \in [Conns -> ConnType]
  BY <1>3, LetGoType DEF TypeInv, TypeOK
<1>5. Located'
  <2>1. CASE conn' = conn
    BY <1>3, <2>1 DEF TypeInv, Located, InRoom
  <2> QED BY <1>3, <2>1, LetGoType
<1>6. used' \in [trash : Nat, fault : Nat, disk : Nat]
  BY FaultType DEF OnClose, Abandon, CloseTab, TypeInv
<1>7. TypeOK'
  BY <1>2, <1>4, <1>6 DEF TypeInv, TypeOK, OnClose, Abandon, CloseTab, dbVars, historyVars
<1> QED BY <1>5, <1>7 DEF TypeInv

LEMMA WriterValue ==
  ASSUME TypeInv, NEW w \in Writers, NEW r \in Rooms \cup {NoRoom},
         NEW pc \in {"idle", "written", "reset", "resetState", "trashed", "kick"},
         pc = "kick" => r \in Rooms, Goes(w, pc, r)
  PROVE  /\ writer' \in [Writers -> WriterType]
         /\ \A v \in Writers : writer'[v].pc = "kick" => writer'[v].room \in Rooms
BY DEF TypeInv, TypeOK, Located, WriterType, Goes

LEMMA Reset4001All ==
  ASSUME TypeInv, NEW S,
         conn' = [k \in Conns |-> IF k \in S THEN Reset4001(conn[k]) ELSE conn[k]]
  PROVE  /\ conn' \in [Conns -> ConnType]
         /\ \A k \in Conns : SamePlace(conn'[k], conn[k])
BY Reset4001Type, SamePlaceOps DEF TypeInv, TypeOK, SamePlace

(* Located, of the connections and of the writers taken apart.             *)
LEMMA LocatedParts ==
  ASSUME TypeInv,
         \A k \in Conns : SamePlace(conn'[k], conn[k]),
         \A v \in Writers : writer'[v].pc = "kick" => writer'[v].room \in Rooms
  PROVE  Located'
BY DEF TypeInv, Located, InRoom, SamePlace

LEMMA WriterStepType ==
  ASSUME TypeInv, NEW w \in Writers, WriterStep(w)
  PROVE  TypeInv'
<1>0. UNCHANGED conn => \A k \in Conns : SamePlace(conn'[k], conn[k])
  BY DEF SamePlace
<1>1. CASE OutsideWrite(w)
  <2>1. docGen' \in Nat
    BY <1>1 DEF OutsideWrite, TypeInv, TypeOK
  <2>2. Goes(w, "written", NoRoom)
    BY <1>1 DEF OutsideWrite
  <2>3. Located' /\ writer' \in [Writers -> WriterType]
    BY <1>0, <1>1, <2>2, WriterValue, LocatedParts DEF OutsideWrite
  <2> QED BY <1>1, <2>1, <2>3 DEF OutsideWrite, TypeInv, TypeOK, historyVars
<1>2. CASE ResetLookup(w)
  <2>1. Goes(w, "reset", hub) /\ hub \in Rooms \cup {NoRoom}
    BY <1>2 DEF ResetLookup, TypeInv, TypeOK
  <2>2. Located' /\ writer' \in [Writers -> WriterType]
    BY <1>0, <1>2, <2>1, WriterValue, LocatedParts DEF ResetLookup
  <2> QED BY <1>2, <2>2 DEF ResetLookup, TypeInv, TypeOK, dbVars, historyVars
<1>3. CASE ResetUpdates(w)
  <2>1. Goes(w, "resetState", NoRoom)
    BY <1>3 DEF ResetUpdates
  <2>2. Located' /\ writer' \in [Writers -> WriterType]
    BY <1>0, <1>3, <2>1, WriterValue, LocatedParts DEF ResetUpdates
  <2>3. yjsUpdates' \in Seq(RowType)
    BY <1>3, EmptySeq DEF ResetUpdates
  <2> QED BY <1>3, <2>2, <2>3 DEF ResetUpdates, TypeInv, TypeOK, historyVars
<1>4. CASE ResetState(w)
  <2>1. Goes(w, "idle", NoRoom)
    BY <1>4 DEF ResetState
  <2>2. Located' /\ writer' \in [Writers -> WriterType]
    BY <1>0, <1>4, <2>1, WriterValue, LocatedParts DEF ResetState
  <2> QED BY <1>4, <2>2 DEF ResetState, NoState, TypeInv, TypeOK, historyVars
<1>5. CASE ResetRoom(w)
  <2>1. Goes(w, "idle", NoRoom)
    BY <1>5 DEF ResetRoom
  <2>2. conn' \in [Conns -> ConnType] /\ \A k \in Conns : SamePlace(conn'[k], conn[k])
    BY <1>5, Reset4001All DEF ResetRoom
  <2>3. Located' /\ writer' \in [Writers -> WriterType]
    BY <2>1, <2>2, WriterValue, LocatedParts
  <2>4. /\ yjsUpdates' \in Seq(RowType)
        /\ yjsState' \in [have : BOOLEAN, seq : Nat, doc : SUBSET Updates]
    BY <1>5, EmptySeq DEF ResetRoom, NoState
  <2>5. rooms' \in [Rooms -> RoomType]
    BY <1>5, NewRoomType DEF ResetRoom, TypeInv, TypeOK
  <2> QED BY <1>5, <2>2, <2>3, <2>4, <2>5 DEF ResetRoom, TypeInv, TypeOK, historyVars
<1>6. CASE Trash(w)
  <2>1. Goes(w, "trashed", NoRoom)
    BY <1>6 DEF Trash
  <2>2. Located' /\ writer' \in [Writers -> WriterType]
    BY <1>0, <1>6, <2>1, WriterValue, LocatedParts DEF Trash
  <2>3. used' \in [trash : Nat, fault : Nat, disk : Nat]
    BY <1>6 DEF Trash, TypeInv, TypeOK
  <2> QED BY <1>6, <2>2, <2>3 DEF Trash, TypeInv, TypeOK, historyVars
<1>7. CASE KickLookup(w)
  <2>1. /\ Goes(w, IF hub = NoRoom THEN "idle" ELSE "kick", hub)
        /\ hub \in Rooms \cup {NoRoom}
    BY <1>7 DEF KickLookup, TypeInv, TypeOK
  <2>2. Located' /\ writer' \in [Writers -> WriterType]
    BY <1>0, <1>7, <2>1, WriterValue, LocatedParts DEF KickLookup
  <2> QED BY <1>7, <2>2 DEF KickLookup, TypeInv, TypeOK, dbVars, historyVars
<1>8. CASE KickRoom(w)
  <2> DEFINE r == writer[w].room
             R == [rooms[r] EXCEPT !.loaded = FALSE, !.conns = {}]
  <2>1. Goes(w, "idle", NoRoom) /\ r \in Rooms
    BY <1>8 DEF KickRoom, At, TypeInv, Located
  <2>2. conn' \in [Conns -> ConnType] /\ \A k \in Conns : SamePlace(conn'[k], conn[k])
    BY <1>8, Reset4001All DEF KickRoom
  <2>3. Located' /\ writer' \in [Writers -> WriterType]
    BY <2>1, <2>2, WriterValue, LocatedParts
  <2>4. R \in RoomType
    <3>1. rooms[r] \in RoomType
      BY <2>1 DEF TypeInv, TypeOK
    <3> HIDE DEF r
    <3> QED BY <3>1 DEF RoomType
  <2>5. rooms' \in [Rooms -> RoomType]
    <3>1. rooms' = [rooms EXCEPT ![r] = R]
      BY <1>8 DEF KickRoom
    <3> QED BY <2>4, <3>1 DEF TypeInv, TypeOK
  <2> QED BY <1>8, <2>2, <2>3, <2>5 DEF KickRoom, TypeInv, TypeOK, dbVars, historyVars
<1>9. CASE Restore(w)
  BY <1>9 DEF Restore, TypeInv, TypeOK, Located, InRoom, historyVars
<1> QED BY <1>1, <1>2, <1>3, <1>4, <1>5, <1>6, <1>7, <1>8, <1>9 DEF WriterStep

LEMMA EndAccessType ==
  ASSUME TypeInv, NEW t \in Tabs, EndAccess(t)
  PROVE  TypeInv'
<1>1. conn' \in [Conns -> ConnType] /\ \A k \in Conns : SamePlace(conn'[k], conn[k])
  <2>1. CASE UNCHANGED conn
    BY <2>1 DEF TypeInv, TypeOK, SamePlace
  <2>2. CASE conn' = [k \in Conns |-> IF InRoom(k) /\ conn[k].tab = t THEN Shutdown(conn[k])
                                      ELSE conn[k]]
    BY <2>2, ShutdownType, SamePlaceOps DEF TypeInv, TypeOK, SamePlace
  <2> QED BY <2>1, <2>2 DEF EndAccess, LosesWrite, LosesRead
<1>2. Located'
  BY <1>1, SamePlaces DEF EndAccess, LosesWrite, LosesRead
<1>3. used' \in [trash : Nat, fault : Nat, disk : Nat]
  BY FaultType DEF EndAccess, LosesWrite, LosesRead, TypeInv
<1> QED BY <1>1, <1>2, <1>3 DEF TypeInv, TypeOK, EndAccess, LosesWrite, LosesRead, historyVars

LEMMA LosesMemoryType ==
  ASSUME TypeInv, LosesMemory
  PROVE  /\ hub' \in Rooms \cup {NoRoom} /\ rooms' \in [Rooms -> RoomType]
         /\ writer' \in [Writers -> WriterType] /\ conn' \in [Conns -> ConnType]
         /\ Located'
<1>1. \A k \in Conns : Released(k, "other") \in ConnType
  BY ReleasedType DEF TypeInv
<1>2. conn' \in [Conns -> ConnType]
  BY <1>1 DEF LosesMemory, TypeInv, TypeOK
<1>3. Located'
  <2>1. \A k \in Conns : conn'[k] = IF InServer(k) THEN Released(k, "other") ELSE conn[k]
    BY DEF LosesMemory
  <2>2. \A k \in Conns : InServer(k) => conn[k].st # "free"
    BY DEF InServer
  <2>3. \A k \in Conns : /\ conn'[k].st # "free" => conn'[k].tab \in Tabs
                         /\ conn'[k].st \notin {"joined", "open", "refused"}
    <3> SUFFICES ASSUME NEW k \in Conns
                 PROVE  /\ conn'[k].st # "free" => conn'[k].tab \in Tabs
                        /\ conn'[k].st \notin {"joined", "open", "refused"}
      OBVIOUS
    <3>1. CASE InServer(k)
      BY <2>1, <2>2, <3>1, ReleasedPlace
    <3>2. CASE ~InServer(k)
      BY <2>1, <3>2 DEF TypeInv, Located, InServer
    <3> QED BY <3>1, <3>2
  <2> QED BY <2>3 DEF Located, InRoom, LosesMemory, IdleWriter
<1>4. rooms' \in [Rooms -> RoomType] /\ writer' \in [Writers -> WriterType]
  BY NewRoomType DEF LosesMemory, IdleWriter, WriterType
<1> QED BY <1>2, <1>3, <1>4 DEF LosesMemory

LEMMA RestartType ==
  ASSUME TypeInv, Restart \/ \E k \in Conns : CrashInSnapshot(k)
  PROVE  TypeInv'
<1>1. LosesMemory
  BY DEF Restart, CrashInSnapshot
<1>2. used' \in [trash : Nat, fault : Nat, disk : Nat]
  BY FaultType DEF Restart, CrashInSnapshot, TypeInv
<1>3. yjsState' \in [have : BOOLEAN, seq : Nat, doc : SUBSET Updates]
  <2>1. CASE Restart
    BY <2>1 DEF Restart, dbVars, TypeInv, TypeOK
  <2>2. CASE \E k \in Conns : CrashInSnapshot(k)
    BY <2>2, CompactsFacts DEF CrashInSnapshot
  <2> QED BY <2>1, <2>2
<1> QED BY <1>1, <1>2, <1>3, LosesMemoryType
        DEF TypeInv, TypeOK, Restart, CrashInSnapshot, dbVars, historyVars

LEMMA StepType == TypeInv /\ [Next]_vars => TypeInv'
<1> SUFFICES ASSUME TypeInv, [Next]_vars PROVE TypeInv'
  OBVIOUS
<1>1. ASSUME NEW k \in Conns, ServerStep(k) PROVE TypeInv'
  BY <1>1, JoinType, RefuseStaleType, LoadType, DropFrameType, PersistFailsType,
     PersistUpdateType, SnapshotFailsType, ApplySnapshotType, CutsType, LeaveType
     DEF ServerStep
<1>2. ASSUME NEW k \in Conns, Recv(k) \/ NetDrop(k) \/ CrashInSnapshot(k) PROVE TypeInv'
  BY <1>2, RecvType, CutsType, RestartType
<1>3. ASSUME NEW t \in Tabs, TabStep(t) PROVE TypeInv'
  BY <1>3, MountType, SeedEditType, TabLeavesType, EndAccessType DEF TabStep
<1>4. CASE UNCHANGED vars
  BY <1>4 DEF vars, TypeInv, TypeOK, Located, InRoom
<1> QED BY <1>1, <1>2, <1>3, <1>4, DialType, WriterStepType, RestartType DEF Next

(* Every reachable state is well typed, and every connection that is past  *)
(* join points to a room (handleCollab dereferences it, collab.go:463).    *)
THEOREM TypeInvariant == Spec => []TypeOK
<1>1. TypeInv => TypeOK
  BY DEF TypeInv
<1> QED BY <1>1, InitType, StepType, PTL DEF Spec

COROLLARY LocatedInvariant == Spec => []TypeInv
BY InitType, StepType, PTL DEF Spec

-----------------------------------------------------------------------------
(* Membership: who is in which room, proved for every value of the         *)
(* constants, and what a room counts while nobody resets it.  Members is   *)
(* the invariant behind it: a room's members are connections that point to *)
(* it, and a connection that a reset emptied out is in no room's set,      *)
(* although it still points to one.                                        *)

Members ==
  /\ \A r \in Rooms : \A k \in rooms[r].conns : InRoom(k) /\ conn[k].room = r
  /\ \A k \in Conns : conn[k].kicked => InRoom(k) /\ k \notin rooms[conn[k].room].conns

Inside == {"joined", "open", "refused"}
SameMember(c, d) ==
  (c.st \in Inside <=> d.st \in Inside) /\ c.room = d.room /\ c.kicked = d.kicked

LEMMA SameMemberOps ==
  ASSUME NEW c \in ConnType
  PROVE  /\ \A m : SameMember(Queued(c, m), c)
         /\ SameMember(Shutdown(c), c)
         /\ SameMember(Taken(c), c)
         /\ SameMember(Cut(c), c)
         /\ SameMember([c EXCEPT !.closed = TRUE], c)
         /\ SameMember([c EXCEPT !.out = Tail(@)], c)
BY DEF SameMember, Inside, Queued, Shutdown, Taken, Cut, ConnType

(* What keeps Members: nobody's membership, place or mark changes, but of  *)
(* connections outside every room.                                         *)
Outside(k) == ~InRoom(k) /\ ~InRoom(k)' /\ ~conn'[k].kicked

Stays ==
  /\ \A k \in Conns : SameMember(conn'[k], conn[k]) \/ Outside(k)
  /\ \A r \in Rooms : rooms'[r].conns = rooms[r].conns

LEMMA MembersStay ==
  ASSUME TypeInv, Members, Stays
  PROVE  Members'
<1>1. \A r \in Rooms : rooms[r].conns \subseteq Conns
  BY DEF TypeInv, TypeOK, RoomType
<1>2. ASSUME NEW r \in Rooms, NEW k \in rooms'[r].conns
      PROVE  InRoom(k)' /\ conn'[k].room = r
  <2>1. k \in rooms[r].conns /\ k \in Conns /\ InRoom(k) /\ conn[k].room = r
    BY <1>1, <1>2 DEF Stays, Members
  <2>2. SameMember(conn'[k], conn[k])
    BY <2>1 DEF Stays, Outside
  <2> QED BY <2>1, <2>2 DEF SameMember, Inside, InRoom
<1>3. ASSUME NEW k \in Conns, conn'[k].kicked
      PROVE  InRoom(k)' /\ k \notin rooms'[conn'[k].room].conns
  <2>1. SameMember(conn'[k], conn[k])
    BY <1>3 DEF Stays, Outside
  <2>2. conn[k].kicked /\ InRoom(k) /\ k \notin rooms[conn[k].room].conns
    BY <1>3, <2>1 DEF SameMember, Members
  <2>3. conn[k].room \in Rooms
    BY <2>2 DEF TypeInv, Located
  <2> QED BY <2>1, <2>2, <2>3 DEF Stays, SameMember, Inside, InRoom
<1> QED BY <1>2, <1>3 DEF Members

LEMMA InitMembers == Init => Members
BY DEF Init, Members, NewRoom, FreeConn

LEMMA DialStays ==
  ASSUME TypeInv, Members, NEW t \in Tabs, NEW k \in Conns, Dial(t, k)
  PROVE  Stays
<1>1. \A j \in Conns : SameMember(conn'[j], conn[j]) \/ Outside(j)
  BY DEF Dial, Outside, InRoom, Inside, FreeConn, SameMember, Inside, TypeInv, TypeOK
<1> QED BY <1>1 DEF Stays, Dial

LEMMA JoinMembers ==
  ASSUME TypeInv, Members, NEW k \in Conns, Join(k)
  PROVE  Members'
<1>1. PICK r \in Rooms :
        /\ IF hub # NoRoom THEN r = hub ELSE Unreferenced(r)
        /\ rooms' = [rooms EXCEPT ![r] =
                      [(IF hub # NoRoom THEN rooms[r] ELSE NewRoom) EXCEPT
                         !.conns = @ \cup {k}]]
        /\ conn' = [conn EXCEPT ![k].st = "joined", ![k].room = r]
  BY DEF Join
<1>2. conn[k].st = "accepted" /\ ~InRoom(k) /\ ~conn[k].kicked
  BY DEF Join, InRoom, Members
<1>3. /\ conn'[k].st = "joined" /\ conn'[k].room = r /\ conn'[k].kicked = conn[k].kicked
      /\ \A j \in Conns \ {k} : conn'[j] = conn[j]
  BY <1>1 DEF TypeInv, TypeOK, ConnType
<1>4. /\ \A q \in Rooms \ {r} : rooms'[q] = rooms[q]
      /\ rooms'[r].conns = (IF hub # NoRoom THEN rooms[r].conns ELSE {}) \cup {k}
  BY <1>1 DEF TypeInv, TypeOK, RoomType, NewRoom
<1>5. \A q \in Rooms : k \notin rooms[q].conns /\ rooms[q].conns \subseteq Conns
  BY <1>2 DEF Members, TypeInv, TypeOK, RoomType
<1>6. ASSUME NEW q \in Rooms, NEW j \in rooms'[q].conns
      PROVE  InRoom(j)' /\ conn'[j].room = q
  <2>1. CASE j = k
    BY <1>3, <1>4, <1>5, <1>6, <2>1 DEF InRoom
  <2>2. CASE j # k
    <3>1. j \in rooms[q].conns
      BY <1>4, <1>6, <2>2
    <3> QED BY <1>3, <1>5, <2>2, <3>1 DEF Members, InRoom
  <2> QED BY <2>1, <2>2
<1>7. ASSUME NEW j \in Conns, conn'[j].kicked
      PROVE  InRoom(j)' /\ j \notin rooms'[conn'[j].room].conns
  <2>1. j # k /\ conn'[j] = conn[j]
    BY <1>2, <1>3, <1>7
  <2>2. InRoom(j) /\ j \notin rooms[conn[j].room].conns /\ conn[j].room \in Rooms
    BY <1>7, <2>1 DEF Members, TypeInv, Located
  <2> QED BY <1>4, <2>1, <2>2 DEF InRoom
<1> QED BY <1>6, <1>7 DEF Members

LEMMA ServerStays ==
  ASSUME TypeInv, Members, NEW k \in Conns,
         \/ RefuseStale(k) \/ Load(k) \/ DropFrame(k) \/ PersistFails(k)
         \/ PersistUpdate(k) \/ SnapshotFails(k) \/ ApplySnapshot(k)
         \/ CloseSocket(k) \/ NetDrop(k) \/ PeerGone(k) \/ Recheck(k)
  PROVE  Stays
<1>0. \A j \in Conns : conn[j] \in ConnType /\ SameMember(conn[j], conn[j])
  BY DEF SameMember, Inside, TypeInv, TypeOK
<1>1. CASE RefuseStale(k)
  <2>1. \A j \in Conns : SameMember(conn'[j], conn[j])
    BY <1>0, <1>1 DEF RefuseStale, SameMember, Inside, ConnType, TypeInv, TypeOK
  <2> QED BY <1>1, <2>1 DEF Stays, RefuseStale
<1>2. CASE Load(k)
  <2> DEFINE r == conn[k].room
             new == FindsNew(rooms[r])
             fs == <<Hello(new)>> \o Replay \o <<Synced>>
             q == QueuedAll(conn[k], fs)
  <2>1. /\ conn' = [conn EXCEPT ![k] = [q EXCEPT !.st = "open"]]
        /\ conn[k].st = "joined" /\ conn \in [Conns -> ConnType]
    BY <1>2 DEF Load, TypeInv, TypeOK
  <2>2. q.room = r /\ q.kicked = conn[k].kicked
    BY <1>0 DEF QueuedAll, Shutdown, ConnType
  <2>3. \A j \in Conns : SameMember(conn'[j], conn[j])
    <3>1. q \in ConnType
      <4>1. Hello(new) \in OutFrames /\ Synced \in OutFrames
        BY DEF Hello, Synced, OutFrames, FindsNew
      <4>2. fs \in Seq(OutFrames)
        BY <4>1, ReplayType, ConcatProperties DEF TypeInv
      <4> QED BY <1>0, <4>2, QueuedAllType
    <3> HIDE DEF q
    <3> QED BY <1>0, <2>1, <2>2, <3>1 DEF SameMember, Inside, ConnType
  <2>4. \A p \in Rooms : rooms'[p].conns = rooms[p].conns
    <3>1. r \in Rooms /\ rooms[r] \in RoomType
      BY <2>1 DEF TypeInv, TypeOK, Located, InRoom
    <3>2. Loaded(rooms[r]).conns = rooms[r].conns /\ Loaded(rooms[r]) \in RoomType
      BY <3>1, LoadedType DEF TypeInv
    <3>3. rooms' = [rooms EXCEPT ![r] =
                      [Loaded(rooms[r]) EXCEPT !.seedConn = IF new THEN k ELSE @]]
      BY <1>2 DEF Load
    <3> QED BY <3>1, <3>2, <3>3 DEF TypeInv, TypeOK, RoomType
  <2> QED BY <2>3, <2>4 DEF Stays
<1>3. CASE DropFrame(k)
  <2>1. \A j \in Conns : SameMember(conn'[j], conn[j])
    BY <1>0, <1>3, SameMemberOps DEF DropFrame, TypeInv, TypeOK
  <2> QED BY <1>3, <2>1 DEF Stays, DropFrame
<1>4. CASE PersistFails(k)
  <2>1. \A j \in Conns : SameMember(conn'[j], conn[j])
    BY <1>0, <1>4, SameMemberOps DEF PersistFails, TypeInv, TypeOK
  <2>2. \A p \in Rooms : rooms'[p].conns = rooms[p].conns
    BY <1>4 DEF PersistFails, TypeInv, TypeOK, RoomType
  <2> QED BY <2>1, <2>2 DEF Stays
<1>5. CASE PersistUpdate(k)
  <2> DEFINE r == conn[k].room
             R == rooms[r]
             m == Head(conn[k].inq)
             n == R.seq + 1
             asks == R.pending + 1 >= compactThreshold /\ ~R.compacting
             others == Others(R, k)
             c == Taken(conn[k])
  <2>1. PICK acc \in Takers(others), got \in BOOLEAN :
        conn' = [Broadcast(others, acc, m) EXCEPT ![k] =
                   IF ~asks THEN c
                   ELSE IF got THEN Queued(c, SnapshotRequest(n)) ELSE Shutdown(c)]
    BY <1>5, ZenonT(40) DEF PersistUpdate
  <2>2. c \in ConnType /\ r \in Rooms
    BY <1>5, HeadOf, Zenon DEF PersistUpdate, TypeInv, Located, Reads, InRoom
  <2>3. /\ SameMember(c, conn[k]) /\ SameMember(Shutdown(c), c)
        /\ SameMember(Queued(c, SnapshotRequest(n)), c)
    BY <1>0, <2>2, SameMemberOps
  <2>4. \A j \in Conns : SameMember(Broadcast(others, acc, m)[j], conn[j])
    BY <1>0, SameMemberOps DEF Broadcast
  <2>5. \A j \in Conns : SameMember(conn'[j], conn[j])
    <3>1. \A j \in Conns \ {k} : conn'[j] = Broadcast(others, acc, m)[j]
      BY <2>1 DEF Broadcast
    <3>2. conn'[k] \in {c, Queued(c, SnapshotRequest(n)), Shutdown(c)}
      BY <2>1 DEF Broadcast
    <3> QED BY <2>3, <2>4, <3>1, <3>2 DEF SameMember, Inside
  <2>6. \A p \in Rooms : rooms'[p].conns = rooms[p].conns
    <3>1. rooms' = [rooms EXCEPT ![r] =
                 [R EXCEPT !.seeded = TRUE, !.seq = n, !.pending = @ + 1,
                           !.compacting = @ \/ asks,
                           !.compactConn = IF asks THEN k ELSE @]]
      BY <1>5, Zenon DEF PersistUpdate
    <3> HIDE DEF asks, n
    <3> QED BY <2>2, <3>1 DEF TypeInv, TypeOK, RoomType
  <2> QED BY <2>5, <2>6 DEF Stays
<1>6. CASE SnapshotFails(k) \/ ApplySnapshot(k)
  <2> DEFINE r == conn[k].room
             p == Remaining(rooms[r], Head(conn[k].inq).seq)
  <2>1. /\ conn' = [conn EXCEPT ![k] = Taken(conn[k])] /\ Compacts(k)
        /\ \/ rooms' = [rooms EXCEPT ![r] = NotCompacting(rooms[r])]
           \/ rooms' = [rooms EXCEPT ![r] = [NotCompacting(rooms[r]) EXCEPT !.pending = p]]
    BY <1>6 DEF SnapshotFails, ApplySnapshot
  <2>2. \A j \in Conns : SameMember(conn'[j], conn[j])
    BY <1>0, <2>1, SameMemberOps DEF TypeInv, TypeOK
  <2>3. r \in Rooms /\ rooms[r] \in RoomType
    BY <2>1, CompactsFacts
  <2>4. \A q \in Rooms : rooms'[q].conns = rooms[q].conns
    <3>1. NotCompacting(rooms[r]).conns = rooms[r].conns /\ NotCompacting(rooms[r]) \in RoomType
      BY <2>3, NotCompactingType
    <3> DEFINE M == NotCompacting(rooms[r])
    <3>2. [M EXCEPT !.pending = p].conns = rooms[r].conns
      <4> HIDE DEF p, M
      <4> QED BY <3>1 DEF RoomType, M
    <3> HIDE DEF p, M
    <3> QED BY <2>1, <2>3, <3>1, <3>2 DEF TypeInv, TypeOK, M
  <2> QED BY <2>2, <2>4 DEF Stays
<1>7. CASE CloseSocket(k) \/ NetDrop(k) \/ PeerGone(k) \/ Recheck(k)
  <2>1. \A j \in Conns : SameMember(conn'[j], conn[j])
    <3>1. \/ conn' = [conn EXCEPT ![k] = [conn[k] EXCEPT !.closed = TRUE]]
          \/ conn' = [conn EXCEPT ![k] = Cut(conn[k])]
          \/ conn' = [conn EXCEPT ![k] = Shutdown(conn[k])]
      BY <1>7 DEF CloseSocket, NetDrop, PeerGone, Recheck
    <3> QED BY <1>0, <3>1, SameMemberOps DEF TypeInv, TypeOK
  <2> QED BY <1>7, <2>1 DEF Stays, CloseSocket, NetDrop, PeerGone, Recheck
<1> QED BY <1>1, <1>2, <1>3, <1>4, <1>5, <1>6, <1>7

LEMMA LeaveMembers ==
  ASSUME TypeInv, Members, NEW k \in Conns, Leave(k)
  PROVE  Members'
<1> DEFINE r == conn[k].room
           R == rooms[r]
           left == [R EXCEPT
                 !.conns = @ \ {k},
                 !.seedConn = IF @ = k /\ ~R.seeded THEN Nil ELSE @,
                 !.compacting = @ /\ R.compactConn # k,
                 !.compactConn = IF @ = k THEN Nil ELSE @]
           hub2 == IF IsEmpty(left) THEN NoRoom ELSE hub
           garbage == /\ r # hub2 /\ \A w \in Writers : writer[w].room # r
                      /\ \A j \in Conns \ {k} : InRoom(j) => conn[j].room # r
           code == IF conn[k].st = "refused" /\ ~conn[k].done
                   THEN "reset" ELSE conn[k].code
<1>1. /\ conn[k].st \in {"open", "refused"} /\ r \in Rooms /\ R \in RoomType
      /\ conn[k].st # "free"
  BY DEF Leave, TypeInv, TypeOK, Located, InRoom
<1>2. /\ rooms' = [rooms EXCEPT ![r] = IF garbage THEN NewRoom ELSE left]
      /\ conn' = [conn EXCEPT ![k] = Released(k, code)]
  BY DEF Leave
<1>3. left.conns = R.conns \ {k}
  BY <1>1 DEF RoomType
<1>4. /\ ~InRoom(k)' /\ ~conn'[k].kicked
      /\ \A j \in Conns \ {k} : conn'[j] = conn[j]
  BY <1>1, <1>2, ReleasedPlace DEF InRoom, TypeInv, TypeOK
<1>5. /\ \A q \in Rooms \ {r} : rooms'[q] = rooms[q]
      /\ rooms'[r].conns \subseteq R.conns \ {k}
  <2> DEFINE X == IF garbage THEN NewRoom ELSE left
  <2>1. X.conns \subseteq R.conns \ {k}
    <3> HIDE DEF left, garbage
    <3> QED BY <1>3 DEF NewRoom
  <2>2. rooms' = [rooms EXCEPT ![r] = X]
    BY <1>2
  <2> HIDE DEF X
  <2> QED BY <1>1, <2>1, <2>2 DEF TypeInv, TypeOK
<1>6. \A q \in Rooms : rooms[q].conns \subseteq Conns /\ (k \in rooms[q].conns => q = r)
  BY DEF Members, TypeInv, TypeOK, RoomType
<1> HIDE DEF r, R
<1>7. \A q \in Rooms : \A j \in rooms'[q].conns : j \in rooms[q].conns /\ j # k
  BY <1>1, <1>5, <1>6 DEF R
<1>8. ASSUME NEW q \in Rooms, NEW j \in rooms'[q].conns
      PROVE  InRoom(j)' /\ conn'[j].room = q
  BY <1>4, <1>6, <1>7, <1>8 DEF Members, InRoom
<1>9. ASSUME NEW j \in Conns, conn'[j].kicked
      PROVE  InRoom(j)' /\ j \notin rooms'[conn'[j].room].conns
  <2>1. j # k /\ conn'[j] = conn[j]
    BY <1>4, <1>9
  <2>2. InRoom(j) /\ j \notin rooms[conn[j].room].conns /\ conn[j].room \in Rooms
    BY <1>9, <2>1 DEF Members, TypeInv, Located
  <2> QED BY <1>7, <2>1, <2>2 DEF InRoom
<1> QED BY <1>8, <1>9 DEF Members

(* What the steps of a tab leave alone: the place and the mark of a        *)
(* connection that is not outside every room.                              *)
Still(c, d) == SamePlace(c, d) /\ c.kicked = d.kicked
Settled == \A j \in Conns : Still(conn'[j], conn[j]) \/ Outside(j)

LEMMA StillOps ==
  ASSUME NEW c \in ConnType
  PROVE  /\ Still(Shutdown(c), c) /\ Still(Taken(c), c) /\ Still(Cut(c), c)
         /\ Still([c EXCEPT !.closed = TRUE], c)
         /\ Still([c EXCEPT !.out = Tail(@)], c)
BY DEF Still, SamePlace, Shutdown, Taken, Cut, ConnType

LEMMA TabStill ==
  ASSUME TypeInv, Members,
         \/ \E k \in Conns : Recv(k)
         \/ \E t \in Tabs : TabStep(t)
  PROVE  Settled /\ UNCHANGED rooms
<1>0. \A j \in Conns : /\ conn[j] \in ConnType /\ Still(conn[j], conn[j])
                       /\ conn[j].st = "gone" => ~conn[j].kicked
  BY DEF Still, SamePlace, TypeInv, TypeOK, Members, InRoom
<1>1. UNCHANGED rooms
  BY Zenon DEF Recv, TabStep, Mount, Seed, Edit, OnClose, Abandon, CloseTab,
     EndAccess, LosesWrite, LosesRead
<1>2. ASSUME NEW cs, cs \in [Conns -> ConnType], NEW k \in Conns \cup {Nil}, NEW fs
      PROVE  \A j \in Conns : Still(SendOn(cs, k, fs)[j], cs[j])
  BY <1>2, SendOnPlace, ZenonT(40) DEF Still, SamePlace
<1>3. ASSUME NEW k \in Conns, Recv(k) PROVE Settled
  <2> DEFINE c == [conn[k] EXCEPT !.out = Tail(@)]
             popped == [conn EXCEPT ![k] = c]
  <2>1. PICK fs : conn' = popped \/ conn' = SendOn(popped, k, fs)
    BY <1>3, Zenon DEF Recv
  <2>2. conn[k].out # <<>>
    BY <1>3, Zenon DEF Recv
  <2>3. c \in ConnType
    BY <1>0, <2>2, OutType, HeadTailProperties
  <2>4. popped \in [Conns -> ConnType]
    BY <2>3 DEF TypeInv, TypeOK
  <2>5. \A j \in Conns : Still(popped[j], conn[j])
    BY <1>0, StillOps DEF TypeInv, TypeOK
  <2>6. \A j \in Conns : Still(SendOn(popped, k, fs)[j], popped[j])
    <3>1. k \in Conns \cup {Nil}
      OBVIOUS
    <3> HIDE DEF popped
    <3> QED BY <1>2, <2>4, <3>1
  <2>7. \A j \in Conns : Still(conn'[j], conn[j])
    <3> HIDE DEF popped
    <3> QED BY <2>1, <2>5, <2>6 DEF Still, SamePlace
  <2> QED BY <2>7 DEF Settled
<1>4. ASSUME NEW t \in Tabs, Mount(t) \/ Seed(t) \/ Edit(t) PROVE Settled
  <2>1. \A j \in Conns : Still(conn'[j], conn[j])
    <3>1. CASE UNCHANGED conn
      BY <1>0, <3>1
    <3>2. CASE Makes(t)
      <4>1. conn \in [Conns -> ConnType] /\ tab[t].conn \in Conns \cup {Nil}
        BY DEF TypeInv, TypeOK, TabType
      <4> QED BY <1>2, <3>2, <4>1 DEF Makes
    <3> QED BY <1>4, <3>1, <3>2 DEF Mount, Seed, Edit
  <2> QED BY <2>1 DEF Settled
<1>5. ASSUME NEW t \in Tabs, OnClose(t) \/ Abandon(t) \/ CloseTab(t) PROVE Settled
  <2> DEFINE k == tab[t].conn
  <2>1. conn' = conn \/ (k \in Conns /\ conn' = LetGo(k))
    BY <1>5 DEF OnClose, Abandon, CloseTab, TypeInv, TypeOK, TabType
  <2>2. \A j \in Conns : Still(conn'[j], conn[j]) \/ Outside(j)
    <3>1. CASE conn' = conn
      BY <1>0, <3>1
    <3>2. CASE k \in Conns /\ conn' = LetGo(k)
      <4>1. \A j \in Conns : \/ conn'[j] = conn[j]
                             \/ conn[j].st = "gone" /\ conn'[j] = FreeConn
        BY <3>2 DEF LetGo, TypeInv, TypeOK
      <4> QED BY <1>0, <4>1 DEF Outside, InRoom, FreeConn
    <3> QED BY <2>1, <3>1, <3>2
  <2> QED BY <2>2 DEF Settled
<1>6. ASSUME NEW t \in Tabs, EndAccess(t) PROVE Settled
  <2>1. \A j \in Conns : conn'[j] = conn[j] \/ conn'[j] = Shutdown(conn[j])
    BY <1>6 DEF EndAccess, LosesWrite, LosesRead
  <2> QED BY <1>0, <2>1, StillOps DEF Settled
<1> QED BY <1>1, <1>3, <1>4, <1>5, <1>6 DEF TabStep

LEMMA TabStays ==
  ASSUME TypeInv, Members,
         \/ \E k \in Conns : Recv(k)
         \/ \E t \in Tabs : TabStep(t)
  PROVE  Stays
BY TabStill DEF Stays, Settled, Still, SamePlace, SameMember, Inside

(* A room is emptied and its members are marked, or nobody is touched.     *)
LEMMA EmptiedMembers ==
  ASSUME TypeInv, Members, NEW r \in Rooms, NEW R, R.conns = {},
         rooms' = [rooms EXCEPT ![r] = R],
         conn' = [k \in Conns |-> IF k \in rooms[r].conns THEN Reset4001(conn[k])
                                  ELSE conn[k]]
  PROVE  Members'
<1>1. \A j \in Conns :
        /\ InRoom(j) <=> InRoom(j)'
        /\ conn'[j].room = conn[j].room
        /\ conn'[j].kicked => conn[j].kicked \/ j \in rooms[r].conns
  <2> SUFFICES ASSUME NEW j \in Conns
               PROVE  /\ InRoom(j) <=> InRoom(j)'
                      /\ conn'[j].room = conn[j].room
                      /\ conn'[j].kicked => conn[j].kicked \/ j \in rooms[r].conns
    OBVIOUS
  <2>1. conn[j] \in ConnType
    BY DEF TypeInv, TypeOK
  <2>2. SamePlace(Reset4001(conn[j]), conn[j])
    BY <2>1, SamePlaceOps
  <2> QED BY <2>2 DEF SamePlace, InRoom
<1>2. /\ rooms'[r].conns = {}
      /\ \A q \in Rooms \ {r} : rooms'[q] = rooms[q]
      /\ \A q \in Rooms : rooms[q].conns \subseteq Conns
  BY DEF TypeInv, TypeOK, RoomType
<1>3. ASSUME NEW q \in Rooms, NEW j \in rooms'[q].conns
      PROVE  InRoom(j)' /\ conn'[j].room = q
  BY <1>1, <1>2, <1>3 DEF Members
<1>4. ASSUME NEW j \in Conns, conn'[j].kicked
      PROVE  InRoom(j)' /\ j \notin rooms'[conn'[j].room].conns
  <2>1. CASE j \in rooms[r].conns
    BY <1>1, <1>2, <2>1 DEF Members
  <2>2. CASE j \notin rooms[r].conns
    <3>1. InRoom(j) /\ j \notin rooms[conn[j].room].conns /\ conn[j].room \in Rooms
      BY <1>1, <1>4, <2>2 DEF Members, TypeInv, Located
    <3> QED BY <1>1, <1>2, <3>1
  <2> QED BY <2>1, <2>2
<1> QED BY <1>3, <1>4 DEF Members

LEMMA WriterMembers ==
  ASSUME TypeInv, Members, NEW w \in Writers, WriterStep(w)
  PROVE  Members'
<1> DEFINE r == writer[w].room
<1>1. CASE ResetRoom(w)
  <2>1. r \in Rooms /\ NewRoom.conns = {}
    BY <1>1 DEF ResetRoom, TypeInv, TypeOK, WriterType, NewRoom
  <2>2. /\ rooms' = [rooms EXCEPT ![r] = NewRoom]
        /\ conn' = [k \in Conns |-> IF k \in rooms[r].conns THEN Reset4001(conn[k])
                                    ELSE conn[k]]
    BY <1>1 DEF ResetRoom
  <2> QED BY <2>1, <2>2, EmptiedMembers
<1>2. CASE KickRoom(w)
  <2> DEFINE R == [rooms[r] EXCEPT !.loaded = FALSE, !.conns = {}]
  <2>1. r \in Rooms
    BY <1>2 DEF KickRoom, At, TypeInv, Located
  <2>2. rooms[r] \in RoomType
    BY <2>1 DEF TypeInv, TypeOK
  <2>3. R.conns = {}
    BY <2>2 DEF RoomType
  <2>4. /\ rooms' = [rooms EXCEPT ![r] = R]
        /\ conn' = [k \in Conns |-> IF k \in rooms[r].conns THEN Reset4001(conn[k])
                                    ELSE conn[k]]
    BY <1>2 DEF KickRoom
  <2> HIDE DEF R
  <2> QED BY <2>1, <2>3, <2>4, EmptiedMembers
<1>3. CASE UNCHANGED <<rooms, conn>>
  BY <1>3, MembersStay DEF Stays, SameMember
<1> QED BY <1>1, <1>2, <1>3
        DEF WriterStep, OutsideWrite, ResetLookup, ResetUpdates, ResetState, Trash,
            KickLookup, Restore

LEMMA RestartMembers ==
  ASSUME TypeInv, Members, LosesMemory
  PROVE  Members'
<1>1. \A r \in Rooms : rooms'[r].conns = {}
  BY DEF LosesMemory, NewRoom
<1>2. \A k \in Conns : ~conn'[k].kicked
  <2> SUFFICES ASSUME NEW k \in Conns PROVE ~conn'[k].kicked
    OBVIOUS
  <2>1. CASE InServer(k)
    BY <2>1, ReleasedPlace DEF LosesMemory, InServer
  <2>2. CASE ~InServer(k)
    BY <2>2 DEF LosesMemory, Members, InServer, InRoom
  <2> QED BY <2>1, <2>2
<1> QED BY <1>1, <1>2 DEF Members

LEMMA StepMembers == TypeInv /\ Members /\ [Next]_vars => Members'
<1> SUFFICES ASSUME TypeInv, Members, [Next]_vars PROVE Members'
  OBVIOUS
<1>1. ASSUME NEW k \in Conns, ServerStep(k) \/ NetDrop(k) PROVE Members'
  BY <1>1, JoinMembers, ServerStays, MembersStay, LeaveMembers DEF ServerStep
<1>2. ASSUME Restart \/ \E k \in Conns : CrashInSnapshot(k) PROVE Members'
  BY <1>2, RestartMembers DEF Restart, CrashInSnapshot
<1>3. CASE UNCHANGED vars
  BY <1>3 DEF vars, Members, InRoom
<1> QED BY <1>1, <1>2, <1>3, TabStays, DialStays, MembersStay, WriterMembers DEF Next

-----------------------------------------------------------------------------
(* A connection that was emptied out of its room is silent.                *)

LEMMA MuteStep ==
  ASSUME TypeInv, Members, [Next]_vars, NEW k \in Conns, conn[k].kicked,
         Len(conn'[k].inq) < Len(conn[k].inq)
  PROVE  Len(yjsUpdates') <= Len(yjsUpdates)
<1>0. Len(yjsUpdates) \in Nat /\ Len(conn[k].inq) \in Nat
  BY LenProperties, InqType DEF TypeInv, TypeOK
<1>1. ASSUME NEW j \in Conns, PersistUpdate(j) PROVE FALSE
  <2>1. IsMember(j)
    BY <1>1 DEF PersistUpdate
  <2>2. j # k
    BY <2>1 DEF IsMember, Members
  <2> DEFINE R == rooms[conn[j].room]
             m == Head(conn[j].inq)
             asks == R.pending + 1 >= compactThreshold /\ ~R.compacting
             to == Others(R, j)
             d(got) == IF ~asks THEN Taken(conn[j])
                       ELSE IF got THEN Queued(Taken(conn[j]), SnapshotRequest(R.seq + 1))
                       ELSE Shutdown(Taken(conn[j]))
  <2>3. PICK acc \in Takers(to), got \in BOOLEAN :
          conn' = [Broadcast(to, acc, m) EXCEPT ![j] = d(got)]
    BY <1>1, Zenon DEF PersistUpdate
  <2> HIDE DEF to, m, d
  <2>4. conn'[k] \in {Queued(conn[k], m), Shutdown(conn[k]), conn[k]}
    BY <2>2, <2>3 DEF Broadcast
  <2>5. conn[k] \in ConnType
    BY DEF TypeInv, TypeOK
  <2>6. conn'[k].inq = conn[k].inq
    BY <2>4, <2>5 DEF Queued, Shutdown, ConnType
  <2> QED BY <1>0, <2>6
<1>2. ASSUME NEW j \in Conns, ApplySnapshot(j)
      PROVE  Len(yjsUpdates') <= Len(yjsUpdates)
  <2> DEFINE n == Head(conn[j].inq).seq
  <2>1. n \in Nat
    BY <1>2, CompactsFacts DEF ApplySnapshot
  <2>2. yjsUpdates' = LogAfter(n)
    BY <1>2 DEF ApplySnapshot
  <2> HIDE DEF n
  <2> QED BY <2>1, <2>2, LogAfterType DEF TypeInv
<1>3. CASE yjsUpdates' = <<>>
  BY <1>0, <1>3
<1>4. CASE UNCHANGED yjsUpdates
  BY <1>0, <1>4
<1>5. ASSUME NEW j \in Conns, ServerStep(j) \/ Recv(j) \/ NetDrop(j) \/ CrashInSnapshot(j)
      PROVE  \/ PersistUpdate(j) \/ ApplySnapshot(j) \/ UNCHANGED yjsUpdates
  BY <1>5, Zenon DEF ServerStep, Join, RefuseStale, Load, DropFrame, PersistFails, SnapshotFails,
     CloseSocket, PeerGone, Recheck, Leave, Recv, NetDrop, CrashInSnapshot, dbVars
<1>6. ASSUME NEW t \in Tabs, TabStep(t) \/ \E j \in Conns : Dial(t, j)
      PROVE  UNCHANGED yjsUpdates
  BY <1>6 DEF TabStep, Mount, Seed, Edit, OnClose, Abandon, CloseTab, EndAccess,
     LosesWrite, LosesRead, Dial, dbVars
<1>7. ASSUME NEW w \in Writers, WriterStep(w)
      PROVE  yjsUpdates' = <<>> \/ UNCHANGED yjsUpdates
  BY <1>7 DEF WriterStep, OutsideWrite, ResetLookup, ResetUpdates, ResetState, ResetRoom,
     Trash, KickLookup, KickRoom, Restore, dbVars
<1>8. ASSUME Restart \/ UNCHANGED vars PROVE UNCHANGED yjsUpdates
  BY <1>8 DEF Restart, vars, dbVars
<1> QED BY <1>1, <1>2, <1>3, <1>4, <1>5, <1>6, <1>7, <1>8 DEF Next

(* In every room, with any number of tabs, rooms and outside writes, a     *)
(* connection a reset or a trashing emptied out of its room adds nothing   *)
(* to the log: persistUpdate asks for membership under the lock the reset  *)
(* takes it away under (collab.go:31-35, 599-603).                         *)
THEOREM KickedStaysMute == Spec => KickedIsMute
<1>1. Init => TypeInv /\ Members
  BY InitType, InitMembers
<1>2. TypeInv /\ Members /\ [Next]_vars => (TypeInv /\ Members)'
  BY StepType, StepMembers
<1>3. TypeInv /\ Members /\ [Next]_vars
        => [\A k \in Conns :
              conn[k].kicked /\ Len(conn'[k].inq) < Len(conn[k].inq) /\ conn'[k].st = "open"
                => Len(yjsUpdates') <= Len(yjsUpdates)]_vars
  BY MuteStep
<1> QED BY <1>1, <1>2, <1>3, PTL DEF Spec, KickedIsMute

-----------------------------------------------------------------------------
(* Without outside writes and trashing no room is ever left behind.        *)

NoReset == MaxWrites = 0 /\ MaxTrash = 0

AllInHub ==
  /\ docGen = 0 /\ ~trashed
  /\ used.trash = 0
  /\ \A w \in Writers : writer[w] = IdleWriter
  /\ \A k \in Conns : InRoom(k) => conn[k].room = hub /\ k \in rooms[hub].conns

LEMMA InitAllInHub == Init => AllInHub
BY DEF Init, AllInHub, InRoom, FreeConn

LEMMA AllInHubStays ==
  ASSUME TypeInv, AllInHub, Stays,
         UNCHANGED <<docGen, trashed, hub, writer>>, used'.trash = used.trash
  PROVE  AllInHub'
<1>1. ASSUME NEW k \in Conns, InRoom(k)'
      PROVE  conn'[k].room = hub' /\ k \in rooms'[hub'].conns
  <2>1. InRoom(k) /\ conn'[k].room = conn[k].room
    BY <1>1 DEF Stays, Outside, SameMember, Inside, InRoom
  <2>2. hub \in Rooms
    BY <2>1 DEF AllInHub, TypeInv, Located
  <2> QED BY <2>1, <2>2 DEF AllInHub, Stays
<1> QED BY <1>1 DEF AllInHub

LEMMA FaultTrash ==
  ASSUME TypeInv, Fault \/ DiskFault \/ UNCHANGED used
  PROVE  used'.trash = used.trash
BY DEF Fault, DiskFault, TypeInv, TypeOK

LEMMA JoinAllInHub ==
  ASSUME TypeInv, AllInHub, NEW k \in Conns, Join(k)
  PROVE  AllInHub'
<1>1. PICK r \in Rooms :
        /\ IF hub # NoRoom THEN r = hub ELSE Unreferenced(r)
        /\ hub' = r
        /\ rooms' = [rooms EXCEPT ![r] =
                      [(IF hub # NoRoom THEN rooms[r] ELSE NewRoom) EXCEPT
                         !.conns = @ \cup {k}]]
        /\ conn' = [conn EXCEPT ![k].st = "joined", ![k].room = r]
  BY DEF Join
<1>2. /\ conn'[k].room = r
      /\ \A j \in Conns \ {k} : conn'[j] = conn[j]
      /\ rooms'[r].conns = (IF hub # NoRoom THEN rooms[r].conns ELSE {}) \cup {k}
  BY <1>1 DEF TypeInv, TypeOK, ConnType, RoomType, NewRoom
<1>3. ASSUME NEW j \in Conns, InRoom(j)'
      PROVE  conn'[j].room = hub' /\ j \in rooms'[hub'].conns
  <2>1. CASE j = k
    BY <1>1, <1>2, <2>1
  <2>2. CASE j # k
    <3>1. InRoom(j) /\ conn[j].room = hub /\ j \in rooms[hub].conns
      BY <1>2, <1>3, <2>2 DEF AllInHub, InRoom
    <3>2. hub # NoRoom
      BY <3>1 DEF TypeInv, Located, Rooms, NoRoom
    <3> QED BY <1>1, <1>2, <2>2, <3>1, <3>2, Zenon
  <2> QED BY <2>1, <2>2
<1> QED BY <1>3 DEF AllInHub, Join, dbVars

LEMMA LeaveAllInHub ==
  ASSUME TypeInv, Members, AllInHub, NEW k \in Conns, Leave(k)
  PROVE  AllInHub'
<1> DEFINE r == conn[k].room
           R == rooms[r]
           left == [R EXCEPT
                 !.conns = @ \ {k},
                 !.seedConn = IF @ = k /\ ~R.seeded THEN Nil ELSE @,
                 !.compacting = @ /\ R.compactConn # k,
                 !.compactConn = IF @ = k THEN Nil ELSE @]
           hub2 == IF IsEmpty(left) THEN NoRoom ELSE hub
           garbage == /\ r # hub2 /\ \A w \in Writers : writer[w].room # r
                      /\ \A j \in Conns \ {k} : InRoom(j) => conn[j].room # r
           code == IF conn[k].st = "refused" /\ ~conn[k].done
                   THEN "reset" ELSE conn[k].code
<1>1. /\ InRoom(k) /\ r = hub /\ k \in R.conns /\ r \in Rooms /\ R \in RoomType
      /\ conn[k].st # "free"
  BY DEF Leave, TypeInv, TypeOK, Located, InRoom, AllInHub
<1>2. /\ rooms' = [rooms EXCEPT ![r] = IF garbage THEN NewRoom ELSE left]
      /\ conn' = [conn EXCEPT ![k] = Released(k, code)]
      /\ hub' = hub2
  BY DEF Leave
<1>3. left.conns = R.conns \ {k}
  BY <1>1 DEF RoomType
<1>4. ~InRoom(k)' /\ \A j \in Conns \ {k} : conn'[j] = conn[j]
  BY <1>1, <1>2, ReleasedPlace DEF InRoom, TypeInv, TypeOK
<1>5. ASSUME NEW j \in Conns, InRoom(j)'
      PROVE  conn'[j].room = hub' /\ j \in rooms'[hub'].conns
  <2>1. j # k /\ conn'[j] = conn[j] /\ InRoom(j) /\ conn[j].room = r /\ j \in R.conns
    BY <1>1, <1>4, <1>5 DEF InRoom, AllInHub
  <2>2. hub2 = hub /\ ~garbage
    <3> HIDE DEF left
    <3> QED BY <1>3, <2>1 DEF IsEmpty
  <2>3. rooms'[r] = left
    <3> HIDE DEF left, garbage
    <3> QED BY <1>1, <1>2, <2>2 DEF TypeInv, TypeOK
  <2> HIDE DEF left, garbage, hub2
  <2> QED BY <1>1, <1>2, <1>3, <2>1, <2>2, <2>3
<1> QED BY <1>5, Zenon DEF AllInHub, Leave, dbVars

LEMMA WriterAllInHub ==
  ASSUME TypeInv, NoReset, AllInHub, NEW w \in Writers, WriterStep(w)
  PROVE  FALSE
BY DEF NoReset, AllInHub, IdleWriter, WriterStep, OutsideWrite, ResetLookup, ResetUpdates,
       ResetState, ResetRoom, Trash, KickLookup, KickRoom, Restore, At

LEMMA RestartAllInHub ==
  ASSUME TypeInv, AllInHub, LosesMemory, UNCHANGED <<docGen, trashed>>,
         used'.trash = used.trash
  PROVE  AllInHub'
<1>1. \A k \in Conns : ~InRoom(k)'
  <2> SUFFICES ASSUME NEW k \in Conns PROVE ~InRoom(k)'
    OBVIOUS
  <2>1. CASE InServer(k)
    BY <2>1, ReleasedPlace DEF LosesMemory, InServer, InRoom
  <2>2. CASE ~InServer(k)
    BY <2>2 DEF LosesMemory, InServer, InRoom
  <2> QED BY <2>1, <2>2
<1> QED BY <1>1 DEF AllInHub, LosesMemory

LEMMA StepAllInHub ==
  NoReset /\ TypeInv /\ Members /\ AllInHub /\ [Next]_vars => AllInHub'
<1> SUFFICES ASSUME NoReset, TypeInv, Members, AllInHub, [Next]_vars PROVE AllInHub'
  OBVIOUS
<1>1. ASSUME NEW k \in Conns, ServerStep(k) \/ NetDrop(k) PROVE AllInHub'
  <2>1. CASE Join(k) \/ Leave(k)
    BY <2>1, JoinAllInHub, LeaveAllInHub
  <2>2. CASE ~(Join(k) \/ Leave(k))
    <3>1. Stays
      BY <1>1, <2>2, ServerStays DEF ServerStep
    <3>2. used'.trash = used.trash
      BY <1>1, <2>2, FaultTrash, ZenonT(40) DEF ServerStep, RefuseStale, Load, DropFrame,
         PersistFails,
         PersistUpdate, SnapshotFails, ApplySnapshot, CloseSocket, PeerGone, Recheck, NetDrop
    <3>3. UNCHANGED <<docGen, trashed, hub, writer>>
      BY <1>1, <2>2, Zenon DEF ServerStep, RefuseStale, Load, DropFrame, PersistFails,
         PersistUpdate, SnapshotFails, ApplySnapshot, CloseSocket, PeerGone, Recheck, NetDrop,
         dbVars
    <3> QED BY <3>1, <3>2, <3>3, AllInHubStays
  <2> QED BY <2>1, <2>2
<1>2. ASSUME Restart \/ \E k \in Conns : CrashInSnapshot(k) PROVE AllInHub'
  <2>1. LosesMemory /\ UNCHANGED <<docGen, trashed>> /\ used'.trash = used.trash
    BY <1>2, FaultTrash DEF Restart, CrashInSnapshot, dbVars
  <2> QED BY <2>1, RestartAllInHub
<1>3. ASSUME \/ \E k \in Conns : Recv(k)
             \/ \E t \in Tabs : TabStep(t) \/ \E k \in Conns : Dial(t, k)
      PROVE  AllInHub'
  <2>1. Stays
    BY <1>3, TabStays, DialStays
  <2>2. used'.trash = used.trash
    BY <1>3, FaultTrash, ZenonT(40)
       DEF Recv, TabStep, Mount, Seed, Edit, OnClose, Abandon, CloseTab,
          EndAccess, LosesWrite, LosesRead, Dial
  <2>3. UNCHANGED <<docGen, trashed, hub, writer>>
    BY <1>3, Zenon DEF Recv, TabStep, Mount, Seed, Edit, OnClose, Abandon, CloseTab,
       EndAccess, LosesWrite, LosesRead,
       Dial, dbVars
  <2> QED BY <2>1, <2>2, <2>3, AllInHubStays
<1>4. CASE UNCHANGED vars
  BY <1>4 DEF vars, AllInHub, InRoom
<1> QED BY <1>1, <1>2, <1>3, <1>4, WriterAllInHub DEF Next

(* As long as nothing writes the page from outside the editor or trashes   *)
(* it, every editor of a page is in the room the hub knows, whatever       *)
(* connections come, go, stall or die and however often the process        *)
(* restarts: join and leave are atomic under hub.mu (collab.go:293-335).   *)
(* The assumption is needed: after one outside write, leave can drop the   *)
(* room of a successor (README, section 5).                                *)
THEOREM OneRoomWithoutResets == NoReset => (Spec => []OneLiveRoom)
<1> SUFFICES ASSUME NoReset PROVE Spec => []OneLiveRoom
  OBVIOUS
<1> DEFINE IInv == TypeInv /\ Members /\ AllInHub
<1>1. Init => IInv
  BY InitType, InitMembers, InitAllInHub
<1>2. IInv /\ [Next]_vars => IInv'
  BY StepType, StepMembers, StepAllInHub
<1>3. IInv => OneLiveRoom
  <2> SUFFICES ASSUME IInv, NEW r \in Rooms, rooms[r].conns # {} PROVE r = hub
    BY DEF OneLiveRoom
  <2>1. PICK k \in rooms[r].conns : k \in Conns
    BY DEF TypeInv, TypeOK, RoomType
  <2>2. InRoom(k) /\ conn[k].room = r
    BY <2>1 DEF Members
  <2> QED BY <2>1, <2>2 DEF AllInHub
<1> QED BY <1>1, <1>2, <1>3, PTL DEF Spec

-----------------------------------------------------------------------------
(* Without outside writes the counter of a room never falls behind.        *)

Ascending ==
  \A i, j \in 1 .. Len(yjsUpdates) : i < j => yjsUpdates[i].seq < yjsUpdates[j].seq

\* No row is above n.
RowsWithin(n) == \A i \in 1 .. Len(yjsUpdates) : yjsUpdates[i].seq <= n

Counted ==
  /\ Ascending
  /\ \A r \in Rooms : rooms[r].loaded =>
       r = hub /\ rooms[r].seq \in Nat /\ RowsWithin(rooms[r].seq)
  /\ \A k \in Conns : conn[k].st = "open" => rooms[hub].loaded

LEMMA InitCounted == Init => Counted
BY DEF Init, Counted, Ascending, RowsWithin, NewRoom, FreeConn

\* What the log holds, as its rows are numbered.
LEMMA LogFacts ==
  ASSUME TypeInv
  PROVE  /\ yjsUpdates \in Seq(RowType) /\ Len(yjsUpdates) \in Nat
         /\ DOMAIN yjsUpdates = 1 .. Len(yjsUpdates)
         /\ \A i \in 1 .. Len(yjsUpdates) : /\ yjsUpdates[i] \in RowType
                                            /\ yjsUpdates[i].seq \in Nat
<1>1. /\ yjsUpdates \in Seq(RowType) /\ Len(yjsUpdates) \in Nat
      /\ DOMAIN yjsUpdates = 1 .. Len(yjsUpdates)
  BY LenProperties DEF TypeInv, TypeOK
<1>2. \A i \in 1 .. Len(yjsUpdates) : yjsUpdates[i] \in RowType
  BY <1>1, ElementOfSeq
<1> QED BY <1>1, <1>2 DEF RowType

(* A seq above all rows is inserted at the end.                            *)
LEMMA AppendsAtEnd ==
  ASSUME TypeInv, NEW n \in Nat, RowsWithin(n), NEW s \in SUBSET Updates
  PROVE  /\ LogWith(n + 1, s) \in Seq(RowType)
         /\ Len(LogWith(n + 1, s)) = Len(yjsUpdates) + 1
         /\ \A i \in 1 .. Len(yjsUpdates) : LogWith(n + 1, s)[i] = yjsUpdates[i]
         /\ LogWith(n + 1, s)[Len(yjsUpdates) + 1] = [seq |-> n + 1, doc |-> s]
<1> DEFINE L == Len(yjsUpdates)
           row == [seq |-> n + 1, doc |-> s]
<1>1. UpTo(n + 1) = L
  <2>1. {i \in DOMAIN yjsUpdates : yjsUpdates[i].seq <= n + 1} = 1 .. L
    BY LogFacts DEF RowsWithin
  <2>2. 1 \in Int /\ L \in Int /\ L \in Nat
    BY LogFacts
  <2>3. Cardinality(1 .. L) = IF 1 > L THEN 0 ELSE L - 1 + 1
    BY <2>2, FS_Interval
  <2>4. Cardinality(1 .. L) = L
    BY <2>2, <2>3
  <2> QED BY <2>1, <2>4 DEF UpTo
<1>2. SubSeq(yjsUpdates, 1, L) = yjsUpdates
  BY LogFacts, SubSeqFull
<1>3. SubSeq(yjsUpdates, L + 1, L) = <<>>
  BY LogFacts, SubSeqEmpty
<1>4. <<row>> \in Seq(RowType) /\ Len(<<row>>) = 1 /\ <<row>>[1] = row
  BY DEF RowType
<1>5. yjsUpdates \o <<row>> \in Seq(RowType)
  BY <1>4, LogFacts, ConcatProperties
<1>6. LogWith(n + 1, s) = yjsUpdates \o <<row>>
  BY <1>1, <1>2, <1>3, <1>5, ConcatEmptySeq DEF LogWith
<1> QED BY <1>4, <1>6, LogFacts, ConcatProperties

(* A compaction leaves the end of the log.                                 *)
LEMMA LeavesTheEnd ==
  ASSUME TypeInv, NEW n \in Nat
  PROVE  \E d \in 0 .. Len(yjsUpdates) :
           /\ Len(LogAfter(n)) = Len(yjsUpdates) - d
           /\ \A i \in 1 .. Len(LogAfter(n)) : LogAfter(n)[i] = yjsUpdates[i + d]
<1> DEFINE d == UpTo(n)
           L == Len(yjsUpdates)
<1>1. d \in 0 .. L /\ L \in Nat
  BY UpToType, LogFacts DEF TypeInv
<1>2. \A i \in d + 1 .. L : yjsUpdates[i] \in RowType
  BY <1>1, LogFacts
<1>3. /\ Len(SubSeq(yjsUpdates, d + 1, L)) = IF d + 1 <= L THEN L - (d + 1) + 1 ELSE 0
      /\ \A i \in 1 .. L - (d + 1) + 1 : SubSeq(yjsUpdates, d + 1, L)[i] = yjsUpdates[d + 1 + i - 1]
  <2> HIDE DEF d, L
  <2> QED BY <1>1, <1>2, SubSeqProperties
<1>4. Len(LogAfter(n)) = L - d
  BY <1>1, <1>3 DEF LogAfter
<1>5. \A i \in 1 .. Len(LogAfter(n)) : LogAfter(n)[i] = yjsUpdates[i + d]
  BY <1>1, <1>3, <1>4 DEF LogAfter
<1> QED BY <1>1, <1>4, <1>5

(* Nothing is written, no room changes and nobody is let in.               *)
LEMMA CountedStays ==
  ASSUME Counted, UNCHANGED <<yjsUpdates, hub>>,
         \A r \in Rooms : rooms'[r].loaded = rooms[r].loaded /\ rooms'[r].seq = rooms[r].seq,
         \A k \in Conns : conn'[k].st = "open" => conn[k].st = "open" /\ hub \in Rooms
  PROVE  Counted'
<1>1. Ascending'
  BY DEF Counted, Ascending
<1>2. ASSUME NEW r \in Rooms, rooms'[r].loaded
      PROVE  r = hub' /\ rooms'[r].seq \in Nat /\ RowsWithin(rooms[r].seq)'
  BY <1>2 DEF Counted, RowsWithin
<1>3. \A k \in Conns : conn'[k].st = "open" => rooms'[hub'].loaded
  BY DEF Counted
<1> QED BY <1>1, <1>2, <1>3 DEF Counted

LEMMA HubOfOpen ==
  ASSUME TypeInv, AllInHub, NEW k \in Conns, InRoom(k)
  PROVE  hub \in Rooms /\ conn[k].room = hub /\ rooms[hub] \in RoomType
BY DEF AllInHub, TypeInv, TypeOK, Located

LEMMA JoinCounted ==
  ASSUME TypeInv, AllInHub, Counted, NEW k \in Conns, Join(k)
  PROVE  Counted'
<1>1. PICK r \in Rooms :
        /\ IF hub # NoRoom THEN r = hub ELSE Unreferenced(r)
        /\ hub' = r
        /\ rooms' = [rooms EXCEPT ![r] =
                      [(IF hub # NoRoom THEN rooms[r] ELSE NewRoom) EXCEPT
                         !.conns = @ \cup {k}]]
        /\ conn' = [conn EXCEPT ![k].st = "joined", ![k].room = r]
  BY DEF Join
<1>2. UNCHANGED yjsUpdates
  BY DEF Join, dbVars
<1>3. \A j \in Conns : conn'[j].st = "open" => conn[j].st = "open"
  BY <1>1 DEF TypeInv, TypeOK, ConnType
<1>4. CASE hub # NoRoom
  <2>1. \A q \in Rooms : rooms'[q].loaded = rooms[q].loaded /\ rooms'[q].seq = rooms[q].seq
    BY <1>1, <1>4 DEF TypeInv, TypeOK, RoomType
  <2> QED BY <1>1, <1>2, <1>3, <1>4, <2>1, CountedStays
<1>5. CASE hub = NoRoom
  <2>1. \A q \in Rooms : ~rooms[q].loaded
    BY <1>5 DEF Counted, Rooms, NoRoom
  <2>2. \A q \in Rooms : ~rooms'[q].loaded
    BY <1>1, <1>5, <2>1 DEF TypeInv, TypeOK, RoomType, NewRoom
  <2>3. \A j \in Conns : conn[j].st # "open"
    BY <1>5, HubOfOpen DEF InRoom, Rooms, NoRoom
  <2> QED BY <1>2, <1>3, <2>2, <2>3 DEF Counted, Ascending
<1> QED BY <1>4, <1>5

LEMMA LoadCounted ==
  ASSUME TypeInv, AllInHub, Counted, NEW k \in Conns, Load(k)
  PROVE  Counted'
<1> DEFINE r == conn[k].room
           new == FindsNew(rooms[r])
           R2 == [Loaded(rooms[r]) EXCEPT !.seedConn = IF new THEN k ELSE @]
<1>1. r = hub /\ hub \in Rooms /\ rooms[r] \in RoomType
  BY HubOfOpen DEF Load, InRoom
<1>2. rooms' = [rooms EXCEPT ![r] = R2] /\ UNCHANGED <<hub, yjsUpdates>>
  BY DEF Load, dbVars
<1>3. /\ R2.loaded
      /\ R2.seq = (IF rooms[r].loaded THEN rooms[r].seq ELSE NewestSeq)
  <2>1. Loaded(rooms[r]) \in RoomType
    BY <1>1, LoadedType DEF TypeInv
  <2>2. Loaded(rooms[r]).loaded
        /\ Loaded(rooms[r]).seq = (IF rooms[r].loaded THEN rooms[r].seq ELSE NewestSeq)
    BY <1>1 DEF Loaded, RoomType
  <2> HIDE DEF new
  <2> QED BY <2>1, <2>2 DEF RoomType
<1>4. RowsWithin(NewestSeq)
  <2>1. CASE yjsUpdates = <<>>
    BY <2>1, LogFacts DEF RowsWithin
  <2>2. CASE yjsUpdates # <<>>
    <3>1. NewestSeq = yjsUpdates[Len(yjsUpdates)].seq
      BY <2>2 DEF NewestSeq
    <3> DEFINE L == Len(yjsUpdates)
    <3>2. ASSUME NEW i \in 1 .. L
          PROVE  yjsUpdates[i].seq <= yjsUpdates[Len(yjsUpdates)].seq
      <4>1. L \in 1 .. L /\ (i = L \/ i < L)
        <5>1. L \in Nat
          BY LogFacts
        <5> HIDE DEF L
        <5> QED BY <5>1
      <4>2. yjsUpdates[i].seq \in Nat /\ yjsUpdates[Len(yjsUpdates)].seq \in Nat
        BY <4>1, LogFacts, Zenon
      <4> QED BY <4>1, <4>2 DEF Counted, Ascending
    <3> QED BY <3>1, <3>2 DEF RowsWithin
  <2> QED BY <2>1, <2>2
<1>5. /\ rooms'[r].loaded /\ RowsWithin(rooms'[r].seq) /\ rooms'[r].seq \in Nat
      /\ \A q \in Rooms \ {r} : rooms'[q] = rooms[q]
  <2> HIDE DEF R2
  <2>1. rooms'[r] = R2 /\ \A q \in Rooms \ {r} : rooms'[q] = rooms[q]
    BY <1>1, <1>2 DEF TypeInv, TypeOK
  <2> QED BY <1>1, <1>3, <1>4, <2>1, NewestSeqType DEF Counted, TypeInv
<1> QED BY <1>1, <1>2, <1>5 DEF Counted, Ascending, RowsWithin

LEMMA PersistUpdateCounted ==
  ASSUME TypeInv, AllInHub, Counted, NEW k \in Conns, PersistUpdate(k)
  PROVE  Counted'
<1> DEFINE R == rooms[hub]
           m == Head(conn[k].inq)
           n == R.seq
           L == Len(yjsUpdates)
<1>1. /\ conn[k].st = "open" /\ conn[k].room = hub /\ hub \in Rooms
      /\ R \in RoomType /\ R.loaded
  BY HubOfOpen DEF PersistUpdate, Reads, InRoom, Counted
<1>2. RowsWithin(n) /\ n \in Nat /\ L \in Nat
  BY <1>1, LogFacts DEF Counted
<1>3. m.doc \in SUBSET Updates
  BY HeadOf DEF TypeInv, PersistUpdate
<1>4. /\ yjsUpdates' = LogWith(n + 1, m.doc)
      /\ rooms'[hub].seq = n + 1 /\ rooms'[hub].loaded
      /\ \A q \in Rooms \ {hub} : rooms'[q] = rooms[q]
      /\ UNCHANGED hub
  BY <1>1 DEF PersistUpdate, TypeInv, TypeOK, RoomType
<1> DEFINE log == yjsUpdates'
           row == [seq |-> n + 1, doc |-> m.doc]
<1>5. /\ Len(log) = L + 1
      /\ \A i \in 1 .. L : log[i] = yjsUpdates[i]
      /\ log[L + 1].seq = n + 1
  <2>1. /\ Len(LogWith(n + 1, m.doc)) = L + 1
        /\ \A i \in 1 .. L : LogWith(n + 1, m.doc)[i] = yjsUpdates[i]
        /\ LogWith(n + 1, m.doc)[L + 1] = row
    BY <1>2, <1>3, AppendsAtEnd
  <2> QED BY <1>4, <2>1
<1>6. \A i \in 1 .. L : log[i].seq \in Nat /\ log[i].seq < n + 1
  BY <1>2, <1>5, LogFacts DEF RowsWithin
<1>7. Ascending'
  <2> SUFFICES ASSUME NEW i \in 1 .. L + 1, NEW j \in 1 .. L + 1, i < j
               PROVE  log[i].seq < log[j].seq
    BY <1>5 DEF Ascending
  <2>1. i \in 1 .. L /\ (j \in 1 .. L \/ j = L + 1)
    BY <1>2
  <2> QED BY <1>5, <1>6, <2>1 DEF Counted, Ascending
<1>8. \A i \in 1 .. L + 1 : log[i].seq <= n + 1
  <2> SUFFICES ASSUME NEW i \in 1 .. L + 1 PROVE log[i].seq <= n + 1
    OBVIOUS
  <2>1. i \in 1 .. L \/ i = L + 1
    BY <1>2
  <2> QED BY <1>2, <1>5, <1>6, <2>1
<1>9. RowsWithin(rooms[hub].seq)' /\ rooms'[hub].seq \in Nat
  BY <1>2, <1>4, <1>5, <1>8 DEF RowsWithin
<1>10. \A q \in Rooms : rooms'[q].loaded => q = hub
  BY <1>4 DEF Counted
<1> QED BY <1>4, <1>7, <1>9, <1>10 DEF Counted

LEMMA ApplySnapshotCounted ==
  ASSUME TypeInv, AllInHub, Counted, NEW k \in Conns, ApplySnapshot(k)
  PROVE  Counted'
<1> DEFINE r == conn[k].room
           m == Head(conn[k].inq)
           R == NotCompacting(rooms[r])
           log == yjsUpdates'
           L == Len(yjsUpdates)
<1>1. Compacts(k) /\ m.seq \in Nat /\ r \in Rooms /\ rooms[r] \in RoomType
  BY CompactsFacts DEF ApplySnapshot
<1>2. PICK d \in 0 .. L :
        /\ Len(LogAfter(m.seq)) = L - d
        /\ \A i \in 1 .. Len(LogAfter(m.seq)) : LogAfter(m.seq)[i] = yjsUpdates[i + d]
  BY <1>1, LeavesTheEnd
<1>3. /\ Len(log) = L - d /\ L \in Nat /\ d \in 0 .. L
      /\ \A i \in 1 .. L - d : log[i] = yjsUpdates[i + d]
  BY <1>2, LogFacts DEF ApplySnapshot
<1>4. \A i \in 1 .. L - d : i + d \in 1 .. L
  <2> HIDE DEF L
  <2> QED BY <1>3
<1>5. Ascending'
  <2> SUFFICES ASSUME NEW i \in 1 .. L - d, NEW j \in 1 .. L - d, i < j
               PROVE  log[i].seq < log[j].seq
    BY <1>3 DEF Ascending
  <2>1. i + d < j + d
    BY <1>3
  <2> QED BY <1>3, <1>4, <2>1 DEF Counted, Ascending
<1>6. \A q \in Rooms : rooms'[q].loaded = rooms[q].loaded /\ rooms'[q].seq = rooms[q].seq
  <2>1. R \in RoomType /\ R.loaded = rooms[r].loaded /\ R.seq = rooms[r].seq
    BY <1>1, NotCompactingType, Zenon DEF NotCompacting, RoomType
  <2>2. rooms' = [rooms EXCEPT ![r] = [R EXCEPT !.pending = Remaining(rooms[r], m.seq)]]
    BY DEF ApplySnapshot
  <2> HIDE DEF R
  <2> QED BY <2>1, <2>2 DEF TypeInv, TypeOK, RoomType
<1>7. ASSUME NEW q \in Rooms, rooms'[q].loaded
      PROVE  q = hub' /\ rooms'[q].seq \in Nat /\ RowsWithin(rooms[q].seq)'
  <2>1. q = hub' /\ rooms'[q].seq \in Nat /\ RowsWithin(rooms'[q].seq)
    BY <1>6, <1>7 DEF ApplySnapshot, Counted
  <2>2. \A i \in 1 .. L - d : log[i].seq <= rooms'[q].seq
    BY <1>3, <1>4, <2>1 DEF RowsWithin
  <2> QED BY <1>3, <2>1, <2>2 DEF RowsWithin
<1>8. \A j \in Conns : conn'[j].st = "open" => conn[j].st = "open"
  BY <1>1, CompactsFacts DEF ApplySnapshot, TypeInv, TypeOK, SamePlace
<1>9. \A j \in Conns : conn'[j].st = "open" => rooms'[hub'].loaded
  BY <1>6, <1>8, HubOfOpen DEF ApplySnapshot, Counted, InRoom
<1> QED BY <1>5, <1>7, <1>9 DEF Counted

(* The other steps of a handler: none writes, none changes a counter.      *)
LEMMA ServerCounted ==
  ASSUME TypeInv, AllInHub, Counted, NEW k \in Conns,
         \/ RefuseStale(k) \/ DropFrame(k) \/ PersistFails(k) \/ SnapshotFails(k)
         \/ CloseSocket(k) \/ NetDrop(k) \/ PeerGone(k) \/ Recheck(k)
  PROVE  Counted'
<1>1. UNCHANGED <<yjsUpdates, hub>>
  BY DEF RefuseStale, DropFrame, PersistFails, SnapshotFails, CloseSocket, NetDrop,
         PeerGone, Recheck, dbVars
<1>2. \A r \in Rooms : rooms'[r].loaded = rooms[r].loaded /\ rooms'[r].seq = rooms[r].seq
  <2>1. CASE PersistFails(k)
    BY <2>1 DEF PersistFails, TypeInv, TypeOK, RoomType
  <2>2. CASE SnapshotFails(k)
    BY <2>2 DEF SnapshotFails, NotCompacting, TypeInv, TypeOK, RoomType
  <2>3. CASE UNCHANGED rooms
    BY <2>3
  <2> QED BY <2>1, <2>2, <2>3
     DEF RefuseStale, DropFrame, CloseSocket, NetDrop, PeerGone, Recheck
<1>3. \A j \in Conns : conn'[j].st = "open" => conn[j].st = "open"
  <2> SUFFICES ASSUME NEW j \in Conns, conn'[j].st = "open" PROVE conn[j].st = "open"
    OBVIOUS
  <2>1. CASE RefuseStale(k)
    BY <2>1 DEF RefuseStale, TypeInv, TypeOK, ConnType
  <2>2. CASE ~RefuseStale(k)
    <3>1. \/ conn'[j] = conn[j] \/ conn'[j] = Taken(conn[j]) \/ conn'[j] = Cut(conn[j])
          \/ conn'[j] = Shutdown(conn[j]) \/ conn'[j] = [conn[j] EXCEPT !.closed = TRUE]
      BY <2>2 DEF DropFrame, PersistFails, SnapshotFails, CloseSocket, NetDrop, PeerGone, Recheck,
         TypeInv, TypeOK
    <3>2. conn[j] \in ConnType
      BY DEF TypeInv, TypeOK
    <3> QED BY <3>1, <3>2, StillOps DEF Still, SamePlace
  <2> QED BY <2>1, <2>2
<1> QED BY <1>1, <1>2, <1>3, HubOfOpen, CountedStays DEF InRoom

LEMMA LeaveCounted ==
  ASSUME TypeInv, AllInHub, Counted, NEW k \in Conns, Leave(k)
  PROVE  Counted'
<1> DEFINE R == rooms[hub]
           left == [R EXCEPT
                 !.conns = @ \ {k},
                 !.seedConn = IF @ = k /\ ~R.seeded THEN Nil ELSE @,
                 !.compacting = @ /\ R.compactConn # k,
                 !.compactConn = IF @ = k THEN Nil ELSE @]
           hub2 == IF IsEmpty(left) THEN NoRoom ELSE hub
           garbage == /\ hub # hub2 /\ \A w \in Writers : writer[w].room # hub
                      /\ \A j \in Conns \ {k} : InRoom(j) => conn[j].room # hub
<1>1. InRoom(k) /\ hub \in Rooms /\ conn[k].room = hub /\ R \in RoomType
  BY HubOfOpen DEF Leave, InRoom
<1>2. /\ rooms' = [rooms EXCEPT ![hub] = IF garbage THEN NewRoom ELSE left]
      /\ hub' = hub2 /\ UNCHANGED yjsUpdates
      /\ \A j \in Conns \ {k} : conn'[j] = conn[j]
  BY <1>1 DEF Leave, dbVars, TypeInv, TypeOK
<1>3. /\ left.conns = R.conns \ {k}
      /\ left.loaded = R.loaded /\ left.seq = R.seq
  BY <1>1 DEF RoomType
<1>4. conn'[k].st # "open"
  BY <1>1, ReleasedPlace DEF Leave, InRoom, TypeInv, TypeOK
<1>5. CASE left.conns = {}
  <2>1. hub2 = NoRoom /\ garbage
    <3>1. \A j \in Conns \ {k} : ~InRoom(j)
      BY <1>3, <1>5 DEF AllInHub
    <3>2. \A w \in Writers : writer[w].room = NoRoom
      BY DEF AllInHub, IdleWriter
    <3>3. hub # NoRoom
      BY <1>1 DEF Rooms, NoRoom
    <3> HIDE DEF left
    <3> QED BY <1>5, <3>1, <3>2, <3>3 DEF IsEmpty
  <2>2. \A q \in Rooms : ~rooms'[q].loaded
    <3> HIDE DEF garbage, left
    <3> QED BY <1>1, <1>2, <2>1 DEF NewRoom, Counted, TypeInv, TypeOK
  <2>3. \A j \in Conns : conn'[j].st # "open"
    BY <1>2, <1>3, <1>4, <1>5 DEF AllInHub, InRoom
  <2> QED BY <1>2, <2>2, <2>3 DEF Counted, Ascending
<1>6. CASE left.conns # {}
  <2>1. hub2 = hub /\ ~garbage
    <3> HIDE DEF left
    <3> QED BY <1>6 DEF IsEmpty
  <2>2. \A q \in Rooms : rooms'[q].loaded = rooms[q].loaded /\ rooms'[q].seq = rooms[q].seq
    <3> HIDE DEF left, garbage
    <3> QED BY <1>1, <1>2, <1>3, <2>1 DEF TypeInv, TypeOK
  <2> HIDE DEF hub2
  <2> QED BY <1>1, <1>2, <1>4, <2>1, <2>2, CountedStays
<1> QED BY <1>5, <1>6

LEMMA RestartCounted ==
  ASSUME TypeInv, Counted, LosesMemory, UNCHANGED yjsUpdates
  PROVE  Counted'
<1>1. \A r \in Rooms : ~rooms'[r].loaded
  BY DEF LosesMemory, NewRoom
<1>2. \A k \in Conns : conn'[k].st # "open"
  <2> SUFFICES ASSUME NEW k \in Conns PROVE conn'[k].st # "open"
    OBVIOUS
  <2>1. CASE InServer(k)
    BY <2>1, ReleasedPlace DEF LosesMemory, InServer
  <2>2. CASE ~InServer(k)
    BY <2>2 DEF LosesMemory, InServer
  <2> QED BY <2>1, <2>2
<1> QED BY <1>1, <1>2 DEF Counted, Ascending

LEMMA TabCounted ==
  ASSUME TypeInv, Members, AllInHub, Counted,
         \/ \E k \in Conns : Recv(k)
         \/ \E t \in Tabs : TabStep(t) \/ \E k \in Conns : Dial(t, k)
  PROVE  Counted'
<1>1. UNCHANGED <<yjsUpdates, hub, rooms>>
  BY Zenon DEF Recv, TabStep, Mount, Seed, Edit, OnClose, Abandon, CloseTab, EndAccess,
     LosesWrite, LosesRead, Dial, dbVars
<1>2. \A j \in Conns : conn'[j].st = "open" => conn[j].st = "open"
  <2>1. ASSUME NEW t \in Tabs, NEW k \in Conns, Dial(t, k)
        PROVE  \A j \in Conns : conn'[j].st = "open" => conn[j].st = "open"
    BY <2>1, Zenon DEF Dial, FreeConn, TypeInv, TypeOK
  <2>2. CASE Settled
    BY <2>2 DEF Settled, Still, SamePlace, Outside, InRoom
  <2> QED BY <2>1, <2>2, TabStill
<1> QED BY <1>1, <1>2, HubOfOpen, CountedStays DEF InRoom

LEMMA StepCounted ==
  NoReset /\ TypeInv /\ Members /\ AllInHub /\ Counted /\ [Next]_vars => Counted'
<1> SUFFICES ASSUME NoReset, TypeInv, Members, AllInHub, Counted, [Next]_vars
             PROVE  Counted'
  OBVIOUS
<1>1. ASSUME NEW k \in Conns, ServerStep(k) \/ NetDrop(k) PROVE Counted'
  BY <1>1, JoinCounted, LoadCounted, PersistUpdateCounted, ApplySnapshotCounted,
     ServerCounted, LeaveCounted DEF ServerStep
<1>2. ASSUME Restart \/ \E k \in Conns : CrashInSnapshot(k) PROVE Counted'
  BY <1>2, RestartCounted DEF Restart, CrashInSnapshot, dbVars
<1>3. CASE UNCHANGED vars
  BY <1>3 DEF vars, Counted, Ascending, RowsWithin
<1> QED BY <1>1, <1>2, <1>3, TabCounted, WriterAllInHub DEF Next

(* As long as nothing writes the page from outside the editor, no update   *)
(* is refused for its number: whichever room counts, and whatever was      *)
(* compacted, lost or restarted before it was loaded, its next seq is free *)
(* in yjs_updates (collab.go:502-511 and 595-613). The argument: the log   *)
(* is ascending, and only the hub's room is loaded and counts above it.    *)
THEOREM CounterIsFree == NoReset => (Spec => []SeqIsFree)
<1> SUFFICES ASSUME NoReset PROVE Spec => []SeqIsFree
  OBVIOUS
<1> DEFINE IInv == TypeInv /\ Members /\ AllInHub /\ Counted
<1>1. Init => IInv
  BY InitType, InitMembers, InitAllInHub, InitCounted
<1>2. IInv /\ [Next]_vars => IInv'
  BY StepType, StepMembers, StepAllInHub, StepCounted
<1>3. IInv => SeqIsFree
  <2> SUFFICES ASSUME IInv, NEW r \in Rooms, rooms[r].loaded,
                      NEW i \in DOMAIN yjsUpdates
               PROVE  yjsUpdates[i].seq # rooms[r].seq + 1
    BY DEF SeqIsFree, HasSeq
  <2>1. yjsUpdates[i].seq \in Nat /\ rooms[r].seq \in Nat
        /\ yjsUpdates[i].seq <= rooms[r].seq
    BY LogFacts DEF Counted, RowsWithin
  <2> QED BY <2>1
<1> QED BY <1>1, <1>2, <1>3, PTL DEF Spec

-----------------------------------------------------------------------------
(***************************************************************************)
(* What the queues of Collab hold, proved for every value of the           *)
(* constants: that a compaction loses nothing and nobody misses an update, *)
(* that somebody is always at work on a compaction, that all see the same  *)
(* once nothing is under way, and that a new document is seeded once.      *)
(*                                                                         *)
(* All of it is for a page nobody writes from outside or trashes (NoReset, *)
(* as in the runs), with any number of tabs, connections, breaks, restarts *)
(* and crashes.  The first, the second and the fourth are also for a relay *)
(* that asks only the living for a snapshot, which it does as long as no   *)
(* queue runs full (OnlyTheLiving): a connection that enqueue shuts down   *)
(* for a full queue is read from until its socket is closed, its next      *)
(* update may make the room ask it, and Go's select may still hand it the  *)
(* frames that are left; then it answers without the frame it missed.      *)
(* With a buffer of three frames instead of 512 TLC finds that.            *)
(***************************************************************************)

\* q has a frame of this type.
Has(q, type) == \E i \in 1 .. Len(q) : q[i].type = type

\* A request for a snapshot is queued only to a connection that is not done.
AsksTheLiving ==
  \A k \in Conns : conn[k].done /\ ~Has(conn[k].out, "snapshotRequest")
                     => ~Has(conn'[k].out, "snapshotRequest")

\* One of the first j - 1 frames of q is an update that holds u.
Brings(q, j, u) == \E i \in 1 .. Len(q) : i < j /\ q[i].type = "update" /\ u \in q[i].doc

\* A row above n holds u.
Above(log, n, u) == \E i \in 1 .. Len(log) : log[i].seq > n /\ u \in log[i].doc

\* A tab that holds D and reads q has, or will have, all of S ...
Fed(q, D, S) == \A u \in S : u \in D \/ Brings(q, Len(q) + 1, u)
\* ... all but what is above the number it is asked for ...
Asked(q, D, S, log) ==
  \A j \in 1 .. Len(q) : q[j].type = "snapshotRequest" =>
    \A u \in S : u \in D \/ Brings(q, j, u) \/ Above(log, q[j].seq, u)
\* ... and what it sent is a part of D, a snapshot as much as was asked for.
SentOf(q, D) == \A j \in 1 .. Len(q) : q[j].type = "update" => q[j].doc \subseteq D
Answers(q, S, log) ==
  \A j \in 1 .. Len(q) : q[j].type = "snapshot" =>
    \A u \in S : u \in q[j].doc \/ Above(log, q[j].seq, u)

\* The connection c of the tab t that holds D, over a document that has S.
Link(c, t, D, S, log) ==
  /\ c.tab = t /\ c.st # "free"
  /\ c.st = "open" /\ ~c.done => Fed(c.out, D, S)
  /\ Asked(c.out, D, S, log)
  /\ SentOf(c.inq, D)

Links ==
  /\ \A t \in Tabs : tab[t].conn # Nil =>
       Link(conn[tab[t].conn], t, tab[t].doc, stored, yjsUpdates)
  /\ \A k \in Conns : Answers(conn[k].inq, stored, yjsUpdates)

\* Nobody asks over c for a snapshot, or one request or answer is under way.
NoAsk(c) == ~Has(c.out, "snapshotRequest") /\ ~Has(c.inq, "snapshot")
Once(q, type) ==
  \A i, j \in 1 .. Len(q) : q[i].type = type /\ q[j].type = type => i = j
OneAsk(c, n) ==
  /\ Once(c.out, "snapshotRequest") /\ Once(c.inq, "snapshot")
  /\ ~(Has(c.out, "snapshotRequest") /\ Has(c.inq, "snapshot"))
  /\ \A j \in 1 .. Len(c.out) : c.out[j].type = "snapshotRequest" => c.out[j].seq \in 0 .. n
  /\ \A j \in 1 .. Len(c.inq) : c.inq[j].type = "snapshot" => c.inq[j].seq \in 0 .. n

\* The room compacts, and k is the one it asked.
Busy(k) ==
  /\ conn[k].st = "open" /\ rooms[hub].compacting /\ rooms[hub].compactConn = k

AskState ==
  \A k \in Conns : IF Busy(k) THEN OneAsk(conn[k], rooms[hub].seq) ELSE NoAsk(conn[k])

\* A document without a snapshot has nothing in it.
Lost == ~yjsState.have => yjsState.doc = {}

(* The inductive invariant behind NothingLost and NothingMissed: what a    *)
(* tab lacks is on its way to it, and before any request that covers it.   *)
QInv == Links /\ AskState /\ Lost /\ NothingLost

-----------------------------------------------------------------------------
(* What one frame more at the end of a queue, or one less at its head,     *)
(* does to these.                                                          *)

\* p is q with m at its end; p is q without its head.
Longer(p, q, m) ==
  /\ Len(q) \in Nat /\ Len(p) = Len(q) + 1
  /\ \A i \in 1 .. Len(q) : p[i] = q[i]
  /\ p[Len(q) + 1] = m

Shorter(p, q) ==
  /\ Len(p) \in Nat /\ Len(q) = Len(p) + 1
  /\ \A i \in 1 .. Len(p) : p[i] = q[i + 1]

LEMMA AppendLonger ==
  ASSUME NEW F, NEW q \in Seq(F), NEW m \in F
  PROVE  Longer(Append(q, m), q, m) /\ Longer(q \o <<m>>, q, m)
BY AppendProperties, AppendIsConcat, LenProperties DEF Longer

LEMMA TailShorter ==
  ASSUME NEW F, NEW q \in Seq(F), q # <<>>
  PROVE  Shorter(Tail(q), q) /\ Head(q) = q[1]
<1>1. /\ Tail(q) \in Seq(F) /\ Len(Tail(q)) = Len(q) - 1
      /\ \A i \in 1 .. Len(Tail(q)) : Tail(q)[i] = q[i + 1]
  BY HeadTailProperties
<1>2. Len(Tail(q)) \in Nat /\ Len(q) \in Nat
  BY <1>1, LenProperties
<1> QED BY <1>1, <1>2 DEF Shorter

LEMMA BringsLonger ==
  ASSUME NEW q, NEW p, NEW m, Longer(p, q, m)
  PROVE  /\ \A j \in 1 .. Len(q) + 1 : \A u : Brings(p, j, u) <=> Brings(q, j, u)
         /\ \A u : Brings(p, Len(p) + 1, u) <=>
                     Brings(q, Len(q) + 1, u) \/ (m.type = "update" /\ u \in m.doc)
<1>1. ASSUME NEW j \in 1 .. Len(q) + 1, NEW u
      PROVE  Brings(p, j, u) <=> Brings(q, j, u)
  <2>1. \A i \in 1 .. Len(p) : i < j => i \in 1 .. Len(q) /\ p[i] = q[i]
    BY DEF Longer
  <2>2. \A i \in 1 .. Len(q) : i \in 1 .. Len(p) /\ p[i] = q[i]
    BY DEF Longer
  <2> QED BY <2>1, <2>2 DEF Brings
<1>2. ASSUME NEW u
      PROVE  Brings(p, Len(p) + 1, u) <=>
               Brings(q, Len(q) + 1, u) \/ (m.type = "update" /\ u \in m.doc)
  <2>1. \A i \in 1 .. Len(p) : i = Len(p) \/ (i \in 1 .. Len(q) /\ p[i] = q[i])
    BY DEF Longer
  <2>2. /\ \A i \in 1 .. Len(q) : i \in 1 .. Len(p) /\ p[i] = q[i] /\ i < Len(p) + 1
        /\ \A i \in 1 .. Len(p) : i < Len(p) + 1
        /\ \A i \in 1 .. Len(q) : i < Len(q) + 1
        /\ Len(p) \in 1 .. Len(p) /\ p[Len(p)] = m
    BY DEF Longer
  <2> QED BY <2>1, <2>2 DEF Brings
<1> QED BY <1>1, <1>2

LEMMA BringsShorter ==
  ASSUME NEW q, NEW p, Shorter(p, q), NEW j \in 1 .. Len(q), NEW u
  PROVE  Brings(q, j + 1, u) <=>
           (q[1].type = "update" /\ u \in q[1].doc) \/ Brings(p, j, u)
<1>1. ASSUME Brings(q, j + 1, u)
      PROVE  (q[1].type = "update" /\ u \in q[1].doc) \/ Brings(p, j, u)
  <2>1. PICK i \in 1 .. Len(q) : i < j + 1 /\ q[i].type = "update" /\ u \in q[i].doc
    BY <1>1 DEF Brings
  <2>2. CASE i = 1
    BY <2>1, <2>2
  <2>3. CASE i # 1
    <3>1. i - 1 \in 1 .. Len(p) /\ p[i - 1] = q[i] /\ i - 1 < j
      BY <2>1, <2>3 DEF Shorter
    <3> QED BY <2>1, <3>1 DEF Brings
  <2> QED BY <2>2, <2>3
<1>2. ASSUME Brings(p, j, u) PROVE Brings(q, j + 1, u)
  <2>1. PICK i \in 1 .. Len(p) : i < j /\ p[i].type = "update" /\ u \in p[i].doc
    BY <1>2 DEF Brings
  <2>2. i + 1 \in 1 .. Len(q) /\ q[i + 1] = p[i] /\ i + 1 < j + 1
    BY <2>1 DEF Shorter
  <2> QED BY <2>1, <2>2 DEF Brings
<1>3. ASSUME q[1].type = "update", u \in q[1].doc PROVE Brings(q, j + 1, u)
  <2>1. 1 \in 1 .. Len(q) /\ 1 < j + 1
    BY DEF Shorter
  <2> QED BY <1>3, <2>1 DEF Brings
<1> QED BY <1>1, <1>2, <1>3

LEMMA HasLonger ==
  ASSUME NEW q, NEW p, NEW m, Longer(p, q, m), NEW type
  PROVE  Has(p, type) <=> Has(q, type) \/ m.type = type
<1>1. \A i \in 1 .. Len(p) : i = Len(p) \/ (i \in 1 .. Len(q) /\ p[i] = q[i])
  BY DEF Longer
<1>2. /\ \A i \in 1 .. Len(q) : i \in 1 .. Len(p) /\ p[i] = q[i]
      /\ Len(p) \in 1 .. Len(p) /\ p[Len(p)] = m
  BY DEF Longer
<1> QED BY <1>1, <1>2 DEF Has

LEMMA HasShorter ==
  ASSUME NEW q, NEW p, Shorter(p, q), NEW type
  PROVE  Has(q, type) <=> q[1].type = type \/ Has(p, type)
<1>1. \A i \in 1 .. Len(q) : i = 1 \/ (i - 1 \in 1 .. Len(p) /\ p[i - 1] = q[i])
  BY DEF Shorter
<1>2. /\ \A i \in 1 .. Len(p) : i + 1 \in 1 .. Len(q) /\ q[i + 1] = p[i]
      /\ 1 \in 1 .. Len(q)
  BY DEF Shorter
<1>3. Has(q, type) => q[1].type = type \/ Has(p, type)
  BY <1>1 DEF Has
<1>4. q[1].type = type \/ Has(p, type) => Has(q, type)
  BY <1>2 DEF Has
<1> QED BY <1>3, <1>4

LEMMA FedLonger ==
  ASSUME NEW q, NEW p, NEW m, Longer(p, q, m), NEW D, NEW S
  PROVE  /\ Fed(q, D, S) => Fed(p, D, S)
         /\ Fed(q, D, S) /\ m.type = "update" => Fed(p, D, S \cup m.doc)
BY BringsLonger DEF Fed

LEMMA FedShorter ==
  ASSUME NEW q, NEW p, Shorter(p, q), NEW D, NEW S, NEW E, Fed(q, D, S),
         D \subseteq E, q[1].type = "update" => q[1].doc \subseteq E
  PROVE  Fed(p, E, S)
<1> SUFFICES ASSUME NEW u \in S PROVE u \in E \/ Brings(p, Len(p) + 1, u)
  BY DEF Fed
<1>1. Len(q) \in 1 .. Len(q) /\ Len(q) = Len(p) + 1
  BY DEF Shorter
<1>2. u \in D \/ (q[1].type = "update" /\ u \in q[1].doc) \/ Brings(p, Len(q), u)
  BY <1>1, BringsShorter DEF Fed
<1> QED BY <1>1, <1>2

LEMMA AskedLonger ==
  ASSUME NEW q, NEW p, NEW m, Longer(p, q, m), NEW D, NEW S, NEW log,
         Asked(q, D, S, log), m.type = "snapshotRequest" => Fed(q, D, S)
  PROVE  Asked(p, D, S, log)
<1> SUFFICES ASSUME NEW j \in 1 .. Len(p), p[j].type = "snapshotRequest", NEW u \in S
             PROVE  u \in D \/ Brings(p, j, u) \/ Above(log, p[j].seq, u)
  BY DEF Asked
<1>1. CASE j = Len(q) + 1
  <2>1. m.type = "snapshotRequest" /\ j \in 1 .. Len(q) + 1
    BY <1>1 DEF Longer
  <2> QED BY <1>1, <2>1, BringsLonger DEF Fed
<1>2. CASE j # Len(q) + 1
  <2>1. j \in 1 .. Len(q) /\ j \in 1 .. Len(q) + 1 /\ p[j] = q[j]
    BY <1>2 DEF Longer
  <2> QED BY <2>1, BringsLonger DEF Asked
<1> QED BY <1>1, <1>2

LEMMA AskedShorter ==
  ASSUME NEW q, NEW p, Shorter(p, q), NEW D, NEW S, NEW E, NEW log, Asked(q, D, S, log),
         D \subseteq E, q[1].type = "update" => q[1].doc \subseteq E
  PROVE  Asked(p, E, S, log)
<1> SUFFICES ASSUME NEW j \in 1 .. Len(p), p[j].type = "snapshotRequest", NEW u \in S
             PROVE  u \in E \/ Brings(p, j, u) \/ Above(log, p[j].seq, u)
  BY DEF Asked
<1>1. j \in 1 .. Len(q) /\ j + 1 \in 1 .. Len(q) /\ q[j + 1] = p[j]
  BY DEF Shorter
<1>2. u \in D \/ Brings(q, j + 1, u) \/ Above(log, p[j].seq, u)
  BY <1>1 DEF Asked
<1> QED BY <1>1, <1>2, BringsShorter

LEMMA SentLonger ==
  ASSUME NEW q, NEW p, NEW m, Longer(p, q, m), NEW D, SentOf(q, D),
         m.type = "update" => m.doc \subseteq D
  PROVE  SentOf(p, D)
<1>1. \A i \in 1 .. Len(p) : p[i] = m \/ (i \in 1 .. Len(q) /\ p[i] = q[i])
  BY DEF Longer
<1> QED BY <1>1 DEF SentOf

LEMMA SentShorter ==
  ASSUME NEW q, NEW p, Shorter(p, q), NEW D, SentOf(q, D)
  PROVE  SentOf(p, D)
<1>1. \A i \in 1 .. Len(p) : i + 1 \in 1 .. Len(q) /\ q[i + 1] = p[i]
  BY DEF Shorter
<1> QED BY <1>1 DEF SentOf

LEMMA AnswersLonger ==
  ASSUME NEW q, NEW p, NEW m, Longer(p, q, m), NEW S, NEW log, Answers(q, S, log),
         m.type = "snapshot" => \A u \in S : u \in m.doc \/ Above(log, m.seq, u)
  PROVE  Answers(p, S, log)
<1>1. \A i \in 1 .. Len(p) : p[i] = m \/ (i \in 1 .. Len(q) /\ p[i] = q[i])
  BY DEF Longer
<1> QED BY <1>1 DEF Answers

LEMMA AnswersShorter ==
  ASSUME NEW q, NEW p, Shorter(p, q), NEW S, NEW log, Answers(q, S, log)
  PROVE  Answers(p, S, log)
<1>1. \A i \in 1 .. Len(p) : i + 1 \in 1 .. Len(q) /\ q[i + 1] = p[i]
  BY DEF Shorter
<1> QED BY <1>1 DEF Answers

LEMMA OneAskLonger ==
  ASSUME NEW q, NEW p, NEW m, Longer(p, q, m), NEW type, ~Has(q, type) \/ m.type # type,
         Once(q, type)
  PROVE  Once(p, type)
<1>1. \A i \in 1 .. Len(p) : \/ i \in 1 .. Len(q) /\ p[i] = q[i]
                             \/ i = Len(q) + 1 /\ p[i] = m
  BY DEF Longer
<1> QED BY <1>1 DEF Once, Has

LEMMA OneAskShorter ==
  ASSUME NEW q, NEW p, Shorter(p, q), NEW type, Once(q, type)
  PROVE  /\ Once(p, type)
         /\ q[1].type = type => ~Has(p, type)
<1>1. /\ \A i \in 1 .. Len(p) : i + 1 \in 1 .. Len(q) /\ q[i + 1] = p[i] /\ i + 1 # 1
      /\ 1 \in 1 .. Len(q)
  BY DEF Shorter
<1>2. ~(q[1].type = type /\ Has(p, type))
  BY <1>1 DEF Once, Has
<1>3. ASSUME NEW i \in 1 .. Len(p), NEW j \in 1 .. Len(p), p[i].type = type, p[j].type = type
      PROVE  i = j
  <2>1. i + 1 = j + 1
    BY <1>1, <1>3 DEF Once
  <2> QED BY <2>1 DEF Shorter
<1> QED BY <1>2, <1>3 DEF Once

-----------------------------------------------------------------------------
(* The log.                                                                *)

InLog(log, u) == \E i \in 1 .. Len(log) : u \in log[i].doc

LEMMA KeptIs ==
  ASSUME TypeInv
  PROVE  \A u : u \in Kept <=> u \in yjsState.doc \/ InLog(yjsUpdates, u)
BY LogFacts DEF Kept, Merged, InLog

LEMMA AboveLonger ==
  ASSUME NEW q, NEW p, NEW m, Longer(p, q, m), NEW n, NEW u
  PROVE  /\ Above(p, n, u) <=> Above(q, n, u) \/ (m.seq > n /\ u \in m.doc)
         /\ InLog(p, u) <=> InLog(q, u) \/ u \in m.doc
<1>1. \A i \in 1 .. Len(p) : i = Len(p) \/ (i \in 1 .. Len(q) /\ p[i] = q[i])
  BY DEF Longer
<1>2. /\ \A i \in 1 .. Len(q) : i \in 1 .. Len(p) /\ p[i] = q[i]
      /\ Len(p) \in 1 .. Len(p) /\ p[Len(p)] = m
  BY DEF Longer
<1> QED BY <1>1, <1>2 DEF Above, InLog

(* A row above n stays behind when the rows up to n are deleted.           *)
LEMMA LeavesAbove ==
  ASSUME TypeInv, Ascending, NEW n \in Nat, NEW u, Above(yjsUpdates, n, u)
  PROVE  InLog(LogAfter(n), u)
<1> DEFINE L == Len(yjsUpdates)
           A == {i \in DOMAIN yjsUpdates : yjsUpdates[i].seq <= n}
           d == UpTo(n)
<1>1. L \in Nat /\ DOMAIN yjsUpdates = 1 .. L /\ \A i \in 1 .. L : yjsUpdates[i].seq \in Nat
  BY LogFacts
<1>2. PICK i \in 1 .. L : yjsUpdates[i].seq > n /\ u \in yjsUpdates[i].doc
  BY DEF Above
<1>3. A \subseteq 1 .. i - 1
  <2> SUFFICES ASSUME NEW j \in 1 .. L, yjsUpdates[j].seq <= n PROVE j \in 1 .. i - 1
    BY <1>1
  <2>1. j < i \/ j = i \/ i < j
    BY <1>1
  <2>2. i < j => yjsUpdates[i].seq < yjsUpdates[j].seq
    BY DEF Ascending
  <2> QED BY <1>1, <1>2, <2>1, <2>2
<1>4. d <= i - 1
  <2>1. i - 1 \in Nat /\ 1 \in Int /\ i - 1 \in Int
    BY <1>1
  <2>2. IsFiniteSet(1 .. i - 1)
        /\ Cardinality(1 .. i - 1) = IF 1 > i - 1 THEN 0 ELSE (i - 1) - 1 + 1
    BY <2>1, FS_Interval
  <2>3. Cardinality(1 .. i - 1) = i - 1
    BY <2>1, <2>2
  <2>4. Cardinality(A) <= Cardinality(1 .. i - 1)
    BY <1>3, <2>2, FS_Subset
  <2> QED BY <2>3, <2>4 DEF UpTo
<1>5. d \in 0 .. L
  BY UpToType DEF TypeInv
<1>6. \A j \in d + 1 .. L : yjsUpdates[j] \in RowType
  BY <1>1, <1>5, LogFacts
<1>7. /\ Len(SubSeq(yjsUpdates, d + 1, L)) = IF d + 1 <= L THEN L - (d + 1) + 1 ELSE 0
      /\ \A j \in 1 .. L - (d + 1) + 1 : SubSeq(yjsUpdates, d + 1, L)[j] = yjsUpdates[d + 1 + j - 1]
  <2> HIDE DEF d, L
  <2> QED BY <1>1, <1>5, <1>6, SubSeqProperties
<1>8. i - d \in 1 .. Len(LogAfter(n)) /\ LogAfter(n)[i - d] = yjsUpdates[i]
  <2> HIDE DEF d, L
  <2>1. d + 1 <= L /\ i - d \in 1 .. L - (d + 1) + 1 /\ d + 1 + (i - d) - 1 = i
    BY <1>1, <1>4, <1>5
  <2> QED BY <1>1, <1>5, <1>7, <2>1 DEF LogAfter, d, L
<1> QED BY <1>2, <1>8 DEF InLog

(* What is left is a part of what was there.                               *)
LEMMA LeavesNoMore ==
  ASSUME TypeInv, NEW n \in Nat, NEW u, InLog(LogAfter(n), u)
  PROVE  InLog(yjsUpdates, u)
<1>1. PICK d \in 0 .. Len(yjsUpdates) :
           /\ Len(LogAfter(n)) = Len(yjsUpdates) - d
           /\ \A i \in 1 .. Len(LogAfter(n)) : LogAfter(n)[i] = yjsUpdates[i + d]
  BY LeavesTheEnd
<1>2. PICK i \in 1 .. Len(LogAfter(n)) : u \in LogAfter(n)[i].doc
  BY DEF InLog
<1>3. i + d \in 1 .. Len(yjsUpdates)
  BY <1>1, LogFacts
<1> QED BY <1>1, <1>2, <1>3 DEF InLog

-----------------------------------------------------------------------------
(* Steps that put nothing in a queue.                                      *)

Empty(c) == c.out = <<>> /\ c.inq = <<>>

\* c became d: no frame more, at most one less that the server has read.
Quieter(d, c) ==
  /\ d.tab = c.tab /\ (d.st = "free" => c.st = "free")
  /\ d.st = "open" /\ ~d.done => c.st = "open" /\ ~c.done
  /\ d.out = c.out /\ (d.inq = c.inq \/ Shorter(d.inq, c.inq))

LEMMA QuieterOps ==
  ASSUME NEW c \in ConnType
  PROVE  /\ Quieter(c, c) /\ Quieter(Shutdown(c), c)
         /\ Quieter(Cut(c), c) /\ Quieter([c EXCEPT !.closed = TRUE], c)
         /\ Quieter([c EXCEPT !.st = "refused"], c)
         /\ c.inq # <<>> => Quieter(Taken(c), c)
<1>1. c.inq # <<>> => Shorter(Tail(c.inq), c.inq)
  BY InqType, TailShorter
<1>2. c.inq # <<>> => Quieter(Taken(c), c)
  BY <1>1 DEF Quieter, Taken, ConnType
<1>3. /\ Quieter(c, c) /\ Quieter(Shutdown(c), c)
      /\ Quieter(Cut(c), c) /\ Quieter([c EXCEPT !.closed = TRUE], c)
  BY DEF Quieter, Shutdown, Cut, ConnType
<1>4. Quieter([c EXCEPT !.st = "refused"], c)
  BY DEF Quieter, ConnType
<1> QED BY <1>2, <1>3, <1>4

LEMMA EmptyKeeps ==
  ASSUME NEW c, Empty(c)
  PROVE  /\ \A D, S, log : Asked(c.out, D, S, log) /\ SentOf(c.inq, D)
         /\ \A S, log : Answers(c.inq, S, log)
         /\ NoAsk(c)
<1>1. Len(c.out) = 0 /\ Len(c.inq) = 0
  BY DEF Empty
<1> QED BY <1>1 DEF Asked, SentOf, Answers, NoAsk, Has

LEMMA NoAskIsFine ==
  ASSUME NEW c, NoAsk(c)
  PROVE  /\ \A n : OneAsk(c, n)
         /\ \A D, S, log : Asked(c.out, D, S, log) /\ Answers(c.inq, S, log)
BY DEF NoAsk, OneAsk, Has, Once, Asked, Answers

LEMMA QuieterKeeps ==
  ASSUME NEW c, NEW d, Quieter(d, c)
  PROVE  /\ \A t, D, E, S, log : Link(c, t, D, S, log) /\ D \subseteq E
              => Link(d, t, E, S, log)
         /\ \A S, log : Answers(c.inq, S, log) => Answers(d.inq, S, log)
         /\ NoAsk(c) => NoAsk(d)
         /\ \A n : OneAsk(c, n) => OneAsk(d, n)
<1>1. ASSUME NEW t, NEW D, NEW E, NEW S, NEW log, Link(c, t, D, S, log), D \subseteq E
      PROVE  Link(d, t, E, S, log)
  <2>1. d.tab = t /\ d.st # "free"
    BY <1>1 DEF Link, Quieter
  <2>2. d.st = "open" /\ ~d.done => Fed(d.out, E, S)
    BY <1>1 DEF Link, Quieter, Fed
  <2>3. Asked(d.out, E, S, log)
    BY <1>1 DEF Link, Quieter, Asked
  <2>4. SentOf(d.inq, D)
    BY <1>1, SentShorter DEF Link, Quieter
  <2> QED BY <1>1, <2>1, <2>2, <2>3, <2>4 DEF Link, SentOf
<1>2. ASSUME NEW S, NEW log, Answers(c.inq, S, log) PROVE Answers(d.inq, S, log)
  BY <1>2, AnswersShorter DEF Quieter
<1>3. \A type : Has(d.inq, type) => Has(c.inq, type)
  BY HasShorter DEF Quieter
<1>4. NoAsk(c) => NoAsk(d)
  BY <1>3 DEF NoAsk, Quieter
<1>5. ASSUME NEW n, OneAsk(c, n) PROVE OneAsk(d, n)
  <2>1. Once(d.inq, "snapshot")
    BY <1>5, OneAskShorter DEF OneAsk, Quieter
  <2>2. \A j \in 1 .. Len(d.inq) : d.inq[j].type = "snapshot" => d.inq[j].seq \in 0 .. n
    <3>1. CASE d.inq = c.inq
      BY <1>5, <3>1 DEF OneAsk
    <3>2. CASE Shorter(d.inq, c.inq)
      <4>1. \A i \in 1 .. Len(d.inq) : i + 1 \in 1 .. Len(c.inq) /\ c.inq[i + 1] = d.inq[i]
        BY <3>2 DEF Shorter
      <4> QED BY <1>5, <4>1 DEF OneAsk
    <3> QED BY <3>1, <3>2 DEF Quieter
  <2> QED BY <1>3, <1>5, <2>1, <2>2 DEF OneAsk, Quieter
<1> QED BY <1>1, <1>2, <1>4, <1>5

LEMMA QuietLinks ==
  ASSUME TypeInv, Links, UNCHANGED <<stored, yjsUpdates>>,
         \A k \in Conns : Quieter(conn'[k], conn[k]) \/ Empty(conn'[k]),
         \A t \in Tabs : tab'[t].conn # Nil =>
           \/ /\ tab'[t].conn = tab[t].conn /\ tab[t].doc \subseteq tab'[t].doc
              /\ Quieter(conn'[tab[t].conn], conn[tab[t].conn])
           \/ /\ Empty(conn'[tab'[t].conn]) /\ conn'[tab'[t].conn].tab = t
              /\ conn'[tab'[t].conn].st \notin {"free", "open"}
  PROVE  Links'
<1>1. ASSUME NEW t \in Tabs, tab'[t].conn # Nil
      PROVE  Link(conn'[tab'[t].conn], t, tab'[t].doc, stored, yjsUpdates)
  <2>1. CASE /\ tab'[t].conn = tab[t].conn /\ tab[t].doc \subseteq tab'[t].doc
             /\ Quieter(conn'[tab[t].conn], conn[tab[t].conn])
    BY <1>1, <2>1, QuieterKeeps DEF Links
  <2>2. CASE /\ Empty(conn'[tab'[t].conn]) /\ conn'[tab'[t].conn].tab = t
             /\ conn'[tab'[t].conn].st \notin {"free", "open"}
    BY <2>2, EmptyKeeps DEF Link
  <2> QED BY <1>1, <2>1, <2>2
<1>2. \A k \in Conns : Answers(conn'[k].inq, stored, yjsUpdates)
  BY QuieterKeeps, EmptyKeeps DEF Links
<1> QED BY <1>1, <1>2 DEF Links

LEMMA QuietAsks ==
  ASSUME AskState,
         \A k \in Conns : Quieter(conn'[k], conn[k]) \/ Empty(conn'[k]),
         \A k \in Conns : Busy(k) => \/ Busy(k)' /\ rooms'[hub'].seq = rooms[hub].seq
                                     \/ NoAsk(conn'[k])
  PROVE  AskState'
<1> SUFFICES ASSUME NEW k \in Conns
             PROVE  IF Busy(k)' THEN OneAsk(conn'[k], rooms'[hub'].seq) ELSE NoAsk(conn'[k])
  BY DEF AskState
<1>1. CASE NoAsk(conn'[k])
  BY <1>1, NoAskIsFine
<1>2. CASE ~NoAsk(conn'[k])
  <2>1. Quieter(conn'[k], conn[k]) /\ ~NoAsk(conn[k])
    BY <1>2, QuieterKeeps, EmptyKeeps
  <2>2. Busy(k) /\ OneAsk(conn[k], rooms[hub].seq)
    BY <2>1 DEF AskState
  <2> QED BY <1>2, <2>1, <2>2, QuieterKeeps
<1> QED BY <1>1, <1>2

QPlus == TypeInv /\ AllInHub /\ Counted /\ Links /\ AskState

LEMMA LinkType ==
  ASSUME TypeInv, NEW t \in Tabs, tab[t].conn # Nil
  PROVE  tab[t].conn \in Conns /\ conn[tab[t].conn] \in ConnType
BY DEF TypeInv, TypeOK, TabType

LEMMA AskTaken ==
  ASSUME NEW k \in Conns, TypeInv, AskState, Reads(k, "snapshot")
  PROVE  NoAsk(Taken(conn[k]))
<1> DEFINE c == conn[k]
<1>1. /\ c \in ConnType /\ c.inq # <<>> /\ Head(c.inq).type = "snapshot"
      /\ c.inq \in Seq(InFrames)
  BY InqType DEF Reads, TypeInv, TypeOK
<1>2. Shorter(Tail(c.inq), c.inq) /\ c.inq[1].type = "snapshot"
  BY <1>1, TailShorter
<1>3. Has(c.inq, "snapshot")
  BY <1>2, HasShorter
<1>4. OneAsk(c, rooms[hub].seq)
  BY <1>3 DEF AskState, NoAsk
<1>5. ~Has(Tail(c.inq), "snapshot")
  BY <1>2, <1>4, OneAskShorter DEF OneAsk
<1>6. Taken(c).out = c.out /\ Taken(c).inq = Tail(c.inq)
  BY <1>1 DEF Taken, ConnType
<1> QED BY <1>3, <1>4, <1>5, <1>6 DEF NoAsk, OneAsk

LEMMA QuietServer ==
  ASSUME QPlus, NEW k \in Conns,
         \/ RefuseStale(k) \/ DropFrame(k) \/ PersistFails(k) \/ SnapshotFails(k)
         \/ CloseSocket(k) \/ NetDrop(k) \/ PeerGone(k) \/ Recheck(k)
  PROVE  Links' /\ AskState'
<1>0. TypeInv /\ AllInHub /\ Links /\ AskState /\ conn \in [Conns -> ConnType]
  BY DEF QPlus, TypeInv, TypeOK
<1>1. UNCHANGED <<tab, hub, stored, yjsUpdates>>
  BY DEF RefuseStale, DropFrame, PersistFails, SnapshotFails, CloseSocket, NetDrop,
         PeerGone, Recheck, dbVars
<1> DEFINE c == conn[k]
<1>2. \E d \in {Taken(c), Cut(c), Shutdown(c), [c EXCEPT !.closed = TRUE],
                [c EXCEPT !.st = "refused"]} :
        /\ conn' = [conn EXCEPT ![k] = d]
        /\ d = Taken(c) => c.inq # <<>>
  <2>1. CASE RefuseStale(k)
    <3>1. conn' = [conn EXCEPT ![k] = [c EXCEPT !.st = "refused"]] /\ c.st = "joined"
      BY <2>1 DEF RefuseStale
    <3>2. [c EXCEPT !.st = "refused"] # Taken(c)
      BY <1>0, <3>1 DEF Taken, ConnType
    <3> QED BY <3>1, <3>2
  <2>2. CASE DropFrame(k) \/ PersistFails(k) \/ SnapshotFails(k)
    BY <2>2 DEF DropFrame, PersistFails, SnapshotFails, Reads, Compacts
  <2>3. CASE CloseSocket(k) \/ NetDrop(k) \/ PeerGone(k)
    <3>1. /\ ~c.closed
          /\ \/ conn' = [conn EXCEPT ![k] = [c EXCEPT !.closed = TRUE]]
             \/ conn' = [conn EXCEPT ![k] = Cut(c)]
      BY <2>3 DEF CloseSocket, NetDrop, PeerGone, Recheck
    <3>2. [c EXCEPT !.closed = TRUE] # Taken(c) /\ Cut(c) # Taken(c)
      BY <1>0, <3>1 DEF Taken, Cut, ConnType
    <3> QED BY <3>1, <3>2
  <2>4. CASE Recheck(k)
    <3>1. ~c.done /\ conn' = [conn EXCEPT ![k] = Shutdown(c)]
      BY <2>4 DEF Recheck
    <3>2. Shutdown(c) # Taken(c)
      BY <1>0, <3>1 DEF Taken, Shutdown, ConnType
    <3> QED BY <3>1, <3>2
  <2> QED BY <2>1, <2>2, <2>3, <2>4
<1>3. PICK d \in {Taken(c), Cut(c), Shutdown(c), [c EXCEPT !.closed = TRUE],
                   [c EXCEPT !.st = "refused"]} :
        /\ conn' = [conn EXCEPT ![k] = d]
        /\ d = Taken(c) => c.inq # <<>>
  BY <1>2
<1>4. Quieter(d, c) /\ (d.st = c.st \/ d.st = "refused")
  <2>1. c \in ConnType
    BY <1>0
  <2>2. d.st = c.st \/ d.st = "refused"
    BY <1>3, <2>1 DEF Taken, Cut, Shutdown, ConnType
  <2> QED BY <1>3, <2>1, <2>2, QuieterOps
<1>5. conn'[k] = d /\ \A j \in Conns \ {k} : conn'[j] = conn[j]
  BY <1>0, <1>3
<1>6. \A j \in Conns : Quieter(conn'[j], conn[j])
  BY <1>0, <1>4, <1>5, QuieterOps
<1>7. Links'
  BY <1>0, <1>1, <1>6, LinkType, QuietLinks
<1>8. AskState'
  <2>1. ASSUME NEW j \in Conns, Busy(j)
        PROVE  \/ Busy(j)' /\ rooms'[hub'].seq = rooms[hub].seq
               \/ NoAsk(conn'[j])
    <3>1. hub \in Rooms /\ rooms[hub] \in RoomType /\ conn[j].st = "open"
      BY <1>0, <2>1, HubOfOpen DEF Busy, InRoom
    <3>2. conn'[j].st = "open" \/ RefuseStale(k)
      <4>1. CASE j = k
        <5>1. d.st = "refused" => RefuseStale(k)
          <6>1. ~RefuseStale(k) => /\ \/ conn' = [conn EXCEPT ![k] = Taken(c)]
                                      \/ conn' = [conn EXCEPT ![k] = Cut(c)]
                                      \/ conn' = [conn EXCEPT ![k] = Shutdown(c)]
                                      \/ conn' = [conn EXCEPT ![k] = [c EXCEPT !.closed = TRUE]]
            BY DEF DropFrame, PersistFails, SnapshotFails, CloseSocket, NetDrop, PeerGone, Recheck
          <6>2. ~RefuseStale(k) => \/ conn'[k] = Taken(c) \/ conn'[k] = Cut(c)
                                   \/ conn'[k] = Shutdown(c)
                                   \/ conn'[k] = [c EXCEPT !.closed = TRUE]
            <7> HIDE DEF c
            <7> QED BY <1>0, <6>1
          <6>3. /\ Taken(c).st = c.st /\ Cut(c).st = c.st /\ Shutdown(c).st = c.st
                /\ [c EXCEPT !.closed = TRUE].st = c.st
            BY <1>0 DEF Taken, Cut, Shutdown, ConnType
          <6> QED BY <1>5, <3>1, <4>1, <6>2, <6>3
        <5> QED BY <1>4, <1>5, <3>1, <4>1, <5>1
      <4>2. CASE j # k
        BY <1>5, <3>1, <4>2
      <4> QED BY <4>1, <4>2
    <3>3. CASE RefuseStale(k)
      <4>1. j # k
        BY <3>1, <3>3 DEF RefuseStale
      <4> QED BY <1>5, <2>1, <3>3, <4>1 DEF Busy, RefuseStale
    <3>4. CASE PersistFails(k)
      BY <1>0, <1>1, <2>1, <3>1, <3>2, <3>4
      DEF Busy, PersistFails, RefuseStale, TypeInv, TypeOK, RoomType, Reads
    <3>5. CASE SnapshotFails(k)
      <4>1. Compacts(k) /\ conn[k].room = hub
        BY <1>0, <3>5, HubOfOpen DEF SnapshotFails, Compacts, Reads, InRoom
      <4>2. j = k
        BY <2>1, <4>1 DEF Compacts, Busy
      <4>3. conn'[k] = Taken(c)
        BY <1>0, <3>5 DEF SnapshotFails
      <4> QED BY <1>0, <4>1, <4>2, <4>3, AskTaken DEF Compacts
    <3>6. CASE ~RefuseStale(k) /\ UNCHANGED rooms
      BY <1>1, <2>1, <3>2, <3>6 DEF Busy
    <3> QED BY <3>3, <3>4, <3>5, <3>6
       DEF DropFrame, CloseSocket, NetDrop, PeerGone, Recheck
  <2> QED BY <1>0, <1>6, <2>1, QuietAsks
<1> QED BY <1>7, <1>8

LEMMA QuietJoin ==
  ASSUME QPlus, NEW k \in Conns, Join(k)
  PROVE  Links' /\ AskState'
<1>0. TypeInv /\ AllInHub /\ Links /\ AskState /\ conn \in [Conns -> ConnType]
  BY DEF QPlus, TypeInv, TypeOK
<1>1. PICK r \in Rooms :
        /\ IF hub # NoRoom THEN r = hub ELSE Unreferenced(r)
        /\ hub' = r
        /\ rooms' = [rooms EXCEPT ![r] =
                      [(IF hub # NoRoom THEN rooms[r] ELSE NewRoom) EXCEPT
                         !.conns = @ \cup {k}]]
        /\ conn' = [conn EXCEPT ![k].st = "joined", ![k].room = r]
  BY DEF Join
<1>2. UNCHANGED <<tab, stored, yjsUpdates>> /\ conn[k].st = "accepted"
  BY DEF Join, dbVars
<1>3. /\ conn'[k] = [conn[k] EXCEPT !.st = "joined", !.room = r]
      /\ \A j \in Conns \ {k} : conn'[j] = conn[j]
  BY <1>0, <1>1
<1>4. \A j \in Conns : Quieter(conn'[j], conn[j])
  <2>1. Quieter(conn'[k], conn[k])
    <3>1. conn[k] \in ConnType
      BY <1>0
    <3>2. /\ conn'[k].tab = conn[k].tab /\ conn'[k].st = "joined"
          /\ conn'[k].out = conn[k].out /\ conn'[k].inq = conn[k].inq
      BY <1>3, <3>1 DEF ConnType
    <3> QED BY <3>2 DEF Quieter
  <2>2. \A j \in Conns \ {k} : Quieter(conn'[j], conn[j])
    BY <1>0, <1>3, QuieterOps
  <2> QED BY <2>1, <2>2
<1>5. Links'
  BY <1>0, <1>2, <1>4, LinkType, QuietLinks
<1>6. ASSUME NEW j \in Conns, Busy(j)
      PROVE  Busy(j)' /\ rooms'[hub'].seq = rooms[hub].seq
  <2>1. j # k /\ conn'[j] = conn[j] /\ hub \in Rooms /\ rooms[hub] \in RoomType
    BY <1>0, <1>2, <1>3, <1>6, HubOfOpen DEF Busy, InRoom
  <2>2. hub # NoRoom
    BY <2>1 DEF Rooms, NoRoom
  <2> DEFINE R == [rooms[hub] EXCEPT !.conns = @ \cup {k}]
  <2>3. r = hub /\ rooms' = [rooms EXCEPT ![hub] = R]
    BY <1>1, <2>2
  <2>4. /\ R.compacting = rooms[hub].compacting /\ R.seq = rooms[hub].seq
        /\ R.compactConn = rooms[hub].compactConn
    BY <2>1 DEF RoomType
  <2>5. rooms'[hub] = R /\ hub' = hub
    <3> HIDE DEF R
    <3> QED BY <1>0, <1>1, <2>1, <2>3 DEF TypeInv, TypeOK
  <2> HIDE DEF R
  <2> QED BY <1>6, <2>1, <2>4, <2>5 DEF Busy
<1> QED BY <1>0, <1>4, <1>5, <1>6, QuietAsks

(* Connections that are over, for the server, the tab or both.             *)
LEMMA ReleasedEmpty ==
  ASSUME NEW k \in Conns, NEW code
  PROVE  /\ Empty(Released(k, code)) /\ Released(k, code).st # "open"
         /\ Owned(k) => Released(k, code).st = "gone" /\ Released(k, code).tab = conn[k].tab
BY DEF Released, Empty, FreeConn

LEMMA ReleaseLinks ==
  ASSUME QPlus, UNCHANGED <<stored, yjsUpdates>>,
         \A k \in Conns : \/ conn'[k] = conn[k]
                          \/ /\ Empty(conn'[k])
                             /\ \A t \in Tabs : tab'[t].conn = k
                                  => conn'[k].st = "gone" /\ conn'[k].tab = t,
         \A t \in Tabs : tab'[t].conn # Nil
                           => tab'[t].conn = tab[t].conn /\ tab'[t].doc = tab[t].doc
  PROVE  Links'
<1>0. TypeInv /\ Links /\ \A k \in Conns : conn[k] \in ConnType
  BY DEF QPlus, TypeInv, TypeOK
<1>1. \A k \in Conns : Quieter(conn'[k], conn[k]) \/ Empty(conn'[k])
  BY <1>0, QuieterOps
<1>2. ASSUME NEW t \in Tabs, tab'[t].conn # Nil
      PROVE  \/ /\ tab'[t].conn = tab[t].conn /\ tab[t].doc \subseteq tab'[t].doc
                /\ Quieter(conn'[tab[t].conn], conn[tab[t].conn])
             \/ /\ Empty(conn'[tab'[t].conn]) /\ conn'[tab'[t].conn].tab = t
                /\ conn'[tab'[t].conn].st \notin {"free", "open"}
  <2>1. tab'[t].conn = tab[t].conn /\ tab'[t].doc = tab[t].doc /\ tab[t].conn \in Conns
    BY <1>0, <1>2, LinkType
  <2>2. CASE conn'[tab[t].conn] = conn[tab[t].conn]
    BY <1>0, <2>1, <2>2, QuieterOps
  <2>3. CASE conn'[tab[t].conn] # conn[tab[t].conn]
    BY <2>1, <2>3
  <2> QED BY <2>2, <2>3
<1> QED BY <1>0, <1>1, <1>2, QuietLinks

LEMMA QuietLeave ==
  ASSUME QPlus, NEW k \in Conns, Leave(k)
  PROVE  Links' /\ AskState'
<1> DEFINE R == rooms[hub]
           left == [R EXCEPT
                 !.conns = @ \ {k},
                 !.seedConn = IF @ = k /\ ~R.seeded THEN Nil ELSE @,
                 !.compacting = @ /\ R.compactConn # k,
                 !.compactConn = IF @ = k THEN Nil ELSE @]
           hub2 == IF IsEmpty(left) THEN NoRoom ELSE hub
           garbage == /\ hub # hub2 /\ \A w \in Writers : writer[w].room # hub
                      /\ \A j \in Conns \ {k} : InRoom(j) => conn[j].room # hub
           code == IF conn[k].st = "refused" /\ ~conn[k].done
                   THEN "reset" ELSE conn[k].code
<1>0. TypeInv /\ AllInHub /\ Links /\ AskState /\ conn \in [Conns -> ConnType]
  BY DEF QPlus, TypeInv, TypeOK
<1>1. InRoom(k) /\ hub \in Rooms /\ conn[k].room = hub /\ R \in RoomType
  BY <1>0, HubOfOpen DEF Leave, InRoom
<1>2. /\ rooms' = [rooms EXCEPT ![hub] = IF garbage THEN NewRoom ELSE left]
      /\ hub' = hub2 /\ UNCHANGED <<stored, yjsUpdates, tab>>
      /\ conn'[k] = Released(k, code)
      /\ \A j \in Conns \ {k} : conn'[j] = conn[j]
  BY <1>0, <1>1 DEF Leave, dbVars
<1>3. Empty(conn'[k])
  BY <1>2, ReleasedEmpty
<1>4. \A t \in Tabs : tab[t].conn = k => conn'[k].st = "gone" /\ conn'[k].tab = t
  <2> SUFFICES ASSUME NEW t \in Tabs, tab[t].conn = k
               PROVE  conn'[k].st = "gone" /\ conn'[k].tab = t
    OBVIOUS
  <2>1. Owned(k) /\ k # Nil
    BY CollabAssumption DEF Owned
  <2>2. conn[k].tab = t
    BY <1>0, <2>1 DEF Links, Link
  <2> QED BY <1>2, <2>1, <2>2, ReleasedEmpty
<1>5. Links'
  BY <1>2, <1>3, <1>4, ReleaseLinks
<1>6. ASSUME NEW j \in Conns, Busy(j), j # k
      PROVE  Busy(j)' /\ rooms'[hub'].seq = rooms[hub].seq
  <2>1. conn'[j] = conn[j] /\ conn[j].st = "open" /\ InRoom(j) /\ j \in R.conns
        /\ conn[j].room = hub
    BY <1>0, <1>2, <1>6 DEF Busy, InRoom, AllInHub
  <2>2. /\ left.conns = R.conns \ {k} /\ left.seq = R.seq
        /\ left.compacting = (R.compacting /\ R.compactConn # k)
        /\ left.compactConn = IF R.compactConn = k THEN Nil ELSE R.compactConn
    BY <1>1 DEF RoomType
  <2>3. hub2 = hub /\ ~garbage
    <3> HIDE DEF left
    <3> QED BY <1>6, <2>1, <2>2 DEF IsEmpty
  <2>4. hub' = hub /\ rooms'[hub] = left
    <3> HIDE DEF left, garbage
    <3> QED BY <1>0, <1>1, <1>2, <2>3 DEF TypeInv, TypeOK
  <2> HIDE DEF left
  <2> QED BY <1>6, <2>1, <2>2, <2>4 DEF Busy
<1>7. \A j \in Conns : Quieter(conn'[j], conn[j]) \/ Empty(conn'[j])
  BY <1>0, <1>2, <1>3, QuieterOps
<1> QED BY <1>0, <1>3, <1>5, <1>6, <1>7, EmptyKeeps, QuietAsks

LEMMA QuietRestart ==
  ASSUME QPlus, LosesMemory, UNCHANGED <<tab, stored, yjsUpdates>>
  PROVE  Links' /\ AskState'
<1>0. TypeInv /\ AllInHub /\ Links /\ AskState /\ conn \in [Conns -> ConnType]
  BY DEF QPlus, TypeInv, TypeOK
<1>1. \A k \in Conns : conn'[k] = IF InServer(k) THEN Released(k, "other") ELSE conn[k]
  BY DEF LosesMemory
<1>2. \A k \in Conns : InServer(k) => Empty(conn'[k])
  BY <1>1, ReleasedEmpty
<1>3. ASSUME NEW k \in Conns, InServer(k), NEW t \in Tabs, tab[t].conn = k
      PROVE  conn'[k].st = "gone" /\ conn'[k].tab = t
  <2>1. Owned(k) /\ k # Nil
    BY <1>3, CollabAssumption DEF Owned
  <2>2. conn[k].tab = t
    BY <1>0, <1>3, <2>1 DEF Links, Link
  <2> QED BY <1>1, <1>3, <2>1, <2>2, ReleasedEmpty
<1>4. Links'
  BY <1>1, <1>2, <1>3, ReleaseLinks
<1>5. \A k \in Conns : Busy(k) => NoAsk(conn'[k])
  BY <1>2, EmptyKeeps DEF Busy, InServer
<1>6. \A k \in Conns : Quieter(conn'[k], conn[k]) \/ Empty(conn'[k])
  BY <1>0, <1>1, <1>2, QuieterOps
<1> QED BY <1>0, <1>4, <1>5, <1>6, QuietAsks

LEMMA QuietTab ==
  ASSUME QPlus, NEW t \in Tabs,
         Mount(t) \/ OnClose(t) \/ Abandon(t) \/ CloseTab(t)
  PROVE  Links' /\ AskState'
<1> DEFINE k == tab[t].conn
<1>0. /\ TypeInv /\ AllInHub /\ Links /\ AskState /\ conn \in [Conns -> ConnType]
      /\ tab \in [Tabs -> TabType]
  BY DEF QPlus, TypeInv, TypeOK
<1>1. UNCHANGED <<hub, rooms, stored, yjsUpdates>>
  BY DEF Mount, OnClose, Abandon, CloseTab, dbVars
<1>2. \A j \in Conns : \/ conn'[j] = conn[j]
                       \/ j = k /\ conn[j].st = "gone" /\ conn'[j] = FreeConn
  BY <1>0 DEF Mount, OnClose, Abandon, CloseTab, LetGo
<1>3. /\ tab'[t].conn = Nil
      /\ \A u \in Tabs \ {t} : tab'[u] = tab[u]
  <2>1. NewTab(docGen).conn = Nil /\ ClosedTab.conn = Nil
    BY DEF NewTab, ClosedTab
  <2> QED BY <1>0, <2>1 DEF Mount, OnClose, Abandon, CloseTab, TabType
<1>4. \A u \in Tabs : tab'[u].conn # Nil => u # t /\ tab'[u] = tab[u]
  BY <1>3
<1>5. \A j \in Conns : conn'[j] = conn[j] \/ Empty(conn'[j])
  BY <1>2 DEF Empty, FreeConn
<1>6. ASSUME NEW j \in Conns, conn'[j] # conn[j], NEW u \in Tabs, tab'[u].conn = j
      PROVE  FALSE
  <2>1. u # t /\ tab[u].conn = j /\ tab[t].conn = j /\ j # Nil
    BY <1>2, <1>4, <1>6, CollabAssumption
  <2> QED BY <1>0, <2>1 DEF Links, Link
<1>7. Links'
  BY <1>1, <1>4, <1>5, <1>6, ReleaseLinks
<1>8. \A j \in Conns : Quieter(conn'[j], conn[j]) \/ Empty(conn'[j])
  BY <1>0, <1>5, QuieterOps
<1>9. \A j \in Conns : Busy(j) => Busy(j)' /\ rooms'[hub'].seq = rooms[hub].seq
  BY <1>1, <1>2 DEF Busy
<1> QED BY <1>0, <1>7, <1>8, <1>9, QuietAsks

LEMMA QuietEndAccess ==
  ASSUME QPlus, NEW t \in Tabs, EndAccess(t)
  PROVE  Links' /\ AskState'
<1>0. /\ TypeInv /\ AllInHub /\ Links /\ AskState /\ conn \in [Conns -> ConnType]
  BY DEF QPlus, TypeInv, TypeOK
<1>1. UNCHANGED <<hub, rooms, stored, yjsUpdates, tab>>
  BY DEF EndAccess, LosesWrite, LosesRead
<1>2. \A j \in Conns : conn'[j] = conn[j] \/ conn'[j] = Shutdown(conn[j])
  BY DEF EndAccess, LosesWrite, LosesRead
<1>3. \A j \in Conns : Quieter(conn'[j], conn[j])
  BY <1>0, <1>2, QuieterOps
<1>4. \A j \in Conns : conn'[j].st = conn[j].st
  BY <1>0, <1>2, SamePlaceOps DEF SamePlace
<1>5. \A j \in Conns : Busy(j) => Busy(j)' /\ rooms'[hub'].seq = rooms[hub].seq
  BY <1>1, <1>4 DEF Busy
<1>6. Links'
  BY <1>0, <1>1, <1>3, LinkType, QuietLinks
<1> QED BY <1>0, <1>3, <1>5, <1>6, QuietAsks

LEMMA QuietDial ==
  ASSUME QPlus, NEW t \in Tabs, NEW k \in Conns, Dial(t, k)
  PROVE  Links' /\ AskState'
<1>0. /\ TypeInv /\ AllInHub /\ Links /\ AskState /\ conn \in [Conns -> ConnType]
      /\ tab \in [Tabs -> TabType]
  BY DEF QPlus, TypeInv, TypeOK
<1>1. UNCHANGED <<hub, rooms, stored, yjsUpdates>> /\ conn[k].st = "free"
  BY DEF Dial, dbVars
<1>2. /\ Empty(conn'[k]) /\ conn'[k].tab = t /\ conn'[k].st = "accepted"
      /\ \A j \in Conns \ {k} : conn'[j] = conn[j]
  BY <1>0 DEF Dial, Empty, FreeConn
<1>3. tab'[t].conn = k /\ \A u \in Tabs \ {t} : tab'[u] = tab[u]
  BY <1>0 DEF Dial, TabType
<1>4. \A j \in Conns : Quieter(conn'[j], conn[j]) \/ Empty(conn'[j])
  BY <1>0, <1>2, QuieterOps
<1>5. ASSUME NEW u \in Tabs, tab'[u].conn # Nil
      PROVE  \/ /\ tab'[u].conn = tab[u].conn /\ tab[u].doc \subseteq tab'[u].doc
                /\ Quieter(conn'[tab[u].conn], conn[tab[u].conn])
             \/ /\ Empty(conn'[tab'[u].conn]) /\ conn'[tab'[u].conn].tab = u
                /\ conn'[tab'[u].conn].st \notin {"free", "open"}
  <2>1. CASE u = t
    BY <1>2, <1>3, <2>1
  <2>2. CASE u # t
    <3>1. tab'[u] = tab[u] /\ tab[u].conn \in Conns
      BY <1>0, <1>3, <1>5, <2>2, LinkType
    <3>2. tab[u].conn # k
      BY <1>0, <1>1, <1>5, <3>1 DEF Links, Link
    <3> QED BY <1>0, <1>2, <3>1, <3>2, QuieterOps
  <2> QED BY <2>1, <2>2
<1>6. Links'
  BY <1>0, <1>1, <1>4, <1>5, QuietLinks
<1>7. \A j \in Conns : Busy(j) => Busy(j)' /\ rooms'[hub'].seq = rooms[hub].seq
  BY <1>1, <1>2 DEF Busy
<1> QED BY <1>0, <1>4, <1>6, <1>7, QuietAsks

-----------------------------------------------------------------------------
(* What a tab does to its document and to its connection.                  *)

Owners == \A t \in Tabs : tab[t].conn # Nil => conn[tab[t].conn].tab = t

\* d differs from c in its queues at most.
SameButQueues(d, c) ==
  d.st = c.st /\ d.tab = c.tab /\ d.done = c.done /\ d.closed = c.closed

\* What onmessage makes of the tab T, and queues on the connection.
Handles(T2, T, d, c) ==
  LET m == c.out[1] IN
  /\ T2.conn = T.conn
  /\ \/ /\ m.type = "hello" /\ d.inq = c.inq
        /\ T2.doc = T.doc /\ T2.everSynced = T.everSynced /\ T2.seed = T.seed
     \/ /\ m.type = "update" /\ d.inq = c.inq
        /\ T2.doc = T.doc \cup m.doc /\ T2.everSynced = T.everSynced /\ T2.seed = T.seed
     \/ /\ m.type = "synced"
        /\ T2.doc = T.doc /\ T2.everSynced
        /\ IF T.everSynced THEN Longer(d.inq, c.inq, Update(T.doc)) ELSE d.inq = c.inq
     \/ /\ m.type = "snapshotRequest" /\ T2 = T
        /\ Longer(d.inq, c.inq, Snapshot(m.seq, T.doc))

LEMMA SendOnEffect ==
  ASSUME NEW cs \in [Conns -> ConnType], NEW k \in Conns, NEW m \in InFrames
  PROVE  /\ SendOn(cs, k, <<>>) = cs
         /\ cs[k].closed => SendOn(cs, k, <<m>>) = cs
         /\ ~cs[k].closed => /\ \A j \in Conns \ {k} : SendOn(cs, k, <<m>>)[j] = cs[j]
                             /\ SameButQueues(SendOn(cs, k, <<m>>)[k], cs[k])
                             /\ SendOn(cs, k, <<m>>)[k].out = cs[k].out
                             /\ Longer(SendOn(cs, k, <<m>>)[k].inq, cs[k].inq, m)
<1>0. k # Nil /\ cs[k] \in ConnType /\ cs[k].inq \in Seq(InFrames)
  BY CollabAssumption, InqType
<1>1. SendOn(cs, k, <<>>) = cs
  <2>1. cs[k].inq \o <<>> = cs[k].inq
    BY <1>0, ConcatEmptySeq
  <2>2. [cs[k] EXCEPT !.inq = cs[k].inq] = cs[k]
    BY <1>0 DEF ConnType
  <2>3. [cs EXCEPT ![k] = [cs[k] EXCEPT !.inq = cs[k].inq]] = cs
    BY <2>2
  <2>4. [cs EXCEPT ![k].inq = @ \o <<>>] = cs
    BY <2>1, <2>3
  <2> QED BY <2>4 DEF SendOn
<1>2. cs[k].closed => SendOn(cs, k, <<m>>) = cs
  BY DEF SendOn
<1>3. ASSUME ~cs[k].closed
      PROVE  /\ \A j \in Conns \ {k} : SendOn(cs, k, <<m>>)[j] = cs[j]
             /\ SameButQueues(SendOn(cs, k, <<m>>)[k], cs[k])
             /\ SendOn(cs, k, <<m>>)[k].out = cs[k].out
             /\ Longer(SendOn(cs, k, <<m>>)[k].inq, cs[k].inq, m)
  <2> DEFINE q == cs[k].inq \o <<m>>
             d == [cs[k] EXCEPT !.inq = q]
  <2>1. SendOn(cs, k, <<m>>) = [cs EXCEPT ![k] = d]
    BY <1>0, <1>3 DEF SendOn
  <2>2. Longer(q, cs[k].inq, m)
    BY <1>0, AppendLonger
  <2>3. /\ SameButQueues(d, cs[k]) /\ d.out = cs[k].out /\ d.inq = q
    <3> HIDE DEF q
    <3> QED BY <1>0 DEF SameButQueues, ConnType
  <2> HIDE DEF d
  <2> QED BY <2>1, <2>2, <2>3
<1> QED BY <1>1, <1>2, <1>3

LEMMA RecvEffect ==
  ASSUME TypeInv, Owners, NEW k \in Conns, Recv(k)
  PROVE  /\ \A j \in Conns \ {k} : conn'[j] = conn[j]
         /\ SameButQueues(conn'[k], conn[k]) /\ ~conn[k].closed
         /\ Shorter(conn'[k].out, conn[k].out)
         /\ \/ /\ UNCHANGED tab /\ conn'[k].inq = conn[k].inq
               /\ \A t \in Tabs : tab[t].conn # k
            \/ \E t \in Tabs :
                 /\ tab[t].conn = k
                 /\ \A u \in Tabs \ {t} : tab'[u] = tab[u] /\ tab[u].conn # k
                 /\ Handles(tab'[t], tab[t], conn'[k], conn[k])
<1> DEFINE m == Head(conn[k].out)
           t == conn[k].tab
           c == [conn[k] EXCEPT !.out = Tail(@)]
           popped == [conn EXCEPT ![k] = c]
<1>1. /\ conn[k] \in ConnType /\ t \in Tabs /\ tab[t] \in TabType
      /\ conn[k].out # <<>> /\ conn[k].out \in Seq(OutFrames) /\ ~conn[k].closed
      /\ conn \in [Conns -> ConnType] /\ tab \in [Tabs -> TabType]
  BY OutType DEF TypeInv, TypeOK, Located, Recv, InServer
<1>2. c \in ConnType /\ m \in OutFrames
  BY <1>1, OutType, HeadTailProperties
<1>3. Shorter(Tail(conn[k].out), conn[k].out) /\ m = conn[k].out[1]
  BY <1>1, TailShorter
<1>4. /\ c.out = Tail(conn[k].out) /\ c.inq = conn[k].inq /\ SameButQueues(c, conn[k])
      /\ ~c.closed
  BY <1>1 DEF ConnType, SameButQueues
<1>5. /\ popped \in [Conns -> ConnType] /\ popped[k] = c
      /\ \A j \in Conns \ {k} : popped[j] = conn[j]
  BY <1>1, <1>2
<1>6. CASE ~Owned(k)
  <2>1. conn' = popped /\ UNCHANGED tab
    BY <1>6, Zenon DEF Recv
  <2> QED BY <1>1, <1>3, <1>4, <1>5, <1>6, <2>1, Zenon DEF Owned
<1>7. CASE Owned(k)
  <2>1. PICK o \in Tabs : tab[o].conn = k
    BY <1>7 DEF Owned
  <2>2. k # Nil
    BY CollabAssumption
  <2>3. o = t /\ \A u \in Tabs \ {t} : tab[u].conn # k
    BY <2>1, <2>2 DEF Owners
  <2>4. Update(tab[t].doc) \in InFrames /\ tab[t].doc \in SUBSET Updates
    BY <1>1 DEF TabType, Update, InFrames
  <2>9. ASSUME conn' = popped
        PROVE  /\ \A j \in Conns \ {k} : conn'[j] = conn[j]
               /\ SameButQueues(conn'[k], conn[k]) /\ ~conn[k].closed
               /\ Shorter(conn'[k].out, conn[k].out)
    BY <1>1, <1>3, <1>4, <1>5, <2>9
  <2>5. CASE /\ m.type = "hello" /\ conn' = popped
             /\ tab' = [tab EXCEPT ![t].isNew = IF tab[t].everSynced THEN @ ELSE m.new]
    <3>1. /\ tab'[t].conn = tab[t].conn /\ tab'[t].doc = tab[t].doc
          /\ tab'[t].everSynced = tab[t].everSynced /\ tab'[t].seed = tab[t].seed
          /\ \A u \in Tabs \ {t} : tab'[u] = tab[u]
      BY <1>1, <2>5 DEF TabType
    <3>2. Handles(tab'[t], tab[t], conn'[k], conn[k])
      BY <1>3, <1>4, <1>5, <2>5, <3>1 DEF Handles
    <3> HIDE DEF popped, c, m
    <3> QED BY <1>1, <2>1, <2>3, <2>5, <2>9, <3>1, <3>2
  <2>6. CASE /\ m.type = "update" /\ conn' = popped
             /\ tab' = [tab EXCEPT ![t].doc = @ \cup m.doc]
    <3>1. /\ tab'[t].conn = tab[t].conn /\ tab'[t].doc = tab[t].doc \cup m.doc
          /\ tab'[t].everSynced = tab[t].everSynced /\ tab'[t].seed = tab[t].seed
          /\ \A u \in Tabs \ {t} : tab'[u] = tab[u]
      BY <1>1, <2>6 DEF TabType
    <3>2. Handles(tab'[t], tab[t], conn'[k], conn[k])
      BY <1>3, <1>4, <1>5, <2>6, <3>1 DEF Handles
    <3> HIDE DEF popped, c, m
    <3> QED BY <1>1, <2>1, <2>3, <2>6, <2>9, <3>1, <3>2
  <2>7. CASE /\ m.type = "synced" /\ conn' = SendOn(popped, k, PushOnSync(t))
             /\ tab' = [tab EXCEPT ![t].everSynced = TRUE,
                                   ![t].seed = @ \/ (tab[t].isNew /\ ~tab[t].everSynced)]
    <3>1. /\ tab'[t].conn = tab[t].conn /\ tab'[t].doc = tab[t].doc
          /\ tab'[t].everSynced
          /\ \A u \in Tabs \ {t} : tab'[u] = tab[u]
      BY <1>1, <2>7 DEF TabType
    <3>2. /\ \A j \in Conns \ {k} : conn'[j] = conn[j]
          /\ SameButQueues(conn'[k], c) /\ conn'[k].out = c.out
          /\ IF tab[t].everSynced THEN Longer(conn'[k].inq, c.inq, Update(tab[t].doc))
             ELSE conn'[k].inq = c.inq
      <4> HIDE DEF popped, c
      <4>1. CASE tab[t].everSynced
        <5>1. conn' = SendOn(popped, k, <<Update(tab[t].doc)>>)
          BY <2>7, <4>1 DEF PushOnSync
        <5> QED BY <1>4, <1>5, <2>4, <4>1, <5>1, SendOnEffect
      <4>2. CASE ~tab[t].everSynced
        <5>1. conn' = SendOn(popped, k, <<>>)
          BY <2>7, <4>2 DEF PushOnSync
        <5> QED BY <1>4, <1>5, <2>4, <4>2, <5>1, SendOnEffect DEF SameButQueues
      <4> QED BY <4>1, <4>2
    <3>3. SameButQueues(conn'[k], conn[k])
      BY <1>4, <3>2 DEF SameButQueues
    <3>4. Handles(tab'[t], tab[t], conn'[k], conn[k])
      BY <1>3, <1>4, <2>7, <3>1, <3>2, Zenon DEF Handles
    <3> QED BY <1>1, <1>3, <1>4, <2>1, <2>3, <3>1, <3>2, <3>3, <3>4
  <2>8. CASE /\ m.type = "snapshotRequest" /\ UNCHANGED tab
             /\ conn' = SendOn(popped, k, <<Snapshot(m.seq, tab[t].doc)>>)
    <3>1. Snapshot(m.seq, tab[t].doc) \in InFrames
      BY <1>2, <2>4, <2>8 DEF OutFrames, InFrames, Snapshot
    <3>2. /\ \A j \in Conns \ {k} : conn'[j] = conn[j]
          /\ SameButQueues(conn'[k], c) /\ conn'[k].out = c.out
          /\ Longer(conn'[k].inq, c.inq, Snapshot(m.seq, tab[t].doc))
      <4> HIDE DEF popped, c, m
      <4> QED BY <1>4, <1>5, <2>8, <3>1, SendOnEffect
    <3>3. SameButQueues(conn'[k], conn[k])
      BY <1>4, <3>2, Zenon DEF SameButQueues
    <3>4. Handles(tab'[t], tab[t], conn'[k], conn[k])
      BY <1>3, <1>4, <2>8, <3>2, Zenon DEF Handles
    <3> QED BY <1>1, <1>3, <1>4, <2>1, <2>3, <2>8, <3>2, <3>3, <3>4, Zenon
  <2> QED BY <1>7, <2>5, <2>6, <2>7, <2>8, Zenon DEF Recv
<1> QED BY <1>6, <1>7

LEMMA MakesEffect ==
  ASSUME TypeInv, NEW t \in Tabs, Makes(t)
  PROVE  /\ \A u \in Tabs \ {t} : tab'[u] = tab[u]
         /\ tab'[t].conn = tab[t].conn /\ tab'[t].doc = tab[t].doc \cup {edits + 1}
         /\ tab'[t].everSynced = tab[t].everSynced /\ ~tab'[t].seed
         /\ \A j \in Conns : j # tab[t].conn => conn'[j] = conn[j]
         /\ tab[t].conn # Nil =>
              LET d == conn'[tab[t].conn]
                  c == conn[tab[t].conn]
              IN  IF c.closed THEN d = c
                  ELSE /\ SameButQueues(d, c) /\ d.out = c.out
                       /\ Longer(d.inq, c.inq, Update({edits + 1}))
<1>0. conn \in [Conns -> ConnType] /\ tab \in [Tabs -> TabType]
  BY DEF TypeInv, TypeOK
<1>1. /\ \A u \in Tabs \ {t} : tab'[u] = tab[u]
      /\ tab'[t].conn = tab[t].conn /\ tab'[t].doc = tab[t].doc \cup {edits + 1}
      /\ tab'[t].everSynced = tab[t].everSynced /\ ~tab'[t].seed
  BY <1>0 DEF Makes, TabType
<1>2. edits + 1 \in Updates /\ Update({edits + 1}) \in InFrames
  BY MakesType DEF Update, InFrames
<1>3. conn' = SendOn(conn, tab[t].conn, <<Update({edits + 1})>>)
  BY DEF Makes
<1>4. CASE tab[t].conn = Nil
  <2>1. conn' = conn
    BY <1>3, <1>4 DEF SendOn
  <2> QED BY <1>1, <1>4, <2>1
<1>5. CASE tab[t].conn # Nil
  <2>1. tab[t].conn \in Conns
    BY <1>5, LinkType
  <2> QED BY <1>0, <1>1, <1>2, <1>3, <2>1, SendOnEffect
<1> QED BY <1>4, <1>5

LEMMA HandlesKeeps ==
  ASSUME NEW c, NEW d, NEW T, NEW T2, Shorter(d.out, c.out), SameButQueues(d, c),
         Handles(T2, T, d, c)
  PROVE  /\ \A t, S, log : Link(c, t, T.doc, S, log) => Link(d, t, T2.doc, S, log)
         /\ \A t, S, log : Link(c, t, T.doc, S, log) /\ Answers(c.inq, S, log)
              => Answers(d.inq, S, log)
         /\ NoAsk(c) => NoAsk(d)
         /\ \A n : OneAsk(c, n) => OneAsk(d, n)
<1> DEFINE m == c.out[1]
<1>1. T.doc \subseteq T2.doc /\ (m.type = "update" => m.doc \subseteq T2.doc)
  BY DEF Handles
<1>2. 1 \in 1 .. Len(c.out)
  BY DEF Shorter
<1>3. \/ d.inq = c.inq /\ m.type # "snapshotRequest"
      \/ Longer(d.inq, c.inq, Update(T.doc)) /\ m.type # "snapshotRequest"
      \/ Longer(d.inq, c.inq, Snapshot(m.seq, T.doc)) /\ m.type = "snapshotRequest"
  BY DEF Handles
<1>4. /\ Update(T.doc).type = "update" /\ Update(T.doc).doc = T.doc
      /\ Snapshot(m.seq, T.doc).type = "snapshot"
      /\ Snapshot(m.seq, T.doc).doc = T.doc /\ Snapshot(m.seq, T.doc).seq = m.seq
  BY DEF Update, Snapshot
<1>5. ASSUME NEW t, NEW S, NEW log, Link(c, t, T.doc, S, log)
      PROVE  Link(d, t, T2.doc, S, log)
  <2>1. d.st = "open" /\ ~d.done => Fed(d.out, T2.doc, S)
    BY <1>1, <1>5, FedShorter DEF Link, SameButQueues
  <2>2. Asked(d.out, T2.doc, S, log)
    BY <1>1, <1>5, AskedShorter DEF Link
  <2>3. SentOf(c.inq, T2.doc)
    BY <1>1, <1>5 DEF Link, SentOf
  <2>4. SentOf(d.inq, T2.doc)
    BY <1>1, <1>3, <1>4, <2>3, SentLonger
  <2> QED BY <1>5, <2>1, <2>2, <2>4 DEF Link, SameButQueues
<1>6. ASSUME NEW t, NEW S, NEW log, Link(c, t, T.doc, S, log), Answers(c.inq, S, log)
      PROVE  Answers(d.inq, S, log)
  <2>1. \A u : ~Brings(c.out, 1, u)
    BY DEF Brings
  <2>2. m.type = "snapshotRequest" => \A u \in S : u \in T.doc \/ Above(log, m.seq, u)
    BY <1>2, <1>6, <2>1 DEF Link, Asked
  <2> QED BY <1>3, <1>4, <1>6, <2>2, AnswersLonger
<1>7. Has(c.out, "snapshotRequest") <=>
        m.type = "snapshotRequest" \/ Has(d.out, "snapshotRequest")
  BY HasShorter
<1>8. Has(d.inq, "snapshot") <=> Has(c.inq, "snapshot") \/ m.type = "snapshotRequest"
  BY <1>3, <1>4, HasLonger
<1>9. ASSUME NEW n, OneAsk(c, n) PROVE OneAsk(d, n)
  <2>1. /\ Once(d.out, "snapshotRequest")
        /\ m.type = "snapshotRequest" => ~Has(d.out, "snapshotRequest")
    BY <1>9, OneAskShorter DEF OneAsk
  <2>2. Once(d.inq, "snapshot")
    <3>1. m.type = "snapshotRequest" => ~Has(c.inq, "snapshot")
      BY <1>7, <1>9 DEF OneAsk
    <3> QED BY <1>3, <1>4, <1>9, <3>1, OneAskLonger DEF OneAsk
  <2>3. \A j \in 1 .. Len(d.out) : d.out[j].type = "snapshotRequest" => d.out[j].seq \in 0 .. n
    <3>1. \A i \in 1 .. Len(d.out) : i + 1 \in 1 .. Len(c.out) /\ c.out[i + 1] = d.out[i]
      BY DEF Shorter
    <3> QED BY <1>9, <3>1 DEF OneAsk
  <2>4. ASSUME NEW j \in 1 .. Len(d.inq), d.inq[j].type = "snapshot"
        PROVE  d.inq[j].seq \in 0 .. n
    <3>1. CASE d.inq = c.inq
      BY <1>9, <2>4, <3>1 DEF OneAsk
    <3>2. ASSUME NEW x, Longer(d.inq, c.inq, x), x.type = "snapshot" => x.seq \in 0 .. n
          PROVE  d.inq[j].seq \in 0 .. n
      <4>1. d.inq[j] = x \/ (j \in 1 .. Len(c.inq) /\ d.inq[j] = c.inq[j])
        BY <3>2 DEF Longer
      <4> QED BY <1>9, <2>4, <3>2, <4>1 DEF OneAsk
    <3>3. m.type = "snapshotRequest" => m.seq \in 0 .. n
      BY <1>2, <1>9 DEF OneAsk
    <3> QED BY <1>3, <1>4, <3>1, <3>2, <3>3
  <2>5. ~(Has(d.out, "snapshotRequest") /\ Has(d.inq, "snapshot"))
    BY <1>7, <1>8, <1>9, <2>1 DEF OneAsk
  <2> QED BY <2>1, <2>2, <2>3, <2>4, <2>5 DEF OneAsk
<1>10. NoAsk(c) => NoAsk(d)
  BY <1>7, <1>8 DEF NoAsk
<1> QED BY <1>5, <1>6, <1>9, <1>10

LEMMA LinksOwners == Links => Owners
BY DEF Links, Link, Owners

LEMMA RecvLinks ==
  ASSUME QPlus, NEW k \in Conns, Recv(k)
  PROVE  Links' /\ AskState'
<1> DEFINE c == conn[k]
           d == conn'[k]
<1>0. TypeInv /\ Links /\ AskState /\ Owners /\ k # Nil
  BY LinksOwners, CollabAssumption DEF QPlus
<1>1. UNCHANGED <<hub, rooms, stored, yjsUpdates>>
  BY DEF Recv, dbVars
<1>2. /\ \A j \in Conns \ {k} : conn'[j] = conn[j]
      /\ SameButQueues(d, c) /\ ~c.closed /\ Shorter(d.out, c.out)
      /\ \/ UNCHANGED tab /\ d.inq = c.inq /\ \A t \in Tabs : tab[t].conn # k
         \/ \E t \in Tabs :
                 /\ tab[t].conn = k
                 /\ \A u \in Tabs \ {t} : tab'[u] = tab[u] /\ tab[u].conn # k
                 /\ Handles(tab'[t], tab[t], d, c)
  BY <1>0, RecvEffect
<1>3. /\ \A S, log : Links /\ S = stored /\ log = yjsUpdates => Answers(d.inq, S, log)
      /\ NoAsk(c) => NoAsk(d)
      /\ \A n : OneAsk(c, n) => OneAsk(d, n)
  <2>1. CASE d.inq = c.inq
    <3>1. /\ Has(d.out, "snapshotRequest") => Has(c.out, "snapshotRequest")
          /\ Once(c.out, "snapshotRequest") => Once(d.out, "snapshotRequest")
      BY <1>2, HasShorter, OneAskShorter
    <3>2. \A i \in 1 .. Len(d.out) : i + 1 \in 1 .. Len(c.out) /\ c.out[i + 1] = d.out[i]
      BY <1>2 DEF Shorter
    <3>3. \A n : OneAsk(c, n) => OneAsk(d, n)
      BY <2>1, <3>1, <3>2 DEF OneAsk
    <3> QED BY <2>1, <3>1, <3>3 DEF NoAsk, Links
  <2>2. ASSUME NEW t \in Tabs, tab[t].conn = k, Handles(tab'[t], tab[t], d, c)
        PROVE  /\ Links => Answers(d.inq, stored, yjsUpdates)
               /\ NoAsk(c) => NoAsk(d)
               /\ \A n : OneAsk(c, n) => OneAsk(d, n)
    <3>1. Links => Link(c, t, tab[t].doc, stored, yjsUpdates)
                   /\ Answers(c.inq, stored, yjsUpdates)
      BY <1>0, <2>2 DEF Links
    <3> QED BY <1>2, <2>2, <3>1, HandlesKeeps
  <2> QED BY <1>2, <2>1, <2>2
<1>4. ASSUME NEW t \in Tabs, tab'[t].conn # Nil
      PROVE  Link(conn'[tab'[t].conn], t, tab'[t].doc, stored, yjsUpdates)
  <2>1. CASE tab'[t] = tab[t] /\ tab[t].conn # k
    <3>1. tab[t].conn \in Conns
      BY <1>0, <1>4, <2>1, LinkType
    <3> QED BY <1>0, <1>2, <1>4, <2>1, <3>1 DEF Links
  <2>2. CASE tab[t].conn = k /\ Handles(tab'[t], tab[t], d, c)
    <3>1. Link(c, t, tab[t].doc, stored, yjsUpdates) /\ tab'[t].conn = k
      BY <1>0, <2>2 DEF Links, Handles
    <3> QED BY <1>2, <2>2, <3>1, HandlesKeeps
  <2> QED BY <1>2, <2>1, <2>2
<1>5. Links'
  BY <1>0, <1>1, <1>2, <1>3, <1>4 DEF Links
<1>6. AskState'
  <2>1. \A j \in Conns : Busy(j)' <=> Busy(j)
    BY <1>1, <1>2 DEF Busy, SameButQueues
  <2> QED BY <1>0, <1>1, <1>2, <1>3, <2>1 DEF AskState
<1> QED BY <1>5, <1>6

LEMMA MakesLinks ==
  ASSUME QPlus, NEW t \in Tabs, Makes(t), UNCHANGED <<hub, rooms, stored, yjsUpdates>>
  PROVE  Links' /\ AskState'
<1> DEFINE k == tab[t].conn
           c == conn[k]
           d == conn'[k]
           m == Update({edits + 1})
           E == tab[t].doc \cup {edits + 1}
<1>0. TypeInv /\ Links /\ AskState /\ Owners
  BY LinksOwners DEF QPlus
<1>1. /\ \A u \in Tabs \ {t} : tab'[u] = tab[u]
      /\ tab'[t].conn = k /\ tab'[t].doc = E
      /\ \A j \in Conns : j # k => conn'[j] = conn[j]
      /\ k # Nil => \/ c.closed /\ d = c
                    \/ SameButQueues(d, c) /\ d.out = c.out /\ Longer(d.inq, c.inq, m)
  BY <1>0, MakesEffect
<1>2. m.type = "update" /\ m.doc \subseteq E
  BY DEF Update
<1>3. ASSUME k # Nil, SameButQueues(d, c), d.out = c.out, Longer(d.inq, c.inq, m)
      PROVE  /\ \A D, S, log : Link(c, t, D, S, log) /\ D \subseteq E /\ m.doc \subseteq E
                  => Link(d, t, E, S, log)
             /\ \A S, log : Answers(c.inq, S, log) => Answers(d.inq, S, log)
             /\ NoAsk(c) => NoAsk(d)
             /\ \A n : OneAsk(c, n) => OneAsk(d, n)
  <2> HIDE DEF E, m, c, d
  <2>1. ASSUME NEW D, NEW S, NEW log, Link(c, t, D, S, log), D \subseteq E, m.doc \subseteq E
        PROVE  Link(d, t, E, S, log)
    <3>1. SentOf(c.inq, E) /\ Asked(d.out, E, S, log)
      BY <1>3, <2>1 DEF Link, SentOf, Asked
    <3>2. SentOf(d.inq, E)
      BY <1>3, <2>1, <3>1, SentLonger
    <3>3. d.st = "open" /\ ~d.done => Fed(d.out, E, S)
      BY <1>3, <2>1 DEF Link, SameButQueues, Fed
    <3> QED BY <1>3, <2>1, <3>1, <3>2, <3>3 DEF Link, SameButQueues
  <2>2. ASSUME NEW S, NEW log, Answers(c.inq, S, log) PROVE Answers(d.inq, S, log)
    BY <1>2, <1>3, <2>2, AnswersLonger
  <2>3. Has(d.inq, "snapshot") <=> Has(c.inq, "snapshot")
    BY <1>2, <1>3, HasLonger
  <2>4. ASSUME NEW n, OneAsk(c, n) PROVE OneAsk(d, n)
    <3>1. Once(d.inq, "snapshot")
      BY <1>2, <1>3, <2>4, OneAskLonger DEF OneAsk
    <3>2. \A i \in 1 .. Len(d.inq) : d.inq[i] = m \/ (i \in 1 .. Len(c.inq) /\ d.inq[i] = c.inq[i])
      BY <1>3 DEF Longer
    <3> QED BY <1>2, <1>3, <2>3, <2>4, <3>1, <3>2 DEF OneAsk
  <2> QED BY <1>3, <2>1, <2>2, <2>3, <2>4 DEF NoAsk
<1> HIDE DEF m, E
<1>4. ASSUME NEW u \in Tabs, tab'[u].conn # Nil
      PROVE  Link(conn'[tab'[u].conn], u, tab'[u].doc, stored, yjsUpdates)
  <2>1. CASE u = t
    <3>1. Link(c, t, tab[t].doc, stored, yjsUpdates) /\ tab[t].doc \subseteq E /\ k # Nil
      BY <1>0, <1>1, <1>4, <2>1 DEF Links, E
    <3>2. CASE d = c
      <4>1. k \in Conns /\ c \in ConnType
        BY <1>0, <3>1, LinkType
      <4>2. Quieter(c, c)
        BY <4>1, QuieterOps
      <4>3. Link(c, t, E, stored, yjsUpdates)
        <5> HIDE DEF c
        <5> QED BY <3>1, <4>2, QuieterKeeps
      <4> QED BY <1>1, <2>1, <3>2, <4>3
    <3> QED BY <1>1, <1>2, <1>3, <2>1, <3>1, <3>2
  <2>2. CASE u # t
    <3>1. tab'[u] = tab[u] /\ tab[u].conn \in Conns
      BY <1>0, <1>1, <1>4, <2>2, LinkType
    <3>2. tab[u].conn # k
      BY <1>0, <1>1, <1>4, <2>2, <3>1 DEF Owners
    <3> QED BY <1>0, <1>1, <1>4, <3>1, <3>2 DEF Links
  <2> QED BY <2>1, <2>2
<1>5. \A j \in Conns : /\ conn'[j].st = conn[j].st
                       /\ Answers(conn[j].inq, stored, yjsUpdates)
                            => Answers(conn'[j].inq, stored, yjsUpdates)
                       /\ NoAsk(conn[j]) => NoAsk(conn'[j])
                       /\ \A n : OneAsk(conn[j], n) => OneAsk(conn'[j], n)
  <2> SUFFICES ASSUME NEW j \in Conns
               PROVE  /\ conn'[j].st = conn[j].st
                      /\ Answers(conn[j].inq, stored, yjsUpdates)
                            => Answers(conn'[j].inq, stored, yjsUpdates)
                      /\ NoAsk(conn[j]) => NoAsk(conn'[j])
                      /\ \A n : OneAsk(conn[j], n) => OneAsk(conn'[j], n)
    OBVIOUS
  <2>1. CASE conn'[j] = conn[j]
    BY <2>1
  <2>2. CASE conn'[j] # conn[j]
    <3>1. j = k /\ k # Nil
      BY <1>1, <2>2, CollabAssumption
    <3> QED BY <1>1, <1>3, <2>2, <3>1 DEF SameButQueues
  <2> QED BY <2>1, <2>2
<1>6. Links'
  BY <1>0, <1>4, <1>5 DEF Links
<1>7. AskState'
  <2>1. \A j \in Conns : Busy(j)' <=> Busy(j)
    BY <1>5 DEF Busy
  <2> QED BY <1>0, <1>5, <2>1 DEF AskState
<1> QED BY <1>6, <1>7

-----------------------------------------------------------------------------
(* A join is sent all that is kept.                                        *)

LEMMA ReplayHas ==
  ASSUME TypeInv
  PROVE  /\ Replay \in Seq(OutFrames) /\ Len(Replay) \in Nat
         /\ \A i \in 1 .. Len(Replay) :
              Replay[i].type = "update" /\ \A u \in Replay[i].doc : u \in Kept
         /\ Lost => \A u \in Kept : \E i \in 1 .. Len(Replay) : u \in Replay[i].doc
<1> DEFINE A == IF yjsState.have THEN <<Update(yjsState.doc)>> ELSE <<>>
           B == [i \in DOMAIN yjsUpdates |-> Update(yjsUpdates[i].doc)]
           L == Len(yjsUpdates)
<1>1. L \in Nat /\ DOMAIN yjsUpdates = 1 .. L /\ \A i \in 1 .. L : yjsUpdates[i] \in RowType
  BY LogFacts
<1>2. \A s \in SUBSET Updates : /\ Update(s) \in OutFrames /\ Update(s).type = "update"
                                /\ Update(s).doc = s
  BY DEF Update, OutFrames
<1>3. B \in Seq(OutFrames) /\ Len(B) = L /\ \A i \in 1 .. L : B[i] = Update(yjsUpdates[i].doc)
  <2>1. \A i \in 1 .. L : Update(yjsUpdates[i].doc) \in OutFrames
    BY <1>1, <1>2 DEF RowType
  <2> HIDE DEF L
  <2>2. B \in [1 .. L -> OutFrames]
    BY <1>1, <2>1
  <2> QED BY <1>1, <2>2
<1>4. yjsState.doc \in SUBSET Updates /\ yjsState.have \in BOOLEAN
  BY DEF TypeInv, TypeOK
<1>5. /\ A \in Seq(OutFrames)
      /\ yjsState.have => Len(A) = 1 /\ A[1] = Update(yjsState.doc)
      /\ ~yjsState.have => Len(A) = 0
  BY <1>2, <1>4
<1> HIDE DEF A, B, L
<1>6. Replay = A \o B
  BY DEF Replay, A, B
<1>7. /\ Replay \in Seq(OutFrames) /\ Len(Replay) = Len(A) + L
      /\ \A i \in 1 .. Len(A) + L : Replay[i] = IF i <= Len(A) THEN A[i] ELSE B[i - Len(A)]
  BY <1>1, <1>3, <1>5, <1>6, ConcatProperties
<1>8. Len(A) \in {0, 1} /\ (Len(A) = 1 <=> yjsState.have)
  <2>1. CASE yjsState.have
    <3>1. Len(A) = 1
      BY ONLY <1>5, <2>1
    <3> QED BY ONLY <2>1, <3>1
  <2>2. CASE ~yjsState.have
    <3>1. Len(A) = 0
      BY ONLY <1>5, <2>2
    <3> QED BY ONLY <2>2, <3>1
  <2> QED BY <2>1, <2>2
<1>9. ASSUME NEW i \in 1 .. Len(Replay)
      PROVE  Replay[i].type = "update" /\ \A u \in Replay[i].doc : u \in Kept
  <2>1. CASE i <= Len(A)
    <3>1. i = 1 /\ Replay[i] = Update(yjsState.doc)
      BY <1>1, <1>5, <1>7, <1>8, <2>1
    <3> QED BY <1>2, <1>4, <3>1, KeptIs
  <2>2. CASE ~(i <= Len(A))
    <3>1. i - Len(A) \in 1 .. L /\ Replay[i] = B[i - Len(A)]
      BY <1>1, <1>7, <1>8, <2>2
    <3>2. Replay[i] = Update(yjsUpdates[i - Len(A)].doc)
          /\ yjsUpdates[i - Len(A)].doc \in SUBSET Updates
      BY <1>1, <1>3, <3>1 DEF RowType
    <3>3. \A u \in yjsUpdates[i - Len(A)].doc : InLog(yjsUpdates, u)
      BY <3>1 DEF InLog, L
    <3> QED BY <1>2, <3>2, <3>3, KeptIs
  <2> QED BY <2>1, <2>2
<1>10. ASSUME Lost, NEW u \in Kept PROVE \E i \in 1 .. Len(Replay) : u \in Replay[i].doc
  <2>1. CASE u \in yjsState.doc
    <3>1. yjsState.have /\ 1 \in 1 .. Len(Replay) /\ Replay[1] = Update(yjsState.doc)
      BY <1>1, <1>5, <1>7, <1>8, <1>10, <2>1 DEF Lost
    <3> QED BY <1>2, <1>4, <2>1, <3>1
  <2>2. CASE InLog(yjsUpdates, u)
    <3>1. PICK i \in 1 .. L : u \in yjsUpdates[i].doc
      BY <2>2 DEF InLog, L
    <3>2. i + Len(A) \in 1 .. Len(Replay) /\ Replay[i + Len(A)] = B[i]
      BY <1>1, <1>7, <1>8
    <3>3. B[i].doc = yjsUpdates[i].doc
      BY <1>1, <1>2, <1>3 DEF RowType
    <3> QED BY <3>1, <3>2, <3>3
  <2> QED BY <1>10, <2>1, <2>2, KeptIs
<1> QED BY <1>1, <1>7, <1>8, <1>9, <1>10

LEMMA LoadFrames ==
  ASSUME TypeInv, NEW new \in BOOLEAN
  PROVE  LET fs == <<Hello(new)>> \o Replay \o <<Synced>> IN
         /\ fs \in Seq(OutFrames) /\ Len(fs) \in Nat /\ Has(fs, "synced")
         /\ \A i \in 1 .. Len(fs) :
              /\ fs[i].type # "snapshotRequest"
              /\ fs[i].type = "update" => \A u \in fs[i].doc : u \in Kept
         /\ Lost => \A u \in Kept :
              \E i \in 1 .. Len(fs) : fs[i].type = "update" /\ u \in fs[i].doc
<1> DEFINE h == Hello(new)
           gs == <<h>> \o Replay
           fs == gs \o <<Synced>>
           L == Len(Replay)
<1>1. h \in OutFrames /\ h.type = "hello" /\ Synced \in OutFrames /\ Synced.type = "synced"
  BY DEF Hello, Synced, OutFrames
<1> HIDE DEF h
<1>2. <<h>> \in Seq(OutFrames) /\ Len(<<h>>) = 1 /\ <<h>>[1] = h
  BY <1>1
<1>3. /\ gs \in Seq(OutFrames) /\ Len(gs) = L + 1 /\ gs[1] = h /\ L \in Nat
      /\ \A i \in 1 .. L : gs[i + 1] = Replay[i]
  <2>1. L \in Nat /\ Replay \in Seq(OutFrames)
    BY ReplayHas
  <2>2. /\ gs \in Seq(OutFrames) /\ Len(gs) = 1 + L
        /\ \A i \in 1 .. 1 + L : gs[i] = IF i <= 1 THEN <<h>>[i] ELSE Replay[i - 1]
    BY <1>2, <2>1, ConcatProperties
  <2>3. \A i \in 1 .. L : i + 1 \in 1 .. 1 + L /\ ~(i + 1 <= 1) /\ (i + 1) - 1 = i
    BY <2>1
  <2> QED BY <1>2, <2>1, <2>2, <2>3
<1>4. Longer(fs, gs, Synced) /\ fs \in Seq(OutFrames)
  <2>1. <<Synced>> \in Seq(OutFrames)
    BY <1>1
  <2> HIDE DEF gs
  <2> QED BY <1>1, <1>3, <2>1, AppendLonger, ConcatProperties
<1> HIDE DEF gs, fs
<1>5. Len(fs) = L + 2 /\ fs[1] = h /\ fs[L + 2] = Synced /\ \A i \in 1 .. L : fs[i + 1] = Replay[i]
  BY <1>3, <1>4 DEF Longer
<1>6. Len(fs) \in Nat /\ Has(fs, "synced")
  BY <1>1, <1>3, <1>5 DEF Has
<1>7. ASSUME NEW i \in 1 .. Len(fs)
      PROVE  /\ fs[i].type # "snapshotRequest"
             /\ fs[i].type = "update" => \A u \in fs[i].doc : u \in Kept
  <2>1. CASE i = 1 \/ i = L + 2
    BY <1>1, <1>5, <2>1
  <2>2. CASE ~(i = 1 \/ i = L + 2)
    <3>1. i - 1 \in 1 .. L /\ fs[i] = Replay[i - 1]
      BY <1>3, <1>5, <2>2
    <3> QED BY <3>1, ReplayHas
  <2> QED BY <2>1, <2>2
<1>8. ASSUME Lost, NEW u \in Kept
      PROVE  \E i \in 1 .. Len(fs) : fs[i].type = "update" /\ u \in fs[i].doc
  <2>1. PICK i \in 1 .. L : u \in Replay[i].doc /\ Replay[i].type = "update"
    BY <1>8, ReplayHas
  <2>2. i + 1 \in 1 .. Len(fs) /\ fs[i + 1] = Replay[i]
    BY <1>3, <1>5
  <2> QED BY <2>1, <2>2
<1>9. fs = <<Hello(new)>> \o Replay \o <<Synced>>
  BY DEF fs, gs, h
<1> QED BY <1>4, <1>6, <1>7, <1>8, <1>9

(* What QueuedAll makes of a queue.                                        *)
LEMMA QueuedAllEffect ==
  ASSUME NEW c \in ConnType, NEW fs \in Seq(OutFrames)
  PROVE  LET d == QueuedAll(c, fs) IN
         /\ d.st = c.st /\ d.tab = c.tab /\ d.closed = c.closed /\ d.inq = c.inq
         /\ c.done => d.done
         /\ \E gs \in Seq(OutFrames) :
              /\ d.out = c.out \o gs
              /\ \A i \in 1 .. Len(gs) : i \in 1 .. Len(fs) /\ gs[i] = fs[i]
              /\ d.done \/ gs = fs
<1> DEFINE left == c.cap - Len(c.out)
           gs == SubSeq(fs, 1, left)
<1>1. CASE Len(fs) <= left
  <2>1. QueuedAll(c, fs) = [c EXCEPT !.out = c.out \o fs]
    BY <1>1 DEF QueuedAll
  <2> DEFINE q == c.out \o fs
  <2>2. [c EXCEPT !.out = q].out = q /\ [c EXCEPT !.out = q].st = c.st
        /\ [c EXCEPT !.out = q].tab = c.tab /\ [c EXCEPT !.out = q].closed = c.closed
        /\ [c EXCEPT !.out = q].inq = c.inq /\ [c EXCEPT !.out = q].done = c.done
    <3> HIDE DEF q
    <3> QED BY DEF ConnType
  <2> HIDE DEF q
  <2> QED BY <2>1, <2>2 DEF q
<1>2. CASE ~(Len(fs) <= left)
  <2> DEFINE q == c.out \o gs
             d == Shutdown([c EXCEPT !.out = q])
  <2>1. QueuedAll(c, fs) = d
    BY <1>2 DEF QueuedAll
  <2>2. /\ d.st = c.st /\ d.tab = c.tab /\ d.closed = c.closed /\ d.inq = c.inq
        /\ d.done /\ d.out = q
    <3> HIDE DEF q
    <3> QED BY DEF ConnType, Shutdown
  <2>3. /\ gs \in Seq(OutFrames)
        /\ \A i \in 1 .. Len(gs) : i \in 1 .. Len(fs) /\ gs[i] = fs[i]
    <3>1. Len(c.out) \in Nat /\ c.cap \in Nat /\ left \in Int /\ Len(fs) \in Nat
      <4>1. c.out \in Seq(OutFrames)
        BY OutType
      <4>2. Len(c.out) \in Nat /\ c.cap \in Nat /\ Len(fs) \in Nat
        BY <4>1, LenProperties DEF ConnType
      <4> QED BY <4>2
    <3> HIDE DEF left
    <3>2. \A i \in 1 .. left : i \in 1 .. Len(fs) /\ fs[i] \in OutFrames
      <4>1. \A i \in 1 .. left : i \in 1 .. Len(fs)
        BY <1>2, <3>1
      <4> QED BY <4>1, ElementOfSeq
    <3>3. /\ gs \in Seq(OutFrames) /\ Len(gs) = IF 1 <= left THEN left - 1 + 1 ELSE 0
          /\ \A i \in 1 .. left - 1 + 1 : gs[i] = fs[1 + i - 1]
      BY <3>1, <3>2, SubSeqProperties
    <3>4. \A i \in 1 .. Len(gs) : i \in 1 .. left /\ gs[i] = fs[i]
      BY <3>1, <3>3
    <3> QED BY <3>2, <3>3, <3>4
  <2> HIDE DEF d, gs
  <2> QED BY <2>1, <2>2, <2>3 DEF gs
<1> QED BY <1>1, <1>2

LEMMA LoadEffect ==
  ASSUME TypeInv, AllInHub, NEW k \in Conns, Load(k)
  PROVE  /\ \A j \in Conns \ {k} : conn'[j] = conn[j]
         /\ conn[k].st = "joined" /\ conn'[k].st = "open"
         /\ conn'[k].tab = conn[k].tab /\ conn'[k].inq = conn[k].inq
         /\ conn'[k].closed = conn[k].closed
         /\ conn[k].done => conn'[k].done
         /\ \E gs \in Seq(OutFrames) :
              /\ conn'[k].out = conn[k].out \o gs
              /\ \A i \in 1 .. Len(gs) :
                   /\ gs[i].type # "snapshotRequest"
                   /\ gs[i].type = "update" => \A u \in gs[i].doc : u \in Kept
              /\ \/ conn'[k].done
                 \/ /\ Has(gs, "synced")
                    /\ Lost => \A u \in Kept :
                         \E i \in 1 .. Len(gs) : gs[i].type = "update" /\ u \in gs[i].doc
         /\ hub \in Rooms /\ rooms'[hub].compacting = rooms[hub].compacting
         /\ rooms'[hub].compactConn = rooms[hub].compactConn
         /\ rooms'[hub].conns = rooms[hub].conns /\ rooms'[hub].loaded
         /\ rooms[hub].loaded => rooms'[hub].seq = rooms[hub].seq
         /\ \A r \in Rooms \ {hub} : rooms'[r] = rooms[r]
<1> DEFINE new == FindsNew(rooms[hub])
           fs == <<Hello(new)>> \o Replay \o <<Synced>>
           c == conn[k]
           q == QueuedAll(c, fs)
           R2 == [Loaded(rooms[hub]) EXCEPT !.seedConn = IF new THEN k ELSE @]
<1>1. /\ conn[k].room = hub /\ hub \in Rooms /\ rooms[hub] \in RoomType /\ c \in ConnType
      /\ conn \in [Conns -> ConnType] /\ rooms \in [Rooms -> RoomType]
  BY HubOfOpen DEF Load, InRoom, TypeInv, TypeOK
<1>2. /\ conn' = [conn EXCEPT ![k] = [q EXCEPT !.st = "open"]]
      /\ rooms' = [rooms EXCEPT ![hub] = R2]
      /\ c.st = "joined"
  BY <1>1 DEF Load
<1>3. /\ fs \in Seq(OutFrames) /\ Len(fs) \in Nat /\ Has(fs, "synced")
      /\ \A i \in 1 .. Len(fs) :
              /\ fs[i].type # "snapshotRequest"
              /\ fs[i].type = "update" => \A u \in fs[i].doc : u \in Kept
      /\ Lost => \A u \in Kept :
              \E i \in 1 .. Len(fs) : fs[i].type = "update" /\ u \in fs[i].doc
  <2>1. new \in BOOLEAN
    BY DEF FindsNew
  <2> HIDE DEF new
  <2> QED BY <2>1, LoadFrames
<1> HIDE DEF fs
<1>4. /\ q.st = c.st /\ q.tab = c.tab /\ q.closed = c.closed /\ q.inq = c.inq
      /\ c.done => q.done
      /\ \E gs \in Seq(OutFrames) :
              /\ q.out = c.out \o gs
              /\ \A i \in 1 .. Len(gs) : i \in 1 .. Len(fs) /\ gs[i] = fs[i]
              /\ q.done \/ gs = fs
      /\ q \in ConnType
  <2> HIDE DEF c
  <2> QED BY <1>1, <1>3, QueuedAllEffect, QueuedAllType
<1>5. PICK gs \in Seq(OutFrames) :
              /\ q.out = c.out \o gs
              /\ \A i \in 1 .. Len(gs) : i \in 1 .. Len(fs) /\ gs[i] = fs[i]
              /\ q.done \/ gs = fs
  BY <1>4
<1>6. \A j \in Conns \ {k} : conn'[j] = conn[j]
  BY <1>1, <1>2
<1>7. /\ conn'[k].st = "open" /\ conn'[k].tab = q.tab /\ conn'[k].inq = q.inq
      /\ conn'[k].closed = q.closed /\ conn'[k].done = q.done /\ conn'[k].out = q.out
  <2>1. conn'[k] = [q EXCEPT !.st = "open"]
    <3> HIDE DEF q
    <3> QED BY <1>1, <1>2
  <2> HIDE DEF q
  <2> QED BY <1>4, <2>1 DEF ConnType
<1>8. /\ rooms'[hub].compacting = rooms[hub].compacting
      /\ rooms'[hub].compactConn = rooms[hub].compactConn
      /\ rooms'[hub].conns = rooms[hub].conns /\ rooms'[hub].loaded
      /\ rooms[hub].loaded => rooms'[hub].seq = rooms[hub].seq
      /\ \A r \in Rooms \ {hub} : rooms'[r] = rooms[r]
  <2> DEFINE L == Loaded(rooms[hub])
  <2>1. /\ L \in RoomType /\ L.compacting = rooms[hub].compacting
        /\ L.compactConn = rooms[hub].compactConn /\ L.conns = rooms[hub].conns
        /\ L.loaded /\ (rooms[hub].loaded => L.seq = rooms[hub].seq)
    BY <1>1, LoadedType, Zenon DEF Loaded, RoomType, TypeInv
  <2>2. rooms'[hub] = R2 /\ \A r \in Rooms \ {hub} : rooms'[r] = rooms[r]
    <3> HIDE DEF R2
    <3> QED BY <1>1, <1>2
  <2> HIDE DEF L, new
  <2>3. /\ R2.compacting = L.compacting /\ R2.compactConn = L.compactConn
        /\ R2.conns = L.conns /\ R2.loaded = L.loaded /\ R2.seq = L.seq
    BY <2>1 DEF RoomType, L
  <2> QED BY <2>1, <2>2, <2>3
<1>9. \E g \in Seq(OutFrames) :
              /\ conn'[k].out = conn[k].out \o g
              /\ \A i \in 1 .. Len(g) :
                   /\ g[i].type # "snapshotRequest"
                   /\ g[i].type = "update" => \A u \in g[i].doc : u \in Kept
              /\ \/ conn'[k].done
                 \/ /\ Has(g, "synced")
                    /\ Lost => \A u \in Kept :
                         \E i \in 1 .. Len(g) : g[i].type = "update" /\ u \in g[i].doc
  <2>1. /\ conn'[k].out = conn[k].out \o gs
        /\ \A i \in 1 .. Len(gs) :
                   /\ gs[i].type # "snapshotRequest"
                   /\ gs[i].type = "update" => \A u \in gs[i].doc : u \in Kept
    BY <1>3, <1>5, <1>7
  <2>2. \/ conn'[k].done
        \/ /\ Has(gs, "synced")
           /\ Lost => \A u \in Kept :
                         \E i \in 1 .. Len(gs) : gs[i].type = "update" /\ u \in gs[i].doc
    BY <1>3, <1>5, <1>7
  <2> QED BY <2>1, <2>2
<1> QED BY <1>1, <1>2, <1>4, <1>6, <1>7, <1>8, <1>9

LEMMA ConcatEffect ==
  ASSUME NEW F, NEW q \in Seq(F), NEW p \in Seq(F)
  PROVE  /\ \A type : Has(q \o p, type) <=> Has(q, type) \/ Has(p, type)
         /\ \A u : Brings(q \o p, Len(q \o p) + 1, u)
              <=> Brings(q, Len(q) + 1, u) \/ Brings(p, Len(p) + 1, u)
<1> DEFINE qp == q \o p
<1>1. /\ Len(q) \in Nat /\ Len(p) \in Nat /\ Len(qp) = Len(q) + Len(p)
      /\ \A i \in 1 .. Len(q) + Len(p) : qp[i] = IF i <= Len(q) THEN q[i] ELSE p[i - Len(q)]
  BY ConcatProperties, LenProperties
<1> HIDE DEF qp
<1>2. \A i \in 1 .. Len(qp) : \/ i \in 1 .. Len(q) /\ qp[i] = q[i]
                              \/ i - Len(q) \in 1 .. Len(p) /\ qp[i] = p[i - Len(q)]
  BY <1>1
<1>3. \A i \in 1 .. Len(q) : i \in 1 .. Len(qp) /\ qp[i] = q[i]
  BY <1>1
<1>4. \A i \in 1 .. Len(p) : i + Len(q) \in 1 .. Len(qp) /\ qp[i + Len(q)] = p[i]
  <2> SUFFICES ASSUME NEW i \in 1 .. Len(p)
               PROVE  i + Len(q) \in 1 .. Len(qp) /\ qp[i + Len(q)] = p[i]
    OBVIOUS
  <2>1. i + Len(q) \in 1 .. Len(q) + Len(p) /\ ~(i + Len(q) <= Len(q))
        /\ (i + Len(q)) - Len(q) = i
    BY <1>1
  <2> QED BY <1>1, <2>1
<1>5. \A type : Has(qp, type) <=> Has(q, type) \/ Has(p, type)
  <2>1. \A type : Has(qp, type) => Has(q, type) \/ Has(p, type)
    BY <1>2 DEF Has
  <2>2. \A type : Has(q, type) => Has(qp, type)
    BY <1>3 DEF Has
  <2>3. \A type : Has(p, type) => Has(qp, type)
    BY <1>4 DEF Has
  <2> QED BY <2>1, <2>2, <2>3
<1>6. /\ \A i \in 1 .. Len(qp) : i < Len(qp) + 1
      /\ \A i \in 1 .. Len(q) : i < Len(q) + 1
      /\ \A i \in 1 .. Len(p) : i < Len(p) + 1
  BY <1>1
<1>7. \A u : Brings(qp, Len(qp) + 1, u)
              <=> Brings(q, Len(q) + 1, u) \/ Brings(p, Len(p) + 1, u)
  <2>1. \A u : Brings(qp, Len(qp) + 1, u)
               => Brings(q, Len(q) + 1, u) \/ Brings(p, Len(p) + 1, u)
    BY <1>2, <1>6 DEF Brings
  <2>2. \A u : Brings(q, Len(q) + 1, u) => Brings(qp, Len(qp) + 1, u)
    BY <1>3, <1>6 DEF Brings
  <2>3. \A u : Brings(p, Len(p) + 1, u) => Brings(qp, Len(qp) + 1, u)
    BY <1>4, <1>6 DEF Brings
  <2> QED BY <2>1, <2>2, <2>3
<1> QED BY <1>5, <1>7 DEF qp

LEMMA LoadLinks ==
  ASSUME QPlus, Lost, NothingLost, NEW k \in Conns, Load(k)
  PROVE  Links' /\ AskState'
<1> DEFINE c == conn[k]
           d == conn'[k]
<1>0. /\ TypeInv /\ AllInHub /\ Links /\ AskState /\ conn \in [Conns -> ConnType]
      /\ \A j \in Conns : conn[j].st = "open" => rooms[hub].loaded
  BY DEF QPlus, TypeInv, TypeOK, Counted
<1>1. UNCHANGED <<tab, hub, stored, yjsUpdates>>
  BY DEF Load, dbVars
<1>2. /\ \A j \in Conns \ {k} : conn'[j] = conn[j]
      /\ c.st = "joined" /\ d.st = "open" /\ d.tab = c.tab /\ d.inq = c.inq
      /\ c.done => d.done
      /\ rooms'[hub].compacting = rooms[hub].compacting
      /\ rooms'[hub].compactConn = rooms[hub].compactConn
      /\ rooms[hub].loaded => rooms'[hub].seq = rooms[hub].seq
  BY <1>0, LoadEffect
<1>3. PICK gs \in Seq(OutFrames) :
              /\ d.out = c.out \o gs
              /\ \A i \in 1 .. Len(gs) : gs[i].type # "snapshotRequest"
              /\ \/ d.done
                 \/ \A u \in Kept : \E i \in 1 .. Len(gs) : gs[i].type = "update" /\ u \in gs[i].doc
  BY <1>0, LoadEffect
<1>4. NoAsk(c)
  BY <1>0, <1>2 DEF AskState, Busy
<1>5. c.out \in Seq(OutFrames)
  BY <1>0, OutType
<1>6. NoAsk(d)
  <2>1. ~Has(gs, "snapshotRequest")
    BY <1>3 DEF Has
  <2> QED BY <1>2, <1>3, <1>4, <1>5, <2>1, ConcatEffect DEF NoAsk
<1>7. ~d.done => \A D : Fed(d.out, D, stored)
  <2> SUFFICES ASSUME ~d.done, NEW u \in stored PROVE Brings(d.out, Len(d.out) + 1, u)
    BY DEF Fed
  <2>1. PICK i \in 1 .. Len(gs) : gs[i].type = "update" /\ u \in gs[i].doc
    BY <1>3 DEF NothingLost
  <2>2. Brings(gs, Len(gs) + 1, u)
    <3>1. Len(gs) \in Nat
      BY LenProperties
    <3> QED BY <2>1, <3>1 DEF Brings
  <2>3. Brings(c.out \o gs, Len(c.out \o gs) + 1, u)
    <3> HIDE DEF c
    <3> QED BY <1>5, <2>2, ConcatEffect
  <2> QED BY <1>3, <2>3
<1> HIDE DEF c, d
<1>8. ASSUME NEW t \in Tabs, tab'[t].conn # Nil
      PROVE  Link(conn'[tab'[t].conn], t, tab'[t].doc, stored, yjsUpdates)
  <2>1. tab'[t] = tab[t] /\ tab[t].conn \in Conns
    BY <1>0, <1>1, <1>8, LinkType
  <2>2. CASE tab[t].conn = k
    <3>1. Link(c, t, tab[t].doc, stored, yjsUpdates)
      BY <1>0, <1>1, <1>8, <2>2 DEF Links, c
    <3>2. Link(d, t, tab[t].doc, stored, yjsUpdates)
      BY <1>2, <1>6, <1>7, <3>1, NoAskIsFine DEF Link
    <3> QED BY <2>1, <2>2, <3>2 DEF d
  <2>3. CASE tab[t].conn # k
    BY <1>0, <1>2, <1>8, <2>1, <2>3 DEF Links
  <2> QED BY <2>2, <2>3
<1>9. Links'
  BY <1>0, <1>1, <1>2, <1>8 DEF Links, c, d
<1>10. AskState'
  <2> SUFFICES ASSUME NEW j \in Conns
               PROVE  IF Busy(j)' THEN OneAsk(conn'[j], rooms'[hub'].seq) ELSE NoAsk(conn'[j])
    BY DEF AskState
  <2>1. CASE j = k
    BY <1>6, <2>1, NoAskIsFine DEF d
  <2>2. CASE j # k
    <3>1. Busy(j)' <=> Busy(j)
      BY <1>1, <1>2, <2>2 DEF Busy
    <3>2. Busy(j) => rooms'[hub'].seq = rooms[hub].seq
      BY <1>0, <1>1, <1>2 DEF Busy
    <3> QED BY <1>0, <1>2, <2>2, <3>1, <3>2 DEF AskState
  <2> QED BY <2>1, <2>2
<1> QED BY <1>9, <1>10

-----------------------------------------------------------------------------
(* An update is added to the log and relayed, and a snapshot asked for.    *)

\* d is c with at most the frame m more, unless it was shut down instead.
Relayed(d, c, m) ==
  /\ d.st = c.st /\ d.tab = c.tab /\ d.closed = c.closed /\ (c.done => d.done)
  /\ \/ Longer(d.out, c.out, m) /\ d.done = c.done
     \/ d.out = c.out /\ d.done

LEMMA RelayedOps ==
  ASSUME NEW c \in ConnType, NEW m \in OutFrames
  PROVE  /\ Relayed(Queued(c, m), c, m) /\ Queued(c, m).inq = c.inq
         /\ Relayed(Shutdown(c), c, m) /\ Shutdown(c).inq = c.inq
<1>1. c.out \in Seq(OutFrames)
  BY OutType
<1>2. Longer(Append(c.out, m), c.out, m)
  BY <1>1, AppendLonger
<1> DEFINE q == Append(c.out, m)
<1>3. Queued(c, m) = [c EXCEPT !.out = q]
  BY DEF Queued
<1>4. Relayed([c EXCEPT !.out = q], c, m) /\ [c EXCEPT !.out = q].inq = c.inq
  <2> HIDE DEF q
  <2> QED BY <1>2 DEF Relayed, ConnType, q
<1>5. Relayed(Shutdown(c), c, m) /\ Shutdown(c).inq = c.inq
  BY DEF Relayed, Shutdown, ConnType
<1> QED BY <1>3, <1>4, <1>5

Asks(R) == R.pending + 1 >= compactThreshold /\ ~R.compacting

LEMMA PersistEffect ==
  ASSUME TypeInv, AllInHub, Counted, NEW k \in Conns, PersistUpdate(k)
  PROVE  LET R == rooms[hub]
             n == R.seq + 1
             c == conn[k]
             d == conn'[k]
             m == c.inq[1]
         IN
         /\ c.st = "open" /\ ~c.closed /\ c.tab \in mayWrite /\ k \in R.conns
         /\ m \in InFrames /\ m.type = "update" /\ m.doc \subseteq Updates
         /\ R.seq \in Nat /\ stored' = stored \cup m.doc
         /\ Longer(yjsUpdates', yjsUpdates, [seq |-> n, doc |-> m.doc])
         /\ hub \in Rooms /\ rooms'[hub].seq = n /\ rooms'[hub].conns = R.conns
         /\ rooms'[hub].loaded = R.loaded
         /\ rooms'[hub].compacting = (R.compacting \/ Asks(R))
         /\ rooms'[hub].compactConn = IF Asks(R) THEN k ELSE R.compactConn
         /\ \A r \in Rooms \ {hub} : rooms'[r] = rooms[r]
         /\ Shorter(d.inq, c.inq)
         /\ IF Asks(R) THEN Relayed(d, c, SnapshotRequest(n))
            ELSE d.st = c.st /\ d.tab = c.tab /\ d.closed = c.closed /\ d.done = c.done
                 /\ d.out = c.out
         /\ \A j \in Conns \ {k} :
              /\ conn'[j].inq = conn[j].inq
              /\ IF j \in R.conns THEN Relayed(conn'[j], conn[j], m) ELSE conn'[j] = conn[j]
<1> DEFINE R == rooms[hub]
           n == R.seq + 1
           c == conn[k]
           d == conn'[k]
           m == c.inq[1]
           others == Others(R, k)
           R2 == [R EXCEPT !.seeded = TRUE, !.seq = n, !.pending = @ + 1,
                           !.compacting = @ \/ Asks(R),
                           !.compactConn = IF Asks(R) THEN k ELSE @]
<1>1. /\ c.st = "open" /\ ~c.closed /\ c.tab \in mayWrite /\ c.inq # <<>>
      /\ Head(c.inq).type = "update"
  BY DEF PersistUpdate, Reads
<1>2. /\ c.room = hub /\ hub \in Rooms /\ R \in RoomType /\ c \in ConnType
      /\ conn \in [Conns -> ConnType] /\ rooms \in [Rooms -> RoomType]
      /\ c.inq \in Seq(InFrames) /\ k \in R.conns
  BY <1>1, HubOfOpen, InqType DEF InRoom, TypeInv, TypeOK, PersistUpdate, IsMember
<1>3. /\ Shorter(Tail(c.inq), c.inq) /\ Head(c.inq) = m /\ m \in InFrames
  BY <1>1, <1>2, TailShorter, HeadTailProperties
<1>4. m.type = "update" /\ m.doc \subseteq Updates /\ m \in OutFrames
  BY <1>1, <1>3 DEF InFrames, OutFrames
<1>5. R.seq \in Nat /\ RowsWithin(R.seq)
  BY <1>1, <1>2 DEF Counted
<1> HIDE DEF m, R2, others
<1>6. /\ yjsUpdates' = LogWith(n, m.doc) /\ stored' = stored \cup m.doc
      /\ rooms' = [rooms EXCEPT ![hub] = R2]
  BY <1>2, <1>3 DEF PersistUpdate, R2, Asks
<1>7. Longer(yjsUpdates', yjsUpdates, [seq |-> n, doc |-> m.doc])
  BY <1>4, <1>5, <1>6, AppendsAtEnd, LogFacts DEF Longer
<1>8. /\ R2.seq = n /\ R2.conns = R.conns /\ R2.loaded = R.loaded
      /\ R2.compacting = (R.compacting \/ Asks(R))
      /\ R2.compactConn = IF Asks(R) THEN k ELSE R.compactConn
  BY <1>2 DEF R2, RoomType
<1>9. /\ rooms'[hub] = R2 /\ \A r \in Rooms \ {hub} : rooms'[r] = rooms[r]
  BY <1>2, <1>6
<1>10. PICK acc \in SUBSET others, got \in BOOLEAN :
         conn' = [Broadcast(others, acc, m) EXCEPT ![k] =
                    IF ~Asks(R) THEN Taken(c)
                    ELSE IF got THEN Queued(Taken(c), SnapshotRequest(n))
                         ELSE Shutdown(Taken(c))]
  BY <1>2, <1>3 DEF PersistUpdate, others, Asks, Takers
<1> DEFINE sent == Broadcast(others, acc, m)
           x == IF ~Asks(R) THEN Taken(c)
                ELSE IF got THEN Queued(Taken(c), SnapshotRequest(n)) ELSE Shutdown(Taken(c))
<1>11. /\ \A j \in Conns : sent[j] = IF j \in acc THEN Queued(conn[j], m)
                                   ELSE IF j \in others THEN Shutdown(conn[j]) ELSE conn[j]
       /\ DOMAIN sent = Conns
  BY DEF Broadcast
<1> HIDE DEF x
<1>12. d = x /\ \A j \in Conns \ {k} : conn'[j] = sent[j]
  <2>1. conn' = [sent EXCEPT ![k] = x]
    BY <1>10 DEF x
  <2> HIDE DEF sent
  <2> QED BY <1>11, <2>1
<1>13. ASSUME NEW j \in Conns \ {k}
       PROVE  /\ conn'[j].inq = conn[j].inq
              /\ IF j \in R.conns THEN Relayed(conn'[j], conn[j], m) ELSE conn'[j] = conn[j]
  <2>1. j \in others <=> j \in R.conns
    BY DEF others, Others
  <2>2. conn[j] \in ConnType
    BY <1>2
  <2> QED BY <1>4, <1>11, <1>12, <2>1, <2>2, RelayedOps
<1>14. /\ Taken(c) \in ConnType /\ Taken(c).inq = Tail(c.inq) /\ Taken(c).out = c.out
       /\ Taken(c).st = c.st /\ Taken(c).tab = c.tab /\ Taken(c).done = c.done
       /\ Taken(c).closed = c.closed
  BY <1>1, <1>2, TakenType DEF Taken, ConnType
<1>15. /\ Shorter(d.inq, c.inq)
       /\ IF Asks(R) THEN Relayed(d, c, SnapshotRequest(n))
            ELSE d.st = c.st /\ d.tab = c.tab /\ d.closed = c.closed /\ d.done = c.done
                 /\ d.out = c.out
  <2>1. SnapshotRequest(n) \in OutFrames
    BY <1>5 DEF SnapshotRequest, OutFrames
  <2>2. CASE ~Asks(R)
    BY <1>3, <1>12, <1>14, <2>2 DEF x
  <2>3. CASE Asks(R)
    <3>1. Relayed(d, Taken(c), SnapshotRequest(n)) /\ d.inq = Tail(c.inq)
      BY <1>12, <1>14, <2>1, <2>3, RelayedOps DEF x
    <3> QED BY <1>3, <1>14, <2>3, <3>1 DEF Relayed
  <2> QED BY <2>2, <2>3
<1> QED BY <1>1, <1>2, <1>3, <1>4, <1>5, <1>6, <1>7, <1>8, <1>9, <1>13, <1>15 DEF m

LEMMA LogGrows ==
  ASSUME NEW log, NEW log2, NEW row, Longer(log2, log, row), NEW q, NEW S
  PROVE  /\ \A D : Asked(q, D, S, log)
                   /\ (\A j \in 1 .. Len(q) : q[j].type = "snapshotRequest" => row.seq > q[j].seq)
                     => Asked(q, D, S \cup row.doc, log2)
         /\ Answers(q, S, log)
            /\ (\A j \in 1 .. Len(q) : q[j].type = "snapshot" => row.seq > q[j].seq)
              => Answers(q, S \cup row.doc, log2)
BY AboveLonger DEF Asked, Answers

LEMMA PersistLinks ==
  ASSUME QPlus, AsksTheLiving, NEW k \in Conns, PersistUpdate(k)
  PROVE  Links' /\ AskState'
<1> DEFINE R == rooms[hub]
           n == R.seq + 1
           c == conn[k]
           d == conn'[k]
           m == c.inq[1]
           row == [seq |-> n, doc |-> m.doc]
<1>0. /\ TypeInv /\ AllInHub /\ Counted /\ Links /\ AskState
      /\ \A j \in Conns : InRoom(j) => j \in R.conns
  BY DEF QPlus, AllInHub
<1>1. /\ c.st = "open" /\ k \in R.conns /\ m.type = "update" /\ R.seq \in Nat
      /\ stored' = stored \cup m.doc
      /\ Longer(yjsUpdates', yjsUpdates, row)
      /\ hub \in Rooms /\ rooms'[hub].seq = n
      /\ rooms'[hub].compacting = (R.compacting \/ Asks(R))
      /\ rooms'[hub].compactConn = IF Asks(R) THEN k ELSE R.compactConn
      /\ Shorter(d.inq, c.inq)
      /\ IF Asks(R) THEN Relayed(d, c, SnapshotRequest(n))
            ELSE d.st = c.st /\ d.tab = c.tab /\ d.closed = c.closed /\ d.done = c.done
                 /\ d.out = c.out
      /\ \A j \in Conns \ {k} :
              /\ conn'[j].inq = conn[j].inq
              /\ IF j \in R.conns THEN Relayed(conn'[j], conn[j], m) ELSE conn'[j] = conn[j]
  BY <1>0, PersistEffect
<1>2. UNCHANGED <<tab, hub>>
  BY DEF PersistUpdate
<1>3. Asks(R) => ~R.compacting
  BY DEF Asks
<1>4. SnapshotRequest(n).type = "snapshotRequest" /\ SnapshotRequest(n).seq = n
  BY DEF SnapshotRequest
<1>5. row.seq = n /\ row.doc = m.doc
  OBVIOUS
<1> HIDE DEF row, n, m
(* What was asked for, and answered, is below the new row.                 *)
<1>6. ASSUME NEW j \in Conns
      PROVE  /\ \A i \in 1 .. Len(conn[j].out) :
                  conn[j].out[i].type = "snapshotRequest" => row.seq > conn[j].out[i].seq
             /\ \A i \in 1 .. Len(conn[j].inq) :
                  conn[j].inq[i].type = "snapshot" => row.seq > conn[j].inq[i].seq
  <2>1. CASE NoAsk(conn[j])
    BY <2>1 DEF NoAsk, Has
  <2>2. CASE OneAsk(conn[j], R.seq)
    <3>1. \A x \in 0 .. R.seq : row.seq > x
      BY <1>1, <1>5 DEF n
    <3> QED BY <2>2, <3>1 DEF OneAsk
  <2> QED BY <1>0, <2>1, <2>2 DEF AskState
<1>7. \A j \in Conns : Answers(conn'[j].inq, stored', yjsUpdates')
  <2> SUFFICES ASSUME NEW j \in Conns PROVE Answers(conn'[j].inq, stored', yjsUpdates')
    OBVIOUS
  <2>1. Answers(conn[j].inq, stored', yjsUpdates')
    BY <1>0, <1>1, <1>5, <1>6, LogGrows DEF Links
  <2>2. conn'[j].inq = conn[j].inq \/ Shorter(conn'[j].inq, conn[j].inq)
    BY <1>1
  <2> QED BY <2>1, <2>2, AnswersShorter
<1>8. Asks(R) => NoAsk(c)
  BY <1>0, <1>3 DEF AskState, Busy
<1>9. ASSUME NEW t \in Tabs, tab[t].conn # Nil
      PROVE  Link(conn'[tab[t].conn], t, tab[t].doc, stored', yjsUpdates')
  <2> DEFINE j == tab[t].conn
             x == conn[j]
             y == conn'[j]
             D == tab[t].doc
  <2>1. j \in Conns /\ Link(x, t, D, stored, yjsUpdates)
    BY <1>0, <1>9, LinkType DEF Links
  <2>2. Asked(x.out, D, stored', yjsUpdates')
    BY <1>1, <1>5, <1>6, <2>1, LogGrows DEF Link
  <2>3. SentOf(y.inq, D)
    BY <1>1, <2>1, SentShorter DEF Link
  <2>4. CASE j = k
    <3>1. 1 \in 1 .. Len(c.inq)
      BY <1>1 DEF Shorter
    <3>2. m.doc \subseteq D
      BY <1>1, <2>1, <2>4, <3>1 DEF Link, SentOf, m
    <3>3. Fed(x.out, D, stored) => Fed(x.out, D, stored')
      BY <1>1, <3>2 DEF Fed
    <3>4. CASE ~Asks(R)
      BY <1>1, <2>1, <2>2, <2>3, <2>4, <3>3, <3>4 DEF Link
    <3>5. CASE Asks(R)
      <4>1. Relayed(y, x, SnapshotRequest(n))
        BY <1>1, <2>4, <3>5
      <4>2. CASE Longer(y.out, x.out, SnapshotRequest(n)) /\ y.done = x.done
        <5>1. Has(y.out, "snapshotRequest")
          BY <1>4, <4>2, HasLonger
        <5>2. ~x.done
          BY <1>8, <2>4, <3>5, <5>1 DEF AsksTheLiving, NoAsk
        <5>3. Fed(x.out, D, stored')
          BY <1>1, <2>1, <2>4, <3>3, <5>2 DEF Link
        <5>4. Asked(y.out, D, stored', yjsUpdates')
          <6> HIDE DEF x, y, D
          <6> QED BY <2>2, <4>2, <5>3, AskedLonger
        <5>5. Fed(y.out, D, stored')
          <6> HIDE DEF x, y, D
          <6> QED BY <4>2, <5>3, FedLonger
        <5> QED BY <2>1, <2>3, <4>1, <5>4, <5>5 DEF Link, Relayed
      <4>3. CASE y.out = x.out /\ y.done
        BY <2>1, <2>2, <2>3, <4>1, <4>3 DEF Link, Relayed
      <4> QED BY <4>1, <4>2, <4>3 DEF Relayed
    <3> QED BY <3>4, <3>5
  <2>5. CASE j # k /\ j \in R.conns
    <3>1. Relayed(y, x, m)
      BY <1>1, <2>1, <2>5
    <3>2. CASE Longer(y.out, x.out, m) /\ y.done = x.done
      <4> HIDE DEF x, y, D
      <4>1. Asked(y.out, D, stored', yjsUpdates')
        BY <1>1, <2>2, <3>2, AskedLonger
      <4>2. y.st = "open" /\ ~y.done => Fed(y.out, D, stored')
        BY <1>1, <2>1, <3>1, <3>2, FedLonger DEF Link, Relayed
      <4> QED BY <2>1, <2>3, <3>1, <4>1, <4>2 DEF Link, Relayed, x, y, D
    <3>3. CASE y.out = x.out /\ y.done
      BY <2>1, <2>2, <2>3, <3>1, <3>3 DEF Link, Relayed
    <3> QED BY <3>1, <3>2, <3>3 DEF Relayed
  <2>6. CASE j # k /\ j \notin R.conns
    <3>1. y = x /\ x.st # "open"
      BY <1>0, <1>1, <2>1, <2>6 DEF InRoom
    <3> QED BY <2>1, <2>2, <2>3, <3>1 DEF Link
  <2> QED BY <2>4, <2>5, <2>6
<1>10. Links'
  BY <1>2, <1>7, <1>9 DEF Links
<1>11. AskState'
  <2> SUFFICES ASSUME NEW j \in Conns
               PROVE  IF Busy(j)' THEN OneAsk(conn'[j], n) ELSE NoAsk(conn'[j])
    BY <1>1, <1>2 DEF AskState, n
  <2>1. conn'[j].st = conn[j].st
    BY <1>1 DEF Relayed
  <2>2. /\ Has(conn'[j].inq, "snapshot") => Has(conn[j].inq, "snapshot")
        /\ Once(conn[j].inq, "snapshot") => Once(conn'[j].inq, "snapshot")
        /\ \A i \in 1 .. Len(conn'[j].inq) :
             \E h \in 1 .. Len(conn[j].inq) : conn'[j].inq[i] = conn[j].inq[h]
    <3>1. CASE conn'[j].inq = conn[j].inq
      BY <3>1
    <3>2. CASE Shorter(conn'[j].inq, conn[j].inq)
      <4>1. \A i \in 1 .. Len(conn'[j].inq) :
             i + 1 \in 1 .. Len(conn[j].inq) /\ conn'[j].inq[i] = conn[j].inq[i + 1]
        BY <3>2 DEF Shorter
      <4> QED BY <3>2, <4>1, HasShorter, OneAskShorter
    <3> QED BY <1>1, <3>1, <3>2
  <2>3. CASE j = k /\ Asks(R)
    <3>1. NoAsk(c) /\ Relayed(d, c, SnapshotRequest(n))
      BY <1>1, <1>8, <2>3
    <3>2. CASE Longer(d.out, c.out, SnapshotRequest(n))
      <4>1. Once(d.out, "snapshotRequest")
        <5>1. ~Has(c.out, "snapshotRequest") /\ Once(c.out, "snapshotRequest")
          BY <3>1 DEF NoAsk, Once, Has
        <5> QED BY <3>2, <5>1, OneAskLonger
      <4>2. ~Has(d.inq, "snapshot")
        BY <2>2, <2>3, <3>1 DEF NoAsk
      <4>3. \A i \in 1 .. Len(d.out) : d.out[i].type = "snapshotRequest" => d.out[i].seq \in 0 .. n
        <5>1. \A i \in 1 .. Len(d.out) : \/ i \in 1 .. Len(c.out) /\ d.out[i] = c.out[i]
                                         \/ d.out[i] = SnapshotRequest(n)
          BY <3>2 DEF Longer
        <5>2. n \in 0 .. n
          BY <1>1 DEF n
        <5> QED BY <1>4, <3>1, <5>1, <5>2 DEF NoAsk, Has
      <4>4. OneAsk(d, n)
        BY <4>1, <4>2, <4>3 DEF OneAsk, Has, Once
      <4>5. Busy(k)'
        BY <1>1, <1>2, <2>1, <2>3 DEF Busy
      <4> QED BY <2>3, <4>4, <4>5
    <3>3. CASE d.out = c.out
      <4>1. NoAsk(d)
        BY <2>2, <2>3, <3>1, <3>3 DEF NoAsk
      <4> QED BY <2>3, <4>1, NoAskIsFine
    <3> QED BY <3>1, <3>2, <3>3 DEF Relayed
  <2>4. CASE ~(j = k /\ Asks(R))
    <3>1. conn'[j].out = conn[j].out \/ Longer(conn'[j].out, conn[j].out, m)
      BY <1>1, <2>4 DEF Relayed
    <3>2. Has(conn'[j].out, "snapshotRequest") <=> Has(conn[j].out, "snapshotRequest")
      BY <1>1, <3>1, HasLonger
    <3>3. CASE NoAsk(conn[j])
      <4>1. NoAsk(conn'[j])
        BY <2>2, <3>2, <3>3 DEF NoAsk
      <4> QED BY <4>1, NoAskIsFine
    <3>4. CASE ~NoAsk(conn[j])
      <4>1. Busy(j) /\ OneAsk(conn[j], R.seq) /\ ~Asks(R)
        BY <1>0, <1>3, <3>4 DEF AskState, Busy
      <4>2. Busy(j)'
        BY <1>1, <1>2, <2>1, <4>1 DEF Busy
      <4>3. \A x \in 0 .. R.seq : x \in 0 .. n
        BY <1>1 DEF n
      <4>4. Once(conn'[j].out, "snapshotRequest")
        BY <1>1, <3>1, <4>1, OneAskLonger DEF OneAsk
      <4>5. \A i \in 1 .. Len(conn'[j].out) :
              conn'[j].out[i].type = "snapshotRequest" => conn'[j].out[i].seq \in 0 .. n
        <5>1. \A i \in 1 .. Len(conn'[j].out) :
                 \/ i \in 1 .. Len(conn[j].out) /\ conn'[j].out[i] = conn[j].out[i]
                 \/ conn'[j].out[i] = m
          <6>1. CASE conn'[j].out = conn[j].out
            BY <6>1
          <6>2. CASE Longer(conn'[j].out, conn[j].out, m)
            <7> HIDE DEF m
            <7> QED BY <6>2 DEF Longer
          <6> QED BY <3>1, <6>1, <6>2
        <5> QED BY <1>1, <4>1, <4>3, <5>1 DEF OneAsk
      <4>6. OneAsk(conn'[j], n)
        BY <2>2, <3>2, <4>1, <4>3, <4>4, <4>5 DEF OneAsk
      <4> QED BY <4>2, <4>6
    <3> QED BY <3>3, <3>4
  <2> QED BY <2>3, <2>4
<1> QED BY <1>10, <1>11

-----------------------------------------------------------------------------
(* What the database holds.                                                *)

LEMMA MergedIs ==
  ASSUME NEW state, NEW log \in Seq(RowType)
  PROVE  \A u : u \in Merged(state, log) <=> u \in state.doc \/ InLog(log, u)
BY LenProperties DEF Merged, InLog

LEMMA PersistKeeps ==
  ASSUME TypeInv, TypeInv', AllInHub, Counted, NothingLost, Lost,
         NEW k \in Conns, PersistUpdate(k)
  PROVE  NothingLost' /\ Lost'
<1> DEFINE m == conn[k].inq[1]
           row == [seq |-> rooms[hub].seq + 1, doc |-> m.doc]
<1>1. Longer(yjsUpdates', yjsUpdates, row) /\ stored' = stored \cup m.doc
  BY PersistEffect
<1>2. yjsState' = yjsState /\ yjsUpdates' \in Seq(RowType)
  BY DEF PersistUpdate, TypeInv, TypeOK
<1>3. row.doc = m.doc
  OBVIOUS
<1> HIDE DEF row, m
<1>4. \A u : u \in Kept' <=> u \in yjsState'.doc \/ InLog(yjsUpdates', u)
  BY <1>2, MergedIs DEF Kept
<1>5. \A u : u \in Kept <=> u \in yjsState.doc \/ InLog(yjsUpdates, u)
  BY KeptIs
<1>6. \A u : InLog(yjsUpdates', u) <=> InLog(yjsUpdates, u) \/ u \in row.doc
  BY <1>1, AboveLonger
<1>7. NothingLost'
  BY <1>1, <1>2, <1>3, <1>4, <1>5, <1>6 DEF NothingLost
<1> QED BY <1>2, <1>7 DEF Lost

(* The snapshot at the head of a compacting connection answers for all     *)
(* that a deletion of the rows it names would take away.                   *)
LEMMA AnswersFor ==
  ASSUME QPlus, NEW k \in Conns, Compacts(k)
  PROVE  LET m == Head(conn[k].inq) IN
         /\ m \in InFrames /\ m.type = "snapshot" /\ m.seq \in Nat /\ m.doc \subseteq Updates
         /\ \A u \in stored : u \in m.doc \/ Above(yjsUpdates, m.seq, u)
         /\ conn[k].room = hub /\ hub \in Rooms /\ Busy(k) /\ NoAsk(Taken(conn[k]))
         /\ \A j \in Conns \ {k} : NoAsk(conn[j])
<1>0. TypeInv /\ AllInHub /\ Links /\ AskState
  BY DEF QPlus
<1>1. /\ conn[k].st = "open" /\ conn[k].inq # <<>> /\ Head(conn[k].inq).type = "snapshot"
      /\ Reads(k, "snapshot")
  BY DEF Compacts, Reads
<1>2. conn[k].room = hub /\ hub \in Rooms /\ conn[k].inq \in Seq(InFrames)
  BY <1>0, <1>1, HubOfOpen, InqType DEF InRoom, TypeInv, TypeOK
<1>3. /\ Shorter(Tail(conn[k].inq), conn[k].inq) /\ Head(conn[k].inq) = conn[k].inq[1]
      /\ Head(conn[k].inq) \in InFrames
  BY <1>1, <1>2, TailShorter, HeadTailProperties
<1>4. Head(conn[k].inq).seq \in Nat /\ Head(conn[k].inq).doc \subseteq Updates
  BY <1>1, <1>3 DEF InFrames
<1>5. 1 \in 1 .. Len(conn[k].inq)
  BY <1>3 DEF Shorter
<1>6. \A u \in stored : u \in Head(conn[k].inq).doc
                          \/ Above(yjsUpdates, Head(conn[k].inq).seq, u)
  BY <1>0, <1>1, <1>3, <1>5 DEF Links, Answers
<1>7. Busy(k)
  BY <1>1, <1>2 DEF Busy, Compacts
<1>8. \A j \in Conns \ {k} : NoAsk(conn[j])
  BY <1>0, <1>7 DEF AskState, Busy
<1> QED BY <1>0, <1>1, <1>2, <1>3, <1>4, <1>6, <1>7, <1>8, AskTaken

LEMMA CompactionKeeps ==
  ASSUME QPlus, TypeInv', NEW k \in Conns, ApplySnapshot(k)
  PROVE  Links' /\ AskState' /\ Lost' /\ NothingLost'
<1> DEFINE m == Head(conn[k].inq)
<1>0. TypeInv /\ AllInHub /\ Links /\ AskState /\ Ascending /\ conn \in [Conns -> ConnType]
  BY DEF QPlus, Counted, TypeInv, TypeOK
<1>1. /\ m.seq \in Nat /\ \A u \in stored : u \in m.doc \/ Above(yjsUpdates, m.seq, u)
      /\ NoAsk(Taken(conn[k])) /\ \A j \in Conns \ {k} : NoAsk(conn[j])
  BY AnswersFor DEF ApplySnapshot
<1>2. /\ yjsState' = [have |-> TRUE, seq |-> m.seq, doc |-> m.doc]
      /\ yjsUpdates' = LogAfter(m.seq) /\ UNCHANGED <<tab, stored, hub>>
      /\ conn' = [conn EXCEPT ![k] = Taken(@)]
      /\ conn[k].inq # <<>> /\ yjsUpdates' \in Seq(RowType)
  BY DEF ApplySnapshot, Compacts, Reads, TypeInv, TypeOK
<1> HIDE DEF m
<1>3. \A u : u \in Kept' <=> u \in yjsState'.doc \/ InLog(yjsUpdates', u)
  BY <1>2, MergedIs DEF Kept
<1>4. NothingLost'
  BY <1>0, <1>1, <1>2, <1>3, LeavesAbove DEF NothingLost
<1>5. Lost'
  BY <1>2 DEF Lost
<1>6. \A j \in Conns : NoAsk(conn'[j]) /\ Quieter(conn'[j], conn[j])
  <2>1. conn'[k] = Taken(conn[k]) /\ \A j \in Conns \ {k} : conn'[j] = conn[j]
    BY <1>0, <1>2
  <2> QED BY <1>0, <1>1, <1>2, <2>1, QuieterOps
<1>7. ASSUME NEW t \in Tabs, tab[t].conn # Nil
      PROVE  Link(conn'[tab[t].conn], t, tab[t].doc, stored', yjsUpdates')
  <2> DEFINE j == tab[t].conn
  <2>1. j \in Conns /\ Link(conn[j], t, tab[t].doc, stored, yjsUpdates)
    BY <1>0, <1>7, LinkType DEF Links
  <2>2. Link(conn'[j], t, tab[t].doc, stored, yjsUpdates)
    <3> HIDE DEF j
    <3> QED BY <1>6, <2>1, QuieterKeeps
  <2> QED BY <1>2, <1>6, <2>1, <2>2, NoAskIsFine DEF Link
<1>8. Links'
  BY <1>2, <1>6, <1>7, NoAskIsFine DEF Links
<1>9. AskState'
  BY <1>6, NoAskIsFine DEF AskState
<1> QED BY <1>4, <1>5, <1>8, <1>9

LEMMA CrashKeeps ==
  ASSUME QPlus, TypeInv', NEW k \in Conns, CrashInSnapshot(k)
  PROVE  Links' /\ AskState' /\ Lost' /\ NothingLost'
<1> DEFINE m == Head(conn[k].inq)
<1>1. \A u \in stored : u \in m.doc \/ Above(yjsUpdates, m.seq, u)
  BY AnswersFor DEF CrashInSnapshot
<1>2. /\ yjsState' = [have |-> TRUE, seq |-> m.seq, doc |-> m.doc]
      /\ UNCHANGED <<tab, stored, yjsUpdates>> /\ LosesMemory
      /\ yjsUpdates' \in Seq(RowType)
  BY DEF CrashInSnapshot, TypeInv, TypeOK
<1> HIDE DEF m
<1>3. \A u : u \in Kept' <=> u \in yjsState'.doc \/ InLog(yjsUpdates', u)
  BY <1>2, MergedIs DEF Kept
<1>4. \A u : Above(yjsUpdates, m.seq, u) => InLog(yjsUpdates, u)
  BY DEF Above, InLog
<1>5. NothingLost' /\ Lost'
  BY <1>1, <1>2, <1>3, <1>4 DEF NothingLost, Lost
<1> QED BY <1>2, <1>5, QuietRestart

LEMMA InitQInv == Init => QInv
<1> SUFFICES ASSUME Init PROVE QInv
  OBVIOUS
<1>1. /\ \A k \in Conns : Empty(conn[k])
      /\ \A k \in Conns : ~Busy(k)
  BY DEF Init, Empty, FreeConn, Busy
<1>2. \A t \in Tabs : tab[t].conn = Nil
  BY DEF Init, ClosedTab, NewTab
<1>3. Links /\ AskState
  BY <1>1, <1>2, EmptyKeeps DEF Links, AskState
<1> QED BY <1>3 DEF QInv, Init, NoState, Lost, NothingLost

LEMMA DatabaseSame ==
  ASSUME NothingLost, Lost, UNCHANGED <<yjsState, yjsUpdates, stored>>
  PROVE  NothingLost' /\ Lost'
BY DEF NothingLost, Lost, Kept, Merged

LEMMA StepQInv ==
  ASSUME NoReset, TypeInv, AllInHub, Counted, QInv, TypeInv', [Next]_vars,
         [AsksTheLiving]_vars
  PROVE  QInv'
<1>0. QPlus /\ Lost /\ NothingLost
  BY DEF QPlus, QInv
<1>1. ASSUME Links', AskState', UNCHANGED <<yjsState, yjsUpdates, stored>> PROVE QInv'
  BY <1>0, <1>1, DatabaseSame DEF QInv
<1>2. ASSUME NEW k \in Conns, ServerStep(k) \/ NetDrop(k) \/ Recv(k) \/ CrashInSnapshot(k),
             ~(UNCHANGED vars)
      PROVE  QInv'
  <2>1. CASE PersistUpdate(k)
    <3>1. AsksTheLiving
      BY <1>2
    <3> QED BY <1>0, <2>1, <3>1, PersistLinks, PersistKeeps DEF QInv
  <2>2. CASE ApplySnapshot(k) \/ CrashInSnapshot(k)
    BY <1>0, <2>2, CompactionKeeps, CrashKeeps DEF QInv
  <2>3. CASE Load(k)
    BY <1>0, <1>1, <2>3, LoadLinks DEF Load, dbVars
  <2>4. CASE Join(k)
    BY <1>0, <1>1, <2>4, QuietJoin, Zenon DEF Join, dbVars
  <2>5. CASE Leave(k)
    BY <1>0, <1>1, <2>5, QuietLeave, Zenon DEF Leave, dbVars
  <2>6. CASE Recv(k)
    BY <1>0, <1>1, <2>6, RecvLinks, Zenon DEF Recv, dbVars
  <2>7. CASE \/ RefuseStale(k) \/ DropFrame(k) \/ PersistFails(k) \/ SnapshotFails(k)
             \/ CloseSocket(k) \/ NetDrop(k) \/ PeerGone(k) \/ Recheck(k)
    <3>1. UNCHANGED <<yjsState, yjsUpdates, stored>>
      BY <2>7 DEF RefuseStale, DropFrame, PersistFails, SnapshotFails, CloseSocket,
         NetDrop, PeerGone, Recheck, dbVars
    <3> QED BY <1>0, <1>1, <2>7, <3>1, QuietServer
  <2> QED BY <1>2, <2>1, <2>2, <2>3, <2>4, <2>5, <2>6, <2>7 DEF ServerStep
<1>3. ASSUME NEW t \in Tabs, TabStep(t) \/ \E k \in Conns : Dial(t, k) PROVE QInv'
  <2>1. CASE \E k \in Conns : Dial(t, k)
    BY <1>0, <1>1, <2>1, QuietDial, Zenon DEF Dial, dbVars
  <2>2. CASE Mount(t) \/ OnClose(t) \/ Abandon(t) \/ CloseTab(t)
    <3>1. UNCHANGED <<yjsState, yjsUpdates, stored>>
      BY <2>2 DEF Mount, OnClose, Abandon, CloseTab, dbVars
    <3> QED BY <1>0, <1>1, <2>2, <3>1, QuietTab
  <2>3. CASE EndAccess(t)
    BY <1>0, <1>1, <2>3, QuietEndAccess DEF EndAccess, LosesWrite, LosesRead
  <2>4. CASE Seed(t) \/ Edit(t)
    <3>1. UNCHANGED <<yjsState, yjsUpdates, stored, hub, rooms>>
      BY <2>4 DEF Seed, Edit, dbVars
    <3>2. CASE Makes(t)
      BY <1>0, <1>1, <3>1, <3>2, MakesLinks
    <3>3. CASE ~Makes(t)
      <4>1. UNCHANGED conn /\ tab' = [tab EXCEPT ![t].seed = FALSE]
        BY <2>4, <3>3 DEF Seed, Edit
      <4>2. \A u \in Tabs : tab'[u].conn = tab[u].conn /\ tab'[u].doc = tab[u].doc
        <5>1. tab \in [Tabs -> TabType]
          BY DEF TypeInv, TypeOK
        <5> QED BY <4>1, <5>1 DEF TabType
      <4>3. Links'
        BY <1>0, <3>1, <4>1, <4>2 DEF QPlus, Links
      <4>4. AskState'
        BY <1>0, <3>1, <4>1 DEF QPlus, AskState, Busy
      <4> QED BY <1>1, <3>1, <4>3, <4>4
    <3> QED BY <3>2, <3>3
  <2> QED BY <1>3, <2>1, <2>2, <2>3, <2>4 DEF TabStep
<1>4. CASE Restart
  BY <1>0, <1>1, <1>4, QuietRestart DEF Restart, dbVars
<1>5. CASE UNCHANGED vars
  <2>1. UNCHANGED <<yjsState, yjsUpdates, stored, hub, rooms, conn, tab>>
    BY <1>5 DEF vars
  <2> QED BY <1>0, <1>1, <2>1 DEF QPlus, Links, AskState, Busy
<1> QED BY <1>2, <1>3, <1>4, <1>5, WriterAllInHub DEF Next

(* Compaction never loses an update, whatever connections come and go: a   *)
(* client asked for a snapshot at seq N was delivered every update up to N *)
(* before the request, over the same queue (collab.go:21-26, 595-653).     *)
THEOREM CompactionLosesNothing ==
  NoReset => (Spec /\ [][AsksTheLiving]_vars => []NothingLost)
<1> SUFFICES ASSUME NoReset PROVE Spec /\ [][AsksTheLiving]_vars => []NothingLost
  OBVIOUS
<1> DEFINE IInv == TypeInv /\ Members /\ AllInHub /\ Counted /\ QInv
<1>1. Init => IInv
  BY InitType, InitMembers, InitAllInHub, InitCounted, InitQInv
<1>2. IInv /\ [Next]_vars /\ [AsksTheLiving]_vars => IInv'
  BY StepType, StepMembers, StepAllInHub, StepCounted, StepQInv
<1>3. IInv => NothingLost
  BY DEF QInv
<1> QED BY <1>1, <1>2, <1>3, PTL DEF Spec

(* Nobody misses an update: what is committed while somebody joins is in   *)
(* the replay or is relayed to him, never in neither (collab.go:464-466).  *)
THEOREM NobodyMissesAnUpdate ==
  NoReset => (Spec /\ [][AsksTheLiving]_vars => []NothingMissed)
<1> SUFFICES ASSUME NoReset PROVE Spec /\ [][AsksTheLiving]_vars => []NothingMissed
  OBVIOUS
<1> DEFINE IInv == TypeInv /\ Members /\ AllInHub /\ Counted /\ QInv
<1>1. Init => IInv
  BY InitType, InitMembers, InitAllInHub, InitCounted, InitQInv
<1>2. IInv /\ [Next]_vars /\ [AsksTheLiving]_vars => IInv'
  BY StepType, StepMembers, StepAllInHub, StepCounted, StepQInv
<1>3. IInv => NothingMissed
  <2> SUFFICES ASSUME IInv, NEW k \in Conns, NEW t \in Tabs, conn[k].st = "open",
                      ~conn[k].done, tab[t].conn = k, NEW u \in stored
               PROVE  u \in tab[t].doc \cup Coming(k)
    BY DEF NothingMissed
  <2>1. k # Nil
    BY CollabAssumption
  <2>2. u \in tab[t].doc \/ Brings(conn[k].out, Len(conn[k].out) + 1, u)
    BY <2>1 DEF QInv, Links, Link, Fed
  <2>3. DOMAIN conn[k].out = 1 .. Len(conn[k].out)
    <3>1. conn[k].out \in Seq(OutFrames)
      BY OutType DEF TypeInv, TypeOK
    <3> QED BY <3>1, LenProperties
  <2> QED BY <2>2, <2>3 DEF Brings, Coming
<1> QED BY <1>1, <1>2, <1>3, PTL DEF Spec

-----------------------------------------------------------------------------
(* Somebody is at work on a compaction that is under way.                  *)

\* A connection belongs to the tab that holds it.
Owns == \A t \in Tabs : tab[t].conn # Nil =>
          conn[tab[t].conn].tab = t /\ conn[tab[t].conn].st # "free"

\* d is the connection c a step later.
Follows(d, c) ==
  /\ d.tab = c.tab /\ (c.st = "open" => d.st = "open") /\ (d.st = "free" => c.st = "free")
  /\ (c.done => d.done) /\ (c.closed => d.closed)

\* A request to k, or its answer, is under way.
Told(c) == Has(c.out, "snapshotRequest") \/ Has(c.inq, "snapshot")

\* k will hear of the request, has answered it, or will leave.
AtWork(k) ==
  \/ conn[k].done \/ conn[k].closed \/ conn[k].tab \notin mayWrite
  \/ ~Owned(k) \/ Told(conn[k])

\* The compaction of room r goes on as it did.
SameCompaction(r) ==
  /\ rooms[r].compacting /\ rooms'[r].compactConn = rooms[r].compactConn
  /\ rooms[r].loaded => rooms'[r].loaded
  /\ \A k \in Conns : rooms[r].compactConn = k =>
       /\ k \in rooms[r].conns => k \in rooms'[r].conns
       /\ Follows(conn'[k], conn[k]) /\ (Told(conn[k]) => AtWork(k)')

\* A compaction begins.
NewCompaction(r) ==
  /\ rooms'[r].loaded
  /\ \E k \in Conns : /\ rooms'[r].compactConn = k
                      /\ k \in rooms'[r].conns /\ conn'[k].st = "open"
                      /\ conn'[k].done \/ Told(conn'[k])

AtWorkOn(r) ==
  /\ rooms[r].loaded
  /\ \E k \in Conns : /\ rooms[r].compactConn = k
                      /\ k \in rooms[r].conns /\ conn[k].st = "open" /\ AtWork(k)

\* The inductive part of CompactionGoesOn.
Compacting == \A r \in Rooms : rooms[r].compacting => AtWorkOn(r)

LEMMA GoesOn ==
  ASSUME TypeInv, Owns, Compacting, mayWrite' \subseteq mayWrite,
         \A t \in Tabs : tab'[t].conn = tab[t].conn \/ tab'[t].conn = Nil,
         \A k \in Conns : \/ Follows(conn'[k], conn[k])
                          \/ ~Owned(k)'
                          \/ conn'[k].st = "gone" /\ conn'[k].tab = conn[k].tab,
         \A r \in Rooms : rooms'[r].compacting => SameCompaction(r) \/ NewCompaction(r)
  PROVE  Owns' /\ Compacting'
<1>1. Owns'
  <2> SUFFICES ASSUME NEW t \in Tabs, tab'[t].conn # Nil
               PROVE  conn'[tab'[t].conn].tab = t /\ conn'[tab'[t].conn].st # "free"
    BY DEF Owns
  <2>1. PICK k \in Conns : tab'[t].conn = k /\ tab[t].conn = k
    BY LinkType
  <2>2. Owned(k)' /\ k # Nil
    BY <2>1, CollabAssumption DEF Owned
  <2>3. conn[k].tab = t /\ conn[k].st # "free"
    BY <2>1, <2>2 DEF Owns
  <2> QED BY <2>1, <2>2, <2>3 DEF Follows
<1>2. ASSUME NEW r \in Rooms, rooms'[r].compacting
      PROVE  AtWorkOn(r)'
  <2>1. CASE NewCompaction(r)
    BY <2>1 DEF NewCompaction, AtWork, AtWorkOn
  <2>2. CASE SameCompaction(r)
    <3>1. rooms[r].compacting /\ rooms[r].loaded
      BY <2>2 DEF SameCompaction, Compacting, AtWorkOn
    <3>2. PICK k \in Conns : /\ rooms[r].compactConn = k
                             /\ k \in rooms[r].conns /\ conn[k].st = "open" /\ AtWork(k)
      BY <3>1 DEF Compacting, AtWorkOn
    <3>3. Follows(conn'[k], conn[k]) /\ (Told(conn[k]) => AtWork(k)')
          /\ rooms'[r].loaded /\ k \in rooms'[r].conns /\ rooms'[r].compactConn = k
      BY <2>2, <3>1, <3>2 DEF SameCompaction
    <3>4. Owned(k)' => Owned(k)
      BY CollabAssumption DEF Owned
    <3>5. AtWork(k)'
      BY <3>2, <3>3, <3>4 DEF AtWork, Follows
    <3> QED BY <3>2, <3>3, <3>5 DEF Follows, AtWorkOn
  <2> QED BY <1>2, <2>1, <2>2
<1> QED BY <1>1, <1>2 DEF Compacting

LEMMA FollowsOps ==
  ASSUME NEW c \in ConnType
  PROVE  /\ Follows(c, c) /\ Follows(Shutdown(c), c) /\ Follows(Cut(c), c)
         /\ Follows([c EXCEPT !.closed = TRUE], c)
         /\ c.st # "open" => Follows([c EXCEPT !.st = "refused"], c)
         /\ Follows(Taken(c), c)
         /\ Shutdown(c).done /\ Cut(c).done /\ [c EXCEPT !.closed = TRUE].closed
         /\ Taken(c).out = c.out /\ Taken(c).inq = Tail(c.inq)
BY DEF Follows, Shutdown, Cut, Taken, ConnType

(* Most steps leave a room its compaction, or end it.                      *)
LEMMA SameRooms ==
  ASSUME TypeInv, Owns, Compacting, UNCHANGED mayWrite,
         \A t \in Tabs : tab'[t].conn = tab[t].conn,
         \A k \in Conns : Follows(conn'[k], conn[k]),
         \A r \in Rooms : rooms'[r].compacting =>
           /\ rooms[r].compacting /\ rooms'[r].compactConn = rooms[r].compactConn
           /\ rooms[r].loaded => rooms'[r].loaded
           /\ rooms[r].conns \subseteq rooms'[r].conns
           /\ \A k \in Conns : rooms[r].compactConn = k /\ Told(conn[k]) =>
                \/ Told(conn'[k]) \/ conn'[k].done \/ conn'[k].closed
                \/ conn[k].tab \notin mayWrite \/ ~Owned(k)
  PROVE  Owns' /\ Compacting'
<1>1. ASSUME NEW r \in Rooms, rooms'[r].compacting PROVE SameCompaction(r)
  <2>1. /\ rooms[r].compacting /\ rooms'[r].compactConn = rooms[r].compactConn
        /\ rooms[r].loaded => rooms'[r].loaded
        /\ rooms[r].conns \subseteq rooms'[r].conns
    BY <1>1
  <2>2. ASSUME NEW k \in Conns, rooms[r].compactConn = k, Told(conn[k])
        PROVE  AtWork(k)'
    <3>1. \/ Told(conn'[k]) \/ conn'[k].done \/ conn'[k].closed
          \/ conn[k].tab \notin mayWrite \/ ~Owned(k)
      BY <1>1, <2>2
    <3>2. conn'[k].tab = conn[k].tab /\ (Owned(k)' <=> Owned(k))
      BY <2>2 DEF Follows, Owned
    <3> QED BY <3>1, <3>2 DEF AtWork
  <2> QED BY <2>1, <2>2 DEF SameCompaction
<1> QED BY <1>1, GoesOn

Working == TypeInv /\ Members /\ AllInHub /\ Counted /\ Owns /\ Compacting

LEMMA WorkingFacts ==
  ASSUME Working
  PROVE  /\ conn \in [Conns -> ConnType] /\ tab \in [Tabs -> TabType]
         /\ rooms \in [Rooms -> RoomType]
         /\ \A k \in Conns : Follows(conn[k], conn[k])
         /\ \A r \in Rooms : \A k \in Conns :
              rooms[r].compacting /\ rooms[r].compactConn = k
                => conn[k].st = "open" /\ conn[k].room = r /\ k # Nil
<1>1. /\ conn \in [Conns -> ConnType] /\ tab \in [Tabs -> TabType]
      /\ rooms \in [Rooms -> RoomType]
  BY DEF Working, TypeInv, TypeOK
<1>2. \A k \in Conns : Follows(conn[k], conn[k])
  BY <1>1, FollowsOps
<1>3. ASSUME NEW r \in Rooms, NEW k \in Conns, rooms[r].compacting, rooms[r].compactConn = k
      PROVE  conn[k].st = "open" /\ conn[k].room = r /\ k # Nil
  <2>1. k \in rooms[r].conns /\ conn[k].st = "open"
    BY <1>3 DEF Working, Compacting, AtWorkOn
  <2> QED BY <2>1, CollabAssumption DEF Working, Members
<1> QED BY <1>1, <1>2, <1>3

LEMMA ServerGoesOn ==
  ASSUME Working, NEW k \in Conns,
         \/ RefuseStale(k) \/ DropFrame(k) \/ PersistFails(k) \/ SnapshotFails(k)
         \/ ApplySnapshot(k) \/ CloseSocket(k) \/ NetDrop(k) \/ PeerGone(k) \/ Recheck(k)
  PROVE  Owns' /\ Compacting'
<1> DEFINE c == conn[k]
           r == c.room
<1>0. /\ TypeInv /\ Owns /\ Compacting /\ c \in ConnType
      /\ conn \in [Conns -> ConnType] /\ rooms \in [Rooms -> RoomType]
      /\ \A j \in Conns : Follows(conn[j], conn[j])
      /\ \A q \in Rooms : \A j \in Conns :
              rooms[q].compacting /\ rooms[q].compactConn = j
                => conn[j].st = "open" /\ conn[j].room = q
  BY WorkingFacts DEF Working
<1>1. UNCHANGED <<tab, mayWrite>>
  BY DEF RefuseStale, DropFrame, PersistFails, SnapshotFails, ApplySnapshot, CloseSocket,
         NetDrop, PeerGone, Recheck
<1>2. ASSUME NEW x, Follows(x, c), conn' = [conn EXCEPT ![k] = x],
             \A q \in Rooms : rooms'[q].compacting =>
               /\ rooms[q].compacting /\ rooms'[q].compactConn = rooms[q].compactConn
               /\ rooms'[q].loaded = rooms[q].loaded
               /\ rooms'[q].conns = rooms[q].conns
               /\ rooms[q].compactConn = k /\ Told(c) =>
                    Told(x) \/ x.done \/ x.closed \/ c.tab \notin mayWrite
      PROVE  Owns' /\ Compacting'
  <2>1. conn'[k] = x /\ \A j \in Conns \ {k} : conn'[j] = conn[j]
    BY <1>0, <1>2
  <2>2. \A j \in Conns : Follows(conn'[j], conn[j])
    BY <1>0, <1>2, <2>1
  <2>3. \A q \in Rooms : rooms'[q].compacting => \A j \in Conns :
           rooms[q].compactConn = j /\ Told(conn[j]) =>
                \/ Told(conn'[j]) \/ conn'[j].done \/ conn'[j].closed
                \/ conn[j].tab \notin mayWrite \/ ~Owned(j)
    BY <1>2, <2>1
  <2> QED BY <1>0, <1>1, <1>2, <2>2, <2>3, SameRooms
<1>3. CASE CloseSocket(k) \/ NetDrop(k) \/ PeerGone(k) \/ Recheck(k)
  <2>1. UNCHANGED rooms
    BY <1>3 DEF CloseSocket, NetDrop, PeerGone, Recheck
  <2>2. PICK x \in {Cut(c), Shutdown(c), [c EXCEPT !.closed = TRUE]} :
          conn' = [conn EXCEPT ![k] = x]
    BY <1>3 DEF CloseSocket, NetDrop, PeerGone, Recheck
  <2>3. Follows(x, c) /\ (x.done \/ x.closed)
    BY <1>0, FollowsOps
  <2> QED BY <1>2, <2>1, <2>2, <2>3
<1>4. CASE RefuseStale(k)
  <2> DEFINE x == [c EXCEPT !.st = "refused"]
  <2>1. UNCHANGED rooms /\ conn' = [conn EXCEPT ![k] = x] /\ c.st = "joined"
    BY <1>4 DEF RefuseStale
  <2>2. Follows(x, c)
    BY <1>0, <2>1, FollowsOps
  <2>3. \A q \in Rooms : rooms[q].compacting => rooms[q].compactConn # k
    BY <1>0, <2>1
  <2> HIDE DEF x
  <2> QED BY <1>2, <2>1, <2>2, <2>3
<1>5. Follows(Taken(c), c)
  BY <1>0, FollowsOps
<1>6. ASSUME Reads(k, "update") PROVE Told(c) => Told(Taken(c))
  <2>1. c.inq # <<>> /\ c.inq \in Seq(InFrames) /\ Head(c.inq).type = "update"
    BY <1>0, <1>6, InqType DEF Reads
  <2>2. Shorter(Tail(c.inq), c.inq) /\ c.inq[1].type = "update"
    BY <2>1, TailShorter
  <2>3. Has(c.inq, "snapshot") => Has(Tail(c.inq), "snapshot")
    BY <2>2, HasShorter
  <2>4. Taken(c).out = c.out /\ Taken(c).inq = Tail(c.inq)
    BY <1>0, FollowsOps
  <2> QED BY <2>3, <2>4 DEF Told
<1>7. CASE DropFrame(k)
  <2>1. UNCHANGED rooms /\ conn' = [conn EXCEPT ![k] = Taken(c)]
    BY <1>7 DEF DropFrame
  <2>2. \/ Reads(k, "update") \/ c.tab \notin mayWrite
        \/ rooms[r].compactConn # k \/ ~rooms[r].compacting
    BY <1>7 DEF DropFrame
  <2>3. ASSUME NEW q \in Rooms, rooms[q].compacting, rooms[q].compactConn = k, Told(c)
        PROVE  Told(Taken(c)) \/ c.tab \notin mayWrite
    <3>1. q = r
      BY <1>0, <2>3
    <3> QED BY <1>6, <2>2, <2>3, <3>1
  <2> HIDE DEF c
  <2> QED BY <1>2, <1>5, <2>1, <2>3
<1>8. CASE PersistFails(k)
  <2>1. /\ conn' = [conn EXCEPT ![k] = Taken(c)] /\ Reads(k, "update")
        /\ rooms' = [rooms EXCEPT ![r].seeded = TRUE] /\ r \in Rooms
    BY <1>0, <1>8, HeadOf DEF PersistFails, TypeInv, Located, InRoom, Reads
  <2>2. \A q \in Rooms : /\ rooms'[q].compacting = rooms[q].compacting
                         /\ rooms'[q].compactConn = rooms[q].compactConn
                         /\ rooms'[q].loaded = rooms[q].loaded
                         /\ rooms'[q].conns = rooms[q].conns
    BY <1>0, <2>1 DEF RoomType
  <2> HIDE DEF c
  <2> QED BY <1>2, <1>5, <1>6, <2>1, <2>2
<1>9. CASE SnapshotFails(k) \/ ApplySnapshot(k)
  <2>1. /\ conn' = [conn EXCEPT ![k] = Taken(c)] /\ Compacts(k) /\ r \in Rooms
    BY <1>0, <1>9 DEF SnapshotFails, ApplySnapshot, TypeInv, Located, InRoom, Reads, Compacts
  <2>2. ~rooms'[r].compacting /\ \A q \in Rooms \ {r} : rooms'[q] = rooms[q]
    <3>1. rooms[r] \in RoomType
      BY <1>0, <2>1
    <3>2. \A p \in Nat : /\ ~NotCompacting(rooms[r]).compacting
                         /\ ~[NotCompacting(rooms[r]) EXCEPT !.pending = p].compacting
      BY <3>1 DEF NotCompacting, RoomType
    <3>3. \E x : rooms' = [rooms EXCEPT ![r] = x] /\ ~x.compacting
      <4>1. CASE SnapshotFails(k)
        BY <3>2, <4>1 DEF SnapshotFails
      <4>2. CASE ApplySnapshot(k)
        <5>1. rooms' = [rooms EXCEPT ![r] = [NotCompacting(rooms[r]) EXCEPT
                                      !.pending = Remaining(rooms[r], Head(c.inq).seq)]]
          BY <4>2 DEF ApplySnapshot
        <5>2. ~[NotCompacting(rooms[r]) EXCEPT
                  !.pending = Remaining(rooms[r], Head(c.inq).seq)].compacting
          BY <3>1 DEF NotCompacting, RoomType
        <5> QED BY <5>1, <5>2
      <4> QED BY <1>9, <4>1, <4>2
    <3> HIDE DEF r
    <3> QED BY <1>0, <2>1, <3>3
  <2>3. \A q \in Rooms \ {r} : rooms[q].compacting => rooms[q].compactConn # k
    BY <1>0
  <2> HIDE DEF c, r
  <2> QED BY <1>2, <1>5, <2>1, <2>2, <2>3
<1> QED BY <1>3, <1>4, <1>7, <1>8, <1>9

LEMMA JoinGoesOn ==
  ASSUME Working, NEW k \in Conns, Join(k) \/ Load(k)
  PROVE  Owns' /\ Compacting'
<1>0. /\ TypeInv /\ AllInHub /\ Owns /\ Compacting
      /\ conn \in [Conns -> ConnType] /\ rooms \in [Rooms -> RoomType]
      /\ \A j \in Conns : Follows(conn[j], conn[j])
      /\ \A q \in Rooms : \A j \in Conns :
              rooms[q].compacting /\ rooms[q].compactConn = j => conn[j].st = "open"
  BY WorkingFacts DEF Working
<1>1. UNCHANGED <<tab, mayWrite>> /\ conn[k].st \in {"accepted", "joined"}
  BY DEF Join, Load
<1>2. Follows(conn'[k], conn[k]) /\ \A j \in Conns \ {k} : conn'[j] = conn[j]
  <2>1. CASE Load(k)
    BY <1>0, <2>1, LoadEffect DEF Follows
  <2>2. CASE Join(k)
    <3>1. PICK r \in Rooms : conn' = [conn EXCEPT ![k].st = "joined", ![k].room = r]
      BY <2>2 DEF Join
    <3> QED BY <1>0, <1>1, <3>1 DEF Follows, ConnType
  <2> QED BY <2>1, <2>2
<1>3. \A r \in Rooms : rooms'[r].compacting =>
        /\ rooms[r].compacting /\ rooms'[r].compactConn = rooms[r].compactConn
        /\ rooms[r].loaded => rooms'[r].loaded
        /\ rooms[r].conns \subseteq rooms'[r].conns
  <2>1. CASE Load(k)
    BY <1>0, <2>1, LoadEffect
  <2>2. CASE Join(k)
    <3>1. PICK r \in Rooms :
            rooms' = [rooms EXCEPT ![r] =
                      [(IF hub # NoRoom THEN rooms[r] ELSE NewRoom) EXCEPT
                         !.conns = @ \cup {k}]]
      BY <2>2 DEF Join
    <3> QED BY <1>0, <3>1, NewRoomType DEF NewRoom, RoomType
  <2> QED BY <2>1, <2>2
<1>4. \A r \in Rooms : rooms'[r].compacting => \A j \in Conns :
        rooms[r].compactConn = j /\ Told(conn[j]) => Told(conn'[j])
  BY <1>0, <1>1, <1>2, <1>3
<1> QED BY <1>0, <1>1, <1>2, <1>3, <1>4, SameRooms

LEMMA PersistGoesOn ==
  ASSUME Working, NEW k \in Conns, PersistUpdate(k)
  PROVE  Owns' /\ Compacting'
<1> DEFINE R == rooms[hub]
           m == conn[k].inq[1]
           n == R.seq + 1
<1>0. /\ TypeInv /\ AllInHub /\ Counted /\ Owns /\ Compacting
      /\ \A j \in Conns : Follows(conn[j], conn[j])
  BY WorkingFacts DEF Working
<1>1. /\ conn[k].st = "open" /\ k \in R.conns /\ m.type = "update"
      /\ hub \in Rooms /\ rooms'[hub].conns = R.conns /\ R.loaded
      /\ rooms'[hub].loaded = R.loaded
      /\ rooms'[hub].compacting = (R.compacting \/ Asks(R))
      /\ rooms'[hub].compactConn = IF Asks(R) THEN k ELSE R.compactConn
      /\ \A r \in Rooms \ {hub} : rooms'[r] = rooms[r]
      /\ Shorter(conn'[k].inq, conn[k].inq)
      /\ IF Asks(R) THEN Relayed(conn'[k], conn[k], SnapshotRequest(n))
         ELSE /\ conn'[k].st = conn[k].st /\ conn'[k].tab = conn[k].tab
              /\ conn'[k].closed = conn[k].closed /\ conn'[k].done = conn[k].done
              /\ conn'[k].out = conn[k].out
      /\ \A j \in Conns \ {k} :
              /\ conn'[j].inq = conn[j].inq
              /\ IF j \in R.conns THEN Relayed(conn'[j], conn[j], m) ELSE conn'[j] = conn[j]
  BY <1>0, PersistEffect DEF Counted
<1>2. UNCHANGED <<tab, mayWrite>>
  BY DEF PersistUpdate
<1>3. SnapshotRequest(n).type = "snapshotRequest"
  BY DEF SnapshotRequest
<1> HIDE DEF m, n, R
<1>4. \A j \in Conns : Follows(conn'[j], conn[j])
  BY <1>0, <1>1 DEF Follows, Relayed
<1>5. ASSUME NEW j \in Conns, Told(conn[j]) PROVE Told(conn'[j])
  <2>1. Has(conn[j].out, "snapshotRequest") => Has(conn'[j].out, "snapshotRequest")
    BY <1>1, HasLonger DEF Relayed
  <2>2. Has(conn[j].inq, "snapshot") => Has(conn'[j].inq, "snapshot")
    BY <1>1, HasShorter DEF m
  <2> QED BY <1>5, <2>1, <2>2 DEF Told
<1>6. ASSUME NEW r \in Rooms, rooms'[r].compacting
      PROVE  SameCompaction(r) \/ NewCompaction(r)
  <2>1. CASE r = hub /\ Asks(R)
    <3>1. conn'[k].done \/ Told(conn'[k])
      BY <1>1, <1>3, <2>1, HasLonger DEF Relayed, Told
    <3>2. conn'[k].st = "open"
      BY <1>1, <1>4 DEF Follows
    <3>3. NewCompaction(r)
      BY <1>1, <2>1, <3>1, <3>2 DEF NewCompaction
    <3> QED BY <3>3
  <2>2. CASE ~(r = hub /\ Asks(R))
    <3>1. /\ rooms[r].compacting /\ rooms'[r].compactConn = rooms[r].compactConn
          /\ rooms'[r].loaded = rooms[r].loaded /\ rooms'[r].conns = rooms[r].conns
      <4>1. CASE r = hub
        <5>1. ~Asks(R)
          BY <2>2, <4>1
        <5>2. (rooms'[hub].compacting => R.compacting) /\ rooms'[hub].compactConn = R.compactConn
          BY <1>1, <5>1
        <5> QED BY <1>1, <1>6, <4>1, <5>2 DEF R
      <4>2. CASE r # hub
        BY <1>1, <1>6, <4>2
      <4> QED BY <4>1, <4>2
    <3>2. SameCompaction(r)
      BY <1>4, <1>5, <3>1 DEF SameCompaction, AtWork
    <3> QED BY <3>2
  <2> QED BY <2>1, <2>2
<1> QED BY <1>0, <1>2, <1>4, <1>6, GoesOn

LEMMA RecvGoesOn ==
  ASSUME Working, NEW k \in Conns, Recv(k)
  PROVE  Owns' /\ Compacting'
<1> DEFINE c == conn[k]
           d == conn'[k]
<1>0. /\ TypeInv /\ Owns /\ Compacting /\ Owners
      /\ \A j \in Conns : Follows(conn[j], conn[j])
  BY WorkingFacts DEF Working, Owns, Owners
<1>1. UNCHANGED <<rooms, mayWrite>>
  BY DEF Recv
<1>2. /\ \A j \in Conns \ {k} : conn'[j] = conn[j]
      /\ SameButQueues(d, c) /\ Shorter(d.out, c.out)
      /\ \/ UNCHANGED tab /\ d.inq = c.inq /\ \A t \in Tabs : tab[t].conn # k
         \/ \E t \in Tabs :
                 /\ tab[t].conn = k
                 /\ \A u \in Tabs \ {t} : tab'[u] = tab[u] /\ tab[u].conn # k
                 /\ Handles(tab'[t], tab[t], d, c)
  BY <1>0, RecvEffect
<1>3. \A t \in Tabs : tab'[t].conn = tab[t].conn
  BY <1>2 DEF Handles
<1>4. \A j \in Conns : Follows(conn'[j], conn[j])
  BY <1>0, <1>2 DEF Follows, SameButQueues
<1>5. ASSUME Told(c), Owned(k) PROVE Told(d)
  <2>1. PICK t \in Tabs : Handles(tab'[t], tab[t], d, c)
    BY <1>2, <1>5 DEF Owned
  <2>2. CASE c.out[1].type = "snapshotRequest"
    <3>1. Longer(d.inq, c.inq, Snapshot(c.out[1].seq, tab[t].doc))
      BY <2>1, <2>2 DEF Handles
    <3>2. Has(d.inq, "snapshot")
      BY <3>1, HasLonger DEF Snapshot
    <3> QED BY <3>2 DEF Told
  <2>3. CASE c.out[1].type # "snapshotRequest"
    <3>1. Has(c.out, "snapshotRequest") => Has(d.out, "snapshotRequest")
      BY <1>2, <2>3, HasShorter
    <3>2. d.inq = c.inq \/ \E m : Longer(d.inq, c.inq, m)
      BY <2>1 DEF Handles
    <3>3. Has(c.inq, "snapshot") => Has(d.inq, "snapshot")
      BY <3>2, HasLonger
    <3> QED BY <1>5, <3>1, <3>3 DEF Told
  <2> QED BY <2>2, <2>3
<1>6. \A j \in Conns : Told(conn[j]) => Told(conn'[j]) \/ ~Owned(j)
  BY <1>2, <1>5
<1> QED BY <1>0, <1>1, <1>3, <1>4, <1>6, SameRooms

LEMMA LeaveGoesOn ==
  ASSUME Working, NEW k \in Conns, Leave(k)
  PROVE  Owns' /\ Compacting'
<1> DEFINE r == conn[k].room
           left == [rooms[r] EXCEPT
                 !.conns = @ \ {k},
                 !.seedConn = IF @ = k /\ ~rooms[r].seeded THEN Nil ELSE @,
                 !.compacting = @ /\ rooms[r].compactConn # k,
                 !.compactConn = IF @ = k THEN Nil ELSE @]
<1>0. /\ TypeInv /\ Owns /\ Compacting
      /\ conn \in [Conns -> ConnType] /\ rooms \in [Rooms -> RoomType]
      /\ \A j \in Conns : Follows(conn[j], conn[j])
      /\ \A q \in Rooms : \A j \in Conns :
              rooms[q].compacting /\ rooms[q].compactConn = j => conn[j].room = q
  BY WorkingFacts DEF Working
<1>1. UNCHANGED <<tab, mayWrite>> /\ r \in Rooms
  BY DEF Leave, Working, TypeInv, Located, InRoom
<1>2. PICK code : conn' = [conn EXCEPT ![k] = Released(k, code)]
  BY DEF Leave
<1>3. /\ conn'[k] = Released(k, code)
      /\ \A j \in Conns \ {k} : conn'[j] = conn[j]
  BY <1>0, <1>2
<1>4. PICK R2 \in {NewRoom, left} : rooms' = [rooms EXCEPT ![r] = R2]
  BY DEF Leave
<1>5. /\ ~NewRoom.compacting
      /\ left.compacting => rooms[r].compacting /\ rooms[r].compactConn # k
      /\ left.compacting => left.compactConn = rooms[r].compactConn
      /\ left.loaded = rooms[r].loaded /\ left.conns = rooms[r].conns \ {k}
  <2>1. rooms[r] \in RoomType
    BY <1>0, <1>1
  <2>2. /\ left.compacting = (rooms[r].compacting /\ rooms[r].compactConn # k)
        /\ left.compactConn = IF rooms[r].compactConn = k THEN Nil ELSE rooms[r].compactConn
        /\ left.loaded = rooms[r].loaded /\ left.conns = rooms[r].conns \ {k}
    BY <2>1 DEF RoomType
  <2> HIDE DEF left
  <2> QED BY <2>2 DEF NewRoom
<1> HIDE DEF left
<1>6. rooms'[r] = R2 /\ \A q \in Rooms \ {r} : rooms'[q] = rooms[q]
  <2> HIDE DEF r
  <2> QED BY <1>0, <1>1, <1>4
<1>7. ASSUME NEW q \in Rooms, rooms'[q].compacting PROVE SameCompaction(q)
  <2>1. /\ rooms[q].compacting /\ rooms'[q].compactConn = rooms[q].compactConn
        /\ rooms'[q].loaded = rooms[q].loaded /\ rooms[q].compactConn # k
        /\ rooms[q].conns \ {k} \subseteq rooms'[q].conns
    <3>1. CASE q = r
      BY <1>4, <1>5, <1>6, <1>7, <3>1
    <3>2. CASE q # r
      BY <1>0, <1>6, <1>7, <3>2
    <3> QED BY <3>1, <3>2
  <2>2. ASSUME NEW j \in Conns, rooms[q].compactConn = j
        PROVE  /\ j \in rooms[q].conns => j \in rooms'[q].conns
               /\ Follows(conn'[j], conn[j]) /\ (Told(conn[j]) => AtWork(j)')
    <3>1. j # k /\ conn'[j] = conn[j]
      BY <1>3, <2>1, <2>2
    <3> QED BY <1>0, <2>1, <3>1 DEF AtWork
  <2> QED BY <2>1, <2>2 DEF SameCompaction
<1>8. \A j \in Conns : \/ Follows(conn'[j], conn[j])
                       \/ ~Owned(j)'
                       \/ conn'[j].st = "gone" /\ conn'[j].tab = conn[j].tab
  <2>1. Owned(k)' => Owned(k)
    BY <1>1 DEF Owned
  <2> QED BY <1>0, <1>3, <2>1, ReleasedEmpty
<1> QED BY <1>0, <1>1, <1>7, <1>8, GoesOn

LEMMA RestartGoesOn ==
  ASSUME Working, LosesMemory, UNCHANGED <<tab, mayWrite>>
  PROVE  Owns' /\ Compacting'
<1>0. /\ TypeInv /\ Owns /\ Compacting /\ \A j \in Conns : Follows(conn[j], conn[j])
  BY WorkingFacts DEF Working
<1>1. \A j \in Conns : conn'[j] = IF InServer(j) THEN Released(j, "other") ELSE conn[j]
  BY DEF LosesMemory
<1>2. \A j \in Conns : \/ Follows(conn'[j], conn[j])
                       \/ ~Owned(j)'
                       \/ conn'[j].st = "gone" /\ conn'[j].tab = conn[j].tab
  <2>1. \A j \in Conns : Owned(j)' => Owned(j)
    BY DEF Owned
  <2> QED BY <1>0, <1>1, <2>1, ReleasedEmpty
<1>3. \A r \in Rooms : ~rooms'[r].compacting
  BY DEF LosesMemory, NewRoom
<1> QED BY <1>0, <1>2, <1>3, GoesOn

LEMMA TabGoesOn ==
  ASSUME Working, NEW t \in Tabs,
         Mount(t) \/ OnClose(t) \/ Abandon(t) \/ CloseTab(t) \/ EndAccess(t)
  PROVE  Owns' /\ Compacting'
<1> DEFINE k == tab[t].conn
<1>0. /\ TypeInv /\ Owns /\ Compacting
      /\ conn \in [Conns -> ConnType] /\ tab \in [Tabs -> TabType]
      /\ \A j \in Conns : Follows(conn[j], conn[j]) /\ Follows(Shutdown(conn[j]), conn[j])
      /\ \A q \in Rooms : \A j \in Conns :
              rooms[q].compacting /\ rooms[q].compactConn = j => conn[j].st = "open"
  BY WorkingFacts, FollowsOps DEF Working
<1>1. UNCHANGED rooms /\ mayWrite' \subseteq mayWrite
  BY DEF Mount, OnClose, Abandon, CloseTab, EndAccess, LosesWrite, LosesRead
<1>2. CASE Mount(t) \/ OnClose(t) \/ Abandon(t) \/ CloseTab(t)
  <2>1. \A j \in Conns : \/ conn'[j] = conn[j]
                         \/ j = k /\ conn[j].st = "gone"
    BY <1>0, <1>2 DEF Mount, OnClose, Abandon, CloseTab, LetGo
  <2>2. /\ tab'[t].conn = Nil
        /\ \A u \in Tabs \ {t} : tab'[u] = tab[u]
    <3>1. NewTab(docGen).conn = Nil /\ ClosedTab.conn = Nil
      BY DEF NewTab, ClosedTab
    <3> QED BY <1>0, <1>2, <3>1 DEF Mount, OnClose, Abandon, CloseTab, TabType
  <2>3. ASSUME NEW j \in Conns PROVE Follows(conn'[j], conn[j]) \/ ~Owned(j)'
    <3>1. CASE conn'[j] = conn[j]
      BY <1>0, <3>1
    <3>2. CASE j = k
      <4>1. j # Nil
        BY CollabAssumption
      <4>2. \A u \in Tabs : tab'[u].conn # j
        BY <1>0, <2>2, <3>2, <4>1 DEF Owns
      <4> QED BY <4>2 DEF Owned
    <3> QED BY <2>1, <3>1, <3>2
  <2>4. ASSUME NEW q \in Rooms, rooms'[q].compacting PROVE SameCompaction(q)
    <3>1. ASSUME NEW j \in Conns, rooms[q].compactConn = j
          PROVE  conn'[j] = conn[j]
      BY <1>0, <1>1, <2>1, <2>4, <3>1
    <3> QED BY <1>0, <1>1, <2>4, <3>1 DEF SameCompaction, AtWork
  <2> QED BY <1>0, <1>1, <2>2, <2>3, <2>4, GoesOn
<1>3. CASE EndAccess(t)
  <2>1. UNCHANGED tab /\ \A j \in Conns : conn'[j] \in {conn[j], Shutdown(conn[j])}
    BY <1>3 DEF EndAccess, LosesWrite, LosesRead
  <2>2. \A j \in Conns : Shutdown(conn[j]).done
    BY <1>0, FollowsOps
  <2>3. ASSUME NEW q \in Rooms, rooms'[q].compacting PROVE SameCompaction(q)
    BY <1>0, <1>1, <2>1, <2>2, <2>3 DEF SameCompaction, AtWork
  <2> QED BY <1>0, <1>1, <2>1, <2>3, GoesOn
<1> QED BY <1>2, <1>3

LEMMA EditGoesOn ==
  ASSUME Working, NEW t \in Tabs, Seed(t) \/ Edit(t)
  PROVE  Owns' /\ Compacting'
<1>0. /\ TypeInv /\ Owns /\ Compacting /\ \A j \in Conns : Follows(conn[j], conn[j])
      /\ tab \in [Tabs -> TabType]
  BY WorkingFacts DEF Working
<1>1. UNCHANGED <<rooms, mayWrite>>
  BY DEF Seed, Edit
<1>2. CASE Makes(t)
  <2>1. /\ \A u \in Tabs : tab'[u].conn = tab[u].conn
        /\ \A j \in Conns : conn'[j] = conn[j]
             \/ /\ SameButQueues(conn'[j], conn[j]) /\ conn'[j].out = conn[j].out
                /\ Longer(conn'[j].inq, conn[j].inq, Update({edits + 1}))
    <3>1. /\ \A u \in Tabs \ {t} : tab'[u] = tab[u]
          /\ tab'[t].conn = tab[t].conn
          /\ \A j \in Conns : j # tab[t].conn => conn'[j] = conn[j]
          /\ tab[t].conn # Nil =>
              LET d == conn'[tab[t].conn]
                  c == conn[tab[t].conn]
              IN  IF c.closed THEN d = c
                  ELSE /\ SameButQueues(d, c) /\ d.out = c.out
                       /\ Longer(d.inq, c.inq, Update({edits + 1}))
      BY <1>0, <1>2, MakesEffect
    <3> QED BY <3>1, CollabAssumption
  <2>2. \A j \in Conns : Follows(conn'[j], conn[j])
    BY <1>0, <2>1 DEF Follows, SameButQueues
  <2>3. \A j \in Conns : Told(conn[j]) => Told(conn'[j])
    BY <2>1, HasLonger DEF Told
  <2> QED BY <1>0, <1>1, <2>1, <2>2, <2>3, SameRooms
<1>3. CASE ~Makes(t)
  <2>1. UNCHANGED conn /\ tab' = [tab EXCEPT ![t].seed = FALSE]
    BY <1>3 DEF Seed, Edit
  <2>2. \A u \in Tabs : tab'[u].conn = tab[u].conn
    BY <1>0, <2>1 DEF TabType
  <2> QED BY <1>0, <1>1, <2>1, <2>2, SameRooms
<1> QED BY <1>2, <1>3

LEMMA DialGoesOn ==
  ASSUME Working, NEW t \in Tabs, NEW k \in Conns, Dial(t, k)
  PROVE  Owns' /\ Compacting'
<1>0. /\ TypeInv /\ Owns /\ Compacting
      /\ conn \in [Conns -> ConnType] /\ tab \in [Tabs -> TabType]
      /\ \A q \in Rooms : \A j \in Conns :
              rooms[q].compacting /\ rooms[q].compactConn = j => conn[j].st = "open"
  BY WorkingFacts DEF Working
<1>1. UNCHANGED <<rooms, mayWrite>> /\ conn[k].st = "free" /\ tab[t].conn = Nil
  BY DEF Dial
<1>2. /\ conn'[k].tab = t /\ conn'[k].st = "accepted"
      /\ \A j \in Conns \ {k} : conn'[j] = conn[j]
  BY <1>0 DEF Dial, FreeConn
<1>3. tab'[t].conn = k /\ \A u \in Tabs \ {t} : tab'[u] = tab[u]
  BY <1>0 DEF Dial, TabType
<1>4. ASSUME NEW u \in Tabs, tab'[u].conn # Nil
      PROVE  conn'[tab'[u].conn].tab = u /\ conn'[tab'[u].conn].st # "free"
  <2>1. CASE u = t
    BY <1>2, <1>3, <2>1
  <2>2. CASE u # t
    <3>1. tab'[u] = tab[u] /\ tab[u].conn \in Conns
      BY <1>0, <1>3, <1>4, <2>2, LinkType
    <3>2. tab[u].conn # k
      BY <1>0, <1>1, <1>4, <3>1 DEF Owns
    <3> QED BY <1>0, <1>2, <1>4, <3>1, <3>2 DEF Owns
  <2> QED BY <2>1, <2>2
<1>5. ASSUME NEW r \in Rooms, rooms'[r].compacting PROVE AtWorkOn(r)'
  <2>1. PICK j \in Conns : /\ rooms[r].compactConn = j /\ rooms[r].loaded
                           /\ j \in rooms[r].conns /\ conn[j].st = "open" /\ AtWork(j)
    BY <1>0, <1>1, <1>5 DEF Compacting, AtWorkOn
  <2>2. j # k /\ conn'[j] = conn[j] /\ (Owned(j)' => Owned(j))
    BY <1>1, <1>2, <1>3, <2>1 DEF Owned
  <2>3. AtWork(j)'
    BY <1>1, <2>1, <2>2 DEF AtWork
  <2> QED BY <1>1, <2>1, <2>2, <2>3 DEF AtWorkOn
<1> QED BY <1>4, <1>5 DEF Owns, Compacting

LEMMA StepGoesOn ==
  NoReset /\ Working /\ [Next]_vars => Owns' /\ Compacting'
<1> SUFFICES ASSUME NoReset, Working, [Next]_vars PROVE Owns' /\ Compacting'
  OBVIOUS
<1>0. TypeInv /\ AllInHub
  BY DEF Working
<1>1. ASSUME NEW k \in Conns, ServerStep(k) \/ NetDrop(k) PROVE Owns' /\ Compacting'
  BY <1>1, ServerGoesOn, JoinGoesOn, PersistGoesOn, LeaveGoesOn DEF ServerStep
<1>2. ASSUME Restart \/ \E k \in Conns : CrashInSnapshot(k) PROVE Owns' /\ Compacting'
  BY <1>2, RestartGoesOn DEF Restart, CrashInSnapshot
<1>3. ASSUME NEW t \in Tabs, TabStep(t) PROVE Owns' /\ Compacting'
  BY <1>3, TabGoesOn, EditGoesOn DEF TabStep
<1>4. CASE UNCHANGED vars
  BY <1>4 DEF vars, Working, Owns, Compacting, AtWorkOn, AtWork, Owned
<1> QED BY <1>0, <1>1, <1>2, <1>3, <1>4, RecvGoesOn, DialGoesOn, WriterAllInHub DEF Next

(* A compaction under way always has somebody at work on it, so the room   *)
(* asks again some day (collab.go:615-653): the client it was asked of is  *)
(* in the room and will hear of it, has answered, or is on its way out.    *)
THEOREM SomebodyIsAtWork == NoReset => (Spec => []CompactionGoesOn)
<1> SUFFICES ASSUME NoReset PROVE Spec => []CompactionGoesOn
  OBVIOUS
<1>1. Init => Working
  <2> SUFFICES ASSUME Init PROVE Owns /\ Compacting
    BY InitType, InitMembers, InitAllInHub, InitCounted DEF Working
  <2> QED BY DEF Init, Owns, Compacting, ClosedTab, NewTab, NewRoom
<1>2. Working /\ [Next]_vars => Working'
  BY StepType, StepMembers, StepAllInHub, StepCounted, StepGoesOn DEF Working
<1>3. Working => CompactionGoesOn
  <2> SUFFICES ASSUME Working, NEW r \in Rooms, rooms[r].compacting
               PROVE  LET k == rooms[r].compactConn
                          Holds(frames, type) == \E j \in DOMAIN frames : frames[j].type = type
                      IN  /\ k \in rooms[r].conns
                          /\ \/ conn[k].done \/ conn[k].closed
                             \/ conn[k].tab \notin mayWrite
                             \/ \A t \in Tabs : tab[t].conn # k
                             \/ Holds(conn[k].out, "snapshotRequest")
                             \/ Holds(conn[k].inq, "snapshot")
    BY DEF CompactionGoesOn
  <2>1. PICK k \in Conns : /\ rooms[r].compactConn = k
                           /\ k \in rooms[r].conns /\ AtWork(k)
    BY DEF Working, Compacting, AtWorkOn
  <2>2. /\ DOMAIN conn[k].out = 1 .. Len(conn[k].out)
        /\ DOMAIN conn[k].inq = 1 .. Len(conn[k].inq)
    <3>1. conn[k] \in ConnType
      BY WorkingFacts
    <3> QED BY <3>1, OutType, InqType, LenProperties
  <2> QED BY <2>1, <2>2 DEF AtWork, Owned, Told, Has
<1> QED BY <1>1, <1>2, <1>3, PTL DEF Spec

-----------------------------------------------------------------------------
(* Nothing is anywhere that was not committed or is not on its way, as     *)
(* long as the disk does as it is told.                                    *)

\* All of D is in S or in one of the first j - 1 frames of q.
Sends(q, j, D, S) == \A u \in D : u \in S \/ Brings(q, j, u)

\* The updates of q are in S, its snapshots in S and the updates before them.
UpdatesIn(q, S) == \A i \in 1 .. Len(q) : q[i].type = "update" => q[i].doc \subseteq S
SnapshotsIn(q, S) ==
  \A j \in 1 .. Len(q) : q[j].type = "snapshot" => Sends(q, j, q[j].doc, S)

\* A snapshot is asked for behind the end of the replay.
AskedLast(q) ==
  \A i, j \in 1 .. Len(q) : q[i].type = "snapshotRequest" /\ q[j].type = "synced" => j < i

\* A tab that is not told of a sync yet has nothing of its own.
TabIn(T, S) ==
  /\ T.seed => T.everSynced
  /\ ~T.everSynced => T.doc \subseteq S

\* What the tab at the other end holds, the server hears from it.
Speaks(c) ==
  /\ c.st = "open" /\ ~c.closed /\ ~Has(c.out, "synced")
  /\ ~c.done \/ Has(c.out, "snapshotRequest")

\* What a connection carries comes from S, or from the tab at its other end.
Sound(c, S) ==
  /\ UpdatesIn(c.out, S) /\ AskedLast(c.out)
  /\ c.tab \in mayWrite => SnapshotsIn(c.inq, S)
  /\ c.closed => c.done

\* What t holds was committed, or is on its way to the server.
Heard(t) ==
  tab[t].conn # Nil /\ t \in mayWrite /\ Speaks(conn[tab[t].conn])
    => Sends(conn[tab[t].conn].inq, Len(conn[tab[t].conn].inq) + 1, tab[t].doc, stored)

Upper ==
  /\ Kept \subseteq stored
  /\ \A k \in Conns : Sound(conn[k], stored)
  /\ \A t \in Tabs : TabIn(tab[t], stored) /\ Heard(t)

UpperInv == used.disk = 0 => Upper

LEMMA SendsLonger ==
  ASSUME NEW q, NEW p, NEW m, Longer(p, q, m), NEW D, NEW S
  PROVE  /\ \A j \in 1 .. Len(q) + 1 : Sends(p, j, D, S) <=> Sends(q, j, D, S)
         /\ Sends(q, Len(q) + 1, D, S) => Sends(p, Len(p) + 1, D, S)
         /\ Sends(q, Len(q) + 1, D, S) /\ m.type = "update"
              => Sends(p, Len(p) + 1, D \cup m.doc, S)
BY BringsLonger DEF Sends

LEMMA SendsShorter ==
  ASSUME NEW q, NEW p, Shorter(p, q), NEW D, NEW S, NEW S2, S \subseteq S2,
         q[1].type = "update" => q[1].doc \subseteq S2
  PROVE  /\ \A j \in 1 .. Len(q) : Sends(q, j + 1, D, S) => Sends(p, j, D, S2)
         /\ Sends(q, Len(q) + 1, D, S) => Sends(p, Len(p) + 1, D, S2)
<1>1. \A j \in 1 .. Len(q) : Sends(q, j + 1, D, S) => Sends(p, j, D, S2)
  BY BringsShorter DEF Sends
<1>2. Len(q) \in 1 .. Len(q) /\ Len(q) = Len(p) + 1
  BY DEF Shorter
<1> QED BY <1>1, <1>2

LEMMA SnapshotsLonger ==
  ASSUME NEW q, NEW p, NEW m, Longer(p, q, m), NEW S, SnapshotsIn(q, S),
         m.type = "snapshot" => Sends(q, Len(q) + 1, m.doc, S)
  PROVE  SnapshotsIn(p, S)
<1> SUFFICES ASSUME NEW j \in 1 .. Len(p), p[j].type = "snapshot"
             PROVE  Sends(p, j, p[j].doc, S)
  BY DEF SnapshotsIn
<1>1. j \in 1 .. Len(q) + 1
  BY DEF Longer
<1>2. CASE j = Len(q) + 1
  <2>1. p[j] = m
    BY <1>2 DEF Longer
  <2> QED BY <1>1, <1>2, <2>1, SendsLonger
<1>3. CASE j # Len(q) + 1
  <2>1. j \in 1 .. Len(q) /\ p[j] = q[j]
    BY <1>1, <1>3 DEF Longer
  <2> QED BY <1>1, <2>1, SendsLonger DEF SnapshotsIn
<1> QED BY <1>2, <1>3

LEMMA SnapshotsShorter ==
  ASSUME NEW q, NEW p, Shorter(p, q), NEW S, NEW S2, S \subseteq S2, SnapshotsIn(q, S),
         q[1].type = "update" => q[1].doc \subseteq S2
  PROVE  SnapshotsIn(p, S2)
<1> SUFFICES ASSUME NEW j \in 1 .. Len(p), p[j].type = "snapshot"
             PROVE  Sends(p, j, p[j].doc, S2)
  BY DEF SnapshotsIn
<1>1. j \in 1 .. Len(q) /\ j + 1 \in 1 .. Len(q) /\ q[j + 1] = p[j]
  BY DEF Shorter
<1>2. Sends(q, j + 1, p[j].doc, S)
  BY <1>1 DEF SnapshotsIn
<1> QED BY <1>1, <1>2, SendsShorter

LEMMA OutLonger ==
  ASSUME NEW q, NEW p, NEW m, Longer(p, q, m), NEW S, NEW S2, S \subseteq S2,
         m.type = "update" => m.doc \subseteq S2, m.type # "synced"
  PROVE  /\ UpdatesIn(q, S) => UpdatesIn(p, S2)
         /\ AskedLast(q) => AskedLast(p)
<1>1. Len(q) \in Nat /\ \A i \in 1 .. Len(p) :
        \/ i \in 1 .. Len(q) /\ p[i] = q[i]
        \/ i = Len(q) + 1 /\ p[i] = m
  BY DEF Longer
<1>2. UpdatesIn(q, S) => UpdatesIn(p, S2)
  BY <1>1 DEF UpdatesIn
<1>3. ASSUME AskedLast(q), NEW i \in 1 .. Len(p), NEW j \in 1 .. Len(p),
             p[i].type = "snapshotRequest", p[j].type = "synced"
      PROVE  j < i
  <2>1. j \in 1 .. Len(q) /\ p[j] = q[j]
    BY <1>1, <1>3
  <2> QED BY <1>1, <1>3, <2>1 DEF AskedLast
<1> QED BY <1>2, <1>3 DEF AskedLast

LEMMA OutShorter ==
  ASSUME NEW q, NEW p, Shorter(p, q), NEW S
  PROVE  /\ UpdatesIn(q, S) => UpdatesIn(p, S) /\ (q[1].type = "update" => q[1].doc \subseteq S)
         /\ AskedLast(q) =>
              /\ AskedLast(p)
              /\ q[1].type = "snapshotRequest" => ~Has(q, "synced")
<1>1. /\ \A i \in 1 .. Len(p) : i + 1 \in 1 .. Len(q) /\ q[i + 1] = p[i]
      /\ 1 \in 1 .. Len(q)
  BY DEF Shorter
<1>2. \A i \in 1 .. Len(q) : ~(i < 1)
  OBVIOUS
<1>3. \A i, j \in 1 .. Len(p) : j + 1 < i + 1 => j < i
  OBVIOUS
<1>4. UpdatesIn(q, S) => UpdatesIn(p, S) /\ (q[1].type = "update" => q[1].doc \subseteq S)
  BY <1>1 DEF UpdatesIn
<1>5. ASSUME AskedLast(q) PROVE AskedLast(p)
  BY <1>1, <1>3, <1>5 DEF AskedLast
<1>6. ASSUME AskedLast(q), q[1].type = "snapshotRequest" PROVE ~Has(q, "synced")
  BY <1>1, <1>2, <1>6 DEF AskedLast, Has
<1> QED BY <1>4, <1>5, <1>6

(* Steps that put nothing in a queue and take nothing out of one.          *)
Silent(d, c) ==
  /\ d.tab = c.tab /\ d.out = c.out /\ d.inq = c.inq
  /\ (c.closed => c.done) => (d.closed => d.done)
  /\ Speaks(d) => Speaks(c)

LEMMA SilentOps ==
  ASSUME NEW c \in ConnType
  PROVE  /\ Silent(c, c) /\ Silent(Shutdown(c), c) /\ Silent(Cut(c), c)
         /\ c.done => Silent([c EXCEPT !.closed = TRUE], c)
         /\ Silent([c EXCEPT !.st = "refused"], c)
         /\ \A r : c.st # "open" => Silent([c EXCEPT !.st = "joined", !.room = r], c)
<1>1. Silent(c, c) /\ Silent(Shutdown(c), c) /\ Silent(Cut(c), c)
  BY DEF Silent, Speaks, Shutdown, Cut, ConnType
<1>2. c.done => Silent([c EXCEPT !.closed = TRUE], c)
  BY DEF Silent, Speaks, ConnType
<1>3. Silent([c EXCEPT !.st = "refused"], c)
  BY DEF Silent, Speaks, ConnType
<1>4. \A r : c.st # "open" => Silent([c EXCEPT !.st = "joined", !.room = r], c)
  BY DEF Silent, Speaks, ConnType
<1> QED BY <1>1, <1>2, <1>3, <1>4, Zenon

LEMMA EmptySound ==
  ASSUME NEW c, Empty(c), c.closed => c.done, NEW S
  PROVE  Sound(c, S)
<1>1. Len(c.out) = 0 /\ Len(c.inq) = 0
  BY DEF Empty
<1> QED BY <1>1 DEF Sound, UpdatesIn, AskedLast, SnapshotsIn

LEMMA SilentUpper ==
  ASSUME Upper, TypeInv, UNCHANGED stored, Kept' \subseteq stored, mayWrite' \subseteq mayWrite,
         \A k \in Conns : \/ Silent(conn'[k], conn[k])
                          \/ /\ Empty(conn'[k]) /\ (conn'[k].closed => conn'[k].done)
                             /\ conn'[k].st # "open",
         \A t \in Tabs : /\ TabIn(tab'[t], stored)
                         /\ \/ tab'[t].conn = Nil
                            \/ tab'[t].conn = tab[t].conn /\ tab'[t].doc = tab[t].doc
                            \/ conn'[tab'[t].conn].st # "open"
  PROVE  Upper'
<1>1. ASSUME NEW k \in Conns
      PROVE  /\ UpdatesIn(conn'[k].out, stored) /\ AskedLast(conn'[k].out)
             /\ conn'[k].tab \in mayWrite' => SnapshotsIn(conn'[k].inq, stored)
             /\ conn'[k].closed => conn'[k].done
  <2>1. CASE Silent(conn'[k], conn[k])
    BY <2>1 DEF Upper, Sound, Silent
  <2>2. CASE Empty(conn'[k]) /\ (conn'[k].closed => conn'[k].done)
    <3>1. Len(conn'[k].out) = 0 /\ Len(conn'[k].inq) = 0
      BY <2>2 DEF Empty
    <3> QED BY <2>2, <3>1 DEF UpdatesIn, AskedLast, SnapshotsIn
  <2> QED BY <2>1, <2>2
<1>2. ASSUME NEW t \in Tabs, tab'[t].conn # Nil, t \in mayWrite', Speaks(conn'[tab'[t].conn])
      PROVE  Sends(conn'[tab'[t].conn].inq, Len(conn'[tab'[t].conn].inq) + 1,
                   tab'[t].doc, stored)
  <2>1. conn'[tab'[t].conn].st = "open"
    BY <1>2 DEF Speaks
  <2>2. tab'[t].conn = tab[t].conn /\ tab'[t].doc = tab[t].doc /\ tab[t].conn \in Conns
    BY <1>2, <2>1, LinkType
  <2>3. Silent(conn'[tab[t].conn], conn[tab[t].conn])
    BY <2>1, <2>2
  <2> QED BY <1>2, <2>2, <2>3 DEF Silent, Upper, Heard
<1> QED BY <1>1, <1>2 DEF Upper, Sound, Heard

LEMMA KeptSame ==
  ASSUME UNCHANGED <<yjsState, yjsUpdates>>
  PROVE  Kept' = Kept
BY DEF Kept, Merged

LEMMA SilentServer ==
  ASSUME QPlus, Upper, NEW k \in Conns,
         \/ RefuseStale(k) \/ CloseSocket(k) \/ NetDrop(k) \/ PeerGone(k) \/ Recheck(k)
         \/ Join(k) \/ Leave(k)
  PROVE  Upper'
<1>0. TypeInv /\ conn \in [Conns -> ConnType]
  BY DEF QPlus, TypeInv, TypeOK
<1>1. UNCHANGED <<tab, stored, yjsState, yjsUpdates, mayWrite>>
  BY DEF RefuseStale, CloseSocket, NetDrop, PeerGone, Recheck, Join, Leave, dbVars
<1>2. Kept' \subseteq stored
  BY <1>1, KeptSame DEF Upper
<1>3. \A j \in Conns \ {k} : conn'[j] = conn[j]
  BY <1>0 DEF RefuseStale, CloseSocket, NetDrop, PeerGone, Recheck, Join, Leave
<1>4. \/ Silent(conn'[k], conn[k])
      \/ /\ Empty(conn'[k]) /\ (conn'[k].closed => conn'[k].done)
         /\ conn'[k].st # "open"
  <2>1. CASE RefuseStale(k)
    <3>1. conn'[k] = [conn[k] EXCEPT !.st = "refused"]
      BY <1>0, <2>1 DEF RefuseStale
    <3> QED BY <1>0, <3>1, SilentOps, Zenon
  <2>2. CASE CloseSocket(k)
    <3>1. conn'[k] = [conn[k] EXCEPT !.closed = TRUE] /\ conn[k].done
      BY <1>0, <2>2 DEF CloseSocket
    <3> QED BY <1>0, <3>1, SilentOps, Zenon
  <2>3. CASE NetDrop(k) \/ PeerGone(k) \/ Recheck(k)
    <3>1. conn'[k] = Cut(conn[k]) \/ conn'[k] = Shutdown(conn[k])
      BY <1>0, <2>3 DEF NetDrop, PeerGone, Recheck
    <3> QED BY <1>0, <3>1, SilentOps, Zenon
  <2>4. CASE Join(k)
    <3>1. PICK r \in Rooms : conn' = [conn EXCEPT ![k].st = "joined", ![k].room = r]
      BY <2>4 DEF Join
    <3>2. conn'[k] = [conn[k] EXCEPT !.st = "joined", !.room = r] /\ conn[k].st # "open"
      BY <1>0, <2>4, <3>1, Zenon DEF Join
    <3>3. Silent([conn[k] EXCEPT !.st = "joined", !.room = r], conn[k])
      BY <1>0, <3>2, SilentOps, Zenon
    <3> QED BY <3>2, <3>3
  <2>5. CASE Leave(k)
    <3>1. PICK code : conn'[k] = Released(k, code)
      BY <1>0, <2>5 DEF Leave
    <3>2. Released(k, code).closed => Released(k, code).done
      BY DEF Released, FreeConn
    <3>3. Empty(Released(k, code)) /\ Released(k, code).st # "open"
      BY ReleasedEmpty
    <3> QED BY <3>1, <3>2, <3>3
  <2> QED BY <2>1, <2>2, <2>3, <2>4, <2>5
<1>5. \A j \in Conns : \/ Silent(conn'[j], conn[j])
                       \/ /\ Empty(conn'[j]) /\ (conn'[j].closed => conn'[j].done)
                          /\ conn'[j].st # "open"
  BY <1>0, <1>3, <1>4, SilentOps, Zenon
<1> QED BY <1>0, <1>1, <1>2, <1>5, SilentUpper DEF Upper

LEMMA SilentMemory ==
  ASSUME QPlus, Upper, LosesMemory, UNCHANGED <<tab, stored, mayWrite>>, Kept' \subseteq stored
  PROVE  Upper'
<1>0. TypeInv /\ conn \in [Conns -> ConnType]
  BY DEF QPlus, TypeInv, TypeOK
<1>1. \A k \in Conns : conn'[k] = IF InServer(k) THEN Released(k, "other") ELSE conn[k]
  BY DEF LosesMemory
<1>2. \A k \in Conns : Released(k, "other").closed => Released(k, "other").done
  BY DEF Released, FreeConn
<1>3. \A j \in Conns : \/ Silent(conn'[j], conn[j])
                       \/ /\ Empty(conn'[j]) /\ (conn'[j].closed => conn'[j].done)
                          /\ conn'[j].st # "open"
  <2> SUFFICES ASSUME NEW j \in Conns
               PROVE  \/ Silent(conn'[j], conn[j])
                      \/ /\ Empty(conn'[j]) /\ (conn'[j].closed => conn'[j].done)
                         /\ conn'[j].st # "open"
    OBVIOUS
  <2>1. CASE InServer(j)
    <3>1. conn'[j] = Released(j, "other")
      BY <1>1, <2>1
    <3>2. Empty(Released(j, "other")) /\ Released(j, "other").st # "open"
      BY ReleasedEmpty
    <3> QED BY <1>2, <3>1, <3>2
  <2>2. CASE ~InServer(j)
    BY <1>0, <1>1, <2>2, SilentOps, Zenon
  <2> QED BY <2>1, <2>2
<1> QED BY <1>0, <1>3, SilentUpper DEF Upper

LEMMA SilentTab ==
  ASSUME QPlus, Upper, NEW t \in Tabs,
         \/ Mount(t) \/ OnClose(t) \/ Abandon(t) \/ CloseTab(t) \/ EndAccess(t)
         \/ \E k \in Conns : Dial(t, k)
         \/ Seed(t) /\ UNCHANGED conn /\ tab' = [tab EXCEPT ![t].seed = FALSE]
  PROVE  Upper'
<1>0. TypeInv /\ conn \in [Conns -> ConnType] /\ tab \in [Tabs -> TabType]
  BY DEF QPlus, TypeInv, TypeOK
<1>1. UNCHANGED <<stored, yjsState, yjsUpdates>> /\ mayWrite' \subseteq mayWrite
  BY DEF Mount, OnClose, Abandon, CloseTab, EndAccess, LosesWrite, LosesRead, Dial, Seed, dbVars
<1>2. Kept' \subseteq stored
  BY <1>1, KeptSame DEF Upper
<1>3. Empty(FreeConn) /\ (FreeConn.closed => FreeConn.done) /\ FreeConn.st # "open"
  BY DEF Empty, FreeConn
<1>4. ASSUME NEW j \in Conns
      PROVE  \/ Silent(conn'[j], conn[j])
             \/ /\ Empty(conn'[j]) /\ (conn'[j].closed => conn'[j].done)
                /\ conn'[j].st # "open"
  <2>1. CASE Mount(t) \/ OnClose(t) \/ Abandon(t) \/ CloseTab(t) \/ UNCHANGED conn
    <3>1. conn'[j] = conn[j] \/ conn'[j] = FreeConn
      BY <1>0, <2>1 DEF Mount, OnClose, Abandon, CloseTab, LetGo
    <3> QED BY <1>0, <1>3, <3>1, SilentOps, Zenon
  <2>2. CASE EndAccess(t)
    <3>1. conn'[j] = conn[j] \/ conn'[j] = Shutdown(conn[j])
      BY <1>0, <2>2 DEF EndAccess, LosesWrite, LosesRead
    <3> QED BY <1>0, <3>1, SilentOps, Zenon
  <2>3. ASSUME NEW k \in Conns, Dial(t, k)
        PROVE  \/ Silent(conn'[j], conn[j])
               \/ /\ Empty(conn'[j]) /\ (conn'[j].closed => conn'[j].done)
                  /\ conn'[j].st # "open"
    <3>1. CASE j = k
      <4>1. conn'[j] = [FreeConn EXCEPT !.st = "accepted", !.tab = t, !.gen = tab[t].gen,
                                  !.cap = outBuffer + Len(yjsUpdates)]
        BY <1>0, <2>3, <3>1 DEF Dial
      <4>2. Empty(conn'[j]) /\ ~conn'[j].closed /\ conn'[j].st = "accepted"
        BY <4>1 DEF Empty, FreeConn
      <4> QED BY <4>2
    <3>2. CASE j # k
      <4>1. conn'[j] = conn[j]
        BY <1>0, <2>3, <3>2 DEF Dial
      <4> QED BY <1>0, <4>1, SilentOps, Zenon
    <3> QED BY <3>1, <3>2
  <2> QED BY <2>1, <2>2, <2>3
<1>5. ASSUME NEW u \in Tabs
      PROVE  /\ TabIn(tab'[u], stored)
             /\ \/ tab'[u].conn = Nil
                \/ tab'[u].conn = tab[u].conn /\ tab'[u].doc = tab[u].doc
                \/ conn'[tab'[u].conn].st # "open"
  <2>1. TabIn(tab[u], stored)
    BY DEF Upper
  <2>2. CASE tab'[u] = tab[u]
    BY <2>1, <2>2
  <2>3. CASE u = t /\ (Mount(t) \/ OnClose(t) \/ Abandon(t) \/ CloseTab(t))
    <3>1. \/ tab'[u] = NewTab(docGen) \/ tab'[u] = ClosedTab
          \/ tab'[u] = [tab[u] EXCEPT !.conn = Nil]
      BY <1>0, <2>3 DEF Mount, OnClose, Abandon, CloseTab
    <3> QED BY <1>0, <2>1, <3>1 DEF TabIn, NewTab, ClosedTab, TabType
  <2>4. ASSUME u = t, NEW k \in Conns, Dial(t, k)
        PROVE  /\ TabIn(tab'[u], stored)
               /\ \/ tab'[u].conn = Nil
                  \/ tab'[u].conn = tab[u].conn /\ tab'[u].doc = tab[u].doc
                  \/ conn'[tab'[u].conn].st # "open"
    <3>1. tab'[u] = [tab[u] EXCEPT !.conn = k]
      BY <1>0, <2>4 DEF Dial
    <3>2. conn'[k] = [FreeConn EXCEPT !.st = "accepted", !.tab = t, !.gen = tab[t].gen,
                                  !.cap = outBuffer + Len(yjsUpdates)]
      BY <1>0, <2>4 DEF Dial
    <3>3. conn'[k].st = "accepted"
      BY <3>2 DEF FreeConn
    <3> QED BY <1>0, <2>1, <3>1, <3>3 DEF TabIn, TabType
  <2>5. CASE u = t /\ tab' = [tab EXCEPT ![t].seed = FALSE]
    <3>1. tab'[u] = [tab[u] EXCEPT !.seed = FALSE]
      BY <1>0, <2>5
    <3> QED BY <1>0, <2>1, <3>1 DEF TabIn, TabType
  <2>6. \/ tab'[u] = tab[u] \/ u = t
    BY <1>0 DEF Mount, OnClose, Abandon, CloseTab, EndAccess, LosesWrite, LosesRead, Dial
  <2>7. EndAccess(t) => tab'[u] = tab[u]
    BY DEF EndAccess, LosesWrite, LosesRead
  <2> QED BY <2>2, <2>3, <2>4, <2>5, <2>6, <2>7
<1> QED BY <1>0, <1>1, <1>2, <1>4, <1>5, SilentUpper

(* The server takes the oldest frame of a connection.                      *)
LEMMA TakenUpper ==
  ASSUME QPlus, Upper, NEW k \in Conns, UNCHANGED <<tab, stored, mayWrite>>,
         Kept' \subseteq stored, conn[k].inq # <<>>,
         conn' = [conn EXCEPT ![k] = Taken(@)],
         Head(conn[k].inq).type = "update" /\ conn[k].tab \in mayWrite
           => Head(conn[k].inq).doc \subseteq stored
  PROVE  Upper'
<1> DEFINE c == conn[k]
           d == conn'[k]
<1>0. /\ TypeInv /\ Owners /\ conn \in [Conns -> ConnType] /\ c \in ConnType
      /\ c.inq \in Seq(InFrames)
  BY LinksOwners, InqType DEF QPlus, TypeInv, TypeOK
<1>1. Shorter(Tail(c.inq), c.inq) /\ Head(c.inq) = c.inq[1]
  BY <1>0, TailShorter
<1>2. /\ d.inq = Tail(c.inq) /\ d.out = c.out /\ d.tab = c.tab /\ d.st = c.st
      /\ d.done = c.done /\ d.closed = c.closed
  <2>1. d = Taken(c)
    BY <1>0
  <2> QED BY <1>0, <2>1 DEF Taken, ConnType
<1>3. \A j \in Conns \ {k} : conn'[j] = conn[j]
  BY <1>0
<1>4. c.inq[1].type = "update" /\ c.tab \in mayWrite => c.inq[1].doc \subseteq stored
  BY <1>1
<1>5. Sound(c, stored)
  BY DEF Upper
<1> HIDE DEF c, d
<1>6. /\ UpdatesIn(d.out, stored) /\ AskedLast(d.out)
      /\ d.tab \in mayWrite' => SnapshotsIn(d.inq, stored)
      /\ d.closed => d.done
  BY <1>1, <1>2, <1>4, <1>5, SnapshotsShorter DEF Sound
<1>7. ASSUME NEW t \in Tabs, tab'[t].conn # Nil, t \in mayWrite', Speaks(conn'[tab'[t].conn])
      PROVE  Sends(conn'[tab'[t].conn].inq, Len(conn'[tab'[t].conn].inq) + 1,
                   tab'[t].doc, stored)
  <2>1. tab[t].conn \in Conns /\ tab' = tab
    BY <1>0, <1>7, LinkType
  <2>2. CASE tab[t].conn = k
    <3>1. c.tab = t /\ Speaks(c)
      BY <1>0, <1>2, <1>7, <2>1, <2>2 DEF Owners, Speaks, c, d
    <3>2. Sends(c.inq, Len(c.inq) + 1, tab[t].doc, stored)
      BY <1>7, <2>1, <2>2, <3>1 DEF Upper, Heard, c
    <3>3. Sends(d.inq, Len(d.inq) + 1, tab[t].doc, stored)
      <4>1. c.inq[1].type = "update" => c.inq[1].doc \subseteq stored
        <5>1. t \in mayWrite
          BY <1>7
        <5> QED BY <1>4, <3>1, <5>1
      <4>2. Shorter(d.inq, c.inq)
        BY <1>1, <1>2
      <4> QED BY <3>2, <4>1, <4>2, SendsShorter
    <3> QED BY <2>1, <2>2, <3>3 DEF d
  <2>3. CASE tab[t].conn # k
    BY <1>3, <1>7, <2>1, <2>3 DEF Upper, Heard
  <2> QED BY <2>2, <2>3
<1>8. (\A j \in Conns : Sound(conn[j], stored))'
  BY <1>3, <1>6 DEF Upper, Sound, d
<1> QED BY <1>7, <1>8 DEF Upper, Sound, Heard, TabIn

LEMMA DropUpper ==
  ASSUME QPlus, Upper, NEW k \in Conns, DropFrame(k)
  PROVE  Upper'
<1>0. TypeInv /\ AllInHub
  BY DEF QPlus
<1>1. /\ UNCHANGED <<tab, stored, mayWrite, yjsState, yjsUpdates>>
      /\ conn' = [conn EXCEPT ![k] = Taken(@)] /\ conn[k].inq # <<>> /\ conn[k].st = "open"
  BY DEF DropFrame, Reads, dbVars
<1>2. Kept' \subseteq stored
  BY <1>1, KeptSame DEF Upper
<1>3. IsMember(k)
  BY <1>0, <1>1 DEF AllInHub, InRoom, IsMember
<1>4. Head(conn[k].inq).type = "update" => conn[k].tab \notin mayWrite
  BY <1>3 DEF DropFrame, Reads
<1> QED BY <1>1, <1>2, <1>4, TakenUpper

\* The number of an INSERT is free, so one that fails is a fault of the disk.
LEMMA FailsUpper ==
  ASSUME QPlus, NEW k \in Conns, PersistFails(k)
  PROVE  used'.disk # 0
<1>0. TypeInv /\ AllInHub /\ Counted
  BY DEF QPlus
<1>1. conn[k].st = "open" /\ InRoom(k)
  BY DEF PersistFails, Reads, InRoom
<1>2. conn[k].room = hub /\ hub \in Rooms /\ rooms[hub].loaded
  BY <1>0, <1>1, HubOfOpen DEF Counted
<1>3. rooms[hub].seq \in Nat /\ RowsWithin(rooms[hub].seq)
  BY <1>0, <1>2 DEF Counted
<1>4. ~HasSeq(rooms[hub].seq + 1)
  <2> SUFFICES ASSUME NEW i \in DOMAIN yjsUpdates, yjsUpdates[i].seq = rooms[hub].seq + 1
               PROVE  FALSE
    BY DEF HasSeq
  <2>1. yjsUpdates[i].seq <= rooms[hub].seq
    BY <1>0, <1>3, LogFacts DEF RowsWithin
  <2> QED BY <1>3, <2>1
<1>5. DiskFault
  BY <1>2, <1>4 DEF PersistFails
<1> QED BY <1>0, <1>5 DEF DiskFault, TypeInv, TypeOK

LEMMA GivesUpUpper ==
  ASSUME QPlus, Upper, NEW k \in Conns, SnapshotFails(k)
  PROVE  Upper'
<1>1. /\ UNCHANGED <<tab, stored, mayWrite, yjsState, yjsUpdates>>
      /\ conn' = [conn EXCEPT ![k] = Taken(@)] /\ conn[k].inq # <<>>
      /\ Head(conn[k].inq).type = "snapshot"
  BY DEF SnapshotFails, Compacts, Reads, dbVars
<1>2. Kept' \subseteq stored
  BY <1>1, KeptSame DEF Upper
<1> QED BY <1>1, <1>2, TakenUpper

\* A snapshot holds nothing that was not committed when it is read.
LEMMA SnapshotIn ==
  ASSUME QPlus, Upper, NEW k \in Conns, Compacts(k)
  PROVE  Head(conn[k].inq).doc \subseteq stored
<1>1. /\ TypeInv /\ conn[k] \in ConnType /\ conn[k].inq # <<>>
      /\ Head(conn[k].inq).type = "snapshot" /\ conn[k].tab \in mayWrite
  BY DEF QPlus, TypeInv, TypeOK, Compacts, Reads
<1>2. Head(conn[k].inq) = conn[k].inq[1] /\ 1 \in 1 .. Len(conn[k].inq)
  BY <1>1, InqType, TailShorter DEF Shorter
<1>3. Sends(conn[k].inq, 1, conn[k].inq[1].doc, stored)
  BY <1>1, <1>2 DEF Upper, Sound, SnapshotsIn
<1> QED BY <1>2, <1>3 DEF Sends, Brings

LEMMA SnapshotUpper ==
  ASSUME QPlus, Upper, TypeInv', NEW k \in Conns, ApplySnapshot(k) \/ CrashInSnapshot(k)
  PROVE  Upper'
<1> DEFINE m == Head(conn[k].inq)
<1>0. TypeInv /\ Compacts(k)
  BY DEF QPlus, ApplySnapshot, CrashInSnapshot
<1>1. m.doc \subseteq stored /\ m.seq \in Nat
  BY <1>0, SnapshotIn, AnswersFor
<1>2. /\ yjsState' = [have |-> TRUE, seq |-> m.seq, doc |-> m.doc]
      /\ yjsUpdates' = LogAfter(m.seq) \/ yjsUpdates' = yjsUpdates
      /\ yjsUpdates' \in Seq(RowType) /\ UNCHANGED <<tab, stored, mayWrite>>
  BY DEF ApplySnapshot, CrashInSnapshot, TypeInv, TypeOK
<1>3. conn[k].inq # <<>> /\ m.type = "snapshot"
  BY <1>0 DEF Compacts, Reads
<1> HIDE DEF m
<1>4. \A u : u \in Kept' <=> u \in yjsState'.doc \/ InLog(yjsUpdates', u)
  BY <1>2, MergedIs DEF Kept
<1>5. \A u : InLog(yjsUpdates', u) => InLog(yjsUpdates, u)
  BY <1>0, <1>1, <1>2, LeavesNoMore
<1>6. \A u : InLog(yjsUpdates, u) => u \in stored
  BY <1>0, KeptIs DEF Upper
<1>7. Kept' \subseteq stored
  BY <1>1, <1>2, <1>4, <1>5, <1>6
<1>8. CASE ApplySnapshot(k)
  <2>1. conn' = [conn EXCEPT ![k] = Taken(@)]
    BY <1>8 DEF ApplySnapshot
  <2> QED BY <1>2, <1>3, <1>7, <2>1, TakenUpper DEF m
<1>9. CASE CrashInSnapshot(k)
  <2>1. LosesMemory
    BY <1>9 DEF CrashInSnapshot
  <2> QED BY <1>2, <1>7, <2>1, SilentMemory
<1> QED BY <1>8, <1>9

(* Somebody types, or the editor seeds the document.                       *)
LEMMA MakesUpper ==
  ASSUME QPlus, Upper, NEW t \in Tabs, Makes(t), tab[t].everSynced,
         UNCHANGED <<stored, yjsState, yjsUpdates, mayWrite>>
  PROVE  Upper'
<1> DEFINE m == Update({edits + 1})
           k == tab[t].conn
<1>0. TypeInv /\ Owners
  BY LinksOwners DEF QPlus
<1>1. /\ \A u \in Tabs \ {t} : tab'[u] = tab[u]
      /\ tab'[t].conn = tab[t].conn /\ tab'[t].doc = tab[t].doc \cup m.doc
      /\ tab'[t].everSynced /\ ~tab'[t].seed
      /\ \A j \in Conns : j # k => conn'[j] = conn[j]
      /\ k # Nil => IF conn[k].closed THEN conn'[k] = conn[k]
                    ELSE /\ SameButQueues(conn'[k], conn[k]) /\ conn'[k].out = conn[k].out
                         /\ Longer(conn'[k].inq, conn[k].inq, m)
  <2>1. m.doc = {edits + 1}
    BY DEF Update
  <2> QED BY <1>0, <2>1, MakesEffect
<1>2. m.type = "update"
  BY DEF Update
<1> HIDE DEF m, k
<1>3. Kept' \subseteq stored
  BY KeptSame DEF Upper
<1>4. ASSUME NEW j \in Conns
      PROVE  /\ UpdatesIn(conn'[j].out, stored) /\ AskedLast(conn'[j].out)
             /\ conn'[j].tab \in mayWrite => SnapshotsIn(conn'[j].inq, stored)
             /\ conn'[j].closed => conn'[j].done
  <2>1. Sound(conn[j], stored) /\ j # Nil
    BY CollabAssumption DEF Upper
  <2>2. CASE conn'[j] = conn[j]
    BY <2>1, <2>2 DEF Sound
  <2>3. CASE /\ SameButQueues(conn'[j], conn[j]) /\ conn'[j].out = conn[j].out
             /\ Longer(conn'[j].inq, conn[j].inq, m)
    BY <1>2, <2>1, <2>3, SnapshotsLonger DEF Sound, SameButQueues
  <2> QED BY <1>1, <2>1, <2>2, <2>3
<1>5. ASSUME NEW u \in Tabs, tab'[u].conn # Nil, u \in mayWrite', Speaks(conn'[tab'[u].conn])
      PROVE  Sends(conn'[tab'[u].conn].inq, Len(conn'[tab'[u].conn].inq) + 1,
                   tab'[u].doc, stored)
  <2>1. CASE u # t
    <3>1. tab'[u] = tab[u] /\ tab[u].conn \in Conns /\ tab[u].conn # k
      BY <1>0, <1>1, <1>5, <2>1, LinkType DEF Owners, k
    <3> QED BY <1>1, <1>5, <3>1 DEF Upper, Heard
  <2>2. CASE u = t
    <3>1. tab'[u].conn = k /\ k # Nil /\ k = tab[t].conn
      BY <1>1, <1>5, <2>2 DEF k
    <3>2. /\ ~conn[k].closed /\ Speaks(conn[k]) /\ Longer(conn'[k].inq, conn[k].inq, m)
      BY <1>1, <1>5, <3>1 DEF Speaks, SameButQueues
    <3>3. Sends(conn[k].inq, Len(conn[k].inq) + 1, tab[t].doc, stored)
      BY <1>5, <2>2, <3>1, <3>2 DEF Upper, Heard
    <3>4. Sends(conn'[k].inq, Len(conn'[k].inq) + 1, tab[t].doc \cup m.doc, stored)
      BY <1>2, <3>2, <3>3, SendsLonger
    <3> QED BY <1>1, <2>2, <3>1, <3>4
  <2> QED BY <2>1, <2>2
<1>6. \A u \in Tabs : TabIn(tab'[u], stored)
  BY <1>1 DEF Upper, TabIn
<1> QED BY <1>3, <1>4, <1>5, <1>6 DEF Upper, Sound, Heard

(* A tab reads a frame.                                                    *)
LEMMA RecvUpper ==
  ASSUME QPlus, Upper, NEW k \in Conns, Recv(k)
  PROVE  Upper'
<1> DEFINE c == conn[k]
           d == conn'[k]
           m == conn[k].out[1]
<1>0. TypeInv /\ Owners /\ AskState
  BY LinksOwners DEF QPlus
<1>1. UNCHANGED <<stored, yjsState, yjsUpdates, mayWrite>> /\ Kept' \subseteq stored
  BY KeptSame DEF Recv, dbVars, Upper
<1>2. /\ \A j \in Conns \ {k} : conn'[j] = conn[j]
      /\ SameButQueues(d, c) /\ ~c.closed /\ Shorter(d.out, c.out)
      /\ \/ UNCHANGED tab /\ d.inq = c.inq /\ \A t \in Tabs : tab[t].conn # k
         \/ \E t \in Tabs :
                 /\ tab[t].conn = k
                 /\ \A u \in Tabs \ {t} : tab'[u] = tab[u] /\ tab[u].conn # k
                 /\ Handles(tab'[t], tab[t], d, c)
  BY <1>0, RecvEffect
<1>3. Sound(c, stored) /\ m = c.out[1]
  BY DEF Upper
<1>4. Has(c.out, "snapshotRequest") => c.st = "open"
  BY <1>0 DEF AskState, NoAsk, Busy
<1>5. \A type : Has(c.out, type) <=> m.type = type \/ Has(d.out, type)
  <2> HIDE DEF c, d, m
  <2> QED BY <1>2, <1>3, HasShorter
<1> HIDE DEF c, d, m
<1>6. /\ UpdatesIn(d.out, stored) /\ AskedLast(d.out)
      /\ m.type = "update" => m.doc \subseteq stored
      /\ m.type = "snapshotRequest" => ~Has(c.out, "synced")
  BY <1>2, <1>3, OutShorter DEF Sound
<1>7. ASSUME NEW u \in Tabs, tab'[u] = tab[u], tab[u].conn # k
      PROVE  TabIn(tab'[u], stored) /\ Heard(u)'
  <2>1. tab[u].conn # Nil => tab[u].conn \in Conns \ {k}
    BY <1>0, <1>7, LinkType
  <2>2. TabIn(tab[u], stored) /\ Heard(u)
    BY DEF Upper
  <2>3. Heard(u)'
    BY <1>1, <1>2, <1>7, <2>1, <2>2 DEF Heard
  <2> QED BY <1>7, <2>2, <2>3
<1>8. ASSUME c.tab \in mayWrite => SnapshotsIn(d.inq, stored)
      PROVE  (\A j \in Conns : Sound(conn[j], stored))'
  <2>1. ASSUME NEW j \in Conns, j # k PROVE Sound(conn[j], stored)'
    BY <1>1, <1>2, <2>1 DEF Upper, Sound
  <2>2. Sound(conn[k], stored)'
    BY <1>1, <1>2, <1>3, <1>6, <1>8 DEF Sound, SameButQueues, d
  <2> QED BY <2>1, <2>2
<1>9. CASE UNCHANGED tab /\ d.inq = c.inq /\ \A t \in Tabs : tab[t].conn # k
  BY <1>1, <1>3, <1>7, <1>8, <1>9 DEF Upper, Sound
<1>10. ASSUME NEW t \in Tabs, tab[t].conn = k, Handles(tab'[t], tab[t], d, c),
              \A u \in Tabs \ {t} : tab'[u] = tab[u] /\ tab[u].conn # k
       PROVE  Upper'
  <2> DEFINE T == tab[t]
             T2 == tab'[t]
  <2>1. c.tab = t /\ k # Nil /\ TabIn(T, stored) /\ T2.conn = k
    BY <1>0, <1>10, CollabAssumption DEF Owners, Upper, Handles, c
  <2>2. t \in mayWrite /\ Speaks(c) => Sends(c.inq, Len(c.inq) + 1, T.doc, stored)
    BY <1>10, <2>1 DEF Upper, Heard, c
  <2>3. /\ T2.conn = T.conn
        /\ \/ /\ m.type = "hello" /\ d.inq = c.inq
              /\ T2.doc = T.doc /\ T2.everSynced = T.everSynced /\ T2.seed = T.seed
           \/ /\ m.type = "update" /\ d.inq = c.inq
              /\ T2.doc = T.doc \cup m.doc /\ T2.everSynced = T.everSynced
              /\ T2.seed = T.seed
           \/ /\ m.type = "synced" /\ T2.doc = T.doc /\ T2.everSynced
              /\ IF T.everSynced THEN Longer(d.inq, c.inq, Update(T.doc)) ELSE d.inq = c.inq
           \/ /\ m.type = "snapshotRequest" /\ T2 = T
              /\ Longer(d.inq, c.inq, Snapshot(m.seq, T.doc))
    BY <1>3, <1>10 DEF Handles
  <2>4. /\ Update(T.doc).type = "update" /\ Update(T.doc).doc = T.doc
        /\ Snapshot(m.seq, T.doc).type = "snapshot" /\ Snapshot(m.seq, T.doc).doc = T.doc
    BY DEF Update, Snapshot
  <2> HIDE DEF T, T2
  <2>5. m.type # "synced" /\ Speaks(d) => Speaks(c)
    BY <1>2, <1>5 DEF Speaks, SameButQueues
  <2>6. m.type = "snapshotRequest" => Speaks(c)
    BY <1>2, <1>4, <1>5, <1>6 DEF Speaks
  <2>7. /\ TabIn(T2, stored)
        /\ t \in mayWrite => SnapshotsIn(d.inq, stored)
        /\ t \in mayWrite /\ Speaks(d) => Sends(d.inq, Len(d.inq) + 1, T2.doc, stored)
    <3>1. t \in mayWrite => SnapshotsIn(c.inq, stored)
      BY <1>3, <2>1 DEF Sound
    <3>2. CASE m.type = "hello"
      BY <2>1, <2>2, <2>3, <2>5, <3>1, <3>2 DEF TabIn
    <3>3. CASE m.type = "update"
      <4>1. d.inq = c.inq /\ T2.doc = T.doc \cup m.doc /\ T2.everSynced = T.everSynced
            /\ T2.seed = T.seed /\ m.doc \subseteq stored
        BY <1>6, <2>3, <3>3
      <4>2. TabIn(T2, stored)
        BY <2>1, <4>1 DEF TabIn
      <4>3. t \in mayWrite /\ Speaks(d) => Sends(d.inq, Len(d.inq) + 1, T2.doc, stored)
        BY <2>2, <2>5, <3>3, <4>1 DEF Sends
      <4> QED BY <3>1, <4>1, <4>2, <4>3
    <3>4. CASE m.type = "synced"
      <4>1. T2.doc = T.doc /\ T2.everSynced
        BY <2>3, <3>4
      <4>2. CASE T.everSynced
        <5>1. Longer(d.inq, c.inq, Update(T.doc))
          BY <2>3, <3>4, <4>2
        <5>2. Sends(d.inq, Len(d.inq) + 1, T.doc, stored)
          BY <2>4, <5>1, BringsLonger DEF Sends
        <5>3. t \in mayWrite => SnapshotsIn(d.inq, stored)
          BY <2>4, <3>1, <5>1, SnapshotsLonger
        <5> QED BY <4>1, <5>2, <5>3 DEF TabIn
      <4>3. CASE ~T.everSynced
        <5>1. d.inq = c.inq /\ T.doc \subseteq stored
          BY <2>1, <2>3, <3>4, <4>3 DEF TabIn
        <5> QED BY <3>1, <4>1, <5>1 DEF TabIn, Sends
      <4> QED BY <4>2, <4>3
    <3>5. CASE m.type = "snapshotRequest"
      <4>1. T2 = T /\ Longer(d.inq, c.inq, Snapshot(m.seq, T.doc))
        BY <2>3, <3>5
      <4>2. t \in mayWrite => Sends(c.inq, Len(c.inq) + 1, T.doc, stored)
        BY <2>2, <2>6, <3>5
      <4>3. t \in mayWrite => SnapshotsIn(d.inq, stored)
        BY <2>4, <3>1, <4>1, <4>2, SnapshotsLonger
      <4>4. t \in mayWrite => Sends(d.inq, Len(d.inq) + 1, T.doc, stored)
        BY <4>1, <4>2, SendsLonger
      <4> QED BY <2>1, <4>1, <4>3, <4>4
    <3> QED BY <2>3, <3>2, <3>3, <3>4, <3>5
  <2>8. (\A j \in Conns : Sound(conn[j], stored))'
    BY <1>8, <2>1, <2>7
  <2>9. Heard(t)' /\ TabIn(tab'[t], stored')
    BY <1>1, <2>1, <2>7 DEF Heard, T2, d
  <2>10. \A u \in Tabs \ {t} : TabIn(tab'[u], stored') /\ Heard(u)'
    BY <1>1, <1>7, <1>10
  <2> QED BY <1>1, <2>8, <2>9, <2>10 DEF Upper
<1> QED BY <1>2, <1>9, <1>10

(* The replay of a join.                                                   *)
LEMMA LoadUpper ==
  ASSUME QPlus, Upper, NEW k \in Conns, Load(k)
  PROVE  Upper'
<1> DEFINE c == conn[k]
           d == conn'[k]
<1>0. TypeInv /\ AllInHub /\ AskState
  BY DEF QPlus
<1>1. UNCHANGED <<tab, stored, yjsState, yjsUpdates, mayWrite>> /\ Kept' \subseteq stored
  BY KeptSame DEF Load, dbVars, Upper
<1>2. /\ \A j \in Conns \ {k} : conn'[j] = conn[j]
      /\ c.st = "joined" /\ d.tab = c.tab /\ d.inq = c.inq
      /\ d.closed = c.closed /\ (c.done => d.done)
      /\ \E gs \in Seq(OutFrames) :
           /\ d.out = c.out \o gs
           /\ \A i \in 1 .. Len(gs) : /\ gs[i].type # "snapshotRequest"
                                      /\ gs[i].type = "update" => \A u \in gs[i].doc : u \in Kept
           /\ d.done \/ Has(gs, "synced")
  BY <1>0, LoadEffect
<1>3. Sound(c, stored) /\ c.out \in Seq(OutFrames) /\ NoAsk(c)
  BY <1>0, <1>2, OutType DEF Upper, TypeInv, TypeOK, AskState, Busy
<1> HIDE DEF c, d
<1>4. PICK gs \in Seq(OutFrames) :
        /\ d.out = c.out \o gs
        /\ \A i \in 1 .. Len(gs) : /\ gs[i].type # "snapshotRequest"
                                   /\ gs[i].type = "update" => \A u \in gs[i].doc : u \in Kept
        /\ d.done \/ Has(gs, "synced")
  BY <1>2
<1>5. ~Has(d.out, "snapshotRequest") /\ (d.done \/ Has(d.out, "synced"))
  <2>1. ~Has(gs, "snapshotRequest")
    BY <1>4 DEF Has
  <2> QED BY <1>3, <1>4, <2>1, ConcatEffect DEF NoAsk
<1>6. UpdatesIn(d.out, stored)
  <2> SUFFICES ASSUME NEW i \in 1 .. Len(d.out), d.out[i].type = "update"
               PROVE  d.out[i].doc \subseteq stored
    BY DEF UpdatesIn
  <2>1. /\ Len(c.out) \in Nat /\ Len(gs) \in Nat /\ Len(d.out) = Len(c.out) + Len(gs)
        /\ d.out[i] = IF i <= Len(c.out) THEN c.out[i] ELSE gs[i - Len(c.out)]
    BY <1>3, <1>4, ConcatProperties, LenProperties
  <2>2. CASE i <= Len(c.out)
    BY <1>3, <2>1, <2>2 DEF Sound, UpdatesIn
  <2>3. CASE ~(i <= Len(c.out))
    <3>1. i - Len(c.out) \in 1 .. Len(gs) /\ d.out[i] = gs[i - Len(c.out)]
      BY <2>1, <2>3
    <3> QED BY <1>4, <3>1 DEF Upper
  <2> QED BY <2>2, <2>3
<1>7. AskedLast(d.out) /\ ~Speaks(d)
  BY <1>5 DEF AskedLast, Has, Speaks
<1>8. Sound(conn[k], stored)'
  BY <1>1, <1>2, <1>3, <1>6, <1>7 DEF Sound, d
<1>9. ASSUME NEW j \in Conns, j # k PROVE Sound(conn[j], stored)'
  BY <1>1, <1>2, <1>9 DEF Upper, Sound
<1>10. ASSUME NEW t \in Tabs PROVE TabIn(tab'[t], stored') /\ Heard(t)'
  <2>1. TabIn(tab[t], stored) /\ Heard(t) /\ (tab[t].conn # Nil => tab[t].conn \in Conns)
    BY <1>0, LinkType DEF Upper
  <2>2. CASE tab[t].conn = k
    BY <1>1, <1>7, <2>1, <2>2 DEF Heard, d
  <2>3. CASE tab[t].conn # k
    BY <1>1, <1>2, <2>1, <2>3 DEF Heard
  <2> QED BY <2>2, <2>3
<1> QED BY <1>1, <1>8, <1>9, <1>10 DEF Upper

(* An update is committed and relayed.                                     *)
LEMMA RelayedUpper ==
  ASSUME NEW c, NEW d, NEW m, Relayed(d, c, m), NEW S, NEW S2, S \subseteq S2,
         m.type = "update" => m.doc \subseteq S2, m.type # "synced",
         UpdatesIn(c.out, S), AskedLast(c.out), c.closed => c.done
  PROVE  /\ UpdatesIn(d.out, S2) /\ AskedLast(d.out) /\ (d.closed => d.done)
         /\ (c.done /\ ~Has(c.out, "snapshotRequest") => ~Has(d.out, "snapshotRequest"))
            /\ (m.type = "snapshotRequest" \/ m.type = "update")
              => (Speaks(d) => Speaks(c))
<1>1. CASE Longer(d.out, c.out, m) /\ d.done = c.done
  <2>1. UpdatesIn(d.out, S2) /\ AskedLast(d.out)
    BY <1>1, OutLonger
  <2>2. \A type : Has(d.out, type) <=> Has(c.out, type) \/ m.type = type
    BY <1>1, HasLonger
  <2> QED BY <1>1, <2>1, <2>2 DEF Relayed, Speaks
<1>2. CASE d.out = c.out /\ d.done
  BY <1>2 DEF Relayed, Speaks, UpdatesIn
<1> QED BY <1>1, <1>2 DEF Relayed

LEMMA PersistUpper ==
  ASSUME QPlus, Upper, TypeInv', AsksTheLiving, NEW k \in Conns, PersistUpdate(k)
  PROVE  Upper'
<1> DEFINE R == rooms[hub]
           n == R.seq + 1
           c == conn[k]
           d == conn'[k]
           m == c.inq[1]
           row == [seq |-> n, doc |-> m.doc]
<1>0. TypeInv /\ AllInHub /\ Counted /\ Owners
  BY LinksOwners DEF QPlus
<1>1. /\ m.type = "update" /\ stored' = stored \cup m.doc
      /\ Longer(yjsUpdates', yjsUpdates, row)
      /\ Shorter(d.inq, c.inq)
      /\ IF Asks(R) THEN Relayed(d, c, SnapshotRequest(n))
            ELSE d.st = c.st /\ d.tab = c.tab /\ d.closed = c.closed /\ d.done = c.done
                 /\ d.out = c.out
      /\ \A j \in Conns \ {k} :
              /\ conn'[j].inq = conn[j].inq
              /\ IF j \in R.conns THEN Relayed(conn'[j], conn[j], m) ELSE conn'[j] = conn[j]
  BY <1>0, PersistEffect, Zenon
<1>2. UNCHANGED <<tab, mayWrite, yjsState>> /\ yjsUpdates' \in Seq(RowType)
  BY DEF PersistUpdate, TypeInv, TypeOK
<1>3. SnapshotRequest(n).type = "snapshotRequest" /\ row.doc = m.doc /\ m = c.inq[1]
  BY DEF SnapshotRequest
<1> HIDE DEF row, n, m, R
<1>4. Kept' \subseteq stored'
  <2>1. \A u : u \in Kept' <=> u \in yjsState'.doc \/ InLog(yjsUpdates', u)
    BY <1>2, MergedIs DEF Kept
  <2>2. \A u : u \in Kept <=> u \in yjsState.doc \/ InLog(yjsUpdates, u)
    BY <1>0, KeptIs
  <2>3. \A u : InLog(yjsUpdates', u) <=> InLog(yjsUpdates, u) \/ u \in m.doc
    BY <1>1, <1>3, AboveLonger
  <2> QED BY <1>1, <1>2, <2>1, <2>2, <2>3 DEF Upper
<1>5. ASSUME NEW j \in Conns
      PROVE  /\ UpdatesIn(conn'[j].out, stored') /\ AskedLast(conn'[j].out)
             /\ conn'[j].closed => conn'[j].done
             /\ conn'[j].tab = conn[j].tab
             /\ Speaks(conn'[j]) => Speaks(conn[j])
  <2>0. /\ UpdatesIn(conn[j].out, stored) /\ AskedLast(conn[j].out)
        /\ conn[j].closed => conn[j].done
        /\ UpdatesIn(conn[j].out, stored')
    BY <1>1 DEF Upper, Sound, UpdatesIn
  <2>1. conn[j].done /\ ~Has(conn[j].out, "snapshotRequest")
           => ~Has(conn'[j].out, "snapshotRequest")
    BY DEF AsksTheLiving
  <2>2. CASE Relayed(conn'[j], conn[j], m) \/ Relayed(conn'[j], conn[j], SnapshotRequest(n))
    <3>1. PICK f : Relayed(conn'[j], conn[j], f) /\ (f = m \/ f = SnapshotRequest(n))
      BY <2>2
    <3>2. /\ f.type = "update" => f.doc \subseteq stored'
          /\ f.type # "synced" /\ (f.type = "snapshotRequest" \/ f.type = "update")
      BY <1>1, <1>3, <3>1
    <3>3. conn'[j].tab = conn[j].tab
      BY <3>1 DEF Relayed
    <3> QED BY <1>1, <2>0, <2>1, <3>1, <3>2, <3>3, RelayedUpper
  <2>3. CASE /\ conn'[j].st = conn[j].st /\ conn'[j].tab = conn[j].tab
             /\ conn'[j].closed = conn[j].closed /\ conn'[j].done = conn[j].done
             /\ conn'[j].out = conn[j].out
    BY <2>0, <2>3 DEF Speaks
  <2> QED BY <1>1, <2>2, <2>3
<1>6. ASSUME NEW j \in Conns, conn[j].tab \in mayWrite
      PROVE  /\ SnapshotsIn(conn'[j].inq, stored')
             /\ \A D : Sends(conn[j].inq, Len(conn[j].inq) + 1, D, stored)
                         => Sends(conn'[j].inq, Len(conn'[j].inq) + 1, D, stored')
  <2>0. SnapshotsIn(conn[j].inq, stored)
    BY <1>6 DEF Upper, Sound
  <2>1. CASE j = k
    <3>1. stored \subseteq stored' /\ (c.inq[1].type = "update" => c.inq[1].doc \subseteq stored')
      BY <1>1, <1>3
    <3>2. Shorter(d.inq, c.inq) /\ SnapshotsIn(c.inq, stored)
      BY <1>1, <2>0, <2>1
    <3> HIDE DEF c, d
    <3>3. SnapshotsIn(d.inq, stored')
      BY <3>1, <3>2, SnapshotsShorter
    <3>4. \A D : Sends(c.inq, Len(c.inq) + 1, D, stored)
                   => Sends(d.inq, Len(d.inq) + 1, D, stored')
      BY <3>1, <3>2, SendsShorter
    <3> QED BY <2>1, <3>3, <3>4 DEF c, d
  <2>2. CASE j # k
    BY <1>1, <2>0, <2>2 DEF SnapshotsIn, Sends
  <2> QED BY <2>1, <2>2
<1>7. (\A j \in Conns : Sound(conn[j], stored))'
  BY <1>2, <1>5, <1>6 DEF Sound
<1>8. ASSUME NEW t \in Tabs PROVE TabIn(tab'[t], stored') /\ Heard(t)'
  <2>1. TabIn(tab[t], stored) /\ Heard(t)
    BY DEF Upper
  <2>2. tab[t].conn # Nil => tab[t].conn \in Conns /\ conn[tab[t].conn].tab = t
    BY <1>0, LinkType DEF Owners
  <2>3. Heard(t)'
    BY <1>2, <1>5, <1>6, <2>1, <2>2 DEF Heard
  <2> QED BY <1>1, <1>2, <2>1, <2>3 DEF TabIn
<1> QED BY <1>4, <1>7, <1>8 DEF Upper

LEMMA InitUpper == Init => UpperInv
<1> SUFFICES ASSUME Init PROVE Upper
  BY DEF UpperInv
<1>1. \A k \in Conns : Empty(conn[k]) /\ ~conn[k].closed
  BY DEF Init, Empty, FreeConn
<1>2. \A k \in Conns : Sound(conn[k], stored)
  BY <1>1, EmptySound
<1>3. Kept \subseteq stored
  BY DEF Init, Kept, Merged, NoState
<1>4. \A t \in Tabs : TabIn(tab[t], stored) /\ Heard(t)
  BY DEF Init, TabIn, Heard, ClosedTab, NewTab
<1> QED BY <1>2, <1>3, <1>4 DEF Upper

LEMMA DiskGrows ==
  ASSUME TypeInv, [Next]_vars
  PROVE  used'.disk = used.disk \/ used'.disk = used.disk + 1
<1>0. used \in [trash : Nat, fault : Nat, disk : Nat]
  BY DEF TypeInv, TypeOK
<1>1. /\ Fault => used'.disk = used.disk
      /\ DiskFault => used'.disk = used.disk + 1
  BY <1>0, Zenon DEF Fault, DiskFault
<1>2. ASSUME NEW k \in Conns, ServerStep(k) \/ Recv(k) \/ NetDrop(k) \/ CrashInSnapshot(k)
      PROVE  used' = used \/ Fault \/ DiskFault
  BY <1>2, Zenon DEF ServerStep, Join, RefuseStale, Load, DropFrame, PersistFails, PersistUpdate,
     SnapshotFails, ApplySnapshot, CloseSocket, PeerGone, Recheck, Leave, Recv, NetDrop,
     CrashInSnapshot
<1>3. ASSUME NEW t \in Tabs, TabStep(t) \/ \E k \in Conns : Dial(t, k)
      PROVE  used' = used \/ Fault \/ DiskFault
  BY <1>3 DEF TabStep, Mount, Seed, Edit, OnClose, Abandon, CloseTab,
     EndAccess, LosesWrite, LosesRead, Dial
<1>4. ASSUME NEW w \in Writers, WriterStep(w) PROVE used'.disk = used.disk
  BY <1>0, <1>4 DEF WriterStep, OutsideWrite, ResetLookup, ResetUpdates, ResetState,
     ResetRoom, Trash, KickLookup, KickRoom, Restore
<1>5. CASE Restart
  BY <1>1, <1>5 DEF Restart
<1>6. CASE UNCHANGED vars
  BY <1>6 DEF vars
<1> QED BY <1>1, <1>2, <1>3, <1>4, <1>5, <1>6 DEF Next

LEMMA StepUpper ==
  ASSUME NoReset, TypeInv, AllInHub, Counted, QInv, UpperInv, TypeInv', [Next]_vars,
         [AsksTheLiving]_vars
  PROVE  UpperInv'
<1> SUFFICES ASSUME used'.disk = 0 PROVE Upper'
  BY DEF UpperInv
<1>0. QPlus
  BY DEF QPlus, QInv
<1>1. Upper
  <2>1. used.disk \in Nat
    BY DEF TypeInv, TypeOK
  <2> QED BY <2>1, DiskGrows DEF UpperInv
<1>2. ASSUME NEW k \in Conns, ServerStep(k) \/ NetDrop(k) \/ Recv(k) \/ CrashInSnapshot(k),
             ~(UNCHANGED vars)
      PROVE  Upper'
  <2>1. CASE PersistUpdate(k)
    <3>1. AsksTheLiving
      BY <1>2
    <3> QED BY <1>0, <1>1, <2>1, <3>1, PersistUpper
  <2>2. CASE ~PersistUpdate(k)
    BY <1>0, <1>1, <1>2, <2>2, SilentServer, LoadUpper, RecvUpper, DropUpper, FailsUpper,
       GivesUpUpper, SnapshotUpper DEF ServerStep
  <2> QED BY <2>1, <2>2
<1>3. ASSUME NEW t \in Tabs, TabStep(t) \/ \E k \in Conns : Dial(t, k) PROVE Upper'
  <2>1. CASE Seed(t) \/ Edit(t)
    <3>1. UNCHANGED <<stored, yjsState, yjsUpdates, mayWrite>> /\ tab[t].everSynced
      BY <1>1, <2>1 DEF Seed, Edit, dbVars, Upper, TabIn
    <3>2. CASE Makes(t)
      BY <1>0, <1>1, <3>1, <3>2, MakesUpper
    <3>3. CASE ~Makes(t)
      <4>1. Seed(t) /\ UNCHANGED conn /\ tab' = [tab EXCEPT ![t].seed = FALSE]
        BY <2>1, <3>3 DEF Seed, Edit
      <4> QED BY <1>0, <1>1, <4>1, SilentTab
    <3> QED BY <3>2, <3>3
  <2> QED BY <1>0, <1>1, <1>3, <2>1, SilentTab DEF TabStep
<1>4. CASE Restart
  <2>1. LosesMemory /\ UNCHANGED <<tab, stored, mayWrite, yjsState, yjsUpdates>>
    BY <1>4 DEF Restart, dbVars
  <2>2. Kept' \subseteq stored
    BY <1>1, <2>1, KeptSame DEF Upper
  <2> QED BY <1>0, <1>1, <2>1, <2>2, SilentMemory
<1>5. CASE UNCHANGED vars
  <2>1. UNCHANGED <<yjsState, yjsUpdates, stored, conn, tab, mayWrite>>
    BY <1>5 DEF vars
  <2>2. Kept' = Kept
    BY <2>1, KeptSame
  <2> QED BY <1>1, <2>1, <2>2 DEF Upper, Sound, Heard
<1> QED BY <1>2, <1>3, <1>4, <1>5, WriterAllInHub DEF Next

\* What a tab holds when nothing is under way.
LEMMA QuietDoc ==
  ASSUME TypeInv, QInv, Upper, Quiet, NEW t \in mayWrite, Connected(t)
  PROVE  tab[t].doc = stored
<1> DEFINE k == tab[t].conn
<1>1. t \in Tabs /\ k # Nil
  BY DEF TypeInv, TypeOK, Connected
<1>2. k \in Conns /\ Link(conn[k], t, tab[t].doc, stored, yjsUpdates)
  BY <1>1, LinkType DEF QInv, Links
<1>3. /\ conn[k].st = "open" /\ ~conn[k].done /\ Len(conn[k].out) = 0 /\ Len(conn[k].inq) = 0
      /\ ~conn[k].closed
  <2>1. /\ conn[k].st \in {"free", "open"} /\ ~conn[k].done
        /\ conn[k].out = <<>> /\ conn[k].inq = <<>>
    BY <1>2 DEF Quiet
  <2>2. ~conn[k].closed
    BY <1>2, <2>1 DEF Upper, Sound
  <2> QED BY <1>2, <2>1, <2>2 DEF Link
<1>4. Sends(conn[k].inq, Len(conn[k].inq) + 1, tab[t].doc, stored)
  BY <1>1, <1>3 DEF Upper, Heard, Speaks, Has
<1>5. Fed(conn[k].out, tab[t].doc, stored)
  BY <1>2, <1>3 DEF Link
<1>6. \A j, u : ~Brings(conn[k].inq, j, u) /\ ~Brings(conn[k].out, j, u)
  BY <1>3 DEF Brings
<1>7. tab[t].doc \subseteq stored
  BY <1>4, <1>6 DEF Sends
<1>8. stored \subseteq tab[t].doc
  BY <1>5, <1>6 DEF Fed
<1> QED BY <1>7, <1>8

(* Whenever nothing is under way, all who may write see the same, and the  *)
(* database holds it, as long as the disk has not failed: a tab may be     *)
(* closed and the server stopped without losing work (collab.go:595-653).  *)
THEOREM AllSeeTheSame ==
  NoReset => (Spec /\ [][AsksTheLiving]_vars => [](used.disk = 0 => SameForAll))
<1> SUFFICES ASSUME NoReset
             PROVE  Spec /\ [][AsksTheLiving]_vars => [](used.disk = 0 => SameForAll)
  OBVIOUS
<1> DEFINE IInv == TypeInv /\ Members /\ AllInHub /\ Counted /\ QInv /\ UpperInv
<1>1. Init => IInv
  BY InitType, InitMembers, InitAllInHub, InitCounted, InitQInv, InitUpper
<1>2. IInv /\ [Next]_vars /\ [AsksTheLiving]_vars => IInv'
  BY StepType, StepMembers, StepAllInHub, StepCounted, StepQInv, StepUpper
<1>3. IInv => (used.disk = 0 => SameForAll)
  <2>1. IInv /\ used.disk = 0 /\ Quiet =>
          \A t \in mayWrite : Connected(t) => tab[t].doc = stored
    BY QuietDoc DEF UpperInv
  <2> QED BY <2>1 DEF QInv, NothingLost, SameForAll
<1> QED BY <1>1, <1>2, <1>3, PTL DEF Spec

-----------------------------------------------------------------------------
(* The seed: as long as nothing was written, no connection breaks and only *)
(* one of them was told that the document is new; afterwards nobody is.    *)

\* The document has a row, in the snapshot or in the log.
Written == yjsState.have \/ yjsUpdates # <<>>

\* A hello that tells of a new document is in q.
ToldNew(q) == \E i \in 1 .. Len(q) : q[i].type = "hello" /\ q[i].new

\* A tab that seeds, or will once it is told of the sync.
MaySeed(t) ==
  \/ tab[t].seed
  \/ /\ ~tab[t].everSynced
     /\ tab[t].isNew \/ (tab[t].conn # Nil /\ ToldNew(conn[tab[t].conn].out))

\* The connection that was told.
Seeder == IF hub = NoRoom THEN Nil ELSE rooms[hub].seedConn

\* Without resets there is one generation, and a seeder has been synced.
FirstTab(T) ==
  T.gen = 0 /\ (T.seed => T.everSynced) /\ (~T.open => T.conn = Nil)

FirstGeneration ==
  (\A t \in Tabs : FirstTab(tab[t])) /\ (\A k \in Conns : conn[k].gen = 0)

\* k was never cut, shut down or refused, and is its tab's own.
Unbroken(k) ==
  /\ conn[k].st \in {"free", "accepted", "joined", "open"} /\ ~conn[k].done /\ ~conn[k].closed
  /\ conn[k].st # "open" => conn[k].out = <<>>
  /\ conn[k].st # "free" => tab[conn[k].tab].conn = k /\ conn[k].cap >= outBuffer

\* Before the first row: nothing broke, and who may seed is the seeder.
Unwritten ==
  /\ \A k \in Conns : Unbroken(k)
  /\ \A t \in Tabs : MaySeed(t) => tab[t].conn # Nil /\ tab[t].conn = Seeder
  /\ seeds # {} => Seeder # Nil

\* One tab may seed, and none once one has.
OneSeeds ==
  /\ \A t, u \in Tabs : MaySeed(t) /\ MaySeed(u) => t = u
  /\ seeds # {} => \A t \in Tabs : ~MaySeed(t)
  /\ \A u, v \in seeds : u = v

SeedInv ==
  /\ FirstGeneration
  /\ used.fault = 0 => OneSeeds /\ (~Written => Unwritten)

LEMMA FirstStep ==
  ASSUME NoReset, TypeInv, AllInHub, FirstGeneration, [Next]_vars
  PROVE  FirstGeneration'
<1>0. /\ conn \in [Conns -> ConnType] /\ tab \in [Tabs -> TabType] /\ docGen = 0
      /\ \A t \in Tabs : FirstTab(tab[t])
      /\ \A k \in Conns : conn[k].gen = 0
  BY DEF TypeInv, TypeOK, AllInHub, FirstGeneration
<1>1. /\ FirstTab(ClosedTab) /\ FirstTab(NewTab(docGen)) /\ FreeConn.gen = 0
      /\ \A k \in Conns : \A code : Released(k, code).gen = 0
  BY <1>0 DEF FirstTab, ClosedTab, NewTab, FreeConn, Released
<1>2. /\ \A c \in ConnType : Shutdown(c).gen = c.gen /\ Cut(c).gen = c.gen
                              /\ Taken(c).gen = c.gen
      /\ \A c \in ConnType : \A m : Queued(c, m).gen = c.gen
      /\ \A c \in ConnType : \A fs : QueuedAll(c, fs).gen = c.gen
      /\ \A c \in ConnType : \A q : [c EXCEPT !.out = q].gen = c.gen
      /\ \A c \in ConnType : \A q : [c EXCEPT !.inq = q].gen = c.gen
  BY DEF Shutdown, Cut, Taken, Queued, QueuedAll, ConnType
<1>3. ASSUME NEW cs, cs \in [Conns -> ConnType], \A j \in Conns : cs[j].gen = 0,
             NEW k, NEW fs
      PROVE  \A j \in Conns : SendOn(cs, k, fs)[j].gen = 0
  BY <1>2, <1>3 DEF SendOn
<1>4. ASSUME NEW k \in Conns, ServerStep(k) \/ NetDrop(k) \/ CrashInSnapshot(k)
      PROVE  FirstGeneration'
  <2>1. UNCHANGED tab
    BY <1>4, Zenon DEF ServerStep, Join, RefuseStale, Load, DropFrame, PersistFails, PersistUpdate,
       SnapshotFails, ApplySnapshot, CloseSocket, PeerGone, Recheck, Leave, NetDrop, CrashInSnapshot
  <2>2. ASSUME NEW j \in Conns PROVE conn'[j].gen = 0
    <3>1. CASE \/ Join(k) \/ RefuseStale(k) \/ DropFrame(k) \/ PersistFails(k)
               \/ SnapshotFails(k) \/ ApplySnapshot(k) \/ CloseSocket(k) \/ PeerGone(k)
               \/ Recheck(k) \/ NetDrop(k)
      <4>1. CASE Join(k)
        <5>1. PICK r \in Rooms : conn' = [conn EXCEPT ![k].st = "joined", ![k].room = r]
          BY <4>1 DEF Join
        <5> QED BY <1>0, <5>1 DEF ConnType
      <4>2. CASE RefuseStale(k) \/ CloseSocket(k)
        BY <1>0, <4>2 DEF RefuseStale, CloseSocket, ConnType
      <4>3. CASE DropFrame(k) \/ PersistFails(k) \/ SnapshotFails(k) \/ ApplySnapshot(k)
        <5>1. conn' = [conn EXCEPT ![k] = Taken(@)]
          BY <4>3 DEF DropFrame, PersistFails, SnapshotFails, ApplySnapshot
        <5> QED BY <1>0, <1>2, <5>1
      <4>4. CASE PeerGone(k) \/ Recheck(k) \/ NetDrop(k)
        <5>1. conn' = [conn EXCEPT ![k] = Cut(@)] \/ conn' = [conn EXCEPT ![k] = Shutdown(@)]
          BY <4>4 DEF PeerGone, Recheck, NetDrop
        <5> QED BY <1>0, <1>2, <5>1
      <4> QED BY <3>1, <4>1, <4>2, <4>3, <4>4
    <3>2. CASE Load(k)
      <4>1. PICK fs : conn' = [conn EXCEPT ![k] = [QueuedAll(@, fs) EXCEPT !.st = "open"]]
        BY <3>2 DEF Load
      <4> DEFINE q == QueuedAll(conn[k], fs)
      <4>2. "gen" \in DOMAIN q /\ q.gen = 0
        BY <1>0, <1>2 DEF QueuedAll, Shutdown, ConnType
      <4> HIDE DEF q
      <4>3. /\ conn'[k] = [q EXCEPT !.st = "open"]
            /\ \A i \in Conns \ {k} : conn'[i] = conn[i]
        BY <1>0, <4>1 DEF q
      <4>4. [q EXCEPT !.st = "open"].gen = q.gen
        BY <4>2
      <4> QED BY <1>0, <4>2, <4>3, <4>4
    <3>3. CASE Leave(k) \/ CrashInSnapshot(k)
      BY <1>0, <1>1, <3>3 DEF Leave, CrashInSnapshot, LosesMemory
    <3>4. CASE PersistUpdate(k)
      <4> DEFINE m == Head(conn[k].inq)
                 n == rooms[conn[k].room].seq + 1
      <4>1. PICK to, acc :
              \/ conn' = [Broadcast(to, acc, m) EXCEPT ![k] = Taken(conn[k])]
              \/ conn' = [Broadcast(to, acc, m) EXCEPT ![k] =
                            Queued(Taken(conn[k]), SnapshotRequest(n))]
              \/ conn' = [Broadcast(to, acc, m) EXCEPT ![k] = Shutdown(Taken(conn[k]))]
        BY <3>4 DEF PersistUpdate
      <4>2. \A i \in Conns : Broadcast(to, acc, m)[i].gen = 0
        BY <1>0, <1>2 DEF Broadcast
      <4>3. Taken(conn[k]).gen = 0 /\ DOMAIN Taken(conn[k]) = DOMAIN conn[k]
        BY <1>0, <1>2 DEF Taken
      <4>4. /\ Queued(Taken(conn[k]), SnapshotRequest(n)).gen = 0
            /\ Shutdown(Taken(conn[k])).gen = 0
        BY <1>0, <4>3 DEF Queued, Shutdown, ConnType
      <4> QED BY <4>1, <4>2, <4>3, <4>4 DEF Broadcast
    <3> QED BY <1>4, <3>1, <3>2, <3>3, <3>4 DEF ServerStep
  <2> QED BY <1>0, <2>1, <2>2, Zenon DEF FirstGeneration
<1>5. ASSUME NEW k \in Conns, Recv(k) PROVE FirstGeneration'
  <2> DEFINE t == conn[k].tab
             popped == [conn EXCEPT ![k].out = Tail(@)]
  <2>1. popped \in [Conns -> ConnType] /\ \A j \in Conns : popped[j].gen = 0
    <3>1. conn[k].out \in Seq(OutFrames) /\ conn[k].out # <<>>
      BY <1>0, <1>5, OutType DEF Recv
    <3>2. Tail(conn[k].out) \in Seq(OutFrames)
      BY <3>1, HeadTailProperties
    <3>3. [conn[k] EXCEPT !.out = Tail(@)] \in ConnType
      BY <1>0, <3>2, OutType
    <3> QED BY <1>0, <1>2, <3>3
  <2>2. \E fs : conn' = popped \/ conn' = SendOn(popped, k, fs)
    BY <1>5 DEF Recv
  <2>3. \A j \in Conns : conn'[j].gen = 0
    <3> HIDE DEF popped
    <3> QED BY <1>3, <2>1, <2>2
  <2>4. t \in Tabs
    BY <1>5 DEF Recv, InServer, TypeInv, Located
  <2>5. \A u \in Tabs : FirstTab(tab'[u])
    <3>1. CASE UNCHANGED tab
      BY <1>0, <3>1
    <3>2. ASSUME NEW x, \/ tab' = [tab EXCEPT ![t].isNew = x]
                        \/ tab' = [tab EXCEPT ![t].doc = x]
                        \/ tab' = [tab EXCEPT ![t].everSynced = TRUE, ![t].seed = x]
          PROVE  \A u \in Tabs : FirstTab(tab'[u])
      <4>1. \A u \in Tabs \ {t} : tab'[u] = tab[u]
        BY <1>0, <3>2
      <4>2. /\ tab'[t].gen = tab[t].gen /\ tab'[t].open = tab[t].open
            /\ tab'[t].conn = tab[t].conn
            /\ tab'[t].everSynced \/ (tab'[t].seed = tab[t].seed
                                        /\ tab'[t].everSynced = tab[t].everSynced)
        BY <1>0, <2>4, <3>2 DEF TabType
      <4> QED BY <1>0, <4>1, <4>2 DEF FirstTab
    <3>3. \/ UNCHANGED tab
          \/ \E x : \/ tab' = [tab EXCEPT ![t].isNew = x]
                    \/ tab' = [tab EXCEPT ![t].doc = x]
                    \/ tab' = [tab EXCEPT ![t].everSynced = TRUE, ![t].seed = x]
      BY <1>5, Zenon DEF Recv
    <3> QED BY <3>1, <3>2, <3>3
  <2> QED BY <2>3, <2>5 DEF FirstGeneration
<1>6. ASSUME NEW t \in Tabs, TabStep(t) PROVE FirstGeneration'
  <2>1. CASE Mount(t) \/ OnClose(t) \/ Abandon(t) \/ CloseTab(t) \/ EndAccess(t)
    <3>1. \A j \in Conns : \/ conn'[j] = conn[j] \/ conn'[j] = FreeConn
                           \/ conn'[j] = Shutdown(conn[j])
      BY <1>0, <2>1 DEF Mount, OnClose, Abandon, CloseTab, EndAccess, LosesWrite, LosesRead, LetGo
    <3>2. \A u \in Tabs : \/ tab'[u] = tab[u] \/ tab'[u] = ClosedTab
                          \/ tab'[u] = NewTab(docGen) \/ tab'[u] = [tab[u] EXCEPT !.conn = Nil]
      BY <1>0, <2>1 DEF Mount, OnClose, Abandon, CloseTab, EndAccess, LosesWrite, LosesRead
    <3>3. \A j \in Conns : conn'[j].gen = 0
      BY <1>0, <1>1, <1>2, <3>1
    <3>4. \A u \in Tabs : FirstTab(tab'[u])
      <4>1. \A u \in Tabs : FirstTab([tab[u] EXCEPT !.conn = Nil])
        BY <1>0 DEF FirstTab, TabType
      <4> QED BY <1>0, <1>1, <3>2, <4>1
    <3> QED BY <3>3, <3>4 DEF FirstGeneration
  <2>2. CASE Seed(t) \/ Edit(t)
    <3>0. Makes(t) \/ (UNCHANGED conn /\ tab' = [tab EXCEPT ![t].seed = FALSE])
      BY <2>2 DEF Seed, Edit
    <3>1. \A j \in Conns : conn'[j].gen = 0
      <4>1. CASE Makes(t)
        <5>1. conn' = SendOn(conn, tab[t].conn, <<Update({edits + 1})>>)
          BY <4>1 DEF Makes
        <5> QED BY <1>0, <1>3, <5>1
      <4> QED BY <1>0, <3>0, <4>1
    <3>2. \A u \in Tabs : FirstTab(tab'[u])
      <4>1. CASE Makes(t)
        <5>1. tab' = [tab EXCEPT ![t].doc = @ \cup {edits + 1}, ![t].seed = FALSE]
          BY <4>1 DEF Makes
        <5> QED BY <1>0, <5>1 DEF FirstTab, TabType
      <4> QED BY <1>0, <3>0, <4>1 DEF FirstTab, TabType
    <3> QED BY <3>1, <3>2 DEF FirstGeneration
  <2> QED BY <1>6, <2>1, <2>2 DEF TabStep
<1>7. ASSUME NEW t \in Tabs, NEW k \in Conns, Dial(t, k) PROVE FirstGeneration'
  BY <1>0, <1>7 DEF Dial, FirstGeneration, FirstTab, TabType, FreeConn
<1>8. CASE Restart
  <2>1. UNCHANGED tab /\ \A j \in Conns : conn'[j].gen = 0
    BY <1>0, <1>1, <1>8 DEF Restart, LosesMemory
  <2> QED BY <1>0, <2>1 DEF FirstGeneration
<1>9. CASE UNCHANGED vars
  BY <1>9 DEF vars, FirstGeneration
<1> QED BY <1>4, <1>5, <1>6, <1>7, <1>8, <1>9, WriterAllInHub DEF Next

LEMMA NewLonger ==
  ASSUME NEW q, NEW p, NEW m, Longer(p, q, m), m.type # "hello"
  PROVE  ToldNew(p) => ToldNew(q)
<1>1. \A i \in 1 .. Len(p) : \/ i \in 1 .. Len(q) /\ p[i] = q[i]
                             \/ p[i] = m
  BY DEF Longer
<1> QED BY <1>1 DEF ToldNew

LEMMA NewShorter ==
  ASSUME NEW q, NEW p, Shorter(p, q)
  PROVE  /\ ToldNew(p) => ToldNew(q)
         /\ q[1].type = "hello" /\ q[1].new => ToldNew(q)
<1>1. /\ \A i \in 1 .. Len(p) : i + 1 \in 1 .. Len(q) /\ q[i + 1] = p[i]
      /\ 1 \in 1 .. Len(q)
  BY DEF Shorter
<1> QED BY <1>1 DEF ToldNew

LEMMA NewEmpty ==
  ASSUME NEW q, q = <<>>
  PROVE  ~ToldNew(q)
<1>1. Len(q) = 0
  OBVIOUS
<1> QED BY <1>1 DEF ToldNew

\* A tab that nothing tells anything new will not seed if it would not before.
LEMMA NoMoreSeeds ==
  ASSUME NEW t \in Tabs,
         tab'[t].seed => tab[t].seed,
         tab[t].everSynced => tab'[t].everSynced,
         tab'[t].isNew => tab[t].isNew,
         \/ tab'[t].conn = Nil
         \/ ~ToldNew(conn'[tab'[t].conn].out)
         \/ /\ tab'[t].conn = tab[t].conn
            /\ ToldNew(conn'[tab'[t].conn].out) => ToldNew(conn[tab[t].conn].out)
  PROVE  MaySeed(t)' => MaySeed(t)
BY DEF MaySeed

LEMMA SeedSame ==
  ASSUME SeedInv, FirstGeneration', used'.fault = used.fault, seeds' = seeds,
         Written => Written',
         \A t \in Tabs : MaySeed(t)' => MaySeed(t),
         OneSeeds /\ Unwritten /\ ~Written' => Unwritten'
  PROVE  SeedInv'
BY DEF SeedInv, OneSeeds

LEMMA UnwrittenSame ==
  ASSUME Unwritten, seeds' = seeds, \A k \in Conns : Unbroken(k)',
         Seeder' = Seeder \/ Seeder = Nil,
         \A t \in Tabs : MaySeed(t)' => MaySeed(t) /\ tab'[t].conn = tab[t].conn
  PROVE  Unwritten'
BY DEF Unwritten

\* The tab of a connection lets go of it only at its end.
LEMMA UnbrokenSame ==
  ASSUME NEW k \in Conns, Unbroken(k),
         conn'[k].st = conn[k].st, conn'[k].done = conn[k].done,
         conn'[k].closed = conn[k].closed, conn'[k].cap = conn[k].cap,
         conn'[k].tab = conn[k].tab, conn[k].st # "open" => conn'[k].out = conn[k].out,
         conn[k].st # "free" => tab'[conn[k].tab].conn = tab[conn[k].tab].conn
  PROVE  Unbroken(k)'
BY DEF Unbroken

LEMMA SeedFault ==
  ASSUME TypeInv, SeedInv, FirstGeneration', Fault
  PROVE  SeedInv'
<1>1. used'.fault = used.fault + 1 /\ used.fault \in Nat
  BY DEF Fault, TypeInv, TypeOK
<1> QED BY <1>1 DEF SeedInv

LEMMA SeedServer ==
  ASSUME TypeInv, AllInHub, SeedInv, FirstGeneration', NEW k \in Conns,
         \/ RefuseStale(k) \/ CloseSocket(k) \/ PeerGone(k) \/ Leave(k)
  PROVE  SeedInv'
<1>0. conn \in [Conns -> ConnType]
  BY DEF TypeInv, TypeOK
<1>1. UNCHANGED <<tab, seeds, used, yjsState, yjsUpdates>>
  BY DEF RefuseStale, CloseSocket, PeerGone, Leave, dbVars, historyVars
<1>2. \A j \in Conns : conn'[j].out = conn[j].out \/ conn'[j].out = <<>>
  <2>1. \A code : Released(k, code).out = <<>>
    BY DEF Released, FreeConn
  <2>2. Cut(conn[k]).out = conn[k].out
    BY <1>0 DEF Cut, ConnType
  <2>3. CASE RefuseStale(k) \/ CloseSocket(k)
    <3>1. /\ [conn[k] EXCEPT !.st = "refused"].out = conn[k].out
          /\ [conn[k] EXCEPT !.closed = TRUE].out = conn[k].out
      BY <1>0 DEF ConnType
    <3> QED BY <1>0, <2>3, <3>1 DEF RefuseStale, CloseSocket
  <2>4. CASE PeerGone(k)
    BY <1>0, <2>2, <2>4 DEF PeerGone
  <2>5. CASE Leave(k)
    <3>1. PICK code : conn' = [conn EXCEPT ![k] = Released(k, code)]
      BY <2>5 DEF Leave
    <3> QED BY <1>0, <2>1, <3>1
  <2> QED BY <2>3, <2>4, <2>5
<1>3. ASSUME NEW t \in Tabs PROVE MaySeed(t)' => MaySeed(t)
  <2>1. tab[t].conn = Nil \/ tab[t].conn \in Conns
    BY LinkType
  <2> QED BY <1>1, <1>2, <2>1, NewEmpty, NoMoreSeeds
<1>4. ASSUME Unwritten PROVE FALSE
  <2>1. Unbroken(k)
    BY <1>4 DEF Unwritten
  <2>2. CASE RefuseStale(k)
    BY <2>2 DEF RefuseStale, SeedInv, FirstGeneration, AllInHub
  <2>3. CASE CloseSocket(k) \/ Leave(k)
    BY <2>1, <2>3 DEF CloseSocket, Leave, Unbroken
  <2>4. CASE PeerGone(k)
    <3>1. InServer(k) /\ ~Owned(k)
      BY <2>4 DEF PeerGone
    <3>2. conn[k].tab \in Tabs /\ conn[k].st # "free"
      BY <3>1 DEF TypeInv, Located, InServer
    <3> QED BY <2>1, <3>1, <3>2 DEF Owned, Unbroken
  <2> QED BY <2>2, <2>3, <2>4
<1>5. Written => Written'
  BY <1>1 DEF Written
<1> QED BY <1>1, <1>3, <1>4, <1>5, SeedSame

\* Nobody was put out while nothing broke, so nobody is found to be.
AllMayRead == used.fault = 0 => mayRead = Tabs

LEMMA StepAllMayRead ==
  ASSUME TypeInv, AllMayRead, [Next]_vars
  PROVE  AllMayRead'
<1>1. ASSUME Fault PROVE AllMayRead'
  BY <1>1 DEF Fault, AllMayRead, TypeInv, TypeOK
<1>2. ASSUME UNCHANGED mayRead, UNCHANGED used \/ used'.fault = used.fault PROVE AllMayRead'
  BY <1>2 DEF AllMayRead
<1>3. ASSUME DiskFault PROVE used'.fault = used.fault
  BY <1>3 DEF DiskFault, TypeInv, TypeOK
<1>4. ASSUME NEW k \in Conns, ServerStep(k) \/ Recv(k) PROVE AllMayRead'
  <2>1. UNCHANGED mayRead
    BY <1>4, Zenon DEF ServerStep, Join, RefuseStale, Load, DropFrame, PersistFails, PersistUpdate,
       SnapshotFails, ApplySnapshot, CloseSocket, PeerGone, Recheck, Leave, Recv, dbVars
  <2>2. UNCHANGED used \/ DiskFault
    BY <1>4, Zenon DEF ServerStep, Join, RefuseStale, Load, DropFrame, PersistFails, PersistUpdate,
       SnapshotFails, ApplySnapshot, CloseSocket, PeerGone, Recheck, Leave, Recv
  <2> QED BY <1>2, <1>3, <2>1, <2>2
<1>5. ASSUME NEW t \in Tabs, TabStep(t) \/ \E k \in Conns : Dial(t, k) PROVE AllMayRead'
  <2>1. Fault \/ UNCHANGED <<mayRead, used>>
    BY <1>5, Zenon DEF TabStep, Mount, Seed, Edit, OnClose, Abandon, CloseTab, EndAccess, Dial,
       dbVars
  <2> QED BY <1>1, <1>2, <2>1
<1>6. ASSUME NEW w \in Writers, WriterStep(w) PROVE AllMayRead'
  <2>1. UNCHANGED mayRead
    BY <1>6, Zenon DEF WriterStep, OutsideWrite, ResetLookup, ResetUpdates, ResetState, ResetRoom,
       Trash, KickLookup, KickRoom, Restore, dbVars
  <2>2. UNCHANGED used \/ used' = [used EXCEPT !.trash = @ + 1]
    BY <1>6, Zenon DEF WriterStep, OutsideWrite, ResetLookup, ResetUpdates, ResetState, ResetRoom,
       Trash, KickLookup, KickRoom, Restore
  <2>3. UNCHANGED used \/ used'.fault = used.fault
    BY <2>2 DEF TypeInv, TypeOK
  <2> QED BY <1>2, <2>1, <2>3
<1>7. ASSUME Restart \/ \E k \in Conns : NetDrop(k) \/ CrashInSnapshot(k) PROVE AllMayRead'
  BY <1>1, <1>7 DEF Restart, NetDrop, CrashInSnapshot
<1>8. CASE UNCHANGED vars
  BY <1>2, <1>8 DEF vars
<1> QED BY <1>4, <1>5, <1>6, <1>7, <1>8 DEF Next

LEMMA SeedRecheck ==
  ASSUME TypeInv, AllMayRead, SeedInv, FirstGeneration', NEW k \in Conns, Recheck(k)
  PROVE  SeedInv'
<1>1. conn[k].tab \in Tabs \ mayRead /\ UNCHANGED used
  BY DEF Recheck, InServer, TypeInv, Located
<1>2. used'.fault # 0
  BY <1>1 DEF AllMayRead
<1> QED BY <1>2 DEF SeedInv

LEMMA SeedReads ==
  ASSUME TypeInv, AllInHub, SeedInv, FirstGeneration', NEW k \in Conns,
         \/ DropFrame(k) \/ PersistFails(k) \/ SnapshotFails(k) \/ ApplySnapshot(k)
  PROVE  SeedInv'
<1>0. conn \in [Conns -> ConnType] /\ rooms \in [Rooms -> RoomType]
  BY DEF TypeInv, TypeOK
<1>1. /\ UNCHANGED <<tab, seeds, hub>> /\ conn[k].st = "open"
      /\ conn' = [conn EXCEPT ![k] = Taken(@)]
      /\ Written => Written'
  BY DEF DropFrame, PersistFails, SnapshotFails, ApplySnapshot, dbVars, historyVars, Reads,
         Compacts, Written
<1>2. used'.fault = used.fault
  BY DEF DropFrame, PersistFails, SnapshotFails, ApplySnapshot, DiskFault, TypeInv, TypeOK
<1>3. \A r \in Rooms : rooms'[r].seedConn = rooms[r].seedConn
  <2>1. \A R \in RoomType : NotCompacting(R).seedConn = R.seedConn /\ NotCompacting(R) \in RoomType
    BY CollabAssumption DEF NotCompacting, RoomType
  <2>2. \A R \in RoomType : \A n : [R EXCEPT !.pending = n].seedConn = R.seedConn
    BY DEF RoomType
  <2>3. CASE DropFrame(k)
    BY <2>3 DEF DropFrame
  <2>4. CASE PersistFails(k)
    BY <1>0, <2>4 DEF PersistFails, RoomType
  <2>5. CASE SnapshotFails(k)
    BY <1>0, <2>1, <2>5 DEF SnapshotFails
  <2>6. CASE ApplySnapshot(k)
    BY <1>0, <2>1, <2>2, <2>6 DEF ApplySnapshot
  <2> QED BY <2>3, <2>4, <2>5, <2>6
<1>4. Seeder' = Seeder
  BY <1>1, <1>3 DEF Seeder, TypeInv, TypeOK
<1>5. \A j \in Conns : /\ conn'[j].out = conn[j].out /\ conn'[j].st = conn[j].st
                       /\ conn'[j].done = conn[j].done /\ conn'[j].closed = conn[j].closed
                       /\ conn'[j].cap = conn[j].cap /\ conn'[j].tab = conn[j].tab
  BY <1>0, <1>1 DEF Taken, ConnType
<1>6. ASSUME NEW t \in Tabs PROVE MaySeed(t)' => MaySeed(t)
  <2>1. tab[t].conn = Nil \/ tab[t].conn \in Conns
    BY LinkType
  <2> QED BY <1>1, <1>5, <2>1, NoMoreSeeds
<1>7. ASSUME Unwritten PROVE Unwritten'
  <2>1. \A j \in Conns : Unbroken(j)'
    BY <1>1, <1>5, <1>7, UnbrokenSame DEF Unwritten
  <2> QED BY <1>1, <1>4, <1>6, <1>7, <2>1, UnwrittenSame
<1> QED BY <1>1, <1>2, <1>6, <1>7, SeedSame

LEMMA SeedJoin ==
  ASSUME TypeInv, SeedInv, FirstGeneration', NEW k \in Conns, Join(k)
  PROVE  SeedInv'
<1>0. conn \in [Conns -> ConnType] /\ rooms \in [Rooms -> RoomType]
  BY DEF TypeInv, TypeOK
<1>1. UNCHANGED <<tab, seeds, used, yjsState, yjsUpdates>> /\ conn[k].st = "accepted"
  BY DEF Join, dbVars, historyVars
<1>2. PICK r \in Rooms :
        /\ hub # NoRoom => r = hub
        /\ hub' = r
        /\ rooms' = [rooms EXCEPT ![r] =
                      [(IF hub # NoRoom THEN rooms[r] ELSE NewRoom) EXCEPT
                         !.conns = @ \cup {k}]]
        /\ conn' = [conn EXCEPT ![k].st = "joined", ![k].room = r]
  BY DEF Join
<1>3. Seeder' = Seeder \/ Seeder = Nil
  <2>1. CASE hub = NoRoom
    BY <2>1 DEF Seeder
  <2>2. CASE hub # NoRoom
    <3>1. rooms'[r].seedConn = rooms[r].seedConn /\ r # NoRoom
      BY <1>0, <1>2, <2>2, CollabAssumption DEF RoomType, Rooms, NoRoom
    <3> QED BY <1>2, <2>2, <3>1 DEF Seeder
  <2> QED BY <2>1, <2>2
<1>4. \A j \in Conns : /\ conn'[j].out = conn[j].out
                       /\ conn'[j].st = IF j = k THEN "joined" ELSE conn[j].st
                       /\ conn'[j].done = conn[j].done /\ conn'[j].closed = conn[j].closed
                       /\ conn'[j].cap = conn[j].cap /\ conn'[j].tab = conn[j].tab
  BY <1>0, <1>2 DEF ConnType
<1>5. ASSUME NEW t \in Tabs PROVE MaySeed(t)' => MaySeed(t)
  <2>1. tab[t].conn = Nil \/ tab[t].conn \in Conns
    BY LinkType
  <2> QED BY <1>1, <1>4, <2>1, NoMoreSeeds
<1>6. ASSUME Unwritten PROVE Unwritten'
  <2>1. \A j \in Conns : Unbroken(j)'
    BY <1>1, <1>4, <1>6 DEF Unwritten, Unbroken
  <2> QED BY <1>1, <1>3, <1>5, <1>6, <2>1, UnwrittenSame
<1>7. Written => Written'
  BY <1>1 DEF Written
<1> QED BY <1>1, <1>5, <1>6, <1>7, SeedSame

LEMMA SeedPersists ==
  ASSUME TypeInv, AllInHub, Counted, SeedInv, FirstGeneration', NEW k \in Conns,
         PersistUpdate(k)
  PROVE  SeedInv'
<1> DEFINE R == rooms[hub]
           m == conn[k].inq[1]
           f == SnapshotRequest(R.seq + 1)
<1>1. UNCHANGED <<tab, seeds, used>>
  BY DEF PersistUpdate, historyVars
<1>2. /\ Longer(yjsUpdates', yjsUpdates, [seq |-> R.seq + 1, doc |-> m.doc])
      /\ m.type = "update" /\ f.type = "snapshotRequest"
      /\ \A j \in Conns : \/ conn'[j].out = conn[j].out
                          \/ Longer(conn'[j].out, conn[j].out, m)
                          \/ Longer(conn'[j].out, conn[j].out, f)
  BY PersistEffect DEF Relayed, SnapshotRequest
<1> HIDE DEF m, f
<1>3. \A j \in Conns : ToldNew(conn'[j].out) => ToldNew(conn[j].out)
  BY <1>2, NewLonger
<1>4. ASSUME NEW t \in Tabs PROVE MaySeed(t)' => MaySeed(t)
  <2>1. tab[t].conn = Nil \/ tab[t].conn \in Conns
    BY LinkType
  <2> QED BY <1>1, <1>3, <2>1, NoMoreSeeds
<1>5. Written'
  <2>1. Len(yjsUpdates') > 0
    BY <1>2, LogFacts DEF Longer
  <2> QED BY <2>1 DEF Written
<1> QED BY <1>1, <1>4, <1>5, SeedSame

LEMMA LoadHello ==
  ASSUME TypeInv, NEW new \in BOOLEAN
  PROVE  LET fs == <<Hello(new)>> \o Replay \o <<Synced>> IN
         /\ fs \in Seq(OutFrames)
         /\ \A i \in 1 .. Len(fs) : fs[i].type = "hello" => fs[i].new = new
         /\ ~Written => Len(fs) = 2
<1> DEFINE h == Hello(new)
           gs == <<h>> \o Replay
           fs == gs \o <<Synced>>
           L == Len(Replay)
<1>1. h.new = new /\ h \in OutFrames /\ Synced \in OutFrames /\ Synced.type = "synced"
  BY DEF Hello, Synced, OutFrames
<1>2. /\ <<h>> \in Seq(OutFrames) /\ Len(<<h>>) = 1 /\ <<h>>[1] = h
      /\ <<Synced>> \in Seq(OutFrames) /\ Len(<<Synced>>) = 1 /\ <<Synced>>[1] = Synced
  BY <1>1
<1>3. Replay \in Seq(OutFrames) /\ L \in Nat /\ \A i \in 1 .. L : Replay[i].type = "update"
  BY ReplayHas
<1> HIDE DEF h, L
<1>4. /\ gs \in Seq(OutFrames) /\ Len(gs) = 1 + L
      /\ \A i \in 1 .. 1 + L : gs[i] = IF i <= 1 THEN <<h>>[i] ELSE Replay[i - 1]
  BY <1>2, <1>3, ConcatProperties DEF L
<1> HIDE DEF gs
<1>5. /\ fs \in Seq(OutFrames) /\ Len(fs) = L + 2
      /\ \A i \in 1 .. L + 2 : fs[i] = IF i <= 1 + L THEN gs[i] ELSE <<Synced>>[i - (1 + L)]
  BY <1>2, <1>3, <1>4, ConcatProperties
<1> HIDE DEF fs
<1>6. ASSUME NEW i \in 1 .. Len(fs), fs[i].type = "hello" PROVE fs[i].new = new
  <2>1. i \in 1 .. L + 2 /\ i \in Nat
    BY <1>3, <1>5
  <2>2. CASE i = 1
    <3>1. fs[i] = gs[1] /\ gs[1] = <<h>>[1]
      BY <1>3, <1>4, <1>5, <2>1, <2>2
    <3> QED BY <1>1, <1>2, <3>1
  <2>3. CASE i = L + 2
    <3>1. fs[i] = Synced
      BY <1>2, <1>3, <1>5, <2>1, <2>3
    <3> QED BY <1>1, <1>6, <3>1
  <2>4. CASE i # 1 /\ i # L + 2
    <3>1. i - 1 \in 1 .. L /\ i \in 1 .. 1 + L
      BY <1>3, <2>1, <2>4
    <3>2. fs[i] = Replay[i - 1]
      BY <1>3, <1>4, <1>5, <2>1, <3>1
    <3> QED BY <1>3, <1>6, <3>1, <3>2
  <2> QED BY <2>2, <2>3, <2>4
<1>7. ~Written => Len(fs) = 2
  <2>1. ~Written => Replay = <<>> \o [i \in {} |-> Update(yjsUpdates[i].doc)]
    BY DEF Written, Replay
  <2>2. [i \in {} |-> Update(yjsUpdates[i].doc)] = <<>>
    OBVIOUS
  <2>3. <<>> \o <<>> = <<>>
    OBVIOUS
  <2>4. ~Written => L = 0
    BY <2>1, <2>2, <2>3 DEF L
  <2> QED BY <1>5, <2>4
<1>8. fs = <<Hello(new)>> \o Replay \o <<Synced>>
  BY DEF fs, gs, h
<1> QED BY <1>5, <1>6, <1>7, <1>8

\* Only whoever finds the document new is told so, and not shut down for it.
LEMMA LoadTells ==
  ASSUME TypeInv, AllInHub, NEW k \in Conns, Load(k)
  PROVE  /\ ToldNew(conn'[k].out) => ToldNew(conn[k].out) \/ FindsNew(rooms[hub])
         /\ rooms'[hub].seedConn = IF FindsNew(rooms[hub]) THEN k ELSE rooms[hub].seedConn
         /\ conn'[k].cap = conn[k].cap
         /\ ~Written /\ conn[k].out = <<>> /\ conn[k].cap >= 2
              => conn'[k].done = conn[k].done
<1> DEFINE new == FindsNew(rooms[hub])
           fs == <<Hello(new)>> \o Replay \o <<Synced>>
           c == conn[k]
           q == QueuedAll(c, fs)
           R == Loaded(rooms[hub])
<1>1. /\ conn[k].room = hub /\ hub \in Rooms /\ rooms[hub] \in RoomType /\ c \in ConnType
      /\ conn \in [Conns -> ConnType] /\ rooms \in [Rooms -> RoomType] /\ c.out \in Seq(OutFrames)
  BY HubOfOpen, OutType DEF Load, InRoom, TypeInv, TypeOK
<1>2. /\ conn' = [conn EXCEPT ![k] = [q EXCEPT !.st = "open"]]
      /\ rooms' = [rooms EXCEPT ![hub] = [R EXCEPT !.seedConn = IF new THEN k ELSE @]]
  BY <1>1 DEF Load
<1>3. new \in BOOLEAN
  BY DEF FindsNew
<1> HIDE DEF new
<1>4. /\ fs \in Seq(OutFrames)
      /\ \A i \in 1 .. Len(fs) : fs[i].type = "hello" => fs[i].new = new
      /\ ~Written => Len(fs) = 2
  BY <1>3, LoadHello
<1>5. R \in RoomType /\ R.seedConn = rooms[hub].seedConn
  BY <1>1, LoadedType, Zenon DEF Loaded, RoomType, TypeInv
<1> HIDE DEF fs, R
<1>6. PICK gs \in Seq(OutFrames) :
        /\ q.out = c.out \o gs
        /\ \A i \in 1 .. Len(gs) : i \in 1 .. Len(fs) /\ gs[i] = fs[i]
  <2> HIDE DEF c
  <2> QED BY <1>1, <1>4, QueuedAllEffect
<1>7. q \in ConnType /\ q.cap = c.cap /\ (Len(c.out) + Len(fs) <= c.cap => q.done = c.done)
  <2>1. q \in ConnType
    BY <1>1, <1>4, QueuedAllType
  <2>2. c.cap \in Nat /\ Len(c.out) \in Nat /\ Len(fs) \in Nat
    BY <1>1, <1>4, LenProperties DEF ConnType
  <2> HIDE DEF c
  <2>3. q.cap = c.cap /\ (Len(fs) <= c.cap - Len(c.out) => q.done = c.done)
    BY <1>1 DEF QueuedAll, Shutdown, ConnType
  <2> QED BY <2>1, <2>2, <2>3
<1> HIDE DEF q
<1>8. conn'[k] = [q EXCEPT !.st = "open"]
  BY <1>1, <1>2
<1>9. conn'[k].out = q.out /\ conn'[k].cap = q.cap /\ conn'[k].done = q.done
  BY <1>7, <1>8 DEF ConnType
<1>10. rooms'[hub].seedConn = IF new THEN k ELSE rooms[hub].seedConn
  <2>1. rooms'[hub] = [R EXCEPT !.seedConn = IF new THEN k ELSE @]
    BY <1>1, <1>2
  <2> QED BY <1>5, <2>1 DEF RoomType
<1>11. ASSUME ToldNew(conn'[k].out), ~ToldNew(conn[k].out) PROVE new
  <2>1. PICK i \in 1 .. Len(q.out) : q.out[i].type = "hello" /\ q.out[i].new
    BY <1>9, <1>11 DEF ToldNew
  <2>2. /\ Len(c.out) \in Nat /\ Len(gs) \in Nat /\ Len(q.out) = Len(c.out) + Len(gs)
        /\ q.out[i] = IF i <= Len(c.out) THEN c.out[i] ELSE gs[i - Len(c.out)]
    BY <1>1, <1>6, <2>1, ConcatProperties, LenProperties
  <2>3. ~(i <= Len(c.out))
    BY <1>11, <2>1, <2>2 DEF ToldNew
  <2>4. i - Len(c.out) \in 1 .. Len(gs)
    BY <2>1, <2>2, <2>3
  <2>5. PICK j \in 1 .. Len(gs) : q.out[i] = gs[j]
    BY <2>2, <2>3, <2>4
  <2>6. j \in 1 .. Len(fs) /\ fs[j] = q.out[i]
    BY <1>6, <2>5
  <2> QED BY <1>4, <2>1, <2>6
<1>12. ASSUME ~Written, conn[k].out = <<>>, conn[k].cap >= 2
       PROVE  conn'[k].done = conn[k].done
  <2>1. c.cap \in Nat /\ Len(c.out) = 0 /\ Len(fs) = 2 /\ c.cap >= 2
    <3>1. c.cap \in Nat
      BY <1>1 DEF ConnType
    <3>2. Len(c.out) = 0
      BY <1>12
    <3> QED BY <1>4, <1>12, <3>1, <3>2
  <2> HIDE DEF c
  <2>2. Len(c.out) + Len(fs) <= c.cap
    BY <2>1
  <2> QED BY <1>7, <1>9, <2>2 DEF c
<1> QED BY <1>9, <1>7, <1>10, <1>11, <1>12 DEF new

LEMMA SeedLoad ==
  ASSUME TypeInv, AllInHub, Owns, outBuffer >= 2, SeedInv, FirstGeneration',
         NEW k \in Conns, Load(k)
  PROVE  SeedInv'
<1> DEFINE new == FindsNew(rooms[hub])
<1>1. /\ \A j \in Conns \ {k} : conn'[j] = conn[j]
      /\ conn[k].st = "joined" /\ conn'[k].st = "open"
      /\ conn'[k].tab = conn[k].tab /\ conn'[k].closed = conn[k].closed
      /\ hub \in Rooms
      /\ ToldNew(conn'[k].out) => ToldNew(conn[k].out) \/ new
      /\ rooms'[hub].seedConn = IF new THEN k ELSE rooms[hub].seedConn
      /\ conn'[k].cap = conn[k].cap
      /\ ~Written /\ conn[k].out = <<>> /\ conn[k].cap >= 2
              => conn'[k].done = conn[k].done
  BY LoadEffect, LoadTells
<1>2. UNCHANGED <<tab, seeds, used, hub, yjsState, yjsUpdates>>
  BY DEF Load, dbVars, historyVars
<1>3. new => ~Written /\ rooms[hub].seedConn = Nil
  BY DEF FindsNew, Written
<1> HIDE DEF new
<1>4. hub # NoRoom
  BY <1>1 DEF Rooms, NoRoom
<1>5. Seeder' = (IF new THEN k ELSE Seeder) /\ (new => Seeder = Nil)
  BY <1>1, <1>2, <1>3, <1>4 DEF Seeder
<1>6. ASSUME NEW t \in Tabs, ~(new /\ tab[t].conn = k) PROVE MaySeed(t)' => MaySeed(t)
  <2>1. tab[t].conn = Nil \/ tab[t].conn \in Conns
    BY LinkType
  <2> QED BY <1>1, <1>2, <1>6, <2>1, NoMoreSeeds
<1>7. ASSUME Unwritten PROVE ~Written => \A j \in Conns : Unbroken(j)'
  <2> SUFFICES ASSUME ~Written, NEW j \in Conns PROVE Unbroken(j)'
    OBVIOUS
  <2>1. Unbroken(j)
    BY <1>7 DEF Unwritten
  <2>2. outBuffer \in Nat /\ conn[j].cap \in Nat
    BY CollabAssumption DEF TypeInv, TypeOK, ConnType
  <2>3. CASE j = k
    BY <1>1, <1>2, <2>1, <2>2, <2>3 DEF Unbroken
  <2>4. CASE j # k
    BY <1>1, <1>2, <2>1, <2>4, UnbrokenSame
  <2> QED BY <2>3, <2>4
<1>8. Written' <=> Written
  BY <1>2 DEF Written
<1>9. CASE ~new
  <2>1. \A t \in Tabs : MaySeed(t)' => MaySeed(t)
    BY <1>6, <1>9
  <2>2. OneSeeds /\ Unwritten /\ ~Written' => Unwritten'
    BY <1>2, <1>5, <1>7, <1>8, <1>9, <2>1, UnwrittenSame
  <2> QED BY <1>2, <1>8, <2>1, <2>2, SeedSame
<1>10. CASE new
  <2> SUFFICES ASSUME used.fault = 0 PROVE OneSeeds' /\ Unwritten'
    BY <1>2 DEF SeedInv
  <2>1. Unwritten /\ Seeder' = k /\ Seeder = Nil /\ seeds = {} /\ k # Nil
    BY <1>3, <1>5, <1>10, CollabAssumption DEF SeedInv, Unwritten
  <2>2. \A t \in Tabs : ~MaySeed(t)
    BY <2>1 DEF Unwritten
  <2>3. \A t \in Tabs : MaySeed(t)' => tab[t].conn = k
    BY <1>6, <2>2
  <2>4. \A t, u \in Tabs : tab[t].conn = k /\ tab[u].conn = k => t = u
    BY <2>1 DEF Owns
  <2>5. OneSeeds'
    BY <1>2, <2>1, <2>3, <2>4 DEF OneSeeds
  <2>6. Unwritten'
    BY <1>2, <1>3, <1>7, <1>10, <2>1, <2>3 DEF Unwritten
  <2> QED BY <2>5, <2>6
<1> QED BY <1>9, <1>10

\* What the tab sends changes nothing else of a connection.
LEMMA SendOnKeeps ==
  ASSUME NEW cs \in [Conns -> ConnType], NEW k, NEW fs, NEW j \in Conns
  PROVE  LET d == SendOn(cs, k, fs)[j] IN
         /\ d.st = cs[j].st /\ d.tab = cs[j].tab /\ d.done = cs[j].done
         /\ d.closed = cs[j].closed /\ d.cap = cs[j].cap /\ d.out = cs[j].out
<1>1. \A q : LET d == [cs[j] EXCEPT !.inq = q] IN
         /\ d.st = cs[j].st /\ d.tab = cs[j].tab /\ d.done = cs[j].done
         /\ d.closed = cs[j].closed /\ d.cap = cs[j].cap /\ d.out = cs[j].out
  BY DEF ConnType
<1>2. \/ SendOn(cs, k, fs)[j] = cs[j]
      \/ SendOn(cs, k, fs)[j] = [cs[j] EXCEPT !.inq = cs[j].inq \o fs]
  BY DEF SendOn
<1>3. CASE SendOn(cs, k, fs)[j] = cs[j]
  BY <1>3
<1>4. CASE SendOn(cs, k, fs)[j] = [cs[j] EXCEPT !.inq = cs[j].inq \o fs]
  <2>1. PICK q : q = cs[j].inq \o fs
    OBVIOUS
  <2>2. SendOn(cs, k, fs)[j] = [cs[j] EXCEPT !.inq = q]
    BY <1>4, <2>1
  <2> HIDE <1>4, <1>2, <2>1
  <2> QED BY <1>1, <2>2
<1> QED BY <1>2, <1>3, <1>4

LEMMA SeedRecv ==
  ASSUME TypeInv, Owns, SeedInv, FirstGeneration', NEW k \in Conns, Recv(k)
  PROVE  SeedInv'
<1> DEFINE t == conn[k].tab
           c == [conn[k] EXCEPT !.out = Tail(@)]
           popped == [conn EXCEPT ![k] = c]
           m == conn[k].out[1]
<1>0. /\ conn \in [Conns -> ConnType] /\ tab \in [Tabs -> TabType] /\ t \in Tabs
      /\ conn[k].out # <<>> /\ conn[k].out \in Seq(OutFrames)
  BY OutType DEF TypeInv, TypeOK, Located, Recv, InServer
<1>1. UNCHANGED <<seeds, used, hub, rooms, yjsState, yjsUpdates>>
  BY DEF Recv, dbVars, historyVars
<1>2. Shorter(Tail(conn[k].out), conn[k].out) /\ m = Head(conn[k].out)
  BY <1>0, TailShorter
<1>3. c \in ConnType /\ c.out = Tail(conn[k].out) /\ c.st = conn[k].st /\ c.tab = conn[k].tab
      /\ c.done = conn[k].done /\ c.closed = conn[k].closed /\ c.cap = conn[k].cap
  <2>1. Tail(conn[k].out) \in Seq(OutFrames)
    BY <1>0, HeadTailProperties
  <2>2. c \in ConnType
    BY <1>0, <2>1, OutType
  <2>3. conn[k] \in ConnType
    BY <1>0
  <2> QED BY <2>2, <2>3 DEF ConnType
<1> HIDE DEF c, m
<1>4. \E fs : conn' = popped \/ conn' = SendOn(popped, k, fs)
  BY DEF Recv, c
<1>5. \A j \in Conns :
        /\ conn'[j].st = conn[j].st /\ conn'[j].tab = conn[j].tab
        /\ conn'[j].done = conn[j].done /\ conn'[j].closed = conn[j].closed
        /\ conn'[j].cap = conn[j].cap
        /\ conn'[j].out = IF j = k THEN Tail(conn[k].out) ELSE conn[j].out
  <2>1. /\ popped \in [Conns -> ConnType]
        /\ \A j \in Conns :
             /\ popped[j].st = conn[j].st /\ popped[j].tab = conn[j].tab
             /\ popped[j].done = conn[j].done /\ popped[j].closed = conn[j].closed
             /\ popped[j].cap = conn[j].cap
             /\ popped[j].out = IF j = k THEN Tail(conn[k].out) ELSE conn[j].out
    BY <1>0, <1>3
  <2> HIDE DEF popped
  <2> QED BY <1>4, <2>1, SendOnKeeps
<1>6. \A j \in Conns : ToldNew(conn'[j].out) => ToldNew(conn[j].out)
  BY <1>2, <1>5, NewShorter, Zenon
<1>7. /\ \A u \in Tabs : tab'[u].conn = tab[u].conn
      /\ \A u \in Tabs \ {t} : tab'[u] = tab[u]
      /\ UNCHANGED tab \/ tab[t].conn = k
      /\ tab[t].everSynced => tab'[t].everSynced
      /\ tab'[t].isNew => tab[t].isNew \/ (~tab[t].everSynced /\ m.type = "hello" /\ m.new)
      /\ tab'[t].seed => tab[t].seed \/ (tab[t].isNew /\ ~tab[t].everSynced)
  <2>1. Owned(k) => tab[t].conn = k
    <3> SUFFICES ASSUME Owned(k) PROVE tab[t].conn = k
      OBVIOUS
    <3>1. PICK u \in Tabs : tab[u].conn = k
      BY DEF Owned
    <3> QED BY <3>1, CollabAssumption DEF Owns
  <2>2. CASE UNCHANGED tab
    BY <2>2
  <2>3. CASE /\ Owned(k) /\ m.type = "hello"
             /\ tab' = [tab EXCEPT ![t].isNew = IF tab[t].everSynced THEN @ ELSE m.new]
    BY <1>0, <2>1, <2>3 DEF TabType
  <2>4. CASE Owned(k) /\ tab' = [tab EXCEPT ![t].doc = @ \cup m.doc]
    BY <1>0, <2>1, <2>4 DEF TabType
  <2>5. CASE Owned(k) /\ tab' = [tab EXCEPT ![t].everSynced = TRUE,
                                  ![t].seed = @ \/ (tab[t].isNew /\ ~tab[t].everSynced)]
    BY <1>0, <2>1, <2>5 DEF TabType
  <2> QED BY <1>2, <2>2, <2>3, <2>4, <2>5, Zenon DEF Recv
<1>8. m.type = "hello" /\ m.new => ToldNew(conn[k].out)
  BY <1>2, NewShorter DEF m
<1>9. ASSUME NEW u \in Tabs, MaySeed(u)' PROVE MaySeed(u)
  <2>1. tab[u].conn # Nil => tab[u].conn \in Conns
    BY LinkType
  <2>2. CASE u # t \/ UNCHANGED tab
    BY <1>6, <1>7, <1>9, <2>1, <2>2 DEF MaySeed
  <2>3. CASE u = t /\ tab[t].conn = k
    <3>1. k # Nil
      BY CollabAssumption
    <3> QED BY <1>6, <1>7, <1>8, <1>9, <2>3, <3>1 DEF MaySeed
  <2> QED BY <1>7, <2>2, <2>3
<1>10. Written' <=> Written
  BY <1>1 DEF Written
<1>11. ASSUME Unwritten PROVE Unwritten'
  <2>1. ASSUME NEW j \in Conns PROVE Unbroken(j)'
    <3>1. Unbroken(j) /\ (conn[j].st # "free" => conn[j].tab \in Tabs)
      BY <1>11 DEF Unwritten, TypeInv, Located
    <3>2. conn[j].st # "open" => j # k
      BY <1>0, <3>1 DEF Unbroken
    <3> QED BY <1>5, <1>7, <3>1, <3>2, UnbrokenSame
  <2>2. Seeder' = Seeder
    BY <1>1 DEF Seeder
  <2> QED BY <1>1, <1>7, <1>9, <1>11, <2>1, <2>2, UnwrittenSame
<1> QED BY <1>1, <1>9, <1>10, <1>11, SeedSame

LEMMA SeedTab ==
  ASSUME TypeInv, AllInHub, Owns, SeedInv, FirstGeneration', NEW t \in Tabs,
         Mount(t) \/ OnClose(t) \/ \E k \in Conns : Dial(t, k)
  PROVE  SeedInv'
<1>0. /\ conn \in [Conns -> ConnType] /\ tab \in [Tabs -> TabType]
      /\ \A u \in Tabs : FirstTab(tab[u])
  BY DEF TypeInv, TypeOK, SeedInv, FirstGeneration
<1>1. UNCHANGED <<seeds, used, hub, rooms, yjsState, yjsUpdates>>
  BY DEF Mount, OnClose, Dial, dbVars, historyVars
<1>2. Seeder' = Seeder /\ (Written' <=> Written)
  BY <1>1 DEF Seeder, Written
<1>3. CASE Mount(t)
  <2>1. /\ UNCHANGED conn /\ tab[t].conn = Nil
        /\ \A u \in Tabs \ {t} : tab'[u] = tab[u]
        /\ tab'[t].conn = Nil /\ ~tab'[t].seed /\ ~tab'[t].isNew
    BY <1>0, <1>3 DEF Mount, FirstTab, NewTab
  <2>2. \A u \in Tabs : (MaySeed(u)' => MaySeed(u)) /\ tab'[u].conn = tab[u].conn
    BY <2>1 DEF MaySeed
  <2>3. ASSUME Unwritten PROVE Unwritten'
    <3>1. ASSUME NEW j \in Conns PROVE Unbroken(j)'
      <4>1. Unbroken(j) /\ (conn[j].st # "free" => conn[j].tab \in Tabs)
        BY <2>3 DEF Unwritten, TypeInv, Located
      <4> QED BY <2>1, <2>2, <4>1, UnbrokenSame
    <3> QED BY <1>1, <1>2, <2>2, <2>3, <3>1, UnwrittenSame
  <2> QED BY <1>1, <1>2, <2>2, <2>3, SeedSame
<1>4. CASE OnClose(t)
  <2>1. /\ \A j \in Conns : conn'[j] = conn[j] \/ conn'[j] = FreeConn
        /\ \A u \in Tabs \ {t} : tab'[u] = tab[u]
        /\ tab'[t] = ClosedTab \/ tab'[t] = [tab[t] EXCEPT !.conn = Nil]
        /\ tab[t].conn # Nil /\ conn[tab[t].conn].closed
    BY <1>0, <1>4 DEF OnClose, LetGo
  <2>2. ~ToldNew(FreeConn.out)
    BY NewEmpty DEF FreeConn
  <2>3. /\ tab'[t].conn = Nil /\ (tab'[t].seed => tab[t].seed)
        /\ tab'[t].isNew => tab[t].isNew /\ (tab[t].everSynced => tab'[t].everSynced)
    BY <1>0, <2>1 DEF ClosedTab, NewTab, TabType
  <2>4. ASSUME NEW u \in Tabs PROVE MaySeed(u)' => MaySeed(u)
    <3>1. CASE u = t
      BY <2>3, <3>1 DEF MaySeed
    <3>2. CASE u # t
      <4>1. tab'[u] = tab[u] /\ (tab[u].conn = Nil \/ tab[u].conn \in Conns)
        BY <2>1, <3>2, LinkType
      <4> QED BY <2>1, <2>2, <4>1, NoMoreSeeds
    <3> QED BY <3>1, <3>2
  <2>5. ~Unwritten
    <3>1. tab[t].conn \in Conns
      BY <2>1, LinkType
    <3> QED BY <2>1, <3>1 DEF Unwritten, Unbroken
  <2> QED BY <1>1, <1>2, <2>4, <2>5, SeedSame
<1>5. ASSUME NEW k \in Conns, Dial(t, k) PROVE SeedInv'
  <2>1. /\ \A j \in Conns \ {k} : conn'[j] = conn[j]
        /\ conn'[k] = [FreeConn EXCEPT !.st = "accepted", !.tab = t, !.gen = tab[t].gen,
                                  !.cap = outBuffer + Len(yjsUpdates)]
        /\ \A u \in Tabs \ {t} : tab'[u] = tab[u]
        /\ tab'[t] = [tab[t] EXCEPT !.conn = k] /\ tab[t].conn = Nil
        /\ conn[k].st = "free"
    BY <1>0, <1>5 DEF Dial
  <2>2. /\ conn'[k].st = "accepted" /\ conn'[k].out = <<>> /\ conn'[k].tab = t
        /\ ~conn'[k].done /\ ~conn'[k].closed /\ conn'[k].cap >= outBuffer
    <3>1. outBuffer + Len(yjsUpdates) >= outBuffer
      BY CollabAssumption, LogFacts
    <3> QED BY <2>1, <3>1 DEF FreeConn
  <2>3. /\ tab'[t].conn = k /\ tab'[t].seed = tab[t].seed
        /\ tab'[t].isNew = tab[t].isNew /\ tab'[t].everSynced = tab[t].everSynced
    BY <1>0, <2>1 DEF TabType
  <2>4. ASSUME NEW u \in Tabs PROVE MaySeed(u)' => MaySeed(u)
    <3>1. CASE u = t
      BY <2>2, <2>3, <3>1, NewEmpty DEF MaySeed
    <3>2. CASE u # t
      <4>1. tab'[u] = tab[u] /\ (tab[u].conn = Nil \/ tab[u].conn \in Conns)
        BY <2>1, <3>2, LinkType
      <4>2. ~ToldNew(conn'[k].out)
        BY <2>2, NewEmpty
      <4>3. CASE tab[u].conn = k
        BY <2>1, <4>1, <4>2, <4>3, NoMoreSeeds
      <4>4. CASE tab[u].conn # k
        <5>1. tab[u].conn # Nil => conn'[tab[u].conn] = conn[tab[u].conn]
          BY <2>1, <4>1, <4>4
        <5> QED BY <4>1, <5>1, NoMoreSeeds
      <4> QED BY <4>3, <4>4
    <3> QED BY <3>1, <3>2
  <2>5. ASSUME Unwritten PROVE Unwritten'
    <3>1. ASSUME NEW j \in Conns PROVE Unbroken(j)'
      <4>1. Unbroken(j) /\ (conn[j].st # "free" => conn[j].tab \in Tabs) /\ j # Nil
        BY <2>5, CollabAssumption DEF Unwritten, TypeInv, Located
      <4>2. CASE j = k
        BY <2>2, <2>3, <4>2 DEF Unbroken
      <4>3. CASE j # k
        <5>1. conn[j].st # "free" => conn[j].tab # t
          BY <2>1, <4>1 DEF Unbroken
        <5> QED BY <2>1, <4>1, <4>3, <5>1 DEF Unbroken
      <4> QED BY <4>2, <4>3
    <3>2. \A u \in Tabs : MaySeed(u) => tab'[u].conn = tab[u].conn
      <4>1. ~MaySeed(t)
        BY <2>1, <2>5 DEF Unwritten
      <4> QED BY <2>1, <4>1
    <3> QED BY <1>1, <1>2, <2>4, <2>5, <3>1, <3>2, UnwrittenSame
  <2> QED BY <1>1, <1>2, <2>4, <2>5, SeedSame
<1> QED BY <1>3, <1>4, <1>5

LEMMA SeedMakes ==
  ASSUME TypeInv, SeedInv, FirstGeneration', NEW t \in Tabs, Seed(t) \/ Edit(t)
  PROVE  SeedInv'
<1>0. /\ conn \in [Conns -> ConnType] /\ tab \in [Tabs -> TabType]
      /\ FirstTab(tab[t])
  BY DEF TypeInv, TypeOK, SeedInv, FirstGeneration
<1>1. UNCHANGED <<used, hub, rooms, yjsState, yjsUpdates>>
  BY DEF Seed, Edit, dbVars
<1>2. Seeder' = Seeder /\ (Written' <=> Written)
  BY <1>1 DEF Seeder, Written
<1>3. \/ Makes(t)
      \/ UNCHANGED conn /\ seeds' = seeds /\ tab' = [tab EXCEPT ![t].seed = FALSE]
  BY DEF Seed, Edit
<1>4. /\ \A u \in Tabs \ {t} : tab'[u] = tab[u]
      /\ tab'[t].conn = tab[t].conn /\ ~tab'[t].seed /\ tab'[t].isNew = tab[t].isNew
      /\ tab'[t].everSynced = tab[t].everSynced
  <2>1. CASE Makes(t)
    <3>1. tab' = [tab EXCEPT ![t].doc = @ \cup {edits + 1}, ![t].seed = FALSE]
      BY <2>1 DEF Makes
    <3> QED BY <1>0, <3>1 DEF TabType
  <2> QED BY <1>0, <1>3, <2>1 DEF TabType
<1>5. \A j \in Conns :
        /\ conn'[j].st = conn[j].st /\ conn'[j].tab = conn[j].tab
        /\ conn'[j].done = conn[j].done /\ conn'[j].closed = conn[j].closed
        /\ conn'[j].cap = conn[j].cap /\ conn'[j].out = conn[j].out
  <2>1. CASE Makes(t)
    <3>1. conn' = SendOn(conn, tab[t].conn, <<Update({edits + 1})>>)
      BY <2>1 DEF Makes
    <3> QED BY <1>0, <3>1, SendOnKeeps
  <2> QED BY <1>3, <2>1
<1>6. ASSUME NEW u \in Tabs PROVE MaySeed(u)' => MaySeed(u)
  <2>1. tab[u].conn = Nil \/ tab[u].conn \in Conns
    BY LinkType
  <2>2. CASE u = t
    BY <1>4, <1>5, <2>1, <2>2, NoMoreSeeds
  <2>3. CASE u # t
    BY <1>4, <1>5, <2>1, <2>3, NoMoreSeeds
  <2> QED BY <2>2, <2>3
<1>7. ASSUME Unwritten PROVE \A j \in Conns : Unbroken(j)'
  <2> SUFFICES ASSUME NEW j \in Conns PROVE Unbroken(j)'
    OBVIOUS
  <2>1. Unbroken(j) /\ (conn[j].st # "free" => conn[j].tab \in Tabs)
    BY <1>7 DEF Unwritten, TypeInv, Located
  <2>2. \A u \in Tabs : tab'[u].conn = tab[u].conn
    BY <1>4
  <2> QED BY <1>5, <2>1, <2>2, UnbrokenSame
<1>8. CASE seeds' = seeds
  <2>1. Unwritten => Unwritten'
    BY <1>2, <1>4, <1>6, <1>7, <1>8, UnwrittenSame
  <2> QED BY <1>1, <1>2, <1>6, <1>8, <2>1, SeedSame
<1>9. CASE seeds' = seeds \cup {edits + 1} /\ tab[t].seed
  <2> SUFFICES ASSUME used.fault = 0 PROVE OneSeeds' /\ (~Written' => Unwritten')
    BY <1>1 DEF SeedInv
  <2>1. OneSeeds /\ (~Written => Unwritten) /\ MaySeed(t)
    BY <1>9 DEF SeedInv, MaySeed
  <2>2. seeds' = {edits + 1} /\ \A u \in Tabs : MaySeed(u) => u = t
    BY <1>9, <2>1 DEF OneSeeds
  <2>3. ~MaySeed(t)'
    BY <1>0, <1>4, <1>9 DEF MaySeed, FirstTab
  <2>4. \A u \in Tabs : ~MaySeed(u)'
    BY <1>6, <2>2, <2>3
  <2>5. OneSeeds'
    BY <2>2, <2>4 DEF OneSeeds
  <2>6. ~Written' => Unwritten'
    BY <1>2, <1>7, <2>1, <2>4 DEF Unwritten
  <2> QED BY <2>5, <2>6
<1> QED BY <1>8, <1>9 DEF Seed, Edit

LEMMA StepSeed ==
  ASSUME NoReset, outBuffer >= 2, TypeInv, AllInHub, Counted, Owns, AllMayRead, SeedInv,
         [Next]_vars
  PROVE  SeedInv'
<1>0. FirstGeneration'
  BY FirstStep DEF SeedInv
<1>1. ASSUME NEW k \in Conns, ServerStep(k) PROVE SeedInv'
  BY <1>0, <1>1, SeedServer, SeedRecheck, SeedReads, SeedJoin, SeedPersists, SeedLoad
     DEF ServerStep
<1>2. ASSUME \/ Restart \/ \E k \in Conns : NetDrop(k) \/ CrashInSnapshot(k)
             \/ \E t \in Tabs : Abandon(t) \/ CloseTab(t) \/ EndAccess(t)
      PROVE  SeedInv'
  <2>1. Fault
    BY <1>2 DEF Restart, NetDrop, CrashInSnapshot, Abandon, CloseTab,
       EndAccess, LosesWrite, LosesRead
  <2> QED BY <1>0, <2>1, SeedFault
<1>3. ASSUME NEW t \in Tabs,
             \/ Mount(t) \/ OnClose(t) \/ Seed(t) \/ Edit(t) \/ \E k \in Conns : Dial(t, k)
      PROVE  SeedInv'
  BY <1>0, <1>3, SeedTab, SeedMakes
<1>4. CASE UNCHANGED vars
  <2>1. UNCHANGED <<used, hub, rooms, yjsState, yjsUpdates, seeds, conn, tab>>
    BY <1>4 DEF vars
  <2>2. \A t \in Tabs : MaySeed(t)' <=> MaySeed(t)
    BY <2>1 DEF MaySeed
  <2>3. Unwritten => Unwritten'
    BY <2>1, <2>2 DEF Unwritten, Unbroken, Seeder
  <2>4. Written => Written'
    BY <2>1 DEF Written
  <2> QED BY <1>0, <2>1, <2>2, <2>3, <2>4, SeedSame
<1> QED BY <1>0, <1>1, <1>2, <1>3, <1>4, SeedRecv, WriterAllInHub DEF Next, TabStep

LEMMA InitSeed == Init => SeedInv
<1> SUFFICES ASSUME Init PROVE SeedInv
  OBVIOUS
<1>1. /\ \A t \in Tabs : tab[t] = ClosedTab
      /\ \A k \in Conns : conn[k] = FreeConn
      /\ seeds = {} /\ hub = NoRoom
  BY DEF Init
<1>2. FirstTab(ClosedTab) /\ FreeConn.gen = 0
  BY DEF FirstTab, ClosedTab, NewTab, FreeConn
<1>3. \A t \in Tabs : ~MaySeed(t)
  BY <1>1 DEF MaySeed, ClosedTab, NewTab
<1>4. \A k \in Conns : Unbroken(k)
  BY <1>1 DEF Unbroken, FreeConn
<1> QED BY <1>1, <1>2, <1>3, <1>4 DEF SeedInv, FirstGeneration, OneSeeds, Unwritten

(* A new document is seeded once, as long as no connection breaks: of the  *)
(* clients that open it together one is told that it is new                *)
(* (collab.go:514-515).  No queue needs to be long for it; a buffer of two *)
(* frames, hello and synced, holds what a joiner of a new document is sent,*)
(* and the code's holds 512.                                               *)
THEOREM TheSeedIsOne == NoReset /\ outBuffer >= 2 => (Spec => []SeededOnce)
<1> SUFFICES ASSUME NoReset, outBuffer >= 2 PROVE Spec => []SeededOnce
  OBVIOUS
<1> DEFINE IInv == Working /\ AllMayRead /\ SeedInv
<1>1. Init => IInv
  <2> SUFFICES ASSUME Init PROVE Owns /\ Compacting /\ AllMayRead
    BY InitType, InitMembers, InitAllInHub, InitCounted, InitSeed DEF Working
  <2>1. AllMayRead
    BY DEF Init, AllMayRead
  <2>2. Owns /\ Compacting
    BY DEF Init, Owns, Compacting, ClosedTab, NewTab, NewRoom
  <2> QED BY <2>1, <2>2
<1>2. IInv /\ [Next]_vars => IInv'
  BY StepType, StepMembers, StepAllInHub, StepCounted, StepGoesOn, StepAllMayRead, StepSeed
     DEF Working
<1>3. IInv => SeededOnce
  <2> SUFFICES ASSUME IInv, used.fault = 0
               PROVE  Cardinality({u \in Kept \cap seeds : bornIn[u] = docGen}) <= 1
    BY DEF SeededOnce
  <2> DEFINE S == {u \in Kept \cap seeds : bornIn[u] = docGen}
  <2>1. \A u, v \in S : u = v
    BY DEF SeedInv, OneSeeds
  <2>2. S = {} \/ \E u : S = {u}
    BY <2>1
  <2> HIDE DEF S
  <2>3. Cardinality(S) = 0 \/ Cardinality(S) = 1
    BY <2>2, FS_EmptySet, FS_Singleton, Zenon
  <2>4. Cardinality(S) <= 1
    BY <2>3
  <2> QED BY <2>4 DEF S
<1> QED BY <1>1, <1>2, <1>3, PTL DEF Spec

-----------------------------------------------------------------------------
(* Where AsksTheLiving comes from: while no queue runs full, the only      *)
(* connections that are done and still read from are those of tabs that    *)
(* may not write any more, and nobody asks them for anything.              *)

\* Nobody who may write was shut down over a socket that is still open.
NoOverflow ==
  \A k \in Conns : conn[k].st = "open" /\ ~conn[k].closed /\ conn[k].tab \in mayWrite
                     => ~conn[k].done

\* d has no frame in its outbound queue that c does not have.
NoMoreOut(d, c) == d.out = c.out \/ d.out = <<>> \/ Shorter(d.out, c.out)

LEMMA NoMoreOutHas ==
  ASSUME NEW c, NEW d, NoMoreOut(d, c), NEW type, ~Has(c.out, type)
  PROVE  ~Has(d.out, type)
<1>1. CASE d.out = c.out
  BY <1>1
<1>2. CASE d.out = <<>>
  BY <1>2 DEF Has
<1>3. CASE Shorter(d.out, c.out)
  BY <1>3, HasShorter
<1> QED BY <1>1, <1>2, <1>3 DEF NoMoreOut

LEMMA NoMoreOutOps ==
  ASSUME NEW c \in ConnType
  PROVE  /\ NoMoreOut(c, c) /\ NoMoreOut(Taken(c), c) /\ NoMoreOut(Cut(c), c)
         /\ NoMoreOut(Shutdown(c), c)
         /\ NoMoreOut([c EXCEPT !.closed = TRUE], c)
         /\ NoMoreOut([c EXCEPT !.st = "refused"], c)
         /\ \A r : NoMoreOut([c EXCEPT !.st = "joined", !.room = r], c)
         /\ \A q : NoMoreOut([c EXCEPT !.inq = q], c)
BY DEF NoMoreOut, Taken, Cut, Shutdown, ConnType

LEMMA ServerOut ==
  ASSUME TypeInv, NEW k \in Conns,
         \/ RefuseStale(k) \/ DropFrame(k) \/ PersistFails(k) \/ SnapshotFails(k)
         \/ ApplySnapshot(k) \/ CloseSocket(k) \/ NetDrop(k) \/ PeerGone(k) \/ Recheck(k)
         \/ Join(k) \/ Leave(k),
         NEW j \in Conns
  PROVE  NoMoreOut(conn'[j], conn[j])
<1>0. conn \in [Conns -> ConnType]
  BY DEF TypeInv, TypeOK
<1>1. CASE DropFrame(k) \/ PersistFails(k) \/ SnapshotFails(k) \/ ApplySnapshot(k)
  <2>1. conn' = [conn EXCEPT ![k] = Taken(@)]
    BY <1>1 DEF DropFrame, PersistFails, SnapshotFails, ApplySnapshot
  <2> QED BY <1>0, <2>1, NoMoreOutOps, Zenon
<1>2. CASE NetDrop(k) \/ PeerGone(k) \/ Recheck(k)
  <2>1. conn' = [conn EXCEPT ![k] = Cut(@)] \/ conn' = [conn EXCEPT ![k] = Shutdown(@)]
    BY <1>2 DEF NetDrop, PeerGone, Recheck
  <2> QED BY <1>0, <2>1, NoMoreOutOps, Zenon
<1>3. CASE RefuseStale(k)
  <2>1. conn' = [conn EXCEPT ![k].st = "refused"]
    BY <1>3 DEF RefuseStale
  <2> QED BY <1>0, <2>1, NoMoreOutOps, Zenon
<1>4. CASE CloseSocket(k)
  <2>1. conn' = [conn EXCEPT ![k].closed = TRUE]
    BY <1>4 DEF CloseSocket
  <2> QED BY <1>0, <2>1, NoMoreOutOps, Zenon
<1>5. CASE Join(k)
  <2>1. PICK r : conn' = [conn EXCEPT ![k].st = "joined", ![k].room = r]
    BY <1>5 DEF Join
  <2> QED BY <1>0, <2>1, NoMoreOutOps, Zenon
<1>6. CASE Leave(k)
  <2>1. PICK code : conn' = [conn EXCEPT ![k] = Released(k, code)]
    BY <1>6 DEF Leave
  <2>2. Released(k, code).out = <<>>
    BY ReleasedEmpty DEF Empty
  <2> QED BY <1>0, <2>1, <2>2, NoMoreOutOps DEF NoMoreOut
<1> QED BY <1>1, <1>2, <1>3, <1>4, <1>5, <1>6

LEMMA TabOut ==
  ASSUME TypeInv, NEW t \in Tabs, TabStep(t), NEW j \in Conns
  PROVE  NoMoreOut(conn'[j], conn[j])
<1>0. conn \in [Conns -> ConnType] /\ FreeConn.out = <<>>
  BY DEF TypeInv, TypeOK, FreeConn
<1>1. CASE Mount(t)
  BY <1>0, <1>1, NoMoreOutOps, Zenon DEF Mount
<1>2. CASE Seed(t) \/ Edit(t)
  <2>1. \/ UNCHANGED conn
        \/ \E fs : conn' = SendOn(conn, tab[t].conn, fs)
    BY <1>2 DEF Seed, Edit, Makes
  <2>2. \A fs : SendOn(conn, tab[t].conn, fs)[j].out = conn[j].out
    BY <1>0, SendOnKeeps
  <2> QED BY <1>0, <2>1, <2>2, NoMoreOutOps DEF NoMoreOut
<1>3. CASE OnClose(t) \/ Abandon(t) \/ CloseTab(t)
  <2>1. conn'[j] = conn[j] \/ conn'[j] = FreeConn
    BY <1>0, <1>3 DEF OnClose, Abandon, CloseTab, LetGo
  <2> QED BY <1>0, <2>1, NoMoreOutOps DEF NoMoreOut
<1>4. CASE EndAccess(t)
  <2>1. conn'[j] = conn[j] \/ conn'[j] = Shutdown(conn[j])
    BY <1>0, <1>4 DEF EndAccess, LosesWrite, LosesRead
  <2> QED BY <1>0, <2>1, NoMoreOutOps, Zenon
<1> QED BY <1>1, <1>2, <1>3, <1>4 DEF TabStep

\* While no queue runs full, a request goes to nobody who is done.
LEMMA OnlyTheLiving ==
  ASSUME NoReset, TypeInv, AllInHub, Counted, Owns, NoOverflow, [Next]_vars
  PROVE  [AsksTheLiving]_vars
<1>0. conn \in [Conns -> ConnType] /\ Owners
  BY DEF TypeInv, TypeOK, Owns, Owners
<1> SUFFICES ASSUME NEW j \in Conns, conn[j].done, ~Has(conn[j].out, "snapshotRequest")
             PROVE  ~Has(conn'[j].out, "snapshotRequest")
  BY DEF AsksTheLiving
<1>1. ASSUME NoMoreOut(conn'[j], conn[j]) PROVE ~Has(conn'[j].out, "snapshotRequest")
  BY <1>1, NoMoreOutHas
<1>2. ASSUME NEW k \in Conns, PersistUpdate(k)
      PROVE  ~Has(conn'[j].out, "snapshotRequest")
  <2>1. j # k
    BY <1>2 DEF PersistUpdate, Reads, NoOverflow
  <2>2. LET m == conn[k].inq[1] IN
        m.type = "update" /\ (conn'[j] = conn[j] \/ Relayed(conn'[j], conn[j], m))
    BY <1>2, <2>1, PersistEffect
  <2>3. ASSUME Longer(conn'[j].out, conn[j].out, conn[k].inq[1])
        PROVE  ~Has(conn'[j].out, "snapshotRequest")
    BY <2>2, <2>3, HasLonger
  <2> QED BY <2>2, <2>3 DEF Relayed
<1>3. ASSUME NEW k \in Conns, Load(k) PROVE ~Has(conn'[j].out, "snapshotRequest")
  <2>1. CASE j # k
    BY <1>3, <2>1, LoadEffect
  <2>2. CASE j = k
    <3>1. PICK gs \in Seq(OutFrames) :
            /\ conn'[k].out = conn[k].out \o gs
            /\ \A i \in 1 .. Len(gs) : gs[i].type # "snapshotRequest"
      BY <1>3, LoadEffect
    <3>2. ~Has(gs, "snapshotRequest")
      BY <3>1 DEF Has
    <3>3. conn[k].out \in Seq(OutFrames)
      BY <1>0, OutType
    <3> QED BY <2>2, <3>1, <3>2, <3>3, ConcatEffect
  <2> QED BY <2>1, <2>2
<1>4. ASSUME NEW k \in Conns, Recv(k) PROVE NoMoreOut(conn'[j], conn[j])
  <2>1. (j # k => conn'[j] = conn[j]) /\ Shorter(conn'[k].out, conn[k].out)
    BY <1>0, <1>4, RecvEffect
  <2> QED BY <1>0, <2>1, NoMoreOutOps DEF NoMoreOut
<1>5. ASSUME NEW k \in Conns, ServerStep(k) \/ NetDrop(k)
      PROVE  ~Has(conn'[j].out, "snapshotRequest")
  BY <1>1, <1>2, <1>3, <1>5, ServerOut DEF ServerStep
<1>6. ASSUME Restart \/ \E k \in Conns : CrashInSnapshot(k)
      PROVE  NoMoreOut(conn'[j], conn[j])
  <2>1. conn'[j] = conn[j] \/ conn'[j] = Released(j, "other")
    BY <1>6 DEF Restart, CrashInSnapshot, LosesMemory
  <2>2. Released(j, "other").out = <<>>
    BY ReleasedEmpty DEF Empty
  <2> QED BY <1>0, <2>1, <2>2, NoMoreOutOps DEF NoMoreOut
<1>7. ASSUME NEW t \in Tabs, NEW k \in Conns, Dial(t, k)
      PROVE  NoMoreOut(conn'[j], conn[j])
  <2>1. \/ conn'[j] = conn[j]
        \/ conn'[j].out = <<>>
    BY <1>0, <1>7 DEF Dial, FreeConn
  <2> QED BY <1>0, <2>1, NoMoreOutOps DEF NoMoreOut
<1>8. CASE UNCHANGED vars
  BY <1>8 DEF vars
<1> QED BY <1>1, <1>4, <1>5, <1>6, <1>7, <1>8, TabOut, WriterAllInHub DEF Next

(* The three theorems with AsksTheLiving hold while no queue runs full: as *)
(* long as enqueue shuts nobody down who may write (collab.go:101-108),    *)
(* compaction loses nothing, nobody misses an update and, while the disk   *)
(* has not failed, all who may write see the same.                         *)
THEOREM WhileNoQueueRunsFull ==
  NoReset => (Spec /\ []NoOverflow =>
    /\ []NothingLost /\ []NothingMissed /\ [](used.disk = 0 => SameForAll))
<1> SUFFICES ASSUME NoReset
             PROVE  Spec /\ []NoOverflow =>
                      /\ []NothingLost /\ []NothingMissed
                      /\ [](used.disk = 0 => SameForAll)
  OBVIOUS
<1>1. Init => Working
  <2> SUFFICES ASSUME Init PROVE Owns /\ Compacting
    BY InitType, InitMembers, InitAllInHub, InitCounted DEF Working
  <2> QED BY DEF Init, Owns, Compacting, ClosedTab, NewTab, NewRoom
<1>2. Working /\ [Next]_vars => Working'
  BY StepType, StepMembers, StepAllInHub, StepCounted, StepGoesOn DEF Working
<1>3. Working /\ NoOverflow /\ [Next]_vars => [AsksTheLiving]_vars
  BY OnlyTheLiving DEF Working
<1>4. Spec /\ []NoOverflow => [][AsksTheLiving]_vars
  BY <1>1, <1>2, <1>3, PTL DEF Spec
<1>5. Spec /\ [][AsksTheLiving]_vars => []NothingLost
  BY CompactionLosesNothing
<1>6. Spec /\ [][AsksTheLiving]_vars => []NothingMissed
  BY NobodyMissesAnUpdate
<1>7. Spec /\ [][AsksTheLiving]_vars => [](used.disk = 0 => SameForAll)
  BY AllSeeTheSame
<1> QED BY <1>4, <1>5, <1>6, <1>7, PTL
=============================================================================
