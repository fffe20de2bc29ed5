----------------------------- MODULE FeedProofs -----------------------------
(***************************************************************************)
(* How the screens of one browser follow the server, proved for every      *)
(* number of requests under way, of steps in a reading and of changes, and *)
(* for every size of the channel.                                          *)
(*                                                                         *)
(* The three lists share the stream and nothing else, so each has its own  *)
(* part of the inductive invariant: either the list on screen is the       *)
(* server's, or something that will fetch it is still under way, or one of *)
(* the faults the property names has happened.                             *)
(***************************************************************************)
EXTENDS Feed, TLAPS

USE CapAssumption, StepsAssumption, BoundsAssumption, NilAssumption

Stages == {"connecting", "dead", "closed"}

-----------------------------------------------------------------------------
(* Sequences: what is in the channel, and what was shown of a reading.     *)

In(t, q) == \E i \in DOMAIN q : q[i] = t

LEMMA InAppended ==
  ASSUME NEW q \in Seq(Topics), NEW t \in Topics, NEW u
  PROVE  /\ Append(q, t) \in Seq(Topics) /\ Len(Append(q, t)) = Len(q) + 1
         /\ In(t, Append(q, t))
         /\ In(u, q) => In(u, Append(q, t))
<1>1. Append(q, t) \in Seq(Topics) /\ Len(Append(q, t)) = Len(q) + 1
  OBVIOUS
<1>2. Append(q, t)[Len(q) + 1] = t
  OBVIOUS
<1>3. \A i \in DOMAIN q : i \in DOMAIN Append(q, t) /\ Append(q, t)[i] = q[i]
  OBVIOUS
<1> QED BY <1>1, <1>2, <1>3 DEF In

LEMMA InTail ==
  ASSUME NEW q \in Seq(Topics), q # <<>>, NEW u
  PROVE  /\ Head(q) \in Topics
         /\ Tail(q) \in Seq(Topics) /\ Len(Tail(q)) = Len(q) - 1
         /\ In(u, q) => u = Head(q) \/ In(u, Tail(q))
<1>1. /\ Tail(q) \in Seq(Topics) /\ Len(Tail(q)) = Len(q) - 1
      /\ Head(q) = q[1] /\ Head(q) \in Topics
  OBVIOUS
<1>2. ASSUME NEW i \in DOMAIN q, i # 1
      PROVE  i - 1 \in DOMAIN Tail(q) /\ Tail(q)[i - 1] = q[i]
  BY <1>2
<1> QED BY <1>1, <1>2 DEF In

LEMMA Grown ==
  ASSUME NEW q \in Seq(Nat), NEW v \in Nat
  PROVE  /\ Append(q, v) \in Seq(Nat) /\ Append(q, v) # <<>>
         /\ Len(Append(q, v)) = Len(q) + 1
         /\ Append(q, v)[Len(q) + 1] = v
         /\ \A i \in 1 .. Len(q) : Append(q, v)[i] = q[i]
OBVIOUS

-----------------------------------------------------------------------------
(* Types.                                                                  *)

LEMMA CrawlParts ==
  ASSUME TypeOK, NEW s \in Slots, crawls[s] # Idle
  PROVE  /\ crawls[s] \in Crawl /\ crawls[s].epoch \in Nat
         /\ crawls[s].got \in Seq(Nat)
         /\ crawls[s].read \in Nat \cup {Asked}
<1>1. crawls[s] \in Crawl
  BY DEF TypeOK
<1> QED BY <1>1 DEF Crawl

(* A new reading starts from nothing, under a number of its own. *)
LEMMA NewCrawl ==
  ASSUME TypeOK, LoadRows
  PROVE  /\ epoch' = epoch + 1 /\ epoch' \in Nat
         /\ crawls' \in [Slots -> Crawl \cup {Idle}]
         /\ \E s \in Slots :
                /\ crawls[s] = Idle
                /\ crawls' = [crawls EXCEPT ![s] =
                      [epoch |-> epoch', got |-> <<>>, read |-> Asked]]
<1>1. PICK s \in Slots :
          /\ crawls[s] = Idle
          /\ crawls' = [crawls EXCEPT ![s] =
                [epoch |-> epoch + 1, got |-> <<>>, read |-> Asked]]
  BY DEF LoadRows
<1>2. epoch' = epoch + 1 /\ epoch' \in Nat
  BY DEF LoadRows, TypeOK
<1>3. [epoch |-> epoch + 1, got |-> <<>>, read |-> Asked] \in Crawl
  BY <1>2 DEF Crawl
<1> QED BY <1>1, <1>2, <1>3 DEF TypeOK

(* What a step of a reading does: nothing when the reading is not the      *)
(* newest, or it is drawn.                                                 *)
LEMMA ShownRows ==
  ASSUME TypeOK, NEW s \in Slots, ShowRows(s)
  PROVE  LET c == crawls[s]
             got == Append(c.got, c.read)
         IN  /\ c # Idle /\ c.read \in Nat /\ got \in Seq(Nat)
             /\ crawls' \in [Slots -> Crawl \cup {Idle}]
             /\ \/ /\ c.epoch # epoch /\ rows' = rows
                   /\ crawls' = [crawls EXCEPT ![s] = Idle]
                \/ /\ c.epoch = epoch /\ rows' = got /\ Len(got) = Steps
                   /\ crawls' = [crawls EXCEPT ![s] = Idle]
                \/ /\ c.epoch = epoch /\ rows' = got /\ Len(got) # Steps
                   /\ crawls' = [crawls EXCEPT ![s] =
                         [epoch |-> epoch, got |-> got, read |-> Asked]]
<1> DEFINE c == crawls[s]
           got == Append(c.got, c.read)
<1>1. c # Idle /\ c.read \in Nat
  BY DEF ShowRows
<1>2. c \in Crawl /\ c.got \in Seq(Nat) /\ c.epoch \in Nat
  BY <1>1, CrawlParts
<1>3. got \in Seq(Nat)
  BY <1>1, <1>2
<1>4. [epoch |-> epoch, got |-> got, read |-> Asked] \in Crawl
  BY <1>3 DEF Crawl, TypeOK
<1>5. /\ c.epoch = epoch => rows' = got
      /\ c.epoch # epoch => rows' = rows
      /\ c.epoch # epoch \/ Len(got) = Steps
            => crawls' = [crawls EXCEPT ![s] = Idle]
      /\ c.epoch = epoch /\ Len(got) # Steps
            => crawls' = [crawls EXCEPT ![s] =
                             [epoch |-> epoch, got |-> got, read |-> Asked]]
  BY DEF ShowRows, Newest
<1> HIDE DEF c, got
<1>6. crawls' \in [Slots -> Crawl \cup {Idle}]
  BY <1>4, <1>5 DEF TypeOK
<1> QED BY <1>1, <1>3, <1>4, <1>5, <1>6 DEF c, got

LEMMA InitType == Init => TypeOK
<1> SUFFICES ASSUME Init PROVE TypeOK
  OBVIOUS
<1>1. rows \in Seq(Nat)
  BY DEF Init
<1>2. queue \in Seq(Topics) /\ Len(queue) <= Cap
  BY DEF Init
<1>3. asking \in [Slots -> Nat \cup {Idle, Asked}]
      /\ crawls \in [Slots -> Crawl \cup {Idle}]
      /\ server \in [Topics -> Nat]
  BY DEF Init
<1> QED BY <1>1, <1>2, <1>3 DEF Init, TypeOK, Streams

(* What is lost with a connection. *)
LEMMA LostQueue ==
  ASSUME TypeOK, LoseQueue
  PROVE  /\ queue' = <<>> /\ missed \subseteq missed'
         /\ missed' \subseteq Topics \X {"full", "gap"}
         /\ \A t : In(t, queue) => <<t, "gap">> \in missed'
<1>1. \A i \in DOMAIN queue : queue[i] \in Topics
  BY DEF TypeOK
<1> QED BY <1>1 DEF LoseQueue, TypeOK, In

(* Every step keeps every variable in its type. *)
LEMMA NextType ==
  ASSUME TypeOK, [Next]_vars
  PROVE  TypeOK'
<1> USE DEF TypeOK, net, screen, ghosts
<1>1. ASSUME NEW t \in Topics, Write(t) PROVE TypeOK'
  BY <1>1 DEF Write
<1>2. ASSUME NEW t \in Topics, Announce(t) PROVE TypeOK'
  <2>1. queue' \in Seq(Topics) /\ Len(queue') <= Cap
    BY <1>2, InAppended DEF Announce, HasRoom
  <2>2. missed' \subseteq Topics \X {"full", "gap"}
    BY <1>2 DEF Announce
  <2> QED BY <1>2, <2>1, <2>2 DEF Announce
<1>3. ASSUME LoadPages
      PROVE  asking' \in [Slots -> Nat \cup {Idle, Asked}]
  BY <1>3 DEF LoadPages
<1>4. ASSUME NEW s \in Slots, ReadPages(s) \/ ShowPages(s) PROVE TypeOK'
  BY <1>4 DEF ReadPages, ShowPages, Topics
<1>5. ASSUME NEW s \in Slots, ReadRows(s) PROVE TypeOK'
  <2>1. crawls[s] \in Crawl /\ server["rows"] \in Nat
    BY <1>5, CrawlParts DEF ReadRows, Topics
  <2>2. [crawls[s] EXCEPT !.read = server["rows"]] \in Crawl
    BY <2>1 DEF Crawl
  <2>3. crawls' = [crawls EXCEPT ![s] =
                      [crawls[s] EXCEPT !.read = server["rows"]]]
    BY <1>5 DEF ReadRows
  <2>4. crawls' \in [Slots -> Crawl \cup {Idle}]
    BY <2>2, <2>3
  <2> QED BY <1>5, <2>4 DEF ReadRows
<1>6. ASSUME NEW s \in Slots, ShowRows(s) PROVE TypeOK'
  <2>1. crawls' \in [Slots -> Crawl \cup {Idle}] /\ rows' \in Seq(Nat)
    BY <1>6, ShownRows
  <2> QED BY <1>6, <2>1 DEF ShowRows
<1>7. CASE ReadAgents \/ ShowAgents
  <2>1. looking' \in Nat \cup {Idle, Asked} /\ agents' \in Nat
    BY <1>7 DEF ReadAgents, ShowAgents, Topics
  <2> QED BY <1>7, <2>1 DEF ReadAgents, ShowAgents
<1>8. CASE Fail
  <2>1. crawls' \in [Slots -> Crawl \cup {Idle}]
        /\ asking' \in [Slots -> Nat \cup {Idle, Asked}]
        /\ looking' \in Nat \cup {Idle, Asked}
    BY <1>8 DEF Fail
  <2>2. extras' \in Nat
    BY <1>8 DEF Fail
  <2>3. \E t \in Topics : failed' = failed \cup {t}
    BY <1>8 DEF Fail, Topics
  <2> QED BY <1>8, <2>1, <2>2, <2>3 DEF Fail
<1>9. CASE Accept
  BY <1>9 DEF Accept, Streams
<1>10. CASE Open
  BY <1>3, <1>10 DEF Open, Streams
<1>11. CASE Hear
  <2>1. queue' \in Seq(Topics) /\ Len(queue') <= Cap
    BY <1>11, InTail DEF Hear
  <2>2. looking' \in Nat \cup {Idle, Asked}
    BY <1>11 DEF Hear, LoadAgents
  <2>3. /\ timer' \subseteq {"pages", "rows"} /\ watch' \in BOOLEAN
        /\ swallowed' \in BOOLEAN
    BY <1>11 DEF Hear
  <2> QED BY <1>11, <2>1, <2>2, <2>3 DEF Hear
<1>12. CASE ReloadPages
  BY <1>3, <1>12 DEF ReloadPages
<1>19. CASE Return
  BY <1>3, <1>19 DEF Return
<1>13. CASE ReloadRows
  <2>1. LoadRows
    BY <1>13 DEF ReloadRows
  <2> QED BY <1>13, <2>1, NewCrawl DEF ReloadRows
<1>14. ASSUME Reconnect
       PROVE  /\ stream' \in Streams /\ watch' \in BOOLEAN
              /\ queue' \in Seq(Topics) /\ Len(queue') <= Cap
              /\ timer' \subseteq {"pages", "rows"}
              /\ missed' \subseteq Topics \X {"full", "gap"}
  <2>1. LoseQueue
    BY <1>14 DEF Reconnect
  <2>2. /\ queue' = <<>>
        /\ missed' \subseteq Topics \X {"full", "gap"}
    BY <2>1, LostQueue
  <2>3. queue' \in Seq(Topics) /\ Len(queue') <= Cap
    BY <2>2
  <2> QED BY <1>14, <2>2, <2>3 DEF Reconnect, Streams
<1>15. CASE Watchdog
  <2>1. Reconnect
    BY <1>15 DEF Watchdog
  <2> QED BY <1>14, <1>15, <2>1 DEF Watchdog
<1>16. CASE Refresh
  <2>1. Reconnect /\ LoadPages /\ LoadRows
    BY <1>16 DEF Refresh
  <2>2. /\ asking' \in [Slots -> Nat \cup {Idle, Asked}]
        /\ epoch' \in Nat /\ crawls' \in [Slots -> Crawl \cup {Idle}]
    BY <1>3, <2>1, NewCrawl
  <2>3. extras' \in Nat
    BY <1>16 DEF Refresh
  <2> QED BY <1>14, <1>16, <2>1, <2>2, <2>3 DEF Refresh
<1>17. ASSUME NEW to \in Stages, Break(to) PROVE TypeOK'
  <2>1. LoseQueue
    BY <1>17 DEF Break
  <2>2. /\ queue' = <<>>
        /\ missed' \subseteq Topics \X {"full", "gap"}
    BY <2>1, LostQueue
  <2>3. queue' \in Seq(Topics) /\ Len(queue') <= Cap
    BY <2>2
  <2>4. stream' \in Streams /\ extras' \in Nat
    BY <1>17 DEF Break, Stages, Streams
  <2> QED BY <1>17, <2>2, <2>3, <2>4 DEF Break
<1>18. CASE UNCHANGED vars
  BY <1>18 DEF vars
<1> QED
  BY <1>1, <1>2, <1>4, <1>5, <1>6, <1>7, <1>8, <1>9, <1>10, <1>11, <1>12,
     <1>13, <1>15, <1>16, <1>17, <1>18, <1>19 DEF Next, Stages

-----------------------------------------------------------------------------
(* The list of pages.                                                      *)

(* The faults the property names. *)
PagesExcused ==
    \/ <<"pages", "full">> \in missed \/ "pages" \in failed \/ overtaken

(* What will still fetch the list, or fetches it as it is now. *)
PagesOnTheWay ==
    \/ stream # "open" \/ "pages" \in owed \/ In("pages", queue)
    \/ "pages" \in timer
    \/ \E s \in Slots : asking[s] \in {Asked, server["pages"]}

PagesInv ==
    /\ \A s \in Slots : asking[s] \in Nat => asking[s] <= server["pages"]
    /\ tree <= server["pages"]
    /\ \/ PagesExcused \/ PagesOnTheWay \/ tree = server["pages"]

LEMMA PagesInit == Init => PagesInv
BY DEF Init, PagesInv, Topics

(* A new request is one the server has still to read. *)
LEMMA PagesAsked ==
  ASSUME TypeOK, PagesInv, LoadPages, server' = server
  PROVE  /\ \A s \in Slots : asking'[s] \in Nat => asking'[s] <= server'["pages"]
         /\ \E s \in Slots : asking'[s] = Asked
BY DEF LoadPages, TypeOK, PagesInv

LEMMA PagesStep ==
  ASSUME TypeOK, PagesInv, [Next]_vars
  PROVE  PagesInv'
<1> USE DEF net, screen, ghosts
<1>0. /\ server \in [Topics -> Nat] /\ server["pages"] \in Nat
      /\ {"pages", "rows", "presence"} = Topics
      /\ asking \in [Slots -> Nat \cup {Idle, Asked}] /\ tree \in Nat
      /\ queue \in Seq(Topics)
  BY DEF TypeOK, Topics
<1>1. ASSUME NEW t \in Topics, Write(t) PROVE PagesInv'
  <2>1. server' = [server EXCEPT ![t] = @ + 1] /\ owed' = owed \cup {t}
        /\ UNCHANGED <<asking, tree, stream, queue, timer, missed, failed,
                      overtaken>>
    BY <1>1 DEF Write
  <2>2. server'["pages"] \in Nat /\ server["pages"] <= server'["pages"]
    BY <1>0, <2>1
  <2>3. CASE t = "pages"
    BY <1>0, <2>1, <2>2, <2>3 DEF PagesInv, PagesOnTheWay
  <2>4. CASE t # "pages"
    BY <1>0, <2>1, <2>2, <2>4 DEF PagesInv, PagesOnTheWay, PagesExcused
  <2> QED BY <2>3, <2>4
<1>2. ASSUME NEW t \in Topics, Announce(t) PROVE PagesInv'
  <2>1. UNCHANGED <<server, asking, tree, stream, timer, failed, overtaken>>
        /\ owed' = owed \ {t} /\ missed \subseteq missed'
    BY <1>2 DEF Announce
  <2>2. CASE HasRoom
    <3>1. queue' = Append(queue, t)
      BY <1>2, <2>2 DEF Announce
    <3>2. In("pages", queue) => In("pages", queue')
      BY <1>0, <3>1, InAppended
    <3>3. t = "pages" => In("pages", queue')
      BY <1>0, <3>1, InAppended
    <3> QED BY <2>1, <3>2, <3>3 DEF PagesInv, PagesOnTheWay, PagesExcused
  <2>3. CASE ~HasRoom
    <3>1. queue' = queue
      BY <1>2, <2>3 DEF Announce
    <3>2. t = "pages" /\ stream = "open" => <<"pages", "full">> \in missed'
      BY <1>2, <2>3 DEF Announce, Subscribed
    <3> QED BY <2>1, <3>1, <3>2 DEF PagesInv, PagesOnTheWay, PagesExcused
  <2> QED BY <2>2, <2>3
<1>3. ASSUME NEW s \in Slots, ReadPages(s) PROVE PagesInv'
  BY <1>0, <1>3 DEF ReadPages, PagesInv, PagesOnTheWay, PagesExcused
<1>4. ASSUME NEW s \in Slots, ShowPages(s) PROVE PagesInv'
  <2>1. /\ tree' = asking[s] /\ asking[s] <= server["pages"]
        /\ asking[s] \in Nat /\ asking' = [asking EXCEPT ![s] = Idle]
        /\ overtaken' = (overtaken \/ asking[s] < tree)
        /\ UNCHANGED <<server, owed, stream, queue, timer, missed, failed>>
    BY <1>4 DEF ShowPages, PagesInv
  <2>2. CASE asking[s] = server["pages"]
    BY <1>0, <2>1, <2>2 DEF PagesInv
  <2>3. CASE tree = server["pages"] /\ asking[s] # server["pages"]
    <3>1. asking[s] < tree
      BY <1>0, <2>1, <2>3
    <3>2. overtaken'
      BY <2>1, <3>1, Zenon
    <3>3. PagesExcused'
      BY <3>2 DEF PagesExcused
    <3> QED BY <1>0, <2>1, <3>3 DEF PagesInv
  <2>4. CASE tree # server["pages"] /\ asking[s] # server["pages"]
    BY <1>0, <2>1, <2>4 DEF PagesInv, PagesOnTheWay, PagesExcused
  <2> QED BY <2>2, <2>3, <2>4
<1>5. CASE Fail
  <2>1. UNCHANGED <<server, owed, stream, queue, timer, missed, tree,
                    overtaken>>
        /\ failed \subseteq failed'
        /\ (asking' = asking \/ "pages" \in failed')
        /\ \A s \in Slots : asking'[s] \in {asking[s], Idle}
    BY <1>0, <1>5 DEF Fail
  <2> QED BY <1>0, <2>1 DEF PagesInv, PagesOnTheWay, PagesExcused
<1>6. CASE Open \/ ReloadPages \/ Return
  <2>1. LoadPages /\ UNCHANGED <<server, tree>>
    BY <1>6 DEF Open, ReloadPages, Return
  <2> QED BY <2>1, PagesAsked DEF PagesInv, PagesOnTheWay
<1>7. CASE Hear
  <2>1. UNCHANGED <<server, owed, stream, asking, tree, missed, failed,
                    overtaken>>
        /\ queue # <<>> /\ queue' = Tail(queue)
        /\ timer' = timer \cup ({Head(queue)} \cap {"pages", "rows"})
    BY <1>7 DEF Hear
  <2>2. In("pages", queue) => "pages" \in timer' \/ In("pages", queue')
    BY <1>0, <2>1, InTail
  <2> QED BY <2>1, <2>2 DEF PagesInv, PagesOnTheWay, PagesExcused
<1>8. CASE Watchdog
  <2>1. stream' # "open" /\ UNCHANGED <<server, asking, tree>>
    BY <1>8 DEF Watchdog, Reconnect
  <2> QED BY <2>1 DEF PagesInv, PagesOnTheWay
<1>9. CASE Refresh
  <2>1. LoadPages /\ UNCHANGED <<server, tree>>
    BY <1>9 DEF Refresh
  <2> QED BY <2>1, PagesAsked DEF PagesInv, PagesOnTheWay
<1>10. ASSUME NEW to \in Stages, Break(to) PROVE PagesInv'
  <2>1. stream' # "open" /\ UNCHANGED <<server, asking, tree>>
    BY <1>10 DEF Break, Stages
  <2> QED BY <2>1 DEF PagesInv, PagesOnTheWay
<1>11. CASE Accept
  <2>1. stream' # "open" /\ UNCHANGED <<server, asking, tree>>
    BY <1>11 DEF Accept
  <2> QED BY <2>1 DEF PagesInv, PagesOnTheWay
<1>12. ASSUME UNCHANGED <<server, owed, stream, queue, asking, tree, missed,
                          failed, overtaken>>,
              timer' \in {timer, timer \ {"rows"}}
       PROVE  PagesInv'
  BY <1>12 DEF PagesInv, PagesOnTheWay, PagesExcused
<1>13. CASE ReadAgents \/ ShowAgents \/ ReloadRows \/ UNCHANGED vars
  BY <1>12, <1>13 DEF ReadAgents, ShowAgents, ReloadRows, vars
<1>14. ASSUME NEW s \in Slots, ReadRows(s) \/ ShowRows(s) PROVE PagesInv'
  BY <1>12, <1>14 DEF ReadRows, ShowRows
<1> QED
  BY <1>1, <1>2, <1>3, <1>4, <1>5, <1>6, <1>7, <1>8, <1>9, <1>10, <1>11,
     <1>13, <1>14 DEF Next, Stages

-----------------------------------------------------------------------------
(* The agents at work.                                                     *)

AgentsExcused ==
    \/ <<"presence", "full">> \in missed \/ <<"presence", "gap">> \in missed
    \/ "presence" \in failed \/ swallowed

AgentsOnTheWay ==
    \/ "presence" \in owed \/ In("presence", queue)
    \/ looking \in {Asked, server["presence"]}

AgentsInv ==
    /\ looking \in Nat => agents <= looking /\ looking <= server["presence"]
    /\ agents <= server["presence"]
    /\ AgentsExcused \/ AgentsOnTheWay \/ agents = server["presence"]

LEMMA AgentsInit == Init => AgentsInv
BY DEF Init, AgentsInv, Topics

LEMMA AgentsStep ==
  ASSUME TypeOK, AgentsInv, [Next]_vars
  PROVE  AgentsInv'
<1> USE DEF net, screen, ghosts
<1>0. /\ server \in [Topics -> Nat] /\ server["presence"] \in Nat
      /\ {"pages", "rows", "presence"} = Topics
      /\ agents \in Nat /\ looking \in Nat \cup {Idle, Asked}
      /\ queue \in Seq(Topics)
  BY DEF TypeOK, Topics
<1>1. ASSUME NEW t \in Topics, Write(t) PROVE AgentsInv'
  <2>1. server' = [server EXCEPT ![t] = @ + 1] /\ owed' = owed \cup {t}
        /\ UNCHANGED <<looking, agents, queue, missed, failed, swallowed>>
    BY <1>1 DEF Write
  <2>2. server'["presence"] \in Nat
        /\ server["presence"] <= server'["presence"]
    BY <1>0, <2>1
  <2>3. CASE t = "presence"
    BY <1>0, <2>1, <2>2, <2>3 DEF AgentsInv, AgentsOnTheWay
  <2>4. CASE t # "presence"
    BY <1>0, <2>1, <2>2, <2>4 DEF AgentsInv, AgentsOnTheWay, AgentsExcused
  <2> QED BY <2>3, <2>4
<1>2. ASSUME NEW t \in Topics, Announce(t) PROVE AgentsInv'
  <2>1. UNCHANGED <<server, looking, agents, failed, swallowed>>
        /\ owed' = owed \ {t} /\ missed \subseteq missed'
    BY <1>2 DEF Announce
  <2>2. CASE HasRoom
    <3>1. queue' = Append(queue, t)
      BY <1>2, <2>2 DEF Announce
    <3>2. In("presence", queue) => In("presence", queue')
      BY <1>0, <3>1, InAppended
    <3>3. t = "presence" => In("presence", queue')
      BY <1>0, <3>1, InAppended
    <3> QED BY <2>1, <3>2, <3>3 DEF AgentsInv, AgentsOnTheWay, AgentsExcused
  <2>3. CASE ~HasRoom
    <3>1. queue' = queue
      BY <1>2, <2>3 DEF Announce
    <3>2. t = "presence" => \/ <<"presence", "full">> \in missed'
                            \/ <<"presence", "gap">> \in missed'
      BY <1>2, <2>3 DEF Announce
    <3> QED BY <2>1, <3>1, <3>2 DEF AgentsInv, AgentsOnTheWay, AgentsExcused
  <2> QED BY <2>2, <2>3
<1>3. CASE ReadAgents
  <2>1. looking' = server["presence"]
        /\ UNCHANGED <<server, owed, queue, agents, missed, failed, swallowed>>
    BY <1>3 DEF ReadAgents
  <2> QED BY <1>0, <2>1 DEF AgentsInv, AgentsOnTheWay
<1>4. CASE ShowAgents
  <2>1. agents' = looking /\ looking \in Nat /\ looking' = Idle
        /\ UNCHANGED <<server, owed, queue, missed, failed, swallowed>>
    BY <1>4 DEF ShowAgents
  <2>2. agents <= looking /\ looking <= server["presence"]
    BY <2>1 DEF AgentsInv
  <2>3. looking = server["presence"] \/ agents # server["presence"]
    BY <1>0, <2>1, <2>2
  <2>4. CASE looking = server["presence"]
    BY <1>0, <2>1, <2>2, <2>4 DEF AgentsInv
  <2>5. CASE looking # server["presence"]
    <3>1. AgentsExcused \/ "presence" \in owed \/ In("presence", queue)
      BY <1>0, <2>1, <2>3, <2>5 DEF AgentsInv, AgentsOnTheWay
    <3>2. AgentsExcused' \/ AgentsOnTheWay'
      BY <2>1, <3>1 DEF AgentsExcused, AgentsOnTheWay
    <3> QED BY <1>0, <2>1, <2>2, <3>2 DEF AgentsInv
  <2> QED BY <2>4, <2>5
<1>5. CASE Fail
  <2>1. /\ UNCHANGED <<server, owed, queue, missed, agents, swallowed>>
        /\ failed \subseteq failed'
        /\ looking' # looking
              => looking' = Idle /\ "presence" \in failed'
    BY <1>0, <1>5 DEF Fail
  <2>2. AgentsExcused => AgentsExcused'
    BY <2>1 DEF AgentsExcused
  <2>3. CASE looking' = looking
    BY <2>1, <2>2, <2>3 DEF AgentsInv, AgentsOnTheWay
  <2>4. CASE looking' = Idle /\ "presence" \in failed'
    BY <1>0, <2>1, <2>4 DEF AgentsInv, AgentsExcused
  <2> QED BY <2>1, <2>3, <2>4
<1>6. CASE Hear
  <2>1. UNCHANGED <<server, owed, agents, missed, failed>>
        /\ queue # <<>> /\ queue' = Tail(queue)
    BY <1>6 DEF Hear
  <2>2. In("presence", queue)
          => Head(queue) = "presence" \/ In("presence", queue')
    BY <1>0, <2>1, InTail
  <2>3. CASE Head(queue) # "presence"
    <3>1. looking' = looking
      BY <1>6, <2>3 DEF Hear
    <3>2. swallowed => swallowed'
      BY <1>6 DEF Hear
    <3> QED BY <2>1, <2>2, <2>3, <3>1, <3>2
              DEF AgentsInv, AgentsOnTheWay, AgentsExcused
  <2>4. CASE Head(queue) = "presence" /\ looking = Idle
    <3>1. looking' = Asked
      BY <1>6, <2>4 DEF Hear, LoadAgents
    <3> QED BY <2>1, <3>1 DEF AgentsInv, AgentsOnTheWay
  <2>5. CASE Head(queue) = "presence" /\ looking # Idle
    <3>1. looking' = looking
      BY <1>6, <2>5 DEF Hear, LoadAgents
    <3>2. swallowed'
      BY <1>6, <2>5 DEF Hear
    <3>3. AgentsExcused'
      BY <3>2 DEF AgentsExcused
    <3> QED BY <2>1, <3>1, <3>3 DEF AgentsInv
  <2> QED BY <2>3, <2>4, <2>5
<1>7. ASSUME LoseQueue, UNCHANGED <<server, owed, looking, agents, failed,
                                    swallowed>>
      PROVE  AgentsInv'
  <2>1. /\ missed \subseteq missed'
        /\ In("presence", queue) => <<"presence", "gap">> \in missed'
    BY <1>7, LostQueue
  <2> QED BY <1>7, <2>1 DEF AgentsInv, AgentsOnTheWay, AgentsExcused
<1>8. CASE Watchdog \/ Refresh
  <2>1. LoseQueue
    BY <1>8 DEF Watchdog, Refresh, Reconnect
  <2> QED BY <1>7, <1>8, <2>1 DEF Watchdog, Refresh
<1>9. ASSUME NEW to \in Stages, Break(to) PROVE AgentsInv'
  BY <1>7, <1>9 DEF Break
<1>10. ASSUME UNCHANGED <<server, owed, queue, looking, agents, missed,
                          failed, swallowed>>
       PROVE  AgentsInv'
  BY <1>10 DEF AgentsInv, AgentsOnTheWay, AgentsExcused
<1>11. CASE \/ Accept \/ Open \/ ReloadPages \/ ReloadRows \/ Return
            \/ UNCHANGED vars
  BY <1>10, <1>11 DEF Accept, Open, ReloadPages, ReloadRows, Return, vars
<1>12. ASSUME NEW s \in Slots,
              ReadPages(s) \/ ShowPages(s) \/ ReadRows(s) \/ ShowRows(s)
       PROVE  AgentsInv'
  <2>1. UNCHANGED <<server, owed, queue, looking, agents, missed, failed,
                    swallowed>>
    BY <1>12 DEF ReadPages, ShowPages, ReadRows, ShowRows
  <2> QED BY <1>10, <2>1
<1> QED
  BY <1>1, <1>2, <1>3, <1>4, <1>5, <1>6, <1>8, <1>9, <1>11, <1>12
     DEF Next, Stages

-----------------------------------------------------------------------------
(* The rows.                                                               *)

RowsExcused ==
    \/ <<"rows", "full">> \in missed \/ <<"rows", "gap">> \in missed
    \/ "rows" \in failed

RowsAnnounced == "rows" \in owed \/ In("rows", queue) \/ "rows" \in timer

IsNewest(s) == crawls[s] # Idle /\ crawls[s].epoch = epoch

(* A reading that will show every row as it is now: it has shown nothing,  *)
(* and has not asked or was answered now; or what it has shown is current. *)
RowsOnTheWay ==
    \E s \in Slots :
        /\ IsNewest(s)
        /\ \/ crawls[s].got = <<>> /\ crawls[s].read \in {Asked, server["rows"]}
           \/ rows[1] = server["rows"]

(* What is on screen is no newer than the server, from the oldest step to  *)
(* the newest, and no newer than what the newest reading brings.           *)
RowsOrdered ==
    /\ rows # <<>>
    /\ \A i \in 1 .. Len(rows) :
          /\ rows[1] <= rows[i] /\ rows[i] <= rows[Len(rows)]
          /\ rows[i] <= server["rows"]
    /\ \A s \in Slots :
          crawls[s] # Idle =>
              /\ crawls[s].epoch <= epoch
              /\ crawls[s].read \in Nat => crawls[s].read <= server["rows"]
              /\ crawls[s].epoch = epoch =>
                     /\ crawls[s].got # <<>> => crawls[s].got = rows
                     /\ Len(crawls[s].got) < Steps
                     /\ crawls[s].read \in Nat
                          => rows[Len(rows)] <= crawls[s].read
    /\ \A s, u \in Slots : IsNewest(s) /\ IsNewest(u) => s = u

RowsFresh ==
    \/ RowsExcused \/ RowsAnnounced \/ RowsOnTheWay
    \/ rows[1] = server["rows"] /\ Len(rows) = Steps

RowsInv == RowsOrdered /\ RowsFresh

LEMMA RowsInit == Init => RowsInv
<1> SUFFICES ASSUME Init PROVE RowsInv
  OBVIOUS
<1>1. Len(rows) = Steps /\ \A i \in 1 .. Steps : rows[i] = 0
  BY DEF Init
<1>2. server["rows"] = 0 /\ \A s \in Slots : crawls[s] = Idle
  BY DEF Init, Topics
<1>3. RowsFresh
  BY <1>1, <1>2 DEF RowsFresh
<1>4. RowsOrdered
  BY <1>1, <1>2 DEF RowsOrdered, IsNewest
<1> QED BY <1>3, <1>4 DEF RowsInv

(* The rows drawn from one answer, and that they never go back.            *)
LEMMA RowsDrawn ==
  ASSUME TypeOK, RowsInv, NEW s \in Slots, ShowRows(s),
         crawls[s].epoch = epoch
  PROVE  /\ rows' \in Seq(Nat) /\ rows' # <<>>
         /\ \A i \in 1 .. Len(rows') :
               /\ rows'[1] <= rows'[i] /\ rows'[i] <= rows'[Len(rows')]
               /\ rows'[i] <= server["rows"]
         /\ rows'[Len(rows')] = crawls[s].read
         /\ rows[1] <= rows'[1] /\ rows[Len(rows)] <= rows'[Len(rows')]
         /\ crawls[s].got = <<>> => rows'[1] = crawls[s].read
         /\ crawls[s].got # <<>> => rows'[1] = rows[1]
         /\ Len(rows') <= Steps
<1> DEFINE c == crawls[s]
<1>1. /\ c # Idle /\ c.read \in Nat /\ c.got \in Seq(Nat) /\ c.epoch \in Nat
      /\ rows' = Append(c.got, c.read)
  BY CrawlParts, ShownRows
<1>2. /\ c.read <= server["rows"] /\ server["rows"] \in Nat
      /\ c.got # <<>> => c.got = rows
      /\ rows[Len(rows)] <= c.read /\ Len(c.got) < Steps
  BY <1>1 DEF RowsInv, RowsOrdered, TypeOK, Topics
<1>3. /\ rows \in Seq(Nat) /\ rows # <<>>
      /\ \A i \in 1 .. Len(rows) :
            /\ rows[1] <= rows[i] /\ rows[i] <= rows[Len(rows)]
            /\ rows[i] <= server["rows"]
  BY DEF RowsInv, RowsOrdered, TypeOK
<1> HIDE DEF c
<1>4. CASE c.got = <<>>
  <2>1. rows' = <<c.read>>
    BY <1>1, <1>4
  <2>2. rows[1] <= c.read
    BY <1>1, <1>2, <1>3
  <2> QED BY <1>1, <1>2, <1>3, <1>4, <2>1, <2>2 DEF c
<1>5. CASE c.got # <<>>
  <2>1. rows' = Append(rows, c.read)
    BY <1>1, <1>2, <1>5
  <2>2. /\ rows' \in Seq(Nat) /\ rows' # <<>> /\ Len(rows') = Len(rows) + 1
        /\ rows'[Len(rows) + 1] = c.read
        /\ \A i \in 1 .. Len(rows) : rows'[i] = rows[i]
    BY <1>1, <1>3, <2>1, Grown
  <2>3. rows'[1] = rows[1] /\ rows[1] \in Nat /\ rows[Len(rows)] \in Nat
    BY <1>3, <2>2
  <2>4. ASSUME NEW i \in 1 .. Len(rows')
        PROVE  /\ rows'[1] <= rows'[i] /\ rows'[i] <= rows'[Len(rows')]
               /\ rows'[i] <= server["rows"]
    <3>1. CASE i \in 1 .. Len(rows)
      <4>1. rows'[i] = rows[i] /\ rows[i] \in Nat /\ Len(rows) \in Nat
        BY <1>3, <2>2, <3>1
      <4>2. rows[1] <= rows[i] /\ rows[i] <= rows[Len(rows)]
            /\ rows[i] <= server["rows"]
        BY <1>3, <3>1
      <4>3. rows'[Len(rows')] = c.read
        BY <2>2
      <4> QED BY <1>1, <1>2, <2>3, <4>1, <4>2, <4>3
    <3>2. CASE i = Len(rows')
      <4>1. rows'[i] = c.read /\ rows'[Len(rows')] = c.read
        BY <2>2, <3>2
      <4>2. rows[1] <= rows[Len(rows)]
        BY <1>3
      <4> QED BY <1>1, <1>2, <2>3, <4>1, <4>2
    <3> QED BY <1>3, <2>2, <3>1, <3>2
  <2>5. rows[Len(rows)] <= rows'[Len(rows')] /\ Len(rows') <= Steps
    BY <1>1, <1>2, <1>5, <2>2
  <2>6. rows[1] <= rows'[1] /\ rows'[Len(rows')] = c.read
    BY <2>2, <2>3
  <2>7. \A i \in 1 .. Len(rows') :
            /\ rows'[1] <= rows'[i] /\ rows'[i] <= rows'[Len(rows')]
            /\ rows'[i] <= server["rows"]
    BY <2>4
  <2> QED BY <1>5, <2>2, <2>3, <2>5, <2>6, <2>7 DEF c
<1> QED BY <1>4, <1>5

(* A new reading shows nothing yet, and is newer than all others. *)
LEMMA RowsAsked ==
  ASSUME TypeOK, RowsInv, LoadRows, UNCHANGED <<server, rows>>
  PROVE  RowsInv'
<1>1. PICK s \in Slots :
          /\ crawls[s] = Idle
          /\ crawls' = [crawls EXCEPT ![s] =
                [epoch |-> epoch', got |-> <<>>, read |-> Asked]]
  BY NewCrawl
<1>2. epoch \in Nat /\ epoch' = epoch + 1
  BY NewCrawl DEF TypeOK
<1>3. /\ crawls'[s] = [epoch |-> epoch', got |-> <<>>, read |-> Asked]
      /\ \A u \in Slots : u # s => crawls'[u] = crawls[u]
  BY <1>1 DEF TypeOK
<1>4. ASSUME NEW u \in Slots, u # s, crawls'[u] # Idle
      PROVE  /\ crawls'[u].epoch <= epoch'
             /\ crawls'[u].epoch # epoch'
             /\ crawls'[u].read \in Nat => crawls'[u].read <= server'["rows"]
  <2>1. crawls[u] # Idle /\ crawls'[u] = crawls[u]
    BY <1>3, <1>4
  <2>2. crawls[u].epoch \in Nat
    BY <2>1, CrawlParts
  <2>3. crawls[u].epoch <= epoch
        /\ (crawls[u].read \in Nat => crawls[u].read <= server["rows"])
    BY <2>1 DEF RowsInv, RowsOrdered
  <2> QED BY <1>2, <2>1, <2>2, <2>3
<1>5. crawls'[s] # Idle
  <2>1. s \in Slots /\ crawls' \in [Slots -> Crawl \cup {Idle}]
        /\ Idle \notin Crawl
    BY NewCrawl, CrawlAssumption
  <2>2. [epoch |-> epoch', got |-> <<>>, read |-> Asked] \in Crawl
    BY <1>2 DEF Crawl
  <2> QED BY <1>3, <2>1, <2>2
<1>6. RowsOrdered'
  <2>1. rows' # <<>> /\ \A i \in 1 .. Len(rows') :
            /\ rows'[1] <= rows'[i] /\ rows'[i] <= rows'[Len(rows')]
            /\ rows'[i] <= server'["rows"]
    BY DEF RowsInv, RowsOrdered
  <2>2. \A u \in Slots : IsNewest(u)' => u = s
    BY <1>4 DEF IsNewest
  <2> QED BY <1>2, <1>3, <1>4, <2>1, <2>2 DEF RowsOrdered
<1>7. RowsFresh'
  BY <1>3, <1>5 DEF RowsFresh, RowsOnTheWay, IsNewest
<1> QED BY <1>6, <1>7 DEF RowsInv

(* A step of a reading is drawn. *)
LEMMA RowsShown ==
  ASSUME TypeOK, RowsInv, NEW s \in Slots, ShowRows(s)
  PROVE  RowsInv'
<1> DEFINE c == crawls[s]
           next == [epoch |-> epoch, got |-> rows', read |-> Asked]
<1>0. /\ c # Idle /\ c.read \in Nat /\ c.epoch \in Nat /\ c.got \in Seq(Nat)
      /\ UNCHANGED <<server, owed, queue, timer, epoch, missed, failed>>
      /\ crawls \in [Slots -> Crawl \cup {Idle}]
      /\ epoch \in Nat /\ server["rows"] \in Nat
  BY CrawlParts, ShownRows DEF ShowRows, ghosts, net, TypeOK, Topics
<1>1. /\ rows' # <<>> /\ Len(rows') \in Nat
      /\ \A i \in 1 .. Len(rows') :
            /\ rows'[1] <= rows'[i] /\ rows'[i] <= rows'[Len(rows')]
            /\ rows'[i] <= server["rows"]
  <2>1. CASE c.epoch = epoch
    BY <2>1, RowsDrawn
  <2>2. CASE c.epoch # epoch
    <3>1. rows' = rows
      BY <2>2, ShownRows
    <3> QED BY <3>1 DEF RowsInv, RowsOrdered, TypeOK
  <2> QED BY <2>1, <2>2
<1>2. ASSUME NEW u \in Slots, crawls[u] # Idle, u # s, c.epoch = epoch
      PROVE  crawls[u].epoch # epoch
  BY <1>0, <1>2 DEF RowsInv, RowsOrdered, IsNewest
<1>3. \/ crawls' = [crawls EXCEPT ![s] = Idle]
      \/ /\ crawls' = [crawls EXCEPT ![s] = next]
         /\ c.epoch = epoch /\ Len(rows') # Steps
  BY ShownRows
<1>4. next # Idle /\ next.epoch = epoch /\ next.got = rows'
      /\ next.read = Asked
  <2>1. CASE c.epoch = epoch
    <3>1. rows' \in Seq(Nat)
      BY <2>1, RowsDrawn
    <3>2. next \in Crawl
      BY <1>0, <3>1 DEF Crawl
    <3> QED BY <3>2, CrawlAssumption
  <2>2. CASE c.epoch # epoch
    <3>1. rows' \in Seq(Nat)
      BY <2>2, ShownRows DEF TypeOK
    <3>2. next \in Crawl
      BY <1>0, <3>1 DEF Crawl
    <3> QED BY <3>2, CrawlAssumption
  <2> QED BY <2>1, <2>2
<1> HIDE DEF next
<1>5. RowsOrdered'
  <2>1. ASSUME NEW u \in Slots, crawls'[u] # Idle
        PROVE  /\ crawls'[u].epoch <= epoch
               /\ crawls'[u].read \in Nat
                    => crawls'[u].read <= server["rows"]
               /\ crawls'[u].epoch = epoch =>
                      /\ crawls'[u].got # <<>> => crawls'[u].got = rows'
                      /\ Len(crawls'[u].got) < Steps
                      /\ crawls'[u].read \in Nat
                           => rows'[Len(rows')] <= crawls'[u].read
    <3>1. CASE u = s
      <4>1. crawls'[u] = next /\ c.epoch = epoch /\ Len(rows') # Steps
        BY <1>0, <1>3, <2>1, <3>1
      <4>2. Len(rows') <= Steps
        BY <4>1, RowsDrawn
      <4> QED BY <1>0, <1>1, <1>4, <4>1, <4>2
    <3>2. CASE u # s
      <4>1. crawls'[u] = crawls[u] /\ crawls[u] # Idle
        BY <1>0, <1>3, <2>1, <3>2
      <4>2. /\ crawls[u].epoch <= epoch
            /\ crawls[u].read \in Nat => crawls[u].read <= server["rows"]
            /\ crawls[u].epoch = epoch =>
                   /\ crawls[u].got # <<>> => crawls[u].got = rows
                   /\ Len(crawls[u].got) < Steps
                   /\ crawls[u].read \in Nat
                        => rows[Len(rows)] <= crawls[u].read
        BY <4>1 DEF RowsInv, RowsOrdered
      <4>3. CASE c.epoch = epoch
        BY <1>2, <3>2, <4>1, <4>2, <4>3
      <4>4. CASE c.epoch # epoch
        <5>1. rows' = rows
          BY <4>4, ShownRows
        <5> QED BY <4>1, <4>2, <5>1
      <4> QED BY <4>3, <4>4
    <3> QED BY <3>1, <3>2
  <2>2. ASSUME NEW u \in Slots, IsNewest(u)'
        PROVE  IsNewest(u)
    <3>1. CASE u = s
      <4>1. c.epoch = epoch
        BY <1>0, <1>3, <2>2, <3>1 DEF IsNewest
      <4> QED BY <1>0, <3>1, <4>1 DEF IsNewest
    <3>2. CASE u # s
      BY <1>0, <1>3, <2>2, <3>2 DEF IsNewest
    <3> QED BY <3>1, <3>2
  <2>3. \A u, v \in Slots : IsNewest(u)' /\ IsNewest(v)' => u = v
    BY <2>2 DEF RowsInv, RowsOrdered
  <2> QED BY <1>0, <1>1, <2>1, <2>3 DEF RowsOrdered
<1>6. RowsFresh'
  <2>1. CASE RowsExcused \/ RowsAnnounced
    BY <1>0, <2>1 DEF RowsFresh, RowsExcused, RowsAnnounced
  <2>2. CASE c.epoch # epoch
    <3>1. rows' = rows /\ crawls' = [crawls EXCEPT ![s] = Idle]
      BY <2>2, ShownRows
    <3>2. ASSUME NEW u \in Slots, IsNewest(u) PROVE crawls'[u] = crawls[u]
      BY <1>0, <2>2, <3>1, <3>2 DEF IsNewest
    <3> QED BY <1>0, <2>1, <3>1, <3>2
              DEF RowsInv, RowsFresh, RowsOnTheWay, IsNewest
  <2>3. CASE c.epoch = epoch /\ (RowsOnTheWay \/ rows[1] = server["rows"])
    <3>1. rows'[1] = server["rows"]
      <4>1. /\ rows[1] <= rows'[1] /\ rows'[1] <= server["rows"]
            /\ c.got = <<>> => rows'[1] = c.read
            /\ rows'[1] \in Nat /\ rows[1] \in Nat
        <5>1. rows # <<>> /\ rows \in Seq(Nat) /\ rows' \in Seq(Nat)
          BY <2>3, RowsDrawn DEF TypeOK, RowsInv, RowsOrdered
        <5>2. rows'[1] \in Nat /\ rows[1] \in Nat /\ 1 \in 1 .. Len(rows')
          BY <1>1, <5>1
        <5>3. /\ rows[1] <= rows'[1]
              /\ c.got = <<>> => rows'[1] = c.read
          BY <2>3, RowsDrawn
        <5> QED BY <1>1, <5>2, <5>3
      <4>2. CASE rows[1] = server["rows"]
        BY <1>0, <4>1, <4>2
      <4>3. CASE rows[1] # server["rows"]
        <5>1. PICK u \in Slots :
                  /\ IsNewest(u)
                  /\ crawls[u].got = <<>>
                  /\ crawls[u].read \in {Asked, server["rows"]}
          BY <2>3, <4>3 DEF RowsOnTheWay
        <5>2. u = s
          BY <1>0, <2>3, <5>1 DEF IsNewest, RowsInv, RowsOrdered
        <5>3. c.read = server["rows"]
          BY <1>0, <5>1, <5>2
        <5> QED BY <4>1, <5>1, <5>2, <5>3
      <4> QED BY <4>2, <4>3
    <3>2. CASE Len(rows') = Steps
      BY <1>0, <3>1, <3>2 DEF RowsFresh
    <3>3. CASE Len(rows') # Steps
      <4>1. crawls' = [crawls EXCEPT ![s] = next]
        BY <2>3, <3>3, ShownRows DEF next
      <4>2. IsNewest(s)'
        BY <1>0, <1>4, <4>1 DEF IsNewest
      <4> QED BY <1>0, <3>1, <4>2 DEF RowsFresh, RowsOnTheWay
    <3> QED BY <3>2, <3>3
  <2> QED BY <2>1, <2>2, <2>3 DEF RowsInv, RowsFresh
<1> QED BY <1>5, <1>6 DEF RowsInv

LEMMA RowsStep ==
  ASSUME TypeOK, RowsInv, [Next]_vars
  PROVE  RowsInv'
<1> USE DEF net, screen, ghosts
<1>0. /\ server \in [Topics -> Nat] /\ server["rows"] \in Nat
      /\ {"pages", "rows", "presence"} = Topics
      /\ queue \in Seq(Topics) /\ rows \in Seq(Nat)
      /\ crawls \in [Slots -> Crawl \cup {Idle}]
  BY DEF TypeOK, Topics
<1>1. ASSUME NEW t \in Topics, Write(t) PROVE RowsInv'
  <2>1. server' = [server EXCEPT ![t] = @ + 1] /\ owed' = owed \cup {t}
        /\ UNCHANGED <<rows, crawls, epoch, queue, timer, missed, failed>>
    BY <1>1 DEF Write
  <2>2. server'["rows"] \in Nat /\ server["rows"] <= server'["rows"]
    BY <1>0, <2>1
  <2>3. RowsOrdered'
    <3>1. \A i \in 1 .. Len(rows) : rows[i] \in Nat
      BY <1>0
    <3>2. ASSUME NEW i \in 1 .. Len(rows) PROVE rows[i] <= server'["rows"]
      BY <1>0, <2>2, <3>1 DEF RowsInv, RowsOrdered
    <3>3. ASSUME NEW s \in Slots, crawls[s] # Idle, crawls[s].read \in Nat
          PROVE  crawls[s].read <= server'["rows"]
      <4>1. crawls[s].read <= server["rows"]
        BY <3>3 DEF RowsInv, RowsOrdered
      <4> QED BY <1>0, <2>2, <3>3, <4>1
    <3> QED BY <2>1, <3>2, <3>3 DEF RowsInv, RowsOrdered, IsNewest
  <2>4. RowsFresh'
    <3>1. CASE t = "rows"
      BY <2>1, <3>1 DEF RowsFresh, RowsAnnounced
    <3>2. CASE t # "rows"
      <4>1. server'["rows"] = server["rows"]
        BY <1>0, <2>1, <3>2
      <4> QED BY <2>1, <4>1 DEF RowsInv, RowsFresh, RowsAnnounced,
                RowsExcused, RowsOnTheWay, IsNewest
    <3> QED BY <3>1, <3>2
  <2> QED BY <2>3, <2>4 DEF RowsInv
<1>2. ASSUME NEW t \in Topics, Announce(t) PROVE RowsInv'
  <2>1. UNCHANGED <<server, rows, crawls, epoch, timer, failed>>
        /\ owed' = owed \ {t} /\ missed \subseteq missed'
    BY <1>2 DEF Announce
  <2>2. RowsOrdered'
    BY <2>1 DEF RowsInv, RowsOrdered, IsNewest
  <2>3. RowsAnnounced => RowsAnnounced' \/ RowsExcused'
    <3>1. CASE HasRoom
      <4>1. queue' = Append(queue, t)
        BY <1>2, <3>1 DEF Announce
      <4>2. In("rows", queue) => In("rows", queue')
        BY <1>0, <4>1, InAppended
      <4>3. t = "rows" => In("rows", queue')
        BY <1>0, <4>1, InAppended
      <4> QED BY <2>1, <4>2, <4>3 DEF RowsAnnounced
    <3>2. CASE ~HasRoom
      <4>1. queue' = queue
        BY <1>2, <3>2 DEF Announce
      <4>2. t = "rows" => \/ <<"rows", "full">> \in missed'
                          \/ <<"rows", "gap">> \in missed'
        BY <1>2, <3>2 DEF Announce
      <4> QED BY <2>1, <4>1, <4>2 DEF RowsAnnounced, RowsExcused
    <3> QED BY <3>1, <3>2
  <2>4. RowsFresh'
    BY <2>1, <2>3 DEF RowsInv, RowsFresh, RowsExcused, RowsOnTheWay, IsNewest
  <2> QED BY <2>2, <2>4 DEF RowsInv
<1>3. ASSUME NEW s \in Slots, ReadRows(s) PROVE RowsInv'
  <2>1. /\ crawls[s] # Idle /\ crawls[s].read = Asked
        /\ crawls' = [crawls EXCEPT ![s] =
                         [crawls[s] EXCEPT !.read = server["rows"]]]
        /\ UNCHANGED <<server, owed, queue, timer, rows, epoch, missed,
                       failed>>
    BY <1>3 DEF ReadRows
  <2>2. crawls[s] \in Crawl
    BY <2>1, <1>0
  <2>3. /\ crawls'[s].epoch = crawls[s].epoch
        /\ crawls'[s].got = crawls[s].got
        /\ crawls'[s].read = server["rows"]
        /\ \A u \in Slots : u # s => crawls'[u] = crawls[u]
    BY <1>0, <2>1, <2>2 DEF Crawl
  <2>4. crawls'[s] # Idle
    <3>1. [crawls[s] EXCEPT !.read = server["rows"]] \in Crawl
      BY <1>0, <2>2 DEF Crawl
    <3> QED BY <1>0, <2>1, <3>1, CrawlAssumption
  <2>5. \A u \in Slots : IsNewest(u)' => IsNewest(u)
    BY <2>1, <2>3, <2>4 DEF IsNewest
  <2>6. rows[Len(rows)] <= server["rows"]
    BY <1>0 DEF RowsInv, RowsOrdered
  <2>7. RowsOrdered'
    <3>1. \A u \in Slots :
          crawls'[u] # Idle =>
              /\ crawls'[u].epoch <= epoch
              /\ crawls'[u].read \in Nat => crawls'[u].read <= server["rows"]
              /\ crawls'[u].epoch = epoch =>
                     /\ crawls'[u].got # <<>> => crawls'[u].got = rows
                     /\ Len(crawls'[u].got) < Steps
                     /\ crawls'[u].read \in Nat
                          => rows[Len(rows)] <= crawls'[u].read
      BY <1>0, <2>1, <2>3, <2>6 DEF RowsInv, RowsOrdered
    <3>2. \A u, v \in Slots : IsNewest(u)' /\ IsNewest(v)' => u = v
      BY <2>5 DEF RowsInv, RowsOrdered
    <3> QED BY <2>1, <3>1, <3>2 DEF RowsInv, RowsOrdered
  <2>8. RowsOnTheWay => RowsOnTheWay'
    BY <2>1, <2>3, <2>4 DEF RowsOnTheWay, IsNewest
  <2>9. RowsFresh'
    BY <2>1, <2>8 DEF RowsInv, RowsFresh, RowsExcused, RowsAnnounced
  <2> QED BY <2>7, <2>9 DEF RowsInv
<1>4. CASE Fail
  <2>1. /\ UNCHANGED <<server, owed, queue, timer, missed, rows, epoch>>
        /\ failed \subseteq failed'
        /\ crawls' # crawls => "rows" \in failed'
        /\ \A s \in Slots : crawls'[s] \in {crawls[s], Idle}
    BY <1>0, <1>4 DEF Fail
  <2>2. RowsOrdered'
    BY <2>1 DEF RowsInv, RowsOrdered, IsNewest
  <2>3. RowsFresh'
    BY <2>1 DEF RowsInv, RowsFresh, RowsExcused, RowsAnnounced, RowsOnTheWay,
                IsNewest
  <2> QED BY <2>2, <2>3 DEF RowsInv
<1>5. CASE Hear
  <2>1. /\ UNCHANGED <<server, owed, rows, crawls, epoch, missed, failed>>
        /\ queue # <<>> /\ queue' = Tail(queue)
        /\ timer' = timer \cup ({Head(queue)} \cap {"pages", "rows"})
    BY <1>5 DEF Hear
  <2>2. In("rows", queue) => "rows" \in timer' \/ In("rows", queue')
    BY <1>0, <2>1, InTail
  <2>3. RowsAnnounced => RowsAnnounced'
    BY <2>1, <2>2 DEF RowsAnnounced
  <2> QED BY <2>1, <2>3 DEF RowsInv, RowsOrdered, RowsFresh, RowsExcused,
             RowsOnTheWay, IsNewest
<1>6. CASE ReloadRows
  <2>1. LoadRows /\ UNCHANGED <<server, rows>>
    BY <1>6 DEF ReloadRows
  <2> QED BY <2>1, RowsAsked
<1>7. CASE Refresh
  <2>1. LoadRows /\ UNCHANGED <<server, rows>>
    BY <1>7 DEF Refresh
  <2> QED BY <2>1, RowsAsked
<1>8. ASSUME LoseQueue,
             UNCHANGED <<server, owed, rows, crawls, epoch, failed>>,
             timer' \in {timer, timer \ {"pages"}}
      PROVE  RowsInv'
  <2>1. /\ missed \subseteq missed'
        /\ In("rows", queue) => <<"rows", "gap">> \in missed'
    BY <1>8, LostQueue
  <2>2. RowsAnnounced => RowsAnnounced' \/ RowsExcused'
    BY <1>8, <2>1 DEF RowsAnnounced, RowsExcused
  <2> QED BY <1>8, <2>1, <2>2 DEF RowsInv, RowsOrdered, RowsFresh,
             RowsExcused, RowsOnTheWay, IsNewest
<1>9. CASE Watchdog
  BY <1>8, <1>9 DEF Watchdog, Reconnect
<1>10. ASSUME NEW to \in Stages, Break(to) PROVE RowsInv'
  BY <1>8, <1>10 DEF Break
<1>11. ASSUME UNCHANGED <<server, owed, queue, rows, crawls, epoch, missed,
                          failed>>,
              timer' \in {timer, timer \ {"pages"}}
       PROVE  RowsInv'
  BY <1>11 DEF RowsInv, RowsOrdered, RowsFresh, RowsExcused, RowsAnnounced,
               RowsOnTheWay, IsNewest
<1>12. CASE \/ Accept \/ Open \/ ReloadPages \/ Return
            \/ ReadAgents \/ ShowAgents \/ UNCHANGED vars
  BY <1>11, <1>12
     DEF Accept, Open, ReloadPages, Return, ReadAgents, ShowAgents, vars
<1>13. ASSUME NEW s \in Slots, ReadPages(s) \/ ShowPages(s) PROVE RowsInv'
  BY <1>11, <1>13 DEF ReadPages, ShowPages
<1> QED
  BY <1>1, <1>2, <1>3, <1>4, <1>5, <1>6, <1>7, <1>9, <1>10, <1>12, <1>13,
     RowsShown DEF Next, Stages

-----------------------------------------------------------------------------
(* The three parts together.                                               *)

IInv == TypeOK /\ PagesInv /\ AgentsInv /\ RowsInv

THEOREM Invariant == Spec => []IInv
<1>1. Init => IInv
  BY InitType, PagesInit, AgentsInit, RowsInit DEF IInv
<1>2. IInv /\ [Next]_vars => IInv'
  BY NextType, PagesStep, AgentsStep, RowsStep DEF IInv
<1> QED BY <1>1, <1>2, PTL DEF Spec

(* Every variable has its type, and the channel of a subscriber never      *)
(* holds more than it has room for (broadcast).                            *)
THEOREM TypeInvariant == Spec => []TypeOK
<1>1. IInv => TypeOK
  BY DEF IInv
<1> QED BY Invariant, <1>1, PTL

(* A sidebar at rest shows the pages as they are, through every            *)
(* reconnection: onopen fetches them (App.tsx).                            *)
THEOREM TreeStaysCurrent == Spec => []TreeIsCurrent
<1>1. IInv => TreeIsCurrent
  <2> SUFFICES ASSUME IInv, AtRest("pages"),
                      \A s \in Slots : asking[s] = Idle,
                      <<"pages", "full">> \notin missed,
                      "pages" \notin failed, ~overtaken
               PROVE  tree = server["pages"]
    BY DEF TreeIsCurrent
  <2>1. ~PagesExcused
    BY DEF PagesExcused
  <2>2. server["pages"] \in Nat
    BY DEF IInv, TypeOK, Topics
  <2>3. ~PagesOnTheWay
    BY <2>2 DEF PagesOnTheWay, AtRest, In
  <2> QED BY <2>1, <2>3 DEF IInv, PagesInv
<1> QED BY Invariant, <1>1, PTL

(* The rows and the agents at rest are the server's, unless one of their   *)
(* events was lost: whichever readings overlapped, only the newest is      *)
(* drawn (loadRows, useAgentPresence).                                     *)
THEOREM ListsStayCurrent == Spec => []ListsAreCurrent
<1>1. IInv => AgentsAreCurrent
  <2> SUFFICES ASSUME IInv, AtRest("presence"), looking = Idle,
                      {<<"presence", "full">>, <<"presence", "gap">>}
                          \cap missed = {},
                      "presence" \notin failed, ~swallowed
               PROVE  agents = server["presence"]
    BY DEF AgentsAreCurrent
  <2>1. ~AgentsExcused
    BY DEF AgentsExcused
  <2>2. "presence" \notin owed /\ ~In("presence", queue)
    BY DEF AtRest, In
  <2>3. looking \notin {Asked, server["presence"]}
    BY DEF IInv, TypeOK, Topics
  <2> QED BY <2>1, <2>2, <2>3 DEF IInv, AgentsInv, AgentsOnTheWay
<1>2. IInv => RowsAreCurrent
  <2> SUFFICES ASSUME IInv, AtRest("rows"),
                      \A s \in Slots : crawls[s] = Idle,
                      {<<"rows", "full">>, <<"rows", "gap">>}
                          \cap missed = {},
                      "rows" \notin failed
               PROVE  rows = [i \in 1 .. Steps |-> server["rows"]]
    BY DEF RowsAreCurrent
  <2>1. ~RowsExcused /\ ~RowsAnnounced /\ ~RowsOnTheWay
    BY DEF RowsExcused, RowsAnnounced, RowsOnTheWay, IsNewest, AtRest, In
  <2>2. rows[1] = server["rows"] /\ Len(rows) = Steps
    BY <2>1 DEF IInv, RowsInv, RowsFresh
  <2>3. rows \in Seq(Nat) /\ server["rows"] \in Nat
    BY DEF IInv, TypeOK, Topics
  <2>4. ASSUME NEW i \in 1 .. Steps PROVE rows[i] = server["rows"]
    <3>1. rows[1] <= rows[i] /\ rows[i] <= server["rows"] /\ rows[i] \in Nat
      BY <2>2, <2>3, <2>4 DEF IInv, RowsInv, RowsOrdered
    <3> QED BY <2>2, <2>3, <3>1
  <2> QED BY <2>2, <2>3, <2>4
<1>3. IInv => ListsAreCurrent
  BY <1>1, <1>2 DEF ListsAreCurrent
<1> QED BY Invariant, <1>3, PTL

(* What a step can do to the rows and to what is shown of them.            *)
LEMMA RowsMove ==
  ASSUME IInv, [Next]_vars
  PROVE  \/ UNCHANGED <<server["rows"], rows>>
         \/ server'["rows"] = server["rows"] + 1 /\ rows' = rows
         \/ \E s \in Slots : ShowRows(s) /\ crawls[s].epoch = epoch
                            /\ server' = server
<1> USE DEF net, screen, ghosts
<1>1. ASSUME NEW t \in Topics, Write(t)
      PROVE  /\ rows' = rows
             /\ server'["rows"] \in {server["rows"], server["rows"] + 1}
  BY <1>1 DEF Write, IInv, TypeOK, Topics
<1>2. ASSUME NEW s \in Slots, ShowRows(s), crawls[s].epoch # epoch
      PROVE  UNCHANGED <<server, rows>>
  BY <1>2, ShownRows DEF IInv, ShowRows
<1>3. ASSUME NEW s \in Slots, ShowRows(s) PROVE server' = server
  BY <1>3 DEF ShowRows
<1>4. ASSUME NEW s \in Slots, ReadPages(s) \/ ShowPages(s) \/ ReadRows(s)
      PROVE  UNCHANGED <<server, rows>>
  BY <1>4 DEF ReadPages, ShowPages, ReadRows
<1>5. ASSUME NEW t \in Topics, Announce(t) PROVE UNCHANGED <<server, rows>>
  BY <1>5 DEF Announce
<1>6. ASSUME NEW to \in Stages, Break(to) PROVE UNCHANGED <<server, rows>>
  BY <1>6 DEF Break
<1>7. CASE \/ ReadAgents \/ ShowAgents \/ Fail \/ Accept \/ Open \/ Hear
           \/ ReloadPages \/ ReloadRows \/ Watchdog \/ Return \/ Refresh
           \/ UNCHANGED vars
  <2>1. UNCHANGED <<server, rows>>
    BY <1>7 DEF ReadAgents, ShowAgents, Fail, Accept, Open, Hear,
         ReloadPages, ReloadRows, Watchdog, Return, Refresh, vars
  <2> QED BY <2>1
<1> QED
  BY <1>1, <1>2, <1>3, <1>4, <1>5, <1>6, <1>7 DEF Next, Stages

(* The rows on screen implement a mirror of the server's: the oldest and   *)
(* the newest step of what is shown only move forward, and never past what *)
(* the server has (loadRows, with its epoch).                              *)
THEOREM RowsImplementMirror == Spec => RowsMirror
<1>1. Init => Oldest!Init /\ Latest!Init
  BY DEF Init, Oldest!Init, Latest!Init, Topics
<1>2. ASSUME IInv, [Next]_vars
      PROVE  /\ [Oldest!Change \/ Oldest!Redraw]_<<server["rows"], rows[1]>>
             /\ [Latest!Change \/ Latest!Redraw]_<<server["rows"],
                                                   rows[Len(rows)]>>
  <2>1. CASE UNCHANGED <<server["rows"], rows>>
    BY <2>1
  <2>2. CASE server'["rows"] = server["rows"] + 1 /\ rows' = rows
    BY <2>2 DEF Oldest!Change, Latest!Change
  <2>3. ASSUME NEW s \in Slots, ShowRows(s), crawls[s].epoch = epoch,
               server' = server
        PROVE  Oldest!Redraw /\ Latest!Redraw
    <3>1. /\ rows' \in Seq(Nat) /\ rows' # <<>>
          /\ \A i \in 1 .. Len(rows') : rows'[i] <= server["rows"]
          /\ rows[1] <= rows'[1] /\ rows[Len(rows)] <= rows'[Len(rows')]
      BY <1>2, <2>3, RowsDrawn DEF IInv
    <3>2. rows \in Seq(Nat) /\ rows # <<>> /\ server["rows"] \in Nat
      BY <1>2 DEF IInv, TypeOK, RowsInv, RowsOrdered, Topics
    <3>3. /\ rows'[1] \in rows[1] .. server["rows"]
          /\ rows'[Len(rows')] \in rows[Len(rows)] .. server["rows"]
      BY <3>1, <3>2
    <3> QED BY <2>3, <3>3 DEF Oldest!Redraw, Latest!Redraw
  <2> QED BY <1>2, <2>1, <2>2, <2>3, RowsMove
<1>3. IInv /\ [Next]_vars
      => /\ [Oldest!Change \/ Oldest!Redraw]_<<server["rows"], rows[1]>>
         /\ [Latest!Change \/ Latest!Redraw]_<<server["rows"],
                                               rows[Len(rows)]>>
  BY <1>2
<1> QED BY Invariant, <1>1, <1>3, PTL
        DEF Spec, RowsMirror, Oldest!Spec, Latest!Spec
=============================================================================
