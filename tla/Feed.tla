-------------------------------- MODULE Feed --------------------------------
(***************************************************************************)
(* How the screens of one browser follow the server: the list of pages in  *)
(* the sidebar, the rows of the database that is open and the agents at    *)
(* work (App.tsx, CollectionView.tsx, agentPresence.ts, events.go).        *)
(*                                                                         *)
(* The server sends no data, only the word that something moved, over one  *)
(* stream of events; what moved is then fetched. Each list is the number   *)
(* of times it has changed, so a screen shows the number it last fetched.  *)
(* The rows come in steps of one answer each, and are shown as one number  *)
(* per step.                                                               *)
(*                                                                         *)
(* Left out: the kinds of event that only draw a notice, the schema and    *)
(* the views of the database, who may see what, and the edits this browser *)
(* makes itself.                                                           *)
(***************************************************************************)
EXTENDS Naturals, Sequences, FiniteSets

CONSTANTS
    Slots,        \* requests of one kind that can be under way at one time
    Idle, Asked,  \* a slot that is free, a request the server has not read
    Steps,        \* the answers one reading of all rows takes
    Cap,          \* room in the channel of a subscriber
    MaxChanges,   \* bound: changes of the lists
    MaxExtras     \* bound: faults and visits together

ASSUME CapAssumption == Cap \in Nat \ {0}
ASSUME StepsAssumption == Steps \in Nat \ {0}
ASSUME BoundsAssumption == {MaxChanges, MaxExtras} \subseteq Nat
ASSUME NilAssumption == Idle # Asked /\ {Idle, Asked} \cap Nat = {}

VARIABLES
    server,      \* how often each list has changed
    owed,        \* changes written that are not announced yet
    stream,      \* the stream of events of this browser
    queue,       \* events in the subscriber's channel or on the wire
    watch,       \* the watchdog runs
    timer,       \* debounced reloads that wait for their moment
    tree,        \* the list of pages on screen
    asking,      \* requests for that list
    rows,        \* the rows on screen
    crawls,      \* readings of the rows
    epoch,       \* the number of the newest of them
    agents,      \* the list of agents on screen
    looking,     \* the one request for it
    extras,      \* faults and visits so far
    (* history of the run, for the properties *)
    missed,      \* lists an event of which never came, and why
    failed,      \* lists of which a request failed
    swallowed,   \* an event came while the agents were being fetched
    overtaken    \* an answer with an older list of pages came after a newer

net == <<stream, queue, watch>>
screen == <<tree, asking, rows, crawls, epoch, agents, looking>>
ghosts == <<missed, failed, swallowed, overtaken>>
vars == <<server, owed, timer, net, screen, ghosts, extras>>

-----------------------------------------------------------------------------
Topics == {"pages", "rows", "presence"}

(*   connecting  EventSource is trying                                     *)
(*   accepted    the server has subscribed, onopen is still to come        *)
(*   dead        broken without an error: nothing will ever come           *)
(*   closed      refused: EventSource tries no more                        *)
Streams == {"connecting", "accepted", "open", "dead", "closed"}

Crawl == [epoch : Nat, got : Seq(Nat), read : Nat \cup {Asked}]

ASSUME CrawlAssumption == Idle \notin Crawl

Init ==
    /\ server = [t \in Topics |-> 0] /\ owed = {}
    /\ stream = "connecting" /\ queue = <<>> /\ watch = FALSE
    /\ timer = {}
    /\ tree = 0 /\ asking = [s \in Slots |-> Idle]
    /\ rows = [i \in 1 .. Steps |-> 0] /\ epoch = 0
    /\ crawls = [s \in Slots |-> Idle]
    /\ agents = 0 /\ looking = Idle
    /\ extras = 0
    /\ missed = {} /\ failed = {} /\ swallowed = FALSE /\ overtaken = FALSE

-----------------------------------------------------------------------------
(* The server.                                                             *)

Subscribed == stream \in {"accepted", "open"}

(* A statement changes a list. *)
Write(t) ==
    /\ t \notin owed
    /\ server["pages"] + server["rows"] + server["presence"] < MaxChanges
    /\ server' = [server EXCEPT ![t] = @ + 1]
    /\ owed' = owed \cup {t}
    /\ UNCHANGED <<timer, net, screen, ghosts, extras>>

(* Mistake: an event waits for room in the channel, however full it is. *)
RoomAlways == Subscribed

(* The channel takes an event while it has room; a full one drops it. *)
HasRoom == Subscribed /\ Len(queue) < Cap

(* broadcast, broadcastTo *)
Announce(t) ==
    /\ t \in owed
    /\ owed' = owed \ {t}
    /\ queue' = IF HasRoom THEN Append(queue, t) ELSE queue
    /\ missed' = IF HasRoom THEN missed
                 ELSE missed \cup {<<t, IF Subscribed THEN "full" ELSE "gap">>}
    /\ UNCHANGED <<server, timer, stream, watch, screen, extras,
                   failed, swallowed, overtaken>>

-----------------------------------------------------------------------------
(* Fetching.                                                               *)

(* loadPages, to be stated with the variable's own new value. *)
LoadPages == \E s \in Slots : asking[s] = Idle
                              /\ asking' = [asking EXCEPT ![s] = Asked]

ReadPages(s) ==
    /\ asking[s] = Asked
    /\ asking' = [asking EXCEPT ![s] = server["pages"]]
    /\ UNCHANGED <<server, owed, timer, net, tree, rows, crawls, epoch,
                   agents, looking, ghosts, extras>>

ShowPages(s) ==
    /\ asking[s] \in Nat
    /\ tree' = asking[s]
    /\ asking' = [asking EXCEPT ![s] = Idle]
    /\ overtaken' = (overtaken \/ asking[s] < tree)
    /\ UNCHANGED <<server, owed, timer, net, rows, crawls, epoch, agents,
                   looking, missed, failed, swallowed, extras>>

(* loadRows: a new epoch, from the first step on. *)
LoadRows == \E s \in Slots :
    /\ crawls[s] = Idle
    /\ epoch' = epoch + 1
    /\ crawls' = [crawls EXCEPT ![s] =
                     [epoch |-> epoch + 1, got |-> <<>>, read |-> Asked]]

ReadRows(s) ==
    /\ crawls[s] # Idle
    /\ crawls[s].read = Asked
    /\ crawls' = [crawls EXCEPT ![s].read = server["rows"]]
    /\ UNCHANGED <<server, owed, timer, net, tree, asking, rows, epoch,
                   agents, looking, ghosts, extras>>

(* Mistake: an answer of an older reading is shown as well. *)
NewestOrNot(s) == TRUE

Newest(s) == crawls[s].epoch = epoch

(* One step's answer: drawn at once, then the next step is asked for. *)
ShowRows(s) ==
    /\ crawls[s] # Idle
    /\ crawls[s].read \in Nat
    /\ LET got == Append(crawls[s].got, crawls[s].read)
       IN  IF Newest(s)
           THEN /\ rows' = got
                /\ crawls' = [crawls EXCEPT ![s] =
                      IF Len(got) = Steps THEN Idle
                      ELSE [epoch |-> epoch, got |-> got, read |-> Asked]]
           ELSE crawls' = [crawls EXCEPT ![s] = Idle] /\ rows' = rows
    /\ UNCHANGED <<server, owed, timer, net, tree, asking, epoch, agents,
                   looking, ghosts, extras>>

(* load: while a request is under way, no other is made. *)
LoadAgents == looking' = IF looking = Idle THEN Asked ELSE looking

ReadAgents ==
    /\ looking = Asked
    /\ looking' = server["presence"]
    /\ UNCHANGED <<server, owed, timer, net, tree, asking, rows, crawls,
                   epoch, agents, ghosts, extras>>

ShowAgents ==
    /\ looking \in Nat
    /\ agents' = looking
    /\ looking' = Idle
    /\ UNCHANGED <<server, owed, timer, net, tree, asking, rows, crawls,
                   epoch, ghosts, extras>>

(* A request is lost or answered with an error: what is on screen stays. *)
Fail ==
    /\ extras < MaxExtras /\ extras' = extras + 1
    /\ \/ /\ \E s \in Slots : /\ asking[s] # Idle
                              /\ asking' = [asking EXCEPT ![s] = Idle]
          /\ failed' = failed \cup {"pages"}
          /\ UNCHANGED <<crawls, looking>>
       \/ /\ \E s \in Slots : /\ crawls[s] # Idle
                              /\ crawls' = [crawls EXCEPT ![s] = Idle]
          /\ failed' = failed \cup {"rows"}
          /\ UNCHANGED <<asking, looking>>
       \/ /\ looking # Idle /\ looking' = Idle
          /\ failed' = failed \cup {"presence"}
          /\ UNCHANGED <<asking, crawls>>
    /\ UNCHANGED <<server, owed, timer, net, tree, rows, epoch, agents,
                   missed, swallowed, overtaken>>

-----------------------------------------------------------------------------
(* The stream.                                                             *)

(* What is still in the channel or on the wire goes with the connection. *)
LoseQueue ==
    /\ queue' = <<>>
    /\ missed' = missed \cup {<<queue[i], "gap">> : i \in DOMAIN queue}

(* handleEvents: the subscription comes before the first byte is written. *)
Accept ==
    /\ stream = "connecting"
    /\ stream' = "accepted"
    /\ UNCHANGED <<server, owed, queue, watch, timer, screen, ghosts, extras>>

(* Mistake: a stream that is back is taken to have missed nothing. *)
OpenOnly ==
    /\ stream = "accepted"
    /\ stream' = "open" /\ watch' = TRUE
    /\ UNCHANGED <<server, owed, queue, timer, screen, ghosts, extras>>

(* Mistake: the watchdog waits for the first message. *)
OpenUnwatched ==
    /\ stream = "accepted"
    /\ stream' = "open"
    /\ LoadPages
    /\ UNCHANGED <<server, owed, queue, watch, timer, tree, rows, crawls,
                   epoch, agents, looking, ghosts, extras>>

(* onopen *)
Open ==
    /\ stream = "accepted"
    /\ stream' = "open" /\ watch' = TRUE
    /\ LoadPages
    /\ UNCHANGED <<server, owed, queue, timer, tree, rows, crawls, epoch,
                   agents, looking, ghosts, extras>>

(* onmessage *)
Hear ==
    /\ stream = "open"
    /\ queue # <<>>
    /\ queue' = Tail(queue)
    /\ watch' = TRUE
    /\ timer' = timer \cup ({Head(queue)} \cap {"pages", "rows"})
    /\ IF Head(queue) = "presence" THEN LoadAgents ELSE UNCHANGED looking
    /\ swallowed' = (swallowed \/ (Head(queue) = "presence" /\ looking # Idle))
    /\ UNCHANGED <<server, owed, stream, tree, asking, rows, crawls, epoch,
                   agents, missed, failed, overtaken, extras>>

ReloadPages ==
    /\ "pages" \in timer
    /\ timer' = timer \ {"pages"}
    /\ LoadPages
    /\ UNCHANGED <<server, owed, net, tree, rows, crawls, epoch, agents,
                   looking, ghosts, extras>>

(* Mistake: a reading that is under way will do. *)
ReloadRowsUnlessBusy ==
    /\ "rows" \in timer
    /\ timer' = timer \ {"rows"}
    /\ IF \E s \in Slots : crawls[s] # Idle THEN UNCHANGED <<crawls, epoch>>
       ELSE LoadRows
    /\ UNCHANGED <<server, owed, net, tree, asking, rows, agents, looking,
                   ghosts, extras>>

ReloadRows ==
    /\ "rows" \in timer
    /\ timer' = timer \ {"rows"}
    /\ LoadRows
    /\ UNCHANGED <<server, owed, net, tree, asking, rows, agents, looking,
                   ghosts, extras>>

(* The effect runs again: everything of the old stream is thrown away,     *)
(* the pending reload of the pages too, and a new stream is opened.        *)
Reconnect ==
    /\ stream' = "connecting" /\ watch' = FALSE
    /\ timer' = timer \ {"pages"}
    /\ LoseQueue

(* A minute of silence; the server says something every 25 seconds. *)
Watchdog ==
    /\ watch /\ stream # "open"
    /\ Reconnect
    /\ UNCHANGED <<server, owed, screen, failed, swallowed, overtaken, extras>>

(* The person comes back to the window. *)
Return ==
    /\ extras < MaxExtras /\ extras' = extras + 1
    /\ LoadPages
    /\ UNCHANGED <<server, owed, timer, net, tree, rows, crawls, epoch,
                   agents, looking, ghosts>>

(* They pull down, or press the button. *)
Refresh ==
    /\ extras < MaxExtras /\ extras' = extras + 1
    /\ LoadPages
    /\ LoadRows
    /\ Reconnect
    /\ UNCHANGED <<server, owed, tree, rows, agents, looking, failed,
                   swallowed, overtaken>>

(* A broken connection: noticed, so EventSource tries again by itself; or  *)
(* not noticed by anyone; or a refusal, after which it stops trying.       *)
Break(to) ==
    /\ extras < MaxExtras /\ extras' = extras + 1
    /\ \/ to = "connecting" /\ Subscribed
       \/ to = "dead" /\ stream = "open"
       \/ to = "closed" /\ stream = "connecting"
    /\ stream' = to
    /\ LoseQueue
    /\ UNCHANGED <<server, owed, watch, timer, screen, failed,
                   swallowed, overtaken>>

-----------------------------------------------------------------------------
Next ==
    \/ \E t \in Topics : Write(t) \/ Announce(t)
    \/ \E s \in Slots : ReadPages(s) \/ ShowPages(s)
                        \/ ReadRows(s) \/ ShowRows(s)
    \/ ReadAgents \/ ShowAgents \/ Fail
    \/ Accept \/ Open \/ Hear \/ ReloadPages \/ ReloadRows \/ Watchdog
    \/ Return \/ Refresh
    \/ \E to \in {"connecting", "dead", "closed"} : Break(to)

(* The server reads and announces, requests are answered, timers fire and  *)
(* EventSource connects. Nobody has to come back, and nothing has to fail. *)
Fairness ==
    /\ \A t \in Topics : WF_vars(Announce(t))
    /\ \A s \in Slots : /\ WF_vars(ReadPages(s)) /\ WF_vars(ShowPages(s))
                        /\ WF_vars(ReadRows(s)) /\ WF_vars(ShowRows(s))
    /\ WF_vars(ReadAgents) /\ WF_vars(ShowAgents)
    /\ WF_vars(Accept) /\ WF_vars(Open) /\ WF_vars(Hear)
    /\ WF_vars(ReloadPages) /\ WF_vars(ReloadRows) /\ WF_vars(Watchdog)

Spec == Init /\ [][Next]_vars /\ Fairness

-----------------------------------------------------------------------------
(* Every variable has its type, and a channel never holds more than it has *)
(* room for, however long a browser takes to read it.                      *)
TypeOK ==
    /\ server \in [Topics -> Nat] /\ owed \subseteq Topics
    /\ stream \in Streams /\ watch \in BOOLEAN
    /\ queue \in Seq(Topics) /\ Len(queue) <= Cap
    /\ timer \subseteq {"pages", "rows"}
    /\ tree \in Nat /\ asking \in [Slots -> Nat \cup {Idle, Asked}]
    /\ rows \in Seq(Nat) /\ epoch \in Nat
    /\ crawls \in [Slots -> Crawl \cup {Idle}]
    /\ agents \in Nat /\ looking \in Nat \cup {Idle, Asked}
    /\ extras \in Nat
    /\ missed \subseteq Topics \X {"full", "gap"}
    /\ failed \subseteq Topics
    /\ swallowed \in BOOLEAN /\ overtaken \in BOOLEAN

(* Nothing about a list is on its way while the stream stands. *)
AtRest(t) == stream = "open" /\ t \notin owed /\ t \notin timer
             /\ \A i \in DOMAIN queue : queue[i] # t

(* "refetching here closes the gap by construction, whatever caused it"    *)
(* (App.tsx): with a stream that stands and nothing on its way, the        *)
(* sidebar shows the pages as they are, through any reconnection, unless   *)
(* an event found the channel full, a request failed, or an older answer   *)
(* came in after a newer one.                                              *)
TreeIsCurrent ==
    AtRest("pages") /\ (\A s \in Slots : asking[s] = Idle)
    /\ <<"pages", "full">> \notin missed /\ "pages" \notin failed
    /\ ~overtaken
        => tree = server["pages"]

(* The rows of the open database, all of them and of one moment, whichever *)
(* readings overlapped, unless an event of theirs was lost or a request    *)
(* failed: nothing rereads them at a reconnection.                         *)
RowsAreCurrent ==
    AtRest("rows") /\ (\A s \in Slots : crawls[s] = Idle)
    /\ {<<"rows", "full">>, <<"rows", "gap">>} \cap missed = {}
    /\ "rows" \notin failed
        => rows = [i \in 1 .. Steps |-> server["rows"]]

(* The agents at work, unless an event was lost, the request failed, or    *)
(* the event came while an older request was under way.                    *)
AgentsAreCurrent ==
    AtRest("presence") /\ looking = Idle
    /\ {<<"presence", "full">>, <<"presence", "gap">>} \cap missed = {}
    /\ "presence" \notin failed /\ ~swallowed
        => agents = server["presence"]

(* The rows and the agents on screen are those of the server once nothing  *)
(* about them is on its way, unless one of their events was lost.          *)
ListsAreCurrent == RowsAreCurrent /\ AgentsAreCurrent

(* The rows on screen are a copy that never goes back: the oldest step and *)
(* the newest one of what is shown only ever move forward.                 *)
Oldest == INSTANCE Mirror WITH source <- server["rows"], copy <- rows[1]
Latest == INSTANCE Mirror WITH source <- server["rows"],
                               copy <- rows[Len(rows)]
RowsMirror == Oldest!Spec /\ Latest!Spec

(* The sidebar catches up by itself, whatever happens to the stream: only  *)
(* a stream refused before its first word, a full channel, a failed        *)
(* request or an older answer that came last leave it behind.              *)
TreeCatchesUp ==
    (tree # server["pages"])
        ~> \/ tree = server["pages"] \/ overtaken
           \/ <<"pages", "full">> \in missed \/ "pages" \in failed
           \/ stream = "closed" /\ ~watch
=============================================================================
