-------------------------------- MODULE Tabs --------------------------------
(***************************************************************************)
(* The open tabs of one window, the page that is active, and the browser's *)
(* own history of both (App.tsx).                                          *)
(*                                                                         *)
(* React applies what a handler sets when the window is drawn next: what   *)
(* the person does is drawn at once, what the answer to a request sets may *)
(* meet another answer first. Handlers read the tabs from mirrors that the *)
(* drawing brings up to date, so between two drawings the mirrors lag.     *)
(* Flush is one drawing, with the effects that follow it in their order.   *)
(*                                                                         *)
(* The list of pages comes as one step here: Feed says when it is current. *)
(* A database row is not in it while it lives, and is while it lies in the *)
(* trash. Left out: workspaces, the rows that have pages of their own,     *)
(* duplicating and importing (a page comes and is gone to, as in creating  *)
(* one), and the pages other than the first that a click may go to.        *)
(***************************************************************************)
EXTENDS Naturals, Sequences, FiniteSets

CONSTANTS
    Order,       \* the documents, in the order of the list
    Rows,        \* database rows
    Fresh,       \* pages this window may create
    Parent,      \* the database of a row
    Nil,
    Starts,      \* bound: the tabs an earlier session can have left
    Addresses,   \* bound: what the address can name at first
    MaxEvents    \* bound: what the person does, other sessions, failures

In(s) == {s[i] : i \in DOMAIN s}

Docs == In(Order)
Pages == Docs \cup Rows

(* A list in which no page is twice. *)
TabLists == {s \in Seq(Pages) : \A i, j \in DOMAIN s : s[i] = s[j] => i = j}

ASSUME OrderAssumption == Order \in Seq(Docs)
ASSUME PagesAssumption == Nil \notin Pages /\ Docs \cap Rows = {}
ASSUME FreshAssumption == Fresh \subseteq Docs
ASSUME ParentAssumption == Parent \in [Rows -> Docs]
ASSUME StartsAssumption ==
    /\ Starts \subseteq {s \in TabLists : In(s) \cap Fresh = {}}
    /\ Addresses \subseteq (Pages \ Fresh) \cup {Nil}
ASSUME BoundsAssumption == MaxEvents \in Nat

VARIABLES
    status,      \* the pages on the server
    pages,       \* the list on screen, Nil: not loaded yet
    openTabs, currentId,
    tabsRef, activeRef,     \* the mirrors
    extra,       \* extraPages: what getPage said of tabs not in the list
    resolving,   \* getPage under way, and its answer
    job,         \* a creation or a trashing of this window under way
    history, pos,           \* the browser's history and where it stands
    dirty,       \* what has been set since the window was drawn
    urgent,      \* it was set by the person: drawn before anything else
    events,      \* what the bound counts
    (* history of the run, for the properties *)
    crossed,     \* a handler ran before what another had set was drawn
    ever,        \* pages that have been in the trash or gone
    blipped      \* tabs whose last getPage failed

server == <<status, ever>>
refs == <<tabsRef, activeRef>>
shown == <<openTabs, currentId, history, pos>>
vars == <<server, pages, shown, refs, extra, resolving, job, dirty, urgent,
          events, crossed, blipped>>

-----------------------------------------------------------------------------
IndexOf(s, x) == CHOOSE i \in DOMAIN s : s[i] = x

(* filter and find: what is kept of a list, in its order, and the first of *)
(* what is in it.                                                          *)
Kept(s, S) ==
    LET at == {i \in DOMAIN s : s[i] \in S}
    IN  [k \in 1..Cardinality(at) |->
            s[CHOOSE i \in at : Cardinality(at \cap 1..i) = k]]

FirstOf(s, S) ==
    LET at == {i \in DOMAIN s : s[i] \in S}
    IN  IF at = {} THEN Nil ELSE s[CHOOSE i \in at : \A j \in at : i <= j]

(* /api/pages: the live documents, and everything in the trash. *)
ListOf(st) ==
    [p \in Pages |-> IF st[p] = "trashed" \/ (st[p] = "live" /\ p \in Docs)
                     THEN st[p] ELSE "absent"]

Entry(url, state) == [url |-> url, state |-> state]

Init ==
    /\ status = [p \in Pages |-> IF p \in Fresh THEN "gone" ELSE "live"]
    /\ pages = Nil
    /\ \E seed \in Starts, url \in Addresses :
          /\ openTabs = IF url = Nil \/ url \in In(seed) THEN seed
                        ELSE Append(seed, url)
          /\ currentId = url
          /\ history = <<Entry(url, Nil)>>
    /\ pos = 1
    /\ tabsRef = openTabs /\ activeRef = currentId
    /\ extra = {} /\ resolving = [p \in Pages |-> "no"]
    /\ job = Nil
    /\ dirty = {"pages", "tabs", "current", "extra"} /\ urgent = FALSE
    /\ events = 0
    /\ crossed = FALSE /\ ever = Fresh /\ blipped = {}

-----------------------------------------------------------------------------
(* The handlers' common parts. Each sets what it names, and marks as dirty *)
(* what has another value than before.                                     *)

Marks(tabs, id, more) ==
    dirty' = dirty \cup more \cup (IF tabs # openTabs THEN {"tabs"} ELSE {})
                   \cup (IF id # currentId THEN {"current"} ELSE {})

(* pushTabHistory; a new entry drops the ones ahead of it. *)
Pushed(tabs, id, replace) ==
    LET e == Entry(id, [tabs |-> tabs, active |-> id])
    IN  IF replace THEN [history EXCEPT ![pos] = e]
        ELSE Append(SubSeq(history, 1, pos), e)

PushTabHistory(tabs, id, replace) ==
    /\ history' = Pushed(tabs, id, replace)
    /\ pos' = IF replace THEN pos ELSE pos + 1

Replaced(tabs, old, new) ==
    [i \in DOMAIN tabs |-> IF tabs[i] = old THEN new ELSE tabs[i]]

(* Mistake: a page that is open already is opened once more. *)
TabsForTwice(tabs, active, id) ==
    IF id = Nil THEN tabs
    ELSE IF active \in In(tabs) THEN Replaced(tabs, active, id)
    ELSE Append(tabs, id)

(* Where a page opens: in its own tab if it has one, else in the active    *)
(* one, else in one more.                                                  *)
TabsFor(tabs, active, id) ==
    IF id = Nil \/ id \in In(tabs) THEN tabs
    ELSE IF active \in In(tabs) THEN Replaced(tabs, active, id)
    ELSE Append(tabs, id)

(* navigate *)
Navigate(id, replace, more) ==
    LET tabs == TabsFor(tabsRef, activeRef, id)
    IN  /\ PushTabHistory(tabs, id, replace)
        /\ openTabs' = tabs /\ currentId' = id
        /\ Marks(tabs, id, more)

Without(tabs, id) == Kept(tabs, Pages \ {id})

Neighbour(tabs, i) ==
    IF i \in DOMAIN tabs THEN tabs[i]
    ELSE IF i - 1 \in DOMAIN tabs THEN tabs[i - 1] ELSE Nil

(* Mistake: the address keeps naming the tab that was closed. *)
CloseTabOnly(id, more) ==
    IF id \notin In(tabsRef)
    THEN Marks(openTabs, currentId, more) /\ UNCHANGED <<shown, extra>>
    ELSE LET next == Without(tabsRef, id)
             id2 == IF activeRef = id
                    THEN Neighbour(next, IndexOf(tabsRef, id)) ELSE currentId
         IN  /\ openTabs' = next /\ currentId' = id2
             /\ extra' = extra \ {id}
             /\ Marks(next, id2,
                      more \cup IF id \in extra THEN {"extra"} ELSE {})
             /\ UNCHANGED <<history, pos>>

(* closeTab: as the mirrors have it. *)
CloseTab(id, more) ==
    IF id \notin In(tabsRef)
    THEN Marks(openTabs, currentId, more) /\ UNCHANGED <<shown, extra>>
    ELSE LET next == Without(tabsRef, id)
             id2 == IF activeRef = id
                    THEN Neighbour(next, IndexOf(tabsRef, id)) ELSE currentId
         IN  /\ openTabs' = next /\ currentId' = id2
             /\ extra' = extra \ {id}
             /\ Marks(next, id2,
                      more \cup IF id \in extra THEN {"extra"} ELSE {})
             /\ IF activeRef = id THEN PushTabHistory(next, id2, TRUE)
                ELSE UNCHANGED <<history, pos>>

-----------------------------------------------------------------------------
(* One drawing: the mirrors, then the effects whose inputs have changed.   *)

(* Mistake: a tab the list does not know is dropped, as it once was. *)
StaysIfKnown(p) == pages[p] # "absent" /\ (pages[p] = "live" \/ p = currentId)

(* The list only drops what it knows to be in the trash. *)
Stays(p) == pages[p] # "trashed" \/ p = currentId

Filtered == IF pages # Nil /\ dirty \cap {"pages", "current"} # {}
            THEN Kept(openTabs, {p \in Pages : Stays(p)}) ELSE openTabs

Unknown == {p \in In(openTabs) : /\ pages[p] = "absent" /\ p \notin extra
                                 /\ resolving[p] = "no"}

(* The tabs whose page is asked for in this drawing. *)
Resolved == IF pages # Nil /\ dirty \cap {"pages", "tabs", "extra"} # {}
            THEN Unknown ELSE {}

(* The active page is in the trash, or there is none. *)
Homeless == pages # Nil /\ dirty \cap {"pages", "current"} # {}
            /\ (currentId = Nil \/ pages[currentId] = "trashed")

(* Another open tab, else the first page there is. *)
Landing ==
    LET live == {p \in Pages : pages[p] = "live"}
        tab == FirstOf(openTabs, live \ {currentId})
    IN  IF tab # Nil THEN tab ELSE FirstOf(Order, live)

Flush ==
    /\ dirty # {} \/ urgent
    /\ tabsRef' = openTabs /\ activeRef' = currentId
    /\ resolving' = [p \in Pages |-> IF p \in Resolved THEN "asked"
                                     ELSE resolving[p]]
    /\ blipped' = blipped \ Resolved
    /\ IF Homeless
       THEN LET tabs == TabsFor(openTabs, currentId, Landing)
            IN  /\ openTabs' = tabs /\ currentId' = Landing
                /\ PushTabHistory(tabs, Landing, TRUE)
       ELSE openTabs' = Filtered /\ UNCHANGED <<currentId, history, pos>>
    /\ dirty' = (IF openTabs' # openTabs THEN {"tabs"} ELSE {})
                \cup (IF currentId' # currentId THEN {"current"} ELSE {})
    /\ urgent' = FALSE
    /\ UNCHANGED <<server, pages, extra, job, events, crossed>>

-----------------------------------------------------------------------------
(* The person. What a click sets is drawn before anything else happens.    *)

Acts ==
    /\ ~urgent /\ urgent' = TRUE
    /\ events < MaxEvents /\ events' = events + 1
    /\ crossed' = (crossed \/ dirty # {})

Rest == <<server, pages, refs, resolving, job, blipped>>

(* A click in the sidebar, on a tab or on a row; the keys for the next tab. *)
Go(id) ==
    /\ Acts /\ status[id] # "gone"
    /\ Navigate(id, FALSE, {})
    /\ UNCHANGED <<Rest, extra>>

(* openInNewTab *)
OpenInNewTab(id) ==
    /\ Acts /\ status[id] # "gone"
    /\ LET i == IF activeRef \in In(tabsRef) THEN IndexOf(tabsRef, activeRef)
                ELSE Len(tabsRef)
           tabs == IF id \in In(tabsRef) THEN tabsRef
                   ELSE SubSeq(tabsRef, 1, i) \o <<id>>
                        \o SubSeq(tabsRef, i + 1, Len(tabsRef))
       IN  /\ PushTabHistory(tabs, id, FALSE)
           /\ openTabs' = tabs /\ currentId' = id
           /\ Marks(tabs, id, {})
    /\ UNCHANGED <<Rest, extra>>

Close(id) ==
    /\ Acts /\ id \in In(openTabs)
    /\ CloseTab(id, {})
    /\ UNCHANGED Rest

(* A link in a text: it may lead to a page that is gone. *)
FollowLink(id) ==
    /\ Acts
    /\ history' = Append(SubSeq(history, 1, pos), Entry(id, Nil))
    /\ pos' = pos + 1
    /\ currentId' = id
    /\ openTabs' = TabsFor(openTabs, activeRef, id)
    /\ Marks(openTabs', id, {})
    /\ UNCHANGED <<Rest, extra>>

(* onPop: the entry's own tabs, or only the page the address names. *)
Pop(to) ==
    /\ Acts /\ to \in DOMAIN history /\ to # pos
    /\ pos' = to
    /\ LET e == history[to]
       IN  IF e.state # Nil
           THEN openTabs' = e.state.tabs /\ currentId' = e.state.active
           ELSE /\ currentId' = e.url
                /\ openTabs' = IF e.url = Nil \/ e.url \in In(openTabs)
                               THEN openTabs ELSE Append(openTabs, e.url)
    /\ Marks(openTabs', currentId', {})
    /\ UNCHANGED <<Rest, extra, history>>

(* handleMissing, from the button an editor shows that could not load its  *)
(* page: the page is gone, or the request failed.                          *)
Missing ==
    /\ Acts /\ activeRef # Nil /\ pages # Nil
    /\ pages' = [pages EXCEPT ![activeRef] = "absent"]
    /\ CloseTab(activeRef, {"pages"})
    /\ UNCHANGED <<server, refs, resolving, job, blipped>>

(* createPage, trashPage: the request is sent. *)
Ask(what, id) ==
    /\ ~urgent /\ events < MaxEvents /\ events' = events + 1
    /\ job = Nil /\ pages # Nil
    /\ \/ what = "create" /\ id \in Fresh \ {p \in Fresh : status[p] # "gone"}
       \/ what = "trash" /\ status[id] = "live" /\ id \notin Fresh
    /\ job' = [what |-> what, id |-> id, active |-> activeRef, done |-> FALSE]
    /\ UNCHANGED <<server, pages, shown, refs, extra, resolving, dirty,
                   urgent, crossed, blipped>>

-----------------------------------------------------------------------------
(* The server, and the answers.                                            *)

Serve ==
    /\ job # Nil /\ ~job.done
    /\ status' = [status EXCEPT ![job.id] =
                     IF job.what = "create" THEN "live"
                     ELSE IF @ = "live" THEN "trashed" ELSE @]
    /\ ever' = IF job.what = "trash" THEN ever \cup {job.id} ELSE ever
    /\ job' = [job EXCEPT !.done = TRUE]
    /\ UNCHANGED <<pages, shown, refs, extra, resolving, dirty, urgent,
                   events, crossed, blipped>>

(* An answer sets what it sets; the window has not been drawn since. *)
Answers == ~urgent /\ crossed' = (crossed \/ dirty # {})

(* createPage goes on: the page is in the list, and is gone to. *)
Created ==
    /\ Answers
    /\ job # Nil /\ job.done /\ job.what = "create"
    /\ pages' = IF pages = Nil THEN Nil
                ELSE [pages EXCEPT ![job.id] = "live"]
    /\ Navigate(job.id, FALSE, {"pages"})
    /\ job' = Nil
    /\ UNCHANGED <<server, refs, extra, resolving, urgent, events, blipped>>

(* trashPage goes on: away from the page if it is still the active one, to *)
(* the parent that was read if it was active then. navigate sets the tabs, *)
(* and the page is filtered out of what it set.                            *)
Trashed ==
    /\ Answers
    /\ job # Nil /\ job.done /\ job.what = "trash"
    /\ LET id == job.id
           to == IF job.active = id /\ id \in Rows THEN Parent[id] ELSE Nil
           leave == activeRef = id
           tabs == IF leave THEN TabsFor(tabsRef, activeRef, to) ELSE openTabs
           id2 == IF leave THEN to ELSE currentId
       IN  /\ IF leave THEN PushTabHistory(tabs, to, TRUE)
              ELSE UNCHANGED <<history, pos>>
           /\ openTabs' = Without(tabs, id) /\ currentId' = id2
           /\ extra' = extra \ {id}
           /\ Marks(openTabs', id2, IF id \in extra THEN {"extra"} ELSE {})
    /\ job' = Nil
    /\ UNCHANGED <<server, pages, refs, resolving, urgent, events, blipped>>

(* The server reads a page that getPage asks for. *)
ReadPage(p) ==
    /\ resolving[p] = "asked"
    /\ resolving' = [resolving EXCEPT ![p] = status[p]]
    /\ UNCHANGED <<server, pages, shown, refs, extra, job, dirty, urgent,
                   events, crossed, blipped>>

(* Mistake: a page the server does not have is left for the next time. *)
GoneTrashed == {"trashed"}

(* The answers after which a tab is closed. *)
Gone == {"trashed", "gone"}

(* The resolver's answer. *)
Resolve(p) ==
    /\ Answers
    /\ resolving[p] \in {"live", "trashed", "gone"}
    /\ resolving' = [resolving EXCEPT ![p] = "no"]
    /\ \/ resolving[p] \in Gone /\ CloseTab(p, {})
       \/ /\ resolving[p] \notin Gone
          /\ extra' = IF resolving[p] = "live" /\ p \in In(tabsRef)
                      THEN extra \cup {p} ELSE extra
          /\ Marks(openTabs, currentId,
                   IF extra' # extra THEN {"extra"} ELSE {})
          /\ UNCHANGED shown
    /\ UNCHANGED <<server, pages, refs, job, urgent, events, blipped>>

(* The request fails on its way: asked again when something changes. *)
Blip(p) ==
    /\ ~urgent /\ resolving[p] # "no"
    /\ events < MaxEvents /\ events' = events + 1
    /\ resolving' = [resolving EXCEPT ![p] = "no"]
    /\ blipped' = blipped \cup {p}
    /\ UNCHANGED <<server, pages, shown, refs, extra, job, dirty, urgent,
                   crossed>>

(* loadPages has an answer. *)
ListComes ==
    /\ ~urgent
    /\ pages # ListOf(status)
    /\ pages' = ListOf(status)
    /\ dirty' = dirty \cup {"pages"}
    /\ UNCHANGED <<server, shown, refs, extra, resolving, job, urgent, events,
                   crossed, blipped>>

(* Another session trashes a page, restores it or deletes it for good. *)
Other(p, to) ==
    /\ events < MaxEvents /\ events' = events + 1
    /\ <<status[p], to>> \in {<<"live", "trashed">>, <<"trashed", "live">>,
                              <<"trashed", "gone">>}
    /\ status' = [status EXCEPT ![p] = to]
    /\ ever' = ever \cup {p}
    /\ UNCHANGED <<pages, shown, refs, extra, resolving, job, dirty, urgent,
                   crossed, blipped>>

-----------------------------------------------------------------------------
Person ==
    \/ \E p \in Pages : Go(p) \/ OpenInNewTab(p) \/ Close(p) \/ FollowLink(p)
                        \/ Ask("create", p) \/ Ask("trash", p)
    \/ \E i \in DOMAIN history : Pop(i)
    \/ Missing

Server ==
    \/ Serve
    \/ \E p \in Pages : ReadPage(p) \/ Other(p, "live") \/ Other(p, "trashed")
                        \/ Other(p, "gone")

Comes == Created \/ Trashed \/ ListComes
         \/ \E p \in Pages : Resolve(p) \/ Blip(p)

Next == Flush \/ Person \/ Server \/ Comes

(* A window that has something to draw draws it, and requests are answered. *)
Fairness ==
    /\ WF_vars(Flush) /\ WF_vars(ListComes)
    /\ WF_vars(Serve) /\ WF_vars(Created) /\ WF_vars(Trashed)
    /\ \A p \in Pages : WF_vars(ReadPage(p)) /\ WF_vars(Resolve(p))

Spec == Init /\ [][Next]_vars /\ Fairness

-----------------------------------------------------------------------------
State == [tabs : TabLists, active : Pages \cup {Nil}] \cup {Nil}

(* Every variable has its type, and no page is ever open in two tabs, nor  *)
(* in the tabs of an entry of the browser's history.                       *)
TypeOK ==
    /\ status \in [Pages -> {"live", "trashed", "gone"}]
    /\ pages \in [Pages -> {"live", "trashed", "absent"}] \cup {Nil}
    /\ {openTabs, tabsRef} \subseteq TabLists
    /\ {currentId, activeRef} \subseteq Pages \cup {Nil}
    /\ extra \subseteq Pages
    /\ resolving \in [Pages -> {"no", "asked", "live", "trashed", "gone"}]
    /\ job \in [what : {"create", "trash"}, id : Pages, done : BOOLEAN,
                active : Pages \cup {Nil}] \cup {Nil}
    /\ pos \in DOMAIN history
    /\ history \in Seq([url : Pages \cup {Nil}, state : State])
    /\ dirty \subseteq {"pages", "tabs", "current", "extra"}
    /\ urgent \in BOOLEAN /\ crossed \in BOOLEAN
    /\ events \in Nat
    /\ ever \subseteq Pages /\ blipped \subseteq Pages

(* A drawn window is of a piece: the address names the active page, and    *)
(* the active page has a tab, back and forward through every history. Only *)
(* two handlers that meet before a drawing can break it.                   *)
InStep ==
    dirty = {} /\ ~crossed
        => /\ history[pos].url = currentId
           /\ currentId # Nil => currentId \in In(openTabs)

(* A tab goes because the person closed it or went elsewhere in it, or     *)
(* because its page was in the trash or gone, never by itself: a row is    *)
(* not in the list, and keeps its tab.                                     *)
LiveTabsStay ==
    [][\A p \in Pages \ ever :
          p \in In(openTabs) /\ p \notin In(openTabs')
              => urgent' \/ crossed' \/ Created]_vars

(* The tab of a page that is in the trash or gone closes, or the page is   *)
(* back: "anything the server no longer has closes its tab rather than     *)
(* lingering" (App.tsx). It lingers only where a row had been looked up    *)
(* before it went, where the last request for it failed, where there is no *)
(* page left to land on (the landing puts back what was filtered out), or  *)
(* where two handlers that met put back a tab the list had dropped.        *)
GoneTabsClose ==
    \A p \in Pages :
        (p \in In(openTabs) /\ status[p] # "live")
            ~> (\/ p \notin In(openTabs) \/ status[p] = "live"
                \/ p \in blipped \/ p \in extra
                \/ pages # Nil /\ \A q \in Pages : pages[q] # "live"
                \/ crossed /\ pages # Nil /\ pages[p] = "trashed")
=============================================================================
