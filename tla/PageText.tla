------------------------------ MODULE PageText ------------------------------
(***************************************************************************)
(* The text of one page: the column content and its generation doc_gen,    *)
(* the live document of the editors, their autosaves, the writes from      *)
(* outside the editor and the version history (docgen.go, history.go,      *)
(* pages.go, mcp_pages.go, mcp_history.go, mdimport.go, Editor.tsx).       *)
(*                                                                         *)
(* A text is the set of pieces it holds; a piece is what one keystroke or  *)
(* one outside write brought in. Every SQL statement and every transaction *)
(* of a handler is a step of its own, because another handler can come     *)
(* between two of them: Script lists the steps of each kind of write.      *)
(*                                                                         *)
(* What Collab shows is taken for granted here: connected editors hold     *)
(* what the live document holds, one of them seeds an empty document, and  *)
(* a reset reaches them all at once. Left out: titles, the search index,   *)
(* deleting text, and front ends that name no generation.                  *)
(***************************************************************************)
EXTENDS Naturals, Sequences, FiniteSets

CONSTANTS
    Tabs,        \* the editors of the page
    Handlers,    \* the requests that can be under way at one time
    Pieces,      \* pieces of text
    Kinds,       \* the writes from outside the editor that come
    Nil,
    Keep,        \* revisionKeep
    MaxWrites,   \* bound: how many of them
    MaxSent,     \* bound: autosaves on their way
    MaxFaults    \* bound: sockets cut, requests lost, restarts

ASSUME KeepAssumption == Keep \in Nat \ {0}
ASSUME BoundsAssumption == {MaxWrites, MaxSent, MaxFaults} \subseteq Nat
ASSUME NilAssumption == Nil \notin Tabs \cup Nat

VARIABLES
    content,     \* pages.content
    docGen,      \* pages.doc_gen
    live,        \* the live document, {} when none is stored
    revs,        \* page_revisions, oldest first
    young,       \* the newest revision is younger than revisionThrottle
    tab,         \* the editor in each tab
    sent,        \* autosaves on their way to the server
    job,         \* what each handler has left to do
    used,        \* pieces that exist
    writes, faults,
    (* history of the run, for the properties *)
    base,        \* the text the last outside write left behind
    born,        \* the generation a piece was typed under, Nil: not typed
    stale,       \* the live document is of an older generation
    caught,      \* an editor has joined such a document
    stored,      \* pieces that were in content or in a revision at some time
    lost         \* pieces of requests that never arrived

vars == <<content, docGen, live, revs, young, tab, sent, job, used,
          writes, faults, base, born, stale, caught, stored, lost>>

docs == <<content, docGen, live, revs, young>>
bounds == <<used, writes, faults>>
ghosts == <<base, born, stale, caught, stored, lost>>

-----------------------------------------------------------------------------
Text == SUBSET Pieces

Closed == [st |-> "closed", gen |-> 0, seed |-> {}, copy |-> {}, dirty |-> FALSE]

Tab == [st : {"closed", "loaded", "online", "kicked", "offline"},
        gen : Nat, seed : Text, copy : Text, dirty : BOOLEAN]

(* An autosave; from is the editor that waits for the answer. *)
Save == [from : Tabs \cup {Nil}, gen : Nat, replaced : BOOLEAN, text : Text]

(* The statements of the writes from outside the editor, in order:          *)
(*   throttle, read, keep  snapshotRevision                                *)
(*   current, file         the same without throttle and pruning           *)
(*   write, merge          the UPDATE, with a text or with content and one *)
(*   reset                 resetYjsDoc                                     *)
Snapshot == <<"throttle", "read", "keep">>

Script ==
    [put     |-> <<"write", "reset">> \o Snapshot,
     append  |-> <<"merge">> \o Snapshot \o <<"reset">>,
     replace |-> Snapshot \o <<"write", "reset">>,
     prepend |-> Snapshot \o <<"merge", "reset">>,
     embed   |-> Snapshot \o <<"merge", "reset", "reset">>]

RestoreScript ==
    [restore     |-> Snapshot \o <<"write", "reset">>,
     toolRestore |-> <<"current", "file", "write", "reset">>]

(* Mistake: the refused copy is thrown away. *)
RefusalDropped == <<"answer">>

(* keepRefusedCopy, and then the answer: see CompareNewest. *)
Refusal == <<"newest">>

Idle == [todo |-> <<>>, text |-> {}, seen |-> {}, from |-> Nil]

Steps == {"throttle", "read", "keep", "current", "file", "write", "merge",
          "reset", "newest", "answer"}

Job == [todo : Seq(Steps), text : Text, seen : Text, from : Tabs \cup {Nil}]

(* An editor that waits for an answer is there, and still holds what it     *)
(* sent, until the copy has been dealt with.                                *)
Unhandled(h) == job[h].todo # <<>> /\ Head(job[h].todo) \in {"newest", "keep"}

Awaited ==
    /\ \A s \in sent : s.from # Nil => s.text \subseteq tab[s.from].copy
    /\ \A h \in Handlers :
          ~ (job[h].seen \subseteq stored)
             => /\ Unhandled(h)
                /\ job[h].from # Nil => job[h].seen \subseteq tab[job[h].from].copy

TypeOK ==
    /\ content \in Text /\ live \in Text /\ docGen \in Nat
    /\ revs \in Seq(Text) /\ young \in BOOLEAN
    /\ tab \in [Tabs -> Tab]
    /\ sent \subseteq Save
    /\ job \in [Handlers -> Job]
    /\ used \in Text /\ writes \in Nat /\ faults \in Nat
    /\ base \in Text /\ stored \in Text /\ lost \in Text
    /\ born \in [Pieces -> Nat \cup {Nil}]
    /\ stale \in BOOLEAN /\ caught \in BOOLEAN
    /\ Awaited

Init ==
    /\ content = {} /\ live = {} /\ docGen = 0
    /\ revs = <<>> /\ young = FALSE
    /\ tab = [t \in Tabs |-> Closed]
    /\ sent = {}
    /\ job = [h \in Handlers |-> Idle]
    /\ used = {} /\ writes = 0 /\ faults = 0
    /\ base = {} /\ stored = {} /\ lost = {}
    /\ born = [p \in Pieces |-> Nil]
    /\ stale = FALSE /\ caught = FALSE

-----------------------------------------------------------------------------
(* The editors. *)
Online(t) == tab[t].st = "online"

(* Editors that are connected take over what the live document gained.      *)
Show(text, t) ==
    [u \in Tabs |->
        IF u = t \/ Online(u)
        THEN [tab[u] EXCEPT !.st = "online", !.seed = {},
                            !.copy = @ \cup text,
                            !.dirty = @ \/ ~ (text \subseteq tab[u].copy)]
        ELSE tab[u]]

(* Opening the page: text and generation come with one SELECT. *)
Load(t) ==
    /\ tab[t].st = "closed"
    /\ tab' = [tab EXCEPT ![t] = [Closed EXCEPT !.st = "loaded", !.gen = docGen,
                                                !.seed = content]]
    /\ UNCHANGED <<docs, sent, job, bounds, ghosts>>

(* Mistake: the next editor in the tab gets the answer. *)
UnheardByNone(t, S) == S

(* No answer reaches an editor that is gone. *)
Unheard(t, S) == {IF s.from = t THEN [s EXCEPT !.from = Nil] ELSE s : s \in S}
UnheardJobs(t) == [h \in Handlers |-> IF job[h].from = t
                                      THEN [job[h] EXCEPT !.from = Nil]
                                      ELSE job[h]]

(* Unmounting flushes what is not saved yet; replaced says that the editor  *)
(* knows its document to be replaced.                                       *)
Unmount(t, replaced) ==
    /\ tab[t].dirty => Cardinality(sent) < MaxSent
    /\ tab' = [tab EXCEPT ![t] = Closed]
    /\ sent' = Unheard(t, sent) \cup
                 (IF tab[t].dirty
                  THEN {[from |-> Nil, gen |-> tab[t].gen,
                         replaced |-> replaced, text |-> tab[t].copy]}
                  ELSE {})

Leave(t) ==
    /\ tab[t].st # "closed"
    /\ Unmount(t, FALSE)
    /\ job' = UnheardJobs(t)
    /\ UNCHANGED <<docs, bounds, ghosts>>

(* The 4001 arrives. *)
HearReset(t) ==
    /\ tab[t].st = "kicked"
    /\ Unmount(t, TRUE)
    /\ job' = UnheardJobs(t)
    /\ UNCHANGED <<docs, bounds, ghosts>>

(* The generation check of the relay. *)
LetIn(t) == tab[t].gen = docGen

(* What the editor brings along: its copy, or the body it loaded when       *)
(* neither it nor the server has a document.                                *)
Brings(t) == IF live = {} /\ tab[t].copy = {} THEN tab[t].seed ELSE tab[t].copy

Connect(t) ==
    /\ tab[t].st \in {"loaded", "offline"}
    /\ LetIn(t)
    /\ live' = live \cup Brings(t)
    /\ tab' = Show(live \cup Brings(t), t)
    /\ caught' = (caught \/ stale)
    /\ UNCHANGED <<content, docGen, revs, young, sent, job, bounds,
                   base, born, stale, stored, lost>>

Refused(t) ==
    /\ tab[t].st \in {"loaded", "offline"}
    /\ ~ LetIn(t)
    /\ Unmount(t, TRUE)
    /\ job' = UnheardJobs(t)
    /\ UNCHANGED <<docs, bounds, ghosts>>

NetDrop(t) ==
    /\ faults < MaxFaults
    /\ faults' = faults + 1
    /\ tab[t].st \in {"online", "kicked"}
    /\ tab' = [tab EXCEPT ![t].st = "offline"]
    /\ UNCHANGED <<docs, sent, job, used, writes, ghosts>>

(* A keystroke; only a connected editor passes it on. *)
Type(t) ==
    /\ tab[t].st \in {"online", "kicked", "offline"}
    /\ \E p \in Pieces :
          /\ p \notin used
          /\ used' = used \cup {p}
          /\ born' = [born EXCEPT ![p] = tab[t].gen]
          /\ IF Online(t)
             THEN /\ live' = live \cup {p}
                  /\ tab' = Show({p}, t)
             ELSE /\ tab' = [tab EXCEPT ![t] = [tab[t] EXCEPT !.copy = @ \cup {p},
                                                         !.dirty = TRUE]]
                  /\ UNCHANGED live
    /\ UNCHANGED <<content, docGen, revs, young, sent, job, writes, faults,
                   base, stale, caught, stored, lost>>

(* The debounced autosave. *)
AutoSave(t) ==
    /\ tab[t].dirty
    /\ Cardinality(sent) < MaxSent
    /\ tab' = [tab EXCEPT ![t].dirty = FALSE]
    /\ sent' = sent \cup {[from |-> t, gen |-> tab[t].gen,
                           replaced |-> FALSE, text |-> tab[t].copy]}
    /\ UNCHANGED <<docs, job, bounds, ghosts>>

-----------------------------------------------------------------------------
(* The server. *)
Free(h) == job[h].todo = <<>>

(* Mistake: only the editor that knows is turned away. *)
MayWriteUnlessTold(s) == ~ s.replaced

(* materializeGuard *)
MayWrite(s) == ~ s.replaced /\ s.gen = docGen

(* The transaction of the autosave: the copy is stored, or refused. *)
TakeSave(h) ==
    /\ Free(h)
    /\ \E s \in sent :
          /\ sent' = sent \ {s}
          /\ IF MayWrite(s)
             THEN /\ content' = s.text
                  /\ stored' = stored \cup s.text
                  /\ job' = [job EXCEPT ![h] = [Idle EXCEPT !.todo = Snapshot,
                                                !.from = s.from]]
             ELSE /\ job' = [job EXCEPT ![h] = [Idle EXCEPT !.todo = Refusal,
                                                !.from = s.from, !.seen = s.text]]
                  /\ UNCHANGED <<content, stored>>
    /\ UNCHANGED <<docGen, live, revs, young, tab, bounds,
                   base, born, stale, caught, lost>>

Outside(h, script, text) ==
    /\ Free(h)
    /\ writes < MaxWrites
    /\ writes' = writes + 1
    /\ job' = [job EXCEPT ![h] = [Idle EXCEPT !.todo = script, !.text = text]]
    /\ UNCHANGED <<docs, tab, sent, faults, ghosts>>

OutsideWrite(h) ==
    \E kind \in Kinds \cap DOMAIN Script, p \in Pieces :
        /\ p \notin used
        /\ used' = used \cup {p}
        /\ Outside(h, Script[kind], {p})

RestoreRevision(h) ==
    \E kind \in Kinds \cap DOMAIN RestoreScript, i \in DOMAIN revs :
        /\ UNCHANGED used
        /\ Outside(h, RestoreScript[kind], revs[i])

-----------------------------------------------------------------------------
(* The steps of a script. *)
At(h, step) == job[h].todo # <<>> /\ Head(job[h].todo) = step
After(h, n) == SubSeq(job[h].todo, n + 1, Len(job[h].todo))
Skip(h, n) ==
    job' = [job EXCEPT ![h] = IF After(h, n) = <<>> THEN Idle
                              ELSE [@ EXCEPT !.todo = After(h, n)]]
Then(h) == Skip(h, 1)

(* Is there a snapshot of the last two minutes, the rest is skipped. *)
Throttle(h) ==
    /\ At(h, "throttle")
    /\ IF revs # <<>> /\ young THEN Skip(h, 3) ELSE Then(h)
    /\ UNCHANGED <<docs, tab, sent, bounds, ghosts>>

(* snapshotRevision reads the body, and leaves an empty one alone. *)
ReadBody(h) ==
    /\ At(h, "read")
    /\ IF content = {}
       THEN Skip(h, 2)
       ELSE job' = [job EXCEPT ![h] = [job[h] EXCEPT !.todo = Tail(@), !.seen = content]]
    /\ UNCHANGED <<docs, tab, sent, bounds, ghosts>>

ReadCurrent(h) ==
    /\ At(h, "current")
    /\ job' = [job EXCEPT ![h] = [job[h] EXCEPT !.todo = Tail(@), !.seen = content]]
    /\ UNCHANGED <<docs, tab, sent, bounds, ghosts>>

(* A copy equal to the newest revision is not kept twice. *)
CompareNewest(h) ==
    /\ At(h, "newest")
    /\ job' = [job EXCEPT
                  ![h].todo = IF revs # <<>> /\ revs[Len(revs)] = job[h].seen
                              THEN <<"answer">> ELSE <<"keep", "answer">>]
    /\ UNCHANGED <<docs, tab, sent, bounds, ghosts>>

Newest(seq) == SubSeq(seq, IF Len(seq) > Keep THEN Len(seq) - Keep + 1 ELSE 1, Len(seq))

(* INSERT INTO page_revisions, by all but the restore of the tool followed   *)
(* by the pruning.                                                          *)
KeepRevision(h) ==
    /\ \/ At(h, "keep") /\ revs' = Newest(Append(revs, job[h].seen))
       \/ At(h, "file") /\ revs' = Append(revs, job[h].seen)
    /\ young' = TRUE
    /\ stored' = stored \cup job[h].seen
    /\ Then(h)
    /\ UNCHANGED <<content, docGen, live, tab, sent, bounds,
                   base, born, stale, caught, lost>>

(* The UPDATE of a write from outside; an append puts its piece into the    *)
(* body it finds.                                                           *)
Replaces(text) ==
    /\ content' = text
    /\ base' = text
    /\ stored' = stored \cup text
    /\ docGen' = docGen + 1
    /\ stale' = (stale \/ live # {} \/ \E t \in Tabs : Online(t))

Write(h) ==
    /\ \/ At(h, "write") /\ Replaces(job[h].text)
       \/ At(h, "merge") /\ Replaces(content \cup job[h].text)
    /\ Then(h)
    /\ UNCHANGED <<live, revs, young, tab, sent, bounds, born, caught, lost>>

(* resetYjsDoc: the live document is emptied, its editors are closed 4001.   *)
Reset(h) ==
    /\ At(h, "reset")
    /\ live' = {}
    /\ stale' = FALSE
    /\ tab' = [t \in Tabs |-> IF Online(t) THEN [tab[t] EXCEPT !.st = "kicked"]
                              ELSE tab[t]]
    /\ Then(h)
    /\ UNCHANGED <<content, docGen, revs, young, sent, bounds,
                   base, born, caught, stored, lost>>

(* 409 doc_replaced: the editor, if it is still there, loads again. *)
Answer(h) ==
    /\ At(h, "answer")
    /\ IF job[h].from = Nil
       THEN /\ job' = [job EXCEPT ![h] = Idle]
            /\ UNCHANGED <<tab, sent>>
       ELSE /\ Unmount(job[h].from, TRUE)
            /\ job' = [UnheardJobs(job[h].from) EXCEPT ![h] = Idle]
    /\ UNCHANGED <<docs, bounds, ghosts>>

-----------------------------------------------------------------------------
TimePasses ==
    /\ young
    /\ young' = FALSE
    /\ UNCHANGED <<content, docGen, live, revs, tab, sent, job, bounds, ghosts>>

(* An error: the editor that waits keeps its copy for the next attempt.     *)
Unsaved(S) ==
    /\ tab' = [t \in Tabs |-> IF \E s \in S : s.from = t
                              THEN [tab[t] EXCEPT !.dirty = TRUE] ELSE tab[t]]
    /\ lost' = lost \cup UNION {s.text : s \in {x \in S : x.from = Nil}}

LoseSave ==
    /\ faults < MaxFaults
    /\ faults' = faults + 1
    /\ \E s \in sent :
          /\ sent' = sent \ {s}
          /\ Unsaved({s})
    /\ UNCHANGED <<docs, job, used, writes, base, born, stale, caught, stored>>

(* What the handlers had left to do is not done; sockets are cut.           *)
Restart ==
    /\ faults < MaxFaults
    /\ faults' = faults + 1
    /\ LET S == {job[h] : h \in Handlers} IN
          /\ tab' = [t \in Tabs |->
                        [tab[t] EXCEPT
                            !.st = IF @ \in {"online", "kicked"} THEN "offline" ELSE @,
                            !.dirty = @ \/ \E s \in S : s.from = t]]
          /\ lost' = lost \cup UNION {s.seen : s \in {x \in S : x.from = Nil}}
    /\ job' = [h \in Handlers |-> Idle]
    /\ UNCHANGED <<docs, sent, used, writes, base, born, stale, caught, stored>>

Step(h) ==
    \/ TakeSave(h) \/ OutsideWrite(h) \/ RestoreRevision(h)
    \/ Throttle(h) \/ ReadBody(h) \/ ReadCurrent(h) \/ CompareNewest(h)
    \/ KeepRevision(h) \/ Write(h) \/ Reset(h) \/ Answer(h)

Editor(t) ==
    \/ Load(t) \/ Leave(t) \/ HearReset(t) \/ Connect(t) \/ Refused(t)
    \/ NetDrop(t) \/ Type(t) \/ AutoSave(t)

Next ==
    \/ \E t \in Tabs : Editor(t)
    \/ \E h \in Handlers : Step(h)
    \/ TimePasses \/ LoseSave \/ Restart

Spec == Init /\ [][Next]_vars

-----------------------------------------------------------------------------
Typed == {p \in Pieces : born[p] # Nil}
TypedUnder(g) == {p \in Pieces : born[p] = g}

(* A write from outside is not undone by an editor that was open before it: *)
(* by its autosave, by its reconnect or by what it seeds (docgen.go:20-34). *)
(* The body holds what the last such write left and besides only what was   *)
(* typed under its generation, and so does the live document once it has    *)
(* been reset. The one way in is to join the old live document between the  *)
(* UPDATE and the reset.                                                    *)
Follows(text) == base \subseteq text /\ text \ base \subseteq TypedUnder(docGen)

NoOldCopyBack ==
    ~ caught => /\ Follows(content)
                /\ stale \/ live = {} \/ Follows(live)

(* What is typed is on its way until it has been in the body or in the      *)
(* history: a refused copy is filed, not dropped (docgen.go:44). Only a     *)
(* request nobody waits for can be lost on the way.                         *)
Pending ==
    UNION ({tab[t].copy : t \in {u \in Tabs : tab[u].dirty}}
            \cup {s.text : s \in sent}
            \cup {job[h].seen : h \in Handlers})

TypedIsKept == Typed \subseteq stored \cup lost \cup Pending

(* A text that a restore or a replacement overwrites is in the history.     *)
(* (history-and-audit.md: "Restoring is itself undoable").                  *)
Overwrites(h) == At(h, "write") /\ Len(job[h].todo) = 2

Undoable ==
    [][\A h \in Handlers :
          Overwrites(h) /\ job'[h].todo = Tail(job[h].todo)
             => content = {} \/ \E i \in DOMAIN revs : revs[i] = content]_vars
=============================================================================
