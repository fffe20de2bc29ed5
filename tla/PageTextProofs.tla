--------------------------- MODULE PageTextProofs ---------------------------
(***************************************************************************)
(* The text of a page, proved for every number of editors, requests,       *)
(* pieces and revisions kept.                                              *)
(***************************************************************************)
EXTENDS PageText, SequenceTheorems, TLAPS

USE NilAssumption, KeepAssumption

-----------------------------------------------------------------------------
(* TypeOK without its last conjunct. *)
Types ==
    /\ content \in Text /\ live \in Text /\ docGen \in Nat
    /\ revs \in Seq(Text) /\ young \in BOOLEAN
    /\ tab \in [Tabs -> Tab]
    /\ sent \subseteq Save
    /\ job \in [Handlers -> Job]
    /\ used \in Text /\ writes \in Nat /\ faults \in Nat
    /\ base \in Text /\ stored \in Text /\ lost \in Text
    /\ born \in [Pieces -> Nat \cup {Nil}]
    /\ stale \in BOOLEAN /\ caught \in BOOLEAN

(* A handler goes on with the rest of its script, or is free again. *)
LEMMA SkipKeepsJobs ==
  ASSUME Types, NEW h \in Handlers, NEW n \in Nat, Skip(h, n)
  PROVE  /\ job' \in [Handlers -> Job]
         /\ \A k \in Handlers \ {h} : job'[k] = job[k]
         /\ \/ job'[h] = Idle
            \/ /\ job'[h].todo = After(h, n) /\ After(h, n) # <<>>
               /\ job'[h].text = job[h].text
               /\ job'[h].seen = job[h].seen
               /\ job'[h].from = job[h].from
<1>1. After(h, n) \in Seq(Steps)
  <2>1. job[h].todo \in Seq(Steps) BY DEF Types, Job
  <2>2. \A i \in n + 1 .. Len(job[h].todo) : job[h].todo[i] \in Steps
    BY <2>1
  <2> QED BY <2>1, <2>2, SubSeqProperties DEF After
<1>2. Idle \in Job
  BY DEF Idle, Job, Text
<1> QED BY <1>1, <1>2 DEF Types, Skip, Job

(* An editor goes away: nobody waits for its autosaves any more. *)
LEMMA UnmountTypes ==
  ASSUME Types, NEW t \in Tabs, NEW r \in BOOLEAN, Unmount(t, r)
  PROVE  /\ tab' \in [Tabs -> Tab] /\ sent' \subseteq Save
         /\ UnheardJobs(t) \in [Handlers -> Job]
<1>1. Closed \in Tab
  BY DEF Closed, Tab, Text
<1>2. Unheard(t, sent) \subseteq Save
  BY DEF Types, Unheard, Save
<1>3. [from |-> Nil, gen |-> tab[t].gen, replaced |-> r, text |-> tab[t].copy] \in Save
  BY DEF Types, Save, Tab
<1>4. UnheardJobs(t) \in [Handlers -> Job]
  BY DEF Types, UnheardJobs, Job
<1> QED BY <1>1, <1>2, <1>3, <1>4 DEF Types, Unmount

LEMMA ShowTypes ==
  ASSUME Types, NEW t \in Tabs, NEW text \in Text
  PROVE  Show(text, t) \in [Tabs -> Tab]
<1> SUFFICES ASSUME NEW u \in Tabs PROVE Show(text, t)[u] \in Tab
  BY DEF Show
<1>1. tab[u] \in Tab /\ tab[u].copy \cup text \in Text
  BY DEF Types, Tab, Text
<1>2. [tab[u] EXCEPT !.st = "online", !.seed = {}, !.copy = @ \cup text,
                     !.dirty = @ \/ ~ (text \subseteq tab[u].copy)] \in Tab
  BY <1>1 DEF Tab, Text
<1> QED BY <1>1, <1>2 DEF Show

LEMMA ScriptTypes ==
  /\ \A k \in DOMAIN Script : Script[k] \in Seq(Steps)
  /\ \A k \in DOMAIN RestoreScript : RestoreScript[k] \in Seq(Steps)
  /\ Snapshot \in Seq(Steps) /\ Refusal \in Seq(Steps)
<1>1. Snapshot \in Seq(Steps)
  BY DEF Snapshot, Steps
<1>2. /\ <<"write", "reset">> \in Seq(Steps) /\ <<"merge">> \in Seq(Steps)
      /\ <<"reset">> \in Seq(Steps) /\ <<"merge", "reset">> \in Seq(Steps)
      /\ <<"merge", "reset", "reset">> \in Seq(Steps)
      /\ <<"current", "file", "write", "reset">> \in Seq(Steps)
      /\ <<"newest">> \in Seq(Steps)
  BY DEF Steps
<1> DEFINE join(a, b) == a \o b
<1>3. \A a, b \in Seq(Steps) : a \o b \in Seq(Steps)
  OBVIOUS
<1>4. /\ <<"write", "reset">> \o Snapshot \in Seq(Steps)
      /\ (<<"merge">> \o Snapshot) \o <<"reset">> \in Seq(Steps)
      /\ Snapshot \o <<"write", "reset">> \in Seq(Steps)
      /\ Snapshot \o <<"merge", "reset">> \in Seq(Steps)
      /\ Snapshot \o <<"merge", "reset", "reset">> \in Seq(Steps)
  BY <1>1, <1>2, <1>3
<1>5. \A k \in DOMAIN Script : Script[k] \in Seq(Steps)
  <2>1. DOMAIN Script = {"put", "append", "replace", "prepend", "embed"}
    BY DEF Script
  <2>2. /\ Script["put"] \in Seq(Steps) /\ Script["append"] \in Seq(Steps)
        /\ Script["replace"] \in Seq(Steps) /\ Script["prepend"] \in Seq(Steps)
        /\ Script["embed"] \in Seq(Steps)
    BY <1>4 DEF Script
  <2> QED BY <2>1, <2>2
<1>6. \A k \in DOMAIN RestoreScript : RestoreScript[k] \in Seq(Steps)
  <2>1. DOMAIN RestoreScript = {"restore", "toolRestore"}
    BY DEF RestoreScript
  <2>2. /\ RestoreScript["restore"] \in Seq(Steps)
        /\ RestoreScript["toolRestore"] \in Seq(Steps)
    BY <1>2, <1>4 DEF RestoreScript
  <2> QED BY <2>1, <2>2
<1> QED BY <1>1, <1>2, <1>5, <1>6 DEF Refusal

LEMMA TypesInit == Init => Types
<1> SUFFICES ASSUME Init PROVE Types
  OBVIOUS
<1>1. Closed \in Tab /\ Idle \in Job
  BY DEF Closed, Tab, Idle, Job, Text
<1>2. tab \in [Tabs -> Tab] /\ job \in [Handlers -> Job]
  BY <1>1 DEF Init
<1>3. revs \in Seq(Text) /\ born \in [Pieces -> Nat \cup {Nil}]
  BY DEF Init
<1> QED BY <1>2, <1>3 DEF Init, Types, Text

LEMMA EditorTypes ==
  ASSUME Types, NEW t \in Tabs, Editor(t)
  PROVE  Types'
<1>1. CASE Load(t)
  <2>1. [Closed EXCEPT !.st = "loaded", !.gen = docGen, !.seed = content] \in Tab
    BY DEF Types, Closed, Tab, Text
  <2> QED BY <1>1, <2>1 DEF Load, Types, docs, bounds, ghosts
<1>2. CASE Leave(t) \/ HearReset(t) \/ Refused(t)
  <2>1. PICK r \in BOOLEAN : Unmount(t, r)
    BY <1>2 DEF Leave, HearReset, Refused
  <2> QED BY <1>2, <2>1, UnmountTypes
          DEF Leave, HearReset, Refused, Types, docs, bounds, ghosts
<1>3. CASE Connect(t)
  <2>1. live \cup Brings(t) \in Text
    BY DEF Types, Brings, Tab, Text
  <2>2. tab' \in [Tabs -> Tab] /\ live' \in Text
    BY <1>3, <2>1, ShowTypes DEF Connect
  <2>3. caught' \in BOOLEAN
    BY <1>3 DEF Connect
  <2> QED BY <1>3, <2>2, <2>3 DEF Connect, Types, bounds
<1>4. CASE NetDrop(t)
  <2>1. [tab[t] EXCEPT !.st = "offline"] \in Tab
    BY DEF Types, Tab
  <2>2. tab' \in [Tabs -> Tab]
    BY <1>4, <2>1 DEF NetDrop, Types
  <2> QED BY <1>4, <2>2 DEF NetDrop, Types, docs, ghosts
<1>5. CASE Type(t)
  <2>1. PICK p \in Pieces :
          /\ used' = used \cup {p}
          /\ born' = [born EXCEPT ![p] = tab[t].gen]
          /\ \/ live' = live \cup {p} /\ tab' = Show({p}, t)
             \/ /\ tab' = [tab EXCEPT ![t] = [tab[t] EXCEPT !.copy = @ \cup {p},
                                                             !.dirty = TRUE]]
                /\ live' = live
    BY <1>5 DEF Type
  <2>2. tab' \in [Tabs -> Tab]
    <3>1. {p} \in Text /\ tab[t].copy \cup {p} \in Text
      BY DEF Types, Tab, Text
    <3>2. [tab[t] EXCEPT !.copy = @ \cup {p}, !.dirty = TRUE] \in Tab
      BY <3>1 DEF Types, Tab
    <3>3. Show({p}, t) \in [Tabs -> Tab]
      BY <3>1, ShowTypes
    <3>4. [tab EXCEPT ![t] = [tab[t] EXCEPT !.copy = @ \cup {p}, !.dirty = TRUE]]
             \in [Tabs -> Tab]
      BY <3>2 DEF Types
    <3> QED BY <2>1, <3>3, <3>4
  <2>3. used' \in Text /\ live' \in Text /\ born' \in [Pieces -> Nat \cup {Nil}]
    BY <2>1 DEF Types, Tab, Text
  <2> QED BY <1>5, <2>2, <2>3 DEF Type, Types
<1>6. CASE AutoSave(t)
  <2>1. [from |-> t, gen |-> tab[t].gen, replaced |-> FALSE, text |-> tab[t].copy] \in Save
    BY DEF Types, Save, Tab
  <2> QED BY <1>6, <2>1 DEF AutoSave, Types, docs, bounds, ghosts, Tab
<1> QED BY <1>1, <1>2, <1>3, <1>4, <1>5, <1>6 DEF Editor

LEMMA SkipTypes ==
  ASSUME Types, NEW h \in Handlers, NEW n \in Nat, Skip(h, n)
  PROVE  job' \in [Handlers -> Job]
BY SkipKeepsJobs

LEMMA ThenTypes ==
  ASSUME Types, NEW h \in Handlers, Then(h)
  PROVE  job' \in [Handlers -> Job]
BY SkipTypes DEF Then

LEMMA TailTypes ==
  ASSUME Types, NEW h \in Handlers, NEW step, At(h, step)
  PROVE  Tail(job[h].todo) \in Seq(Steps)
BY DEF Types, Job, At

LEMMA NewestTypes ==
  ASSUME NEW s \in Seq(Text) PROVE Newest(s) \in Seq(Text)
<1> DEFINE m == IF Len(s) > Keep THEN Len(s) - Keep + 1 ELSE 1
<1>1. m \in 1 .. Len(s) + 1
  OBVIOUS
<1>2. \A i \in m .. Len(s) : s[i] \in Text
  BY <1>1
<1> HIDE DEF m
<1>3. SubSeq(s, m, Len(s)) \in Seq(Text)
  BY <1>1, <1>2, SubSeqProperties
<1> QED BY <1>3 DEF Newest, m

(* Pruning leaves revisions that were there. *)
LEMMA NewestFrom ==
  ASSUME NEW s \in Seq(Text), NEW i \in DOMAIN Newest(s)
  PROVE  \E j \in DOMAIN s : Newest(s)[i] = s[j]
<1> DEFINE m == IF Len(s) > Keep THEN Len(s) - Keep + 1 ELSE 1
<1>1. m \in 1 .. Len(s) + 1
  OBVIOUS
<1>2. \A j \in m .. Len(s) : s[j] \in Text
  BY <1>1
<1>3. Newest(s) = SubSeq(s, m, Len(s))
  BY DEF Newest
<1> HIDE DEF m
<1>4. i \in 1 .. Len(s) - m + 1 /\ Newest(s)[i] = s[m + i - 1]
  BY <1>1, <1>2, <1>3, SubSeqProperties
<1> QED BY <1>1, <1>4

LEMMA StepTypes ==
  ASSUME Types, NEW h \in Handlers, Step(h)
  PROVE  Types'
<1>1. CASE TakeSave(h)
  <2>1. PICK s \in sent :
          /\ sent' = sent \ {s}
          /\ \/ /\ content' = s.text /\ stored' = stored \cup s.text
                /\ job' = [job EXCEPT ![h] = [Idle EXCEPT !.todo = Snapshot, !.from = s.from]]
             \/ /\ UNCHANGED <<content, stored>>
                /\ job' = [job EXCEPT ![h] = [Idle EXCEPT !.todo = Refusal,
                                                !.from = s.from, !.seen = s.text]]
    BY <1>1 DEF TakeSave
  <2>2. s.from \in Tabs \cup {Nil} /\ s.text \in Text
    BY DEF Types, Save
  <2>3. /\ [Idle EXCEPT !.todo = Snapshot, !.from = s.from] \in Job
        /\ [Idle EXCEPT !.todo = Refusal, !.from = s.from, !.seen = s.text] \in Job
    BY <2>2, ScriptTypes DEF Idle, Job, Text
  <2>4. job' \in [Handlers -> Job] /\ content' \in Text /\ stored' \in Text
    BY <2>1, <2>2, <2>3 DEF Types, Text
  <2> QED BY <1>1, <2>1, <2>4 DEF TakeSave, Types, bounds
<1>2. CASE OutsideWrite(h) \/ RestoreRevision(h)
  <2>1. PICK s \in Seq(Steps), text \in Text : Outside(h, s, text)
    <3>1. CASE OutsideWrite(h)
      BY <3>1, ScriptTypes DEF OutsideWrite, Text
    <3>2. CASE RestoreRevision(h)
      BY <3>2, ScriptTypes DEF RestoreRevision, Types
    <3> QED BY <1>2, <3>1, <3>2
  <2>2. [Idle EXCEPT !.todo = s, !.text = text] \in Job
    BY DEF Idle, Job, Text
  <2>3. used' \in Text
    <3>1. CASE OutsideWrite(h)
      BY <3>1 DEF OutsideWrite, Types, Text
    <3>2. CASE RestoreRevision(h)
      BY <3>2 DEF RestoreRevision, Types
    <3> QED BY <1>2, <3>1, <3>2
  <2> QED BY <2>1, <2>2, <2>3 DEF Outside, Types, docs, ghosts
<1>3. CASE Throttle(h)
  <2>1. job' \in [Handlers -> Job]
    <3>1. Skip(h, 3) \/ Skip(h, 1)
      BY <1>3 DEF Throttle, Then
    <3> QED BY <3>1, SkipTypes
  <2> QED BY <1>3, <2>1 DEF Throttle, Types, docs, bounds, ghosts
<1>4. CASE ReadBody(h)
  <2>1. job' \in [Handlers -> Job]
    <3>1. CASE content = {}
      BY <1>4, <3>1, SkipTypes DEF ReadBody
    <3>2. CASE content # {}
      <4>1. [job[h] EXCEPT !.todo = Tail(@), !.seen = content] \in Job
        <5>1. Tail(job[h].todo) \in Seq(Steps)
          BY <1>4, TailTypes DEF ReadBody
        <5>2. job[h] \in Job /\ content \in Text
          BY DEF Types
        <5> QED BY <5>1, <5>2 DEF Job
      <4> QED BY <1>4, <3>2, <4>1 DEF ReadBody, Types
    <3> QED BY <3>1, <3>2
  <2> QED BY <1>4, <2>1 DEF ReadBody, Types, docs, bounds, ghosts
<1>5. CASE ReadCurrent(h)
  <2>1. job' \in [Handlers -> Job]
    <3>1. [job[h] EXCEPT !.todo = Tail(@), !.seen = content] \in Job
      BY <1>5, TailTypes DEF ReadCurrent, Types, Job
    <3> QED BY <1>5, <3>1 DEF ReadCurrent, Types
  <2> QED BY <1>5, <2>1 DEF ReadCurrent, Types, docs, bounds, ghosts
<1>6. CASE CompareNewest(h)
  <2>1. <<"answer">> \in Seq(Steps) /\ <<"keep", "answer">> \in Seq(Steps)
    BY DEF Steps
  <2>2. job' \in [Handlers -> Job]
    BY <1>6, <2>1 DEF CompareNewest, Types, Job
  <2> QED BY <1>6, <2>2 DEF CompareNewest, Types, docs, bounds, ghosts
<1>7. CASE KeepRevision(h)
  <2>1. job' \in [Handlers -> Job]
    BY <1>7, ThenTypes DEF KeepRevision
  <2>2. job[h].seen \in Text
    BY DEF Types, Job
  <2>3. Append(revs, job[h].seen) \in Seq(Text)
    BY <2>2 DEF Types
  <2>4. revs' \in Seq(Text) /\ stored' \in Text
    BY <1>7, <2>2, <2>3, NewestTypes DEF KeepRevision, Types, Text
  <2> QED BY <1>7, <2>1, <2>4 DEF KeepRevision, Types, bounds
<1>8. CASE Write(h)
  <2>1. job' \in [Handlers -> Job]
    BY <1>8, ThenTypes DEF Write
  <2>2. PICK text \in Text : Replaces(text)
    BY <1>8 DEF Write, Types, Job, Text
  <2> QED BY <1>8, <2>1, <2>2 DEF Write, Replaces, Types, bounds, Text
<1>9. CASE Reset(h)
  <2>1. job' \in [Handlers -> Job]
    BY <1>9, ThenTypes DEF Reset
  <2>2. tab' \in [Tabs -> Tab]
    BY <1>9 DEF Reset, Types, Tab
  <2> QED BY <1>9, <2>1, <2>2 DEF Reset, Types, bounds, Text
<1>10. CASE Answer(h)
  <2>1. Idle \in Job
    BY DEF Idle, Job, Text
  <2>2. CASE job[h].from = Nil
    BY <1>10, <2>1, <2>2 DEF Answer, Types, docs, bounds, ghosts
  <2>3. CASE job[h].from # Nil
    <3>1. job[h].from \in Tabs
      BY <2>3 DEF Types, Job
    <3>2. /\ tab' \in [Tabs -> Tab] /\ sent' \subseteq Save
          /\ UnheardJobs(job[h].from) \in [Handlers -> Job]
      BY <1>10, <2>3, <3>1, UnmountTypes DEF Answer
    <3> QED BY <1>10, <2>1, <2>3, <3>2 DEF Answer, Types, docs, bounds, ghosts
  <2> QED BY <2>2, <2>3
<1> QED BY <1>1, <1>2, <1>3, <1>4, <1>5, <1>6, <1>7, <1>8, <1>9, <1>10 DEF Step

LEMMA FaultTypes ==
  ASSUME Types, LoseSave \/ Restart \/ TimePasses
  PROVE  Types'
<1>1. CASE LoseSave
  <2>1. PICK s \in sent : sent' = sent \ {s} /\ Unsaved({s})
    BY <1>1 DEF LoseSave
  <2>2. tab' \in [Tabs -> Tab]
    BY <2>1 DEF Unsaved, Types, Tab
  <2>3. lost' \in Text
    BY <2>1 DEF Unsaved, Types, Save, Text
  <2> QED BY <1>1, <2>1, <2>2, <2>3 DEF LoseSave, Types, docs
<1>2. CASE Restart
  <2>1. Idle \in Job
    BY DEF Idle, Job, Text
  <2>2. tab' \in [Tabs -> Tab]
    BY <1>2 DEF Restart, Types, Tab
  <2>3. lost' \in Text
    <3>1. \A h \in Handlers : job[h].seen \in SUBSET Pieces
      BY DEF Types, Job, Text
    <3> DEFINE gone == {x \in {job[h] : h \in Handlers} : x.from = Nil}
    <3>2. lost' = lost \cup UNION {x.seen : x \in gone}
      BY <1>2 DEF Restart
    <3>3. \A x \in gone : x.seen \in SUBSET Pieces
      BY <3>1
    <3> HIDE DEF gone
    <3> QED BY <3>2, <3>3 DEF Types, Text
  <2>4. job' \in [Handlers -> Job] /\ faults' \in Nat
    <3>1. job' = [h \in Handlers |-> Idle] /\ faults' = faults + 1
      BY <1>2 DEF Restart
    <3>2. job' \in [Handlers -> Job]
      BY <2>1, <3>1
    <3>3. faults' \in Nat
      BY <3>1 DEF Types
    <3> QED BY <3>2, <3>3
  <2> QED BY <1>2, <2>2, <2>3, <2>4 DEF Restart, Types, docs
<1>3. CASE TimePasses
  BY <1>3 DEF TimePasses, Types, bounds, ghosts
<1> QED BY <1>1, <1>2, <1>3

LEMMA TypesStep == Types /\ [Next]_vars => Types'
<1> SUFFICES ASSUME Types, [Next]_vars PROVE Types'
  OBVIOUS
<1>1. CASE UNCHANGED vars
  BY <1>1 DEF vars, Types
<1> QED BY <1>1, EditorTypes, StepTypes, FaultTypes DEF Next

-----------------------------------------------------------------------------
(* What remains of the autosaves and the requests when an editor goes.      *)
LEMMA UnmountEffect ==
  ASSUME Types, NEW t \in Tabs, NEW r \in BOOLEAN, Unmount(t, r)
  PROVE  /\ tab'[t] = Closed
         /\ \A u \in Tabs \ {t} : tab'[u] = tab[u]
         /\ \A s \in sent' :
               \/ /\ tab[t].dirty /\ s.from = Nil /\ s.gen = tab[t].gen
                  /\ s.replaced = r /\ s.text = tab[t].copy
               \/ \E x \in sent : /\ s.gen = x.gen /\ s.replaced = x.replaced
                                  /\ s.text = x.text /\ s.from # t
                                  /\ s.from = Nil \/ s.from = x.from
         /\ \A x \in sent : \E s \in sent' : s.text = x.text
         /\ tab[t].dirty => \E s \in sent' : s.text = tab[t].copy
<1> DEFINE new == [from |-> Nil, gen |-> tab[t].gen, replaced |-> r,
                   text |-> tab[t].copy]
<1>1. tab' = [tab EXCEPT ![t] = Closed]
  BY DEF Unmount
<1>2. tab'[t] = Closed /\ \A u \in Tabs \ {t} : tab'[u] = tab[u]
  BY <1>1 DEF Types
<1>3. \A s \in sent' : s \in Unheard(t, sent) \/ (tab[t].dirty /\ s = new)
  BY DEF Unmount
<1>4. /\ Unheard(t, sent) \subseteq sent'
      /\ tab[t].dirty => new \in sent'
  BY DEF Unmount
<1>5. \A s \in Unheard(t, sent) :
        \E x \in sent : /\ s.gen = x.gen /\ s.replaced = x.replaced
                        /\ s.text = x.text /\ s.from # t
                        /\ s.from = Nil \/ s.from = x.from
  <2> SUFFICES ASSUME NEW s \in Unheard(t, sent)
               PROVE  \E x \in sent : /\ s.gen = x.gen /\ s.replaced = x.replaced
                                      /\ s.text = x.text /\ s.from # t
                                      /\ s.from = Nil \/ s.from = x.from
    OBVIOUS
  <2>1. PICK x \in sent : s = IF x.from = t THEN [x EXCEPT !.from = Nil] ELSE x
    BY DEF Unheard
  <2>2. x \in Save
    BY DEF Types
  <2> QED BY <2>1, <2>2 DEF Save
<1>6. \A x \in sent : \E s \in Unheard(t, sent) : s.text = x.text
  <2> SUFFICES ASSUME NEW x \in sent
               PROVE  \E s \in Unheard(t, sent) : s.text = x.text
    OBVIOUS
  <2>1. x \in Save
    BY DEF Types
  <2> DEFINE s == IF x.from = t THEN [x EXCEPT !.from = Nil] ELSE x
  <2>2. s \in Unheard(t, sent)
    BY DEF Unheard
  <2>3. s.text = x.text
    BY <2>1 DEF Save
  <2> QED BY <2>2, <2>3
<1>7. /\ new.from = Nil /\ new.gen = tab[t].gen /\ new.replaced = r
      /\ new.text = tab[t].copy
  OBVIOUS
<1> HIDE DEF new
<1>8. \A s \in sent' :
        \/ /\ tab[t].dirty /\ s.from = Nil /\ s.gen = tab[t].gen
           /\ s.replaced = r /\ s.text = tab[t].copy
        \/ \E x \in sent : /\ s.gen = x.gen /\ s.replaced = x.replaced
                           /\ s.text = x.text /\ s.from # t
                           /\ s.from = Nil \/ s.from = x.from
  <2> SUFFICES ASSUME NEW s \in sent'
               PROVE  \/ /\ tab[t].dirty /\ s.from = Nil /\ s.gen = tab[t].gen
                         /\ s.replaced = r /\ s.text = tab[t].copy
                      \/ \E x \in sent : /\ s.gen = x.gen /\ s.replaced = x.replaced
                                         /\ s.text = x.text /\ s.from # t
                                         /\ s.from = Nil \/ s.from = x.from
    OBVIOUS
  <2>1. CASE s \in Unheard(t, sent)
    BY <2>1, <1>5
  <2>2. CASE tab[t].dirty /\ s = new
    BY <2>2, <1>7
  <2> QED BY <2>1, <2>2, <1>3
<1>9. \A x \in sent : \E s \in sent' : s.text = x.text
  BY <1>4, <1>6
<1>10. tab[t].dirty => \E s \in sent' : s.text = tab[t].copy
  BY <1>4, <1>7
<1> QED BY <1>2, <1>8, <1>9, <1>10

LEMMA UnheardJobsEffect ==
  ASSUME Types, NEW t \in Tabs, NEW h \in Handlers
  PROVE  /\ UnheardJobs(t)[h].todo = job[h].todo
         /\ UnheardJobs(t)[h].text = job[h].text
         /\ UnheardJobs(t)[h].seen = job[h].seen
         /\ UnheardJobs(t)[h].from # t
         /\ UnheardJobs(t)[h].from = Nil \/ UnheardJobs(t)[h].from = job[h].from
BY DEF Types, Job, UnheardJobs

(* What the editors hold once they have taken over a text. *)
LEMMA ShowEffect ==
  ASSUME Types, NEW t \in Tabs, NEW text \in Text, NEW u \in Tabs
  PROVE  /\ u = t \/ Online(u) =>
               /\ Show(text, t)[u].st = "online" /\ Show(text, t)[u].seed = {}
               /\ Show(text, t)[u].gen = tab[u].gen
               /\ Show(text, t)[u].copy = tab[u].copy \cup text
               /\ Show(text, t)[u].dirty <=> tab[u].dirty \/ ~ (text \subseteq tab[u].copy)
         /\ u # t /\ ~ Online(u) => Show(text, t)[u] = tab[u]
<1>1. tab[u] \in Tab
  BY DEF Types
<1> DEFINE new == [tab[u] EXCEPT !.st = "online", !.seed = {}, !.copy = @ \cup text,
                                 !.dirty = @ \/ ~ (text \subseteq tab[u].copy)]
<1>2. /\ new.st = "online" /\ new.seed = {} /\ new.gen = tab[u].gen
      /\ new.copy = tab[u].copy \cup text
      /\ new.dirty = (tab[u].dirty \/ ~ (text \subseteq tab[u].copy))
  BY <1>1 DEF Tab
<1>3. u = t \/ Online(u) => Show(text, t)[u] = new
  BY DEF Show
<1>4. u # t /\ ~ Online(u) => Show(text, t)[u] = tab[u]
  BY DEF Show
<1> HIDE DEF new
<1> QED BY <1>2, <1>3, <1>4

-----------------------------------------------------------------------------
(* Every piece is used before it turns up anywhere, and what was in the     *)
(* body or the history is recorded.                                         *)
Known ==
    /\ live \cup base \cup stored \cup lost \subseteq used
    /\ \A p \in Pieces : born[p] # Nil => p \in used
    /\ \A t \in Tabs : tab[t].copy \cup tab[t].seed \subseteq used
    /\ \A s \in sent : s.text \subseteq used
    /\ \A h \in Handlers : job[h].text \cup job[h].seen \subseteq used
    /\ content \subseteq stored
    /\ \A i \in DOMAIN revs : revs[i] \subseteq stored

LEMMA KnownInit == Init => Known
BY DEF Init, Known, Closed, Idle

LEMMA UnmountKnown ==
  ASSUME Types, Known, NEW t \in Tabs, NEW r \in BOOLEAN, Unmount(t, r),
         UNCHANGED used
  PROVE  /\ \A u \in Tabs : tab'[u].copy \cup tab'[u].seed \subseteq used'
         /\ \A s \in sent' : s.text \subseteq used'
BY UnmountEffect DEF Known, Closed

LEMMA EditorKnown ==
  ASSUME Types, Known, NEW t \in Tabs, Editor(t)
  PROVE  Known'
<1>1. CASE Load(t)
  BY <1>1 DEF Load, Known, Types, Closed, docs, bounds, ghosts
<1>2. CASE Leave(t) \/ HearReset(t) \/ Refused(t)
  <2>1. PICK r \in BOOLEAN : Unmount(t, r)
    BY <1>2 DEF Leave, HearReset, Refused
  <2>2. job' = UnheardJobs(t) /\ UNCHANGED <<docs, bounds, ghosts>>
    BY <1>2 DEF Leave, HearReset, Refused
  <2>3. \A h \in Handlers : job'[h].text \cup job'[h].seen \subseteq used
    BY <2>2, UnheardJobsEffect DEF Known
  <2> QED BY <2>1, <2>2, <2>3, UnmountKnown DEF Known, docs, bounds, ghosts
<1>3. CASE Connect(t)
  <2>1. live \cup Brings(t) \in Text /\ live \cup Brings(t) \subseteq used
    BY DEF Types, Brings, Tab, Text, Known
  <2>2. \A u \in Tabs : tab'[u].copy \cup tab'[u].seed \subseteq used
    BY <1>3, <2>1, ShowEffect DEF Connect, Known
  <2> QED BY <1>3, <2>1, <2>2 DEF Connect, Known, bounds
<1>4. CASE NetDrop(t)
  <2>1. \A u \in Tabs : tab'[u].copy = tab[u].copy /\ tab'[u].seed = tab[u].seed
    BY <1>4 DEF NetDrop, Types, Tab
  <2> QED BY <1>4, <2>1 DEF NetDrop, Known, docs, ghosts
<1>5. CASE Type(t)
  <2>1. PICK p \in Pieces :
          /\ used' = used \cup {p}
          /\ born' = [born EXCEPT ![p] = tab[t].gen]
          /\ \/ live' = live \cup {p} /\ tab' = Show({p}, t)
             \/ /\ tab' = [tab EXCEPT ![t] = [tab[t] EXCEPT !.copy = @ \cup {p},
                                                             !.dirty = TRUE]]
                /\ live' = live
    BY <1>5 DEF Type
  <2>2. \A u \in Tabs : tab'[u].copy \cup tab'[u].seed \subseteq used'
    <3>1. CASE tab' = Show({p}, t)
      BY <2>1, <3>1, ShowEffect DEF Known, Text
    <3>2. CASE tab' = [tab EXCEPT ![t] = [tab[t] EXCEPT !.copy = @ \cup {p},
                                                         !.dirty = TRUE]]
      BY <2>1, <3>2 DEF Known, Types, Tab
    <3> QED BY <2>1, <3>1, <3>2
  <2>3. \A q \in Pieces : born'[q] # Nil => q \in used'
    BY <2>1 DEF Known, Types
  <2>4. /\ UNCHANGED <<content, revs, sent, job, base, stored, lost>>
        /\ live' \subseteq live \cup {p}
    BY <1>5, <2>1 DEF Type
  <2> QED BY <2>1, <2>2, <2>3, <2>4 DEF Known
<1>6. CASE AutoSave(t)
  <2>1. \A u \in Tabs : tab'[u].copy = tab[u].copy /\ tab'[u].seed = tab[u].seed
    BY <1>6 DEF AutoSave, Types, Tab
  <2>2. \A s \in sent' : s.text \subseteq used
    BY <1>6 DEF AutoSave, Known
  <2> QED BY <1>6, <2>1, <2>2 DEF AutoSave, Known, docs, bounds, ghosts
<1> QED BY <1>1, <1>2, <1>3, <1>4, <1>5, <1>6 DEF Editor

(* The other handlers are left alone, but for whom they answer.              *)
LEMMA StepOthers ==
  ASSUME Types, NEW h \in Handlers, Step(h), NEW k \in Handlers \ {h}
  PROVE  /\ job'[k].todo = job[k].todo
         /\ job'[k].text = job[k].text /\ job'[k].seen = job[k].seen
         /\ job'[k].from = Nil \/ job'[k].from = job[k].from
<1>1. CASE Throttle(h)
  <2>1. Skip(h, 3) \/ Skip(h, 1)
    BY <1>1 DEF Throttle, Then
  <2> QED BY <2>1, SkipKeepsJobs
<1>2. CASE ReadBody(h) \/ ReadCurrent(h)
  <2>1. CASE Skip(h, 2)
    BY <2>1, SkipKeepsJobs
  <2>2. CASE job' = [job EXCEPT ![h] = [job[h] EXCEPT !.todo = Tail(@), !.seen = content]]
    BY <2>2 DEF Types
  <2> QED BY <1>2, <2>1, <2>2 DEF ReadBody, ReadCurrent
<1>3. CASE KeepRevision(h) \/ Write(h) \/ Reset(h)
  <2>1. Skip(h, 1)
    BY <1>3 DEF KeepRevision, Write, Reset, Then
  <2> QED BY <2>1, SkipKeepsJobs
<1>4. CASE TakeSave(h) \/ OutsideWrite(h) \/ RestoreRevision(h) \/ CompareNewest(h)
  BY <1>4 DEF TakeSave, OutsideWrite, RestoreRevision, Outside, CompareNewest, Types
<1>5. CASE Answer(h)
  <2>1. CASE job[h].from = Nil
    BY <1>5, <2>1 DEF Answer, Types
  <2>2. CASE job[h].from # Nil
    <3>1. job[h].from \in Tabs
      BY <2>2 DEF Types, Job
    <3>2. job'[k] = UnheardJobs(job[h].from)[k]
      BY <1>5, <2>2 DEF Answer, UnheardJobs
    <3> QED BY <3>1, <3>2, UnheardJobsEffect
  <2> QED BY <2>1, <2>2
<1> QED BY <1>1, <1>2, <1>3, <1>4, <1>5 DEF Step

LEMMA StepKnown ==
  ASSUME Types, Known, NEW h \in Handlers, Step(h)
  PROVE  Known'
<1>1. \A k \in Handlers \ {h} : job'[k].text \cup job'[k].seen \subseteq used
  BY StepOthers DEF Known
<1>2. Idle.text = {} /\ Idle.seen = {}
  BY DEF Idle
<1>3. CASE TakeSave(h)
  <2>1. PICK s \in sent :
          /\ sent' = sent \ {s}
          /\ \/ /\ content' = s.text /\ stored' = stored \cup s.text
                /\ job' = [job EXCEPT ![h] = [Idle EXCEPT !.todo = Snapshot, !.from = s.from]]
             \/ /\ UNCHANGED <<content, stored>>
                /\ job' = [job EXCEPT ![h] = [Idle EXCEPT !.todo = Refusal,
                                                !.from = s.from, !.seen = s.text]]
    BY <1>3 DEF TakeSave
  <2>2. job'[h].text \cup job'[h].seen \subseteq used
    <3>1. job'[h].text = {} /\ job'[h].seen \in {{}, s.text}
      BY <2>1 DEF Types, Idle
    <3> QED BY <3>1 DEF Known
  <2>3. content' \subseteq stored' /\ stored' \subseteq used /\ stored \subseteq stored'
    BY <2>1 DEF Known
  <2>4. \A x \in sent' : x.text \subseteq used
    BY <2>1 DEF Known
  <2>5. UNCHANGED <<docGen, live, revs, young, tab, used, base, born, lost>>
    BY <1>3 DEF TakeSave, bounds
  <2> QED BY <1>1, <2>2, <2>3, <2>4, <2>5 DEF Known
<1>4. CASE OutsideWrite(h) \/ RestoreRevision(h)
  <2>1. PICK script, text : Outside(h, script, text) /\ text \subseteq used' /\ used \subseteq used'
    <3>1. CASE OutsideWrite(h)
      BY <3>1 DEF OutsideWrite
    <3>2. CASE RestoreRevision(h)
      BY <3>2 DEF RestoreRevision, Known
    <3> QED BY <1>4, <3>1, <3>2
  <2>2. job'[h].text \cup job'[h].seen \subseteq used'
    BY <2>1 DEF Outside, Types, Idle
  <2>3. UNCHANGED <<content, live, revs, tab, sent, base, born, stored, lost>>
    BY <2>1 DEF Outside, docs, ghosts
  <2> QED BY <1>1, <2>1, <2>2, <2>3 DEF Known
<1>5. CASE Throttle(h) \/ Reset(h)
  <2>1. \E n \in Nat : Skip(h, n)
    BY <1>5 DEF Throttle, Reset, Then
  <2>2. job'[h].text \cup job'[h].seen \subseteq used
    BY <2>1, <1>2, SkipKeepsJobs DEF Known
  <2>3. UNCHANGED <<content, revs, sent, used, base, born, stored, lost>> /\ live' \in {live, {}}
    BY <1>5 DEF Throttle, Reset, docs, bounds, ghosts
  <2>4. \A t \in Tabs : tab'[t].copy = tab[t].copy /\ tab'[t].seed = tab[t].seed
    BY <1>5 DEF Throttle, Reset, Types, Tab
  <2> QED BY <1>1, <2>2, <2>3, <2>4 DEF Known
<1>6. CASE ReadBody(h) \/ ReadCurrent(h)
  <2>1. job'[h].text \cup job'[h].seen \subseteq used
    <3>1. CASE Skip(h, 2)
      BY <3>1, <1>2, SkipKeepsJobs DEF Known
    <3>2. CASE job' = [job EXCEPT ![h] = [job[h] EXCEPT !.todo = Tail(@), !.seen = content]]
      <4>1. job'[h].seen = content /\ job'[h].text = job[h].text
        BY <3>2 DEF Types, Job
      <4> QED BY <4>1 DEF Known
    <3> QED BY <1>6, <3>1, <3>2 DEF ReadBody, ReadCurrent
  <2>2. UNCHANGED <<docs, tab, sent, bounds, ghosts>>
    BY <1>6 DEF ReadBody, ReadCurrent
  <2> QED BY <1>1, <2>1, <2>2 DEF Known, docs, bounds, ghosts
<1>7. CASE CompareNewest(h)
  <2>1. job'[h].text = job[h].text /\ job'[h].seen = job[h].seen
    BY <1>7 DEF CompareNewest, Types, Job
  <2> QED BY <1>1, <1>7, <2>1 DEF CompareNewest, Known, docs, bounds, ghosts
<1>8. CASE KeepRevision(h)
  <2>1. job'[h].text \cup job'[h].seen \subseteq used
    BY <1>8, <1>2, SkipKeepsJobs DEF Known, KeepRevision, Then
  <2>2. job[h].seen \in Text
    BY DEF Types, Job
  <2> DEFINE longer == Append(revs, job[h].seen)
  <2>3. longer \in Seq(Text) /\ (revs' = longer \/ revs' = Newest(longer))
    BY <1>8, <2>2 DEF KeepRevision, Types
  <2>4. \A i \in DOMAIN longer : longer[i] \subseteq stored'
    BY <1>8, <2>2 DEF KeepRevision, Known, Types
  <2> HIDE DEF longer
  <2>5. \A i \in DOMAIN revs' : revs'[i] \subseteq stored'
    <3>1. CASE revs' = longer
      BY <3>1, <2>4
    <3>2. CASE revs' = Newest(longer)
      BY <3>2, <2>3, <2>4, NewestFrom
    <3> QED BY <2>3, <3>1, <3>2
  <2> QED BY <1>1, <1>8, <2>1, <2>5 DEF KeepRevision, Known, bounds
<1>9. CASE Write(h)
  <2>1. job'[h].text \cup job'[h].seen \subseteq used
    BY <1>9, <1>2, SkipKeepsJobs DEF Known, Write, Then
  <2>2. PICK text : Replaces(text) /\ text \subseteq used
    BY <1>9 DEF Write, Known
  <2> QED BY <1>1, <1>9, <2>1, <2>2 DEF Write, Replaces, Known, bounds
<1>10. CASE Answer(h)
  <2>1. job'[h] = Idle
    BY <1>10 DEF Answer, Types, UnheardJobs
  <2>2. UNCHANGED <<docs, bounds, ghosts>>
    BY <1>10 DEF Answer
  <2>3. /\ \A u \in Tabs : tab'[u].copy \cup tab'[u].seed \subseteq used'
        /\ \A s \in sent' : s.text \subseteq used'
    <3>1. CASE job[h].from = Nil
      BY <1>10, <2>2, <3>1 DEF Answer, Known, bounds
    <3>2. CASE job[h].from # Nil
      <4>1. job[h].from \in Tabs /\ Unmount(job[h].from, TRUE)
        BY <1>10, <3>2 DEF Answer, Types, Job
      <4> QED BY <2>2, <4>1, UnmountKnown DEF bounds
    <3> QED BY <3>1, <3>2
  <2> QED BY <1>1, <1>2, <2>1, <2>2, <2>3 DEF Known, docs, bounds, ghosts
<1> QED BY <1>3, <1>4, <1>5, <1>6, <1>7, <1>8, <1>9, <1>10 DEF Step

LEMMA FaultKnown ==
  ASSUME Types, Known, LoseSave \/ Restart \/ TimePasses
  PROVE  Known'
<1>1. CASE LoseSave
  <2>1. PICK s \in sent : sent' = sent \ {s} /\ Unsaved({s})
    BY <1>1 DEF LoseSave
  <2>2. \A t \in Tabs : tab'[t].copy = tab[t].copy /\ tab'[t].seed = tab[t].seed
    BY <2>1 DEF Unsaved, Types, Tab
  <2>3. lost' \subseteq used
    BY <2>1 DEF Unsaved, Known
  <2> QED BY <1>1, <2>1, <2>2, <2>3 DEF LoseSave, Known, docs
<1>2. CASE Restart
  <2>1. \A t \in Tabs : tab'[t].copy = tab[t].copy /\ tab'[t].seed = tab[t].seed
    BY <1>2 DEF Restart, Types, Tab
  <2>2. lost' \subseteq used
    <3> DEFINE gone == {x \in {job[h] : h \in Handlers} : x.from = Nil}
    <3>1. lost' = lost \cup UNION {x.seen : x \in gone}
      BY <1>2 DEF Restart
    <3>2. \A x \in gone : x.seen \subseteq used
      BY DEF Known
    <3> HIDE DEF gone
    <3> QED BY <3>1, <3>2 DEF Known
  <2>3. \A h \in Handlers : job'[h].text \cup job'[h].seen \subseteq used
    BY <1>2 DEF Restart, Idle
  <2>4. UNCHANGED <<docs, sent, used, base, born, stored>>
    BY <1>2 DEF Restart
  <2> QED BY <2>1, <2>2, <2>3, <2>4 DEF Known, docs
<1>3. CASE TimePasses
  BY <1>3 DEF TimePasses, Known, bounds, ghosts
<1> QED BY <1>1, <1>2, <1>3

LEMMA KnownStep == Types /\ Known /\ [Next]_vars => Known'
<1> SUFFICES ASSUME Types, Known, [Next]_vars PROVE Known'
  OBVIOUS
<1>1. CASE UNCHANGED vars
  BY <1>1 DEF vars, Known
<1> QED BY <1>1, EditorKnown, StepKnown, FaultKnown DEF Next

-----------------------------------------------------------------------------
(* Nobody waits, and nothing has been typed, in a tab without a connection   *)
(* so far.                                                                  *)
Fresh == {"closed", "loaded"}

Listening ==
    \A t \in Tabs : tab[t].st \in Fresh =>
        /\ ~ tab[t].dirty /\ tab[t].copy = {}
        /\ \A s \in sent : s.from # t
        /\ \A h \in Handlers : job[h].from # t

LEMMA ListeningInit == Init => Listening /\ Awaited
BY DEF Init, Listening, Awaited, Idle, Closed, Fresh

LEMMA UnmountListening ==
  ASSUME Types, Listening, NEW t \in Tabs, NEW r \in BOOLEAN, Unmount(t, r),
         \A h \in Handlers : \/ job'[h].from = Nil
                            \/ job'[h].from = UnheardJobs(t)[h].from
  PROVE  Listening'
<1> SUFFICES ASSUME NEW u \in Tabs, tab'[u].st \in Fresh
             PROVE  /\ ~ tab'[u].dirty /\ tab'[u].copy = {}
                    /\ \A s \in sent' : s.from # u
                    /\ \A h \in Handlers : job'[h].from # u
  BY DEF Listening
<1>1. \A h \in Handlers : /\ job'[h].from # t
                          /\ job'[h].from = Nil \/ job'[h].from = job[h].from
  BY UnheardJobsEffect
<1>2. CASE u = t
  BY <1>1, <1>2, UnmountEffect DEF Closed
<1>3. CASE u # t
  <2>1. tab'[u] = tab[u] /\ tab[u].st \in Fresh
    BY <1>3, UnmountEffect
  <2>2. \A s \in sent' : s.from = Nil \/ \E x \in sent : s.from = x.from
    BY UnmountEffect
  <2> QED BY <1>1, <2>1, <2>2 DEF Listening
<1> QED BY <1>2, <1>3

LEMMA EditorListening ==
  ASSUME Types, Listening, NEW t \in Tabs, Editor(t)
  PROVE  Listening'
<1>1. CASE Leave(t) \/ HearReset(t) \/ Refused(t)
  <2>1. PICK r \in BOOLEAN : Unmount(t, r)
    BY <1>1 DEF Leave, HearReset, Refused
  <2>2. job' = UnheardJobs(t)
    BY <1>1 DEF Leave, HearReset, Refused
  <2> QED BY <2>1, <2>2, UnmountListening
<1>2. CASE Load(t) \/ Connect(t) \/ NetDrop(t) \/ Type(t)
  <2>1. UNCHANGED <<sent, job>>
    BY <1>2 DEF Load, Connect, NetDrop, Type
  <2>2. \A u \in Tabs : tab'[u].st \in Fresh =>
          /\ tab[u].st \in Fresh
          /\ tab'[u].dirty = tab[u].dirty /\ tab'[u].copy = tab[u].copy
    <3>1. CASE Load(t)
      <4>1. \A u \in Tabs \ {t} : tab'[u] = tab[u]
        BY <3>1 DEF Load, Types
      <4>2. tab[t].st = "closed" /\ tab'[t].dirty = FALSE /\ tab'[t].copy = {}
        BY <3>1 DEF Load, Types, Closed
      <4>3. tab[t].dirty = FALSE /\ tab[t].copy = {}
        BY <4>2 DEF Listening, Fresh, Types, Tab
      <4> QED BY <4>1, <4>2, <4>3 DEF Fresh
    <3>2. CASE Connect(t)
      <4>1. live \cup Brings(t) \in Text
        BY DEF Types, Brings, Tab, Text
      <4> QED BY <3>2, <4>1, ShowEffect DEF Connect, Fresh
    <3>3. CASE NetDrop(t)
      <4>1. \A u \in Tabs \ {t} : tab'[u] = tab[u]
        BY <3>3 DEF NetDrop, Types
      <4>2. tab'[t].st = "offline"
        BY <3>3 DEF NetDrop, Types, Tab
      <4> QED BY <4>1, <4>2 DEF Fresh
    <3>4. CASE Type(t)
      <4>1. PICK p \in Pieces :
              \/ tab' = Show({p}, t)
              \/ tab' = [tab EXCEPT ![t] = [tab[t] EXCEPT !.copy = @ \cup {p},
                                                          !.dirty = TRUE]]
        BY <3>4 DEF Type
      <4>2. CASE tab' = Show({p}, t)
        BY <4>2, ShowEffect DEF Text, Fresh
      <4>3. CASE tab' = [tab EXCEPT ![t] = [tab[t] EXCEPT !.copy = @ \cup {p},
                                                          !.dirty = TRUE]]
        <5>1. \A u \in Tabs \ {t} : tab'[u] = tab[u]
          BY <4>3 DEF Types
        <5>2. tab'[t].st = tab[t].st /\ tab[t].st \notin Fresh
          BY <3>4, <4>3 DEF Type, Types, Tab, Fresh
        <5> QED BY <5>1, <5>2
      <4> QED BY <4>1, <4>2, <4>3
    <3> QED BY <1>2, <3>1, <3>2, <3>3, <3>4
  <2> QED BY <2>1, <2>2 DEF Listening
<1>3. CASE AutoSave(t)
  <2>1. tab[t].st \notin Fresh /\ tab'[t].st = tab[t].st
    BY <1>3 DEF AutoSave, Listening, Closed, Types, Tab
  <2>2. \A u \in Tabs \ {t} : tab'[u] = tab[u]
    BY <1>3 DEF AutoSave, Types
  <2>3. \A s \in sent' : s \in sent \/ s.from = t
    BY <1>3 DEF AutoSave
  <2> QED BY <1>3, <2>1, <2>2, <2>3 DEF AutoSave, Listening
<1> QED BY <1>1, <1>2, <1>3 DEF Editor

(* A request begins, or ends, with nothing read and nobody waiting. *)
LEMMA FreshJob ==
  ASSUME Types, NEW h \in Handlers,
         OutsideWrite(h) \/ RestoreRevision(h) \/ Answer(h)
  PROVE  job'[h].from = Nil /\ job'[h].seen = {}
<1>1. CASE Answer(h)
  <2>1. job'[h] = Idle
    BY <1>1 DEF Answer, Types, UnheardJobs
  <2> QED BY <2>1 DEF Idle
<1>2. CASE OutsideWrite(h) \/ RestoreRevision(h)
  <2>1. PICK script, text : Outside(h, script, text)
    BY <1>2 DEF OutsideWrite, RestoreRevision
  <2>2. job'[h] = [Idle EXCEPT !.todo = script, !.text = text]
    BY <2>1 DEF Outside, Types
  <2> QED BY <2>2 DEF Idle
<1> QED BY <1>1, <1>2

LEMMA StepOwn ==
  ASSUME Types, NEW h \in Handlers, Step(h)
  PROVE  \/ job'[h].from = Nil \/ job'[h].from = job[h].from
         \/ \E s \in sent : job'[h].from = s.from
<1>1. CASE \E n \in Nat : Skip(h, n)
  BY <1>1, SkipKeepsJobs DEF Idle
<1>2. CASE TakeSave(h)
  BY <1>2 DEF TakeSave, Idle, Types
<1>3. CASE OutsideWrite(h) \/ RestoreRevision(h) \/ Answer(h)
  BY <1>3, FreshJob
<1>4. CASE ReadBody(h) \/ ReadCurrent(h)
  <2>1. CASE job' = [job EXCEPT ![h] = [job[h] EXCEPT !.todo = Tail(@), !.seen = content]]
    BY <2>1 DEF Types, Job
  <2> QED BY <1>1, <1>4, <2>1 DEF ReadBody, ReadCurrent
<1>5. CASE CompareNewest(h)
  BY <1>5 DEF CompareNewest, Types, Job
<1> QED BY <1>1, <1>2, <1>3, <1>4, <1>5
        DEF Step, Throttle, KeepRevision, Write, Reset, Then

LEMMA StepListening ==
  ASSUME Types, Listening, NEW h \in Handlers, Step(h)
  PROVE  Listening'
<1>1. CASE Answer(h) /\ job[h].from # Nil
  <2>1. job[h].from \in Tabs /\ Unmount(job[h].from, TRUE)
    BY <1>1 DEF Answer, Types, Job
  <2>2. \A k \in Handlers : \/ job'[k].from = Nil
                            \/ job'[k].from = UnheardJobs(job[h].from)[k].from
    <3>1. job' = [UnheardJobs(job[h].from) EXCEPT ![h] = Idle]
      BY <1>1 DEF Answer
    <3>2. \A k \in Handlers : job'[k] = Idle \/ job'[k] = UnheardJobs(job[h].from)[k]
      BY <3>1 DEF UnheardJobs
    <3> QED BY <3>2 DEF Idle
  <2> QED BY <2>1, <2>2, UnmountListening
<1>2. CASE ~ (Answer(h) /\ job[h].from # Nil)
  <2>1. \A u \in Tabs : tab'[u].st \in Fresh => tab'[u] = tab[u]
    <3>1. CASE Reset(h)
      <4>1. ASSUME NEW u \in Tabs, Online(u) PROVE tab'[u].st = "kicked"
        BY <3>1, <4>1 DEF Reset, Types, Tab
      <4>2. ASSUME NEW u \in Tabs, ~ Online(u) PROVE tab'[u] = tab[u]
        BY <3>1, <4>2 DEF Reset
      <4> QED BY <4>1, <4>2 DEF Fresh
    <3>2. CASE ~ Reset(h)
      BY <1>2, <3>2 DEF Step, TakeSave, OutsideWrite, RestoreRevision, Outside, Throttle,
         ReadBody, ReadCurrent, CompareNewest, KeepRevision, Write, Answer
    <3> QED BY <3>1, <3>2
  <2>2. sent' \subseteq sent
    BY <1>2 DEF Step, TakeSave, OutsideWrite, RestoreRevision, Outside, Throttle,
       ReadBody, ReadCurrent, CompareNewest, KeepRevision, Write, Reset, Answer
  <2>3. \A k \in Handlers \ {h} : job'[k].from = Nil \/ job'[k].from = job[k].from
    BY StepOthers
  <2>4. \/ job'[h].from = Nil \/ job'[h].from = job[h].from
        \/ \E s \in sent : job'[h].from = s.from
    BY StepOwn
  <2> QED BY <2>1, <2>2, <2>3, <2>4 DEF Listening
<1> QED BY <1>1, <1>2

LEMMA FaultListening ==
  ASSUME Types, Listening, LoseSave \/ Restart \/ TimePasses
  PROVE  Listening'
<1>1. CASE LoseSave
  <2>1. PICK s \in sent : sent' = sent \ {s} /\ Unsaved({s})
    BY <1>1 DEF LoseSave
  <2>2. \A t \in Tabs : /\ tab'[t].st = tab[t].st
                        /\ s.from # t => tab'[t] = tab[t]
    BY <2>1 DEF Unsaved, Types, Tab
  <2> QED BY <1>1, <2>1, <2>2 DEF LoseSave, Listening
<1>2. CASE Restart
  <2>1. ASSUME NEW t \in Tabs, tab'[t].st \in Fresh
        PROVE  tab[t].st \in Fresh /\ ~ tab'[t].dirty /\ tab'[t].copy = {}
    <3>1. /\ tab'[t].st = IF tab[t].st \in {"online", "kicked"} THEN "offline"
                          ELSE tab[t].st
          /\ tab'[t].copy = tab[t].copy
          /\ tab'[t].dirty => tab[t].dirty \/ \E h \in Handlers : job[h].from = t
      <4> DEFINE waits == \E s \in {job[h] : h \in Handlers} : s.from = t
      <4>1. tab'[t] = [tab[t] EXCEPT
                         !.st = IF @ \in {"online", "kicked"} THEN "offline" ELSE @,
                         !.dirty = @ \/ waits]
        BY <1>2 DEF Restart
      <4>2. waits => \E h \in Handlers : job[h].from = t
        OBVIOUS
      <4>3. tab[t] \in Tab
        BY DEF Types
      <4> HIDE DEF waits
      <4> QED BY <4>1, <4>2, <4>3 DEF Tab
    <3> QED BY <2>1, <3>1 DEF Listening, Fresh
  <2>4. \A h \in Handlers : job'[h].from = Nil
    BY <1>2 DEF Restart, Idle
  <2>5. sent' = sent
    BY <1>2 DEF Restart
  <2> QED BY <2>1, <2>4, <2>5 DEF Listening
<1>3. CASE TimePasses
  BY <1>3 DEF TimePasses, Listening
<1> QED BY <1>1, <1>2, <1>3

LEMMA ListeningStep == Types /\ Listening /\ [Next]_vars => Listening'
<1> SUFFICES ASSUME Types, Listening, [Next]_vars PROVE Listening'
  OBVIOUS
<1>1. CASE UNCHANGED vars
  BY <1>1 DEF vars, Listening
<1> QED BY <1>1, EditorListening, StepListening, FaultListening DEF Next

-----------------------------------------------------------------------------
(* An editor that is left takes nobody's copy along but its own. *)
LEMMA UnmountAwaited ==
  ASSUME Types, Awaited, NEW t \in Tabs, NEW r \in BOOLEAN, Unmount(t, r),
         stored' = stored,
         \A h \in Handlers : \/ job'[h] = UnheardJobs(t)[h] \/ job'[h] = Idle
  PROVE  Awaited'
<1>1. \A s \in sent' : s.from # Nil => s.text \subseteq tab'[s.from].copy
  <2> SUFFICES ASSUME NEW s \in sent', s.from # Nil
               PROVE  s.text \subseteq tab'[s.from].copy
    OBVIOUS
  <2>1. PICK x \in sent : s.text = x.text /\ s.from # t /\ s.from = x.from
    BY UnmountEffect
  <2>2. tab'[s.from] = tab[x.from]
    BY <2>1, UnmountEffect DEF Types, Save
  <2> QED BY <2>1, <2>2 DEF Awaited
<1>2. ASSUME NEW h \in Handlers, ~ (job'[h].seen \subseteq stored)
      PROVE  /\ Unhandled(h)'
             /\ job'[h].from # Nil => job'[h].seen \subseteq tab'[job'[h].from].copy
  <2>1. job'[h] = UnheardJobs(t)[h]
    BY <1>2 DEF Idle
  <2>2. /\ job'[h].todo = job[h].todo /\ job'[h].seen = job[h].seen
        /\ job'[h].from # t
        /\ job'[h].from = Nil \/ job'[h].from = job[h].from
    BY <2>1, UnheardJobsEffect
  <2>3. Unhandled(h) /\ (job[h].from # Nil => job[h].seen \subseteq tab[job[h].from].copy)
    BY <1>2, <2>2 DEF Awaited
  <2>4. job'[h].from # Nil => tab'[job'[h].from] = tab[job[h].from]
    <3>1. job[h].from \in Tabs \cup {Nil}
      BY DEF Types, Job
    <3>2. \A u \in Tabs \ {t} : tab'[u] = tab[u]
      BY UnmountEffect
    <3> QED BY <2>2, <3>1, <3>2
  <2> QED BY <2>2, <2>3, <2>4 DEF Unhandled
<1> QED BY <1>1, <1>2 DEF Awaited

(* As long as nobody leaves, the copies only grow. *)
LEMMA EditorAwaited ==
  ASSUME Types, Listening, Awaited, NEW t \in Tabs, Editor(t)
  PROVE  Awaited'
<1>1. CASE Leave(t) \/ HearReset(t) \/ Refused(t)
  <2>1. PICK r \in BOOLEAN : Unmount(t, r)
    BY <1>1 DEF Leave, HearReset, Refused
  <2>2. job' = UnheardJobs(t) /\ stored' = stored
    BY <1>1 DEF Leave, HearReset, Refused, ghosts
  <2> QED BY <2>1, <2>2, UnmountAwaited
<1>2. CASE ~ (Leave(t) \/ HearReset(t) \/ Refused(t))
  <2>1. \A u \in Tabs : tab[u].copy \subseteq tab'[u].copy
    <3>1. CASE Load(t)
      BY <3>1 DEF Load, Types, Listening, Closed, Fresh
    <3>2. CASE Connect(t)
      <4>1. live \cup Brings(t) \in Text
        BY DEF Types, Brings, Tab, Text
      <4> QED BY <3>2, <4>1, ShowEffect DEF Connect
    <3>3. CASE NetDrop(t) \/ AutoSave(t)
      <4>1. \A u \in Tabs \ {t} : tab'[u] = tab[u]
        BY <3>3 DEF NetDrop, AutoSave, Types
      <4>2. \/ tab'[t] = [tab[t] EXCEPT !.st = "offline"]
            \/ tab'[t] = [tab[t] EXCEPT !.dirty = FALSE]
        BY <3>3 DEF NetDrop, AutoSave, Types
      <4>3. tab'[t].copy = tab[t].copy
        BY <4>2 DEF Types, Tab
      <4> QED BY <4>1, <4>3
    <3>4. CASE Type(t)
      <4>1. PICK p \in Pieces :
              \/ tab' = Show({p}, t)
              \/ tab' = [tab EXCEPT ![t] = [tab[t] EXCEPT !.copy = @ \cup {p},
                                                          !.dirty = TRUE]]
        BY <3>4 DEF Type
      <4>2. CASE tab' = Show({p}, t)
        BY <4>2, ShowEffect DEF Text
      <4>3. CASE tab' = [tab EXCEPT ![t] = [tab[t] EXCEPT !.copy = @ \cup {p},
                                                          !.dirty = TRUE]]
        <5>1. tab'[t].copy = tab[t].copy \cup {p}
          BY <4>3 DEF Types, Tab
        <5>2. \A u \in Tabs \ {t} : tab'[u] = tab[u]
          BY <4>3 DEF Types
        <5> QED BY <5>1, <5>2
      <4> QED BY <4>1, <4>2, <4>3
    <3> QED BY <1>2, <3>1, <3>2, <3>3, <3>4 DEF Editor
  <2>2. UNCHANGED <<job, stored>>
    BY <1>2 DEF Editor, Load, Connect, NetDrop, Type, AutoSave, ghosts
  <2>3. \A s \in sent' : s \in sent \/ (s.from = t /\ s.text = tab[t].copy)
    <3>1. CASE AutoSave(t)
      BY <3>1 DEF AutoSave
    <3>2. CASE ~ AutoSave(t)
      BY <1>2, <3>2 DEF Editor, Load, Connect, NetDrop, Type
    <3> QED BY <3>1, <3>2
  <2>4. \A s \in sent' : s.from # Nil => s.text \subseteq tab'[s.from].copy
    BY <2>1, <2>3 DEF Awaited, Types, Save
  <2>5. \A h \in Handlers : job[h].from # Nil => job[h].from \in Tabs
    BY DEF Types, Job
  <2> QED BY <2>1, <2>2, <2>4, <2>5 DEF Awaited, Unhandled
<1> QED BY <1>1, <1>2

(* A handler that holdsa text that is nowhere yet: a refused copy.          *)
LEMMA StepOwnAwaited ==
  ASSUME Types, Known, Awaited, NEW h \in Handlers, Step(h),
         \A u \in Tabs : tab'[u].copy = tab[u].copy
  PROVE  \/ job'[h].seen \subseteq stored'
         \/ /\ Unhandled(h)'
            /\ job'[h].from # Nil => job'[h].seen \subseteq tab'[job'[h].from].copy
<1>1. Idle.seen = {}
  BY DEF Idle
<1>2. ~ Unhandled(h) => job[h].seen \subseteq stored
  BY DEF Awaited
<1>3. CASE TakeSave(h)
  <2>1. PICK s \in sent :
          \/ job' = [job EXCEPT ![h] = [Idle EXCEPT !.todo = Snapshot, !.from = s.from]]
          \/ job' = [job EXCEPT ![h] = [Idle EXCEPT !.todo = Refusal,
                                          !.from = s.from, !.seen = s.text]]
    BY <1>3 DEF TakeSave
  <2>2. CASE job' = [job EXCEPT ![h] = [Idle EXCEPT !.todo = Snapshot, !.from = s.from]]
    BY <2>2 DEF Types, Idle
  <2>3. CASE job' = [job EXCEPT ![h] = [Idle EXCEPT !.todo = Refusal,
                                          !.from = s.from, !.seen = s.text]]
    <3>1. /\ job'[h].todo = <<"newest">> /\ job'[h].seen = s.text
          /\ job'[h].from = s.from
      BY <2>3 DEF Types, Idle, Refusal
    <3>2. s.from # Nil => s.text \subseteq tab'[s.from].copy
      BY DEF Awaited, Types, Save
    <3> QED BY <3>1, <3>2 DEF Unhandled
  <2> QED BY <2>1, <2>2, <2>3
<1>4. CASE OutsideWrite(h) \/ RestoreRevision(h) \/ Answer(h)
  BY <1>4, FreshJob
<1>5. CASE Throttle(h) \/ Write(h) \/ Reset(h)
  <2>1. job[h].seen \subseteq stored
    BY <1>2, <1>5 DEF Throttle, Write, Reset, At, Unhandled
  <2>2. \E n \in Nat : Skip(h, n)
    BY <1>5 DEF Throttle, Write, Reset, Then
  <2>3. stored \subseteq stored'
    BY <1>5 DEF Throttle, Write, Replaces, Reset, ghosts
  <2> QED BY <1>1, <2>1, <2>2, <2>3, SkipKeepsJobs
<1>6. CASE ReadBody(h) \/ ReadCurrent(h)
  <2>1. stored' = stored
    BY <1>6 DEF ReadBody, ReadCurrent, ghosts
  <2>2. CASE Skip(h, 2)
    <3>1. job[h].seen \subseteq stored
      BY <1>2, <1>6 DEF ReadBody, ReadCurrent, At, Unhandled
    <3> QED BY <1>1, <2>1, <2>2, <3>1, SkipKeepsJobs
  <2>3. CASE job' = [job EXCEPT ![h] = [job[h] EXCEPT !.todo = Tail(@), !.seen = content]]
    <3>1. job'[h].seen = content
      BY <2>3 DEF Types, Job
    <3> QED BY <2>1, <3>1 DEF Known
  <2> QED BY <1>6, <2>2, <2>3 DEF ReadBody, ReadCurrent
<1>7. CASE CompareNewest(h)
  <2>1. /\ job'[h].seen = job[h].seen /\ job'[h].from = job[h].from
        /\ job'[h].todo = IF revs # <<>> /\ revs[Len(revs)] = job[h].seen
                          THEN <<"answer">> ELSE <<"keep", "answer">>
        /\ stored' = stored
    BY <1>7 DEF CompareNewest, Types, Job, ghosts
  <2>2. CASE revs # <<>> /\ revs[Len(revs)] = job[h].seen
    BY <2>1, <2>2 DEF Known, Types
  <2>3. CASE ~ (revs # <<>> /\ revs[Len(revs)] = job[h].seen)
    <3>1. Unhandled(h)'
      BY <2>1, <2>3 DEF Unhandled
    <3>2. job[h].from # Nil => job[h].from \in Tabs
      BY DEF Types, Job
    <3> QED BY <2>1, <3>1, <3>2 DEF Awaited
  <2> QED BY <2>2, <2>3
<1>8. CASE KeepRevision(h)
  <2>1. Skip(h, 1) /\ stored' = stored \cup job[h].seen
    BY <1>8 DEF KeepRevision, Then
  <2> QED BY <1>1, <2>1, SkipKeepsJobs
<1> QED BY <1>3, <1>4, <1>5, <1>6, <1>7, <1>8 DEF Step

LEMMA StepAwaited ==
  ASSUME Types, Known, Awaited, NEW h \in Handlers, Step(h)
  PROVE  Awaited'
<1>1. CASE Answer(h) /\ job[h].from # Nil
  <2>1. job[h].from \in Tabs /\ Unmount(job[h].from, TRUE) /\ stored' = stored
    BY <1>1 DEF Answer, Types, Job, ghosts
  <2>2. \A k \in Handlers : job'[k] = UnheardJobs(job[h].from)[k] \/ job'[k] = Idle
    BY <1>1 DEF Answer, UnheardJobs
  <2> QED BY <2>1, <2>2, UnmountAwaited
<1>2. CASE ~ (Answer(h) /\ job[h].from # Nil)
  <2>1. \A u \in Tabs : tab'[u].copy = tab[u].copy
    <3>1. CASE Reset(h)
      BY <3>1 DEF Reset, Types, Tab
    <3>2. CASE ~ Reset(h)
      BY <1>2, <3>2 DEF Step, TakeSave, OutsideWrite, RestoreRevision, Outside, Throttle,
         ReadBody, ReadCurrent, CompareNewest, KeepRevision, Write, Answer
    <3> QED BY <3>1, <3>2
  <2>2. sent' \subseteq sent /\ stored \subseteq stored'
    BY <1>2 DEF Step, TakeSave, OutsideWrite, RestoreRevision, Outside, Throttle,
       ReadBody, ReadCurrent, CompareNewest, KeepRevision, Write, Replaces, Reset, Answer,
       ghosts
  <2>3. \A s \in sent' : s.from # Nil => s.text \subseteq tab'[s.from].copy
    BY <2>1, <2>2 DEF Awaited, Types, Save
  <2>4. ASSUME NEW k \in Handlers \ {h}, ~ (job'[k].seen \subseteq stored')
        PROVE  /\ Unhandled(k)'
               /\ job'[k].from # Nil => job'[k].seen \subseteq tab'[job'[k].from].copy
    <3>1. /\ job'[k].todo = job[k].todo /\ job'[k].seen = job[k].seen
          /\ job'[k].from = Nil \/ job'[k].from = job[k].from
      BY StepOthers
    <3>2. ~ (job[k].seen \subseteq stored)
      BY <2>2, <2>4, <3>1
    <3>3. Unhandled(k) /\ (job[k].from # Nil => job[k].seen \subseteq tab[job[k].from].copy)
      BY <3>2 DEF Awaited
    <3> QED BY <2>1, <3>1, <3>3 DEF Unhandled, Types, Job
  <2>5. \/ job'[h].seen \subseteq stored'
        \/ /\ Unhandled(h)'
           /\ job'[h].from # Nil => job'[h].seen \subseteq tab'[job'[h].from].copy
    BY <2>1, StepOwnAwaited
  <2> QED BY <2>3, <2>4, <2>5 DEF Awaited
<1> QED BY <1>1, <1>2

LEMMA FaultAwaited ==
  ASSUME Types, Awaited, LoseSave \/ Restart \/ TimePasses
  PROVE  Awaited'
<1>1. CASE LoseSave
  <2>1. PICK s \in sent : sent' = sent \ {s} /\ Unsaved({s})
    BY <1>1 DEF LoseSave
  <2>2. \A t \in Tabs : tab'[t].copy = tab[t].copy
    BY <2>1 DEF Unsaved, Types, Tab
  <2>3. UNCHANGED <<job, stored>>
    BY <1>1 DEF LoseSave
  <2>4. \A x \in sent' : x.from # Nil => x.text \subseteq tab'[x.from].copy
    BY <2>1, <2>2 DEF Awaited, Types, Save
  <2>5. \A h \in Handlers : job[h].from # Nil => job[h].from \in Tabs
    BY DEF Types, Job
  <2> QED BY <2>2, <2>3, <2>4, <2>5 DEF Awaited, Unhandled
<1>2. CASE Restart
  <2>1. \A t \in Tabs : tab'[t].copy = tab[t].copy
    BY <1>2 DEF Restart, Types, Tab
  <2>2. sent' = sent /\ \A h \in Handlers : job'[h].seen = {}
    BY <1>2 DEF Restart, Idle
  <2>3. \A x \in sent' : x.from # Nil => x.text \subseteq tab'[x.from].copy
    BY <2>1, <2>2 DEF Awaited, Types, Save
  <2> QED BY <2>2, <2>3 DEF Awaited
<1>3. CASE TimePasses
  BY <1>3 DEF TimePasses, Awaited, Unhandled, ghosts
<1> QED BY <1>1, <1>2, <1>3

LEMMA AwaitedStep ==
  Types /\ Known /\ Listening /\ Awaited /\ [Next]_vars => Awaited'
<1> SUFFICES ASSUME Types, Known, Listening, Awaited, [Next]_vars PROVE Awaited'
  OBVIOUS
<1>1. CASE UNCHANGED vars
  BY <1>1 DEF vars, Awaited, Unhandled
<1> QED BY <1>1, EditorAwaited, StepAwaited, FaultAwaited DEF Next

(* What the steps keep: the types, that everything is used before it turns  *)
(* up, that only open editors wait for an answer, and what they hold.       *)
Sound == Types /\ Known /\ Listening /\ Awaited

THEOREM SoundInvariant == Spec => []Sound
<1>1. Init => Sound
  BY TypesInit, KnownInit, ListeningInit DEF Sound
<1>2. Sound /\ [Next]_vars => Sound'
  BY TypesStep, KnownStep, ListeningStep, AwaitedStep DEF Sound
<1> QED BY <1>1, <1>2, PTL DEF Spec

(* The state has its type, and a text that is nowhere yet is still held by  *)
(* the editor that waits for the answer (Editor.tsx:2013-2031).             *)
THEOREM TypeInvariant == Spec => []TypeOK
<1>1. Sound => TypeOK
  BY DEF Sound, Types, TypeOK
<1> QED BY <1>1, SoundInvariant, PTL

-----------------------------------------------------------------------------
(* Where a typed piece is as long as nothing has been lost.                 *)
Kept(p) ==
    \/ p \in stored
    \/ p \in lost
    \/ \E t \in Tabs : tab[t].dirty /\ p \in tab[t].copy
    \/ \E s \in sent : p \in s.text
    \/ \E h \in Handlers : p \in job[h].seen

AllKept == \A p \in Pieces : born[p] # Nil => Kept(p)

LEMMA AllKeptIsTypedIsKept == AllKept => TypedIsKept
BY DEF AllKept, Kept, TypedIsKept, Typed, Pending

LEMMA UnmountKept ==
  ASSUME Sound, NEW t \in Tabs, NEW r \in BOOLEAN, Unmount(t, r),
         NEW p \in Pieces, Kept(p), UNCHANGED <<stored, lost>>,
         \A h \in Handlers : job'[h].seen = job[h].seen \/ job[h].seen \subseteq stored
  PROVE  Kept(p)'
<1>1. CASE \E u \in Tabs : tab[u].dirty /\ p \in tab[u].copy
  <2>1. PICK u \in Tabs : tab[u].dirty /\ p \in tab[u].copy
    BY <1>1
  <2>2. CASE u = t
    BY <2>1, <2>2, UnmountEffect DEF Sound, Kept
  <2>3. CASE u # t
    BY <2>1, <2>3, UnmountEffect DEF Sound, Kept
  <2> QED BY <2>2, <2>3
<1>2. CASE \E s \in sent : p \in s.text
  BY <1>2, UnmountEffect DEF Sound, Kept
<1>3. CASE p \in stored \/ p \in lost \/ \E h \in Handlers : p \in job[h].seen
  BY <1>3 DEF Kept
<1> QED BY <1>1, <1>2, <1>3 DEF Kept

LEMMA ShowKept ==
  ASSUME Types, NEW t \in Tabs, NEW text \in Text, NEW u \in Tabs, tab[u].dirty
  PROVE  Show(text, t)[u].dirty /\ tab[u].copy \subseteq Show(text, t)[u].copy
<1>1. CASE u = t \/ Online(u)
  BY <1>1, ShowEffect
<1>2. CASE ~ (u = t \/ Online(u))
  BY <1>2, ShowEffect
<1> QED BY <1>1, <1>2

LEMMA EditorKept ==
  ASSUME Sound, AllKept, NEW t \in Tabs, Editor(t)
  PROVE  AllKept'
<1> USE DEF Sound
<1>1. CASE Leave(t) \/ HearReset(t) \/ Refused(t)
  <2>1. PICK r \in BOOLEAN : Unmount(t, r)
    BY <1>1 DEF Leave, HearReset, Refused
  <2>2. job' = UnheardJobs(t) /\ UNCHANGED <<born, stored, lost>>
    BY <1>1 DEF Leave, HearReset, Refused, ghosts
  <2>3. \A h \in Handlers : job'[h].seen = job[h].seen
    BY <2>2, UnheardJobsEffect
  <2> QED BY <2>1, <2>2, <2>3, UnmountKept DEF AllKept
<1>2. CASE Load(t) \/ Connect(t) \/ NetDrop(t)
  <2>1. UNCHANGED <<sent, job, born, stored, lost>>
    BY <1>2 DEF Load, Connect, NetDrop, ghosts
  <2>2. \A u \in Tabs : tab[u].dirty =>
          tab'[u].dirty /\ tab[u].copy \subseteq tab'[u].copy
    <3>1. CASE Load(t)
      <4>1. ~ tab[t].dirty /\ \A u \in Tabs \ {t} : tab'[u] = tab[u]
        BY <3>1 DEF Load, Types, Listening, Fresh
      <4> QED BY <4>1
    <3>2. CASE Connect(t)
      <4>1. live \cup Brings(t) \in Text
        BY DEF Types, Brings, Tab, Text
      <4>2. tab' = Show(live \cup Brings(t), t)
        BY <3>2 DEF Connect
      <4> QED BY <4>1, <4>2, ShowKept
    <3>3. CASE NetDrop(t)
      <4>1. tab'[t].dirty = tab[t].dirty /\ tab'[t].copy = tab[t].copy
        BY <3>3 DEF NetDrop, Types, Tab
      <4>2. \A u \in Tabs \ {t} : tab'[u] = tab[u]
        BY <3>3 DEF NetDrop, Types
      <4> QED BY <4>1, <4>2
    <3> QED BY <1>2, <3>1, <3>2, <3>3
  <2> QED BY <2>1, <2>2 DEF AllKept, Kept
<1>3. CASE Type(t)
  <2>1. PICK p \in Pieces :
          /\ p \notin used
          /\ born' = [born EXCEPT ![p] = tab[t].gen]
          /\ \/ tab' = Show({p}, t)
             \/ tab' = [tab EXCEPT ![t] = [tab[t] EXCEPT !.copy = @ \cup {p},
                                                         !.dirty = TRUE]]
    BY <1>3 DEF Type
  <2>2. UNCHANGED <<sent, job, stored, lost>>
    BY <1>3 DEF Type
  <2>3. /\ \A u \in Tabs : tab[u].dirty =>
              tab'[u].dirty /\ tab[u].copy \subseteq tab'[u].copy
        /\ tab'[t].dirty /\ p \in tab'[t].copy
    <3>1. CASE tab' = Show({p}, t)
      <4>1. {p} \in Text /\ ~ ({p} \subseteq tab[t].copy)
        BY <2>1 DEF Text, Known
      <4>2. tab'[t].dirty /\ p \in tab'[t].copy
        BY <3>1, <4>1, ShowEffect
      <4>3. \A u \in Tabs : tab[u].dirty =>
              tab'[u].dirty /\ tab[u].copy \subseteq tab'[u].copy
        BY <3>1, <4>1, ShowKept
      <4> QED BY <4>2, <4>3
    <3>2. CASE tab' = [tab EXCEPT ![t] = [tab[t] EXCEPT !.copy = @ \cup {p},
                                                         !.dirty = TRUE]]
      <4>1. tab'[t].dirty /\ tab'[t].copy = tab[t].copy \cup {p}
        BY <3>2 DEF Types, Tab
      <4>2. \A u \in Tabs \ {t} : tab'[u] = tab[u]
        BY <3>2 DEF Types
      <4> QED BY <4>1, <4>2
    <3> QED BY <2>1, <3>1, <3>2
  <2>4. \A q \in Pieces \ {p} : born'[q] = born[q]
    BY <2>1 DEF Types
  <2> QED BY <2>2, <2>3, <2>4 DEF AllKept, Kept
<1>4. CASE AutoSave(t)
  <2>1. UNCHANGED <<job, born, stored, lost>>
    BY <1>4 DEF AutoSave, ghosts
  <2> DEFINE new == [from |-> t, gen |-> tab[t].gen, replaced |-> FALSE,
                     text |-> tab[t].copy]
  <2>2. sent \subseteq sent' /\ \E s \in sent' : s.text = tab[t].copy
    <3>1. sent' = sent \cup {new} /\ new.text = tab[t].copy
      BY <1>4 DEF AutoSave
    <3> HIDE DEF new
    <3> QED BY <3>1
  <2>3. \A u \in Tabs \ {t} : tab'[u] = tab[u]
    BY <1>4 DEF AutoSave, Types
  <2> QED BY <2>1, <2>2, <2>3 DEF AllKept, Kept
<1> QED BY <1>1, <1>2, <1>3, <1>4 DEF Editor

LEMMA StepKept ==
  ASSUME Sound, AllKept, NEW h \in Handlers, Step(h)
  PROVE  AllKept'
<1> USE DEF Sound
<1>1. \/ job[h].seen \subseteq stored' \/ job'[h].seen = job[h].seen
  <2>1. CASE ~ Unhandled(h)
    <3>1. stored \subseteq stored'
      BY DEF Step, TakeSave, OutsideWrite, RestoreRevision, Outside, Throttle, ReadBody,
         ReadCurrent, CompareNewest, KeepRevision, Write, Replaces, Reset, Answer, ghosts
    <3> QED BY <2>1, <3>1 DEF Awaited
  <2>2. CASE Unhandled(h)
    <3>1. CompareNewest(h) \/ KeepRevision(h)
      BY <2>2 DEF Unhandled, Step, TakeSave, OutsideWrite, RestoreRevision, Outside, Free,
         Throttle, ReadBody, ReadCurrent, Write, Reset, Answer, At
    <3>2. CASE CompareNewest(h)
      BY <3>2 DEF CompareNewest, Types, Job
    <3>3. CASE KeepRevision(h)
      BY <3>3 DEF KeepRevision
    <3> QED BY <3>1, <3>2, <3>3
  <2> QED BY <2>1, <2>2
<1>2. \A k \in Handlers : job[k].seen \subseteq stored' \/ job'[k].seen = job[k].seen
  BY <1>1, StepOthers
<1>3. CASE Answer(h) /\ job[h].from # Nil
  <2>1. job[h].from \in Tabs /\ Unmount(job[h].from, TRUE)
        /\ UNCHANGED <<born, stored, lost>>
    BY <1>3 DEF Answer, Types, Job, ghosts
  <2> QED BY <1>2, <2>1, UnmountKept DEF AllKept
<1>4. CASE ~ (Answer(h) /\ job[h].from # Nil)
  <2>1. \A u \in Tabs : tab'[u].copy = tab[u].copy /\ tab'[u].dirty = tab[u].dirty
    <3>1. CASE Reset(h)
      BY <3>1 DEF Reset, Types, Tab
    <3>2. CASE ~ Reset(h)
      BY <1>4, <3>2 DEF Step, TakeSave, OutsideWrite, RestoreRevision, Outside, Throttle,
         ReadBody, ReadCurrent, CompareNewest, KeepRevision, Write, Answer
    <3> QED BY <3>1, <3>2
  <2>2. stored \subseteq stored' /\ UNCHANGED <<born, lost>>
    BY <1>4 DEF Step, TakeSave, OutsideWrite, RestoreRevision, Outside, Throttle, ReadBody,
       ReadCurrent, CompareNewest, KeepRevision, Write, Replaces, Reset, Answer, ghosts
  <2>3. \A s \in sent : s \in sent' \/ s.text \subseteq stored' \/ job'[h].seen = s.text
    <3>1. CASE TakeSave(h)
      <4>1. PICK s \in sent :
              /\ sent' = sent \ {s}
              /\ \/ stored' = stored \cup s.text
                 \/ job' = [job EXCEPT ![h] = [Idle EXCEPT !.todo = Refusal,
                                                 !.from = s.from, !.seen = s.text]]
        BY <3>1 DEF TakeSave
      <4>2. s.text \subseteq stored' \/ job'[h].seen = s.text
        BY <4>1 DEF Types, Idle
      <4> QED BY <4>1, <4>2
    <3>2. CASE ~ TakeSave(h)
      BY <1>4, <3>2 DEF Step, OutsideWrite, RestoreRevision, Outside, Throttle, ReadBody,
         ReadCurrent, CompareNewest, KeepRevision, Write, Reset, Answer
    <3> QED BY <3>1, <3>2
  <2> QED BY <1>2, <2>1, <2>2, <2>3 DEF AllKept, Kept
<1> QED BY <1>3, <1>4

LEMMA FaultKept ==
  ASSUME Sound, AllKept, LoseSave \/ Restart \/ TimePasses
  PROVE  AllKept'
<1> USE DEF Sound
<1>1. CASE LoseSave
  <2>1. PICK s \in sent : sent' = sent \ {s} /\ Unsaved({s})
    BY <1>1 DEF LoseSave
  <2>2. /\ \A t \in Tabs : /\ tab'[t].copy = tab[t].copy
                           /\ tab[t].dirty \/ s.from = t => tab'[t].dirty
        /\ lost \subseteq lost' /\ (s.from = Nil => s.text \subseteq lost')
    BY <2>1 DEF Unsaved, Types, Tab
  <2>3. s.from = Nil \/ (s.from \in Tabs /\ s.text \subseteq tab[s.from].copy)
    BY DEF Awaited, Types, Save
  <2>4. UNCHANGED <<job, born, stored>>
    BY <1>1 DEF LoseSave
  <2> QED BY <2>1, <2>2, <2>3, <2>4 DEF AllKept, Kept
<1>2. CASE Restart
  <2>1. \A t \in Tabs : /\ tab'[t].copy = tab[t].copy
                        /\ tab[t].dirty => tab'[t].dirty
                        /\ \A h \in Handlers : job[h].from = t => tab'[t].dirty
    BY <1>2 DEF Restart, Types, Tab
  <2>2. lost \subseteq lost' /\ \A h \in Handlers : job[h].from = Nil => job[h].seen \subseteq lost'
    BY <1>2 DEF Restart
  <2>3. \A h \in Handlers : \/ job[h].seen \subseteq stored
                            \/ job[h].from = Nil
                            \/ /\ job[h].from \in Tabs
                               /\ job[h].seen \subseteq tab[job[h].from].copy
    BY DEF Awaited, Types, Job
  <2>4. UNCHANGED <<sent, born, stored>>
    BY <1>2 DEF Restart
  <2> QED BY <2>1, <2>2, <2>3, <2>4 DEF AllKept, Kept
<1>3. CASE TimePasses
  BY <1>3 DEF TimePasses, AllKept, Kept, ghosts
<1> QED BY <1>1, <1>2, <1>3

(* What is typed is in an editor that will save it, on its way, or has been  *)
(* in the body or the history (docgen.go:44-110, Editor.tsx:2013-2045).      *)
THEOREM TypedKept == Spec => []TypedIsKept
<1>1. Init => AllKept
  BY DEF Init, AllKept
<1>2. Sound /\ AllKept /\ [Next]_vars => AllKept'
  <2> SUFFICES ASSUME Sound, AllKept, [Next]_vars PROVE AllKept'
    OBVIOUS
  <2>1. CASE UNCHANGED vars
    BY <2>1 DEF vars, AllKept, Kept
  <2> QED BY <2>1, EditorKept, StepKept, FaultKept DEF Next
<1> QED BY <1>1, <1>2, SoundInvariant, AllKeptIsTypedIsKept, PTL DEF Spec

-----------------------------------------------------------------------------
(* No generation is ahead of the page. *)
Gens ==
    /\ \A t \in Tabs : tab[t].gen <= docGen
    /\ \A s \in sent : s.gen <= docGen

(* Everything of the current generation goes on from what the last write    *)
(* from outside left; connected editors are of the generation of the live   *)
(* document.                                                                *)
CurrentFollows ==
    /\ Follows(content)
    /\ ~ stale => /\ live = {} \/ Follows(live)
                  /\ \A t \in Tabs : Online(t) => Follows(live) /\ tab[t].gen = docGen
    /\ stale => \A t \in Tabs : Online(t) => tab[t].gen # docGen
    /\ \A s \in sent : ~ s.replaced /\ s.gen = docGen => Follows(s.text)
    /\ \A t \in Tabs : tab[t].gen = docGen =>
          /\ tab[t].st = "loaded" => Follows(tab[t].seed)
          /\ tab[t].st \notin Fresh => Follows(tab[t].copy)
    /\ \A t \in Tabs : tab[t].st \notin Fresh => tab[t].seed = {}

LEMMA InLineInit == Init => Gens /\ CurrentFollows
BY DEF Init, Gens, CurrentFollows, Follows, Closed, Fresh, Online, TypedUnder

(* Follows is a matter of base, docGen and born alone. *)
LEMMA FollowsSame ==
  ASSUME UNCHANGED <<base, docGen, born>>, NEW text
  PROVE  Follows(text) => (base' \subseteq text /\ text \ base' \subseteq TypedUnder(docGen)')
BY DEF Follows, TypedUnder

LEMMA FollowsUnion ==
  ASSUME NEW x, NEW y, Follows(x), Follows(y)
  PROVE  Follows(x \cup y)
BY DEF Follows

LEMMA GensStep ==
  ASSUME Types, Gens, [Next]_vars
  PROVE  Gens'
<1>1. /\ docGen \in Nat /\ \A t \in Tabs : tab[t].gen \in Nat
      /\ \A s \in sent : s.gen \in Nat
  BY DEF Types, Tab, Save
<1>2. ASSUME NEW t \in Tabs, NEW r \in BOOLEAN, Unmount(t, r), docGen' = docGen
      PROVE  Gens'
  BY <1>1, <1>2, UnmountEffect DEF Gens, Closed
<1>3. ASSUME NEW t \in Tabs, Editor(t)
      PROVE  Gens'
  <2>1. CASE Leave(t) \/ HearReset(t) \/ Refused(t)
    BY <1>2, <2>1 DEF Leave, HearReset, Refused, docs
  <2>2. CASE ~ (Leave(t) \/ HearReset(t) \/ Refused(t))
    <3>1. docGen' = docGen
      BY <1>3, <2>2 DEF Editor, Load, Connect, NetDrop, Type, AutoSave, docs
    <3>2. \A u \in Tabs : tab'[u].gen \in {tab[u].gen, docGen}
      <4>1. CASE Load(t)
        BY <4>1 DEF Load, Types, Closed
      <4>2. CASE Connect(t)
        <5>1. live \cup Brings(t) \in Text /\ tab' = Show(live \cup Brings(t), t)
          BY <4>2 DEF Connect, Types, Brings, Tab, Text
        <5> QED BY <5>1, ShowEffect
      <4>3. CASE NetDrop(t) \/ AutoSave(t)
        <5>1. \A u \in Tabs \ {t} : tab'[u] = tab[u]
          BY <4>3 DEF NetDrop, AutoSave, Types
        <5>2. \/ tab'[t] = [tab[t] EXCEPT !.st = "offline"]
              \/ tab'[t] = [tab[t] EXCEPT !.dirty = FALSE]
          BY <4>3 DEF NetDrop, AutoSave, Types
        <5>3. tab'[t].gen = tab[t].gen
          BY <5>2 DEF Types, Tab
        <5> QED BY <5>1, <5>3
      <4>4. CASE Type(t)
        <5>1. PICK p \in Pieces :
                \/ tab' = Show({p}, t)
                \/ tab' = [tab EXCEPT ![t] = [tab[t] EXCEPT !.copy = @ \cup {p},
                                                            !.dirty = TRUE]]
          BY <4>4 DEF Type
        <5>2. CASE tab' = Show({p}, t)
          BY <5>2, ShowEffect DEF Text
        <5>3. CASE tab' = [tab EXCEPT ![t] = [tab[t] EXCEPT !.copy = @ \cup {p},
                                                            !.dirty = TRUE]]
          BY <5>3 DEF Types, Tab
        <5> QED BY <5>1, <5>2, <5>3
      <4> QED BY <1>3, <2>2, <4>1, <4>2, <4>3, <4>4 DEF Editor
    <3>3. \A s \in sent' : s \in sent \/ s.gen = tab[t].gen
      <4>1. CASE AutoSave(t)
        BY <4>1 DEF AutoSave
      <4>2. CASE ~ AutoSave(t)
        BY <1>3, <2>2, <4>2 DEF Editor, Load, Connect, NetDrop, Type
      <4> QED BY <4>1, <4>2
    <3> QED BY <1>1, <3>1, <3>2, <3>3 DEF Gens
  <2> QED BY <2>1, <2>2
<1>4. ASSUME NEW h \in Handlers, Step(h)
      PROVE  Gens'
  <2>1. CASE Answer(h) /\ job[h].from # Nil
    <3>1. job[h].from \in Tabs /\ Unmount(job[h].from, TRUE) /\ docGen' = docGen
      BY <2>1 DEF Answer, Types, Job, docs
    <3> QED BY <1>2, <3>1
  <2>2. CASE ~ (Answer(h) /\ job[h].from # Nil)
    <3>1. docGen' = docGen \/ docGen' = docGen + 1
      BY <1>4 DEF Step, TakeSave, OutsideWrite, RestoreRevision, Outside, Throttle, ReadBody,
         ReadCurrent, CompareNewest, KeepRevision, Write, Replaces, Reset, Answer, docs
    <3>2. sent' \subseteq sent
      BY <1>4, <2>2 DEF Step, TakeSave, OutsideWrite, RestoreRevision, Outside, Throttle,
         ReadBody, ReadCurrent, CompareNewest, KeepRevision, Write, Reset, Answer
    <3>3. \A u \in Tabs : tab'[u].gen = tab[u].gen
      <4>1. CASE Reset(h)
        BY <4>1 DEF Reset, Types, Tab
      <4>2. CASE ~ Reset(h)
        BY <1>4, <2>2, <4>2 DEF Step, TakeSave, OutsideWrite, RestoreRevision, Outside,
           Throttle, ReadBody, ReadCurrent, CompareNewest, KeepRevision, Write, Answer
      <4> QED BY <4>1, <4>2
    <3> QED BY <1>1, <3>1, <3>2, <3>3 DEF Gens
  <2> QED BY <2>1, <2>2
<1>5. CASE LoseSave \/ Restart \/ TimePasses
  <2>1. docGen' = docGen /\ sent' \subseteq sent
    BY <1>5 DEF LoseSave, Restart, TimePasses, docs
  <2>2. \A u \in Tabs : tab'[u].gen = tab[u].gen
    <3>1. CASE LoseSave
      BY <3>1 DEF LoseSave, Unsaved, Types, Tab
    <3>2. CASE Restart
      BY <3>2 DEF Restart, Types, Tab
    <3>3. CASE TimePasses
      BY <3>3 DEF TimePasses
    <3> QED BY <1>5, <3>1, <3>2, <3>3
  <2> QED BY <2>1, <2>2 DEF Gens
<1>6. CASE UNCHANGED vars
  BY <1>6 DEF vars, Gens
<1> QED BY <1>3, <1>4, <1>5, <1>6 DEF Next

LEMMA UnmountInLine ==
  ASSUME Sound, CurrentFollows, NEW t \in Tabs, NEW r \in BOOLEAN, Unmount(t, r),
         UNCHANGED <<docs, ghosts>>
  PROVE  CurrentFollows'
<1>1. /\ \A u \in Tabs : tab'[u] = tab[u] \/ tab'[u] = Closed
      /\ tab'[t] = Closed
  BY UnmountEffect DEF Sound
<1>2. Closed.st = "closed" /\ Closed.gen = 0 /\ Closed.seed = {}
  BY DEF Closed
<1>3. \A s \in sent' :
        \/ tab[t].dirty /\ s.gen = tab[t].gen /\ s.text = tab[t].copy
        \/ \E x \in sent : /\ s.gen = x.gen /\ s.replaced = x.replaced
                           /\ s.text = x.text
  BY UnmountEffect DEF Sound
<1>4. tab[t].dirty => tab[t].st \notin Fresh
  BY DEF Sound, Listening
<1>5. UNCHANGED <<content, docGen, live, base, born, stale>>
  BY DEF docs, ghosts
<1>6. \A s \in sent' : ~ s.replaced /\ s.gen = docGen => Follows(s.text)
  BY <1>3, <1>4 DEF CurrentFollows
<1>7. \A u \in Tabs : Online(u)' => Online(u) /\ tab'[u] = tab[u]
  BY <1>1, <1>2 DEF Online
<1> QED BY <1>1, <1>2, <1>5, <1>6, <1>7
        DEF CurrentFollows, Follows, TypedUnder, Online, Fresh

(* An editor that joins brings nothing the page does not go on from. *)
LEMMA ConnectInLine ==
  ASSUME Sound, CurrentFollows, NEW t \in Tabs, Connect(t), ~ caught'
  PROVE  CurrentFollows'
<1> DEFINE text == live \cup Brings(t)
<1>1. /\ ~ stale /\ tab[t].gen = docGen /\ tab[t].st \in {"loaded", "offline"}
      /\ tab' = Show(text, t) /\ live' = text
      /\ UNCHANGED <<content, docGen, sent, base, born, stale>>
  BY DEF Connect, LetIn
<1>2. text \in Text
  BY DEF Sound, Types, Brings, Tab, Text
<1>3. Follows(text) /\ Follows(tab[t].copy \cup text)
  <2>1. CASE tab[t].st = "loaded"
    <3>1. Follows(tab[t].seed) /\ tab[t].copy = {}
      BY <1>1, <2>1 DEF CurrentFollows, Sound, Listening, Fresh
    <3>2. CASE live = {}
      BY <3>1, <3>2 DEF Brings
    <3>3. CASE live # {}
      BY <1>1, <3>1, <3>3 DEF Brings, CurrentFollows
    <3> QED BY <3>2, <3>3
  <2>2. CASE tab[t].st = "offline"
    <3>1. Follows(tab[t].copy) /\ tab[t].seed = {}
      BY <1>1, <2>2 DEF CurrentFollows, Fresh
    <3>2. Brings(t) = tab[t].copy
      BY <3>1 DEF Brings
    <3>3. CASE live = {}
      BY <3>1, <3>2, <3>3
    <3>4. CASE live # {}
      BY <1>1, <3>1, <3>2, <3>4, FollowsUnion DEF CurrentFollows
    <3> QED BY <3>1, <3>2, <3>3, <3>4, FollowsUnion
  <2> QED BY <1>1, <2>1, <2>2
<1> HIDE DEF text
<1>4. \A u \in Tabs :
        \/ /\ u = t \/ Online(u)
           /\ tab'[u].st = "online" /\ tab'[u].seed = {} /\ tab'[u].gen = tab[u].gen
           /\ tab'[u].copy = tab[u].copy \cup text
        \/ ~ Online(u) /\ tab'[u] = tab[u]
  BY <1>1, <1>2, ShowEffect DEF Sound
<1>5. \A u \in Tabs : Online(u) => Follows(tab[u].copy) /\ tab[u].gen = docGen
  BY <1>1 DEF CurrentFollows, Online, Fresh
<1>6. \A u \in Tabs : Online(u) => Follows(tab[u].copy \cup text)
  BY <1>3, <1>5, FollowsUnion
<1>7. \A u \in Tabs : tab'[u].gen = docGen =>
          /\ tab'[u].st = "loaded" => Follows(tab'[u].seed)
          /\ tab'[u].st \notin Fresh => Follows(tab'[u].copy)
  BY <1>3, <1>4, <1>6 DEF CurrentFollows, Fresh
<1>8. \A u \in Tabs : tab'[u].st \notin Fresh => tab'[u].seed = {}
  BY <1>4 DEF CurrentFollows, Fresh
<1>9. \A u \in Tabs : tab'[u].st = "online" => tab'[u].gen = docGen
  BY <1>1, <1>4, <1>5 DEF Online
<1>10. Follows(live')
  BY <1>1, <1>3
<1> QED BY <1>1, <1>7, <1>8, <1>9, <1>10 DEF CurrentFollows, Follows, TypedUnder, Online

(* What is typed under the current generation belongs to it. *)
LEMMA TypeInLine ==
  ASSUME Sound, CurrentFollows, NEW t \in Tabs, Type(t)
  PROVE  CurrentFollows'
<1>1. PICK p \in Pieces :
        /\ p \notin used
        /\ born' = [born EXCEPT ![p] = tab[t].gen]
        /\ IF Online(t)
           THEN /\ live' = live \cup {p}
                /\ tab' = Show({p}, t)
           ELSE /\ tab' = [tab EXCEPT ![t] = [tab[t] EXCEPT !.copy = @ \cup {p},
                                                           !.dirty = TRUE]]
                /\ live' = live
  BY DEF Type
<1>2. UNCHANGED <<content, docGen, sent, base, stale>> /\ tab[t].st \notin Fresh
  BY DEF Type, Fresh
<1> DEFINE follows(x) == base \subseteq x /\ x \ base \subseteq {q \in Pieces : born'[q] = docGen}
<1>3. \A x : Follows(x) => follows(x)
  <2>1. born[p] # docGen
    BY <1>1 DEF Sound, Known, Types
  <2>2. \A q \in Pieces \ {p} : born'[q] = born[q]
    BY <1>1 DEF Sound, Types
  <2> QED BY <2>1, <2>2 DEF Follows, TypedUnder
<1>4. tab[t].gen = docGen => \A x : follows(x) => follows(x \cup {p})
  <2>1. born'[p] = tab[t].gen
    BY <1>1 DEF Sound, Types
  <2> QED BY <2>1
<1> HIDE DEF follows
<1>5. \A s \in sent : ~ s.replaced /\ s.gen = docGen => follows(s.text)
  BY <1>3 DEF CurrentFollows
<1>6. /\ stale \/ live' = {} \/ follows(live')
      /\ ~ stale => \A u \in Tabs : tab'[u].st = "online" =>
                       follows(live') /\ tab'[u].gen = docGen
      /\ stale => \A u \in Tabs : tab'[u].st = "online" => tab'[u].gen # docGen
      /\ \A u \in Tabs : tab'[u].gen = docGen =>
            /\ tab'[u].st = "loaded" => follows(tab'[u].seed)
            /\ tab'[u].st \notin Fresh => follows(tab'[u].copy)
      /\ \A u \in Tabs : tab'[u].st \notin Fresh => tab'[u].seed = {}
  <2>1. CASE Online(t)
    <3>1. live' = live \cup {p} /\ tab' = Show({p}, t) /\ {p} \in Text
      BY <1>1, <2>1 DEF Text
    <3>2. ASSUME NEW u \in Tabs
          PROVE  \/ /\ Online(u)
                    /\ tab'[u].st = "online" /\ tab'[u].seed = {}
                    /\ tab'[u].gen = tab[u].gen
                    /\ tab'[u].copy = tab[u].copy \cup {p}
                 \/ ~ Online(u) /\ tab'[u] = tab[u]
      <4>1. CASE Online(u)
        <5> DEFINE new == {p}
        <5>1. Types /\ new \in Text /\ tab' = Show(new, t)
          BY <3>1 DEF Sound
        <5> HIDE DEF new
        <5>2. /\ tab'[u].st = "online" /\ tab'[u].seed = {}
              /\ tab'[u].gen = tab[u].gen /\ tab'[u].copy = tab[u].copy \cup new
          BY <4>1, <5>1, ShowEffect
        <5> QED BY <4>1, <5>2 DEF new
      <4>2. CASE ~ Online(u)
        <5>1. u # t
          BY <2>1, <4>2
        <5>2. tab'[u] = tab[u]
          BY <3>1, <4>2, <5>1, ShowEffect DEF Sound
        <5> QED BY <4>2, <5>2
      <4> QED BY <4>1, <4>2
    <3>3. ~ stale => follows(live) /\ tab[t].gen = docGen
      BY <1>3, <2>1 DEF CurrentFollows
    <3>4. ~ stale => follows(live')
      BY <1>4, <3>1, <3>3
    <3>5. \A u \in Tabs : Online(u) /\ tab[u].gen = docGen => ~ stale /\ follows(tab[u].copy)
      BY <1>3 DEF CurrentFollows, Online, Fresh
    <3>6. \A u \in Tabs : Online(u) /\ tab[u].gen = docGen => follows(tab[u].copy \cup {p})
      BY <1>4, <3>3, <3>5
    <3>7. \A u \in Tabs : tab'[u].gen = docGen =>
            /\ tab'[u].st = "loaded" => follows(tab'[u].seed)
            /\ tab'[u].st \notin Fresh => follows(tab'[u].copy)
      BY <1>3, <3>2, <3>6 DEF CurrentFollows
    <3>8. \A u \in Tabs : tab'[u].st = "online" => Online(u) /\ tab'[u].gen = tab[u].gen
      BY <3>2 DEF Online
    <3>9. \A u \in Tabs : tab'[u].st \notin Fresh => tab'[u].seed = {}
      BY <3>2 DEF CurrentFollows
    <3> QED BY <3>4, <3>7, <3>8, <3>9 DEF CurrentFollows
  <2>2. CASE ~ Online(t)
    <3>1. /\ live' = live
          /\ tab' = [tab EXCEPT ![t] = [tab[t] EXCEPT !.copy = @ \cup {p}, !.dirty = TRUE]]
      BY <1>1, <2>2
    <3>2. /\ \A u \in Tabs \ {t} : tab'[u] = tab[u]
          /\ tab'[t].st = tab[t].st /\ tab'[t].gen = tab[t].gen
          /\ tab'[t].seed = tab[t].seed /\ tab'[t].copy = tab[t].copy \cup {p}
      BY <3>1 DEF Sound, Types, Tab
    <3>3. tab[t].gen = docGen => follows(tab'[t].copy)
      BY <1>2, <1>3, <1>4, <3>2 DEF CurrentFollows
    <3>4. \A u \in Tabs : tab'[u].st = tab[u].st /\ tab'[u].gen = tab[u].gen
                          /\ tab'[u].seed = tab[u].seed
      BY <3>2
    <3>5. \A u \in Tabs : tab'[u].gen = docGen =>
            /\ tab'[u].st = "loaded" => follows(tab'[u].seed)
            /\ tab'[u].st \notin Fresh => follows(tab'[u].copy)
      BY <1>3, <3>2, <3>3, <3>4 DEF CurrentFollows
    <3> QED BY <1>3, <3>1, <3>4, <3>5 DEF CurrentFollows, Online
  <2> QED BY <2>1, <2>2
<1>7. follows(content)
  BY <1>3 DEF CurrentFollows
<1> QED BY <1>2, <1>5, <1>6, <1>7 DEF CurrentFollows, Follows, TypedUnder, Online, follows

LEMMA EditorInLine ==
  ASSUME Sound, CurrentFollows, NEW t \in Tabs, Editor(t), ~ caught'
  PROVE  CurrentFollows'
<1>1. CASE Leave(t) \/ HearReset(t) \/ Refused(t)
  <2>1. PICK r \in BOOLEAN : Unmount(t, r)
    BY <1>1 DEF Leave, HearReset, Refused
  <2> QED BY <1>1, <2>1, UnmountInLine DEF Leave, HearReset, Refused
<1>2. CASE Load(t)
  <2>1. /\ \A u \in Tabs \ {t} : tab'[u] = tab[u]
        /\ tab'[t].st = "loaded" /\ tab'[t].seed = content
    BY <1>2 DEF Load, Sound, Types, Closed
  <2>2. UNCHANGED <<content, docGen, live, sent, base, born, stale>>
    BY <1>2 DEF Load, docs, ghosts
  <2> QED BY <2>1, <2>2 DEF CurrentFollows, Follows, TypedUnder, Online, Fresh
<1>3. CASE Connect(t)
  BY <1>3, ConnectInLine
<1>4. CASE NetDrop(t)
  <2>1. /\ \A u \in Tabs \ {t} : tab'[u] = tab[u]
        /\ tab'[t].st = "offline" /\ tab[t].st \notin Fresh
        /\ tab'[t].gen = tab[t].gen /\ tab'[t].seed = tab[t].seed
        /\ tab'[t].copy = tab[t].copy
    BY <1>4 DEF NetDrop, Sound, Types, Tab, Fresh
  <2>2. UNCHANGED <<content, docGen, live, sent, base, born, stale>>
    BY <1>4 DEF NetDrop, docs, ghosts
  <2> QED BY <2>1, <2>2 DEF CurrentFollows, Follows, TypedUnder, Online, Fresh
<1>5. CASE Type(t)
  BY <1>5, TypeInLine
<1>6. CASE AutoSave(t)
  <2>1. /\ \A u \in Tabs \ {t} : tab'[u] = tab[u]
        /\ tab'[t].st = tab[t].st /\ tab[t].st \notin Fresh
        /\ tab'[t].gen = tab[t].gen /\ tab'[t].seed = tab[t].seed
        /\ tab'[t].copy = tab[t].copy
    BY <1>6 DEF AutoSave, Sound, Types, Tab, Listening
  <2>2. UNCHANGED <<content, docGen, live, base, born, stale>>
    BY <1>6 DEF AutoSave, docs, ghosts
  <2>3. \A s \in sent' : s \in sent \/ (s.gen = tab[t].gen /\ s.text = tab[t].copy)
    BY <1>6 DEF AutoSave
  <2>4. \A s \in sent' : ~ s.replaced /\ s.gen = docGen => Follows(s.text)
    BY <2>1, <2>3 DEF CurrentFollows
  <2> QED BY <2>1, <2>2, <2>4 DEF CurrentFollows, Follows, TypedUnder, Online, Fresh
<1> QED BY <1>1, <1>2, <1>3, <1>4, <1>5, <1>6 DEF Editor

LEMMA StepInLine ==
  ASSUME Sound, Gens, CurrentFollows, NEW h \in Handlers, Step(h)
  PROVE  CurrentFollows'
<1>1. CASE Write(h)
  <2>1. PICK text : Replaces(text)
    BY <1>1 DEF Write
  <2>2. /\ content' = text /\ base' = text /\ docGen' = docGen + 1
        /\ UNCHANGED <<live, tab, sent>>
    BY <1>1, <2>1 DEF Write, Replaces
  <2>3. ~ stale' => live = {} /\ \A u \in Tabs : ~ Online(u)
    BY <2>1 DEF Replaces
  <2>4. /\ docGen \in Nat /\ \A u \in Tabs : tab[u].gen \in Nat
        /\ \A s \in sent : s.gen \in Nat
    BY DEF Sound, Types, Tab, Save
  <2>5. /\ \A u \in Tabs : tab[u].gen # docGen'
        /\ \A s \in sent : s.gen # docGen'
    BY <2>2, <2>4 DEF Gens
  <2>6. Follows(content)'
    BY <2>2 DEF Follows
  <2> QED BY <2>2, <2>3, <2>5, <2>6 DEF CurrentFollows, Online
<1>2. CASE Reset(h)
  <2>1. /\ live' = {} /\ stale' = FALSE
        /\ UNCHANGED <<content, docGen, sent, base, born>>
    BY <1>2 DEF Reset, bounds
  <2>2. ASSUME NEW u \in Tabs
        PROVE  /\ tab'[u].st # "online"
               /\ tab'[u].st = tab[u].st \/ (tab'[u].st = "kicked" /\ tab[u].st = "online")
               /\ tab'[u].gen = tab[u].gen /\ tab'[u].seed = tab[u].seed
               /\ tab'[u].copy = tab[u].copy
    <3>1. CASE Online(u)
      BY <1>2, <3>1 DEF Reset, Online, Sound, Types, Tab
    <3>2. CASE ~ Online(u)
      BY <1>2, <3>2 DEF Reset, Online
    <3> QED BY <3>1, <3>2
  <2> QED BY <2>1, <2>2 DEF CurrentFollows, Follows, TypedUnder, Online, Fresh
<1>3. CASE TakeSave(h)
  <2>1. /\ sent' \subseteq sent
        /\ content' = content \/ \E s \in sent : MayWrite(s) /\ content' = s.text
    BY <1>3 DEF TakeSave
  <2>2. UNCHANGED <<docGen, live, tab, base, born, stale>>
    BY <1>3 DEF TakeSave
  <2>3. Follows(content')
    BY <2>1 DEF MayWrite, CurrentFollows
  <2> QED BY <2>1, <2>2, <2>3 DEF CurrentFollows, Follows, TypedUnder, Online
<1>4. CASE Answer(h) /\ job[h].from # Nil
  <2>1. job[h].from \in Tabs /\ Unmount(job[h].from, TRUE)
    BY <1>4 DEF Answer, Sound, Types, Job
  <2>2. UNCHANGED <<docs, ghosts>>
    BY <1>4 DEF Answer
  <2> QED BY <2>1, <2>2, UnmountInLine
<1>5. CASE ~ (Write(h) \/ Reset(h) \/ TakeSave(h) \/ (Answer(h) /\ job[h].from # Nil))
  <2>1. UNCHANGED <<content, docGen, live, tab, sent, base, born, stale>>
    BY <1>5 DEF Step, OutsideWrite, RestoreRevision, Outside, Throttle, ReadBody,
       ReadCurrent, CompareNewest, KeepRevision, Answer, docs, ghosts
  <2> QED BY <2>1 DEF CurrentFollows, Follows, TypedUnder, Online
<1> QED BY <1>1, <1>2, <1>3, <1>4, <1>5

LEMMA FaultInLine ==
  ASSUME Sound, CurrentFollows, LoseSave \/ Restart \/ TimePasses
  PROVE  CurrentFollows'
<1>1. UNCHANGED <<content, docGen, live, base, born, stale>> /\ sent' \subseteq sent
  BY DEF LoseSave, Restart, TimePasses, docs, ghosts
<1>2. ASSUME NEW t \in Tabs
      PROVE  /\ \/ tab'[t].st = tab[t].st
                \/ tab'[t].st = "offline" /\ tab[t].st \in {"online", "kicked"}
             /\ tab'[t].gen = tab[t].gen /\ tab'[t].seed = tab[t].seed
             /\ tab'[t].copy = tab[t].copy
  <2>1. CASE LoseSave
    BY <2>1 DEF LoseSave, Unsaved, Sound, Types, Tab
  <2>2. CASE Restart
    <3>1. PICK waits : tab'[t] = [tab[t] EXCEPT
                         !.st = IF @ \in {"online", "kicked"} THEN "offline" ELSE @,
                         !.dirty = @ \/ waits]
      BY <2>2 DEF Restart
    <3> QED BY <3>1 DEF Sound, Types, Tab
  <2>3. CASE TimePasses
    BY <2>3 DEF TimePasses
  <2> QED BY <2>1, <2>2, <2>3
<1> QED BY <1>1, <1>2 DEF CurrentFollows, Follows, TypedUnder, Online, Fresh

(* A write from outside the editor is not undone by an editor that was open  *)
(* before it, unless the old live document was joined between the UPDATE and *)
(* the reset (docgen.go:20-34, collab.go:337-370).                           *)
THEOREM OldCopyStaysOut == Spec => []NoOldCopyBack
<1> DEFINE line == Gens /\ (~ caught => CurrentFollows)
<1>1. Init => line
  BY InLineInit
<1>2. Sound /\ line /\ [Next]_vars => line'
  <2> SUFFICES ASSUME Sound, line, [Next]_vars PROVE line'
    OBVIOUS
  <2>1. Gens'
    BY GensStep DEF Sound
  <2>2. ASSUME ~ caught' PROVE CurrentFollows'
    <3>1. ~ caught
      BY <2>2 DEF Next, Editor, Step, Load, Leave, HearReset, Refused, Connect, NetDrop, Type,
         AutoSave, TakeSave, OutsideWrite, RestoreRevision, Outside, Throttle, ReadBody,
         ReadCurrent, CompareNewest, KeepRevision, Write, Reset, Answer, TimePasses,
         LoseSave, Restart, ghosts, vars
    <3>2. CASE UNCHANGED vars
      BY <3>1, <3>2 DEF vars, CurrentFollows, Follows, TypedUnder, Online
    <3> QED BY <2>2, <3>1, <3>2, EditorInLine, StepInLine, FaultInLine DEF Next
  <2> QED BY <2>1, <2>2
<1>3. line => NoOldCopyBack
  BY DEF CurrentFollows, NoOldCopyBack
<1> HIDE DEF line
<1> QED BY <1>1, <1>2, <1>3, SoundInvariant, PTL DEF Spec
=============================================================================
