------------------------------ MODULE Database ------------------------------
(***************************************************************************)
(* A database page under several hands: its schema and its views, which    *)
(* browser windows and agents save from copies (collections.go,            *)
(* CollectionView.tsx, SchemaEditor.tsx, mcp_schema.go), and the           *)
(* properties of one row, which are merged field by field and can be taken *)
(* back from the log (pages.go, mcp_db.go, audit.go). How a view's         *)
(* condition picks rows is in Filters.                                     *)
(*                                                                         *)
(* A property is its type, a view its name. Left out: options, the order   *)
(* of both, who may write, whole rows coming and going.                    *)
(***************************************************************************)
EXTENDS Filters

CONSTANTS
    Props,       \* ids of properties
    ViewNames,   \* ids of views
    Windows,
    Agents,      \* calls of tools that can be under way at one time
    NewKinds,    \* bound: the types an added or changed property takes
    Nil,
    Written,     \* bound: the values agents write
    MaxEvents    \* bound: saves, edits and take-backs

ASSUME NilAssumption == Nil \notin Kinds \cup ViewNames
ASSUME KindsAssumption == NewKinds \subseteq Kinds
ASSUME WrittenAssumption == Written \subseteq Values
ASSUME BoundsAssumption == MaxEvents \in Nat

VARIABLES
    schema,      \* the type of each property there is
    views,
    copy,        \* what a window last heard of both
    answer,      \* an answer to loadConfig on its way to a window
    draft,       \* what the Properties dialog of a window started from
    puts,        \* saves of windows on their way
    agent,       \* what a tool call has read of both
    row,         \* the row's properties
    log,         \* changes of the row, as the audit log has them
    revert,      \* a take-back between its read and its write
    events       \* what the bound counts

config == <<schema, views>>
desk == <<copy, answer, draft, puts, agent>>
cells == <<row, log, revert>>
vars == <<config, desk, cells, events>>

Schema == [Props -> Kinds \cup {Nil}]
Config == [schema : Schema, views : (SUBSET ViewNames) \ {{}}]
Halves == {"schema", "views"}

(* A save carries one half or both; half is what its maker changed, gone   *)
(* what they removed.                                                      *)
Put == [from : Windows, schema : Schema \cup {Nil},
        views : ((SUBSET ViewNames) \ {{}}) \cup {Nil},
        about : SUBSET Halves, gone : SUBSET (Props \cup ViewNames)]

Row == [Props -> Values]

(* From and to of each property one entry of the log names. *)
Entry == [keys : SUBSET Props, from : Row, to : Row]

NoEntry == [p \in Props |-> NoValue]

Init ==
    /\ schema \in [Props -> Kinds \cup {Nil}]
    /\ \A p, q \in Props : p # q => schema[p] = Nil \/ schema[q] = Nil
    /\ \E p \in Props : schema[p] # Nil
    /\ \E v \in ViewNames : views = {v}
    /\ copy = [w \in Windows |-> Nil]
    /\ answer = [w \in Windows |-> Nil]
    /\ draft = [w \in Windows |-> Nil]
    /\ puts = {} /\ agent = [a \in Agents |-> Nil]
    /\ row = NoEntry /\ log = {} /\ revert = Nil
    /\ events = 0

-----------------------------------------------------------------------------
(* The schema and the views.                                               *)

Now == [schema |-> schema, views |-> views]

Spend == events < MaxEvents /\ events' = events + 1

(* loadConfig: at first, after an event, or because somebody asks for it. *)
LoadConfig(w) ==
    /\ answer[w] = Nil /\ copy[w] # Now
    /\ answer' = [answer EXCEPT ![w] = Now]
    /\ UNCHANGED <<config, copy, draft, puts, agent, cells, events>>

ShowConfig(w) ==
    /\ answer[w] # Nil
    /\ copy' = [copy EXCEPT ![w] = answer[w]]
    /\ answer' = [answer EXCEPT ![w] = Nil]
    /\ UNCHANGED <<config, draft, puts, agent, cells, events>>

(* The ways a person or an agent changes what they have read: one is added *)
(* or changed, one is removed, or nothing the model tells apart. The last  *)
(* view stays.                                                             *)
NewSchemas(s) ==
    {[s EXCEPT ![p] = k] : p \in Props, k \in NewKinds}
    \cup {[s EXCEPT ![p] = Nil] : p \in Props}

(* Mistake: the last view can be removed. *)
NewViewsNone(v) ==
    {v \cup {n} : n \in ViewNames} \cup {v \ {n} : n \in ViewNames}

NewViews(v) ==
    ({v \cup {n} : n \in ViewNames} \cup {v \ {n} : n \in ViewNames}) \ {{}}

Has(s) == {p \in Props : s[p] # Nil}

Gone(from, to) ==
    (Has(from.schema) \ Has(to.schema)) \cup (from.views \ to.views)

(* Mistake: both halves are sent, whichever has changed. *)
SentBoth(half) == Halves

(* saveConfig: only the half that has changed is sent. *)
Sent(half) == half

SaveConfig(w, next, about) ==
    /\ copy' = [copy EXCEPT ![w] = next]
    /\ LET half == Sent(about)
       IN  puts' = puts \cup
             {[from |-> w, about |-> about, gone |-> Gone(copy[w], next),
               schema |-> IF "schema" \in half THEN next.schema ELSE Nil,
               views |-> IF "views" \in half THEN next.views ELSE Nil]}

(* updateView, renameView, moveView, addView, removeView *)
ChangeViews(w) ==
    /\ Spend
    /\ copy[w] # Nil
    /\ \E v \in NewViews(copy[w].views) :
          SaveConfig(w, [copy[w] EXCEPT !.views = v], {"views"})
    /\ UNCHANGED <<config, answer, draft, agent, cells>>

(* setPropOptions: a new option in a cell. *)
SetPropOptions(w) ==
    /\ Spend
    /\ copy[w] # Nil /\ Has(copy[w].schema) # {}
    /\ SaveConfig(w, copy[w], {"schema"})
    /\ UNCHANGED <<config, answer, draft, agent, cells>>

OpenDialog(w) ==
    /\ Spend
    /\ copy[w] # Nil /\ draft[w] = Nil
    /\ draft' = [draft EXCEPT ![w] = copy[w]]
    /\ UNCHANGED <<config, copy, answer, puts, agent, cells>>

(* save in the dialog: both drafts, made when it was opened, are new.      *)
(* Views lose what names a property that is gone, which is left out.       *)
SaveDialog(w) ==
    /\ draft[w] # Nil
    /\ \E s \in NewSchemas(draft[w].schema) \cup {draft[w].schema} :
          SaveConfig(w, [draft[w] EXCEPT !.schema = s], Halves)
    /\ draft' = [draft EXCEPT ![w] = Nil]
    /\ UNCHANGED <<config, answer, agent, cells, events>>

CloseDialog(w) ==
    /\ draft[w] # Nil
    /\ draft' = [draft EXCEPT ![w] = Nil]
    /\ UNCHANGED <<config, copy, answer, puts, agent, cells, events>>

(* handlePutCollection: the half that was not sent stays. *)
PutCollection(r) ==
    /\ r \in puts
    /\ schema' = IF r.schema = Nil THEN schema ELSE r.schema
    /\ views' = IF r.views = Nil THEN views ELSE r.views
    /\ puts' = puts \ {r}
    /\ UNCHANGED <<copy, answer, draft, agent, cells, events>>

(* The request is lost. *)
LosePut(r) ==
    /\ Spend
    /\ r \in puts
    /\ puts' = puts \ {r}
    /\ UNCHANGED <<config, copy, answer, draft, agent, cells>>

(* loadCollection, at the beginning of update_schema, add_select_option    *)
(* and the tools for views.                                                *)
LoadCollection(a) ==
    /\ Spend
    /\ agent[a] = Nil
    /\ agent' = [agent EXCEPT ![a] = Now]
    /\ UNCHANGED <<config, copy, answer, draft, puts, cells>>

(* saveCollection, at their end: both halves go back. *)
SaveCollection(a) ==
    /\ agent[a] # Nil
    /\ \/ /\ schema' \in NewSchemas(agent[a].schema) \cup {agent[a].schema}
          /\ views' = agent[a].views
       \/ schema' = agent[a].schema /\ views' \in NewViews(agent[a].views)
    /\ agent' = [agent EXCEPT ![a] = Nil]
    /\ UNCHANGED <<copy, answer, draft, puts, cells, events>>

(* The tool finds nothing to do, or refuses. *)
GiveUp(a) ==
    /\ agent[a] # Nil
    /\ agent' = [agent EXCEPT ![a] = Nil]
    /\ UNCHANGED <<config, copy, answer, draft, puts, cells, events>>

-----------------------------------------------------------------------------
(* The row.                                                                *)

(* Only the keys that are named change; null takes one away. *)
Merge(old, keys, new) ==
    [p \in Props |-> IF p \in keys THEN new[p] ELSE old[p]]

(* setRowProp, handleUpdatePage: the log gets what is really new. *)
PatchProps(w, p) ==
    /\ Spend
    /\ copy[w] # Nil
    /\ copy[w].schema[p] # Nil
    /\ \E v \in Stored(copy[w].schema[p]) :
          /\ row' = [row EXCEPT ![p] = v]
          /\ log' = IF v = row[p] THEN log
                    ELSE log \cup {[keys |-> {p}, from |-> row,
                                    to |-> [NoEntry EXCEPT ![p] = v]]}
    /\ UNCHANGED <<config, desk, revert>>

(* mcpSetProperties: several at one time, of any type. *)
SetProperties(keys) ==
    /\ Spend
    /\ \E new \in [keys -> Written] :
          /\ row' = Merge(row, keys, new)
          /\ log' = log \cup {[keys |-> keys, from |-> row,
                               to |-> Merge(NoEntry, keys, new)]}
    /\ UNCHANGED <<config, desk, revert>>

(* Mistake: what has been edited since is taken back as well. *)
AsLeftOrNot(props, e) == e.keys

(* The properties that are still exactly as the entry left them. *)
AsLeft(props, e) == {p \in e.keys : props[p] = e.to[p]}

(* handleAuditRevert reads the row and compares. *)
ReadForRevert(e) ==
    /\ Spend
    /\ revert = Nil /\ e \in log
    /\ AsLeft(row, e) # {}
    /\ revert' = [read |-> row, entry |-> e,
                  next |-> Merge(row, AsLeft(row, e), e.from)]
    /\ UNCHANGED <<config, desk, row, log>>

(* It writes all properties of the row, as read and as taken back. *)
WriteRevert ==
    /\ revert # Nil
    /\ row' = revert.next
    /\ revert' = Nil
    /\ UNCHANGED <<config, desk, log, events>>

-----------------------------------------------------------------------------
Next ==
    \/ \E w \in Windows :
          \/ LoadConfig(w) \/ ShowConfig(w) \/ ChangeViews(w)
          \/ SetPropOptions(w) \/ OpenDialog(w) \/ SaveDialog(w)
          \/ CloseDialog(w)
          \/ \E p \in Props : PatchProps(w, p)
    \/ \E r \in puts : PutCollection(r) \/ LosePut(r)
    \/ \E a \in Agents : LoadCollection(a) \/ SaveCollection(a) \/ GiveUp(a)
    \/ \E keys \in (SUBSET Props) \ {{}} : SetProperties(keys)
    \/ \E e \in log : ReadForRevert(e)
    \/ WriteRevert

Spec == Init /\ [][Next]_vars

-----------------------------------------------------------------------------
(* Every variable has its type; in particular the database always has a    *)
(* view left, which its page needs to be drawn (removeView,                *)
(* mcpDeleteView).                                                         *)
TypeOK ==
    /\ schema \in Schema
    /\ views \in (SUBSET ViewNames) \ {{}}
    /\ copy \in [Windows -> Config \cup {Nil}]
    /\ answer \in [Windows -> Config \cup {Nil}]
    /\ draft \in [Windows -> Config \cup {Nil}]
    /\ puts \subseteq Put
    /\ agent \in [Agents -> Config \cup {Nil}]
    /\ row \in Row
    /\ log \subseteq Entry
    /\ revert \in [read : Row, entry : Entry, next : Row] \cup {Nil}
    /\ events \in Nat

(* A property or a view goes because somebody removed it, or with a save   *)
(* of that same half by somebody who had not seen it: "a property an agent *)
(* or a colleague added meanwhile vanished again the moment somebody here  *)
(* resized a column" (CollectionView.tsx) is not to happen again. The      *)
(* dialog and the tools save both halves, and so can take both.            *)
Meant(x, half) ==
    \/ \E r \in puts \ puts' : x \in r.gone \/ half \in r.about
    \/ \E a \in Agents : agent[a] # Nil /\ agent'[a] = Nil

NothingVanishes ==
    [][/\ \A p \in Has(schema) \ Has(schema') : Meant(p, "schema")
       /\ \A v \in views \ views' : Meant(v, "views")]_vars

(* "A property somebody has edited since is left alone" (audit.go): what a *)
(* take-back changes is as the entry left it, or the row was written       *)
(* between the reading and the writing of the take-back.                   *)
EditedSinceStays ==
    [][revert # Nil /\ revert' = Nil
          => \A p \in Props : row'[p] # row[p]
                => \/ p \in revert.entry.keys /\ row[p] = revert.entry.to[p]
                   \/ row # revert.read]_vars

(* What a cell has for "contains" to look into. *)
Texted(c) == ({c.text} \cup c.items) \cap Texts

(* Where the two readings of a condition differ, as the code has it. *)
KnownToDiffer(kind, f, c) ==
    \/ kind # "checkbox" /\ FilterValues(f) \cap {"true", "false"} # {}
    \/ c = Box("false") /\ Op(f) \in NoOperand
    \/ c = NoValue /\ Op(f) = "lt"
    \/ /\ Op(f) = "contains"
       /\ \E t \in Texted(c) \cup FilterValues(f) : AsciiFold[t] # LowerCase[t]

(* The rows the server sends for a condition are those the browser shows   *)
(* for it (collectionFilters.ts), for whatever has been stored under the   *)
(* property's type and every condition a person can build on it, but for   *)
(* four of which the two readings differ: the words true and false on a    *)
(* property that is no box, whether a box that is stored unticked is       *)
(* empty, whether no value is less than one, and whether a text contains   *)
(* one where either has a capital that is not from A to Z.                 *)
SameRows ==
    \A p \in Has(schema) :
        row[p] \in Stored(schema[p]) =>
            \A f \in Conditions(schema[p]) :
                IsArmed(schema[p], f) /\ ~KnownToDiffer(schema[p], f, row[p])
                    => (Where(schema[p], f, row[p])
                        <=> Matches(schema[p], f, row[p]))
=============================================================================
