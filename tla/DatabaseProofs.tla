--------------------------- MODULE DatabaseProofs ---------------------------
(***************************************************************************)
(* A database and one of its rows, proved for every number of windows,     *)
(* agents, properties, views and values.                                   *)
(***************************************************************************)
EXTENDS Database, TLAPS

USE NilAssumption, KindsAssumption, WrittenAssumption, BoundsAssumption

-----------------------------------------------------------------------------
(* What is stored under a type is a value, and so is what agents write.    *)
LEMMA StoredIsAValue ==
  /\ \A k \in Kinds : Stored(k) \subseteq Values
  /\ NoValue \in Values
  /\ Written \subseteq Values
<1>1. \A k \in Kinds : Stored(k) \subseteq Values
  BY DEF Values
<1>2. NoValue \in Stored("text") /\ "text" \in Kinds
  BY DEF Stored, Kinds
<1> QED BY <1>1, <1>2

(* Merging leaves a row. *)
LEMMA MergeIsARow ==
  ASSUME NEW old \in Row, NEW keys \in SUBSET Props, NEW new,
         \A p \in keys : new[p] \in Values
  PROVE  Merge(old, keys, new) \in Row
BY DEF Merge, Row

(* The ways to change a configuration lead to configurations. *)
LEMMA NewConfigs ==
  ASSUME NEW s \in Schema, NEW v \in (SUBSET ViewNames) \ {{}}
  PROVE  /\ NewSchemas(s) \subseteq Schema
         /\ NewViews(v) \subseteq (SUBSET ViewNames) \ {{}}
<1>1. NewSchemas(s) \subseteq Schema
  BY DEF NewSchemas, Schema
<1>2. NewViews(v) \subseteq (SUBSET ViewNames) \ {{}}
  BY DEF NewViews
<1> QED BY <1>1, <1>2

(* What a put carries it is about. *)
About(r) == /\ r.schema # Nil => "schema" \in r.about
            /\ r.views # Nil => "views" \in r.about

(* A save sends what its maker changed, and no more. *)
LEMMA SaveSendsWhatChanged ==
  ASSUME NEW w \in Windows, NEW about \in SUBSET Halves, NEW next \in Config,
         copy \in [Windows -> Config \cup {Nil}], puts \subseteq Put,
         copy[w] \in Config, SaveConfig(w, next, about)
  PROVE  /\ copy' \in [Windows -> Config \cup {Nil}]
         /\ puts' \subseteq Put
         /\ \A r \in puts' \ puts : About(r)
         /\ \A u \in Windows : copy[u] \in Config => copy'[u] \in Config
<1> DEFINE g == Gone(copy[w], next)
           x == IF "schema" \in about THEN next.schema ELSE Nil
           y == IF "views" \in about THEN next.views ELSE Nil
           r == [from |-> w, about |-> about, gone |-> g, schema |-> x,
                 views |-> y]
<1>1. puts' = puts \cup {r} /\ copy' = [copy EXCEPT ![w] = next]
  BY DEF SaveConfig, Sent
<1>2. g \in SUBSET (Props \cup ViewNames)
  BY DEF Gone, Has, Config
<1>3. x \in Schema \cup {Nil} /\ y \in ((SUBSET ViewNames) \ {{}}) \cup {Nil}
  BY DEF Config
<1>4. /\ x # Nil => "schema" \in about
      /\ y # Nil => "views" \in about
  OBVIOUS
<1> HIDE DEF g, x, y
<1>5. r \in Put
  BY <1>2, <1>3 DEF Put
<1>6. About(r)
  BY <1>4 DEF About
<1> QED BY <1>1, <1>5, <1>6

-----------------------------------------------------------------------------
(* Nothing is changed by a take-back but what was as the entry left it     *)
(* when the row was read.                                                  *)
RevertIsCareful ==
    revert # Nil =>
        \A p \in Props :
            revert.next[p] # revert.read[p]
                => /\ p \in revert.entry.keys
                   /\ revert.read[p] = revert.entry.to[p]

(* The inductive invariant. *)
IInv ==
    /\ TypeOK
    /\ \A r \in puts : About(r)
    /\ \A w \in Windows : draft[w] # Nil => copy[w] \in Config
    /\ RevertIsCareful

LEMMA InitIInv == Init => IInv
<1> SUFFICES ASSUME Init PROVE IInv
  OBVIOUS
<1>1. NoEntry \in Row
  BY StoredIsAValue DEF NoEntry, Row
<1>2. schema \in Schema /\ views \in (SUBSET ViewNames) \ {{}}
  BY DEF Init, Schema
<1>3. TypeOK
  BY <1>1, <1>2 DEF Init, TypeOK
<1> QED BY <1>3 DEF Init, IInv, RevertIsCareful

(* The steps of windows and agents about the configuration. *)
LEMMA DeskStep ==
  ASSUME IInv, NEW w \in Windows,
         \/ LoadConfig(w) \/ ShowConfig(w) \/ ChangeViews(w)
         \/ SetPropOptions(w) \/ OpenDialog(w) \/ SaveDialog(w)
         \/ CloseDialog(w)
  PROVE  IInv'
<1> USE DEF TypeOK
<1>0. Now \in Config
  BY DEF IInv, Now, Config
<1>00. /\ copy[w] # Nil => copy[w] \in Config
       /\ draft[w] # Nil => draft[w] \in Config
       /\ answer[w] # Nil => answer[w] \in Config
  BY DEF IInv
<1>S. events < MaxEvents /\ events' = events + 1 => events' \in Nat
  BY DEF IInv
<1>R. ASSUME UNCHANGED cells PROVE RevertIsCareful'
  BY <1>R DEF IInv, RevertIsCareful, cells
<1>1. CASE LoadConfig(w)
  <2>1. answer' \in [Windows -> Config \cup {Nil}]
    BY <1>0, <1>1 DEF IInv, LoadConfig
  <2>2. RevertIsCareful'
    BY <1>1, <1>R DEF LoadConfig
  <2> QED BY <1>1, <2>1, <2>2 DEF IInv, LoadConfig, config, cells
<1>2. CASE ShowConfig(w)
  <2>1. /\ copy' \in [Windows -> Config \cup {Nil}]
        /\ answer' \in [Windows -> Config \cup {Nil}]
    BY <1>00, <1>2 DEF IInv, ShowConfig
  <2>2. RevertIsCareful'
    BY <1>2, <1>R DEF ShowConfig
  <2> QED BY <1>2, <2>1, <2>2 DEF IInv, ShowConfig, config, cells
<1>3. CASE ChangeViews(w)
  <2>1. PICK v \in NewViews(copy[w].views) :
            SaveConfig(w, [copy[w] EXCEPT !.views = v], {"views"})
    BY <1>3 DEF ChangeViews
  <2>2. copy[w] \in Config /\ UNCHANGED <<config, answer, draft, agent, cells>>
        /\ events' = events + 1
    BY <1>00, <1>3 DEF ChangeViews, Spend
  <2>3. v \in (SUBSET ViewNames) \ {{}}
    BY <2>1, <2>2, NewConfigs DEF Config
  <2>4. [copy[w] EXCEPT !.views = v] \in Config
    BY <2>2, <2>3 DEF Config
  <2>5. /\ copy' \in [Windows -> Config \cup {Nil}]
        /\ puts' \subseteq Put
        /\ \A r \in puts' \ puts : About(r)
        /\ \A u \in Windows : copy[u] \in Config => copy'[u] \in Config
    BY <2>1, <2>2, <2>4, SaveSendsWhatChanged DEF IInv, Halves
  <2>6. RevertIsCareful'
    BY <2>2, <1>R
  <2>K. \A u \in Windows : draft'[u] # Nil => copy'[u] \in Config
    BY <2>2, <2>5 DEF IInv
  <2>A. \A r \in puts' : About(r)
    BY <2>5 DEF IInv
  <2>T. TypeOK'
    BY <2>2, <2>5, <1>S DEF IInv, config, cells
  <2> QED BY <2>T, <2>A, <2>K, <2>6 DEF IInv
<1>4. CASE SetPropOptions(w)
  <2>2. copy[w] \in Config /\ UNCHANGED <<config, answer, draft, agent, cells>>
        /\ events' = events + 1
    BY <1>00, <1>4 DEF SetPropOptions, Spend
  <2>5. /\ copy' \in [Windows -> Config \cup {Nil}]
        /\ puts' \subseteq Put
        /\ \A r \in puts' \ puts : About(r)
        /\ \A u \in Windows : copy[u] \in Config => copy'[u] \in Config
    BY <1>4, <2>2, SaveSendsWhatChanged DEF IInv, Halves, SetPropOptions
  <2>6. RevertIsCareful'
    BY <2>2, <1>R
  <2>K. \A u \in Windows : draft'[u] # Nil => copy'[u] \in Config
    BY <2>2, <2>5 DEF IInv
  <2>A. \A r \in puts' : About(r)
    BY <2>5 DEF IInv
  <2>T. TypeOK'
    BY <2>2, <2>5, <1>S DEF IInv, config, cells
  <2> QED BY <2>T, <2>A, <2>K, <2>6 DEF IInv
<1>5. CASE OpenDialog(w)
  <2>1. draft' \in [Windows -> Config \cup {Nil}]
    BY <1>5 DEF IInv, OpenDialog
  <2>2. RevertIsCareful'
    BY <1>5, <1>R DEF OpenDialog
  <2> QED BY <1>5, <2>1, <2>2 DEF IInv, OpenDialog, config, cells, Spend
<1>6. CASE SaveDialog(w)
  <2>1. PICK s \in NewSchemas(draft[w].schema) \cup {draft[w].schema} :
            SaveConfig(w, [draft[w] EXCEPT !.schema = s], Halves)
    BY <1>6 DEF SaveDialog
  <2>2. /\ draft[w] \in Config /\ UNCHANGED <<config, answer, agent, cells>>
        /\ draft' = [draft EXCEPT ![w] = Nil] /\ events' = events
    BY <1>00, <1>6 DEF SaveDialog
  <2>3. s \in Schema
    BY <2>1, <2>2, NewConfigs DEF Config
  <2>4. [draft[w] EXCEPT !.schema = s] \in Config
    BY <2>2, <2>3 DEF Config
  <2>5. copy[w] \in Config
    BY <1>00, <1>6 DEF SaveDialog, IInv
  <2>6. /\ copy' \in [Windows -> Config \cup {Nil}]
        /\ puts' \subseteq Put
        /\ \A r \in puts' \ puts : About(r)
        /\ \A u \in Windows : copy[u] \in Config => copy'[u] \in Config
    BY <2>1, <2>4, <2>5, SaveSendsWhatChanged DEF IInv
  <2>7. RevertIsCareful'
    BY <2>2, <1>R
  <2>K. \A u \in Windows : draft'[u] # Nil => copy'[u] \in Config
    BY <2>2, <2>6 DEF IInv
  <2>A. \A r \in puts' : About(r)
    BY <2>6 DEF IInv
  <2>T. TypeOK'
    BY <2>2, <2>6 DEF IInv, config, cells
  <2> QED BY <2>T, <2>A, <2>K, <2>7 DEF IInv
<1>7. CASE CloseDialog(w)
  <2>1. draft' \in [Windows -> Config \cup {Nil}]
    BY <1>7 DEF IInv, CloseDialog
  <2>2. RevertIsCareful'
    BY <1>7, <1>R DEF CloseDialog
  <2> QED BY <1>7, <2>1, <2>2 DEF IInv, CloseDialog, config, cells
<1> QED BY <1>1, <1>2, <1>3, <1>4, <1>5, <1>6, <1>7

(* The steps of the server and of agents about the configuration. *)
LEMMA ServerStep ==
  ASSUME IInv,
         \/ \E r \in puts : PutCollection(r) \/ LosePut(r)
         \/ \E a \in Agents : \/ LoadCollection(a) \/ SaveCollection(a)
                              \/ GiveUp(a)
  PROVE  IInv'
<1> USE DEF TypeOK
<1>0. Now \in Config
  BY DEF IInv, Now, Config
<1>R. ASSUME UNCHANGED cells PROVE RevertIsCareful'
  BY <1>R DEF IInv, RevertIsCareful, cells
<1>1. ASSUME NEW r \in puts, PutCollection(r) PROVE IInv'
  <2>1. r \in Put
    BY DEF IInv
  <2>2. schema' \in Schema /\ views' \in (SUBSET ViewNames) \ {{}}
    BY <1>1, <2>1 DEF IInv, PutCollection, Put
  <2>3. RevertIsCareful'
    BY <1>1, <1>R DEF PutCollection
  <2> QED BY <1>1, <2>2, <2>3 DEF IInv, PutCollection, cells
<1>2. ASSUME NEW r \in puts, LosePut(r) PROVE IInv'
  <2>3. RevertIsCareful'
    BY <1>2, <1>R DEF LosePut
  <2> QED BY <1>2, <2>3 DEF IInv, LosePut, cells, config, Spend
<1>3. ASSUME NEW a \in Agents, LoadCollection(a) PROVE IInv'
  <2>1. agent' \in [Agents -> Config \cup {Nil}]
    BY <1>0, <1>3 DEF IInv, LoadCollection
  <2>3. RevertIsCareful'
    BY <1>3, <1>R DEF LoadCollection
  <2> QED BY <1>3, <2>1, <2>3 DEF IInv, LoadCollection, cells, config, Spend
<1>4. ASSUME NEW a \in Agents, SaveCollection(a) PROVE IInv'
  <2>1. agent[a] \in Config
    BY <1>4 DEF IInv, SaveCollection
  <2>2. schema' \in Schema /\ views' \in (SUBSET ViewNames) \ {{}}
    BY <1>4, <2>1, NewConfigs DEF SaveCollection, Config
  <2>3. agent' \in [Agents -> Config \cup {Nil}]
    BY <1>4 DEF IInv, SaveCollection
  <2>4. RevertIsCareful'
    BY <1>4, <1>R DEF SaveCollection
  <2> QED BY <1>4, <2>2, <2>3, <2>4 DEF IInv, SaveCollection, cells
<1>5. ASSUME NEW a \in Agents, GiveUp(a) PROVE IInv'
  <2>1. agent' \in [Agents -> Config \cup {Nil}]
    BY <1>5 DEF IInv, GiveUp
  <2>3. RevertIsCareful'
    BY <1>5, <1>R DEF GiveUp
  <2> QED BY <1>5, <2>1, <2>3 DEF IInv, GiveUp, cells, config
<1> QED BY <1>1, <1>2, <1>3, <1>4, <1>5

(* The steps about the row. *)
LEMMA RowStep ==
  ASSUME IInv,
         \/ \E w \in Windows, p \in Props : PatchProps(w, p)
         \/ \E keys \in (SUBSET Props) \ {{}} : SetProperties(keys)
         \/ \E e \in log : ReadForRevert(e)
         \/ WriteRevert
  PROVE  IInv'
<1> USE DEF TypeOK
<1>0. NoEntry \in Row
  BY StoredIsAValue DEF NoEntry, Row
<1>R. ASSUME UNCHANGED revert PROVE RevertIsCareful'
  BY <1>R DEF IInv, RevertIsCareful
<1>1. ASSUME NEW w \in Windows, NEW p \in Props, PatchProps(w, p) PROVE IInv'
  <2>1. PICK v \in Stored(copy[w].schema[p]) :
           /\ row' = [row EXCEPT ![p] = v]
           /\ log' = IF v = row[p] THEN log
                     ELSE log \cup {[keys |-> {p}, from |-> row,
                                     to |-> [NoEntry EXCEPT ![p] = v]]}
    BY <1>1 DEF PatchProps
  <2>2. copy[w].schema[p] \in Kinds
    BY <1>1 DEF IInv, PatchProps, Config, Schema
  <2>3. v \in Values
    BY <2>1, <2>2, StoredIsAValue
  <2>4. row' \in Row
    BY <2>1, <2>3 DEF IInv, Row
  <2>5. [NoEntry EXCEPT ![p] = v] \in Row
    BY <1>0, <2>3 DEF Row
  <2>6. [keys |-> {p}, from |-> row, to |-> [NoEntry EXCEPT ![p] = v]]
            \in Entry
    BY <2>5 DEF IInv, Entry
  <2>7. log' \subseteq Entry
    BY <2>1, <2>6 DEF IInv
  <2>8. RevertIsCareful'
    BY <1>1, <1>R DEF PatchProps
  <2> QED BY <1>1, <2>4, <2>7, <2>8 DEF IInv, PatchProps, config, desk, Spend
<1>2. ASSUME NEW keys \in (SUBSET Props) \ {{}}, SetProperties(keys)
      PROVE  IInv'
  <2>1. PICK new \in [keys -> Written] :
          /\ row' = Merge(row, keys, new)
          /\ log' = log \cup {[keys |-> keys, from |-> row,
                               to |-> Merge(NoEntry, keys, new)]}
    BY <1>2 DEF SetProperties
  <2>2. \A p \in keys : new[p] \in Values
    BY StoredIsAValue
  <2>3. keys \in SUBSET Props
    OBVIOUS
  <2>4. row' \in Row
    BY <2>1, <2>2, <2>3, MergeIsARow DEF IInv
  <2>5. Merge(NoEntry, keys, new) \in Row
    BY <1>0, <2>2, <2>3, MergeIsARow
  <2>6. [keys |-> keys, from |-> row, to |-> Merge(NoEntry, keys, new)]
            \in Entry
    BY <2>3, <2>5 DEF IInv, Entry
  <2>7. log' \subseteq Entry
    BY <2>1, <2>6 DEF IInv
  <2>8. RevertIsCareful'
    BY <1>2, <1>R DEF SetProperties
  <2> QED BY <1>2, <2>4, <2>7, <2>8
          DEF IInv, SetProperties, config, desk, Spend
<1>3. ASSUME NEW e \in log, ReadForRevert(e) PROVE IInv'
  <2>1. e \in Entry
    BY DEF IInv
  <2>2. AsLeft(row, e) \in SUBSET Props
    BY <2>1 DEF AsLeft, Entry
  <2>3. \A p \in AsLeft(row, e) : e.from[p] \in Values
    BY <2>1, <2>2 DEF Entry, Row
  <2>4. Merge(row, AsLeft(row, e), e.from) \in Row
    BY <2>2, <2>3, MergeIsARow DEF IInv
  <2>5. revert' = [read |-> row, entry |-> e,
                   next |-> Merge(row, AsLeft(row, e), e.from)]
    BY <1>3 DEF ReadForRevert
  <2>6. revert' \in [read : Row, entry : Entry, next : Row]
    BY <2>1, <2>4, <2>5 DEF IInv
  <2>7. RevertIsCareful'
    BY <2>5 DEF RevertIsCareful, Merge, AsLeft
  <2> QED BY <1>3, <2>6, <2>7 DEF IInv, ReadForRevert, config, desk, Spend
<1>4. CASE WriteRevert
  <2>1. row' \in Row
    BY <1>4 DEF IInv, WriteRevert
  <2>2. RevertIsCareful'
    BY <1>4 DEF RevertIsCareful, WriteRevert
  <2> QED BY <1>4, <2>1, <2>2 DEF IInv, WriteRevert, config, desk
<1> QED BY <1>1, <1>2, <1>3, <1>4

LEMMA NextIInv == IInv /\ [Next]_vars => IInv'
<1> SUFFICES ASSUME IInv, [Next]_vars PROVE IInv'
  OBVIOUS
<1>1. CASE UNCHANGED vars
  BY <1>1 DEF IInv, TypeOK, RevertIsCareful, vars, config, desk, cells
<1>2. CASE Next
  BY <1>2, DeskStep, ServerStep, RowStep DEF Next
<1> QED BY <1>1, <1>2

LEMMA Invariant == Spec => []IInv
BY InitIInv, NextIInv, PTL DEF Spec

-----------------------------------------------------------------------------
(* Every variable has its type, and the last view stays, in every run: of  *)
(* removeView and mcpDeleteView, however old the copies they start from.   *)
THEOREM TypeInvariant == Spec => []TypeOK
<1>1. IInv => TypeOK
  BY DEF IInv
<1> QED BY Invariant, <1>1, PTL

(* What one step takes from the configuration somebody meant to take. *)
LEMMA OnlyMeant ==
  ASSUME IInv, [Next]_vars
  PROVE  /\ \A p \in Has(schema) \ Has(schema') : Meant(p, "schema")
         /\ \A v \in views \ views' : Meant(v, "views")
<1>1. CASE UNCHANGED config
  BY <1>1 DEF config, Has
<1>2. ASSUME NEW r \in puts, PutCollection(r)
      PROVE  /\ \A p \in Has(schema) \ Has(schema') : Meant(p, "schema")
             /\ \A v \in views \ views' : Meant(v, "views")
  <2>1. r \in puts \ puts' /\ About(r)
    BY <1>2 DEF PutCollection, IInv
  <2>2. ASSUME NEW p \in Has(schema) \ Has(schema') PROVE r.schema # Nil
    BY <1>2, <2>2 DEF PutCollection, Has
  <2>3. ASSUME NEW v \in views \ views' PROVE r.views # Nil
    BY <1>2, <2>3 DEF PutCollection
  <2> QED BY <2>1, <2>2, <2>3 DEF About, Meant
<1>3. ASSUME NEW a \in Agents, SaveCollection(a)
      PROVE  \A x, half : Meant(x, half)
  <2>1. agent[a] # Nil /\ agent'[a] = Nil
    BY <1>3 DEF SaveCollection, IInv, TypeOK
  <2> QED BY <2>1 DEF Meant
<1>4. CASE Next
  BY <1>1, <1>2, <1>3, <1>4
     DEF Next, LoadConfig, ShowConfig, ChangeViews, SetPropOptions,
         OpenDialog, SaveDialog, CloseDialog, LosePut, LoadCollection,
         GiveUp, PatchProps, SetProperties, ReadForRevert, WriteRevert
<1>5. CASE UNCHANGED vars
  BY <1>1, <1>5 DEF vars
<1> QED BY <1>4, <1>5

(* A save about the views never takes a property away, nor the other way   *)
(* round, from however old a copy it was made (saveConfig,                 *)
(* handlePutCollection).                                                   *)
THEOREM NothingIsLost == Spec => NothingVanishes
<1>1. IInv /\ [Next]_vars
        => [/\ \A p \in Has(schema) \ Has(schema') : Meant(p, "schema")
            /\ \A v \in views \ views' : Meant(v, "views")]_vars
  BY OnlyMeant
<1> QED BY Invariant, <1>1, PTL DEF Spec, NothingVanishes

(* A take-back leaves alone what somebody has edited since, if nothing is  *)
(* written while it works (handleAuditRevert).                             *)
THEOREM EditsAreLeftAlone == Spec => EditedSinceStays
<1> DEFINE Careful ==
        revert # Nil /\ revert' = Nil
          => \A p \in Props : row'[p] # row[p]
                => \/ p \in revert.entry.keys /\ row[p] = revert.entry.to[p]
                   \/ row # revert.read
<1>1. ASSUME IInv, [Next]_vars PROVE [Careful]_vars
  <2>1. CASE WriteRevert
    BY <1>1, <2>1 DEF IInv, RevertIsCareful, WriteRevert
  <2>2. CASE revert' = revert
    BY <2>2
  <2>3. CASE revert = Nil
    BY <2>3
  <2>4. WriteRevert \/ revert' = revert \/ revert = Nil
    BY <1>1 DEF Next, vars, cells, LoadConfig, ShowConfig, ChangeViews,
         SetPropOptions, OpenDialog, SaveDialog, CloseDialog, PutCollection,
         LosePut, LoadCollection, SaveCollection, GiveUp, PatchProps,
         SetProperties, ReadForRevert
  <2> QED BY <2>1, <2>2, <2>3, <2>4
<1>2. IInv /\ [Next]_vars => [Careful]_vars
  BY <1>1
<1> QED BY Invariant, <1>2, PTL DEF Spec, EditedSinceStays

-----------------------------------------------------------------------------
(* The two readings of a condition (Filters).                              *)

(* A condition is of one of four shapes. *)
LEMMA ShapesOfConditions ==
  ASSUME NEW k \in Kinds, NEW f \in Conditions(k)
  PROVE  /\ \/ f.op \in NoOperand /\ f.value = "" /\ f.values = {}
            \/ /\ f.op = "between" /\ f.op \in OpsFor(k) /\ f.values = {}
               /\ f.value \in Inputs(k) /\ f.value2 \in Inputs(k)
            \/ /\ TakesSeveral(k) /\ f.op \in {"is", "is_not"}
               /\ f.value = "" /\ f.value2 = ""
               /\ f.values \in SUBSET Choices(k)
            \/ /\ f.op \in OpsFor(k) \ (NoOperand \cup {"between"})
               /\ f.op \in {"is", "is_not"} => ~TakesSeveral(k)
               /\ f.value \in Inputs(k) /\ f.values = {} /\ f.value2 = ""
         /\ f = Condition(f.op, f.value, f.values, f.value2)
<1>1. SetOps(k) = IF TakesSeveral(k) THEN {"is", "is_not"} ELSE {}
  BY DEF SetOps
<1> QED BY <1>1 DEF Conditions, Shape, Condition

(* Which operators a kind has. *)
LEMMA OperatorsOfKinds ==
  ASSUME NEW k \in Kinds, NEW op \in OpsFor(k)
  PROVE  /\ op \in {"gt", "lt", "between"} => k \in {"number", "date"}
         /\ op = "contains" => k \in {"text", "person"}
         /\ op \in {"", "is", "is_not", "gt", "lt", "between", "contains"}
                   \cup NoOperand
<1>1. CASE k \in {"number", "date"}
  BY <1>1 DEF OpsFor, NoOperand
<1>2. CASE k \in {"text", "person"}
  BY <1>2 DEF OpsFor, NoOperand
<1>3. CASE k \notin {"number", "date", "text", "person"}
  BY <1>3 DEF OpsFor, NoOperand
<1> QED BY <1>1, <1>2, <1>3

(* What can be typed for a kind. *)
LEMMA InputsOfKinds ==
  ASSUME NEW k \in Kinds
  PROVE  /\ k = "number" => Inputs(k) = {""} \cup Elements(Numerals)
         /\ k = "date" => Inputs(k) = {""} \cup Elements(Days) \cup {"today"}
                                      \cup Unfinished \cup NoDay
         /\ k = "checkbox" => Inputs(k) = {"", "true", "false"}
         /\ k = "person" => Inputs(k) = {""} \cup People
         /\ k \in {"text", "select", "multiselect"} =>
                Inputs(k) = {""} \cup Words \cup Unfinished
BY DEF Inputs, Kinds

(* What can be stored under a kind. *)
LEMMA CellsOfKinds ==
  ASSUME NEW k \in Kinds, NEW c \in Stored(k)
  PROVE  \/ c = NoValue
         \/ k \in {"text", "select"} /\ \E t \in Words \cup {""} : c = String(t)
         \/ k = "number" /\ \E t \in Elements(Numerals) :
                                c = Number(t) \/ c = String(t)
         \/ k = "checkbox" /\ c \in {Box("true"), Box("false")}
         \/ k = "multiselect" /\ \E s \in SUBSET Words : c = List(s)
         \/ k = "date" /\ \E t \in Elements(Days) \cup {""} : c = String(t)
         \/ k = "person" /\ \/ \E t \in People \cup {""} : c = String(t)
                            \/ \E s \in SUBSET People : c = List(s)
<1>1. CASE k \in {"text", "select"}
  BY <1>1 DEF Stored
<1>2. CASE k = "number"
  BY <1>2 DEF Stored
<1>3. CASE k = "checkbox"
  BY <1>3 DEF Stored
<1>4. CASE k = "multiselect"
  BY <1>4 DEF Stored
<1>5. CASE k = "date"
  BY <1>5 DEF Stored
<1>6. CASE k = "person"
  BY <1>6 DEF Stored
<1> QED BY <1>1, <1>2, <1>3, <1>4, <1>5, <1>6 DEF Kinds

-----------------------------------------------------------------------------
(* The values the server and the browser compare with, once the days and   *)
(* the accounts that are meant are put in.                                 *)
ServerValues(k, f) == FilterValues(Resolved(k, f)) \ Unfinished

Live(k, f) == {v \in FilterValues(f) : LiveValue(k, v, Op(f))}

BrowserValues(k, f) == UNION {Resolve(k, v) : v \in Live(k, f)}

(* Texts that name nothing special. *)
Special == {"", "today-", "true", "false"}

(* Of an account only who is meant is put in. *)
LEMMA ResolvedPerson ==
  ASSUME NEW f, NEW k, k = "person", f.op \in {"", "is", "is_not"}
  PROVE  /\ Resolved(k, f).op = f.op
         /\ Resolved(k, f).value = f.value
         /\ Resolved(k, f).value2 = f.value2
         /\ Resolved(k, f).values = IF "@me" \in f.values
                                           THEN (f.values \ {"@me"}) \cup Mine
                                           ELSE f.values
BY DEF Resolved, Condition

(* Neither reading asks for anything else than the condition does. *)
LEMMA SameOperator ==
  ASSUME NEW k \in Kinds, NEW f \in Conditions(k)
  PROVE  Op(Resolved(k, f)) = Op(f)
<1>1. CASE k = "date" /\ f.op \notin NoOperand \cup {"contains"}
  <2>1. Resolved(k, f).op = IF f.op = "" /\ f.value # "" THEN "is" ELSE f.op
    BY <1>1 DEF Resolved, Condition
  <2>2. Resolved(k, f).value = Day(f.value)
    BY <1>1 DEF Resolved, Condition
  <2>3. f.value = "" => Day(f.value) = ""
    BY DEF Day
  <2> QED BY <2>1, <2>2, <2>3 DEF Op
<1>2. CASE k = "person" /\ f.op \in {"", "is", "is_not"}
  <2>1. Resolved(k, f).op = f.op /\ Resolved(k, f).value = f.value
    BY <1>2, ResolvedPerson
  <2> QED BY <2>1 DEF Op
<1>3. CASE /\ ~(k = "date" /\ f.op \notin NoOperand \cup {"contains"})
           /\ ~(k = "person" /\ f.op \in {"", "is", "is_not"})
  <2>1. Resolved(k, f) = f
    BY <1>3 DEF Resolved
  <2> QED BY <2>1
<1> QED BY <1>1, <1>2, <1>3

(* The word today and the days name days. *)
LEMMA DayOfAWord ==
  ASSUME NEW v
  PROVE  /\ Day("") = ""
         /\ v \in Elements(Days) \cup {"today"} =>
                Day(v) \in Elements(Days) /\ Day(v) \notin Special
BY TodayAssumption, TextsAssumption DEF Day, Special

(* For a condition that is armed and compares for equality, both compare   *)
(* with the same values, at least one, and none of them is special.        *)
LEMMA SameValues ==
  ASSUME NEW k \in Kinds, NEW f \in Conditions(k), IsArmed(k, f),
         Op(f) \in {"is", "is_not"}
  PROVE  /\ ServerValues(k, f) = BrowserValues(k, f)
         /\ ServerValues(k, f) # {}
         /\ {"", "today-"} \cap ServerValues(k, f) = {}
         /\ {Resolved(k, f).value, Resolved(k, f).value2} \cap Unfinished = {}
         /\ \/ ServerValues(k, f) \cap {"true", "false"} = {}
            \/ FilterValues(f) \cap {"true", "false"} # {}
         /\ k = "number" => ServerValues(k, f) \subseteq Elements(Numerals)
         /\ k = "checkbox" => ServerValues(k, f) \subseteq {"true", "false"}
<1>1. PICK v0 \in FilterValues(f) : LiveValue(k, v0, Op(f))
  BY DEF IsArmed, NoOperand
<1>2. f.op \in {"", "is", "is_not"} /\ (f.op = "" => f.value # "")
  BY ShapesOfConditions DEF Op
<1>3. CASE k = "date"
  <2>1. f.values = {} /\ f.value2 = ""
    BY <1>2, <1>3, ShapesOfConditions DEF TakesSeveral, NoOperand
  <2>2. v0 = f.value /\ f.value # "" /\ FilterValues(f) = {f.value}
    <3>1. FilterValues(f) = {f.value} \ {""}
      BY <2>1 DEF FilterValues
    <3> QED BY <3>1, <1>1
  <2>3. f.value \in Elements(Days) \cup {"today"}
    BY <1>1, <1>3, <2>2 DEF LiveValue
  <2>4. Live(k, f) = {f.value}
    BY <2>2, <1>1 DEF Live
  <2>5. Resolve(k, f.value) = {Day(f.value)}
    BY <1>3, <2>3, DayOfAWord DEF Resolve, Special
  <2>6. BrowserValues(k, f) = {Day(f.value)}
    BY <2>4, <2>5 DEF BrowserValues
  <2>7. /\ Resolved(k, f).value = Day(f.value)
        /\ Resolved(k, f).values = {}
        /\ Resolved(k, f).value2 = ""
    BY <1>2, <1>3, <2>1, DayOfAWord DEF Resolved, Condition, NoOperand
  <2>8. ServerValues(k, f) = {Day(f.value)}
    BY <2>7, <2>3, DayOfAWord
       DEF ServerValues, FilterValues, Unfinished, Special
  <2> QED BY <2>6, <2>7, <2>8, <2>3, <1>3, DayOfAWord DEF Special, Unfinished
<1>4. CASE k = "person"
  <2>1. f.value2 = ""
    BY <1>2, <1>4, ShapesOfConditions DEF TakesSeveral, NoOperand
  <2>2. FilterValues(f) \subseteq People \cup {"@me"}
    <3>1. f.values \in SUBSET (People \cup {"@me"})
      BY <1>2, <1>4, ShapesOfConditions DEF Choices, NoOperand
    <3>2. f.value \in {""} \cup People
      BY <1>2, <1>4, ShapesOfConditions, InputsOfKinds DEF NoOperand
    <3> QED BY <3>1, <3>2 DEF FilterValues
  <2>3. Live(k, f) = FilterValues(f)
    BY <2>2, <1>4, TextsAssumption DEF Live, LiveValue, Unfinished
  <2>4. f.values = {} => "@me" \notin FilterValues(f)
    BY <1>2, <1>4, ShapesOfConditions, InputsOfKinds, TextsAssumption
       DEF FilterValues, NoOperand
  <2>5. /\ Resolved(k, f).value = f.value
        /\ Resolved(k, f).value2 = f.value2
        /\ Resolved(k, f).values = IF "@me" \in f.values
                                    THEN (f.values \ {"@me"}) \cup Mine
                                    ELSE f.values
    BY <1>2, <1>4, ResolvedPerson
  <2>6. ServerValues(k, f) = IF "@me" \in FilterValues(f)
                             THEN (FilterValues(f) \ {"@me"}) \cup Mine
                             ELSE FilterValues(f)
    <3>1. CASE f.values = {}
      <4>1. FilterValues(f) \cap Unfinished = {}
        BY <2>2, TextsAssumption DEF Unfinished
      <4>2. FilterValues(Resolved(k, f)) = FilterValues(f)
        BY <3>1, <2>5 DEF FilterValues
      <4> QED BY <2>4, <3>1, <4>1, <4>2 DEF ServerValues
    <3>2. CASE f.values # {}
      <4>1. FilterValues(f) = f.values
        BY <3>2 DEF FilterValues
      <4>2. Resolved(k, f).values # {}
        BY <3>2, <2>5, MineAssumption
      <4>3. FilterValues(Resolved(k, f)) = Resolved(k, f).values
        BY <4>2 DEF FilterValues
      <4>4. Resolved(k, f).values \cap Unfinished = {}
        <5>1. Resolved(k, f).values \subseteq People
          BY <2>2, <2>5, <4>1, MineAssumption
        <5>2. People \cap Unfinished = {}
          BY TextsAssumption DEF Unfinished
        <5> QED BY <5>1, <5>2
      <4> QED BY <2>5, <4>1, <4>3, <4>4 DEF ServerValues
    <3> QED BY <3>1, <3>2
  <2>7. \A v \in FilterValues(f) : Resolve(k, v) = IF v = "@me" THEN Mine
                                                   ELSE {v}
    BY <1>4 DEF Resolve
  <2>8. BrowserValues(k, f) = IF "@me" \in FilterValues(f)
                              THEN (FilterValues(f) \ {"@me"}) \cup Mine
                              ELSE FilterValues(f)
    BY <2>3, <2>7 DEF BrowserValues
  <2>9. ServerValues(k, f) \subseteq People
    BY <2>2, <2>6, MineAssumption
  <2>10. ServerValues(k, f) # {}
    BY <1>1, <2>6, MineAssumption
  <2>11. f.value \notin Unfinished
    BY <1>4, ShapesOfConditions, InputsOfKinds, TextsAssumption, <1>2
       DEF Unfinished, NoOperand
  <2>12. {"", "today-", "true", "false"} \cap ServerValues(k, f) = {}
    BY <2>9, TextsAssumption
  <2>13. /\ ServerValues(k, f) = BrowserValues(k, f)
         /\ {Resolved(k, f).value, Resolved(k, f).value2} \cap Unfinished = {}
    BY <2>1, <2>5, <2>6, <2>8, <2>11 DEF Unfinished
  <2> QED BY <2>10, <2>12, <2>13, <1>4
<1>5. CASE k \in {"text", "select", "number", "checkbox", "multiselect"}
  <2>1. Resolved(k, f) = f
    BY <1>5 DEF Resolved
  <2>2. ServerValues(k, f) = FilterValues(f) \ Unfinished
    BY <2>1 DEF ServerValues
  <2>3. Live(k, f) = FilterValues(f) \ Unfinished
    BY <1>5 DEF Live, LiveValue
  <2>4. \A v \in Live(k, f) : Resolve(k, v) = {v}
    BY <1>5 DEF Resolve
  <2>5. BrowserValues(k, f) = Live(k, f)
    BY <2>4 DEF BrowserValues
  <2>6. "" \notin FilterValues(f)
    BY <1>2, <1>5, ShapesOfConditions, TextsAssumption
       DEF FilterValues, Choices, NoOperand
  <2>7. v0 \in ServerValues(k, f)
    BY <1>1, <2>2, <2>3 DEF Live
  <2>8. f.value2 = ""
    BY <1>2, <1>5, ShapesOfConditions DEF NoOperand
  <2>9. f.value \notin Unfinished
    <3>1. CASE f.values = {}
      <4>1. v0 = f.value
        BY <1>1, <3>1 DEF FilterValues
      <4> QED BY <4>1, <1>1, <1>5 DEF LiveValue
    <3>2. CASE f.values # {}
      BY <3>2, <1>2, ShapesOfConditions DEF NoOperand, Unfinished
    <3> QED BY <3>1, <3>2
  <2>10. k \in {"number", "checkbox"} => FilterValues(f) \subseteq Inputs(k)
    <3>1. ASSUME k \in {"number", "checkbox"}
          PROVE  f.values = {} /\ f.value \in Inputs(k)
      <4>1. ~TakesSeveral(k)
        BY <3>1 DEF TakesSeveral
      <4> QED BY <1>2, <4>1, ShapesOfConditions DEF NoOperand
    <3> QED BY <3>1 DEF FilterValues
  <2>11. /\ k = "number" => ServerValues(k, f) \subseteq Elements(Numerals)
         /\ k = "checkbox" => ServerValues(k, f) \subseteq {"true", "false"}
    BY <2>2, <2>6, <2>10, InputsOfKinds
  <2> QED BY <2>1, <2>2, <2>3, <2>5, <2>6, <2>7, <2>8, <2>9, <2>11
          DEF Unfinished
<1> QED BY <1>3, <1>4, <1>5 DEF Kinds

-----------------------------------------------------------------------------
(* What a cell of each sort is made of. *)
LEMMA Cells ==
  /\ NoValue.json = "none" /\ NoValue.text = ""
  /\ \A t : String(t).json = "string" /\ String(t).text = t
  /\ \A t : Number(t).json = "number" /\ Number(t).text = t
  /\ \A b : Box(b).json = b
  /\ \A s : List(s).json = "array" /\ List(s).items = s
BY DEF NoValue, String, Number, Box, List, Value

(* For equality the two readings agree on a row. *)
LEMMA SameIs ==
  ASSUME NEW k \in Kinds, NEW c \in Stored(k), NEW vals,
         vals # {}, {"", "today-"} \cap vals = {},
         k = "number" => vals \subseteq Elements(Numerals),
         k = "checkbox" => vals \subseteq {"true", "false"},
         k # "checkbox" => vals \cap {"true", "false"} = {}
  PROVE  SqlIs(k, c, vals) <=> HoldsAny(k, c, vals)
<1>1. CASE k = "number"
  <2>1. vals \cap Elements(Numerals) # {}
    BY <1>1
  <2>2. SqlIs(k, c, vals) <=> c.json \in {"number", "string"} /\ c.text \in vals
    BY <1>1, <2>1 DEF SqlIs
  <2>3. c.json # "array"
    <3>1. c = NoValue \/ \E t : c = Number(t) \/ c = String(t)
      BY <1>1, CellsOfKinds
    <3>2. CASE c = NoValue
      BY <3>2, Cells
    <3>3. ASSUME NEW t, c = Number(t) \/ c = String(t)
          PROVE  c.json \in {"number", "string"}
      <4>1. Number(t).json = "number" /\ String(t).json = "string"
        BY Cells
      <4> QED BY <3>3, <4>1
    <3> QED BY <3>1, <3>2, <3>3
  <2>4. CASE c = NoValue \/ c = String("")
    <3>1. c.text = "" /\ c.json # "true" /\ c.json # "array"
      BY <2>4, Cells
    <3>2. ~HoldsAny(k, c, vals)
      BY <1>1, <2>4, <3>1, TextsAssumption DEF HoldsAny
    <3> QED BY <2>2, <3>1, <3>2
  <2>5. CASE c \notin {NoValue, String("")}
    <3>1. HoldsAny(k, c, vals) <=> c.text \in vals
      BY <1>1, <2>3, <2>5 DEF HoldsAny
    <3>2. c.json \in {"number", "string"}
      <4>1. PICK t : c = Number(t) \/ c = String(t)
        BY <1>1, <2>5, CellsOfKinds
      <4>2. Number(t).json = "number" /\ String(t).json = "string"
        BY Cells
      <4> QED BY <4>1, <4>2
    <3> QED BY <2>2, <3>1, <3>2
  <2> QED BY <2>4, <2>5
<1>2. CASE k = "checkbox"
  <2>1. vals \cap {"true", "false"} # {}
    BY <1>2
  <2>2. SqlIs(k, c, vals) <=> \/ "true" \in vals /\ c.json = "true"
                              \/ "false" \in vals /\ c.json # "true"
    BY <1>2, <2>1 DEF SqlIs, Unticked
  <2>3. c.json \in {"none", "true", "false"}
    <3>1. c = NoValue \/ c = Box("true") \/ c = Box("false")
      BY <1>2, CellsOfKinds
    <3>2. /\ NoValue.json = "none"
          /\ Box("true").json = "true" /\ Box("false").json = "false"
      BY Cells
    <3> QED BY <3>1, <3>2
  <2>4. HoldsAny(k, c, vals) <=> \/ c.json = "true" /\ "true" \in vals
                                 \/ c.json # "true" /\ "false" \in vals
    BY <1>2, <2>3 DEF HoldsAny
  <2> QED BY <2>2, <2>4
<1>3. CASE k \notin {"number", "checkbox"}
  <2>1. SqlIs(k, c, vals) <=> \/ c.json = "string" /\ c.text \in vals
                              \/ c.json = "array" /\ c.items \cap vals # {}
    BY <1>3 DEF SqlIs
  <2>2. CASE c.json = "array"
    BY <1>3, <2>1, <2>2 DEF HoldsAny
  <2>3. CASE c.json # "array"
    <3>1. c.json \in {"none", "string"} /\ (c.json = "none" => c.text = "")
      <4>1. c = NoValue \/ (\E t : c = String(t)) \/ (\E s : c = List(s))
        BY <1>3, CellsOfKinds DEF Kinds
      <4>2. CASE c = NoValue
        BY <4>2, Cells
      <4>3. ASSUME NEW t, c = String(t) PROVE c.json = "string"
        <5>1. String(t).json = "string"
          BY Cells
        <5> QED BY <4>3, <5>1
      <4>4. ASSUME NEW s, c = List(s) PROVE FALSE
        <5>1. List(s).json = "array"
          BY Cells
        <5> QED BY <2>3, <4>4, <5>1
      <4> QED BY <4>1, <4>2, <4>3, <4>4
    <3>2. HoldsAny(k, c, vals) <=> c.text \in vals
      BY <1>3, <2>3, <3>1 DEF HoldsAny
    <3> QED BY <2>1, <2>3, <3>1, <3>2
  <2> QED BY <2>2, <2>3
<1> QED BY <1>1, <1>2, <1>3

(* No text comes before the first of those that are ordered. *)
LEMMA Places ==
  ASSUME NEW S, NEW s \in Seq(S)
  PROVE  DOMAIN s = 1 .. Len(s) /\ Len(s) \in Nat
OBVIOUS

LEMMA Ranks ==
  ASSUME NEW s \in {Numerals, Days}, NEW t
  PROVE  /\ Rank(s, t) \in Nat
         /\ t \in Elements(s) => Rank(s, t) > 0
         /\ Rank(s, "") = 0
<1>1. DOMAIN s = 1 .. Len(s) /\ Len(s) \in Nat
  <2>1. s \in Seq(Elements(s))
    BY TextsAssumption
  <2> QED BY <2>1, Places
<1>2. "" \notin Elements(s)
  BY TextsAssumption
<1>3. Rank(s, "") = 0
  BY <1>2 DEF Rank
<1>4. CASE t \in Elements(s)
  <2>1. \E i \in DOMAIN s : s[i] = t
    BY <1>4 DEF Elements
  <2>2. (CHOOSE i \in DOMAIN s : s[i] = t) \in DOMAIN s
    BY <2>1
  <2>3. Rank(s, t) = CHOOSE i \in DOMAIN s : s[i] = t
    BY <1>4 DEF Rank
  <2>4. Rank(s, t) \in 1 .. Len(s)
    BY <1>1, <2>2, <2>3
  <2>5. Rank(s, t) \in Nat /\ Rank(s, t) > 0
    BY <1>1, <2>4
  <2> QED BY <1>3, <2>5
<1>5. CASE t \notin Elements(s)
  BY <1>3, <1>5 DEF Rank
<1> QED BY <1>3, <1>4, <1>5

(* What is typed as a bound, once it is understood. *)
Bound(k, v) == IF k = "date" THEN Day(v) ELSE v

LEMMA SameBound ==
  ASSUME NEW k \in {"number", "date"}, NEW v \in Inputs(k), v # "",
         NEW op \in {"gt", "lt", "between"}, LiveValue(k, v, op)
  PROVE  /\ Bound(k, v) \in Elements(Order(k))
         /\ Bound(k, v) \notin {"", "today-"}
         /\ (CHOOSE x \in Resolve(k, v) : TRUE) = Bound(k, v)
<1>1. CASE k = "number"
  <2>1. v \in Elements(Numerals) /\ v \notin Unfinished
    BY <1>1, InputsOfKinds DEF LiveValue, Kinds
  <2>2. Resolve(k, v) = {v}
    BY <1>1 DEF Resolve
  <2> QED BY <1>1, <2>1, <2>2, TextsAssumption DEF Bound, Order, Unfinished
<1>2. CASE k = "date"
  <2>1. v \in Elements(Days) \cup {"today"}
    BY <1>2 DEF LiveValue
  <2>2. Resolve(k, v) = {Day(v)}
    BY <1>2, <2>1, DayOfAWord DEF Resolve, Special
  <2> QED BY <1>2, <2>1, <2>2, DayOfAWord DEF Bound, Order, Special
<1> QED BY <1>1, <1>2

(* Against a bound the two readings agree on a row that has a value, and   *)
(* none is less than every bound for the browser and compares with none    *)
(* for the server.                                                         *)
LEMMA SameCompare ==
  ASSUME NEW k \in {"number", "date"}, NEW c \in Stored(k),
         NEW v \in Elements(Order(k))
  PROVE  /\ SqlMore(c, v) <=> (Compare(k, c, v) > 0)
         /\ c # NoValue => (SqlLess(c, v) <=> (Compare(k, c, v) < 0))
         /\ c.text = "" => Compare(k, c, v) < 0
<1>1. Order(k) \in {Numerals, Days}
  BY DEF Order
<1>2. CASE c = NoValue
  <2>1. c.text = ""
    BY <1>2, Cells
  <2>2. ~SqlMore(c, v)
    BY <1>2 DEF SqlMore
  <2>3. Rank(Order(k), c.text) = 0
    BY <1>1, <2>1, Ranks
  <2>4. Rank(Order(k), v) \in Nat /\ Rank(Order(k), v) > 0
    BY <1>1, Ranks
  <2>5. Compare(k, c, v) < 0 /\ ~(Compare(k, c, v) > 0)
    BY <2>3, <2>4 DEF Compare
  <2> QED BY <1>2, <2>2, <2>5
<1>3. CASE c # NoValue
  <2>1. k = "date" => v \notin Elements(Numerals)
    BY TextsAssumption DEF Order
  <2>2. SqlMore(c, v) <=> Rank(Order(k), c.text) > Rank(Order(k), v)
    BY <1>3, <2>1 DEF SqlMore, Order
  <2>3. SqlLess(c, v) <=> Rank(Order(k), c.text) < Rank(Order(k), v)
    BY <1>3, <2>1 DEF SqlLess, Order
  <2>4. Rank(Order(k), c.text) \in Nat /\ Rank(Order(k), v) \in Nat
    BY <1>1, Ranks
  <2>5. c.text = "" => Rank(Order(k), c.text) < Rank(Order(k), v)
    BY <1>1, Ranks
  <2>6. (Compare(k, c, v) > 0) <=> Rank(Order(k), c.text) > Rank(Order(k), v)
    BY <2>4 DEF Compare
  <2>7. (Compare(k, c, v) < 0) <=> Rank(Order(k), c.text) < Rank(Order(k), v)
    BY <2>4 DEF Compare
  <2> QED BY <2>2, <2>3, <2>5, <2>6, <2>7
<1> QED BY <1>2, <1>3

(* Of what was stored under a number or a date only what is no value, or   *)
(* an empty text, has no text.                                             *)
LEMMA EmptyTexts ==
  ASSUME NEW k \in {"number", "date"}, NEW c \in Stored(k)
  PROVE  c = NoValue => c.text = ""
BY Cells

-----------------------------------------------------------------------------
(* What a condition comes to on the server, by its operator. *)
Waits(k, f) ==
    \/ {Resolved(k, f).value, Resolved(k, f).value2} \cap Unfinished # {}
    \/ ServerValues(k, f) = {}
    \/ Op(f) = "between" /\ Resolved(k, f).value2 = ""

LEMMA WhereIsEmpty ==
  ASSUME NEW k \in Kinds, NEW f \in Conditions(k), NEW c
  PROVE  /\ Op(f) = "is_empty" => (Where(k, f, c) <=> ~SqlIsSet(c))
         /\ Op(f) = "is_not_empty" => (Where(k, f, c) <=> SqlIsSet(c))
<1>1. ASSUME Op(f) = "is_empty" PROVE Where(k, f, c) <=> ~SqlIsSet(c)
  BY <1>1, SameOperator DEF Where, NoOperand
<1>2. ASSUME Op(f) = "is_not_empty" PROVE Where(k, f, c) <=> SqlIsSet(c)
  BY <1>2, SameOperator DEF Where, NoOperand
<1> QED BY <1>1, <1>2

LEMMA WhereByOperator ==
  ASSUME NEW k \in Kinds, NEW f \in Conditions(k), NEW c, ~Waits(k, f),
         NEW lo, lo = Resolved(k, f).value, NEW hi, hi = Resolved(k, f).value2
  PROVE  /\ Op(f) = "is" =>
                (Where(k, f, c) <=> SqlIs(k, c, ServerValues(k, f)))
         /\ Op(f) = "is_not" =>
                (Where(k, f, c) <=> ~SqlIs(k, c, ServerValues(k, f)))
         /\ Op(f) = "contains" => (Where(k, f, c) <=> SqlLike(c, lo))
         /\ Op(f) = "gt" => (Where(k, f, c) <=> SqlMore(c, lo))
         /\ Op(f) = "lt" => (Where(k, f, c) <=> SqlLess(c, lo))
         /\ Op(f) = "between" =>
                (Where(k, f, c) <=> /\ ~SqlLess(c, lo) /\ ~SqlMore(c, hi)
                                   /\ c # NoValue)
BY SameOperator DEF Where, Waits, ServerValues

LEMMA MatchesByOperator ==
  ASSUME NEW k, NEW f, NEW c
  PROVE  /\ Op(f) = "is_empty" => (Matches(k, f, c) <=> IsEmptyVal(c))
         /\ Op(f) = "is_not_empty" => (Matches(k, f, c) <=> ~IsEmptyVal(c))
         /\ Op(f) = "is" =>
                (Matches(k, f, c) <=> HoldsAny(k, c, BrowserValues(k, f)))
         /\ Op(f) = "is_not" =>
                (Matches(k, f, c) <=> ~HoldsAny(k, c, BrowserValues(k, f)))
         /\ Op(f) = "contains" => (Matches(k, f, c) <=> Includes(c, f.value))
BY DEF Matches, BrowserValues, Live

LEMMA MatchesBounds ==
  ASSUME NEW k, NEW f, NEW c, NEW lo, NEW hi,
         lo = CHOOSE v \in Resolve(k, f.value) : TRUE,
         hi = CHOOSE v \in Resolve(k, f.value2) : TRUE
  PROVE  /\ Op(f) = "gt" => (Matches(k, f, c) <=> Compare(k, c, lo) > 0)
         /\ Op(f) = "lt" => (Matches(k, f, c) <=> Compare(k, c, lo) < 0)
         /\ Op(f) = "between" =>
                (Matches(k, f, c) <=> /\ c.text # ""
                                     /\ ~(Compare(k, c, lo) < 0)
                                     /\ ~(Compare(k, c, hi) > 0))
BY DEF Matches

-----------------------------------------------------------------------------
(* The two readings pick the same rows, operator by operator. *)
LEMMA SameForEmpty ==
  ASSUME NEW k \in Kinds, NEW c \in Stored(k), NEW f \in Conditions(k),
         Op(f) \in NoOperand, c # Box("false")
  PROVE  Where(k, f, c) <=> Matches(k, f, c)
<1>1. SqlIsSet(c) <=> ~IsEmptyVal(c)
  BY DEF SqlIsSet, IsEmptyVal
<1>2. CASE Op(f) = "is_empty"
  <2>1. Where(k, f, c) <=> ~SqlIsSet(c)
    BY <1>2, WhereIsEmpty
  <2>2. Matches(k, f, c) <=> IsEmptyVal(c)
    BY <1>2, MatchesByOperator
  <2> QED BY <1>1, <2>1, <2>2
<1>3. CASE Op(f) = "is_not_empty"
  <2>1. Where(k, f, c) <=> SqlIsSet(c)
    BY <1>3, WhereIsEmpty
  <2>2. Matches(k, f, c) <=> ~IsEmptyVal(c)
    BY <1>3, MatchesByOperator
  <2> QED BY <1>1, <2>1, <2>2
<1> QED BY <1>2, <1>3 DEF NoOperand

LEMMA SameForEquality ==
  ASSUME NEW k \in Kinds, NEW c \in Stored(k), NEW f \in Conditions(k),
         Op(f) \in {"is", "is_not"}, IsArmed(k, f),
         ~KnownToDiffer(k, f, c)
  PROVE  Where(k, f, c) <=> Matches(k, f, c)
<1> DEFINE vals == ServerValues(k, f)
<1>1. /\ vals = BrowserValues(k, f) /\ vals # {}
      /\ {"", "today-"} \cap vals = {}
      /\ {Resolved(k, f).value, Resolved(k, f).value2} \cap Unfinished = {}
      /\ k = "number" => vals \subseteq Elements(Numerals)
      /\ k = "checkbox" => vals \subseteq {"true", "false"}
      /\ \/ vals \cap {"true", "false"} = {}
         \/ FilterValues(f) \cap {"true", "false"} # {}
  BY SameValues
<1>2. k # "checkbox" => vals \cap {"true", "false"} = {}
  BY <1>1 DEF KnownToDiffer
<1>3. ~Waits(k, f)
  BY <1>1 DEF Waits
<1> HIDE DEF vals
<1>4. SqlIs(k, c, vals) <=> HoldsAny(k, c, vals)
  BY <1>1, <1>2, SameIs
<1>5. CASE Op(f) = "is"
  <2>1. Where(k, f, c) <=> SqlIs(k, c, vals)
    BY <1>3, <1>5, WhereByOperator DEF vals
  <2>2. Matches(k, f, c) <=> HoldsAny(k, c, vals)
    BY <1>1, <1>5, MatchesByOperator
  <2> QED BY <1>4, <2>1, <2>2
<1>6. CASE Op(f) = "is_not"
  <2>1. Where(k, f, c) <=> ~SqlIs(k, c, vals)
    BY <1>3, <1>6, WhereByOperator DEF vals
  <2>2. Matches(k, f, c) <=> ~HoldsAny(k, c, vals)
    BY <1>1, <1>6, MatchesByOperator
  <2> QED BY <1>4, <2>1, <2>2
<1> QED BY <1>5, <1>6

LEMMA SameForContains ==
  ASSUME NEW k \in Kinds, NEW c \in Stored(k), NEW f \in Conditions(k),
         Op(f) = "contains", IsArmed(k, f), ~KnownToDiffer(k, f, c)
  PROVE  Where(k, f, c) <=> Matches(k, f, c)
<1>1. /\ f.op = "contains" /\ f.values = {} /\ f.value2 = ""
      /\ k \in {"text", "person"}
  <2>1. f.op = "contains"
    BY DEF Op
  <2>2. f.op \in OpsFor(k) /\ f.values = {} /\ f.value2 = ""
    BY <2>1, ShapesOfConditions DEF NoOperand
  <2> QED BY <2>1, <2>2, OperatorsOfKinds
<1>2. Resolved(k, f) = f
  BY <1>1 DEF Resolved
<1>3. FilterValues(f) = {f.value} \ {""}
  BY <1>1 DEF FilterValues
<1>4. \E v \in FilterValues(f) : LiveValue(k, v, Op(f))
  BY <1>1 DEF IsArmed, NoOperand, Op
<1>5. f.value # "" /\ f.value \notin Unfinished
  BY <1>1, <1>3, <1>4 DEF LiveValue
<1>6. ~Waits(k, f)
  BY <1>1, <1>2, <1>3, <1>5 DEF Waits, ServerValues, Unfinished
<1>7. SqlLike(c, f.value) <=> Includes(c, f.value)
  <2>1. \A t \in Texted(c) \cup {f.value} : AsciiFold[t] = LowerCase[t]
    BY <1>3, <1>5 DEF KnownToDiffer
  <2>2. c.json = "array" => c.items \subseteq Texts
    <3>1. \/ c.json # "array"
          \/ \E s \in SUBSET People : c = List(s)
      <4>1. \/ c = NoValue \/ \E t : c = String(t)
            \/ \E s \in SUBSET People : c = List(s)
        BY <1>1, CellsOfKinds
      <4>2. NoValue.json # "array" /\ \A t : String(t).json # "array"
        BY Cells
      <4> QED BY <4>1, <4>2
    <3>2. \A s : List(s).items = s
      BY Cells
    <3> QED BY <3>1, <3>2 DEF Texts
  <2>3. c.text \in Texts => c.text \in Texted(c)
    BY DEF Texted
  <2>4. c.json = "array" => c.items \subseteq Texted(c)
    BY <2>2 DEF Texted
  <2> QED BY <2>1, <2>3, <2>4 DEF SqlLike, Includes
<1>8. Where(k, f, c) <=> SqlLike(c, f.value)
  BY <1>2, <1>6, WhereByOperator
<1>9. Matches(k, f, c) <=> Includes(c, f.value)
  BY MatchesByOperator
<1> QED BY <1>7, <1>8, <1>9

LEMMA SameForBounds ==
  ASSUME NEW k \in Kinds, NEW c \in Stored(k), NEW f \in Conditions(k),
         Op(f) \in {"gt", "lt", "between"}, IsArmed(k, f),
         ~KnownToDiffer(k, f, c)
  PROVE  Where(k, f, c) <=> Matches(k, f, c)
<1> DEFINE lo == Bound(k, f.value)
           hi == Bound(k, f.value2)
<1>1. /\ f.op = Op(f) /\ f.values = {} /\ f.op \in OpsFor(k)
      /\ f.value \in Inputs(k)
      /\ f.op = "between" => f.value2 \in Inputs(k)
      /\ f.op # "between" => f.value2 = ""
  BY ShapesOfConditions DEF Op, NoOperand
<1>2. k \in {"number", "date"}
  BY <1>1, OperatorsOfKinds
<1>3. f.value # "" /\ LiveValue(k, f.value, f.op)
  BY <1>1 DEF IsArmed, FilterValues, NoOperand
<1>4. f.op = "between" => f.value2 # "" /\ LiveValue(k, f.value2, f.op)
  BY <1>1 DEF IsArmed, NoOperand
<1>5. /\ lo \in Elements(Order(k)) /\ lo \notin {"", "today-"}
      /\ (CHOOSE x \in Resolve(k, f.value) : TRUE) = lo
  <2>1. f.op \in {"gt", "lt", "between"}
    BY <1>1
  <2> QED BY <1>1, <1>2, <1>3, <2>1, SameBound, ZenonT(40)
<1>6. f.op = "between" =>
          /\ hi \in Elements(Order(k)) /\ hi \notin {"", "today-"}
          /\ (CHOOSE x \in Resolve(k, f.value2) : TRUE) = hi
  <2> SUFFICES ASSUME f.op = "between"
               PROVE  /\ hi \in Elements(Order(k)) /\ hi \notin {"", "today-"}
                      /\ (CHOOSE x \in Resolve(k, f.value2) : TRUE) = hi
    OBVIOUS
  <2>1. f.value2 \in Inputs(k) /\ f.value2 # "" /\ LiveValue(k, f.value2, f.op)
    BY <1>1, <1>4
  <2> QED BY <1>2, <2>1, SameBound
<1>7. /\ Resolved(k, f).value = lo /\ Resolved(k, f).value2 = hi
      /\ Resolved(k, f).values = {}
  BY <1>1, <1>2 DEF Resolved, Condition, Bound, NoOperand
<1>8. f.op # "between" => hi = ""
  BY <1>1, DayOfAWord DEF Bound
<1> HIDE DEF lo, hi
<1>9. ~Waits(k, f)
  BY <1>1, <1>5, <1>6, <1>7, <1>8
     DEF Waits, ServerValues, FilterValues, Unfinished
<1>10. /\ SqlMore(c, lo) <=> (Compare(k, c, lo) > 0)
       /\ c # NoValue => (SqlLess(c, lo) <=> (Compare(k, c, lo) < 0))
       /\ c.text = "" => Compare(k, c, lo) < 0
  BY <1>2, <1>5, SameCompare
<1>11. CASE Op(f) = "gt"
  BY <1>5, <1>7, <1>9, <1>10, <1>11, WhereByOperator, MatchesBounds
<1>12. CASE Op(f) = "lt"
  <2>1. c # NoValue
    BY <1>12 DEF KnownToDiffer
  <2> QED BY <1>5, <1>7, <1>9, <1>10, <1>12, <2>1, WhereByOperator,
             MatchesBounds
<1>13. CASE Op(f) = "between"
  <2>1. SqlMore(c, hi) <=> (Compare(k, c, hi) > 0)
    BY <1>1, <1>2, <1>6, <1>13, SameCompare
  <2>2. c = NoValue => c.text = ""
    BY Cells
  <2>3. Where(k, f, c) <=> /\ ~SqlLess(c, lo) /\ ~SqlMore(c, hi)
                           /\ c # NoValue
    BY <1>7, <1>9, <1>13, WhereByOperator
  <2>4. Matches(k, f, c) <=> /\ c.text # "" /\ ~(Compare(k, c, lo) < 0)
                             /\ ~(Compare(k, c, hi) > 0)
    BY <1>1, <1>5, <1>6, <1>13, MatchesBounds
  <2> QED BY <1>10, <2>1, <2>2, <2>3, <2>4
<1> QED BY <1>11, <1>12, <1>13

(* For every condition a person can build and whatever has been stored. *)
LEMMA ReadingsAgree ==
  ASSUME NEW k \in Kinds, NEW c \in Stored(k), NEW f \in Conditions(k),
         IsArmed(k, f), ~KnownToDiffer(k, f, c)
  PROVE  Where(k, f, c) <=> Matches(k, f, c)
<1>1. Op(f) \in NoOperand \cup {"is", "is_not", "contains", "gt", "lt",
                               "between"}
  BY ShapesOfConditions, OperatorsOfKinds DEF Op, NoOperand
<1>2. CASE Op(f) \in NoOperand
  BY <1>2, SameForEmpty DEF KnownToDiffer
<1>3. CASE Op(f) \in {"is", "is_not"}
  BY <1>3, SameForEquality
<1>4. CASE Op(f) = "contains"
  BY <1>4, SameForContains
<1>5. CASE Op(f) \in {"gt", "lt", "between"}
  BY <1>5, SameForBounds
<1> QED BY <1>1, <1>2, <1>3, <1>4, <1>5

(* The server and the browser pick the same rows for every condition a     *)
(* person can build, on every kind of property, whatever has been stored   *)
(* under it, but for those KnownToDiffer names (rowFilter.where,           *)
(* matchesFilter): for all words, numerals, days and accounts.             *)
THEOREM ReadingsAgreeOnRows == Spec => []SameRows
<1>1. TypeOK => SameRows
  <2> SUFFICES ASSUME TypeOK, NEW p \in Has(schema),
                      row[p] \in Stored(schema[p]),
                      NEW f \in Conditions(schema[p]), IsArmed(schema[p], f),
                      ~KnownToDiffer(schema[p], f, row[p])
               PROVE  Where(schema[p], f, row[p])
                         <=> Matches(schema[p], f, row[p])
    BY DEF SameRows
  <2>1. schema[p] \in Kinds
    BY DEF TypeOK, Schema, Has
  <2> QED BY <2>1, ReadingsAgree
<1> QED BY TypeInvariant, <1>1, PTL
=============================================================================
