------------------------------ MODULE Filters ------------------------------
(***************************************************************************)
(* The two readings of one condition on a property of a database: the SQL  *)
(* the server filters the rows with (rowFilter.where in collections.go,    *)
(* resolveDates in smartdate.go), and the second pass of the browser over  *)
(* the rows it was sent (matchesFilter in collectionFilters.ts). They are  *)
(* written in two languages and have to pick the same rows.                *)
(*                                                                         *)
(* A text is one of a few words, numerals and days. Left out: relations    *)
(* (they are stored and compared as a multi-select is), computed columns,  *)
(* numerals that write one number in two ways, the wildcards of LIKE, and  *)
(* that it sees the brackets and commas of a list as well.                 *)
(***************************************************************************)
EXTENDS Integers, Sequences, FiniteSets

CONSTANTS
    Words,       \* texts and ids of options
    Parts,       \* the texts a word contains
    AsciiFold,   \* a word with its capitals from A to Z made small
    LowerCase,   \* a word with all its capitals made small
    Numerals,    \* numbers as they are written, in their order
    Days,        \* days as they are written, in their order
    Today,       \* the day it is for the viewer
    People,      \* ids and names of accounts
    Mine         \* those of the viewer

Elements(s) == {s[i] : i \in DOMAIN s}

(* What "contains" looks into and for: words, and who an account is. *)
Texts == Words \cup People

ASSUME PartsAssumption == Parts \in [Texts -> SUBSET Texts]
ASSUME FoldAssumption ==
    AsciiFold \in [Texts -> Texts] /\ LowerCase \in [Texts -> Texts]
ASSUME TodayAssumption == Today \in Elements(Days)
ASSUME MineAssumption == Mine \subseteq People /\ Mine # {}

(* No text here is empty, and a day is told from a numeral. Left out:      *)
(* accounts called by a word that stands for something else.               *)
ASSUME TextsAssumption ==
    /\ Numerals \in Seq(Elements(Numerals)) /\ Days \in Seq(Elements(Days))
    /\ "" \notin Words \cup Elements(Numerals) \cup Elements(Days) \cup People
    /\ Elements(Days) \cap (Elements(Numerals) \cup {"today-", "true", "false"})
       = {}
    /\ People \cap {"@me", "today-", "true", "false"} = {}

Kinds == {"text", "select", "number", "checkbox", "multiselect", "date",
          "person"}

-----------------------------------------------------------------------------
(* What a cell holds: JSON, as far as a comparison tells it apart.         *)

Value(json, text, items) == [json |-> json, text |-> text, items |-> items]
NoValue == Value("none", "", {})
String(t) == Value("string", t, {})
Number(t) == Value("number", t, {})
Box(b) == Value(b, b, {})
List(s) == Value("array", "", s)

(* What the cell editors and the agents store under a property's type.     *)
Stored(kind) ==
    {NoValue} \cup
    CASE kind \in {"text", "select"} -> {String(t) : t \in Words \cup {""}}
      [] kind = "number" -> {Number(t) : t \in Elements(Numerals)}
                            \cup {String(t) : t \in Elements(Numerals)}
      [] kind = "checkbox" -> {Box("true"), Box("false")}
      [] kind = "multiselect" -> {List(s) : s \in SUBSET Words}
      [] kind = "date" -> {String(t) : t \in Elements(Days) \cup {""}}
      [] kind = "person" -> {String(t) : t \in People \cup {""}}
                            \cup {List(s) : s \in SUBSET People}

Values == UNION {Stored(k) : k \in Kinds}

-----------------------------------------------------------------------------
(* The conditions the interface lets a person build.                       *)

NoOperand == {"is_empty", "is_not_empty"}

(* takesSeveral *)
TakesSeveral(kind) == kind \in {"select", "multiselect", "person"}

(* opsFor; an old view has conditions without an operator. *)
OpsFor(kind) ==
    {"", "is", "is_not"} \cup NoOperand \cup
    CASE kind \in {"number", "date"} -> {"gt", "lt", "between"}
      [] kind \in {"text", "person"} -> {"contains"}
      [] OTHER -> {}

(* A relative day that is being typed, and one that is no day at all. *)
Unfinished == {"today-"}
NoDay == {"todya"}

Inputs(kind) ==
    {""} \cup
    CASE kind = "number" -> Elements(Numerals)
      [] kind = "date" -> Elements(Days) \cup {"today"} \cup Unfinished
                          \cup NoDay
      [] kind = "checkbox" -> {"true", "false"}
      [] kind = "person" -> People
      [] OTHER -> Words \cup Unfinished

Choices(kind) == IF kind = "person" THEN People \cup {"@me"} ELSE Words

Condition(op, value, values, value2) ==
    [op |-> op, value |-> value, values |-> values, value2 |-> value2]

Shape(ops, value, values, value2) ==
    [op : ops, value : value, values : values, value2 : value2]

(* The operators that take a set. *)
SetOps(kind) == IF TakesSeveral(kind) THEN {"is", "is_not"} ELSE {}

Conditions(kind) ==
    LET in == Inputs(kind)
        rest == OpsFor(kind) \ (NoOperand \cup {"between"} \cup SetOps(kind))
    IN  Shape(NoOperand, {""}, {{}}, {""})
        \cup Shape(OpsFor(kind) \cap {"between"}, in, {{}}, in)
        \cup Shape(SetOps(kind), {""}, SUBSET Choices(kind), {""})
        \cup Shape(rest, in, {{}}, {""})

(* The operator that stands for none. *)
Op(f) == IF f.op # "" THEN f.op
         ELSE IF f.value = "" THEN "is_not_empty" ELSE "is"

(* filterValues, rowFilter.vals: the set if there is one, else the value. *)
FilterValues(f) == IF f.values # {} THEN f.values ELSE {f.value} \ {""}

(* resolveSmartDate, with "" for what names no day. *)
Day(v) == IF v = "today" THEN Today
          ELSE IF v \in Elements(Days) THEN v ELSE ""

Rank(s, t) == IF t \in Elements(s) THEN CHOOSE i \in DOMAIN s : s[i] = t ELSE 0

-----------------------------------------------------------------------------
(* The server.                                                             *)

(* resolveDates, resolvePerson *)
Resolved(kind, f) ==
    CASE kind = "date" /\ f.op \notin NoOperand \cup {"contains"} ->
             Condition(IF f.op = "" /\ f.value # "" THEN "is" ELSE f.op,
                       Day(f.value), {Day(v) : v \in f.values} \ {""},
                       Day(f.value2))
      [] kind = "person" /\ f.op \in {"", "is", "is_not"} ->
             Condition(f.op, f.value,
                       IF "@me" \in f.values
                       THEN (f.values \ {"@me"}) \cup Mine ELSE f.values,
                       f.value2)
      [] OTHER -> f

(* Mistake: a box nobody has touched is NULL, and drops out of every test. *)
UntickedIfStored(c) == c.json = "false"

(* COALESCE: a box nobody has touched counts as unticked. *)
Unticked(c) == c.json # "true"

(* typedIs, and where it does not apply the comparison as text. *)
SqlIs(kind, c, vals) ==
    CASE kind = "number" /\ vals \cap Elements(Numerals) # {} ->
             c.json \in {"number", "string"} /\ c.text \in vals
      [] kind = "checkbox" /\ vals \cap {"true", "false"} # {} ->
             \/ "true" \in vals /\ c.json = "true"
             \/ "false" \in vals /\ Unticked(c)
      [] OTHER -> \/ c.json = "string" /\ c.text \in vals
                  \/ c.json = "array" /\ c.items \cap vals # {}

SqlIsSet(c) == c \notin {NoValue, String(""), List({})}

Contains(text, part) == text = part \/ (text \in Texts /\ part \in Parts[text])

(* LIKE, on the text or on the items of a list: for SQLite only the letters *)
(* from A to Z are the same large and small.                               *)
SqlLike(c, part) ==
    \/ c.json = "string" /\ c.text \in Texts
       /\ Contains(AsciiFold[c.text], AsciiFold[part])
    \/ c.json = "array"
       /\ \E t \in c.items : Contains(AsciiFold[t], AsciiFold[part])

(* As numbers when the operand is one, else as text; NULL compares with    *)
(* nothing.                                                                *)
SqlLess(c, v) ==
    c # NoValue /\ IF v \in Elements(Numerals)
                   THEN Rank(Numerals, c.text) < Rank(Numerals, v)
                   ELSE Rank(Days, c.text) < Rank(Days, v)

SqlMore(c, v) ==
    c # NoValue /\ IF v \in Elements(Numerals)
                   THEN Rank(Numerals, c.text) > Rank(Numerals, v)
                   ELSE Rank(Days, c.text) > Rank(Days, v)

(* where: whether the condition lets a row with this cell through. What    *)
(* has nothing to compare with does not filter.                            *)
Where(kind, asked, c) ==
    LET f == Resolved(kind, asked)
        op == Op(f)
        vals == FilterValues(f) \ Unfinished
        waits == /\ op \notin NoOperand
                 /\ \/ {f.value, f.value2} \cap Unfinished # {}
                    \/ vals = {}
                    \/ op = "between" /\ f.value2 = ""
    IN  CASE op = "is_empty" -> ~SqlIsSet(c)
          [] op = "is_not_empty" -> SqlIsSet(c)
          [] waits -> TRUE
          [] op = "is" -> SqlIs(kind, c, vals)
          [] op = "is_not" -> ~SqlIs(kind, c, vals)
          [] op = "contains" -> SqlLike(c, f.value)
          [] op = "gt" -> SqlMore(c, f.value)
          [] op = "lt" -> SqlLess(c, f.value)
          [] op = "between" -> ~SqlLess(c, f.value) /\ ~SqlMore(c, f.value2)
                               /\ c # NoValue

-----------------------------------------------------------------------------
(* The browser.                                                            *)

(* liveValue *)
LiveValue(kind, v, op) ==
    IF kind = "date" /\ op # "contains"
    THEN v \in Elements(Days) \cup {"today"} ELSE v \notin Unfinished

(* filterIsArmed: only such a condition is sent. *)
IsArmed(kind, f) ==
    \/ Op(f) \in NoOperand
    \/ /\ Op(f) = "between" /\ f.value # "" /\ f.value2 # ""
       /\ LiveValue(kind, f.value, "between")
       /\ LiveValue(kind, f.value2, "between")
    \/ /\ Op(f) # "between"
       /\ \E v \in FilterValues(f) : LiveValue(kind, v, Op(f))

(* isEmptyVal *)
IsEmptyVal(c) == c \in {NoValue, String(""), List({}), Box("false")}

Resolve(kind, v) ==
    CASE kind = "person" /\ v = "@me" -> Mine
      [] kind = "date" /\ Day(v) # "" -> {Day(v)}
      [] OTHER -> {v}

(* holdsAny *)
HoldsAny(kind, c, vals) ==
    CASE c.json = "array" -> c.items \cap vals # {}
      [] kind = "number" /\ c \notin {NoValue, String("")} -> c.text \in vals
      [] OTHER -> \/ c.json = "true" /\ "true" \in vals
                  \/ c.json # "true" /\ "false" \in vals
                  \/ /\ c.json \in {"string", "number", "none"}
                     /\ c.text \in vals \ {"true", "false"}

(* toLowerCase and includes, on the text or on the items of a list: every  *)
(* letter is the same large and small.                                     *)
Includes(c, part) ==
    \/ c.json = "string" /\ c.text \in Texts
       /\ Contains(LowerCase[c.text], LowerCase[part])
    \/ c.json = "array"
       /\ \E t \in c.items : Contains(LowerCase[t], LowerCase[part])

(* Numbers as numbers, all else by its text: no value is the empty text. *)
Order(kind) == IF kind = "number" THEN Numerals ELSE Days

Compare(kind, c, v) == Rank(Order(kind), c.text) - Rank(Order(kind), v)

(* matchesFilter, for a condition that is armed *)
Matches(kind, f, c) ==
    LET op == Op(f)
        vals == UNION {Resolve(kind, v) :
                       v \in {x \in FilterValues(f) : LiveValue(kind, x, op)}}
        value == CHOOSE v \in Resolve(kind, f.value) : TRUE
        value2 == CHOOSE v \in Resolve(kind, f.value2) : TRUE
    IN  CASE op = "is_empty" -> IsEmptyVal(c)
          [] op = "is_not_empty" -> ~IsEmptyVal(c)
          [] op = "is" -> HoldsAny(kind, c, vals)
          [] op = "is_not" -> ~HoldsAny(kind, c, vals)
          [] op = "contains" -> Includes(c, f.value)
          [] op = "gt" -> Compare(kind, c, value) > 0
          [] op = "lt" -> Compare(kind, c, value) < 0
          [] op = "between" -> /\ c.text # ""
                               /\ ~(Compare(kind, c, value) < 0)
                               /\ ~(Compare(kind, c, value2) > 0)
=============================================================================
