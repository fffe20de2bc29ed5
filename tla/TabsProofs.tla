----------------------------- MODULE TabsProofs -----------------------------
(***************************************************************************)
(* The open tabs and the browser's history, proved for any documents and   *)
(* rows, any tabs an earlier session left and any number of events.        *)
(*                                                                         *)
(* What the handlers do to a list of tabs comes first: no page is twice in *)
(* what they return, and what is in it. Then three invariants: the mirrors *)
(* lag only behind what is marked as dirty; every entry of the history is  *)
(* of a piece; what was never in the trash is known to live, by all that   *)
(* is told of it.                                                          *)
(***************************************************************************)
EXTENDS Tabs, FiniteSetTheorems, SequenceTheorems, WellFoundedInduction,
        TLAPS

-----------------------------------------------------------------------------
(* Lists.                                                                  *)

(* A set of numbers has a least. *)
LEMMA LeastOf ==
  ASSUME NEW S \in SUBSET Nat, S # {}
  PROVE  \E m \in S : \A n \in S : m <= n
<1> DEFINE R == OpToRel(<, Nat)
<1>1. IsWellFoundedOn(R, Nat)
  BY NatLessThanWellFounded
<1>2. PICK m \in S : \A n \in S : ~ (<<n, m>> \in R)
  BY <1>1, WFMin, Zenon
<1>3. \A n \in S : ~ (n < m)
  BY <1>2 DEF OpToRel
<1> HIDE DEF R
<1> QED BY <1>3

LEMMA InAList ==
  ASSUME NEW s \in Seq(Pages)
  PROVE  /\ Len(s) \in Nat /\ DOMAIN s = 1..Len(s)
         /\ \A i \in DOMAIN s : s[i] \in Pages
         /\ In(s) \subseteq Pages
BY DEF In

(* find returns something that was looked for, or nothing. *)
LEMMA FirstOfIsOne ==
  ASSUME NEW s \in Seq(Pages), NEW S
  PROVE  FirstOf(s, S) \in (In(s) \cap S) \cup {Nil}
<1> DEFINE at == {i \in DOMAIN s : s[i] \in S}
<1>1. CASE at = {}
  BY <1>1 DEF FirstOf
<1>2. CASE at # {}
  <2>1. at \subseteq Nat
    BY InAList
  <2>2. \E i \in at : \A j \in at : i <= j
    BY <1>2, <2>1, LeastOf
  <2> DEFINE k == CHOOSE i \in at : \A j \in at : i <= j
  <2>3. k \in at
    BY <2>2
  <2>4. FirstOf(s, S) = s[k]
    BY <1>2 DEF FirstOf
  <2> HIDE DEF k
  <2> QED BY <2>3, <2>4 DEF In
<1> QED BY <1>1, <1>2

(* filter returns a list, in which is what was in the list and is kept. *)
LEMMA KeptIsAList ==
  ASSUME NEW s \in TabLists, NEW S
  PROVE  Kept(s, S) \in TabLists /\ In(Kept(s, S)) = In(s) \cap S
<1> DEFINE at == {i \in DOMAIN s : s[i] \in S}
           n == Cardinality(at)
           rank == [i \in at |-> Cardinality(at \cap 1..i)]
           place(k) == CHOOSE i \in at : Cardinality(at \cap 1..i) = k
<1>1. s \in Seq(Pages) /\ Len(s) \in Nat /\ DOMAIN s = 1..Len(s)
  BY InAList DEF TabLists
<1>2. IsFiniteSet(at) /\ n \in Nat
  <2>1. IsFiniteSet(1..Len(s))
    BY <1>1, FS_Interval
  <2> QED BY <1>1, <2>1, FS_Subset, FS_CardinalityType
<1>3. \A i \in at : IsFiniteSet(at \cap 1..i) /\ rank[i] \in 1..n
  <2> SUFFICES ASSUME NEW i \in at
               PROVE  IsFiniteSet(at \cap 1..i) /\ rank[i] \in 1..n
    OBVIOUS
  <2>1. /\ IsFiniteSet(at \cap 1..i)
        /\ Cardinality(at \cap 1..i) <= n
        /\ Cardinality(at \cap 1..i) \in Nat
    BY <1>2, FS_Subset, FS_CardinalityType
  <2>2. i \in at \cap 1..i
    BY <1>1
  <2>3. Cardinality(at \cap 1..i) # 0
    BY <2>1, <2>2, FS_EmptySet
  <2> QED BY <1>2, <2>1, <2>3
<1>4. \A i, j \in at : i < j => rank[i] # rank[j]
  <2> SUFFICES ASSUME NEW i \in at, NEW j \in at, i < j
               PROVE  rank[i] # rank[j]
    OBVIOUS
  <2>1. at \cap 1..i \in SUBSET (at \cap 1..j)
    BY <1>1
  <2>2. j \in at \cap 1..j /\ j \notin at \cap 1..i
    BY <1>1
  <2>3. Cardinality(at \cap 1..i) # Cardinality(at \cap 1..j)
    BY <1>3, <2>1, <2>2, FS_Subset
  <2> QED BY <2>3
<1>5. rank \in Injection(at, 1..n)
  <2>1. rank \in [at -> 1..n]
    BY <1>3
  <2>2. ASSUME NEW i \in at, NEW j \in at, rank[i] = rank[j]
        PROVE  i = j
    <3>1. i \in Nat /\ j \in Nat
      BY <1>1
    <3>2. ~ (i < j) /\ ~ (j < i)
      BY <1>4, <2>2
    <3> QED BY <3>1, <3>2
  <2>3. DOMAIN rank = at
    OBVIOUS
  <2> HIDE DEF rank, n, at
  <2> QED BY <2>1, <2>2, <2>3 DEF Injection, IsInjective
<1>6. rank \in Surjection(at, 1..n)
  <2>1. IsFiniteSet(1..n) /\ Cardinality(1..n) = n
    BY <1>2, FS_Interval
  <2> HIDE DEF rank
  <2> QED BY <1>5, <2>1, FS_Injection
<1>7. \A k \in 1..n : place(k) \in at /\ rank[place(k)] = k
  <2> SUFFICES ASSUME NEW k \in 1..n
               PROVE  place(k) \in at /\ rank[place(k)] = k
    OBVIOUS
  <2>1. \E i \in at : rank[i] = k
    BY <1>6 DEF Surjection
  <2>2. \E i \in at : Cardinality(at \cap 1..i) = k
    BY <2>1
  <2> QED BY <2>2
<1>8. \A i \in at : place(rank[i]) = i
  BY <1>3, <1>4, <1>1, <1>7
<1>9. Kept(s, S) = [k \in 1..n |-> s[place(k)]]
  BY DEF Kept
<1> HIDE DEF n, rank, place
<1>10. Kept(s, S) \in Seq(Pages)
  BY <1>1, <1>2, <1>7, <1>9, InAList
<1>11. DOMAIN Kept(s, S) = 1..n
  BY <1>9
<1>12. ASSUME NEW k \in 1..n, NEW l \in 1..n, s[place(k)] = s[place(l)]
       PROVE  k = l
  <2>1. place(k) = place(l)
    BY <1>7, <1>12 DEF TabLists
  <2> QED BY <1>7, <2>1
<1>13. Kept(s, S) \in TabLists
  BY <1>9, <1>10, <1>11, <1>12 DEF TabLists
<1>14. In(Kept(s, S)) \subseteq In(s) \cap S
  BY <1>7, <1>9, <1>11 DEF In
<1>15. ASSUME NEW i \in at PROVE s[i] \in In(Kept(s, S))
  <2>1. rank[i] \in 1..n /\ place(rank[i]) = i
    BY <1>3, <1>8
  <2>2. Kept(s, S)[rank[i]] = s[i]
    BY <1>9, <2>1
  <2> QED BY <1>11, <2>1, <2>2 DEF In
<1>16. In(s) \cap S \subseteq In(Kept(s, S))
  BY <1>15 DEF In
<1> QED BY <1>13, <1>14, <1>16

(* filter without one page: the others stay. *)
LEMMA WithoutIsAList ==
  ASSUME NEW s \in TabLists, NEW p
  PROVE  Without(s, p) \in TabLists /\ In(Without(s, p)) = In(s) \ {p}
<1>1. In(s) \subseteq Pages
  BY InAList DEF TabLists
<1> QED BY <1>1, KeptIsAList DEF Without

(* A page that is in no tab gets one more. *)
LEMMA AppendedIsAList ==
  ASSUME NEW s \in TabLists, NEW p \in Pages, p \notin In(s)
  PROVE  Append(s, p) \in TabLists /\ In(Append(s, p)) = In(s) \cup {p}
<1>1. /\ s \in Seq(Pages) /\ Len(s) \in Nat /\ DOMAIN s = 1..Len(s)
      /\ \A i \in DOMAIN s : s[i] \in Pages /\ s[i] # p
  BY InAList DEF TabLists, In
<1> DEFINE t == Append(s, p)
<1>2. /\ t \in Seq(Pages) /\ DOMAIN t = 1..(Len(s) + 1)
      /\ \A i \in 1..Len(s) : t[i] = s[i]
      /\ t[Len(s) + 1] = p
  BY <1>1
<1> HIDE DEF t
<1>3. t \in TabLists
  BY <1>1, <1>2 DEF TabLists
<1>4. In(t) = In(s) \cup {p}
  <2>1. In(t) \subseteq In(s) \cup {p}
    BY <1>1, <1>2 DEF In
  <2>2. ASSUME NEW i \in DOMAIN s PROVE s[i] \in In(t)
    BY <1>1, <1>2 DEF In
  <2>3. p \in In(t)
    BY <1>1, <1>2 DEF In
  <2> QED BY <2>1, <2>2, <2>3 DEF In
<1> QED BY <1>3, <1>4 DEF t

(* A tab whose page is another now. *)
LEMMA ReplacedIsAList ==
  ASSUME NEW s \in TabLists, NEW p \in Pages, NEW old \in In(s),
         p \notin In(s)
  PROVE  /\ Replaced(s, old, p) \in TabLists
         /\ In(Replaced(s, old, p)) = (In(s) \ {old}) \cup {p}
<1>1. /\ s \in Seq(Pages) /\ Len(s) \in Nat /\ DOMAIN s = 1..Len(s)
      /\ \A i \in DOMAIN s : s[i] \in Pages /\ s[i] # p
  BY InAList DEF TabLists, In
<1> DEFINE t == Replaced(s, old, p)
<1>2. /\ t \in Seq(Pages) /\ DOMAIN t = DOMAIN s
      /\ \A i \in DOMAIN s : t[i] = IF s[i] = old THEN p ELSE s[i]
  BY <1>1 DEF Replaced
<1> HIDE DEF t
<1>3. t \in TabLists
  BY <1>1, <1>2 DEF TabLists
<1>4. In(t) = (In(s) \ {old}) \cup {p}
  BY <1>1, <1>2 DEF In
<1> QED BY <1>3, <1>4 DEF t

(* Where a page opens, it has a tab, and only the active one gives way. *)
LEMMA TabsForIsAList ==
  ASSUME NEW s \in TabLists, NEW active, NEW p \in Pages \cup {Nil}
  PROVE  /\ TabsFor(s, active, p) \in TabLists
         /\ p # Nil => p \in In(TabsFor(s, active, p))
         /\ In(s) \ {active} \subseteq In(TabsFor(s, active, p))
         /\ In(TabsFor(s, active, p)) \subseteq In(s) \cup {p}
         /\ active \notin In(s) => In(s) \subseteq In(TabsFor(s, active, p))
<1>1. CASE p = Nil \/ p \in In(s)
  BY <1>1 DEF TabsFor
<1>2. CASE p # Nil /\ p \notin In(s) /\ active \in In(s)
  BY <1>2, ReplacedIsAList DEF TabsFor
<1>3. CASE p # Nil /\ p \notin In(s) /\ active \notin In(s)
  BY <1>3, AppendedIsAList DEF TabsFor
<1> QED BY <1>1, <1>2, <1>3

(* One more tab to the right of a place. *)
LEMMA InsertedIsAList ==
  ASSUME NEW s \in TabLists, NEW p \in Pages, p \notin In(s),
         NEW k \in 0..Len(s)
  PROVE  LET t == SubSeq(s, 1, k) \o <<p>> \o SubSeq(s, k + 1, Len(s))
         IN  t \in TabLists /\ p \in In(t)
<1>1. /\ s \in Seq(Pages) /\ Len(s) \in Nat /\ DOMAIN s = 1..Len(s)
      /\ \A i \in DOMAIN s : s[i] \in Pages /\ s[i] # p
      /\ k \in Nat
  BY InAList DEF TabLists, In
<1> DEFINE a == SubSeq(s, 1, k)
           b == SubSeq(s, k + 1, Len(s))
           t == (a \o <<p>>) \o b
<1>2. /\ a \in Seq(Pages) /\ Len(a) = k
      /\ \A i \in 1..k : a[i] = s[i]
  BY <1>1
<1>3. /\ b \in Seq(Pages) /\ Len(b) = Len(s) - k
      /\ \A i \in 1..(Len(s) - k) : b[i] = s[i + k]
  <2>1. k + 1 \in Int /\ Len(s) \in Int
    BY <1>1
  <2>2. \A i \in (k + 1)..Len(s) : s[i] \in Pages
    BY <1>1
  <2>3. /\ b \in Seq(Pages)
        /\ Len(b) = IF k + 1 <= Len(s) THEN Len(s) - (k + 1) + 1 ELSE 0
        /\ \A i \in 1..(Len(s) - (k + 1) + 1) : b[i] = s[k + 1 + i - 1]
    BY <2>1, <2>2, SubSeqProperties
  <2> HIDE DEF b
  <2> DEFINE n == Len(s)
  <2>6. n \in Nat /\ k \in Nat /\ k <= n
    BY <1>1
  <2>7. Len(b) = IF k + 1 <= n THEN n - (k + 1) + 1 ELSE 0
    BY <2>3
  <2> HIDE DEF n
  <2>8. Len(b) = n - k /\ n - (k + 1) + 1 = n - k
    BY <2>6, <2>7
  <2>4. Len(b) = Len(s) - k /\ Len(s) - (k + 1) + 1 = Len(s) - k
    BY <2>8 DEF n
  <2>5. ASSUME NEW i \in 1..(Len(s) - k) PROVE b[i] = s[i + k]
    <3>1. k + 1 + i - 1 = i + k
      BY <1>1
    <3> QED BY <2>3, <2>4, <3>1
  <2> QED BY <2>3, <2>4, <2>5
<1> HIDE DEF a, b
<1>4. /\ t \in Seq(Pages) /\ Len(t) = Len(s) + 1
      /\ \A i \in 1..k : t[i] = s[i]
      /\ t[k + 1] = p
      /\ \A i \in (k + 2)..(Len(s) + 1) : t[i] = s[i - 1]
  <2> DEFINE c == a \o <<p>>
  <2>1. /\ c \in Seq(Pages) /\ Len(c) = k + 1
        /\ \A i \in 1..k : c[i] = s[i]
        /\ c[k + 1] = p
    BY <1>1, <1>2
  <2> HIDE DEF c
  <2>2. /\ c \o b \in Seq(Pages)
        /\ Len(c \o b) = Len(c) + Len(b)
        /\ \A i \in 1..(Len(c) + Len(b)) :
              (c \o b)[i] = IF i <= Len(c) THEN c[i] ELSE b[i - Len(c)]
    BY <1>3, <2>1, ConcatProperties
  <2>3. t = c \o b
    BY DEF c
  <2> HIDE DEF t
  <2>4. \A i \in 1..(k + 1) : t[i] = c[i]
    BY <1>1, <1>3, <2>1, <2>2, <2>3
  <2>5. \A i \in (k + 2)..(Len(s) + 1) : t[i] = s[i - 1]
    <3> SUFFICES ASSUME NEW i \in (k + 2)..(Len(s) + 1)
                 PROVE  t[i] = s[i - 1]
      OBVIOUS
    <3>1. t[i] = b[i - (k + 1)]
      BY <1>1, <1>3, <2>1, <2>2, <2>3
    <3>2. i - (k + 1) \in 1..(Len(s) - k)
      BY <1>1
    <3>3. (i - (k + 1)) + k = i - 1
      BY <1>1
    <3> QED BY <1>3, <3>1, <3>2, <3>3
  <2> QED BY <1>1, <1>3, <2>1, <2>2, <2>3, <2>4, <2>5
<1>5. DOMAIN t = 1..(Len(s) + 1)
  BY <1>1, <1>4
<1> HIDE DEF t
<1>6. \A i, j \in DOMAIN t : i < j => t[i] # t[j]
  <2> SUFFICES ASSUME NEW i \in DOMAIN t, NEW j \in DOMAIN t, i < j
               PROVE  t[i] # t[j]
    OBVIOUS
  <2>1. CASE j <= k
    BY <1>1, <1>4, <1>5, <2>1 DEF TabLists
  <2>2. CASE i <= k /\ j = k + 1
    BY <1>1, <1>4, <1>5, <2>2
  <2>3. CASE i <= k /\ j > k + 1
    <3>1. t[i] = s[i] /\ t[j] = s[j - 1] /\ i \in DOMAIN s
            /\ j - 1 \in DOMAIN s /\ i # j - 1
      BY <1>1, <1>4, <1>5, <2>3
    <3> QED BY <3>1 DEF TabLists
  <2>4. CASE i = k + 1
    BY <1>1, <1>4, <1>5, <2>4
  <2>5. CASE i > k + 1
    <3>1. t[i] = s[i - 1] /\ t[j] = s[j - 1] /\ i - 1 \in DOMAIN s
            /\ j - 1 \in DOMAIN s /\ i - 1 # j - 1
      BY <1>1, <1>4, <1>5, <2>5
    <3> QED BY <3>1 DEF TabLists
  <2> QED BY <1>1, <1>5, <2>1, <2>2, <2>3, <2>4, <2>5
<1>7. t \in TabLists
  <2>1. ASSUME NEW i \in DOMAIN t, NEW j \in DOMAIN t, t[i] = t[j]
        PROVE  i = j
    <3>1. i \in Nat /\ j \in Nat /\ ~ (i < j) /\ ~ (j < i)
      BY <1>5, <1>6, <2>1
    <3> QED BY <3>1
  <2> QED BY <1>4, <2>1 DEF TabLists
<1>8. p \in In(t)
  BY <1>1, <1>4, <1>5 DEF In
<1> QED BY <1>7, <1>8 DEF t, a, b

LEMMA NeighbourIsOne ==
  ASSUME NEW s, NEW i
  PROVE  Neighbour(s, i) \in In(s) \cup {Nil}
BY DEF Neighbour, In

-----------------------------------------------------------------------------
(* The inductive invariant.                                                *)

Marked == {"pages", "tabs", "current", "extra"}

(* An entry of the history is of a piece: its address is the page that was *)
(* active, and that page has a tab in it.                                  *)
Entries ==
    {e \in [url : Pages \cup {Nil}, state : State] :
        e.state # Nil => /\ e.url = e.state.active
                         /\ e.url # Nil => e.url \in In(e.state.tabs)}

Typed ==
    /\ status \in [Pages -> {"live", "trashed", "gone"}]
    /\ pages \in [Pages -> {"live", "trashed", "absent"}] \cup {Nil}
    /\ tabsRef \in TabLists /\ activeRef \in Pages \cup {Nil}
    /\ extra \subseteq Pages
    /\ resolving \in [Pages -> {"no", "asked", "live", "trashed", "gone"}]
    /\ job \in [what : {"create", "trash"}, id : Pages, done : BOOLEAN,
                active : Pages \cup {Nil}] \cup {Nil}
    /\ dirty \subseteq Marked
    /\ urgent \in BOOLEAN /\ crossed \in BOOLEAN
    /\ events \in Nat
    /\ ever \subseteq Pages /\ blipped \subseteq Pages

Screen ==
    /\ openTabs \in TabLists /\ currentId \in Pages \cup {Nil}
    /\ history \in Seq(Entries) /\ pos \in DOMAIN history

(* A mirror is behind only of what is to be drawn. *)
Mirrored ==
    /\ "tabs" \notin dirty => tabsRef = openTabs
    /\ "current" \notin dirty => activeRef = currentId

OfAPiece == /\ history[pos].url = currentId
            /\ currentId # Nil => currentId \in In(openTabs)

Whole == ~ crossed => OfAPiece

(* A page that was never in the trash lives, and nothing tells otherwise. *)
Known ==
    /\ \A p \in Pages \ ever :
          /\ status[p] = "live"
          /\ pages # Nil => pages[p] # "trashed"
          /\ resolving[p] \notin {"trashed", "gone"}
    /\ job # Nil /\ (job.what = "create" \/ job.done) => job.id \in ever

IInv == Typed /\ Screen /\ Mirrored /\ Whole /\ Known

LEMMA Starting == Init => IInv
<1> SUFFICES ASSUME Init PROVE IInv
  OBVIOUS
<1>0. Fresh \subseteq Pages /\ Nil \notin Pages
  BY FreshAssumption, PagesAssumption DEF Pages
<1>1. PICK seed \in Starts, url \in Addresses :
          /\ openTabs = IF url = Nil \/ url \in In(seed) THEN seed
                        ELSE Append(seed, url)
          /\ currentId = url
          /\ history = <<Entry(url, Nil)>>
  BY DEF Init
<1>2. seed \in TabLists /\ url \in Pages \cup {Nil}
  BY StartsAssumption
<1>3. openTabs \in TabLists /\ (url # Nil => url \in In(openTabs))
  BY <1>1, <1>2, AppendedIsAList
<1>4. Entry(url, Nil) \in Entries /\ Entry(url, Nil).url = url
  BY <1>2 DEF Entry, Entries, State
<1>5. /\ history \in Seq(Entries) /\ pos \in DOMAIN history
      /\ history[pos] = Entry(url, Nil)
  BY <1>1, <1>4 DEF Init
<1>6. Screen
  BY <1>1, <1>2, <1>3, <1>5 DEF Screen
<1>7. Typed
  BY <1>0, <1>3, <1>6 DEF Typed, Screen, Init, Marked
<1>8. Mirrored /\ Whole
  BY <1>1, <1>3, <1>4, <1>5 DEF Mirrored, Whole, OfAPiece, Init
<1>9. Known
  BY <1>0 DEF Known, Init
<1> QED BY <1>6, <1>7, <1>8, <1>9 DEF IInv

-----------------------------------------------------------------------------
(* The handlers' common parts.                                             *)

LEMMA EntryIsOne ==
  ASSUME NEW s \in TabLists, NEW p \in Pages \cup {Nil},
         p # Nil => p \in In(s)
  PROVE  LET e == Entry(p, [tabs |-> s, active |-> p])
         IN  e \in Entries /\ e.url = p
BY DEF Entry, Entries, State

LEMMA LinkIsOne ==
  ASSUME NEW p \in Pages \cup {Nil}
  PROVE  Entry(p, Nil) \in Entries /\ Entry(p, Nil).url = p
BY DEF Entry, Entries, State

(* A new entry drops the ones ahead of it. *)
LEMMA HistoryGrows ==
  ASSUME Screen, NEW e \in Entries
  PROVE  LET h == Append(SubSeq(history, 1, pos), e)
         IN  h \in Seq(Entries) /\ pos + 1 \in DOMAIN h /\ h[pos + 1] = e
<1>1. history \in Seq(Entries) /\ pos \in 1..Len(history)
        /\ Len(history) \in Nat
  BY DEF Screen
<1> DEFINE b == SubSeq(history, 1, pos)
<1>2. b \in Seq(Entries) /\ Len(b) = pos
  BY <1>1
<1> HIDE DEF b
<1>3. /\ Append(b, e) \in Seq(Entries) /\ Len(Append(b, e)) = pos + 1
      /\ Append(b, e)[pos + 1] = e
  BY <1>1, <1>2
<1> QED BY <1>1, <1>3 DEF b

LEMMA PushIsWhole ==
  ASSUME Screen, NEW s \in TabLists, NEW p \in Pages \cup {Nil},
         p # Nil => p \in In(s), NEW replace \in BOOLEAN,
         PushTabHistory(s, p, replace)
  PROVE  /\ history' \in Seq(Entries) /\ pos' \in DOMAIN history'
         /\ history'[pos'].url = p
<1> DEFINE e == Entry(p, [tabs |-> s, active |-> p])
<1>1. e \in Entries /\ e.url = p
  BY EntryIsOne
<1>2. CASE replace
  <2>1. history' = [history EXCEPT ![pos] = e] /\ pos' = pos
    BY <1>2 DEF PushTabHistory, Pushed
  <2> HIDE DEF e
  <2>2. history \in Seq(Entries) /\ pos \in DOMAIN history
    BY DEF Screen
  <2>3. /\ history' \in Seq(Entries) /\ pos' \in DOMAIN history'
        /\ history'[pos'] = e
    BY <1>1, <2>1, <2>2
  <2> QED BY <1>1, <2>3
<1>3. CASE ~ replace
  <2>1. history' = Append(SubSeq(history, 1, pos), e) /\ pos' = pos + 1
    BY <1>3 DEF PushTabHistory, Pushed
  <2> HIDE DEF e
  <2> QED BY <1>1, <2>1, HistoryGrows
<1> QED BY <1>2, <1>3

(* What is set is marked, so that the mirrors stay behind nothing else. *)
LEMMA MarksWell ==
  ASSUME Mirrored, dirty \subseteq Marked, UNCHANGED refs,
         NEW more \in SUBSET Marked, Marks(openTabs', currentId', more)
  PROVE  Mirrored' /\ dirty' \subseteq Marked
BY DEF Mirrored, Marks, refs, Marked

(* What the window shows once a handler has run. *)
LEMMA NavigateShows ==
  ASSUME IInv, NEW p \in Pages \cup {Nil}, NEW replace \in BOOLEAN,
         NEW more \in SUBSET Marked, Navigate(p, replace, more),
         UNCHANGED refs
  PROVE  Screen' /\ OfAPiece' /\ Mirrored' /\ dirty' \subseteq Marked
<1> DEFINE s == TabsFor(tabsRef, activeRef, p)
<1>1. s \in TabLists /\ (p # Nil => p \in In(s))
  BY TabsForIsAList DEF IInv, Typed
<1>2. /\ PushTabHistory(s, p, replace)
      /\ openTabs' = s /\ currentId' = p /\ Marks(s, p, more)
  BY DEF Navigate
<1> HIDE DEF s
<1>3. /\ history' \in Seq(Entries) /\ pos' \in DOMAIN history'
      /\ history'[pos'].url = p
  BY <1>1, <1>2, PushIsWhole DEF IInv
<1>4. Mirrored' /\ dirty' \subseteq Marked
  BY <1>2, MarksWell DEF IInv, Typed
<1> QED BY <1>1, <1>2, <1>3, <1>4 DEF Screen, OfAPiece

LEMMA CloseShows ==
  ASSUME IInv, NEW p, NEW more \in SUBSET Marked, CloseTab(p, more),
         UNCHANGED refs
  PROVE  /\ Screen' /\ Mirrored' /\ dirty' \subseteq Marked
         /\ extra' \subseteq extra
         /\ dirty = {} /\ ~ crossed => OfAPiece'
         /\ dirty = {} => In(openTabs) \ {p} \subseteq In(openTabs')
<1>0. /\ Screen /\ Mirrored /\ Whole /\ dirty \subseteq Marked
      /\ tabsRef \in TabLists /\ activeRef \in Pages \cup {Nil}
      /\ dirty = {} => tabsRef = openTabs /\ activeRef = currentId
  BY DEF IInv, Typed, Mirrored
<1>1. CASE p \notin In(tabsRef)
  <2>1. UNCHANGED <<openTabs, currentId, history, pos, extra>>
          /\ Marks(openTabs, currentId, more)
    BY <1>1 DEF CloseTab, shown
  <2>2. Mirrored' /\ dirty' \subseteq Marked
    BY <1>0, <2>1, MarksWell
  <2> QED BY <1>0, <2>1, <2>2 DEF Screen, Whole, OfAPiece
<1>2. CASE p \in In(tabsRef)
  <2> DEFINE next == Without(tabsRef, p)
             q == IF activeRef = p
                  THEN Neighbour(next, IndexOf(tabsRef, p)) ELSE currentId
             marks == more \cup IF p \in extra THEN {"extra"} ELSE {}
  <2>1. /\ openTabs' = next /\ currentId' = q
        /\ extra' = extra \ {p}
        /\ Marks(next, q, marks)
        /\ IF activeRef = p THEN PushTabHistory(next, q, TRUE)
           ELSE UNCHANGED <<history, pos>>
    BY <1>2 DEF CloseTab
  <2>2. next \in TabLists /\ In(next) = In(tabsRef) \ {p}
    BY <1>0, WithoutIsAList
  <2>3. /\ activeRef = p => q \in In(next) \cup {Nil}
        /\ activeRef # p => q = currentId
    BY NeighbourIsOne
  <2>4. In(next) \subseteq Pages
    BY <2>2, InAList DEF TabLists
  <2>5. marks \in SUBSET Marked
    BY DEF Marked
  <2> HIDE DEF next, q, marks
  <2>6. Mirrored' /\ dirty' \subseteq Marked
    BY <1>0, <2>1, <2>5, MarksWell
  <2>7. CASE activeRef = p
    <3>1. q \in Pages \cup {Nil} /\ (q # Nil => q \in In(next))
      BY <2>3, <2>4, <2>7
    <3>2. /\ history' \in Seq(Entries) /\ pos' \in DOMAIN history'
          /\ history'[pos'].url = q
      BY <1>0, <2>1, <2>2, <2>7, <3>1, PushIsWhole
    <3> QED BY <1>0, <2>1, <2>2, <2>6, <3>1, <3>2 DEF Screen, OfAPiece
  <2>8. CASE activeRef # p
    <3>1. Screen'
      BY <1>0, <2>1, <2>2, <2>3, <2>8 DEF Screen
    <3>2. dirty = {} /\ ~ crossed => OfAPiece'
      BY <1>0, <2>1, <2>2, <2>3, <2>8 DEF OfAPiece, Whole
    <3> QED BY <1>0, <2>1, <2>2, <2>6, <3>1, <3>2
  <2> QED BY <2>7, <2>8
<1> QED BY <1>1, <1>2

-----------------------------------------------------------------------------
(* What the person does keeps the invariant.                               *)

LEMMA ActsKeeps ==
  ASSUME IInv, Acts, UNCHANGED Rest, extra' \subseteq Pages,
         Screen', Mirrored', dirty' \subseteq Marked,
         dirty = {} /\ ~ crossed => OfAPiece'
  PROVE  IInv'
<1>1. /\ urgent' = TRUE /\ events' = events + 1
      /\ crossed' = (crossed \/ dirty # {})
      /\ UNCHANGED <<status, ever, pages, tabsRef, activeRef, resolving, job,
                     blipped>>
  BY DEF Acts, Rest, server, refs
<1>2. crossed \in BOOLEAN /\ events \in Nat /\ Typed /\ Known
  BY DEF IInv, Typed
<1>3. Typed'
  BY <1>1, <1>2 DEF Typed
<1>4. Known'
  BY <1>1, <1>2 DEF Known
<1>5. Whole'
  BY <1>1 DEF Whole
<1> QED BY <1>3, <1>4, <1>5 DEF IInv

LEMMA GoKeeps ==
  ASSUME IInv, NEW p \in Pages, Go(p) PROVE IInv'
<1>1. Acts /\ Navigate(p, FALSE, {}) /\ UNCHANGED <<Rest, extra>>
  BY DEF Go
<1>2. UNCHANGED refs
  BY <1>1 DEF Rest
<1>3. Screen' /\ OfAPiece' /\ Mirrored' /\ dirty' \subseteq Marked
  BY <1>1, <1>2, NavigateShows
<1> QED BY <1>1, <1>3, ActsKeeps DEF IInv, Typed

LEMMA OpenInNewTabKeeps ==
  ASSUME IInv, NEW p \in Pages, OpenInNewTab(p) PROVE IInv'
<1> DEFINE i == IF activeRef \in In(tabsRef) THEN IndexOf(tabsRef, activeRef)
                ELSE Len(tabsRef)
           s == IF p \in In(tabsRef) THEN tabsRef
                ELSE SubSeq(tabsRef, 1, i) \o <<p>>
                     \o SubSeq(tabsRef, i + 1, Len(tabsRef))
<1>0. Screen /\ Mirrored /\ dirty \subseteq Marked /\ tabsRef \in TabLists
        /\ extra \subseteq Pages /\ p \in Pages \cup {Nil}
  BY DEF IInv, Typed
<1>1. /\ Acts /\ UNCHANGED Rest /\ extra' = extra
      /\ PushTabHistory(s, p, FALSE)
      /\ openTabs' = s /\ currentId' = p
      /\ Marks(s, p, {})
  BY DEF OpenInNewTab
<1>2. i \in 0..Len(tabsRef)
  <2>1. DOMAIN tabsRef = 1..Len(tabsRef) /\ Len(tabsRef) \in Nat
    BY <1>0, InAList DEF TabLists
  <2>2. activeRef \in In(tabsRef)
          => IndexOf(tabsRef, activeRef) \in DOMAIN tabsRef
    BY DEF In, IndexOf
  <2> QED BY <2>1, <2>2
<1> HIDE DEF i
<1>3. s \in TabLists /\ p \in In(s)
  BY <1>0, <1>2, InsertedIsAList
<1> HIDE DEF s
<1>4. /\ history' \in Seq(Entries) /\ pos' \in DOMAIN history'
      /\ history'[pos'].url = p
  BY <1>0, <1>1, <1>3, PushIsWhole
<1>5. UNCHANGED refs
  BY <1>1 DEF Rest
<1>6. Mirrored' /\ dirty' \subseteq Marked
  BY <1>0, <1>1, <1>5, MarksWell
<1>7. Screen' /\ OfAPiece'
  BY <1>0, <1>1, <1>3, <1>4 DEF Screen, OfAPiece
<1> QED BY <1>0, <1>1, <1>6, <1>7, ActsKeeps

LEMMA CloseKeeps ==
  ASSUME IInv, NEW p \in Pages, Close(p) PROVE IInv'
<1>1. Acts /\ CloseTab(p, {}) /\ UNCHANGED Rest
  BY DEF Close
<1>2. UNCHANGED refs
  BY <1>1 DEF Rest
<1>3. /\ Screen' /\ Mirrored' /\ dirty' \subseteq Marked
      /\ extra' \subseteq extra
      /\ dirty = {} /\ ~ crossed => OfAPiece'
  BY <1>1, <1>2, CloseShows
<1>4. extra' \subseteq Pages
  BY <1>3 DEF IInv, Typed
<1> QED BY <1>1, <1>3, <1>4, ActsKeeps

LEMMA FollowLinkKeeps ==
  ASSUME IInv, NEW p \in Pages, FollowLink(p) PROVE IInv'
<1>0. Screen /\ Mirrored /\ dirty \subseteq Marked /\ extra \subseteq Pages
        /\ openTabs \in TabLists /\ p \in Pages \cup {Nil} /\ p # Nil
  BY PagesAssumption DEF IInv, Typed, Screen
<1>1. /\ Acts /\ UNCHANGED Rest /\ extra' = extra
      /\ history' = Append(SubSeq(history, 1, pos), Entry(p, Nil))
      /\ pos' = pos + 1 /\ currentId' = p
      /\ openTabs' = TabsFor(openTabs, activeRef, p)
      /\ Marks(openTabs', p, {})
  BY DEF FollowLink
<1>2. openTabs' \in TabLists /\ p \in In(openTabs')
  BY <1>0, <1>1, TabsForIsAList
<1>3. /\ history' \in Seq(Entries) /\ pos' \in DOMAIN history'
      /\ history'[pos'].url = p
  BY <1>0, <1>1, LinkIsOne, HistoryGrows
<1>4. UNCHANGED refs
  BY <1>1 DEF Rest
<1>5. Mirrored' /\ dirty' \subseteq Marked
  BY <1>0, <1>1, <1>4, MarksWell
<1>6. Screen' /\ OfAPiece'
  BY <1>0, <1>1, <1>2, <1>3 DEF Screen, OfAPiece
<1> QED BY <1>0, <1>1, <1>5, <1>6, ActsKeeps

LEMMA PopKeeps ==
  ASSUME IInv, NEW to \in DOMAIN history, Pop(to) PROVE IInv'
<1>0. Screen /\ Mirrored /\ dirty \subseteq Marked /\ extra \subseteq Pages
        /\ openTabs \in TabLists
  BY DEF IInv, Typed, Screen
<1> DEFINE e == history[to]
<1>1. /\ Acts /\ UNCHANGED Rest /\ extra' = extra /\ history' = history
      /\ pos' = to
      /\ IF e.state # Nil
         THEN openTabs' = e.state.tabs /\ currentId' = e.state.active
         ELSE /\ currentId' = e.url
              /\ openTabs' = IF e.url = Nil \/ e.url \in In(openTabs)
                             THEN openTabs ELSE Append(openTabs, e.url)
      /\ Marks(openTabs', currentId', {})
  BY DEF Pop
<1>2. e \in Entries
  BY <1>0 DEF Screen
<1> HIDE DEF e
<1>3. /\ openTabs' \in TabLists /\ currentId' \in Pages \cup {Nil}
      /\ currentId' = e.url
      /\ currentId' # Nil => currentId' \in In(openTabs')
  <2>1. CASE e.state # Nil
    BY <1>1, <1>2, <2>1 DEF Entries, State
  <2>2. CASE e.state = Nil
    <3>1. currentId' = e.url /\ e.url \in Pages \cup {Nil}
      BY <1>1, <1>2, <2>2 DEF Entries
    <3>2. CASE e.url = Nil \/ e.url \in In(openTabs)
      BY <1>0, <1>1, <2>2, <3>1, <3>2
    <3>3. CASE e.url # Nil /\ e.url \notin In(openTabs)
      <4>1. openTabs' = Append(openTabs, e.url)
        BY <1>1, <2>2, <3>3
      <4> QED BY <1>0, <3>1, <3>3, <4>1, AppendedIsAList
    <3> QED BY <3>2, <3>3
  <2> QED BY <2>1, <2>2
<1>4. UNCHANGED refs
  BY <1>1 DEF Rest
<1>5. Mirrored' /\ dirty' \subseteq Marked
  BY <1>0, <1>1, <1>4, MarksWell
<1>6. history'[pos'] = e
  BY <1>1 DEF e
<1>7. Screen' /\ OfAPiece'
  BY <1>0, <1>1, <1>3, <1>6 DEF Screen, OfAPiece
<1> QED BY <1>0, <1>1, <1>5, <1>7, ActsKeeps

LEMMA MissingKeeps ==
  ASSUME IInv, Missing PROVE IInv'
<1>1. /\ Acts /\ activeRef # Nil /\ pages # Nil
      /\ pages' = [pages EXCEPT ![activeRef] = "absent"]
      /\ CloseTab(activeRef, {"pages"})
      /\ UNCHANGED <<status, ever, tabsRef, activeRef, resolving, job,
                     blipped>>
      /\ UNCHANGED refs
  BY DEF Missing, server, refs
<1>2. /\ urgent' = TRUE /\ events' = events + 1
      /\ crossed' = (crossed \/ dirty # {})
  BY <1>1 DEF Acts
<1>3. /\ Screen' /\ Mirrored' /\ dirty' \subseteq Marked
      /\ extra' \subseteq extra
      /\ dirty = {} /\ ~ crossed => OfAPiece'
  BY <1>1, CloseShows DEF Marked
<1>4. Typed /\ Known /\ activeRef \in Pages
        /\ pages \in [Pages -> {"live", "trashed", "absent"}]
  BY <1>1 DEF IInv, Typed
<1>5. /\ pages' \in [Pages -> {"live", "trashed", "absent"}]
      /\ \A p \in Pages : pages[p] # "trashed" => pages'[p] # "trashed"
  BY <1>1, <1>4
<1>6. Typed'
  BY <1>1, <1>2, <1>3, <1>4, <1>5 DEF Typed
<1>7. Known'
  BY <1>1, <1>4, <1>5 DEF Known
<1>8. Whole'
  BY <1>2, <1>3 DEF Whole
<1> QED BY <1>3, <1>6, <1>7, <1>8 DEF IInv

LEMMA AskKeeps ==
  ASSUME IInv, NEW what \in {"create", "trash"}, NEW p \in Pages, Ask(what, p)
  PROVE  IInv'
<1>1. /\ events' = events + 1
      /\ job' = [what |-> what, id |-> p, active |-> activeRef, done |-> FALSE]
      /\ what = "create" => p \in Fresh /\ status[p] = "gone"
      /\ UNCHANGED <<status, ever, pages, openTabs, currentId, history, pos,
                     tabsRef, activeRef, extra, resolving, dirty, urgent,
                     crossed, blipped>>
  BY DEF Ask, server, shown, refs
<1>2. Typed /\ Screen /\ Mirrored /\ Whole /\ Known
  BY DEF IInv
<1>3. Typed'
  BY <1>1, <1>2 DEF Typed
<1>4. Screen' /\ Mirrored' /\ Whole'
  BY <1>1, <1>2 DEF Screen, Mirrored, Whole, OfAPiece
<1>5. what = "create" => p \in ever
  BY <1>1, <1>2 DEF Known
<1>6. Known'
  BY <1>1, <1>2, <1>5 DEF Known
<1> QED BY <1>3, <1>4, <1>6 DEF IInv

-----------------------------------------------------------------------------
(* What the server does, and the answers, keep the invariant.              *)

LEMMA ServeKeeps ==
  ASSUME IInv, Serve PROVE IInv'
<1>1. /\ job # Nil /\ ~ job.done
      /\ status' = [status EXCEPT ![job.id] =
                       IF job.what = "create" THEN "live"
                       ELSE IF @ = "live" THEN "trashed" ELSE @]
      /\ ever' = IF job.what = "trash" THEN ever \cup {job.id} ELSE ever
      /\ job' = [job EXCEPT !.done = TRUE]
      /\ UNCHANGED <<pages, openTabs, currentId, history, pos, tabsRef,
                     activeRef, extra, resolving, dirty, urgent, events,
                     crossed, blipped>>
  BY DEF Serve, shown, refs
<1>2. Typed /\ Screen /\ Mirrored /\ Whole /\ Known
  BY DEF IInv
<1>3. /\ job.what \in {"create", "trash"} /\ job.id \in Pages
      /\ job' \in [what : {"create", "trash"}, id : Pages, done : BOOLEAN,
                   active : Pages \cup {Nil}]
      /\ job'.what = job.what /\ job'.id = job.id
  BY <1>1, <1>2 DEF Typed
<1>4. /\ status' \in [Pages -> {"live", "trashed", "gone"}]
      /\ \A p \in Pages :
            status[p] = "live" /\ status'[p] # "live"
              => p = job.id /\ job.what = "trash"
  BY <1>1, <1>2, <1>3 DEF Typed
<1>5. ever' \subseteq Pages /\ ever \subseteq ever' /\ job.id \in ever'
  BY <1>1, <1>2, <1>3 DEF Typed, Known
<1>6. Typed'
  BY <1>1, <1>2, <1>3, <1>4, <1>5 DEF Typed
<1>7. Screen' /\ Mirrored' /\ Whole'
  BY <1>1, <1>2 DEF Screen, Mirrored, Whole, OfAPiece
<1>8. Known'
  <2>1. ASSUME NEW p \in Pages \ ever'
        PROVE  /\ status'[p] = "live"
               /\ pages' # Nil => pages'[p] # "trashed"
               /\ resolving'[p] \notin {"trashed", "gone"}
    BY <1>1, <1>2, <1>4, <1>5, <2>1 DEF Known
  <2> QED BY <1>3, <1>5, <2>1 DEF Known
<1> QED BY <1>6, <1>7, <1>8 DEF IInv

LEMMA CreatedKeeps ==
  ASSUME IInv, Created PROVE IInv'
<1>1. /\ ~ urgent /\ crossed' = (crossed \/ dirty # {})
      /\ job # Nil /\ job.done /\ job.what = "create"
      /\ pages' = IF pages = Nil THEN Nil
                  ELSE [pages EXCEPT ![job.id] = "live"]
      /\ Navigate(job.id, FALSE, {"pages"})
      /\ job' = Nil
      /\ UNCHANGED <<status, ever, tabsRef, activeRef, extra, resolving,
                     urgent, events, blipped>>
      /\ UNCHANGED refs
  BY DEF Created, Answers, server, refs
<1>2. Typed /\ Known /\ job.id \in Pages
  BY <1>1 DEF IInv, Typed
<1>3. Screen' /\ OfAPiece' /\ Mirrored' /\ dirty' \subseteq Marked
  BY <1>1, <1>2, NavigateShows DEF Marked
<1>4. /\ pages' \in [Pages -> {"live", "trashed", "absent"}] \cup {Nil}
      /\ pages' # Nil => pages # Nil
      /\ \A p \in Pages : pages' # Nil /\ pages[p] # "trashed"
                            => pages'[p] # "trashed"
  BY <1>1, <1>2 DEF Typed
<1>5. crossed' \in BOOLEAN
  BY <1>1, <1>2 DEF Typed
<1>6. Typed'
  BY <1>1, <1>2, <1>3, <1>4, <1>5 DEF Typed
<1>7. Known'
  BY <1>1, <1>2, <1>4 DEF Known
<1> QED BY <1>3, <1>6, <1>7 DEF IInv, Whole

(* trashPage goes on: what it leaves in the tabs. *)
LEMMA TrashedShows ==
  ASSUME IInv, Trashed
  PROVE  /\ Screen' /\ Mirrored' /\ dirty' \subseteq Marked
         /\ extra' \subseteq extra
         /\ dirty = {} /\ ~ crossed => OfAPiece'
         /\ dirty = {} => In(openTabs) \ {job.id} \subseteq In(openTabs')
<1> DEFINE id == job.id
           to == IF job.active = id /\ id \in Rows THEN Parent[id] ELSE Nil
           leave == activeRef = id
           tabs == IF leave THEN TabsFor(tabsRef, activeRef, to) ELSE openTabs
           id2 == IF leave THEN to ELSE currentId
           marks == IF id \in extra THEN {"extra"} ELSE {}
<1>1. /\ job # Nil
      /\ IF leave THEN PushTabHistory(tabs, to, TRUE)
         ELSE UNCHANGED <<history, pos>>
      /\ openTabs' = Without(tabs, id) /\ currentId' = id2
      /\ extra' = extra \ {id}
      /\ Marks(openTabs', id2, marks)
      /\ UNCHANGED refs
  BY DEF Trashed
<1>2. /\ Typed /\ Screen /\ Mirrored /\ Whole /\ id \in Pages
      /\ openTabs \in TabLists /\ tabsRef \in TabLists
      /\ currentId \in Pages \cup {Nil}
      /\ dirty = {} => tabsRef = openTabs /\ activeRef = currentId
  BY <1>1 DEF IInv, Typed, Screen, Mirrored
<1>3. to \in Pages \cup {Nil} /\ (to # Nil => to # id)
  BY ParentAssumption, PagesAssumption DEF Pages
<1>4. marks \in SUBSET Marked
  BY DEF Marked
<1> HIDE DEF to, marks
<1>5. /\ tabs \in TabLists
      /\ leave /\ to # Nil => to \in In(tabs)
      /\ dirty = {} => In(openTabs) \ {id} \subseteq In(tabs)
      /\ ~ leave => tabs = openTabs
  BY <1>2, <1>3, TabsForIsAList
<1> HIDE DEF tabs
<1>6. openTabs' \in TabLists /\ In(openTabs') = In(tabs) \ {id}
  BY <1>1, <1>5, WithoutIsAList
<1>7. Mirrored' /\ dirty' \subseteq Marked
  BY <1>1, <1>2, <1>4, MarksWell DEF Typed
<1>8. CASE leave
  <2>1. /\ history' \in Seq(Entries) /\ pos' \in DOMAIN history'
        /\ history'[pos'].url = to
    BY <1>1, <1>2, <1>3, <1>5, <1>8, PushIsWhole
  <2> QED BY <1>1, <1>3, <1>5, <1>6, <1>7, <1>8, <2>1 DEF Screen, OfAPiece
<1>9. CASE ~ leave
  <2>1. UNCHANGED <<history, pos, currentId>>
    BY <1>1, <1>9
  <2>2. Screen'
    BY <1>2, <1>6, <2>1 DEF Screen
  <2>3. dirty = {} /\ ~ crossed => OfAPiece'
    BY <1>2, <1>5, <1>6, <1>9, <2>1 DEF Whole, OfAPiece
  <2> QED BY <1>1, <1>5, <1>6, <1>7, <2>2, <2>3
<1> QED BY <1>8, <1>9

LEMMA TrashedKeeps ==
  ASSUME IInv, Trashed PROVE IInv'
<1>1. /\ crossed' = (crossed \/ dirty # {}) /\ job' = Nil
      /\ UNCHANGED <<status, ever, pages, tabsRef, activeRef, resolving,
                     urgent, events, blipped>>
  BY DEF Trashed, Answers, server, refs
<1>2. /\ Screen' /\ Mirrored' /\ dirty' \subseteq Marked
      /\ extra' \subseteq extra
      /\ dirty = {} /\ ~ crossed => OfAPiece'
  BY TrashedShows
<1>3. Typed /\ Known /\ crossed' \in BOOLEAN
  BY <1>1 DEF IInv, Typed
<1>4. Typed'
  BY <1>1, <1>2, <1>3 DEF Typed
<1>5. Known'
  BY <1>1, <1>3 DEF Known
<1>6. Whole'
  BY <1>1, <1>2 DEF Whole
<1> QED BY <1>2, <1>4, <1>5, <1>6 DEF IInv

LEMMA ReadPageKeeps ==
  ASSUME IInv, NEW p \in Pages, ReadPage(p) PROVE IInv'
<1>1. /\ resolving' = [resolving EXCEPT ![p] = status[p]]
      /\ UNCHANGED <<status, ever, pages, openTabs, currentId, history, pos,
                     tabsRef, activeRef, extra, job, dirty, urgent, events,
                     crossed, blipped>>
  BY DEF ReadPage, server, shown, refs
<1>2. Typed /\ Screen /\ Mirrored /\ Whole /\ Known
  BY DEF IInv
<1>3. /\ resolving' \in
            [Pages -> {"no", "asked", "live", "trashed", "gone"}]
      /\ \A q \in Pages : resolving'[q] = IF q = p THEN status[p]
                                         ELSE resolving[q]
  BY <1>1, <1>2 DEF Typed
<1>4. Typed'
  BY <1>1, <1>2, <1>3 DEF Typed
<1>5. Screen' /\ Mirrored' /\ Whole'
  BY <1>1, <1>2 DEF Screen, Mirrored, Whole, OfAPiece
<1>6. Known'
  BY <1>1, <1>2, <1>3 DEF Known
<1> QED BY <1>4, <1>5, <1>6 DEF IInv

(* The resolver's answer: what it leaves in the tabs. *)
LEMMA ResolveShows ==
  ASSUME IInv, NEW p \in Pages, Resolve(p)
  PROVE  /\ Screen' /\ Mirrored' /\ dirty' \subseteq Marked
         /\ extra' \subseteq Pages
         /\ dirty = {} /\ ~ crossed => OfAPiece'
         /\ \/ openTabs' = openTabs
            \/ /\ resolving[p] \in {"trashed", "gone"}
               /\ dirty = {} => In(openTabs) \ {p} \subseteq In(openTabs')
<1>0. UNCHANGED refs /\ extra \subseteq Pages /\ Screen /\ Mirrored /\ Whole
        /\ dirty \subseteq Marked
  BY DEF Resolve, IInv, Typed
<1>1. CASE resolving[p] \in Gone /\ CloseTab(p, {})
  <2>1. /\ Screen' /\ Mirrored' /\ dirty' \subseteq Marked
        /\ extra' \subseteq extra
        /\ dirty = {} /\ ~ crossed => OfAPiece'
        /\ dirty = {} => In(openTabs) \ {p} \subseteq In(openTabs')
    BY <1>0, <1>1, CloseShows
  <2> QED BY <1>0, <1>1, <2>1 DEF Gone
<1>2. CASE /\ extra' = IF resolving[p] = "live" /\ p \in In(tabsRef)
                       THEN extra \cup {p} ELSE extra
           /\ Marks(openTabs, currentId,
                    IF extra' # extra THEN {"extra"} ELSE {})
           /\ UNCHANGED shown
  <2>1. UNCHANGED <<openTabs, currentId, history, pos>>
    BY <1>2 DEF shown
  <2> DEFINE marks == IF extra' # extra THEN {"extra"} ELSE {}
  <2>2. marks \in SUBSET Marked
    BY DEF Marked
  <2>3. Marks(openTabs', currentId', marks)
    BY <1>2, <2>1 DEF Marks
  <2> HIDE DEF marks
  <2>4. Mirrored' /\ dirty' \subseteq Marked
    BY <1>0, <2>2, <2>3, MarksWell
  <2> QED BY <1>0, <1>2, <2>1, <2>4 DEF Screen, Whole, OfAPiece
<1> QED BY <1>1, <1>2 DEF Resolve

LEMMA ResolveKeeps ==
  ASSUME IInv, NEW p \in Pages, Resolve(p) PROVE IInv'
<1>1. /\ crossed' = (crossed \/ dirty # {})
      /\ resolving' = [resolving EXCEPT ![p] = "no"]
      /\ UNCHANGED <<status, ever, pages, tabsRef, activeRef, job, urgent,
                     events, blipped>>
  BY DEF Resolve, Answers, server, refs
<1>2. /\ Screen' /\ Mirrored' /\ dirty' \subseteq Marked
      /\ extra' \subseteq Pages
      /\ dirty = {} /\ ~ crossed => OfAPiece'
  BY ResolveShows
<1>3. Typed /\ Known /\ crossed' \in BOOLEAN
  BY <1>1 DEF IInv, Typed
<1>4. /\ resolving' \in
            [Pages -> {"no", "asked", "live", "trashed", "gone"}]
      /\ \A q \in Pages : resolving'[q] \in {"no", resolving[q]}
  BY <1>1, <1>3 DEF Typed
<1>5. Typed'
  BY <1>1, <1>2, <1>3, <1>4 DEF Typed
<1>6. Known'
  BY <1>1, <1>3, <1>4 DEF Known
<1>7. Whole'
  BY <1>1, <1>2 DEF Whole
<1> QED BY <1>2, <1>5, <1>6, <1>7 DEF IInv

LEMMA BlipKeeps ==
  ASSUME IInv, NEW p \in Pages, Blip(p) PROVE IInv'
<1>1. /\ events' = events + 1
      /\ resolving' = [resolving EXCEPT ![p] = "no"]
      /\ blipped' = blipped \cup {p}
      /\ UNCHANGED <<status, ever, pages, openTabs, currentId, history, pos,
                     tabsRef, activeRef, extra, job, dirty, urgent, crossed>>
  BY DEF Blip, server, shown, refs
<1>2. Typed /\ Screen /\ Mirrored /\ Whole /\ Known
  BY DEF IInv
<1>3. /\ resolving' \in
            [Pages -> {"no", "asked", "live", "trashed", "gone"}]
      /\ \A q \in Pages : resolving'[q] \in {"no", resolving[q]}
  BY <1>1, <1>2 DEF Typed
<1>4. Typed'
  BY <1>1, <1>2, <1>3 DEF Typed
<1>5. Screen' /\ Mirrored' /\ Whole'
  BY <1>1, <1>2 DEF Screen, Mirrored, Whole, OfAPiece
<1>6. Known'
  BY <1>1, <1>2, <1>3 DEF Known
<1> QED BY <1>4, <1>5, <1>6 DEF IInv

LEMMA ListComesKeeps ==
  ASSUME IInv, ListComes PROVE IInv'
<1>1. /\ pages' = ListOf(status) /\ dirty' = dirty \cup {"pages"}
      /\ UNCHANGED <<status, ever, openTabs, currentId, history, pos,
                     tabsRef, activeRef, extra, resolving, job, urgent, events,
                     crossed, blipped>>
  BY DEF ListComes, server, shown, refs
<1>2. Typed /\ Screen /\ Mirrored /\ Whole /\ Known
  BY DEF IInv
<1>3. /\ pages' \in [Pages -> {"live", "trashed", "absent"}]
      /\ \A p \in Pages : pages'[p] = "trashed" => status[p] = "trashed"
  BY <1>1, <1>2 DEF Typed, ListOf
<1>4. Typed'
  BY <1>1, <1>2, <1>3 DEF Typed, Marked
<1>5. Screen' /\ Mirrored' /\ Whole'
  BY <1>1, <1>2 DEF Screen, Mirrored, Whole, OfAPiece
<1>6. Known'
  BY <1>1, <1>2, <1>3 DEF Known
<1> QED BY <1>4, <1>5, <1>6 DEF IInv

LEMMA OtherKeeps ==
  ASSUME IInv, NEW p \in Pages, NEW to \in {"live", "trashed", "gone"},
         Other(p, to)
  PROVE  IInv'
<1>1. /\ events' = events + 1
      /\ status' = [status EXCEPT ![p] = to] /\ ever' = ever \cup {p}
      /\ UNCHANGED <<pages, openTabs, currentId, history, pos, tabsRef,
                     activeRef, extra, resolving, job, dirty, urgent, crossed,
                     blipped>>
  BY DEF Other, shown, refs
<1>2. Typed /\ Screen /\ Mirrored /\ Whole /\ Known
  BY DEF IInv
<1>3. /\ status' \in [Pages -> {"live", "trashed", "gone"}]
      /\ \A q \in Pages : q # p => status'[q] = status[q]
  BY <1>1, <1>2 DEF Typed
<1>4. Typed'
  BY <1>1, <1>2, <1>3 DEF Typed
<1>5. Screen' /\ Mirrored' /\ Whole'
  BY <1>1, <1>2 DEF Screen, Mirrored, Whole, OfAPiece
<1>6. Known'
  BY <1>1, <1>2, <1>3 DEF Known
<1> QED BY <1>4, <1>5, <1>6 DEF IInv

-----------------------------------------------------------------------------
(* A drawing keeps the invariant.                                          *)

LEMMA LandingIsOne ==
  ASSUME IInv PROVE Landing \in Pages \cup {Nil}
<1> DEFINE live == {p \in Pages : pages[p] = "live"}
           tab == FirstOf(openTabs, live \ {currentId})
<1>1. openTabs \in Seq(Pages) /\ Order \in Seq(Pages)
  BY OrderAssumption DEF IInv, Screen, TabLists, Pages
<1>2. tab \in Pages \cup {Nil}
  BY <1>1, FirstOfIsOne
<1>3. FirstOf(Order, live) \in Pages \cup {Nil}
  BY <1>1, FirstOfIsOne
<1>4. Landing = IF tab # Nil THEN tab ELSE FirstOf(Order, live)
  BY DEF Landing
<1> HIDE DEF live, tab
<1> QED BY <1>2, <1>3, <1>4

(* What a drawing leaves in the tabs: all but the active page, when that   *)
(* is in the trash, and the others that are.                               *)
LEMMA FlushShows ==
  ASSUME IInv, Flush
  PROVE  /\ Screen' /\ Whole'
         /\ \A p \in In(openTabs) \ In(openTabs') :
               pages # Nil /\ pages[p] = "trashed"
<1>0. Typed /\ Screen /\ Whole /\ openTabs \in TabLists /\ Nil \notin Pages
        /\ In(openTabs) \subseteq Pages
  BY PagesAssumption, InAList DEF IInv, Screen, TabLists
<1>1. CASE Homeless
  <2> DEFINE tabs == TabsFor(openTabs, currentId, Landing)
  <2>1. /\ openTabs' = tabs /\ currentId' = Landing
        /\ PushTabHistory(tabs, Landing, TRUE)
    BY <1>1 DEF Flush
  <2>2. Landing \in Pages \cup {Nil}
    BY LandingIsOne
  <2>3. /\ tabs \in TabLists /\ (Landing # Nil => Landing \in In(tabs))
        /\ In(openTabs) \ {currentId} \subseteq In(tabs)
    BY <1>0, <2>2, TabsForIsAList
  <2> HIDE DEF tabs
  <2>4. /\ history' \in Seq(Entries) /\ pos' \in DOMAIN history'
        /\ history'[pos'].url = Landing
    BY <1>0, <2>1, <2>2, <2>3, PushIsWhole
  <2>5. Screen' /\ Whole'
    BY <2>1, <2>2, <2>3, <2>4 DEF Screen, Whole, OfAPiece
  <2>6. ASSUME NEW p \in In(openTabs) \ In(openTabs')
        PROVE  pages # Nil /\ pages[p] = "trashed"
    BY <1>0, <1>1, <2>1, <2>3, <2>6 DEF Homeless
  <2> QED BY <2>5, <2>6
<1>2. CASE ~ Homeless
  <2>1. openTabs' = Filtered /\ UNCHANGED <<currentId, history, pos, crossed>>
    BY <1>2 DEF Flush
  <2>2. /\ openTabs' \in TabLists /\ In(openTabs') \subseteq In(openTabs)
        /\ \A p \in In(openTabs) \ In(openTabs') : pages # Nil /\ ~ Stays(p)
    <3>1. CASE pages # Nil /\ dirty \cap {"pages", "current"} # {}
      <4> DEFINE S == {p \in Pages : Stays(p)}
      <4>1. openTabs' = Kept(openTabs, S)
        BY <2>1, <3>1 DEF Filtered
      <4>2. openTabs' \in TabLists /\ In(openTabs') = In(openTabs) \cap S
        BY <1>0, <4>1, KeptIsAList
      <4> QED BY <1>0, <3>1, <4>2
    <3>2. CASE ~ (pages # Nil /\ dirty \cap {"pages", "current"} # {})
      BY <1>0, <2>1, <3>2 DEF Filtered
    <3> QED BY <3>1, <3>2
  <2>3. currentId \in In(openTabs) => currentId \in In(openTabs')
    BY <2>2 DEF Stays
  <2>4. Screen'
    BY <1>0, <2>1, <2>2 DEF Screen
  <2>5. Whole'
    BY <1>0, <2>1, <2>3 DEF Whole, OfAPiece
  <2> QED BY <2>2, <2>4, <2>5 DEF Stays
<1> QED BY <1>1, <1>2

LEMMA FlushKeeps ==
  ASSUME IInv, Flush PROVE IInv'
<1>1. /\ tabsRef' = openTabs /\ activeRef' = currentId
      /\ resolving' = [p \in Pages |-> IF p \in Resolved THEN "asked"
                                       ELSE resolving[p]]
      /\ blipped' = blipped \ Resolved
      /\ dirty' = (IF openTabs' # openTabs THEN {"tabs"} ELSE {})
                  \cup (IF currentId' # currentId THEN {"current"} ELSE {})
      /\ urgent' = FALSE
      /\ UNCHANGED <<status, ever, pages, extra, job, events, crossed>>
  BY DEF Flush, server
<1>2. Screen' /\ Whole'
  BY FlushShows
<1>3. Typed /\ Screen /\ Known
  BY DEF IInv
<1>4. Mirrored'
  BY <1>1 DEF Mirrored
<1>5. /\ resolving' \in
            [Pages -> {"no", "asked", "live", "trashed", "gone"}]
      /\ \A q \in Pages : resolving'[q] \in {"asked", resolving[q]}
  BY <1>1, <1>3 DEF Typed
<1>6. dirty' \subseteq Marked
  BY <1>1 DEF Marked
<1>7. Typed'
  BY <1>1, <1>3, <1>5, <1>6 DEF Typed, Screen
<1>8. Known'
  BY <1>1, <1>3, <1>5 DEF Known
<1> QED BY <1>2, <1>4, <1>7, <1>8 DEF IInv

-----------------------------------------------------------------------------
(* The theorems.                                                           *)

LEMMA StepKeeps == IInv /\ [Next]_vars => IInv'
<1> SUFFICES ASSUME IInv, [Next]_vars PROVE IInv'
  OBVIOUS
<1>1. CASE Flush
  BY <1>1, FlushKeeps
<1>2. CASE Person
  <2>1. ASSUME NEW p \in Pages,
               Go(p) \/ OpenInNewTab(p) \/ Close(p) \/ FollowLink(p)
        PROVE  IInv'
    BY <2>1, GoKeeps, OpenInNewTabKeeps, CloseKeeps, FollowLinkKeeps
  <2>2. ASSUME NEW p \in Pages, Ask("create", p) \/ Ask("trash", p)
        PROVE  IInv'
    BY <2>2, AskKeeps
  <2>3. ASSUME NEW i \in DOMAIN history, Pop(i) PROVE IInv'
    BY <2>3, PopKeeps
  <2> QED BY <1>2, <2>1, <2>2, <2>3, MissingKeeps DEF Person
<1>3. CASE Server
  <2>1. ASSUME NEW p \in Pages, ReadPage(p) PROVE IInv'
    BY <2>1, ReadPageKeeps
  <2>2. ASSUME NEW p \in Pages,
               Other(p, "live") \/ Other(p, "trashed") \/ Other(p, "gone")
        PROVE  IInv'
    BY <2>2, OtherKeeps
  <2> QED BY <1>3, <2>1, <2>2, ServeKeeps DEF Server
<1>4. CASE Comes
  <2>1. ASSUME NEW p \in Pages, Resolve(p) \/ Blip(p) PROVE IInv'
    BY <2>1, ResolveKeeps, BlipKeeps
  <2> QED BY <1>4, <2>1, CreatedKeeps, TrashedKeeps, ListComesKeeps DEF Comes
<1>5. CASE UNCHANGED vars
  <2>1. UNCHANGED <<status, ever, pages, openTabs, currentId, history, pos,
                    tabsRef, activeRef, extra, resolving, job, dirty, urgent,
                    events, crossed, blipped>>
    BY <1>5 DEF vars, server, shown, refs
  <2>2. Typed' /\ Screen'
    BY <2>1 DEF IInv, Typed, Screen
  <2>3. Mirrored' /\ Whole' /\ Known'
    BY <2>1 DEF IInv, Mirrored, Whole, OfAPiece, Known
  <2> QED BY <2>2, <2>3 DEF IInv
<1> QED BY <1>1, <1>2, <1>3, <1>4, <1>5 DEF Next

LEMMA Always == Spec => []IInv
BY Starting, StepKeeps, PTL DEF Spec

(* Every variable has its type, and no page is ever open in two tabs, nor  *)
(* in the tabs of an entry of the browser's history.                       *)
THEOREM NoPageTwice == Spec => []TypeOK
<1>1. IInv => TypeOK
  <2> SUFFICES ASSUME IInv PROVE TypeOK
    OBVIOUS
  <2>1. history \in Seq([url : Pages \cup {Nil}, state : State])
    <3>1. Entries \subseteq [url : Pages \cup {Nil}, state : State]
      BY DEF Entries
    <3> QED BY <3>1, SeqMonotonic DEF IInv, Screen
  <2> QED BY <2>1 DEF IInv, Typed, Screen, TypeOK, Marked
<1> QED BY <1>1, Always, PTL

(* Without two handlers that meet before a drawing, the address names the  *)
(* active page, and that page has a tab, whatever the person does and      *)
(* whatever comes, back and forward through every history.                 *)
THEOREM AddressAndTabAgree == Spec => []InStep
<1>1. IInv => InStep
  BY DEF IInv, Whole, OfAPiece, InStep
<1> QED BY <1>1, Always, PTL

(* A page that was never in the trash loses its tab only to what the       *)
(* person does, to a page that was created, or where handlers met.         *)
THEOREM LiveTabsAreKept == Spec => LiveTabsStay
<1> DEFINE Goes(p) == p \in In(openTabs) /\ p \notin In(openTabs')
           Step == \A p \in Pages \ ever :
                      Goes(p) => urgent' \/ crossed' \/ Created
<1>1. IInv /\ [Next]_vars => Step
  <2> SUFFICES ASSUME IInv, [Next]_vars, NEW p \in Pages \ ever, Goes(p),
                      ~ urgent', ~ crossed'
               PROVE  Created
    OBVIOUS
  <2>0. /\ p \in In(openTabs) /\ p \notin In(openTabs')
        /\ pages # Nil => pages[p] # "trashed"
        /\ resolving[p] \notin {"trashed", "gone"}
        /\ \A q \in Pages : resolving[q] \in {"trashed", "gone"} => q # p
        /\ job # Nil /\ job.done => job.id # p
    BY DEF IInv, Known
  <2>1. CASE Flush
    BY <2>0, <2>1, FlushShows
  <2>2. CASE Person
    <3>1. ~ Acts
      BY DEF Acts
    <3>2. ASSUME NEW q \in Pages, Ask("create", q) \/ Ask("trash", q)
          PROVE  FALSE
      BY <2>0, <3>2 DEF Ask, shown
    <3> QED BY <2>2, <3>1, <3>2
            DEF Person, Go, OpenInNewTab, Close, FollowLink, Pop, Missing
  <2>3. CASE Server
    BY <2>0, <2>3 DEF Server, Serve, ReadPage, Other, shown
  <2>4. CASE Trashed
    <3>1. dirty = {} /\ job # Nil /\ job.done
      BY <2>4 DEF Trashed, Answers
    <3> QED BY <2>0, <2>4, <3>1, TrashedShows
  <2>5. CASE ListComes
    BY <2>0, <2>5 DEF ListComes, shown
  <2>6. ASSUME NEW q \in Pages, Resolve(q) PROVE FALSE
    <3>1. dirty = {}
      BY <2>6 DEF Resolve, Answers
    <3> QED BY <2>0, <2>6, <3>1, ResolveShows
  <2>7. ASSUME NEW q \in Pages, Blip(q) PROVE FALSE
    BY <2>0, <2>7 DEF Blip, shown
  <2>8. CASE UNCHANGED vars
    BY <2>0, <2>8 DEF vars, shown
  <2> QED BY <2>1, <2>2, <2>3, <2>4, <2>5, <2>6, <2>7, <2>8 DEF Next, Comes
<1> QED BY <1>1, Always, PTL DEF Spec, LiveTabsStay
=============================================================================
