------------------------- MODULE ConnectionsProofs -------------------------
(***************************************************************************)
(* Every refresh token that was handed out finds its way to the current    *)
(* one, for any number of machines, connections and events.                *)
(***************************************************************************)
EXTENDS Connections, TLAPS

LEMMA Tokens ==
  /\ \A t \in Token : /\ Grant(t) \in Grants /\ t[1] \in Grants /\ t[2] \in Nat
                      /\ t = <<t[1], t[2]>> /\ Grant(t) = t[1]
                      /\ Later(t) \in Token
                      /\ Later(t) = <<t[1], t[2] + 1>>
  /\ \A g \in Grants : \A n \in Nat : /\ <<g, n>> \in Token
                                      /\ Grant(<<g, n>>) = g
                                      /\ <<g, n>>[2] = n
BY DEF Token, Grant, Later

(* A token that was handed out. *)
Handed(t) == t \in Token /\ t[2] \in 1 .. newest[t[1]]

(* What has been replaced is remembered or was forgotten, and what is      *)
(* remembered is remembered up to the newest token of its line.            *)
Lines ==
    /\ \A g \in Grants : \A n \in 1 .. newest[g] - 1 :
          <<g, n>> \in renewals \cup cut
    /\ \A t \in renewals :
          /\ 1 <= t[2] /\ t[2] < newest[t[1]]
          /\ \A n \in t[2] .. newest[t[1]] - 1 : <<t[1], n>> \in renewals
    /\ \A g \in Grants : life[g] \in {"new", "code", "seen"} => newest[g] = 0

(* What a request holds, where it is.                                      *)
Sound(m) ==
    LET r == req[m]
        t == r.token
        g == Grant(t)
    IN  /\ r.pc \in {"found", "insert"} => t = <<g, 0>> /\ r.next = <<g, 1>>
        /\ r.pc = "found" => life[g] \in {"code", "ended"}
        /\ r.pc = "insert" => life[g] = "seen"
        /\ r.pc \in {"wait", "revoke", "end"} => Handed(t)
        /\ r.pc = "rotate" => /\ lock = m /\ Handed(t) /\ t[2] = newest[g]
                              /\ r.next = Later(t)
        /\ r.pc \in {"issue", "answered"} => Handed(r.next)
        /\ r.pc = "answered" => r.access \in Token
        /\ r.pc = "refused" => life[g] = "ended" \/ t \in cut

Codes ==
    \A m, k \in Machines :
        /\ req[m] # Nil /\ req[k] # Nil
        /\ {req[m].pc, req[k].pc} \subseteq {"found", "insert"}
        /\ Grant(req[m].token) = Grant(req[k].token)
        => m = k

IInv ==
    /\ TypeOK /\ Lines /\ Codes
    /\ \A m \in Machines : req[m] # Nil => Sound(m)
    /\ store # Nil => Handed(store.refresh)

-----------------------------------------------------------------------------
(* The line of what is remembered ends at the newest token.                *)

LEMMA LineEnds ==
  ASSUME TypeOK, Lines, NEW t \in renewals
  PROVE  /\ t \in Token /\ NewestOfLine(t) = <<t[1], newest[t[1]]>>
         /\ Handed(NewestOfLine(t))
         /\ Leads(t) <=> Stands(t[1])
<1>1. /\ t \in Token /\ t[1] \in Grants /\ t[2] \in Nat
      /\ newest[t[1]] \in Nat /\ 1 <= t[2] /\ t[2] < newest[t[1]]
      /\ \A n \in t[2] .. newest[t[1]] - 1 : <<t[1], n>> \in renewals
  BY Tokens DEF TypeOK, Lines
<1> DEFINE end == <<t[1], newest[t[1]]>>
           S == {<<t[1], n>> : n \in t[2] + 1 .. newest[t[1]]}
           Ok(u) == /\ u \notin renewals
                    /\ \A n \in t[2] .. u[2] - 1 : <<t[1], n>> \in renewals
<1>2. end \in Token /\ end[1] = t[1] /\ end[2] = newest[t[1]]
  BY <1>1, Tokens
<1>3. end \notin renewals
  <2> SUFFICES ASSUME end \in renewals PROVE FALSE
    OBVIOUS
  <2>1. end[2] < newest[end[1]]
    BY DEF Lines
  <2> QED BY <1>1, <1>2, <2>1
<1>4. end \in S /\ Ok(end)
  BY <1>1, <1>2, <1>3
<1>5. ASSUME NEW u \in S, Ok(u) PROVE u = end
  <2>1. PICK n \in t[2] + 1 .. newest[t[1]] : u = <<t[1], n>>
    BY <1>5
  <2>2. n \in Nat /\ t[2] < n /\ n <= newest[t[1]]
    BY <1>1, <2>1
  <2>3. n < newest[t[1]] => n \in t[2] .. newest[t[1]] - 1
    BY <1>1, <2>2
  <2> QED BY <1>1, <1>5, <2>1, <2>2, <2>3
<1>6. NewestOfLine(t) = CHOOSE u \in S : Ok(u)
  BY DEF NewestOfLine
<1>7. NewestOfLine(t) = end
  <2> HIDE DEF S, Ok, end
  <2> QED BY <1>4, <1>5, <1>6
<1>8. Handed(end)
  BY <1>1, <1>2 DEF Handed
<1>9. Leads(t) <=> Stands(t[1])
  BY <1>2, <1>7 DEF Leads, Current, Grant
<1> QED BY <1>1, <1>7, <1>8, <1>9

(* A token that was handed out renews its connection, or has an excuse.    *)
LEMMA HandedRenews ==
  ASSUME TypeOK, Lines, NEW t, Handed(t)
  PROVE  Current(t) \/ Leads(t) \/ Excused(t)
<1>1. t \in Token /\ t[1] \in Grants /\ t[2] \in Nat
      /\ newest[t[1]] \in Nat /\ t = <<t[1], t[2]>> /\ Grant(t) = t[1]
      /\ 1 <= t[2] /\ t[2] <= newest[t[1]]
  BY Tokens DEF Handed, TypeOK
<1>2. CASE t[2] = newest[t[1]]
  BY <1>1, <1>2 DEF Current, Excused
<1>3. CASE t[2] < newest[t[1]]
  <2>1. t \in renewals \cup cut
    BY <1>1, <1>3 DEF Lines
  <2>2. CASE t \in renewals
    BY <1>1, <2>2, LineEnds DEF Excused
  <2> QED BY <2>1, <2>2 DEF Excused
<1> QED BY <1>1, <1>2, <1>3

LEMMA Reasons == IInv => RefusedForAReason
<1> SUFFICES ASSUME IInv PROVE RefusedForAReason
  OBVIOUS
<1>1. ASSUME NEW m \in Machines, req[m] # Nil, req[m].pc = "refused"
      PROVE  Excused(req[m].token)
  BY <1>1 DEF IInv, Sound, Excused, Stands
<1>2. ASSUME NEW g \in Grants, NEW n \in 1 .. newest[g]
      PROVE  Renewable(<<g, n>>) \/ Excused(<<g, n>>)
  <2>1. n \in Nat
    BY <1>2 DEF IInv, TypeOK
  <2>2. Handed(<<g, n>>)
    BY <1>2, <2>1, Tokens DEF Handed
  <2> QED BY <2>2, HandedRenews DEF IInv, Renewable
<1> QED BY <1>1, <1>2 DEF RefusedForAReason

-----------------------------------------------------------------------------
(* The types.                                                              *)

LEMMA InitType == Init => IInv
<1> SUFFICES ASSUME Init PROVE IInv
  OBVIOUS
<1>1. TypeOK
  BY DEF Init, TypeOK
<1>2. Lines
  BY DEF Init, Lines
<1> QED BY <1>1, <1>2 DEF Init, IInv, Codes

LEMMA ReqType ==
  ASSUME TypeOK, NEW m \in Machines, req[m] # Nil
  PROVE  /\ req[m] \in Requests
         /\ req[m].token \in Token /\ Grant(req[m].token) \in Grants
BY Tokens DEF TypeOK, Requests

(* A request that moves on keeps its type.                                 *)
LEMMA ToType ==
  ASSUME TypeOK, NEW m \in Machines, req[m] # Nil, NEW pc \in Places,
         To(m, pc)
  PROVE  req' \in [Machines -> Requests \cup {Nil}]
BY ReqType DEF TypeOK, To, Requests

LEMMA ToMoves ==
  ASSUME TypeOK, NEW m \in Machines, req[m] # Nil, NEW pc \in Places,
         To(m, pc)
  PROVE  /\ req'[m].pc = pc /\ req'[m].token = req[m].token
         /\ req'[m].next = req[m].next
         /\ \A k \in Machines \ {m} : req'[k] = req[k]
BY ReqType DEF TypeOK, To, Requests

LEMMA NewType ==
  ASSUME TypeOK, NEW m \in Machines, NEW pc \in Places, NEW t \in Token,
         NEW u \in Token \cup {Nil},
         req' = [req EXCEPT ![m] = Request(pc, t, u)]
  PROVE  req' \in [Machines -> Requests \cup {Nil}]
BY DEF TypeOK, Request, Requests

LEMMA EndsType ==
  ASSUME TypeOK, NEW m \in Machines, Ends(m)
  PROVE  req' \in [Machines -> Requests \cup {Nil}]
BY DEF TypeOK, Ends

LEMMA EndType ==
  ASSUME TypeOK, NEW g \in Grants, End(g)
  PROVE  /\ life' \in [Grants -> {"new", "code", "seen", "stands", "ended"}]
         /\ access' \subseteq Token /\ \A a \in access' : Stands(Grant(a))'
<1>1. life' \in [Grants -> {"new", "code", "seen", "stands", "ended"}]
  BY DEF TypeOK, End
<1>2. access' \subseteq access
  BY DEF End
<1>3. ASSUME NEW a \in access' PROVE Stands(Grant(a))'
  <2>1. a \in access /\ a \in Token /\ Grant(a) # g /\ Grant(a) \in Grants
    BY <1>3, Tokens DEF End, TypeOK
  <2>2. life'[Grant(a)] = life[Grant(a)]
    BY <2>1 DEF End, TypeOK
  <2> QED BY <2>1, <2>2 DEF TypeOK, Stands
<1> QED BY <1>1, <1>2, <1>3 DEF TypeOK

-----------------------------------------------------------------------------
(* What a step of one machine leaves to the others.                        *)

LEMMA HandedStays ==
  ASSUME TypeOK, NEW t, Handed(t),
         \A g \in Grants : newest'[g] \in Nat /\ newest[g] <= newest'[g]
  PROVE  Handed(t)'
<1>1. t \in Token /\ t[1] \in Grants /\ t[2] \in Nat /\ newest[t[1]] \in Nat
  BY Tokens DEF Handed, TypeOK
<1> QED BY <1>1 DEF Handed

LEMMA SoundStays ==
  ASSUME IInv, NEW k \in Machines, req[k] # Nil, req'[k] = req[k],
         \A g \in Grants : newest'[g] \in Nat /\ newest[g] <= newest'[g],
         cut \subseteq cut',
         LET g == Grant(req[k].token)
         IN  /\ life[g] = "ended" => life'[g] = "ended"
             /\ req[k].pc = "found" => life'[g] \in {"code", "ended"}
             /\ req[k].pc = "insert" => life'[g] = "seen"
             /\ req[k].pc = "rotate" => lock' = lock /\ newest'[g] = newest[g]
  PROVE  Sound(k)'
<1> DEFINE r == req[k]
           t == r.token
           g == Grant(t)
<1>1. Sound(k) /\ TypeOK
  BY DEF IInv
<1>2. r \in Requests /\ t \in Token /\ g \in Grants
  BY <1>1, ReqType
<1>3. /\ Handed(t) => Handed(t)'
      /\ Handed(r.next) => Handed(r.next)'
  BY <1>1, HandedStays
<1>4. /\ r.pc \in {"found", "insert"} => t = <<g, 0>> /\ r.next = <<g, 1>>
      /\ r.pc = "answered" => r.access \in Token
  BY <1>1 DEF Sound
<1>5. /\ r.pc = "found" => life'[g] \in {"code", "ended"}
      /\ r.pc = "insert" => life'[g] = "seen"
  OBVIOUS
<1>6. r.pc \in {"wait", "revoke", "end"} => Handed(t)'
  BY <1>1, <1>3 DEF Sound
<1>7. r.pc = "rotate" => /\ lock' = k /\ Handed(t)' /\ t[2] = newest'[g]
                         /\ r.next = Later(t)
  BY <1>1, <1>3 DEF Sound
<1>8. r.pc \in {"issue", "answered"} => Handed(r.next)'
  BY <1>1, <1>3 DEF Sound
<1>9. r.pc = "refused" => life'[g] = "ended" \/ t \in cut'
  BY <1>1 DEF Sound
<1> QED
  BY <1>4, <1>5, <1>6, <1>7, <1>8, <1>9 DEF Sound, Grant, Later

LEMMA OthersStay ==
  ASSUME IInv, NEW m \in Machines, UNCHANGED <<life, newest>>,
         cut \subseteq cut', lock' = lock \/ Unlock(m) \/ lock = Nil,
         NEW k \in Machines, k # m, req[k] # Nil, req'[k] = req[k]
  PROVE  Sound(k)'
<1>1. Sound(k) /\ TypeOK
  BY DEF IInv
<1>2. \A g \in Grants : newest'[g] \in Nat /\ newest[g] <= newest'[g]
  BY <1>1 DEF TypeOK
<1>3. req[k].pc = "rotate" => lock' = lock
  BY <1>1, NilAssumption DEF Sound, Unlock
<1> QED BY <1>1, <1>2, <1>3, SoundStays DEF Sound

(* A step of one machine that leaves the connections as they are.          *)
LEMMA MachineStep ==
  ASSUME IInv, TypeOK', NEW m \in Machines,
         UNCHANGED <<life, newest, renewals, cut>>,
         lock' = lock \/ Unlock(m) \/ lock = Nil,
         \A k \in Machines \ {m} : req'[k] = req[k],
         req'[m] # Nil => Sound(m)' /\ req'[m].pc \notin {"found", "insert"},
         store' # Nil => store' = store \/ Handed(store'.refresh)
  PROVE  IInv'
<1>1. Lines'
  BY DEF IInv, Lines
<1>2. ASSUME NEW k \in Machines, req'[k] # Nil PROVE Sound(k)'
  BY <1>2, OthersStay
<1>3. Codes'
  BY DEF IInv, Codes
<1>4. (store # Nil => Handed(store.refresh))'
  BY DEF IInv, Handed
<1> QED BY <1>1, <1>2, <1>3, <1>4 DEF IInv

LEMMA IssueStep ==
  ASSUME IInv, NEW m \in Machines, IssueAccess(m) PROVE IInv'
<1> DEFINE r == req[m]
           g == Grant(r.next)
           fresh == <<g, minted[g] + 1>>
<1>1. /\ TypeOK /\ Sound(m) /\ r # Nil /\ r.pc = "issue" /\ Unlock(m)
      /\ UNCHANGED <<life, newest, renewals, store, events, cut>>
  BY DEF IInv, IssueAccess
<1>2. Handed(r.next) /\ g \in Grants /\ minted[g] \in Nat /\ fresh \in Token
      /\ Grant(fresh) = g
  BY <1>1, Tokens DEF Sound, Handed, TypeOK
<1>3. lock' \in Machines \cup {Nil}
  BY <1>1 DEF Unlock, TypeOK
<1>4. CASE Takes(g)
  <2>1. /\ access' = access \cup {fresh}
        /\ minted' = [minted EXCEPT ![g] = @ + 1]
        /\ req' = [req EXCEPT ![m].pc = "answered", ![m].access = fresh]
    BY <1>4 DEF IssueAccess
  <2>2. req' \in [Machines -> Requests \cup {Nil}]
    <3> DEFINE q == [r EXCEPT !.pc = "answered", !.access = fresh]
    <3>1. r \in Requests
      BY <1>1, ReqType
    <3>2. q \in Requests
      <4> HIDE DEF fresh
      <4> QED BY <1>2, <3>1 DEF Requests, Places
    <3>3. req' = [req EXCEPT ![m] = q]
      BY <1>1, <2>1, <3>1 DEF TypeOK, Requests
    <3> HIDE DEF q
    <3> QED BY <1>1, <3>2, <3>3 DEF TypeOK
  <2>3. access' \subseteq Token /\ \A a \in access' : Stands(Grant(a))'
    BY <1>1, <1>2, <1>4, <2>1 DEF TypeOK, Takes, Stands
  <2>4. TypeOK'
    BY <1>1, <1>2, <1>3, <2>1, <2>2, <2>3 DEF TypeOK
  <2>5. req'[m].pc = "answered" /\ req'[m].next = r.next
        /\ req'[m].access = fresh
    BY <1>1, <2>1, ReqType DEF TypeOK, Requests
  <2>6. Sound(m)'
    BY <1>1, <1>2, <2>5 DEF Sound, Handed
  <2> QED BY <1>1, <2>1, <2>4, <2>5, <2>6, MachineStep DEF TypeOK
<1>5. CASE ~Takes(g)
  <2>1. UNCHANGED <<access, minted>> /\ To(m, "failed")
    BY <1>5 DEF IssueAccess
  <2>2. TypeOK'
    BY <1>1, <1>3, <2>1, ToType DEF TypeOK, Places, Stands
  <2>3. req'[m].pc = "failed"
    BY <1>1, <2>1, ReqType DEF To, TypeOK, Requests
  <2>4. Sound(m)'
    BY <2>3 DEF Sound
  <2> QED BY <1>1, <2>1, <2>2, <2>3, <2>4, MachineStep DEF TypeOK, To
<1> QED BY <1>4, <1>5

LEMMA FindStep ==
  ASSUME IInv, NEW m \in Machines, FindGrant(m) PROVE IInv'
<1> DEFINE r == req[m]
           t == r.token
<1>1. /\ TypeOK /\ Lines /\ Sound(m) /\ r # Nil /\ r.pc = "wait"
      /\ UNCHANGED <<rows, renewals, store, events, cut>>
  BY DEF IInv, FindGrant
<1>2. /\ Handed(t) /\ t \in Token /\ Later(t) \in Token /\ Grant(t) \in Grants
      /\ Grant(t) = t[1] /\ t = <<t[1], t[2]>>
  BY <1>1, Tokens DEF Sound, Handed
<1>3. CASE Current(t) /\ Locked(m)
           /\ req' = [req EXCEPT ![m] = Request("rotate", t, Later(t))]
  <2>1. req'[m] = Request("rotate", t, Later(t))
    BY <1>1, <1>3 DEF TypeOK
  <2>2. TypeOK'
    BY <1>1, <1>2, <1>3, NewType DEF rows, TypeOK, Places, Locked, Stands
  <2>3. Sound(m)'
    BY <1>1, <1>2, <1>3, <2>1
       DEF rows, Sound, Handed, Request, Current, Locked, Later, Grant
  <2> QED BY <1>1, <1>3, <2>1, <2>2, <2>3, MachineStep
          DEF rows, Locked, Request, TypeOK
<1>4. CASE Leads(t) /\ Locked(m)
           /\ req' = [req EXCEPT ![m] = Request("issue", t, NewestOfLine(t))]
  <2>1. req'[m] = Request("issue", t, NewestOfLine(t))
    BY <1>1, <1>4 DEF TypeOK
  <2>2. Handed(NewestOfLine(t)) /\ NewestOfLine(t) \in Token
    BY <1>1, <1>4, LineEnds DEF Leads, Handed
  <2>3. TypeOK'
    BY <1>1, <1>2, <1>4, <2>2, NewType
       DEF rows, TypeOK, Places, Locked, Stands
  <2>4. Sound(m)'
    BY <1>1, <2>1, <2>2 DEF rows, Sound, Handed, Request
  <2> QED BY <1>1, <1>4, <2>1, <2>3, <2>4, MachineStep
          DEF rows, Locked, Request, TypeOK
<1>5. CASE ~Current(t) /\ ~Leads(t) /\ lock' = lock /\ To(m, "refused")
  <2>1. req'[m].pc = "refused" /\ req'[m].token = t
    BY <1>1, <1>5, ReqType DEF To, TypeOK, Requests
  <2>2. TypeOK'
    BY <1>1, <1>5, ToType DEF rows, TypeOK, Places, Stands
  <2>3. Excused(t)
    BY <1>1, <1>2, <1>5, HandedRenews
  <2>4. newest[Grant(t)] # 0
    BY <1>1, <1>2 DEF Handed, TypeOK
  <2>5. life[Grant(t)] = "ended" \/ t \in cut
    BY <1>1, <1>2, <2>3, <2>4 DEF Excused, Lines, TypeOK, Stands
  <2>6. Sound(m)'
    BY <1>1, <2>1, <2>5 DEF rows, Sound, Grant
  <2> QED BY <1>1, <1>5, <2>1, <2>2, <2>6, MachineStep DEF rows, TypeOK, To
<1> QED BY <1>3, <1>4, <1>5 DEF FindGrant

(* A request that ends, whatever becomes of the stored pair.               *)
LEMMA EndedStep ==
  ASSUME IInv, NEW m \in Machines, Ends(m), UNCHANGED <<rows, renewals, cut>>,
         lock' = lock, events' \in Nat, store' \in Pair \cup {Nil},
         store' # Nil => store' = store \/ Handed(store'.refresh)
  PROVE  IInv'
<1>1. TypeOK
  BY DEF IInv
<1>2. TypeOK'
  BY <1>1, EndsType DEF rows, TypeOK, Stands
<1> QED BY <1>1, <1>2, MachineStep DEF rows, Ends, TypeOK

LEMMA MoreEvents == ASSUME TypeOK, Spend PROVE events' \in Nat
BY DEF TypeOK, Spend

LEMMA HearStep ==
  ASSUME IInv, NEW m \in Machines,
         Store(m) \/ Drop(m) \/ Error(m) \/ Lose(m)
  PROVE  IInv'
<1>1. TypeOK
  BY DEF IInv
<1>2. CASE Store(m)
  <2>1. Sound(m) /\ req[m].pc = "answered" /\ req[m] \in Requests
    BY <1>1, <1>2, ReqType DEF Store, IInv
  <2>2. Handed(req[m].next) /\ req[m].access \in Token
    BY <2>1 DEF Sound
  <2>3. store' \in Pair /\ store'.refresh = req[m].next
    BY <1>2, <2>2 DEF Store, Pair, Handed
  <2> QED BY <1>1, <1>2, <2>2, <2>3, EndedStep DEF Store, TypeOK
<1>3. CASE Drop(m)
  BY <1>1, <1>3, EndedStep DEF Drop, TypeOK
<1>4. CASE Error(m)
  BY <1>1, <1>4, EndedStep DEF Error, TypeOK
<1>5. CASE Lose(m)
  BY <1>1, <1>5, MoreEvents, EndedStep DEF Lose, TypeOK
<1> QED BY <1>2, <1>3, <1>4, <1>5

(* What a platform asks for it asks for with the pair it has stored.       *)
LEMMA AskStep ==
  ASSUME IInv, NEW m \in Machines, Renew(m) \/ Disconnect(m) PROVE IInv'
<1>1. /\ TypeOK /\ req[m] = Nil /\ store # Nil
      /\ UNCHANGED <<rows, renewals, lock, cut>>
      /\ store' \in {store, Nil}
  BY DEF IInv, Renew, Disconnect
<1>2. Handed(store.refresh) /\ store.refresh \in Token
  BY <1>1 DEF IInv, Handed
<1>3. PICK pc \in {"wait", "revoke"} :
        req' = [req EXCEPT ![m] = Request(pc, store.refresh, Nil)]
  BY DEF Renew, Disconnect
<1>4. events' \in Nat
  BY <1>1, MoreEvents DEF Renew, Disconnect, TypeOK
<1>5. req' \in [Machines -> Requests \cup {Nil}]
  BY <1>1, <1>2, <1>3, NewType DEF Places
<1>6. TypeOK'
  BY <1>1, <1>4, <1>5 DEF rows, TypeOK, Stands
<1>7. req'[m] = Request(pc, store.refresh, Nil)
  BY <1>1, <1>3 DEF TypeOK
<1>8. Sound(m)'
  BY <1>1, <1>2, <1>7 DEF rows, Sound, Handed, Request
<1> QED BY <1>1, <1>3, <1>6, <1>7, <1>8, MachineStep DEF rows, Request, TypeOK

LEMMA FailStep ==
  ASSUME IInv, NEW m \in Machines, Fails(m) PROVE IInv'
<1>1. /\ TypeOK /\ req[m] # Nil /\ To(m, "failed") /\ Unlock(m)
      /\ UNCHANGED <<rows, renewals, store, cut>> /\ events' \in Nat
  BY MoreEvents DEF IInv, Fails, Release
<1>2. lock' \in Machines \cup {Nil}
  BY <1>1 DEF Unlock, TypeOK
<1>3. TypeOK'
  BY <1>1, <1>2, ToType DEF rows, TypeOK, Places, Stands
<1>4. req'[m].pc = "failed"
  BY <1>1, ReqType DEF To, TypeOK, Requests
<1>5. Sound(m)'
  BY <1>4 DEF Sound
<1> QED BY <1>1, <1>3, <1>4, <1>5, MachineStep DEF rows, TypeOK, To

LEMMA FindRevokedStep ==
  ASSUME IInv, NEW m \in Machines, FindRevoked(m) PROVE IInv'
<1>1. /\ TypeOK /\ req[m] # Nil
      /\ UNCHANGED <<rows, renewals, lock, store, events, cut>>
  BY DEF IInv, FindRevoked
<1>2. CASE To(m, "end")
  <2>1. TypeOK'
    BY <1>1, <1>2, ToType DEF rows, TypeOK, Places, Stands
  <2>2. req'[m].pc = "end" /\ req'[m].token = req[m].token
    BY <1>1, <1>2, ToMoves DEF Places
  <2>3. Sound(m) /\ req[m].pc = "revoke"
    BY <1>1 DEF IInv, FindRevoked
  <2>4. Sound(m)'
    BY <1>1, <2>2, <2>3 DEF rows, Sound, Handed
  <2> QED BY <1>1, <1>2, <2>1, <2>2, <2>4, MachineStep DEF rows, TypeOK, To
<1>3. CASE Ends(m)
  BY <1>1, <1>3, EndedStep DEF TypeOK
<1> QED BY <1>2, <1>3 DEF FindRevoked

LEMMA DropCodeStep ==
  ASSUME IInv, NEW m \in Machines, DropCode(m) PROVE IInv'
<1> DEFINE g == Grant(req[m].token)
<1>1. /\ TypeOK /\ Lines /\ Codes /\ Sound(m) /\ req[m] # Nil
      /\ req[m].pc = "found" /\ g \in Grants
      /\ UNCHANGED <<newest, access, minted, renewals, lock, store, events,
                     cut>>
  BY ReqType DEF IInv, DropCode
<1>2. CASE life[g] = "code"
  <2>1. life' = [life EXCEPT ![g] = "seen"] /\ To(m, "insert")
    BY <1>2 DEF DropCode
  <2>2. /\ req' \in [Machines -> Requests \cup {Nil}]
        /\ life' \in [Grants -> {"new", "code", "seen", "stands", "ended"}]
    BY <1>1, <2>1, ToType DEF TypeOK, Places
  <2>3. \A a \in access : Stands(Grant(a))'
    BY <1>1, <1>2, <2>1, Tokens DEF TypeOK, Stands
  <2>4. TypeOK'
    BY <1>1, <2>2, <2>3 DEF TypeOK
  <2>5. Lines'
    BY <1>1, <1>2, <2>1 DEF Lines, TypeOK
  <2>6. /\ req'[m].pc = "insert" /\ req'[m].token = req[m].token
        /\ req'[m].next = req[m].next
        /\ \A k \in Machines \ {m} : req'[k] = req[k]
    BY <1>1, <2>1, ToMoves DEF Places
  <2>7. Codes'
    BY <1>1, <2>6 DEF Codes
  <2>8. Sound(m)'
    BY <1>1, <2>1, <2>6 DEF Sound, TypeOK, Grant
  <2>9. ASSUME NEW k \in Machines, k # m, req'[k] # Nil PROVE Sound(k)'
    <3>1. req'[k] = req[k] /\ Sound(k) /\ Grant(req[k].token) \in Grants
      BY <1>1, <2>6, <2>9, ReqType DEF IInv
    <3>2. req[k].pc \in {"found", "insert"} => Grant(req[k].token) # g
      BY <1>1, <2>9, <3>1 DEF Codes
    <3>3. req[k].pc \in {"found", "insert"} =>
            life'[Grant(req[k].token)] = life[Grant(req[k].token)]
      BY <1>1, <2>1, <3>1, <3>2 DEF TypeOK
    <3>4. life[Grant(req[k].token)] = "ended" =>
            life'[Grant(req[k].token)] = "ended"
      BY <1>1, <1>2, <2>1, <3>1 DEF TypeOK
    <3> QED BY <1>1, <2>9, <3>1, <3>3, <3>4, SoundStays DEF Sound, TypeOK
  <2> QED BY <1>1, <2>4, <2>5, <2>7, <2>8, <2>9 DEF IInv, Handed
<1>3. CASE life[g] # "code"
  <2>1. life' = life /\ To(m, "refused")
    BY <1>3 DEF DropCode
  <2>2. TypeOK'
    BY <1>1, <2>1, ToType DEF TypeOK, Places, Stands
  <2>3. req'[m].pc = "refused" /\ req'[m].token = req[m].token
    BY <1>1, <2>1, ReqType DEF To, TypeOK, Requests
  <2>4. life'[g] = "ended"
    BY <1>1, <1>3, <2>1 DEF Sound
  <2>5. Sound(m)'
    BY <2>3, <2>4 DEF Sound, Grant
  <2> QED BY <1>1, <2>1, <2>2, <2>3, <2>5, MachineStep DEF TypeOK, To
<1> QED BY <1>2, <1>3

LEMMA InsertStep ==
  ASSUME IInv, NEW m \in Machines, InsertGrant(m) PROVE IInv'
<1> DEFINE g == Grant(req[m].token)
<1>1. /\ TypeOK /\ Lines /\ Codes /\ Sound(m) /\ req[m] # Nil
      /\ req[m].pc = "insert" /\ g \in Grants /\ life[g] = "seen"
      /\ newest[g] = 0 /\ req[m].next = <<g, 1>> /\ To(m, "issue")
      /\ life' = [life EXCEPT ![g] = "stands"]
      /\ newest' = [newest EXCEPT ![g] = 1]
      /\ UNCHANGED <<access, minted, renewals, lock, store, events, cut>>
  BY ReqType DEF IInv, InsertGrant, Sound, Lines
<1>2. \A h \in Grants : newest'[h] \in Nat /\ newest[h] <= newest'[h]
                        /\ (h # g => newest'[h] = newest[h])
                        /\ (h # g => life'[h] = life[h])
  BY <1>1 DEF TypeOK
<1>3. TypeOK'
  <2>1. req' \in [Machines -> Requests \cup {Nil}]
    BY <1>1, ToType DEF Places
  <2>2. \A a \in access : Stands(Grant(a))'
    BY <1>1, Tokens DEF TypeOK, Stands
  <2> QED BY <1>1, <2>1, <2>2 DEF TypeOK
<1>4. Lines'
  <2>1. \A h \in Grants : \A n \in 1 .. newest'[h] - 1 :
           <<h, n>> \in renewals \cup cut
    <3> SUFFICES ASSUME NEW h \in Grants, NEW n \in 1 .. newest'[h] - 1
                 PROVE  <<h, n>> \in renewals \cup cut
      OBVIOUS
    <3>1. h # g
      <4> SUFFICES ASSUME h = g PROVE FALSE
        OBVIOUS
      <4>1. newest'[h] = 1
        BY <1>1 DEF TypeOK
      <4> QED BY <4>1
    <3>2. newest'[h] = newest[h]
      BY <1>2, <3>1
    <3> QED BY <1>1, <3>2 DEF Lines
  <2>2. \A t \in renewals : t[1] \in Grants /\ t[1] # g
    <3> SUFFICES ASSUME NEW t \in renewals PROVE t[1] \in Grants /\ t[1] # g
      OBVIOUS
    <3>1. t[1] \in Grants /\ t[2] \in Nat /\ 1 <= t[2] /\ t[2] < newest[t[1]]
      BY <1>1, Tokens DEF Lines, TypeOK
    <3> QED BY <1>1, <3>1
  <2>3. \A h \in Grants :
          life'[h] \in {"new", "code", "seen"} => newest'[h] = 0
    BY <1>1 DEF Lines, TypeOK
  <2> QED BY <1>1, <1>2, <2>1, <2>2, <2>3 DEF Lines
<1>5. /\ req'[m].pc = "issue" /\ req'[m].next = <<g, 1>>
      /\ \A k \in Machines \ {m} : req'[k] = req[k]
  BY <1>1, ToMoves DEF Places
<1>6. Codes'
  BY <1>1, <1>5 DEF Codes
<1>7. Sound(m)'
  BY <1>1, <1>5, Tokens DEF Sound, Handed, TypeOK
<1>8. ASSUME NEW k \in Machines, k # m, req'[k] # Nil PROVE Sound(k)'
  <2>1. req'[k] = req[k] /\ Sound(k) /\ Grant(req[k].token) \in Grants
    BY <1>1, <1>5, <1>8, ReqType DEF IInv
  <2>2. req[k].pc \in {"found", "insert"} => Grant(req[k].token) # g
    BY <1>1, <1>8, <2>1 DEF Codes
  <2>3. life[Grant(req[k].token)] = "ended" => Grant(req[k].token) # g
    BY <1>1
  <2>4. req[k].pc = "rotate" => Grant(req[k].token) # g
    <3> SUFFICES ASSUME req[k].pc = "rotate", Grant(req[k].token) = g
                 PROVE FALSE
      OBVIOUS
    <3> QED BY <1>1, <2>1, Tokens DEF Sound, Handed
  <2> QED BY <1>1, <1>2, <1>8, <2>1, <2>2, <2>3, <2>4, SoundStays DEF Sound
<1>9. store # Nil => Handed(store.refresh)'
  BY <1>1, <1>2, HandedStays DEF IInv
<1> QED BY <1>1, <1>3, <1>4, <1>6, <1>7, <1>8, <1>9 DEF IInv

LEMMA RotateStep ==
  ASSUME IInv, NEW m \in Machines, Rotate(m) PROVE IInv'
<1> DEFINE r == req[m]
           t == r.token
           g == Grant(t)
<1>1. /\ TypeOK /\ Lines /\ Codes /\ Sound(m) /\ r # Nil /\ r.pc = "rotate"
      /\ UNCHANGED <<life, access, minted, store, events, cut>>
  BY DEF IInv, Rotate
<1>2. /\ Handed(t) /\ t \in Token /\ t = <<t[1], t[2]>> /\ g = t[1]
      /\ g \in Grants /\ t[2] = newest[g] /\ newest[g] \in Nat
      /\ 1 <= newest[g] /\ r.next = Later(t) /\ Later(t) = <<g, t[2] + 1>>
      /\ lock = m
  BY <1>1, Tokens DEF Sound, Handed, TypeOK
<1>3. CASE Current(t)
  <2>1. /\ newest' = [newest EXCEPT ![g] = @ + 1]
        /\ renewals' = renewals \cup {t} /\ To(m, "issue") /\ lock' = lock
        /\ life[g] = "stands"
    BY <1>3 DEF Rotate, Current, Stands
  <2>2. /\ newest'[g] = newest[g] + 1
        /\ \A h \in Grants : newest'[h] \in Nat /\ newest[h] <= newest'[h]
                           /\ (h # g => newest'[h] = newest[h])
    BY <1>1, <1>2, <2>1 DEF TypeOK
  <2>3. TypeOK'
    <3>1. req' \in [Machines -> Requests \cup {Nil}]
      BY <1>1, <2>1, ToType DEF Places
    <3> QED BY <1>1, <1>2, <2>1, <3>1 DEF TypeOK, Stands
  <2>4. Lines'
    <3>1. ASSUME NEW h \in Grants, NEW n \in 1 .. newest'[h] - 1
          PROVE  <<h, n>> \in renewals' \cup cut'
      <4>1. CASE h = g /\ n = newest[g]
        BY <1>2, <2>1, <4>1
      <4>2. CASE ~(h = g /\ n = newest[g])
        <5>1. n \in 1 .. newest[h] - 1
          BY <1>2, <2>2, <3>1, <4>2
        <5> QED BY <1>1, <2>1, <5>1 DEF Lines
      <4> QED BY <4>1, <4>2
    <3>2. ASSUME NEW u \in renewals'
          PROVE  /\ 1 <= u[2] /\ u[2] < newest'[u[1]]
                 /\ \A n \in u[2] .. newest'[u[1]] - 1 :
                      <<u[1], n>> \in renewals'
      <4>1. CASE u = t
        <5>1. u[1] = g /\ u[2] = newest[g]
          BY <1>2, <4>1
        <5>2. \A n \in u[2] .. newest'[u[1]] - 1 : n = u[2]
          BY <1>2, <2>2, <5>1
        <5> QED BY <1>2, <2>1, <2>2, <4>1, <5>1, <5>2
      <4>2. CASE u \in renewals
        <5>1. /\ u[1] \in Grants /\ u[2] \in Nat /\ newest[u[1]] \in Nat
              /\ 1 <= u[2] /\ u[2] < newest[u[1]]
              /\ \A n \in u[2] .. newest[u[1]] - 1 : <<u[1], n>> \in renewals
          BY <1>1, <4>2, Tokens DEF TypeOK, Lines
        <5>2. u[2] < newest'[u[1]]
          BY <2>2, <5>1
        <5>3. ASSUME NEW n \in u[2] .. newest'[u[1]] - 1
              PROVE  <<u[1], n>> \in renewals'
          <6>1. CASE u[1] = g /\ n = newest[g]
            BY <1>2, <2>1, <6>1
          <6>2. CASE ~(u[1] = g /\ n = newest[g])
            <7>1. n \in u[2] .. newest[u[1]] - 1
              BY <1>2, <2>2, <5>1, <5>3, <6>2
            <7> QED BY <2>1, <5>1, <7>1
          <6> QED BY <6>1, <6>2
        <5> QED BY <5>1, <5>2, <5>3
      <4> QED BY <2>1, <4>1, <4>2
    <3>3. \A h \in Grants :
            life'[h] \in {"new", "code", "seen"} => newest'[h] = 0
      BY <1>1, <1>2, <2>1, <2>2 DEF Lines
    <3> QED BY <3>1, <3>2, <3>3 DEF Lines
  <2>5. /\ req'[m].pc = "issue" /\ req'[m].next = Later(t)
        /\ \A k \in Machines \ {m} : req'[k] = req[k]
    BY <1>1, <1>2, <2>1, ToMoves DEF Places
  <2>6. Codes'
    BY <1>1, <2>5 DEF Codes
  <2>7. req'[m].next \in Token /\ req'[m].next[2] \in 1 .. newest'[g]
        /\ req'[m].next[1] = g
    <3> DEFINE n == newest[g] + 1
    <3>1. req'[m].next = <<g, n>> /\ n \in Nat /\ n \in 1 .. newest'[g]
      BY <1>2, <2>2, <2>5
    <3> HIDE DEF n
    <3> QED BY <1>2, <3>1, Tokens
  <2>8. Sound(m)'
    BY <2>5, <2>7 DEF Sound, Handed
  <2>9. ASSUME NEW k \in Machines, k # m, req'[k] # Nil PROVE Sound(k)'
    <3>1. req'[k] = req[k] /\ Sound(k) /\ Grant(req[k].token) \in Grants
      BY <1>1, <2>5, <2>9, ReqType DEF IInv
    <3>2. req[k].pc # "rotate"
      BY <1>2, <2>9, <3>1 DEF Sound
    <3> QED BY <1>1, <2>2, <2>9, <3>1, <3>2, SoundStays DEF Sound
  <2>10. store # Nil => Handed(store.refresh)'
    BY <1>1, <2>2, HandedStays DEF IInv
  <2> QED BY <1>1, <2>3, <2>4, <2>6, <2>8, <2>9, <2>10 DEF IInv
<1>4. CASE ~Current(t)
  <2>1. UNCHANGED <<newest, renewals>> /\ To(m, "refused") /\ Unlock(m)
    BY <1>4 DEF Rotate
  <2>2. lock' \in Machines \cup {Nil}
    BY <1>1, <2>1 DEF Unlock, TypeOK
  <2>3. TypeOK'
    BY <1>1, <2>1, <2>2, ToType DEF TypeOK, Places, Stands
  <2>4. req'[m].pc = "refused" /\ req'[m].token = t
    BY <1>1, <2>1, ToMoves DEF Places
  <2>5. life'[g] = "ended"
    BY <1>1, <1>2, <1>4 DEF Current, Stands, Lines, TypeOK
  <2>6. Sound(m)'
    BY <2>4, <2>5 DEF Sound, Grant
  <2> QED BY <1>1, <2>1, <2>3, <2>4, <2>6, MachineStep DEF TypeOK, To
<1> QED BY <1>3, <1>4

LEMMA ReadCodeStep ==
  ASSUME IInv, NEW m \in Machines, NEW g \in Grants, ReadCode(m, g)
  PROVE  IInv'
<1>1. /\ TypeOK /\ Lines /\ Codes /\ req[m] = Nil /\ life[g] = "code"
      /\ \A k \in Machines : req[k] # Nil => req[k].token # <<g, 0>>
      /\ req' = [req EXCEPT ![m] = Request("found", <<g, 0>>, <<g, 1>>)]
      /\ UNCHANGED <<rows, renewals, lock, store, events, cut>>
  BY DEF IInv, ReadCode
<1>2. /\ <<g, 0>> \in Token /\ <<g, 1>> \in Token /\ Grant(<<g, 0>>) = g
  BY Tokens
<1>3. TypeOK'
  BY <1>1, <1>2, NewType DEF rows, TypeOK, Places, Stands
<1>4. /\ req'[m].pc = "found" /\ req'[m].token = <<g, 0>>
      /\ req'[m].next = <<g, 1>>
      /\ \A k \in Machines \ {m} : req'[k] = req[k]
  BY <1>1 DEF TypeOK, Request
<1>5. Sound(m)'
  BY <1>1, <1>2, <1>4 DEF rows, Sound, Grant
<1>6. ASSUME NEW k \in Machines, k # m, req'[k] # Nil PROVE Sound(k)'
  BY <1>1, <1>4, <1>6, OthersStay DEF rows
<1>7. ASSUME NEW k \in Machines, k # m, req[k] # Nil,
             req[k].pc \in {"found", "insert"}
      PROVE  Grant(req[k].token) # g
  <2>1. Sound(k) /\ req[k].token # <<g, 0>>
    BY <1>1, <1>7 DEF IInv
  <2> QED BY <1>7, <2>1 DEF Sound
<1>8. Codes'
  <2> SUFFICES ASSUME NEW j \in Machines, NEW k \in Machines,
                      req'[j] # Nil, req'[k] # Nil,
                      {req'[j].pc, req'[k].pc} \subseteq {"found", "insert"},
                      Grant(req'[j].token) = Grant(req'[k].token)
               PROVE  j = k
    BY DEF Codes, Grant
  <2> QED BY <1>1, <1>2, <1>4, <1>7 DEF Codes
<1>9. Lines'
  BY <1>1 DEF rows, Lines
<1> QED BY <1>1, <1>3, <1>5, <1>6, <1>8, <1>9 DEF IInv, rows, Handed

-----------------------------------------------------------------------------
(* What happens to a connection by itself.                                 *)

(* A connection whose life goes on, with every request where it was.       *)
LEMMA LifeStep ==
  ASSUME IInv, TypeOK', NEW g \in Grants, NEW l,
         life' = [life EXCEPT ![g] = l],
         l \in {"new", "code", "seen"} => life[g] \in {"new", "code", "seen"},
         UNCHANGED <<newest, renewals, lock, req, cut>>,
         store' = store,
         \/ life[g] = "new"
         \/ l = "ended" /\ life[g] # "seen"
  PROVE  IInv'
<1>1. TypeOK /\ Lines /\ Codes
  BY DEF IInv
<1>2. Lines'
  BY <1>1 DEF Lines, TypeOK
<1>3. Codes'
  BY <1>1 DEF Codes
<1>4. ASSUME NEW k \in Machines, req'[k] # Nil PROVE Sound(k)'
  <2>1. Sound(k) /\ Grant(req[k].token) \in Grants
    BY <1>1, <1>4, ReqType DEF IInv
  <2>2. \A h \in Grants : life'[h] = IF h = g THEN l ELSE life[h]
    BY <1>1 DEF TypeOK
  <2> QED BY <1>1, <1>4, <2>1, <2>2, SoundStays DEF Sound, TypeOK
<1> QED BY <1>1, <1>2, <1>3, <1>4 DEF IInv, Handed

LEMMA ApproveStep ==
  ASSUME IInv, NEW g \in Grants, Approve(g) \/ ExpireCode(g) PROVE IInv'
<1>1. TypeOK
  BY DEF IInv
<1>2. PICK l \in {"code", "ended"} :
        /\ life' = [life EXCEPT ![g] = l]
        /\ \/ life[g] = "new" /\ l = "code"
           \/ life[g] = "code" /\ l = "ended"
  <2>1. CASE Approve(g)
    <3> WITNESS "code" \in {"code", "ended"}
    <3> QED BY <2>1 DEF Approve
  <2>2. CASE ExpireCode(g)
    <3> WITNESS "ended" \in {"code", "ended"}
    <3> QED BY <2>2 DEF ExpireCode
  <2> QED BY <2>1, <2>2
<1>3. /\ UNCHANGED <<newest, access, minted, renewals, lock, req, store, cut>>
      /\ events' \in Nat
  BY <1>1, MoreEvents DEF Approve, ExpireCode, TypeOK
<1>4. \A a \in access : Stands(Grant(a))'
  BY <1>1, <1>2, Tokens DEF TypeOK, Stands
<1>5. life' \in [Grants -> {"new", "code", "seen", "stands", "ended"}]
  BY <1>1, <1>2 DEF TypeOK
<1>6. TypeOK'
  BY <1>1, <1>3, <1>4, <1>5 DEF TypeOK
<1> QED BY <1>2, <1>3, <1>6, LifeStep

LEMMA DeleteStep ==
  ASSUME IInv, NEW g \in Grants, DeleteGrant(g) PROVE IInv'
<1>1. /\ TypeOK /\ life[g] = "stands" /\ End(g) /\ events' \in Nat
      /\ UNCHANGED <<renewals, lock, req, store, cut>>
  BY MoreEvents DEF IInv, DeleteGrant, Stands
<1>2. TypeOK'
  BY <1>1, EndType DEF TypeOK, End
<1> QED BY <1>1, <1>2, LifeStep DEF End

LEMMA EndRevokedStep ==
  ASSUME IInv, NEW m \in Machines, EndRevoked(m) PROVE IInv'
<1> DEFINE g == Grant(req[m].token)
<1>1. /\ TypeOK /\ Lines /\ Codes /\ Sound(m) /\ req[m] # Nil
      /\ req[m].pc = "end" /\ End(g) /\ Ends(m)
      /\ UNCHANGED <<renewals, lock, store, events, cut>>
  BY DEF IInv, EndRevoked
<1>2. g \in Grants /\ newest[g] \in Nat /\ 1 <= newest[g]
  BY <1>1, Tokens DEF Sound, Handed, TypeOK
<1>3. life[g] \in {"stands", "ended"}
  BY <1>1, <1>2 DEF Lines, TypeOK
<1>4. \A h \in Grants : life'[h] = IF h = g THEN "ended" ELSE life[h]
  BY <1>1 DEF End, TypeOK
<1>5. TypeOK'
  BY <1>1, <1>2, EndType, EndsType DEF TypeOK, End
<1>6. Lines'
  BY <1>1, <1>2, <1>4 DEF Lines, End
<1>7. /\ \A k \in Machines \ {m} : req'[k] = req[k]
      /\ req'[m] = Nil
  BY <1>1 DEF Ends, TypeOK
<1>8. Codes'
  BY <1>1, <1>7 DEF Codes
<1>9. ASSUME NEW k \in Machines, req'[k] # Nil PROVE Sound(k)'
  <2>1. k # m /\ req'[k] = req[k] /\ Sound(k)
        /\ Grant(req[k].token) \in Grants
    BY <1>1, <1>7, <1>9, ReqType DEF IInv
  <2> QED BY <1>1, <1>3, <1>4, <1>9, <2>1, SoundStays DEF Sound, End, TypeOK
<1> QED BY <1>1, <1>5, <1>6, <1>8, <1>9 DEF IInv, End, Handed

(* Access tokens that run out, and nothing else.                           *)
LEMMA ExpireStep ==
  ASSUME IInv, NEW a \in access, Expire(a) PROVE IInv'
<1>1. /\ TypeOK /\ Lines /\ Codes /\ access' \subseteq access
      /\ UNCHANGED <<life, newest, minted, renewals, lock, req, store, cut>>
      /\ events' \in Nat
  BY MoreEvents DEF IInv, Expire
<1>2. TypeOK'
  BY <1>1 DEF TypeOK, Stands
<1>3. Lines' /\ Codes'
  BY <1>1 DEF Lines, Codes
<1>4. ASSUME NEW k \in Machines, req'[k] # Nil PROVE Sound(k)'
  BY <1>1, <1>4, SoundStays DEF IInv, Sound, TypeOK
<1> QED BY <1>1, <1>2, <1>3, <1>4 DEF IInv, Handed

LEMMA AgeStep ==
  ASSUME IInv, NEW t \in renewals, Age(t) PROVE IInv'
<1>1. /\ TypeOK /\ Lines /\ Codes /\ events' \in Nat
      /\ \A u \in renewals : Grant(u) = Grant(t) => t[2] <= u[2]
      /\ renewals' = renewals \ {t} /\ cut' = cut \cup {t}
      /\ UNCHANGED <<rows, lock, req, store>>
  BY MoreEvents DEF IInv, Age
<1>2. t \in Token /\ t = <<t[1], t[2]>> /\ Grant(t) = t[1] /\ t[2] \in Nat
  BY <1>1, Tokens DEF TypeOK
<1>3. TypeOK'
  BY <1>1, <1>2 DEF TypeOK, rows, Stands
<1>4. Lines'
  <2>1. ASSUME NEW u \in renewals'
        PROVE  \A n \in u[2] .. newest'[u[1]] - 1 : <<u[1], n>> \in renewals'
    <3> SUFFICES ASSUME NEW n \in u[2] .. newest'[u[1]] - 1
                 PROVE  <<u[1], n>> \in renewals'
      OBVIOUS
    <3>1. /\ u \in renewals /\ u # t /\ u = <<u[1], u[2]>> /\ Grant(u) = u[1]
          /\ u[2] \in Nat /\ newest[u[1]] \in Nat
      BY <1>1, Tokens DEF TypeOK, Lines
    <3>2. <<u[1], n>> \in renewals
      BY <1>1, <3>1 DEF rows, Lines
    <3>3. ASSUME <<u[1], n>> = t PROVE FALSE
      <4>1. t[1] = u[1] /\ t[2] = n
        BY <3>3
      <4>2. t[2] <= u[2] /\ u[2] <= n
        BY <1>1, <1>2, <3>1, <4>1
      <4> QED BY <1>2, <3>1, <4>1, <4>2
    <3> QED BY <1>1, <3>2, <3>3
  <2> QED BY <1>1, <2>1 DEF rows, Lines
<1>5. Codes'
  BY <1>1 DEF Codes
<1>6. ASSUME NEW k \in Machines, req'[k] # Nil PROVE Sound(k)'
  BY <1>1, <1>6, SoundStays DEF IInv, Sound, TypeOK, rows
<1> QED BY <1>1, <1>3, <1>4, <1>5, <1>6 DEF IInv, rows, Handed

(* The memory is lost, and every request that is not answered yet.         *)
LEMMA RestartStep == ASSUME IInv, Restart PROVE IInv'
<1>1. /\ TypeOK /\ Lines /\ events' \in Nat
      /\ renewals' = {} /\ cut' = cut \cup renewals /\ lock' = Nil
      /\ UNCHANGED <<rows, store>>
  BY MoreEvents DEF IInv, Restart
<1>2. \A k \in Machines : /\ req'[k] = req[k] \/ req'[k] = Nil
                          /\ req'[k] # Nil => /\ req'[k] = req[k]
                                             /\ req[k].pc = "answered"
  BY DEF Restart
<1>3. req' \in [Machines -> Requests \cup {Nil}]
  BY <1>1 DEF Restart, TypeOK
<1>4. TypeOK'
  BY <1>1, <1>3 DEF TypeOK, rows, Stands
<1>5. Lines'
  BY <1>1 DEF Lines, rows
<1>6. Codes'
  BY <1>2 DEF Codes
<1>7. ASSUME NEW k \in Machines, req'[k] # Nil PROVE Sound(k)'
  BY <1>1, <1>2, <1>7, SoundStays DEF IInv, Sound, TypeOK, rows
<1> QED BY <1>1, <1>4, <1>5, <1>6, <1>7 DEF IInv, rows, Handed

LEMMA NextStep == IInv /\ [Next]_vars => IInv'
<1> SUFFICES ASSUME IInv, [Next]_vars PROVE IInv'
  OBVIOUS
<1>1. ASSUME NEW m \in Machines, Serve(m) PROVE IInv'
  BY <1>1, DropCodeStep, InsertStep, IssueStep, FindStep, RotateStep,
     FindRevokedStep, EndRevokedStep DEF Serve
<1>2. ASSUME NEW m \in Machines,
             \/ Hear(m) \/ Renew(m) \/ Fails(m) \/ Lose(m) \/ Disconnect(m)
      PROVE  IInv'
  BY <1>2, HearStep, AskStep, FailStep DEF Hear
<1>3. ASSUME NEW g \in Grants,
             \/ Approve(g) \/ ExpireCode(g) \/ DeleteGrant(g)
             \/ \E m \in Machines : ReadCode(m, g)
      PROVE  IInv'
  BY <1>3, ApproveStep, DeleteStep, ReadCodeStep
<1>4. ASSUME NEW a \in access, Expire(a) PROVE IInv'
  BY <1>4, ExpireStep
<1>5. ASSUME NEW t \in renewals, Age(t) PROVE IInv'
  BY <1>5, AgeStep
<1>6. CASE Restart
  BY <1>6, RestartStep
<1>7. CASE UNCHANGED vars
  BY <1>7 DEF IInv, TypeOK, Lines, Codes, Sound, Handed, Stands, vars, rows
<1> QED BY <1>1, <1>2, <1>3, <1>4, <1>5, <1>6, <1>7 DEF Next

-----------------------------------------------------------------------------
(* What is remembered of each connection leads from any token handed out   *)
(* to its newest one, and what requests hold was handed out.               *)
THEOREM Invariant == Spec => []IInv
<1> QED BY InitType, NextStep, PTL DEF Spec

(* Every variable keeps its type and every access token a connection that  *)
(* stands, whatever number of machines renew, end and exchange it.         *)
THEOREM TypeInvariant == Spec => []TypeOK
<1>1. IInv => TypeOK
  BY DEF IInv
<1> QED BY <1>1, Invariant, PTL

(* A refresh token that was handed out renews its connection for as long   *)
(* as the connection stands, unless the overlap is over or the server was  *)
(* restarted: no machine is refused for having come second.                *)
THEOREM RenewalsAreAnswered == Spec => []RefusedForAReason
<1> QED BY Invariant, Reasons, PTL
=============================================================================
