---------------------------- MODULE Connections ----------------------------
(***************************************************************************)
(* The connections of an agent platform to the instance: approving one,    *)
(* exchanging its code for a pair of tokens, renewing the pair, ending it  *)
(* (oauth_provider.go). The platform runs on several machines that share   *)
(* one stored pair and renew it without asking each other, so a renewal    *)
(* meets others, answers get lost, and the server restarts in between.     *)
(*                                                                         *)
(* A refresh token is its connection and its number in the line of the     *)
(* connection: what replaces <<g, n>> is <<g, n + 1>>. Time is left out:   *)
(* an hour, a minute, the five minutes of the overlap may be over at any   *)
(* moment, the overlaps of one line in the order of its renewals. What has *)
(* run out and what has been swept are told apart by nothing.              *)
(*                                                                         *)
(* Left out: scopes, workspaces and resources, the checks a well-behaved   *)
(* client passes, two exchanges of one code, revoking with an access       *)
(* token, reads of the database that fail (one that does is answered as    *)
(* an unknown token, 482-485). The client is external.                     *)
(***************************************************************************)
EXTENDS Naturals

CONSTANTS
    Machines,    \* of the platform
    Grants,      \* connections that can be made
    Nil,
    MaxEvents    \* bound: faults, tokens running out, what people do

ASSUME NilAssumption == Nil \notin Machines
ASSUME BoundsAssumption == MaxEvents \in Nat

VARIABLES
    life,        \* of a connection: "new", "code", "seen", "stands", "ended"
    newest,      \* the number of its newest refresh token, which the row has
    access,      \* access tokens that have not run out
    minted,      \* how many each connection has had
    renewals,    \* tokens whose replacement is remembered
    lock,        \* who holds renewMu
    req,         \* the request of a machine
    store,       \* the pair the platform has stored
    events,
    cut          \* history: tokens whose replacement was forgotten

rows == <<life, newest, access, minted>>
vars == <<rows, renewals, lock, req, store, events, cut>>

-----------------------------------------------------------------------------
Token == Grants \X Nat
Pair == [refresh : Token, access : Token]

(* Where a request is: code found, code deleted; waiting for the lock,     *)
(* token found, token in hand; a revocation asked for, found; or over.     *)
Places == {"found", "insert", "wait", "rotate", "issue", "revoke", "end",
           "answered", "refused", "failed"}

Requests == [pc : Places, token : Token, next : Token \cup {Nil},
             access : Token \cup {Nil}]

Request(pc, token, next) ==
    [pc |-> pc, token |-> token, next |-> next, access |-> Nil]

Grant(t) == t[1]
Later(t) == <<t[1], t[2] + 1>>
Stands(g) == life[g] = "stands"
Current(t) == Stands(Grant(t)) /\ t[2] = newest[Grant(t)]

Spend == events < MaxEvents /\ events' = events + 1

To(m, pc) == req' = [req EXCEPT ![m].pc = pc]

Unlock(m) == lock' = IF lock = m THEN Nil ELSE lock

Init ==
    /\ life = [g \in Grants |-> "new"] /\ newest = [g \in Grants |-> 0]
    /\ access = {} /\ minted = [g \in Grants |-> 0]
    /\ renewals = {} /\ lock = Nil
    /\ req = [m \in Machines |-> Nil] /\ store = Nil
    /\ events = 0 /\ cut = {}

-----------------------------------------------------------------------------
(* A new connection.                                                       *)

(* handleOAuthApprove: a person connects the platform, or does so again. *)
Approve(g) ==
    /\ life[g] = "new" /\ store = Nil
    /\ life' = [life EXCEPT ![g] = "code"]
    /\ UNCHANGED <<newest, access, minted, renewals, lock, req, store, events,
                   cut>>

(* A minute is over. *)
ExpireCode(g) ==
    /\ Spend
    /\ life[g] = "code"
    /\ life' = [life EXCEPT ![g] = "ended"]
    /\ UNCHANGED <<newest, access, minted, renewals, lock, req, store, cut>>

(* oauthExchangeCode finds the code. *)
ReadCode(m, g) ==
    /\ req[m] = Nil /\ life[g] = "code"
    /\ \A k \in Machines : req[k] # Nil => req[k].token # <<g, 0>>
    /\ req' = [req EXCEPT ![m] = Request("found", <<g, 0>>, <<g, 1>>)]
    /\ UNCHANGED <<rows, renewals, lock, store, events, cut>>

(* It is gone the moment it is seen, and then its minute is looked at. *)
DropCode(m) ==
    /\ req[m] # Nil /\ req[m].pc = "found"
    /\ LET g == Grant(req[m].token)
       IN  IF life[g] = "code"
           THEN life' = [life EXCEPT ![g] = "seen"] /\ To(m, "insert")
           ELSE life' = life /\ To(m, "refused")
    /\ UNCHANGED <<newest, access, minted, renewals, lock, store, events, cut>>

(* issueGrant *)
InsertGrant(m) ==
    /\ req[m] # Nil /\ req[m].pc = "insert"
    /\ LET g == Grant(req[m].token)
       IN  /\ life' = [life EXCEPT ![g] = "stands"]
           /\ newest' = [newest EXCEPT ![g] = 1]
    /\ To(m, "issue")
    /\ UNCHANGED <<access, minted, renewals, lock, store, events, cut>>

(* Mistake: the row of the connection is not looked for. *)
TakesAlways(g) == TRUE

(* The foreign key of oauth_access. *)
Takes(g) == Stands(g)

(* issueAccess, the end of an exchange and of a renewal. *)
IssueAccess(m) ==
    /\ req[m] # Nil /\ req[m].pc = "issue"
    /\ LET g == Grant(req[m].next)
           fresh == <<g, minted[g] + 1>>
       IN  IF Takes(g)
           THEN /\ access' = access \cup {fresh}
                /\ minted' = [minted EXCEPT ![g] = @ + 1]
                /\ req' = [req EXCEPT ![m].pc = "answered", ![m].access = fresh]
           ELSE UNCHANGED <<access, minted>> /\ To(m, "failed")
    /\ Unlock(m)
    /\ UNCHANGED <<life, newest, renewals, store, events, cut>>

-----------------------------------------------------------------------------
(* Renewing.                                                               *)

Usable == store # Nil /\ store.access \in access

(* The platform renews the pair it has stored: because its access token    *)
(* does not work any more, or before that.                                 *)
Renew(m) ==
    /\ req[m] = Nil /\ store # Nil
    /\ IF Usable THEN Spend ELSE UNCHANGED events
    /\ req' = [req EXCEPT ![m] = Request("wait", store.refresh, Nil)]
    /\ UNCHANGED <<rows, renewals, lock, store, cut>>

(* Mistake: only the replacement itself is answered with. *)
Replacement(t) == Later(t)

(* renewedAMomentAgo: what it was replaced with may have been replaced in  *)
(* turn, so the answer is the newest token of the line.                    *)
NewestOfLine(t) ==
    CHOOSE u \in {<<t[1], n>> : n \in t[2] + 1 .. newest[t[1]]} :
        /\ u \notin renewals
        /\ \A n \in t[2] .. u[2] - 1 : <<t[1], n>> \in renewals

Leads(t) == t \in renewals /\ Current(NewestOfLine(t))

(* Mistake: two renewals are under way at one time. *)
LockedOrNot(m) == lock' = lock

Locked(m) == lock = Nil /\ lock' = m

(* oauthRefresh looks the token up, and if the connection has another one  *)
(* by now, in what it remembers.                                           *)
FindGrant(m) ==
    /\ req[m] # Nil /\ req[m].pc = "wait"
    /\ LET t == req[m].token
       IN  \/ /\ Current(t)
              /\ Locked(m)
              /\ req' = [req EXCEPT ![m] = Request("rotate", t, Later(t))]
           \/ /\ ~Current(t) /\ Leads(t)
              /\ Locked(m)
              /\ req' = [req EXCEPT ![m] = Request("issue", t, NewestOfLine(t))]
           \/ /\ ~Current(t) /\ ~Leads(t)
              /\ lock = Nil /\ lock' = lock
              /\ To(m, "refused")
    /\ UNCHANGED <<rows, renewals, store, events, cut>>

(* The UPDATE, for the row that still has the old token; then the memory. *)
Rotate(m) ==
    /\ req[m] # Nil /\ req[m].pc = "rotate"
    /\ LET t == req[m].token
       IN  IF Current(t)
           THEN /\ newest' = [newest EXCEPT ![Grant(t)] = @ + 1]
                /\ renewals' = renewals \cup {t}
                /\ To(m, "issue")
                /\ lock' = lock
           ELSE UNCHANGED <<newest, renewals>> /\ To(m, "refused") /\ Unlock(m)
    /\ UNCHANGED <<life, access, minted, store, events, cut>>

(* Mistake: the handler returns on an error without its defer. *)
KeepLock(m) == lock' = lock

Release(m) == Unlock(m)

(* A statement fails, and the handler answers 500. *)
Fails(m) ==
    /\ Spend
    /\ req[m] # Nil /\ req[m].pc \in {"insert", "rotate", "issue"}
    /\ To(m, "failed")
    /\ Release(m)
    /\ UNCHANGED <<rows, renewals, store, cut>>

-----------------------------------------------------------------------------
(* The platform.                                                           *)

Ends(m) == req' = [req EXCEPT ![m] = Nil]

(* An answer is stored, over whichever pair is stored by now. *)
Store(m) ==
    /\ req[m] # Nil /\ req[m].pc = "answered"
    /\ store' = [refresh |-> req[m].next, access |-> req[m].access]
    /\ Ends(m)
    /\ UNCHANGED <<rows, renewals, lock, events, cut>>

(* "takes the refusal for a revoked grant and asks a person to connect     *)
(* again" (oauth_provider.go:460)                                          *)
Drop(m) ==
    /\ req[m] # Nil /\ req[m].pc = "refused"
    /\ store' = Nil
    /\ Ends(m)
    /\ UNCHANGED <<rows, renewals, lock, events, cut>>

(* An error that says nothing about the connection. *)
Error(m) ==
    /\ req[m] # Nil /\ req[m].pc = "failed"
    /\ Ends(m)
    /\ UNCHANGED <<rows, renewals, lock, store, events, cut>>

(* The answer, or the request, is lost on its way. *)
Lose(m) ==
    /\ Spend
    /\ req[m] # Nil /\ req[m].pc \in {"wait", "answered", "revoke"}
    /\ Ends(m)
    /\ UNCHANGED <<rows, renewals, lock, store, cut>>

(* The platform disconnects: it forgets the pair and says so. *)
Disconnect(m) ==
    /\ Spend
    /\ req[m] = Nil /\ store # Nil
    /\ store' = Nil
    /\ req' = [req EXCEPT ![m] = Request("revoke", store.refresh, Nil)]
    /\ UNCHANGED <<rows, renewals, lock, cut>>

-----------------------------------------------------------------------------
(* The end of a connection, with the cascade to its access tokens.         *)

End(g) ==
    /\ life' = [life EXCEPT ![g] = "ended"]
    /\ access' = {a \in access : Grant(a) # g}
    /\ UNCHANGED <<newest, minted>>

(* handleDeleteGrant, or the account is deleted. *)
DeleteGrant(g) ==
    /\ Spend
    /\ Stands(g)
    /\ End(g)
    /\ UNCHANGED <<renewals, lock, req, store, cut>>

(* handleOAuthRevoke looks for the connection, under no lock ...           *)
FindRevoked(m) ==
    /\ req[m] # Nil /\ req[m].pc = "revoke"
    /\ IF Current(req[m].token) THEN To(m, "end") ELSE Ends(m)
    /\ UNCHANGED <<rows, renewals, lock, store, events, cut>>

(* ... and deletes it. *)
EndRevoked(m) ==
    /\ req[m] # Nil /\ req[m].pc = "end"
    /\ End(Grant(req[m].token))
    /\ Ends(m)
    /\ UNCHANGED <<renewals, lock, store, events, cut>>

-----------------------------------------------------------------------------
(* Time, and the end of the process.                                       *)

(* An access token runs out: userForAccessToken, sweepOAuth. *)
Expire(a) ==
    /\ Spend
    /\ a \in access
    /\ access' = access \ {a}
    /\ UNCHANGED <<life, newest, minted, renewals, lock, req, store, cut>>

(* An overlap is over, the oldest of its line first: renewedAMomentAgo,    *)
(* sweepOAuth.                                                             *)
Age(t) ==
    /\ Spend
    /\ t \in renewals
    /\ \A u \in renewals : Grant(u) = Grant(t) => t[2] <= u[2]
    /\ renewals' = renewals \ {t}
    /\ cut' = cut \cup {t}
    /\ UNCHANGED <<rows, lock, req, store>>

(* "After a restart the overlap is gone" (oauth_provider.go:471). *)
Restart ==
    /\ Spend
    /\ renewals' = {} /\ cut' = cut \cup renewals
    /\ lock' = Nil
    /\ req' = [m \in Machines |->
                 IF req[m] # Nil /\ req[m].pc = "answered" THEN req[m] ELSE Nil]
    /\ UNCHANGED <<rows, store>>

-----------------------------------------------------------------------------
Serve(m) ==
    \/ DropCode(m) \/ InsertGrant(m) \/ IssueAccess(m)
    \/ FindGrant(m) \/ Rotate(m) \/ FindRevoked(m) \/ EndRevoked(m)

Hear(m) == Store(m) \/ Drop(m) \/ Error(m)

Next ==
    \/ \E g \in Grants : Approve(g) \/ ExpireCode(g) \/ DeleteGrant(g)
                         \/ \E m \in Machines : ReadCode(m, g)
    \/ \E m \in Machines : Serve(m) \/ Hear(m) \/ Renew(m) \/ Fails(m)
                           \/ Lose(m) \/ Disconnect(m)
    \/ \E a \in access : Expire(a)
    \/ \E t \in renewals : Age(t)
    \/ Restart

(* Handlers go on, answers arrive, and a platform whose token does not     *)
(* work any more renews it. Nobody has to approve or end anything.         *)
Fairness ==
    \A m \in Machines : /\ WF_vars(Serve(m)) /\ WF_vars(Hear(m))
                        /\ WF_vars(~Usable /\ Renew(m))

Spec == Init /\ [][Next]_vars /\ Fairness

-----------------------------------------------------------------------------
(* Every variable has its type, and every access token belongs to a        *)
(* connection that stands: ending one ends them all at once, those too     *)
(* that a renewal under way would still have issued (issueAccess).         *)
TypeOK ==
    /\ life \in [Grants -> {"new", "code", "seen", "stands", "ended"}]
    /\ newest \in [Grants -> Nat] /\ minted \in [Grants -> Nat]
    /\ access \subseteq Token /\ \A a \in access : Stands(Grant(a))
    /\ renewals \subseteq Token /\ cut \subseteq Token
    /\ lock \in Machines \cup {Nil}
    /\ req \in [Machines -> Requests \cup {Nil}]
    /\ store \in Pair \cup {Nil}
    /\ events \in Nat

(* A refresh token that was handed out renews its connection, whatever has *)
(* been renewed since and in whichever order the answers were stored: it   *)
(* is the current one, or is remembered and leads to it. Otherwise the     *)
(* connection has ended, or its replacement is longer ago than the overlap *)
(* or than the last restart. "Refusing the second one looks strict and     *)
(* costs the whole connection" (oauth_provider.go:459).                    *)
Excused(t) == ~Stands(Grant(t)) \/ t \in cut

Renewable(t) == Current(t) \/ Leads(t)

RefusedForAReason ==
    /\ \A m \in Machines :
          req[m] # Nil /\ req[m].pc = "refused" => Excused(req[m].token)
    /\ \A g \in Grants : \A n \in 1 .. newest[g] :
          Renewable(<<g, n>>) \/ Excused(<<g, n>>)

(* A platform whose access token does not work any more gets one that      *)
(* does, or is told that there is nothing to renew, through lost answers,  *)
(* failed statements and other machines that renew at the same moment.     *)
ConnectionGoesOn == (store # Nil /\ ~Usable) ~> (store = Nil \/ Usable)
=============================================================================
