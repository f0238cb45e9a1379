------------------------------- MODULE Accounts -------------------------------
(***************************************************************************)
(* The accounts of the store: admins who create, promote, demote and       *)
(* remove people, and the people who meanwhile log in, refresh, order and  *)
(* edit their profile.  Sources: apps/backend/src/users/, the guards, and  *)
(* apps/frontend/src/app/admin/users/page.tsx.                             *)
(*                                                                         *)
(* A handler reads in one step and commits in a later one: a count, a role *)
(* or a session may have changed in between.  What identifies a person     *)
(* (names, phones, addresses, on the account and on its orders) is one     *)
(* flag, "personal".                                                       *)
(***************************************************************************)
EXTENDS Integers, FiniteSets

CONSTANTS Person,
          MaxRequests       \* bound: requests made

ASSUME AccountsAssumption == MaxRequests \in Nat

VARIABLES account,          \* User, with the orders that refer to it
          hasSession,       \* people with a session row
          token,            \* per person: the role its access token carries
          call,             \* per person: the request in flight
          requests,
          \* What the properties remember.
          late,             \* people whose own request committed after a removal
          demoted,          \* people holding a token of the role they had
          raced             \* two admins were removed on counts of each other

accountVars == <<account, hasSession, token, call, requests, late, demoted, raced>>

Role == {"ADMIN", "CUSTOMER"}
Nobody == [st |-> "none", role |-> "CUSTOMER", personal |-> FALSE, orders |-> 0]
NoCall == [kind |-> "none", pc |-> "idle", who |-> "", role |-> "CUSTOMER", used |-> FALSE]
Active(p) == account[p].st = "active"
HasRow(p) == account[p].st \in {"active", "anonymised"}
Admins == {p \in Person : Active(p) /\ account[p].role = "ADMIN"}

AccountsInit ==
    /\ \E A \in (SUBSET Person) \ {{}} :
         account = [p \in Person |-> IF p \in A THEN [st |-> "active", role |-> "ADMIN", personal |-> TRUE, orders |-> 0]
                                     ELSE Nobody]
    /\ hasSession = {} /\ requests = 0
    /\ token = [p \in Person |-> "none"]
    /\ call = [p \in Person |-> NoCall]
    /\ late = {} /\ demoted = {} /\ raced = FALSE

go(p, c) == call' = [call EXCEPT ![p] = c]
done(p) == go(p, NoCall)
send(p, kind, who, role) ==
    /\ call[p].pc = "idle" /\ requests < MaxRequests
    /\ requests' = requests + 1
    /\ go(p, [kind |-> kind, pc |-> "sent", who |-> who, role |-> role, used |-> FALSE])
    /\ UNCHANGED <<account, hasSession, token, late, demoted, raced>>
at(p, kind, pc) == call[p].kind = kind /\ call[p].pc = pc
-------------------------------------------------------------------------------
(* A person's own requests.                                                *)
register(p) ==              \* UsersService.create; the e-mail is unique
    /\ account[p].st = "none" /\ call[p].pc = "idle"
    /\ account' = [account EXCEPT ![p] = [Nobody EXCEPT !.st = "active", !.personal = TRUE]]
    /\ hasSession' = hasSession \cup {p}
    /\ token' = [token EXCEPT ![p] = "CUSTOMER"]
    /\ UNCHANGED <<call, requests, late, demoted, raced>>

personRequests(p) ==
    \/ Active(p) /\ send(p, "login", p, "CUSTOMER")
    \/ p \in hasSession /\ send(p, "refresh", p, "CUSTOMER")
    \/ token[p] # "none" /\ \E kind \in {"order", "profile"} : send(p, kind, p, "CUSTOMER")

\* mutant: the new token carries the role of the old one.
readRoleFromToken(p) == IF token[p] = "none" THEN account[p].role ELSE token[p]
readRole(p) == account[p].role
readAccount(p) ==           \* the session row, then the account it belongs to
    /\ call[p].pc = "sent"
    /\ \/ call[p].kind = "login" /\ Active(p)
       \/ call[p].kind = "refresh" /\ p \in hasSession
    /\ go(p, [call[p] EXCEPT !.pc = "read", !.role = readRole(p)])
    /\ UNCHANGED <<account, hasSession, token, requests, late, demoted, raced>>

refuseAccount(p) ==
    /\ call[p].pc = "sent"
    /\ \/ call[p].kind = "login" /\ ~Active(p)
       \/ call[p].kind = "refresh" /\ p \notin hasSession
    /\ done(p)
    /\ UNCHANGED <<account, hasSession, token, requests, late, demoted, raced>>

\* The rotation updates the row it read: without the row the transaction fails.
signToken(p) ==
    /\ call[p].pc = "read" /\ call[p].kind \in {"login", "refresh"}
    /\ done(p)
    /\ IF HasRow(p) /\ (call[p].kind = "refresh" => p \in hasSession)
       THEN /\ hasSession' = hasSession \cup {p}
            /\ token' = [token EXCEPT ![p] = call[p].role]
            /\ late' = IF Active(p) THEN late ELSE late \cup {p}
            /\ demoted' = IF call[p].kind = "login" /\ call[p].role # account[p].role
                          THEN demoted \cup {p} ELSE demoted \ {p}
       ELSE UNCHANGED <<hasSession, token, late, demoted>>
    /\ UNCHANGED <<account, requests, raced>>

\* JwtAuthGuard only checks the token; the foreign key needs the row.
useToken(p) ==
    /\ call[p].pc = "sent" /\ call[p].kind \in {"order", "profile"}
    /\ done(p)
    /\ IF HasRow(p)
       THEN /\ account' = [account EXCEPT ![p].personal = TRUE,
                                          ![p].orders = IF call[p].kind = "order" THEN 1 ELSE @]
            /\ late' = IF Active(p) THEN late ELSE late \cup {p}
       ELSE UNCHANGED <<account, late>>
    /\ UNCHANGED <<hasSession, token, requests, demoted, raced>>

tokenExpires(p) ==
    /\ token[p] # "none"
    /\ token' = [token EXCEPT ![p] = "none"]
    /\ demoted' = demoted \ {p}
    /\ UNCHANGED <<account, hasSession, call, requests, late, raced>>
-------------------------------------------------------------------------------
(* The admin's page, its guard and its three changes.                      *)
RolesGuard(a) == token[a] = "ADMIN"

\* A person the list shows, never the admin's own row.
AdminUsersPage(a) ==
    /\ RolesGuard(a)
    /\ \E p \in Person \ {a} :
         \/ Active(p) /\ \E r \in Role : send(a, "setRole", p, r)
         \/ Active(p) /\ send(a, "remove", p, "CUSTOMER")
         \/ account[p].st = "none" /\ \E r \in Role : send(a, "create", p, r)

createUser(a) ==            \* a second row of one e-mail is refused
    LET p == call[a].who IN
    /\ at(a, "create", "sent") /\ done(a)
    /\ account' = [account EXCEPT ![p] = IF @.st = "none"
                     THEN [st |-> "active", role |-> call[a].role, personal |-> TRUE, orders |-> 0] ELSE @]
    /\ UNCHANGED <<hasSession, token, requests, late, demoted, raced>>

findActive(a) ==
    LET p == call[a].who
        same == call[a].kind = "setRole" /\ account[p].role = call[a].role IN
    /\ call[a].kind \in {"setRole", "remove"} /\ call[a].pc = "sent"
    /\ IF ~Active(p) \/ same THEN done(a)
       ELSE go(a, [call[a] EXCEPT !.pc = IF account[p].role = "ADMIN" THEN "count" ELSE "counted"])
    /\ UNCHANGED <<account, hasSession, token, requests, late, demoted, raced>>

\* mutant: one admin is enough to remove one.
tooFewAdminsOff == Cardinality(Admins) < 1
tooFewAdmins == Cardinality(Admins) <= 1
refuseLastAdmin(a) ==
    /\ call[a].pc = "count"
    /\ IF tooFewAdmins THEN done(a) ELSE go(a, [call[a] EXCEPT !.pc = "counted"])
    /\ UNCHANGED <<account, hasSession, token, requests, late, demoted, raced>>

\* Another admin's removal of an admin was let through on the same count.
Overlaps(a) ==
    call[a].who \in Admins /\
    \E b \in Person \ {a} : call[b].kind \in {"setRole", "remove"} /\ call[b].who \in Admins \ {call[a].who}
                            /\ call[b].pc \in {"counted", "checked"}

setRole(a) ==
    LET p == call[a].who IN
    /\ at(a, "setRole", "counted") /\ done(a)
    /\ IF ~HasRow(p) THEN UNCHANGED <<account, hasSession, demoted, raced>>
       ELSE /\ account' = [account EXCEPT ![p].role = call[a].role]
            /\ hasSession' = hasSession \ {p}
            /\ demoted' = IF token[p] = "none" THEN demoted ELSE demoted \cup {p}
            /\ raced' = (raced \/ Overlaps(a))
    /\ UNCHANGED <<token, requests, late>>

countOrders(a) ==           \* and reviews
    /\ at(a, "remove", "counted")
    /\ go(a, [call[a] EXCEPT !.pc = "checked", !.used = account[call[a].who].orders > 0])
    /\ UNCHANGED <<account, hasSession, token, requests, late, demoted, raced>>

\* mutant: the sessions of a person who is removed stay.
sessionsKept(p) == hasSession
sessionsLeft(p) == hasSession \ {p}
removeUser(a) ==
    LET p == call[a].who
        anonymised == [st |-> "anonymised", role |-> "CUSTOMER", personal |-> FALSE, orders |-> account[p].orders]
        deletes == ~call[a].used /\ account[p].orders = 0 IN
    /\ at(a, "remove", "checked") /\ done(a)
    /\ IF ~HasRow(p) \/ (~call[a].used /\ ~deletes)  \* no row, or one an order refers to
       THEN UNCHANGED <<account, hasSession, demoted, raced>>
       ELSE /\ account' = [account EXCEPT ![p] = IF deletes THEN [Nobody EXCEPT !.st = "deleted"] ELSE anonymised]
            /\ hasSession' = sessionsLeft(p)
            /\ demoted' = IF token[p] = "none" THEN demoted ELSE demoted \cup {p}
            /\ raced' = (raced \/ Overlaps(a))
    /\ UNCHANGED <<token, requests, late>>

AccountsNext ==
    \E p \in Person :
      \/ register(p) \/ personRequests(p) \/ readAccount(p) \/ refuseAccount(p)
      \/ signToken(p) \/ useToken(p) \/ tokenExpires(p)
      \/ AdminUsersPage(p) \/ createUser(p) \/ findActive(p) \/ refuseLastAdmin(p)
      \/ setRole(p) \/ countOrders(p) \/ removeUser(p)

AccountsSpec == AccountsInit /\ [][AccountsNext]_accountVars
-------------------------------------------------------------------------------
\* "The store must always keep at least one admin" (admin-users.service.ts:167).
\* It does, whoever acts on whom, unless two admins acted on each other after
\* both counts were read: the count and the change are not one transaction.
KeepsAnAdmin == Admins # {} \/ raced

\* A person who was removed but had ordered leaves nothing personal behind and
\* no way in: only a request of that person that was under way, or an access
\* token that had not expired, can write to the row afterwards.
AnonymisedHoldsNothing ==
    \A p \in Person : account[p].st = "anonymised" =>
        p \in late \/ (~account[p].personal /\ p \notin hasSession)

\* An access token carries the role the account has; after a change of role
\* only the token of before, or a login that had read the account before, does
\* not, and neither outlives that token's expiry.
TokensCarryTheRole ==
    \A p \in Person : token[p] # "none" /\ HasRow(p) => token[p] = account[p].role \/ p \in demoted
===============================================================================
