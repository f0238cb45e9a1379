---------------------------- MODULE BackOfficeProofs ----------------------------
(***************************************************************************)
(* What the back office keeps, for every set of people, admins, files and  *)
(* rows and every bound: an admin, the removal of personal data, roles in  *)
(* tokens, references between catalog rows, stock, and lists that show     *)
(* what they are asked for.                                                *)
(***************************************************************************)
EXTENDS BackOffice, FiniteSetTheorems, TLAPS

-----------------------------------------------------------------------------
(* Accounts: the types.                                                    *)

AccountRows == [st : {"none", "active", "anonymised", "deleted"}, role : Role,
                personal : BOOLEAN, orders : {0, 1}]
AccountCalls == [kind : {"none", "login", "refresh", "order", "profile", "setRole", "remove", "create"},
                 pc : {"idle", "sent", "read", "count", "counted", "checked"},
                 who : Person \cup {""}, role : Role, used : BOOLEAN]

AccountsTyped ==
    /\ account \in [Person -> AccountRows]
    /\ call \in [Person -> AccountCalls]
    /\ \A p \in Person : call[p].kind # "none" => call[p].who \in Person
    /\ token \in [Person -> Role \cup {"none"}]
    /\ hasSession \subseteq Person

\* A step that only changes the call of p.
LEMMA CallTyped ==
    ASSUME AccountsTyped, NEW p \in Person, NEW c \in AccountCalls,
           c.kind # "none" => c.who \in Person, go(p, c)
    PROVE  call' \in [Person -> AccountCalls] /\ \A q \in Person : call'[q].kind # "none" => call'[q].who \in Person
BY DEF AccountsTyped, go

LEMMA RowTyped ==
    ASSUME AccountsTyped, NEW q, NEW r \in AccountRows, account' = [account EXCEPT ![q] = r]
    PROVE  account' \in [Person -> AccountRows]
BY DEF AccountsTyped

LEMMA EntriesTyped ==
    ASSUME AccountsTyped, NEW p \in Person
    PROVE  /\ account[p] \in AccountRows
           /\ call[p] \in AccountCalls
           /\ call[p].kind # "none" => call[p].who \in Person /\ account[call[p].who] \in AccountRows
BY DEF AccountsTyped

LEMMA NoCallTyped == NoCall \in AccountCalls /\ NoCall.kind = "none"
BY DEF NoCall, AccountCalls, Role

LEMMA AccountsTypedKept ==
    ASSUME AccountsTyped, [AccountsNext]_accountVars
    PROVE  AccountsTyped'
<1> USE DEF accountVars
<1>1. ASSUME NEW p \in Person, done(p),
             account' \in [Person -> AccountRows], token' \in [Person -> Role \cup {"none"}],
             hasSession' \subseteq Person
      PROVE  AccountsTyped'
  BY <1>1, CallTyped, NoCallTyped DEF done, AccountsTyped
<1>2. ASSUME NEW p \in Person, NEW c \in AccountCalls, c.kind # "none" => c.who \in Person, go(p, c),
             UNCHANGED <<account, token, hasSession>>
      PROVE  AccountsTyped'
  BY <1>2, CallTyped DEF AccountsTyped
<1>3. ASSUME NEW p \in Person, NEW kind \in {"login", "refresh", "order", "profile", "setRole", "remove", "create"},
             NEW q \in Person, NEW r \in Role, send(p, kind, q, r)
      PROVE  AccountsTyped'
  <2> DEFINE c == [kind |-> kind, pc |-> "sent", who |-> q, role |-> r, used |-> FALSE]
  <2>1. c \in AccountCalls /\ c.who \in Person
    BY DEF AccountCalls
  <2> QED
    BY <1>2, <1>3, <2>1 DEF send
<1>4. CASE UNCHANGED accountVars
  BY <1>4 DEF AccountsTyped
<1>5. ASSUME NEW p \in Person, register(p)
      PROVE  AccountsTyped'
  BY <1>5, RowTyped DEF register, AccountsTyped, AccountRows, Nobody, Role
<1>6. ASSUME NEW p \in Person, personRequests(p)
      PROVE  AccountsTyped'
  BY <1>3, <1>6 DEF personRequests, Role
<1>7. ASSUME NEW p \in Person, readAccount(p)
      PROVE  AccountsTyped'
  <2> DEFINE c == [call[p] EXCEPT !.pc = "read", !.role = readRole(p)]
  <2>1. account[p].role \in Role /\ call[p] \in AccountCalls /\ (call[p].kind # "none" => call[p].who \in Person)
    BY DEF AccountsTyped, AccountRows
  <2>2. c \in AccountCalls /\ (c.kind # "none" => c.who \in Person)
    BY <2>1 DEF AccountCalls, readRole
  <2> QED
    BY <1>2, <1>7, <2>2 DEF readAccount
<1>8. ASSUME NEW p \in Person, refuseAccount(p)
      PROVE  AccountsTyped'
  BY <1>1, <1>8 DEF refuseAccount, AccountsTyped
<1>9. ASSUME NEW p \in Person, signToken(p)
      PROVE  AccountsTyped'
  BY <1>1, <1>9 DEF signToken, AccountsTyped, AccountCalls
<1>10. ASSUME NEW p \in Person, useToken(p)
       PROVE  AccountsTyped'
  <2> DEFINE r == [account[p] EXCEPT !.personal = TRUE,
                                     !.orders = IF call[p].kind = "order" THEN 1 ELSE @]
  <2>1. r \in AccountRows
    BY DEF AccountsTyped, AccountRows
  <2>2. account' = account \/ account' = [account EXCEPT ![p] = r]
    BY <1>10 DEF useToken, AccountsTyped, AccountRows
  <2>3. account' \in [Person -> AccountRows]
    BY <2>1, <2>2, RowTyped DEF AccountsTyped
  <2> QED
    BY <1>1, <1>10, <2>3 DEF useToken, AccountsTyped
<1>11. ASSUME NEW p \in Person, tokenExpires(p)
       PROVE  AccountsTyped'
  BY <1>11 DEF tokenExpires, AccountsTyped
<1>12. ASSUME NEW p \in Person, AdminUsersPage(p)
       PROVE  AccountsTyped'
  BY <1>3, <1>12 DEF AdminUsersPage, Role
<1>13. ASSUME NEW p \in Person, createUser(p)
       PROVE  AccountsTyped'
  <2> DEFINE q == call[p].who
             r == IF account[q].st = "none"
                  THEN [st |-> "active", role |-> call[p].role, personal |-> TRUE, orders |-> 0] ELSE account[q]
  <2>1. q \in Person
    BY <1>13 DEF createUser, at, AccountsTyped
  <2>2. r \in AccountRows
    BY <2>1 DEF AccountsTyped, AccountCalls, AccountRows
  <2>3. account' = [account EXCEPT ![q] = r]
    BY <1>13, <2>1 DEF createUser, AccountsTyped
  <2>4. account' \in [Person -> AccountRows]
    BY <2>2, <2>3, RowTyped, Zenon
  <2>5. done(p) /\ token' \in [Person -> Role \cup {"none"}] /\ hasSession' \subseteq Person
    BY <1>13 DEF createUser, AccountsTyped
  <2> QED
    BY <1>1, <2>4, <2>5, Zenon
<1>14. ASSUME NEW p \in Person, findActive(p) \/ refuseLastAdmin(p)
       PROVE  AccountsTyped'
  <2>1. ASSUME NEW pc \in {"count", "counted"}
        PROVE  LET c == [call[p] EXCEPT !.pc = pc]
               IN  c \in AccountCalls /\ (c.kind # "none" => c.who \in Person)
    <3>1. call[p] \in AccountCalls /\ (call[p].kind # "none" => call[p].who \in Person)
      BY EntriesTyped
    <3> QED
      BY <2>1, <3>1 DEF AccountCalls
  <2>2. UNCHANGED <<account, token, hasSession>>
    BY <1>14 DEF findActive, refuseLastAdmin
  <2>3. done(p) \/ \E pc \in {"count", "counted"} : go(p, [call[p] EXCEPT !.pc = pc])
    BY <1>14 DEF findActive, refuseLastAdmin
  <2>4. CASE done(p)
    BY <1>1, <2>2, <2>4 DEF AccountsTyped
  <2>5. CASE \E pc \in {"count", "counted"} : go(p, [call[p] EXCEPT !.pc = pc])
    BY <1>2, <2>1, <2>2, <2>5
  <2> QED
    BY <2>3, <2>4, <2>5
<1>15. ASSUME NEW p \in Person, setRole(p)
       PROVE  AccountsTyped'
  <2> DEFINE q == call[p].who
             r == [account[q] EXCEPT !.role = call[p].role]
  <2>1. r \in AccountRows
    <3>1. call[p].kind = "setRole"
      BY <1>15 DEF setRole, at
    <3>2. account[q] \in AccountRows /\ call[p].role \in Role
      BY <3>1, EntriesTyped DEF AccountCalls
    <3> QED
      BY <3>2 DEF AccountRows
  <2>2. account' = account \/ account' = [account EXCEPT ![q] = r]
    BY <1>15 DEF setRole
  <2>3. account' \in [Person -> AccountRows]
    BY <2>1, <2>2, RowTyped DEF AccountsTyped
  <2>4. done(p) /\ token' \in [Person -> Role \cup {"none"}] /\ hasSession' \subseteq Person
    BY <1>15 DEF setRole, AccountsTyped
  <2> QED
    BY <1>1, <2>3, <2>4, Zenon
<1>16. ASSUME NEW p \in Person, countOrders(p)
       PROVE  AccountsTyped'
  <2> DEFINE c == [call[p] EXCEPT !.pc = "checked", !.used = account[call[p].who].orders > 0]
  <2>1. c \in AccountCalls /\ (c.kind # "none" => c.who \in Person)
    <3>1. call[p] \in AccountCalls /\ (call[p].kind # "none" => call[p].who \in Person)
      BY EntriesTyped
    <3>2. (account[call[p].who].orders > 0) \in BOOLEAN
      OBVIOUS
    <3> QED
      BY <3>1, <3>2 DEF AccountCalls
  <2> QED
    BY <1>2, <1>16, <2>1 DEF countOrders
<1>17. ASSUME NEW p \in Person, removeUser(p)
       PROVE  AccountsTyped'
  <2> DEFINE q == call[p].who
  <2>1. PICK r : /\ r \in {[Nobody EXCEPT !.st = "deleted"],
                           [st |-> "anonymised", role |-> "CUSTOMER", personal |-> FALSE, orders |-> account[q].orders]}
                 /\ account' = account \/ account' = [account EXCEPT ![q] = r]
    BY <1>17 DEF removeUser
  <2>2. r \in AccountRows
    <3>1. call[p].kind = "remove"
      BY <1>17 DEF removeUser, at
    <3>2. account[q] \in AccountRows
      BY <3>1, EntriesTyped
    <3>3. [Nobody EXCEPT !.st = "deleted"] \in AccountRows
      <4>1. Nobody \in AccountRows
        BY DEF Nobody, AccountRows, Role
      <4> QED
        BY <4>1 DEF AccountRows
    <3>4. [st |-> "anonymised", role |-> "CUSTOMER", personal |-> FALSE, orders |-> account[q].orders] \in AccountRows
      BY <3>2 DEF AccountRows, Role
    <3> QED
      BY <2>1, <3>3, <3>4
  <2>3. account' \in [Person -> AccountRows]
    BY <2>1, <2>2, RowTyped DEF AccountsTyped
  <2>4. done(p) /\ token' \in [Person -> Role \cup {"none"}] /\ hasSession' \subseteq Person
    BY <1>17 DEF removeUser, sessionsLeft, AccountsTyped
  <2> QED
    BY <1>1, <2>3, <2>4, Zenon
<1> QED
  BY <1>4, <1>5, <1>6, <1>7, <1>8, <1>9, <1>10, <1>11, <1>12, <1>13, <1>14, <1>15, <1>16, <1>17
     DEF AccountsNext

-----------------------------------------------------------------------------
(* Accounts: an admin remains.                                             *)

Removes(c) == c.kind \in {"setRole", "remove"} /\ c.pc \in {"counted", "checked"}

\* An admin who is about to lose the role or the account.
Doomed(a) == Removes(call[a]) /\ call[a].who \in Admins

\* Whoever was let past the count leaves an admin behind; a person promoted
\* after the look at the role was no admin, and those who were remain.
OthersStay == ~raced => \A a \in Person : Doomed(a) => Admins \ {call[a].who} # {}

AdminInv == KeepsAnAdmin /\ OthersStay

\* The steps that read and wait: they change nothing but one call.
Waits(p) ==
    \/ personRequests(p) \/ readAccount(p) \/ refuseAccount(p) \/ AdminUsersPage(p)
    \/ findActive(p) \/ refuseLastAdmin(p) \/ countOrders(p)

LEMMA WaitsChangeACall ==
    ASSUME NEW p \in Person, Waits(p)
    PROVE  UNCHANGED <<account, hasSession, token, late, demoted, raced>>
<1>1. CASE personRequests(p) \/ AdminUsersPage(p)
  BY <1>1 DEF personRequests, AdminUsersPage, send
<1>2. CASE readAccount(p) \/ refuseAccount(p)
  BY <1>2 DEF readAccount, refuseAccount
<1>3. CASE findActive(p) \/ refuseLastAdmin(p)
  BY <1>3 DEF findActive, refuseLastAdmin
<1>4. CASE countOrders(p)
  BY <1>4 DEF countOrders
<1> QED
  BY <1>1, <1>2, <1>3, <1>4 DEF Waits

\* The other steps end the call they answer, if they answer one.
Commits(p) ==
    \/ register(p) \/ signToken(p) \/ useToken(p) \/ tokenExpires(p)
    \/ createUser(p) \/ setRole(p) \/ removeUser(p)

LEMMA StepsOfAccounts ==
    ASSUME [AccountsNext]_accountVars
    PROVE  UNCHANGED accountVars \/ \E p \in Person : Waits(p) \/ Commits(p)
BY DEF AccountsNext, Waits, Commits

\* No admin is lost, and only one call changes.
LEMMA AdminsGrow ==
    ASSUME AccountsTyped, AdminInv, NEW p \in Person, NEW c, go(p, c) \/ call' = call,
           Admins \subseteq Admins', raced' <=> raced,
           Removes(c) => \/ Removes(call[p]) /\ call[p].who = c.who
                         \/ Admins' \ {c.who} # {}
                         \/ c.who \notin Admins'
    PROVE  AdminInv'
<1>1. CASE raced
  BY <1>1 DEF AdminInv, KeepsAnAdmin, OthersStay
<1>2. CASE ~raced
  <2>1. Admins # {} /\ Admins' # {}
    BY <1>2 DEF AdminInv, KeepsAnAdmin
  <2>2. ASSUME NEW a \in Person, Doomed(a)'
        PROVE  Admins' \ {call'[a].who} # {}
    <3> DEFINE q == call'[a].who
    <3>1. Removes(call'[a]) /\ q \in Admins'
      BY <2>2 DEF Doomed
    <3>2. \/ Removes(call[a]) /\ call[a].who = q
          \/ Admins' \ {q} # {}
      <4>1. CASE call'[a] = call[a]
        BY <3>1, <4>1
      <4>2. CASE call'[a] # call[a]
        <5>1. a = p /\ call'[a] = c
          BY <4>2 DEF go, AccountsTyped
        <5> QED
          BY <3>1, <5>1
      <4> QED
        BY <4>1, <4>2
    <3>3. CASE q \in Admins /\ Removes(call[a]) /\ call[a].who = q
      <4>1. Admins \ {q} # {}
        BY <1>2, <3>3 DEF AdminInv, OthersStay, Doomed
      <4> QED
        BY <4>1
    <3>4. CASE q \notin Admins
      BY <2>1, <3>4
    <3> QED
      BY <3>2, <3>3, <3>4
  <2> QED
    BY <2>1, <2>2 DEF AdminInv, KeepsAnAdmin, OthersStay
<1> QED
  BY <1>1, <1>2

\* One admin goes: any other who is about to go has overlapped.
LEMMA AdminsShrink ==
    ASSUME AccountsTyped, AdminInv, NEW a \in Person, done(a), Doomed(a),
           Admins' = Admins \ {call[a].who}, raced' = (raced \/ Overlaps(a))
    PROVE  AdminInv'
<1>1. CASE raced'
  BY <1>1 DEF AdminInv, KeepsAnAdmin, OthersStay
<1>2. CASE ~raced'
  <2>1. ~raced /\ ~Overlaps(a)
    BY <1>2
  <2>2. Admins' # {}
    BY <2>1 DEF AdminInv, OthersStay
  <2>3. ASSUME NEW b \in Person, Doomed(b)'
        PROVE  FALSE
    <3>1. Removes(call'[b]) /\ call'[b].who \in Admins'
      BY <2>3 DEF Doomed
    <3>2. b # a /\ call'[b] = call[b]
      BY <3>1 DEF done, go, AccountsTyped, Removes, NoCall
    <3>3. call[b].who \in Admins \ {call[a].who}
      BY <3>1, <3>2
    <3> QED
      BY <2>1, <3>1, <3>2, <3>3 DEF Overlaps, Doomed, Removes
  <2> QED
    BY <1>2, <2>2, <2>3 DEF AdminInv, KeepsAnAdmin, OthersStay
<1> QED
  BY <1>1, <1>2

LEMMA AdminsCounted == ASSUME NEW x, ~tooFewAdmins PROVE Admins \ {x} # {}
<1>1. SUFFICES ASSUME Admins \subseteq {x} PROVE FALSE
  OBVIOUS
<1>2. Admins = {} \/ Admins = {x}
  BY <1>1
<1>3. Cardinality(Admins) = 0 \/ Cardinality(Admins) = 1
  BY <1>2, FS_EmptySet, FS_Singleton
<1> QED
  BY <1>3 DEF tooFewAdmins

LEMMA AdminsWait ==
    ASSUME AccountsTyped, AdminInv, NEW p \in Person, Waits(p)
    PROVE  AdminInv'
<1>1. Admins' = Admins /\ raced' = raced
  BY WaitsChangeACall DEF Admins, Active
<1>2. ASSUME NEW c, go(p, c), ~Removes(c)
      PROVE  AdminInv'
  BY <1>1, <1>2, AdminsGrow
<1>3. CASE personRequests(p) \/ AdminUsersPage(p)
  <2>1. PICK kind, q, r : send(p, kind, q, r)
    BY <1>3 DEF personRequests, AdminUsersPage
  <2> QED
    BY <1>2, <2>1 DEF send, Removes
<1>4. CASE readAccount(p)
  <2>1. ~Removes([call[p] EXCEPT !.pc = "read", !.role = readRole(p)])
    BY EntriesTyped DEF Removes, AccountCalls
  <2> QED
    BY <1>2, <1>4, <2>1 DEF readAccount
<1>5. ~Removes(NoCall)
  BY DEF Removes, NoCall
<1>6. CASE refuseAccount(p)
  BY <1>2, <1>5, <1>6 DEF refuseAccount, done
<1>7. CASE findActive(p)
  <2> DEFINE pc == IF account[call[p].who].role = "ADMIN" THEN "count" ELSE "counted"
             c == [call[p] EXCEPT !.pc = pc]
  <2>1. done(p) \/ go(p, c)
    BY <1>7 DEF findActive
  <2>2. c.who = call[p].who /\ c.pc = pc
    BY EntriesTyped DEF AccountCalls
  <2>3. Removes(c) => c.who \notin Admins
    BY <2>2 DEF Removes, Admins
  <2> HIDE DEF c
  <2>4. CASE go(p, c)
    BY <1>1, <2>3, <2>4, AdminsGrow, Zenon
  <2> QED
    BY <1>2, <1>5, <2>1, <2>4 DEF done
<1>8. CASE refuseLastAdmin(p)
  <2> DEFINE c == [call[p] EXCEPT !.pc = "counted"]
  <2>1. done(p) \/ (go(p, c) /\ ~tooFewAdmins)
    BY <1>8 DEF refuseLastAdmin
  <2> HIDE DEF c
  <2>2. CASE go(p, c) /\ ~tooFewAdmins
    BY <1>1, <2>2, AdminsCounted, AdminsGrow, Zenon
  <2> QED
    BY <1>2, <1>5, <2>1, <2>2 DEF done
<1>9. CASE countOrders(p)
  <2> DEFINE c == [call[p] EXCEPT !.pc = "checked", !.used = account[call[p].who].orders > 0]
  <2>1. go(p, c) /\ Removes(call[p])
    BY <1>9 DEF countOrders, at, Removes
  <2>2. c.who = call[p].who
    BY EntriesTyped DEF AccountCalls
  <2> HIDE DEF c
  <2> QED
    BY <1>1, <2>1, <2>2, AdminsGrow, Zenon
<1> QED
  BY <1>3, <1>4, <1>6, <1>7, <1>8, <1>9 DEF Waits

LEMMA AdminsCommit ==
    ASSUME AccountsTyped, AdminInv, NEW p \in Person, Commits(p)
    PROVE  AdminInv'
<1> DEFINE q == call[p].who
<1>1. ASSUME Admins \subseteq Admins', raced' <=> raced, done(p) \/ call' = call
      PROVE  AdminInv'
  BY <1>1, AdminsGrow, ~Removes(NoCall) DEF done, Removes, NoCall
<1>2. CASE register(p)
  <2>1. Admins \subseteq Admins'
    BY <1>2 DEF register, Admins, Active, AccountsTyped
  <2> QED
    BY <1>1, <1>2, <2>1 DEF register
<1>3. CASE signToken(p)
  <2>1. Admins \subseteq Admins'
    BY <1>3 DEF signToken, Admins, Active
  <2> QED
    BY <1>1, <1>3, <2>1 DEF signToken
<1>4. CASE useToken(p)
  <2>1. \A x \in Person : account'[x].st = account[x].st /\ account'[x].role = account[x].role
    BY <1>4, EntriesTyped DEF useToken, AccountsTyped, AccountRows
  <2>2. Admins \subseteq Admins'
    BY <2>1 DEF Admins, Active
  <2> QED
    BY <1>1, <1>4, <2>2 DEF useToken
<1>5. CASE tokenExpires(p)
  <2>1. Admins \subseteq Admins'
    BY <1>5 DEF tokenExpires, Admins, Active
  <2> QED
    BY <1>1, <1>5, <2>1 DEF tokenExpires
<1>6. CASE createUser(p)
  <2>1. \A x \in Person : account'[x] = account[x] \/ account[x].st = "none"
    BY <1>6 DEF createUser, AccountsTyped
  <2>2. Admins \subseteq Admins'
    BY <2>1 DEF Admins, Active
  <2>3. done(p) /\ raced' = raced
    BY <1>6 DEF createUser
  <2> QED
    BY <1>1, <2>2, <2>3
<1>7. ASSUME done(p), Removes(call[p]), raced' = (raced \/ Overlaps(p)), NEW r, r.role = "CUSTOMER",
             account' = [account EXCEPT ![q] = r]
      PROVE  AdminInv'
  <2>1. q \in Person
    BY <1>7 DEF AccountsTyped, Removes
  <2>2. Admins' = Admins \ {q}
    BY <1>7, <2>1 DEF Admins, Active, AccountsTyped
  <2>3. CASE q \in Admins
    BY <1>7, <2>2, <2>3, AdminsShrink DEF Doomed
  <2>4. CASE q \notin Admins
    <3>1. Admins' = Admins /\ (raced' <=> raced)
      BY <1>7, <2>2, <2>4 DEF Overlaps
    <3> QED
      BY <1>1, <1>7, <3>1
  <2> QED
    BY <2>3, <2>4
<1>8. CASE setRole(p)
  <2>1. done(p) /\ call[p].kind = "setRole" /\ call[p].pc = "counted"
    BY <1>8 DEF setRole, at
  <2>2. q \in Person /\ account[q] \in AccountRows /\ call[p].role \in Role
    BY <2>1, EntriesTyped DEF AccountCalls
  <2>3. CASE UNCHANGED <<account, hasSession, demoted, raced>>
    BY <1>1, <2>1, <2>3 DEF Admins, Active
  <2>4. CASE /\ account' = [account EXCEPT ![q].role = call[p].role]
             /\ raced' = (raced \/ Overlaps(p))
    <3> DEFINE r == [account[q] EXCEPT !.role = call[p].role]
    <3>1. account' = [account EXCEPT ![q] = r] /\ r.role = call[p].role /\ r.st = account[q].st
      BY <2>2, <2>4 DEF AccountRows
    <3> HIDE DEF r
    <3>2. CASE call[p].role = "CUSTOMER"
      BY <1>7, <2>1, <2>4, <3>1, <3>2 DEF Removes
    <3>3. CASE call[p].role = "ADMIN"
      <4>1. Admins \subseteq Admins'
        BY <2>2, <3>1, <3>3 DEF Admins, Active, AccountsTyped
      <4>2. CASE raced'
        BY <4>2 DEF AdminInv, KeepsAnAdmin, OthersStay
      <4>3. CASE ~raced'
        <5>1. raced' <=> raced
          BY <2>4, <4>3
        <5> QED
          BY <1>1, <2>1, <4>1, <5>1
      <4> QED
        BY <4>2, <4>3
    <3> QED
      BY <2>2, <3>2, <3>3 DEF Role
  <2> QED
    BY <1>8, <2>3, <2>4 DEF setRole
<1>9. CASE removeUser(p)
  <2>1. done(p) /\ Removes(call[p])
    BY <1>9 DEF removeUser, at, Removes
  <2>2. CASE UNCHANGED <<account, hasSession, demoted, raced>>
    BY <1>1, <2>1, <2>2 DEF Admins, Active
  <2>3. ASSUME NEW r \in {[Nobody EXCEPT !.st = "deleted"],
                          [st |-> "anonymised", role |-> "CUSTOMER", personal |-> FALSE, orders |-> account[q].orders]},
               account' = [account EXCEPT ![q] = r], raced' = (raced \/ Overlaps(p))
        PROVE  AdminInv'
    <3>1. r.role = "CUSTOMER"
      BY <2>3 DEF Nobody
    <3> QED
      BY <1>7, <2>1, <2>3, <3>1
  <2> QED
    BY <1>9, <2>2, <2>3 DEF removeUser
<1> QED
  BY <1>2, <1>3, <1>4, <1>5, <1>6, <1>8, <1>9 DEF Commits

LEMMA AdminInvKept ==
    ASSUME AccountsTyped, AdminInv, [AccountsNext]_accountVars
    PROVE  AdminInv'
<1>1. CASE UNCHANGED accountVars
  BY <1>1 DEF accountVars, AdminInv, KeepsAnAdmin, OthersStay, Doomed, Removes, Admins, Active
<1> QED
  BY <1>1, StepsOfAccounts, AdminsWait, AdminsCommit

-----------------------------------------------------------------------------
(* The theorems about accounts.                                            *)

LEMMA DesksApart ==
    ASSUME [OfficeNext]_officeVars
    PROVE  [AccountsNext]_accountVars /\ [CatalogNext]_catalogVars /\ [ImportNext]_importVars
BY DEF OfficeNext, officeVars

LEMMA AccountsTypedInit == AccountsInit => AccountsTyped
<1> SUFFICES ASSUME AccountsInit PROVE AccountsTyped
  OBVIOUS
<1>1. account \in [Person -> AccountRows]
  <2>1. Nobody \in AccountRows /\ [st |-> "active", role |-> "ADMIN", personal |-> TRUE, orders |-> 0] \in AccountRows
    BY DEF Nobody, AccountRows, Role
  <2> QED
    BY <2>1 DEF AccountsInit
<1> QED
  BY <1>1, NoCallTyped DEF AccountsInit, AccountsTyped

\* The accounts, tokens and calls in flight stay well formed.
THEOREM AccountsAreTyped == OfficeSpec => []AccountsTyped
<1>1. OfficeInit => AccountsTyped
  BY AccountsTypedInit DEF OfficeInit
<1>2. AccountsTyped /\ [OfficeNext]_officeVars => AccountsTyped'
  BY AccountsTypedKept, DesksApart
<1> QED
  BY <1>1, <1>2, PTL DEF OfficeSpec

\* However many admins promote, demote and remove each other, the store keeps
\* one, unless two removals were let past the same count.
THEOREM AnAdminStays == OfficeSpec => []KeepsAnAdmin
<1>1. OfficeInit => AdminInv
  <2> SUFFICES ASSUME AccountsInit PROVE AdminInv
    BY DEF OfficeInit
  <2>1. Admins # {}
    <3>1. PICK A \in (SUBSET Person) \ {{}} :
            account = [p \in Person |-> IF p \in A THEN [st |-> "active", role |-> "ADMIN", personal |-> TRUE, orders |-> 0]
                                        ELSE Nobody]
      BY DEF AccountsInit
    <3>2. A # {} /\ A \subseteq Person
      BY <3>1
    <3>3. PICK p \in A : p \in Person
      BY <3>2
    <3>4. account[p].st = "active" /\ account[p].role = "ADMIN"
      BY <3>1, <3>3
    <3> QED
      BY <3>3, <3>4 DEF Admins, Active
  <2>2. \A a \in Person : ~Doomed(a)
    BY DEF AccountsInit, Doomed, Removes, NoCall
  <2> QED
    BY <2>1, <2>2 DEF AdminInv, KeepsAnAdmin, OthersStay
<1>2. AccountsTyped /\ AdminInv /\ [OfficeNext]_officeVars => AdminInv'
  BY AdminInvKept, DesksApart
<1>3. AdminInv => KeepsAnAdmin
  BY DEF AdminInv
<1> QED
  BY <1>1, <1>2, <1>3, AccountsAreTyped, PTL DEF OfficeSpec

-----------------------------------------------------------------------------
(* Accounts: what a removal leaves, and the role a token carries.          *)

\* A removal sets the row and takes the session away.
LEMMA Removed ==
    ASSUME AccountsTyped, NEW a \in Person, removeUser(a)
    PROVE  /\ call[a].who \in Person /\ done(a) /\ UNCHANGED <<token, late>>
           /\ \/ UNCHANGED <<account, hasSession, demoted>>
              \/ /\ \E r \in AccountRows :
                       /\ account' = [account EXCEPT ![call[a].who] = r]
                       /\ r.st \in {"anonymised", "deleted"} /\ ~r.personal /\ r.role = "CUSTOMER"
                 /\ hasSession' = hasSession \ {call[a].who}
                 /\ demoted' = IF token[call[a].who] = "none" THEN demoted ELSE demoted \cup {call[a].who}
<1> DEFINE q == call[a].who
           r1 == [Nobody EXCEPT !.st = "deleted"]
           r2 == [st |-> "anonymised", role |-> "CUSTOMER", personal |-> FALSE, orders |-> account[q].orders]
<1>1. q \in Person
  BY DEF AccountsTyped, removeUser, at
<1>2. done(a) /\ UNCHANGED <<token, late>>
  BY DEF removeUser
<1>3. r1 \in AccountRows /\ r1.st = "deleted" /\ ~r1.personal /\ r1.role = "CUSTOMER"
  <2>1. Nobody \in AccountRows /\ ~Nobody.personal /\ Nobody.role = "CUSTOMER"
    BY DEF Nobody, AccountRows, Role
  <2> QED
    BY <2>1 DEF AccountRows
<1>4. r2 \in AccountRows /\ r2.st = "anonymised" /\ ~r2.personal /\ r2.role = "CUSTOMER"
  BY <1>1, EntriesTyped DEF AccountRows, Role
<1>5. \/ UNCHANGED <<account, hasSession, demoted>>
      \/ /\ account' = [account EXCEPT ![q] = r1] \/ account' = [account EXCEPT ![q] = r2]
         /\ hasSession' = hasSession \ {q}
         /\ demoted' = IF token[q] = "none" THEN demoted ELSE demoted \cup {q}
  BY DEF removeUser, sessionsLeft
<1> HIDE DEF q, r1, r2
<1> QED
  BY <1>1, <1>2, <1>3, <1>4, <1>5 DEF q

LEMMA HoldsNothingKept ==
    ASSUME AccountsTyped, AnonymisedHoldsNothing, [AccountsNext]_accountVars
    PROVE  AnonymisedHoldsNothing'
<1>1. CASE UNCHANGED accountVars
  BY <1>1 DEF accountVars, AnonymisedHoldsNothing
<1>2. ASSUME NEW p \in Person, Waits(p)
      PROVE  AnonymisedHoldsNothing'
  BY <1>2, WaitsChangeACall DEF AnonymisedHoldsNothing
<1>3. ASSUME NEW p \in Person, register(p)
      PROVE  AnonymisedHoldsNothing'
  BY <1>3 DEF register, AnonymisedHoldsNothing, AccountsTyped, Nobody
<1>4. ASSUME NEW p \in Person, signToken(p)
      PROVE  AnonymisedHoldsNothing'
  BY <1>4 DEF signToken, AnonymisedHoldsNothing, Active
<1>5. ASSUME NEW p \in Person, useToken(p)
      PROVE  AnonymisedHoldsNothing'
  <2>1. \A x \in Person \ {p} : account'[x] = account[x]
    BY <1>5 DEF useToken, AccountsTyped
  <2>2. account'[p].st = account[p].st
    BY <1>5, EntriesTyped DEF useToken, AccountsTyped, AccountRows
  <2>3. hasSession' = hasSession /\ late \subseteq late'
    BY <1>5 DEF useToken
  <2>4. account' = account \/ Active(p) \/ p \in late'
    BY <1>5 DEF useToken
  <2> QED
    BY <2>1, <2>2, <2>3, <2>4 DEF AnonymisedHoldsNothing, Active
<1>6. ASSUME NEW p \in Person, tokenExpires(p)
      PROVE  AnonymisedHoldsNothing'
  BY <1>6 DEF tokenExpires, AnonymisedHoldsNothing
<1>7. ASSUME NEW p \in Person, createUser(p)
      PROVE  AnonymisedHoldsNothing'
  <2>1. \A x \in Person : account'[x] = account[x] \/ account'[x].st = "active"
    BY <1>7 DEF createUser, AccountsTyped
  <2>2. UNCHANGED <<hasSession, late>>
    BY <1>7 DEF createUser
  <2> QED
    BY <2>1, <2>2 DEF AnonymisedHoldsNothing
<1>8. ASSUME NEW p \in Person, setRole(p)
      PROVE  AnonymisedHoldsNothing'
  <2> DEFINE q == call[p].who
  <2>1. call[p].kind = "setRole"
    BY <1>8 DEF setRole, at
  <2>2. account[q] \in AccountRows /\ q \in Person
    BY <2>1, EntriesTyped
  <2>3. account' = account \/ account' = [account EXCEPT ![q].role = call[p].role]
    BY <1>8 DEF setRole
  <2>4. \A x \in Person : account'[x].st = account[x].st /\ account'[x].personal = account[x].personal
    BY <2>2, <2>3 DEF AccountsTyped, AccountRows
  <2>5. hasSession' \subseteq hasSession /\ late' = late
    BY <1>8 DEF setRole
  <2> QED
    BY <2>4, <2>5 DEF AnonymisedHoldsNothing
<1>9. ASSUME NEW p \in Person, removeUser(p)
      PROVE  AnonymisedHoldsNothing'
  <2> DEFINE q == call[p].who
  <2>1. late' = late
    BY <1>9, Removed
  <2>2. CASE UNCHANGED <<account, hasSession, demoted>>
    BY <2>1, <2>2 DEF AnonymisedHoldsNothing
  <2>3. CASE /\ \E r \in AccountRows : account' = [account EXCEPT ![q] = r] /\ ~r.personal
             /\ hasSession' = hasSession \ {q}
    BY <2>1, <2>3 DEF AnonymisedHoldsNothing, AccountsTyped
  <2> QED
    BY <1>9, <2>2, <2>3, Removed
<1> QED
  BY <1>1, <1>2, <1>3, <1>4, <1>5, <1>6, <1>7, <1>8, <1>9, StepsOfAccounts DEF Commits

\* A person who was removed and had ordered leaves nothing personal behind and
\* no way in, but for a request that was under way or a token still valid.
THEOREM RemovalLeavesNothing == OfficeSpec => []AnonymisedHoldsNothing
<1>1. OfficeInit => AnonymisedHoldsNothing
  BY DEF OfficeInit, AccountsInit, AnonymisedHoldsNothing, Nobody
<1>2. AccountsTyped /\ AnonymisedHoldsNothing /\ [OfficeNext]_officeVars => AnonymisedHoldsNothing'
  BY HoldsNothingKept, DesksApart
<1> QED
  BY <1>1, <1>2, AccountsAreTyped, PTL DEF OfficeSpec

\* A person without a row has no token and no session.
SessionsOfRows == \A p \in Person : account[p].st = "none" => token[p] = "none" /\ p \notin hasSession

\* A refresh that has read an account signs the role the account has: a change
\* of role in between takes the session away, and with it the refresh.
RefreshReads ==
    \A p \in Person : call[p].kind = "refresh" /\ call[p].pc = "read" /\ p \in hasSession => call[p].role = account[p].role

RolesInv == SessionsOfRows /\ RefreshReads /\ TokensCarryTheRole

LEMMA RolesWait ==
    ASSUME AccountsTyped, RolesInv, NEW p \in Person, Waits(p)
    PROVE  RolesInv'
<1>1. UNCHANGED <<account, hasSession, token, demoted>>
  BY WaitsChangeACall
<1>2. SessionsOfRows' /\ TokensCarryTheRole'
  BY <1>1 DEF RolesInv, SessionsOfRows, TokensCarryTheRole, HasRow
<1>3. ASSUME NEW c, go(p, c), c.kind = "refresh" /\ c.pc = "read" => c.role = account[p].role
      PROVE  RolesInv'
  BY <1>1, <1>2, <1>3 DEF RolesInv, RefreshReads, go, AccountsTyped
<1>4. CASE personRequests(p) \/ AdminUsersPage(p)
  <2>1. PICK kind, q, r : send(p, kind, q, r)
    BY <1>4 DEF personRequests, AdminUsersPage
  <2> QED
    BY <1>3, <2>1 DEF send
<1>5. CASE readAccount(p)
  <2> DEFINE c == [call[p] EXCEPT !.pc = "read", !.role = readRole(p)]
  <2>1. go(p, c)
    BY <1>5 DEF readAccount
  <2>2. c.role = account[p].role
    BY EntriesTyped DEF readRole, AccountCalls
  <2> HIDE DEF c
  <2> QED
    BY <1>3, <2>1, <2>2
<1>6. NoCall.kind # "refresh"
  BY DEF NoCall
<1>7. CASE refuseAccount(p)
  BY <1>3, <1>6, <1>7 DEF refuseAccount, done
<1>8. CASE findActive(p) \/ refuseLastAdmin(p) \/ countOrders(p)
  <2>1. ASSUME NEW c, c.pc # "read", go(p, c)
        PROVE  RolesInv'
    BY <1>3, <2>1
  <2>2. \A pc, u : pc # "read" =>
          [call[p] EXCEPT !.pc = pc].pc # "read" /\ [call[p] EXCEPT !.pc = pc, !.used = u].pc # "read"
    BY EntriesTyped DEF AccountCalls
  <2>3. CASE done(p)
    BY <1>3, <1>6, <2>3 DEF done
  <2>4. CASE \E pc \in {"count", "counted"} : go(p, [call[p] EXCEPT !.pc = pc])
    BY <2>1, <2>2, <2>4
  <2>5. CASE countOrders(p)
    BY <2>1, <2>2, <2>5 DEF countOrders
  <2> QED
    BY <1>8, <2>3, <2>4, <2>5 DEF findActive, refuseLastAdmin
<1> QED
  BY <1>4, <1>5, <1>7, <1>8 DEF Waits

LEMMA RolesCommit ==
    ASSUME AccountsTyped, RolesInv, NEW p \in Person, Commits(p)
    PROVE  RolesInv'
<1> USE DEF RolesInv, SessionsOfRows, RefreshReads, TokensCarryTheRole, HasRow
<1> DEFINE q == call[p].who
<1>1. NoCall.kind # "refresh"
  BY DEF NoCall
<1>2. CASE register(p)
  BY <1>2 DEF register, AccountsTyped, Nobody
<1>3. CASE signToken(p)
  <2>1. SessionsOfRows'
    BY <1>3 DEF signToken, AccountsTyped
  <2>2. RefreshReads'
    BY <1>1, <1>3 DEF signToken, done, go, AccountsTyped
  <2>3. TokensCarryTheRole'
    BY <1>3 DEF signToken, AccountsTyped
  <2> QED
    BY <2>1, <2>2, <2>3
<1>4. CASE useToken(p)
  <2>1. \A x \in Person : account'[x].st = account[x].st /\ account'[x].role = account[x].role
    BY <1>4, EntriesTyped DEF useToken, AccountsTyped, AccountRows
  <2>2. \A x \in Person : call'[x] = call[x] \/ call'[x].kind # "refresh"
    BY <1>1, <1>4 DEF useToken, done, go, AccountsTyped
  <2>3. UNCHANGED <<hasSession, token, demoted>>
    BY <1>4 DEF useToken
  <2> QED
    BY <2>1, <2>2, <2>3
<1>5. CASE tokenExpires(p)
  BY <1>5 DEF tokenExpires, AccountsTyped
<1>6. CASE createUser(p)
  <2>1. \A x \in Person : account'[x] = account[x] \/ (account[x].st = "none" /\ account'[x].st = "active")
    BY <1>6 DEF createUser, AccountsTyped
  <2>2. \A x \in Person : call'[x] = call[x] \/ call'[x].kind # "refresh"
    BY <1>1, <1>6 DEF createUser, done, go, AccountsTyped
  <2>3. UNCHANGED <<hasSession, token, demoted>>
    BY <1>6 DEF createUser
  <2> QED
    BY <2>1, <2>2, <2>3
\* The row of q changes, and its session and its token's standing with it.
<1>7. ASSUME done(p), q \in Person, UNCHANGED token,
             NEW r, account' = [account EXCEPT ![q] = r], r.st # "none",
             hasSession' = hasSession \ {q},
             demoted' = IF token[q] = "none" THEN demoted ELSE demoted \cup {q}
      PROVE  RolesInv'
  <2>1. \A x \in Person : call'[x] = call[x] \/ call'[x].kind # "refresh"
    BY <1>1, <1>7 DEF done, go, AccountsTyped
  <2>2. \A x \in Person : IF x = q THEN account'[x] = r ELSE account'[x] = account[x]
    BY <1>7 DEF AccountsTyped
  <2>3. SessionsOfRows'
    BY <1>7, <2>2
  <2>4. RefreshReads'
    BY <1>7, <2>1, <2>2
  <2>5. TokensCarryTheRole'
    BY <1>7, <2>2
  <2> QED
    BY <2>3, <2>4, <2>5
<1>8. ASSUME done(p), UNCHANGED <<account, hasSession, token, demoted>>
      PROVE  RolesInv'
  BY <1>1, <1>8 DEF done, go, AccountsTyped
<1>9. CASE setRole(p)
  <2>1. done(p) /\ UNCHANGED token /\ call[p].kind = "setRole"
    BY <1>9 DEF setRole, at
  <2>2. q \in Person /\ account[q] \in AccountRows
    BY <2>1, EntriesTyped
  <2>3. CASE UNCHANGED <<account, hasSession, demoted, raced>>
    BY <1>8, <2>1, <2>3
  <2>4. CASE ~UNCHANGED <<account, hasSession, demoted, raced>>
    <3> DEFINE r == [account[q] EXCEPT !.role = call[p].role]
    <3>1. /\ HasRow(q) /\ account' = [account EXCEPT ![q] = r]
          /\ hasSession' = hasSession \ {q}
          /\ demoted' = IF token[q] = "none" THEN demoted ELSE demoted \cup {q}
      BY <1>9, <2>4 DEF setRole
    <3>2. r.st # "none"
      BY <2>2, <3>1 DEF AccountRows
    <3> HIDE DEF r
    <3> QED
      BY <1>7, <2>1, <2>2, <3>1, <3>2
  <2> QED
    BY <2>3, <2>4
<1>10. CASE removeUser(p)
  <2>1. q \in Person /\ done(p) /\ UNCHANGED token
    BY <1>10, Removed
  <2>2. \/ UNCHANGED <<account, hasSession, demoted>>
        \/ /\ \E r : account' = [account EXCEPT ![q] = r] /\ r.st # "none"
           /\ hasSession' = hasSession \ {q}
           /\ demoted' = IF token[q] = "none" THEN demoted ELSE demoted \cup {q}
    BY <1>10, Removed
  <2> QED
    BY <1>7, <1>8, <2>1, <2>2
<1> QED
  BY <1>2, <1>3, <1>4, <1>5, <1>6, <1>9, <1>10 DEF Commits

\* A token carries the role the account has, or the one it had when the token
\* was signed, and then the person is remembered as demoted until it expires.
THEOREM TokensAreOfTheRole == OfficeSpec => []TokensCarryTheRole
<1>1. OfficeInit => RolesInv
  BY DEF OfficeInit, AccountsInit, RolesInv, SessionsOfRows, RefreshReads, TokensCarryTheRole, NoCall
<1>2. AccountsTyped /\ RolesInv /\ UNCHANGED accountVars => RolesInv'
  BY DEF accountVars, RolesInv, SessionsOfRows, RefreshReads, TokensCarryTheRole, HasRow
<1>3. AccountsTyped /\ RolesInv /\ [OfficeNext]_officeVars => RolesInv'
  BY <1>2, RolesWait, RolesCommit, StepsOfAccounts, DesksApart
<1>4. RolesInv => TokensCarryTheRole
  BY DEF RolesInv
<1> QED
  BY <1>1, <1>3, <1>4, AccountsAreTyped, PTL DEF OfficeSpec

-----------------------------------------------------------------------------
(* The catalog: the types.                                                 *)

Statuses == {"DRAFT", "PUBLISHED", "ARCHIVED"}
FormStates == {"closed", "open", "sent", "found", "archive", "delete", "counted"}
Forms == [pc : FormStates, kind : {"create", "edit", "quick", "remove"} \cup Table,
          status : Statuses, brand : BOOLEAN, fits : BOOLEAN, seen : Int, quantity : Int, sold : BOOLEAN]
Products == [status : Statuses, brand : BOOLEAN, fits : BOOLEAN, quantity : Int]

CatalogTyped ==
    /\ product \in Products
    /\ form \in [Admin -> Forms]
    /\ shelf \in Int

LEMMA FormTyped ==
    ASSUME CatalogTyped, NEW a \in Admin, NEW f \in Forms, to(a, f)
    PROVE  form' \in [Admin -> Forms] /\ form'[a] = f /\ \A b \in Admin \ {a} : form'[b] = form[b]
BY DEF CatalogTyped, to

LEMMA NoFormTyped == NoForm \in Forms /\ NoForm.pc = "closed"
BY DEF NoForm, Forms, FormStates, Statuses

LEMMA FormsMove ==
    ASSUME CatalogTyped, NEW a \in Admin, NEW pc \in FormStates
    PROVE  [form[a] EXCEPT !.pc = pc] \in Forms /\ [form[a] EXCEPT !.pc = pc].pc = pc
BY DEF CatalogTyped, Forms

\* An answer closes the form, or leaves it open or at another place.
LEMMA Answered ==
    ASSUME CatalogTyped, NEW a \in Admin, NEW pc \in FormStates, close(a) \/ step(a, pc) \/ refusal(a)
    PROVE  /\ form' \in [Admin -> Forms]
           /\ form'[a].pc \in {"closed", "open", pc}
           /\ \A b \in Admin \ {a} : form'[b] = form[b]
<1>1. CASE close(a)
  BY <1>1, FormTyped, NoFormTyped DEF close
<1>2. ASSUME NEW next \in FormStates, step(a, next)
      PROVE  form' \in [Admin -> Forms] /\ form'[a].pc = next /\ \A b \in Admin \ {a} : form'[b] = form[b]
  <2> DEFINE f == [form[a] EXCEPT !.pc = next]
  <2>1. to(a, f)
    BY <1>2 DEF step
  <2>2. f \in Forms /\ f.pc = next
    BY FormsMove
  <2> HIDE DEF f
  <2> QED
    BY <2>1, <2>2, FormTyped
<1>3. close(a) \/ step(a, "open") \/ step(a, pc)
  BY DEF refusal
<1>4. "open" \in FormStates
  BY DEF FormStates
<1> QED
  BY <1>1, <1>2, <1>3, <1>4

\* The steps that touch no row: pages opened and filled in, looks and counts.
Looks(a) ==
    \/ ProductsBoard(a) \/ EditProductPage(a) \/ CreateProductPage(a) \/ AdminRows(a)
    \/ QuickEdit(a) \/ ProductForm(a) \/ confirmDelete(a) \/ leave(a)
    \/ findByIdAdmin(a) \/ countOrderItems(a) \/ countProducts(a)

LEMMA LooksLeaveRows ==
    ASSUME NEW a \in Admin, Looks(a)
    PROVE  UNCHANGED <<row, product, ordered, shelf, overwrote, wanted, brandRaced>>
<1>1. CASE ProductsBoard(a) \/ EditProductPage(a) \/ CreateProductPage(a) \/ AdminRows(a)
  BY <1>1 DEF ProductsBoard, EditProductPage, CreateProductPage, AdminRows, open, stored, ghosts
<1>2. CASE QuickEdit(a) \/ ProductForm(a) \/ confirmDelete(a) \/ leave(a)
  BY <1>2 DEF QuickEdit, ProductForm, confirmDelete, leave, stored, ghosts
<1>3. CASE findByIdAdmin(a) \/ countOrderItems(a) \/ countProducts(a)
  BY <1>3 DEF findByIdAdmin, countOrderItems, countProducts, stored, ghosts
<1> QED
  BY <1>1, <1>2, <1>3 DEF Looks

\* They keep the forms well formed, and count no brand's products but at the count.
LEMMA LooksTyped ==
    ASSUME CatalogTyped, NEW a \in Admin, Looks(a)
    PROVE  /\ CatalogTyped'
           /\ \A b \in Admin \ {a} : form'[b] = form[b]
           /\ form'[a].pc = "counted" => countProducts(a) /\ form'[a].kind = form[a].kind
<1> DEFINE Moved == /\ form' \in [Admin -> Forms]
                    /\ \A b \in Admin \ {a} : form'[b] = form[b]
                    /\ form'[a].pc = "counted" => countProducts(a) /\ form'[a].kind = form[a].kind
<1> SUFFICES Moved
  BY LooksLeaveRows DEF CatalogTyped
<1>1. ASSUME NEW f \in Forms, f.pc # "counted", to(a, f)
      PROVE  Moved
  BY <1>1, FormTyped
<1>2. CASE ProductsBoard(a) \/ EditProductPage(a) \/ CreateProductPage(a) \/ AdminRows(a)
  <2>1. PICK kind \in {"create", "edit", "quick", "remove"} \cup Table : open(a, kind)
    BY <1>2 DEF ProductsBoard, EditProductPage, CreateProductPage, AdminRows
  <2> DEFINE f == [NoForm EXCEPT !.pc = "open", !.kind = kind, !.status = product.status, !.brand = product.brand,
                                 !.fits = product.fits, !.seen = product.quantity, !.quantity = product.quantity]
  <2>2. to(a, f)
    BY <2>1 DEF open
  <2>3. product.status \in Statuses /\ product.brand \in BOOLEAN /\ product.fits \in BOOLEAN /\ product.quantity \in Int
    BY DEF CatalogTyped, Products
  <2>4. f \in Forms /\ f.pc = "open"
    BY <2>3, NoFormTyped DEF Forms, FormStates
  <2> QED
    BY <1>1, <2>2, <2>4
<1>3. CASE QuickEdit(a)
  <2>1. PICK q \in {form[a].quantity, MaxStock}, s \in {"PUBLISHED", "DRAFT", form[a].status} :
          to(a, [form[a] EXCEPT !.pc = "sent", !.quantity = q, !.status = s])
    BY <1>3 DEF QuickEdit
  <2>2. form[a] \in Forms
    BY DEF CatalogTyped
  <2>3. q \in Int /\ s \in Statuses
    BY <2>2, CatalogAssumption DEF Forms, Statuses
  <2>4. /\ [form[a] EXCEPT !.pc = "sent", !.quantity = q, !.status = s] \in Forms
        /\ [form[a] EXCEPT !.pc = "sent", !.quantity = q, !.status = s].pc = "sent"
    BY <2>2, <2>3 DEF Forms, FormStates
  <2> QED
    BY <1>1, <2>1, <2>4
<1>4. CASE ProductForm(a)
  <2>1. form[a] \in Forms
    BY DEF CatalogTyped
  <2>2. ASSUME NEW q \in {form[a].quantity, MaxStock}, NEW b \in BOOLEAN, NEW t \in BOOLEAN,
               to(a, [form[a] EXCEPT !.pc = "sent", !.quantity = q, !.brand = b, !.fits = t])
        PROVE  Moved
    <3>1. q \in Int
      BY <2>1, CatalogAssumption DEF Forms
    <3>2. /\ [form[a] EXCEPT !.pc = "sent", !.quantity = q, !.brand = b, !.fits = t] \in Forms
          /\ [form[a] EXCEPT !.pc = "sent", !.quantity = q, !.brand = b, !.fits = t].pc = "sent"
      BY <2>1, <3>1 DEF Forms, FormStates
    <3> QED
      BY <1>1, <2>2, <3>2
  <2>3. ASSUME NEW s \in {"PUBLISHED", "DRAFT"}, NEW q \in 0 .. MaxStock, NEW b \in BOOLEAN,
               to(a, [form[a] EXCEPT !.pc = "sent", !.quantity = q, !.status = s, !.brand = b, !.fits = TRUE, !.seen = 0])
        PROVE  Moved
    <3>1. q \in Int /\ s \in Statuses /\ 0 \in Int
      BY DEF Statuses
    <3>2. /\ [form[a] EXCEPT !.pc = "sent", !.quantity = q, !.status = s, !.brand = b, !.fits = TRUE, !.seen = 0] \in Forms
          /\ [form[a] EXCEPT !.pc = "sent", !.quantity = q, !.status = s, !.brand = b, !.fits = TRUE, !.seen = 0].pc = "sent"
      BY <2>1, <3>1 DEF Forms, FormStates
    <3> QED
      BY <1>1, <2>3, <3>2
  <2> QED
    BY <1>4, <2>2, <2>3 DEF ProductForm
<1>5. ASSUME NEW pc \in {"open", "sent", "found", "archive", "delete"}, close(a) \/ step(a, pc) \/ refusal(a)
      PROVE  Moved
  BY <1>5, Answered DEF FormStates
<1>6. CASE confirmDelete(a) \/ leave(a)
  BY <1>5, <1>6 DEF confirmDelete, leave
<1>7. CASE findByIdAdmin(a) \/ countOrderItems(a)
  BY <1>5, <1>7 DEF findByIdAdmin, countOrderItems
<1>8. CASE countProducts(a)
  <2>1. step(a, "counted") \/ refusal(a)
    BY <1>8 DEF countProducts
  <2>2. form[a] \in Forms /\ "counted" \in FormStates
    BY DEF CatalogTyped, FormStates
  <2>3. [form[a] EXCEPT !.pc = "counted"].kind = form[a].kind
    BY <2>2 DEF Forms
  <2>4. CASE step(a, "counted")
    BY <1>8, <2>2, <2>3, <2>4, FormTyped, FormsMove DEF step
  <2> QED
    BY <1>5, <2>1, <2>4
<1> QED
  BY <1>2, <1>3, <1>4, <1>6, <1>7, <1>8 DEF Looks

-----------------------------------------------------------------------------
(* The catalog: its references and its stock.                              *)

\* A brand whose products were counted has none, unless one was saved since.
CountStands ==
    \A a \in Admin : form[a].kind = "brand" /\ form[a].pc = "counted" /\ Exists("product") /\ product.brand => brandRaced

CatalogInv == ReferencesHold /\ CountStands /\ StockMatchesShelf

LEMMA LooksKept ==
    ASSUME CatalogTyped, CatalogInv, NEW a \in Admin, Looks(a)
    PROVE  CatalogInv'
<1>1. UNCHANGED <<row, product, ordered, shelf, overwrote, wanted, brandRaced>>
  BY LooksLeaveRows
<1>2. ReferencesHold' /\ StockMatchesShelf'
  BY <1>1 DEF CatalogInv, ReferencesHold, StockMatchesShelf, Exists
<1>3. ASSUME NEW b \in Admin, form'[b].kind = "brand", form'[b].pc = "counted", Exists("product"), product.brand
      PROVE  brandRaced
  <2>1. CASE b = a
    <3>1. countProducts(a) /\ form[a].kind = "brand"
      BY <1>3, <2>1, LooksTyped
    <3>2. refusal(a) => form'[a].pc = "closed"
      BY <3>1, FormTyped, NoFormTyped DEF refusal, close
    <3>3. productsOf("brand")
      BY <1>3 DEF productsOf
    <3>4. refusal(a)
      BY <3>1, <3>3 DEF countProducts
    <3> QED
      BY <1>3, <2>1, <3>2, <3>4
  <2>2. CASE b # a
    BY <1>3, <2>2, LooksTyped DEF CatalogInv, CountStands
  <2> QED
    BY <2>1, <2>2
<1> QED
  BY <1>1, <1>2, <1>3 DEF CatalogInv, CountStands, Exists

\* A save that goes through: what it writes, and what it is remembered by.
LEMMA Written ==
    ASSUME CatalogTyped, NEW a \in Admin, writes(a)
    PROVE  /\ product' \in Products /\ shelf' \in Int
           /\ product'.quantity = form[a].quantity
           /\ wanted' = product'.brand
           /\ product'.brand => (form[a].brand /\ form[a].kind # "quick") \/ (product.brand /\ form[a].kind # "create")
           /\ product'.fits => (form[a].fits /\ form[a].kind # "quick") \/ (product.fits /\ form[a].kind = "quick")
           /\ form[a].kind = "create" => shelf' = form[a].quantity
           /\ form[a].kind # "create" /\ ~overwrote' =>
                ~overwrote /\ product.quantity = form[a].seen /\ shelf' = shelf + form[a].quantity - form[a].seen
           /\ brandRaced => brandRaced'
           /\ \A b \in Admin : form[b].kind = "brand" /\ form[b].pc = "counted" => brandRaced'
<1>1. form[a] \in Forms /\ product \in Products /\ shelf \in Int
  BY DEF CatalogTyped
<1>2. /\ form[a].quantity \in Int /\ form[a].seen \in Int /\ form[a].status \in Statuses
      /\ form[a].brand \in BOOLEAN /\ form[a].fits \in BOOLEAN
  BY <1>1 DEF Forms
<1>3. /\ product.status \in Statuses /\ product.brand \in BOOLEAN /\ product.fits \in BOOLEAN
  BY <1>1 DEF Products
<1>4. product' = [status |-> IF form[a].kind = "edit" THEN product.status ELSE form[a].status,
                  brand |-> IF form[a].kind = "quick" THEN product.brand ELSE form[a].brand \/ (form[a].kind = "edit" /\ product.brand),
                  fits |-> IF form[a].kind = "quick" THEN product.fits ELSE form[a].fits,
                  quantity |-> form[a].quantity]
  BY DEF writes, quantityWritten
<1>5. /\ product' \in Products /\ product'.quantity = form[a].quantity
      /\ product'.brand => (form[a].brand /\ form[a].kind # "quick") \/ (product.brand /\ form[a].kind # "create")
      /\ product'.fits => (form[a].fits /\ form[a].kind # "quick") \/ (product.fits /\ form[a].kind = "quick")
  BY <1>2, <1>3, <1>4 DEF Products
<1>6. shelf' = IF form[a].kind = "create" THEN form[a].quantity ELSE shelf + form[a].quantity - form[a].seen
  BY DEF writes
<1>7. shelf' \in Int
  BY <1>1, <1>2, <1>6
<1>8. /\ form[a].kind # "create" /\ ~overwrote' => ~overwrote /\ product.quantity = form[a].seen
      /\ brandRaced => brandRaced'
      /\ \A b \in Admin : form[b].kind = "brand" /\ form[b].pc = "counted" => brandRaced'
      /\ wanted' = product'.brand
  BY DEF writes
<1> QED
  BY <1>5, <1>6, <1>7, <1>8

\* What a save refers to exists when it is written.
LEMMA SaveKept ==
    ASSUME CatalogTyped, CatalogInv, NEW a \in Admin, writes(a), refersToRows(a), UNCHANGED ordered,
           \/ form[a].kind = "create" /\ row' = row \cup {"product"}
           \/ form[a].kind \in {"edit", "quick"} /\ Exists("product") /\ row' = row,
           form'[a].pc # "counted", \A b \in Admin \ {a} : form'[b] = form[b]
    PROVE  CatalogInv'
<1>1. /\ \A t : Exists(t) => t \in row'
      /\ "product" \in row'
  BY DEF Exists
<1>2. "category" \in row'
  BY <1>1 DEF refersToRows, CatalogInv, ReferencesHold
<1>3. product'.brand => "brand" \in row'
  BY <1>1, Written DEF refersToRows, CatalogInv, ReferencesHold
<1>4. product'.fits => "truck" \in row'
  BY <1>1, Written DEF refersToRows, CatalogInv, ReferencesHold
<1>5. wanted' => product'.brand
  BY Written
<1>6. ReferencesHold'
  BY <1>1, <1>2, <1>3, <1>4, <1>5 DEF ReferencesHold, Exists
<1>7. CountStands'
  BY Written DEF CountStands
<1>8. product'.quantity = shelf' \/ overwrote'
  <2>1. CASE form[a].kind = "create"
    BY <2>1, Written
  <2>2. CASE form[a].kind # "create" /\ ~overwrote'
    <3>1. product.quantity = shelf
      BY <2>2, Written DEF CatalogInv, StockMatchesShelf
    <3>2. product.quantity = form[a].seen /\ shelf' = shelf + form[a].quantity - form[a].seen
      BY <2>2, Written
    <3>3. form[a].quantity \in Int /\ shelf \in Int
      BY DEF CatalogTyped, Forms
    <3>4. shelf' = shelf + form[a].quantity - shelf
      BY <3>1, <3>2
    <3>5. shelf' = form[a].quantity
      BY <3>3, <3>4
    <3> QED
      BY <3>5, Written
  <2> QED
    BY <2>1, <2>2
<1>9. StockMatchesShelf'
  BY <1>8 DEF StockMatchesShelf
<1> QED
  BY <1>6, <1>7, <1>9 DEF CatalogInv

LEMMA SavesKept ==
    ASSUME CatalogTyped, CatalogInv, NEW a \in Admin, create(a) \/ update(a)
    PROVE  CatalogTyped' /\ CatalogInv'
<1> DEFINE written == writes(a) /\ refersToRows(a)
<1>1. ASSUME NEW f \in Forms, to(a, f), f.pc # "counted"
      PROVE  form' \in [Admin -> Forms] /\ form'[a].pc # "counted" /\ \A b \in Admin \ {a} : form'[b] = form[b]
  BY <1>1, FormTyped
<1>2. close(a) \/ refusal(a) =>
        form' \in [Admin -> Forms] /\ form'[a].pc # "counted" /\ \A b \in Admin \ {a} : form'[b] = form[b]
  BY Answered DEF FormStates
<1>3. CASE ~written
  <2>1. refusal(a) /\ UNCHANGED <<row, product, ordered, shelf, overwrote, wanted, brandRaced>>
    BY <1>3 DEF create, update, ghosts
  <2> QED
    BY <1>2, <2>1 DEF CatalogTyped, CatalogInv, ReferencesHold, CountStands, StockMatchesShelf, Exists
<1>4. CASE written /\ create(a)
  <2>1. CASE ~Exists("product")
    <3>1. form[a].kind = "create" /\ row' = row \cup {"product"} /\ close(a) /\ UNCHANGED ordered
      BY <1>4, <2>1 DEF create
    <3> QED
      BY <1>2, <1>4, <3>1, SaveKept, Written DEF CatalogTyped
  <2>2. CASE Exists("product")
    <3>1. refusal(a) /\ UNCHANGED <<row, product, ordered, shelf, overwrote, wanted, brandRaced>>
      BY <1>4, <2>2 DEF create, ghosts
    <3> QED
      BY <1>2, <3>1 DEF CatalogTyped, CatalogInv, ReferencesHold, CountStands, StockMatchesShelf, Exists
  <2> QED
    BY <2>1, <2>2
<1>5. CASE written /\ update(a)
  <2>1. form[a].kind \in {"edit", "quick"} /\ row' = row /\ UNCHANGED ordered
    BY <1>5 DEF update
  <2>2. CASE Exists("product")
    <3> DEFINE f == [form[a] EXCEPT !.pc = "open", !.seen = form[a].quantity, !.sold = FALSE]
    <3>1. close(a) \/ to(a, f)
      BY <1>5, <2>2 DEF update
    <3>2. f \in Forms /\ f.pc = "open"
      <4>1. form[a] \in Forms /\ form[a].quantity \in Int
        BY DEF CatalogTyped, Forms
      <4> QED
        BY <4>1 DEF Forms, FormStates
    <3> HIDE DEF f
    <3>3. form' \in [Admin -> Forms] /\ form'[a].pc # "counted" /\ \A b \in Admin \ {a} : form'[b] = form[b]
      BY <1>1, <1>2, <3>1, <3>2
    <3> QED
      BY <1>5, <2>1, <2>2, <3>3, SaveKept, Written DEF CatalogTyped
  <2>3. CASE ~Exists("product")
    <3>1. refusal(a) /\ UNCHANGED <<row, product, ordered, shelf, overwrote, wanted, brandRaced>>
      BY <1>5, <2>3 DEF update, ghosts
    <3> QED
      BY <1>2, <3>1 DEF CatalogTyped, CatalogInv, ReferencesHold, CountStands, StockMatchesShelf, Exists
  <2> QED
    BY <2>2, <2>3
<1> QED
  BY <1>3, <1>4, <1>5

\* Deletes: of the product, unless an order refers to it; of the row of a
\* category, brand or truck, which the foreign keys restrict, empty or cascade.
LEMMA DeletesKept ==
    ASSUME CatalogTyped, CatalogInv, NEW a \in Admin, remove(a) \/ removeRow(a)
    PROVE  CatalogTyped' /\ CatalogInv'
<1>1. UNCHANGED <<ordered, shelf, overwrote, wanted, brandRaced>>
  BY DEF remove, removeRow, ghosts
<1>2. close(a) \/ refusal(a)
  BY DEF remove, removeRow
<1>3. form' \in [Admin -> Forms] /\ form'[a].pc # "counted" /\ \A b \in Admin \ {a} : form'[b] = form[b]
  BY <1>2, Answered DEF FormStates
<1>4. product \in Products
  BY DEF CatalogTyped
<1>5. ASSUME product' \in Products, product'.quantity = product.quantity,
             Exists("product")' => Exists("product"), product'.brand => product.brand
      PROVE  CatalogTyped' /\ CountStands' /\ StockMatchesShelf'
  BY <1>1, <1>3, <1>5 DEF CatalogTyped, CatalogInv, CountStands, StockMatchesShelf
<1>6. CASE UNCHANGED <<row, product>>
  BY <1>1, <1>4, <1>5, <1>6 DEF CatalogInv, ReferencesHold, Exists
<1>7. CASE row' = row /\ product' = [product EXCEPT !.status = "ARCHIVED"]
  <2>1. /\ product' \in Products /\ product'.quantity = product.quantity
        /\ product'.brand = product.brand /\ product'.fits = product.fits
    BY <1>4, <1>7 DEF Products, Statuses
  <2>2. ReferencesHold'
    BY <1>1, <1>7, <2>1 DEF CatalogInv, ReferencesHold, Exists
  <2> QED
    BY <1>5, <1>7, <2>1, <2>2 DEF CatalogInv, Exists
<1>8. CASE ~ordered /\ row' = row \ {"product"} /\ product' = product
  <2>1. ~Exists("product")'
    BY <1>8 DEF Exists
  <2>2. ReferencesHold'
    BY <1>1, <1>8, <2>1 DEF ReferencesHold
  <2> QED
    BY <1>4, <1>5, <1>8, <2>1, <2>2 DEF CatalogInv
<1>9. ASSUME NEW t \in Table, t = form[a].kind, form[a].pc = "counted", row' = row \ {t},
             t = "category" => ~Exists("product"),
             product' = [product EXCEPT !.brand = @ /\ t # "brand", !.fits = @ /\ t # "truck"]
      PROVE  CatalogTyped' /\ CatalogInv'
  <2>1. product.brand \in BOOLEAN /\ product.fits \in BOOLEAN
    BY <1>4 DEF Products
  <2>2. /\ product' \in Products /\ product'.quantity = product.quantity
        /\ product'.brand <=> product.brand /\ t # "brand"
        /\ product'.fits <=> product.fits /\ t # "truck"
    BY <1>4, <1>9, <2>1 DEF Products
  <2>3. t # "product" /\ \A u : Exists(u)' <=> Exists(u) /\ u # t
    BY <1>9 DEF Exists, Table
  <2>4. Exists("product") /\ wanted => product'.brand \/ brandRaced
    <3>1. CASE t = "brand"
      BY <1>9, <3>1 DEF CatalogInv, CountStands, ReferencesHold
    <3>2. CASE t # "brand"
      BY <2>2, <3>2 DEF CatalogInv, ReferencesHold
    <3> QED
      BY <3>1, <3>2
  <2>5. ReferencesHold'
    BY <1>1, <1>9, <2>2, <2>3, <2>4 DEF CatalogInv, ReferencesHold
  <2> QED
    BY <1>5, <2>2, <2>3, <2>5 DEF CatalogInv
<1>10. CASE remove(a)
  BY <1>6, <1>7, <1>8, <1>10 DEF remove, onDeleteRestrict
<1>11. CASE removeRow(a)
  BY <1>6, <1>9, <1>11 DEF removeRow
<1> QED
  BY <1>10, <1>11

LEMMA SellKept ==
    ASSUME CatalogTyped, CatalogInv, sell
    PROVE  CatalogTyped' /\ CatalogInv'
<1>1. /\ Exists("product") /\ product' = [product EXCEPT !.quantity = @ - 1] /\ shelf' = shelf - 1
      /\ form' = [a \in Admin |-> [form[a] EXCEPT !.sold = @ \/ form[a].pc # "closed"]]
      /\ UNCHANGED <<row, overwrote, wanted, brandRaced>>
  BY DEF sell
<1>2. product \in Products /\ shelf \in Int /\ form \in [Admin -> Forms]
  BY DEF CatalogTyped
<1>3. product' \in Products /\ product'.quantity = product.quantity - 1 /\ product'.brand = product.brand /\ product'.fits = product.fits
  BY <1>1, <1>2 DEF Products
<1>4. ASSUME NEW a \in Admin
      PROVE  form'[a] \in Forms /\ form'[a].kind = form[a].kind /\ form'[a].pc = form[a].pc
  <2>1. form[a] \in Forms
    BY <1>2
  <2>2. form'[a] = [form[a] EXCEPT !.sold = @ \/ form[a].pc # "closed"]
    BY <1>1
  <2> QED
    BY <2>1, <2>2 DEF Forms
<1>5. form' \in [Admin -> Forms]
  BY <1>1, <1>4
<1>6. CatalogTyped'
  BY <1>1, <1>2, <1>3, <1>5 DEF CatalogTyped
<1>7. CountStands'
  BY <1>1, <1>3, <1>4 DEF CatalogInv, CountStands, Exists
<1>8. ReferencesHold'
  BY <1>1, <1>3 DEF CatalogInv, ReferencesHold, Exists
<1>9. StockMatchesShelf'
  BY <1>1, <1>2, <1>3 DEF CatalogInv, StockMatchesShelf, Exists
<1> QED
  BY <1>6, <1>7, <1>8, <1>9 DEF CatalogInv

LEMMA CatalogKept ==
    ASSUME CatalogTyped, CatalogInv, [CatalogNext]_catalogVars
    PROVE  CatalogTyped' /\ CatalogInv'
<1>1. CASE UNCHANGED catalogVars
  BY <1>1 DEF catalogVars, CatalogTyped, CatalogInv, ReferencesHold, CountStands, StockMatchesShelf, Exists
<1>2. ASSUME NEW a \in Admin, createRow(a)
      PROVE  CatalogTyped' /\ CatalogInv'
  <2>1. UNCHANGED <<product, ordered, form, shelf, overwrote, wanted, brandRaced>> /\ row \subseteq row'
        /\ ("product" \in row' => "product" \in row)
    BY <1>2 DEF createRow, ghosts, Table
  <2> QED
    BY <2>1 DEF CatalogTyped, CatalogInv, ReferencesHold, CountStands, StockMatchesShelf, Exists
<1>3. ASSUME NEW a \in Admin, Looks(a)
      PROVE  CatalogTyped' /\ CatalogInv'
  BY <1>3, LooksTyped, LooksKept
<1> QED
  BY <1>1, <1>2, <1>3, SavesKept, DeletesKept, SellKept DEF CatalogNext, Looks

LEMMA CatalogInvHolds == OfficeSpec => [](CatalogTyped /\ CatalogInv)
<1>1. CatalogInit => CatalogTyped /\ CatalogInv
  <2> SUFFICES ASSUME CatalogInit PROVE CatalogTyped /\ CatalogInv
    OBVIOUS
  <2>1. PICK b \in BOOLEAN, n \in 0 .. MaxStock :
          product = [status |-> "PUBLISHED", brand |-> Exists("product") /\ b, fits |-> Exists("product"),
                     quantity |-> IF Exists("product") THEN n ELSE 0]
    BY DEF CatalogInit
  <2>2. product \in Products /\ (product.brand => Exists("product")) /\ product.quantity \in Int
    <3>1. (IF Exists("product") THEN n ELSE 0) \in Int /\ (Exists("product") /\ b) \in BOOLEAN /\ Exists("product") \in BOOLEAN
      BY DEF Exists
    <3> QED
      BY <2>1, <3>1 DEF Products, Statuses
  <2>3. form \in [Admin -> Forms] /\ shelf = product.quantity /\ wanted = product.brand /\ ordered = FALSE
        /\ \A a \in Admin : form[a].pc = "closed"
    BY NoFormTyped DEF CatalogInit
  <2>4. Exists("category") /\ Exists("brand") /\ Exists("truck")
    BY DEF CatalogInit, Exists, Table
  <2> QED
    <3>1. CatalogTyped /\ CountStands /\ StockMatchesShelf
      BY <2>2, <2>3 DEF CatalogTyped, CountStands, StockMatchesShelf
    <3>2. ReferencesHold
      BY <2>2, <2>3, <2>4 DEF ReferencesHold
    <3> QED
      BY <3>1, <3>2 DEF CatalogInv
<1>2. OfficeInit => CatalogTyped /\ CatalogInv
  BY <1>1 DEF OfficeInit
<1>3. CatalogTyped /\ CatalogInv /\ [OfficeNext]_officeVars => CatalogTyped' /\ CatalogInv'
  BY CatalogKept, DesksApart
<1> QED
  BY <1>2, <1>3, PTL DEF OfficeSpec

\* No order of saves and deletes leaves a product without its category, or
\* referring to a brand or truck that is gone; an ordered product stays; and a
\* brand is lost only to a delete whose count was overtaken by the save.
THEOREM ReferencesStand == OfficeSpec => []ReferencesHold
<1>1. CatalogInv => ReferencesHold
  BY DEF CatalogInv
<1> QED
  BY <1>1, CatalogInvHolds, PTL

\* The quantity stays what is on the shelf, unless a form loaded before a sale
\* or another save was saved after it.
THEOREM ShelfIsMatched == OfficeSpec => []StockMatchesShelf
<1>1. CatalogInv => StockMatchesShelf
  BY DEF CatalogInv
<1> QED
  BY <1>1, CatalogInvHolds, PTL

-----------------------------------------------------------------------------
(* The import page: what the admin confirms is what is sent.               *)

\* The shape of a page, whatever its file and its plan are.
Shaped(g) == DOMAIN g = {"file", "plan", "busy", "asked", "tx"} /\ DOMAIN g.tx = {"pc", "file", "actions", "slugs"}

\* All that a page has under way is about the file it holds, and it waits for
\* one thing at a time.
Own(g) ==
    /\ g.plan = NoPlan \/ g.plan.of = g.file
    /\ \A f \in g.asked : f = g.file
    /\ g.tx = NoTx \/ g.tx.file = g.file
    /\ g.asked = {} \/ (g.busy /\ g.tx = NoTx)

ImportInv ==
    /\ DOMAIN page = Importer
    /\ \A a \in Importer : Shaped(page[a]) /\ (a \notin crossed => Own(page[a]))

\* Only the page of a moves.
Moves(a) == DOMAIN page' = Importer /\ \A b \in Importer \ {a} : page'[b] = page[b]

LEMMA PageMoves ==
    ASSUME ImportInv, NEW a \in Importer, Moves(a), Shaped(page'[a]),
           \/ crossed' = crossed /\ (Own(page[a]) => Own(page'[a]))
           \/ crossed' = crossed \cup {a}
           \/ crossed' = crossed \ {a} /\ Own(page'[a])
    PROVE  ImportInv'
BY DEF ImportInv, Moves

LEMMA NoTxShaped == DOMAIN NoTx = {"pc", "file", "actions", "slugs"} /\ NoTx.pc = "idle"
BY DEF NoTx

LEMMA ImportKept ==
    ASSUME ImportInv, [ImportNext]_importVars
    PROVE  ImportInv'
<1>1. CASE UNCHANGED <<page, crossed>>
  BY <1>1 DEF ImportInv
<1>2. ASSUME NEW a \in Importer
      PROVE  /\ DOMAIN page = Importer /\ Shaped(page[a])
             /\ page[a].tx.pc # "idle" => page[a].tx # NoTx
  BY NoTxShaped DEF ImportInv
<1>3. ASSUME NEW a \in Importer, NEW file \in File, preview(a, file)
      PROVE  ImportInv'
  <2>1. page' = [page EXCEPT ![a].file = file, ![a].plan = NoPlan, ![a].busy = TRUE, ![a].asked = @ \cup {file}]
    BY <1>3 DEF preview, cleared
  <2>2. /\ Moves(a) /\ DOMAIN page'[a] = DOMAIN page[a]
        /\ page'[a].file = file /\ page'[a].plan = NoPlan /\ page'[a].busy = TRUE
        /\ page'[a].asked = page[a].asked \cup {file} /\ page'[a].tx = page[a].tx
    BY <1>2, <2>1 DEF Moves, Shaped
  <2>3. Shaped(page'[a])
    BY <1>2, <2>2 DEF Shaped
  <2>4. CASE page[a].asked = {} /\ page[a].tx = NoTx
    <3>1. crossed' = crossed \ {a}
      BY <1>3, <2>4 DEF preview
    <3>2. Own(page'[a])
      BY <2>2, <2>4 DEF Own
    <3> QED
      BY <2>2, <2>3, <3>1, <3>2, PageMoves
  <2>5. CASE ~(page[a].asked = {} /\ page[a].tx = NoTx)
    BY <1>3, <2>2, <2>3, <2>5, PageMoves DEF preview
  <2> QED
    BY <2>4, <2>5
<1>4. ASSUME NEW a \in Importer, previewAnswered(a)
      PROVE  ImportInv'
  <2>1. PICK file \in page[a].asked : \E shown \in {plan(file), page[a].plan} :
          page' = [page EXCEPT ![a].asked = @ \ {file}, ![a].busy = FALSE, ![a].plan = shown]
    BY <1>4 DEF previewAnswered
  <2>2. PICK shown \in {plan(file), page[a].plan} :
          page' = [page EXCEPT ![a].asked = @ \ {file}, ![a].busy = FALSE, ![a].plan = shown]
    BY <2>1
  <2>3. /\ Moves(a) /\ DOMAIN page'[a] = DOMAIN page[a]
        /\ page'[a].file = page[a].file /\ page'[a].plan = shown
        /\ page'[a].asked = page[a].asked \ {file} /\ page'[a].tx = page[a].tx
    BY <1>2, <2>2 DEF Moves, Shaped
  <2>4. plan(file).of = file
    BY DEF plan
  <2>5. Own(page[a]) => Own(page'[a])
    BY <2>3, <2>4 DEF Own
  <2>6. Shaped(page'[a]) /\ crossed' = crossed
    BY <1>2, <1>4, <2>3 DEF Shaped, previewAnswered
  <2> QED
    BY <2>3, <2>5, <2>6, PageMoves
<1>5. ASSUME NEW a \in Importer, commit(a)
      PROVE  ImportInv'
  <2> DEFINE t == [NoTx EXCEPT !.pc = "sent", !.file = page[a].file]
  <2>1. page' = [page EXCEPT ![a].busy = TRUE, ![a].tx = t] /\ crossed' = crossed /\ ~page[a].busy
    BY <1>5 DEF commit, canImport
  <2>2. DOMAIN t = DOMAIN NoTx /\ t.file = page[a].file
    BY NoTxShaped
  <2> HIDE DEF t
  <2>3. /\ Moves(a) /\ DOMAIN page'[a] = DOMAIN page[a]
        /\ page'[a].file = page[a].file /\ page'[a].plan = page[a].plan
        /\ page'[a].asked = page[a].asked /\ page'[a].tx = t
    BY <1>2, <2>1 DEF Moves, Shaped
  <2>4. Shaped(page'[a])
    BY <1>2, <2>2, <2>3, NoTxShaped DEF Shaped
  <2>5. Own(page[a]) => Own(page'[a])
    BY <2>1, <2>2, <2>3 DEF Own
  <2> QED
    BY <2>1, <2>3, <2>4, <2>5, PageMoves
\* The transaction goes on, with the file it was sent.
<1>6. ASSUME NEW a \in Importer, NEW t, tx(a, t), DOMAIN t = {"pc", "file", "actions", "slugs"}, t.file = page[a].tx.file,
             page[a].tx.pc # "idle", crossed' = crossed
      PROVE  ImportInv'
  <2>1. /\ Moves(a) /\ DOMAIN page'[a] = DOMAIN page[a]
        /\ page'[a].file = page[a].file /\ page'[a].plan = page[a].plan
        /\ page'[a].asked = page[a].asked /\ page'[a].tx = t
    BY <1>2, <1>6 DEF Moves, Shaped, tx
  <2>2. Shaped(page'[a])
    BY <1>2, <1>6, <2>1 DEF Shaped
  <2>3. Own(page[a]) => Own(page'[a])
    BY <1>2, <1>6, <2>1 DEF Own
  <2> QED
    BY <1>6, <2>1, <2>2, <2>3, PageMoves
\* It ends without a change: the page shows a plan of its file again.
<1>7. ASSUME NEW a \in Importer, NEW shown, refused(a, shown), page[a].tx.pc # "idle", crossed' = crossed,
             shown = page[a].plan \/ shown.of = page[a].tx.file
      PROVE  ImportInv'
  <2>1. /\ Moves(a) /\ DOMAIN page'[a] = DOMAIN page[a]
        /\ page'[a].file = page[a].file /\ page'[a].plan = shown
        /\ page'[a].asked = page[a].asked /\ page'[a].tx = NoTx
    BY <1>2, <1>7 DEF Moves, Shaped, refused
  <2>2. Shaped(page'[a])
    BY <1>2, <2>1, NoTxShaped DEF Shaped
  <2>3. Own(page[a]) => Own(page'[a])
    BY <1>2, <1>7, <2>1 DEF Own
  <2> QED
    BY <1>7, <2>1, <2>2, <2>3, PageMoves
<1>8. ASSUME NEW a \in Importer, planTx(a)
      PROVE  ImportInv'
  <2> DEFINE t == page[a].tx
             p == plan(t.file)
             next == [t EXCEPT !.pc = "planned", !.actions = p.actions]
  <2>1. t.pc = "sent" /\ crossed' = crossed /\ (refused(a, p) \/ tx(a, next))
    BY <1>8 DEF planTx
  <2>2. p.of = t.file
    BY DEF plan
  <2>3. DOMAIN next = DOMAIN t /\ next.file = t.file
    BY <1>2 DEF Shaped
  <2>4. DOMAIN t = {"pc", "file", "actions", "slugs"}
    BY <1>2 DEF Shaped
  <2> HIDE DEF next, p
  <2> QED
    BY <1>6, <1>7, <2>1, <2>2, <2>3, <2>4
<1>9. ASSUME NEW a \in Importer, uniqueSlug(a)
      PROVE  ImportInv'
  <2> DEFINE t == page[a].tx
  <2>1. PICK s : tx(a, [t EXCEPT !.pc = "slugged", !.slugs = s])
    BY <1>9 DEF uniqueSlug
  <2> DEFINE next == [t EXCEPT !.pc = "slugged", !.slugs = s]
  <2>2. DOMAIN t = {"pc", "file", "actions", "slugs"}
    BY <1>2 DEF Shaped
  <2>3. tx(a, next) /\ DOMAIN next = DOMAIN t /\ next.file = t.file
    BY <2>1, <2>2
  <2>4. t.pc = "planned" /\ crossed' = crossed
    BY <1>9 DEF uniqueSlug
  <2> HIDE DEF next
  <2> QED
    BY <1>6, <2>2, <2>3, <2>4
<1>10. ASSUME NEW a \in Importer, apply(a)
       PROVE  ImportInv'
  <2>1. page[a].tx.pc = "slugged" /\ crossed' = crossed
    BY <1>10 DEF apply
  <2>2. CASE refused(a, page[a].plan)
    BY <1>7, <2>1, <2>2
  <2>3. CASE page' = [page EXCEPT ![a] = [NoPage EXCEPT !.asked = page[a].asked]]
    <3> DEFINE g == [NoPage EXCEPT !.asked = page[a].asked]
    <3>1. DOMAIN g = {"file", "plan", "busy", "asked", "tx"} /\ g.plan = NoPlan /\ g.tx = NoTx /\ g.asked = page[a].asked
      BY DEF NoPage
    <3> HIDE DEF g
    <3>2. page'[a] = g /\ Moves(a)
      BY <1>2, <2>3 DEF Moves, g
    <3>3. Shaped(g)
      BY <3>1, NoTxShaped DEF Shaped
    <3>4. Own(page[a]) => Own(g)
      BY <1>2, <2>1, <3>1 DEF Own
    <3> QED
      BY <2>1, <3>2, <3>3, <3>4, PageMoves
  <2> QED
    BY <1>10, <2>2, <2>3 DEF apply
<1>11. ASSUME NEW a \in Importer, abort(a)
       PROVE  ImportInv'
  <2>1. page[a].tx.pc \in {"planned", "slugged"} /\ refused(a, page[a].plan) /\ crossed' = crossed
    BY <1>11 DEF abort, running
  <2> QED
    BY <1>7, <2>1
<1>12. CASE archive
  BY <1>1, <1>12 DEF archive
<1> QED
  BY <1>1, <1>3, <1>4, <1>5, <1>8, <1>9, <1>10, <1>11, <1>12 DEF ImportNext, importVars

\* The plan the admin confirms is the plan of the file that will be sent, unless
\* the file was chosen while an answer about another was still due.
THEOREM ConfirmedPlanIsOfTheFile == OfficeSpec => []PlanIsOfTheFile
<1>1. OfficeInit => ImportInv
  <2>1. DOMAIN NoPage = {"file", "plan", "busy", "asked", "tx"} /\ NoPage.tx = NoTx /\ NoPage.plan = NoPlan /\ NoPage.asked = {}
    BY DEF NoPage
  <2> QED
    BY <2>1, NoTxShaped DEF OfficeInit, ImportInit, ImportInv, Shaped, Own
<1>2. ImportInv /\ [OfficeNext]_officeVars => ImportInv'
  BY ImportKept, DesksApart
<1>3. ImportInv => PlanIsOfTheFile
  BY DEF ImportInv, Own, PlanIsOfTheFile
<1> QED
  BY <1>1, <1>2, <1>3, PTL DEF OfficeSpec

-----------------------------------------------------------------------------
(* The import: no twins.                                                   *)

ImportFile(f) == f = <<>> \/ f \in File

\* A transaction past its plan has a file without twins, and slugs that differ.
Planned(t) ==
    /\ ~parseProductCsv(t.file).errors
    /\ t.pc = "slugged" =>
         /\ DOMAIN t.slugs = DOMAIN t.file
         /\ \A i, j \in created(t) : i < j => t.slugs[i] # t.slugs[j]

\* The catalog has no product yet of the rows it will create.
Unmet(products, t) ==
    \A i \in created(t) : t.file[i].part # None =>
        \A k \in DOMAIN products : products[k].part = t.file[i].part => products[k].brand # t.file[i].brand

ProductRow(p) == p = [slug |-> p.slug, part |-> p.part, brand |-> p.brand, archived |-> p.archived]
ProductRows(products) == (\E S : products \in Seq(S)) /\ \A k \in DOMAIN products : ProductRow(products[k])

NoTwins(products, excused) ==
    \A i, j \in DOMAIN products : i < j =>
        /\ products[i].slug # products[j].slug
        /\ products[i].part # None /\ products[i].part = products[j].part => products[i].brand # products[j].brand \/ excused

TwinsInv ==
    /\ ProductRows(stock) /\ NoTwinParts
    /\ \A a \in Importer : ImportFile(page[a].file) /\ ImportFile(page[a].tx.file)
    /\ \A a \in running : Planned(page[a].tx)
    /\ ~overlapped => \A a \in running : Unmet(stock, page[a].tx) /\ \A b \in running : a = b

LEMMA FilesAreSequences == \A f : ImportFile(f) => DOMAIN f = 1 .. Len(f) /\ Len(f) \in Nat
<1>1. ASSUME NEW f \in File PROVE DOMAIN f = 1 .. Len(f) /\ Len(f) \in Nat
  <2>1. f \in Seq({f[i] : i \in DOMAIN f})
    BY ImportAssumption
  <2>2. PICK S : f \in Seq(S)
    BY <2>1
  <2> QED
    BY <2>2
<1>2. DOMAIN <<>> = 1 .. Len(<<>>) /\ Len(<<>>) \in Nat
  OBVIOUS
<1> QED
  BY <1>1, <1>2 DEF ImportFile

\* Transactions end, and nothing is added to the catalog.
LEMMA NothingAdded ==
    ASSUME TwinsInv, running' \subseteq running, \A a \in running' : page'[a].tx = page[a].tx,
           \A a \in Importer : ImportFile(page'[a].file) /\ ImportFile(page'[a].tx.file),
           overlapped' <=> overlapped, stock' = stock
    PROVE  TwinsInv'
<1>1. NoTwinParts'
  BY DEF TwinsInv, NoTwinParts
<1>2. \A a \in running' : Planned(page'[a].tx)
  BY DEF TwinsInv
<1>3. ~overlapped' => \A a \in running' : Unmet(stock', page'[a].tx) /\ \A b \in running' : a = b
  BY DEF TwinsInv
<1>4. ProductRows(stock')
  BY DEF TwinsInv
<1> QED
  BY <1>1, <1>2, <1>3, <1>4 DEF TwinsInv

\* A transaction of a starts.
LEMMA PlanKeepsTwins ==
    ASSUME ImportInv, TwinsInv, NEW a \in Importer, planTx(a)
    PROVE  TwinsInv'
<1> DEFINE t == page[a].tx
           p == plan(t.file)
           next == [t EXCEPT !.pc = "planned", !.actions = p.actions]
<1>1. /\ t.pc = "sent" /\ UNCHANGED stock
      /\ IF p.errors THEN refused(a, p) ELSE tx(a, next)
      /\ overlapped' = (overlapped \/ (~p.errors /\ running \ {a} # {}))
  BY DEF planTx
<1>2. DOMAIN page = Importer /\ Shaped(page[a]) /\ ImportFile(t.file)
  BY DEF ImportInv, TwinsInv
<1>3. CASE p.errors
  <2>1. /\ \A b \in Importer \ {a} : page'[b] = page[b]
        /\ page'[a].file = page[a].file /\ page'[a].tx = NoTx
    BY <1>1, <1>2, <1>3 DEF refused, Shaped
  <2>2. NoTx.pc = "idle" /\ NoTx.file = <<>>
    BY DEF NoTx
  <2>3. overlapped' <=> overlapped
    BY <1>1, <1>3, Zenon
  <2>4. running' \subseteq running /\ \A b \in running' : page'[b].tx = page[b].tx
    BY <2>1, <2>2 DEF running
  <2>5. \A b \in Importer : ImportFile(page'[b].file) /\ ImportFile(page'[b].tx.file)
    BY <2>1, <2>2 DEF TwinsInv, ImportFile
  <2> QED
    BY <1>1, <2>3, <2>4, <2>5, NothingAdded
<1>4. CASE ~p.errors
  <2>1. /\ next.pc = "planned" /\ next.file = t.file /\ next.actions = p.actions
    BY <1>2 DEF Shaped
  <2>2. /\ \A b \in Importer \ {a} : page'[b] = page[b]
        /\ page'[a].file = page[a].file /\ page'[a].tx = next
    BY <1>1, <1>2, <1>4 DEF tx, Shaped
  <2>3. p.actions = [i \in DOMAIN t.file |-> action(t.file[i])] /\ ~parseProductCsv(t.file).errors
    BY <1>4 DEF plan
  <2> HIDE DEF next, p
  <2>4. running' = running \cup {a} /\ a \notin running
    BY <1>1, <2>1, <2>2 DEF running
  <2>5. Planned(next)
    BY <2>1, <2>3 DEF Planned
  <2>6. Unmet(stock, next)
    <3>1. ASSUME NEW i \in created(next), next.file[i].part # None, NEW k \in DOMAIN stock, stock[k].part = next.file[i].part,
                 stock[k].brand = next.file[i].brand
          PROVE  FALSE
      <4>1. i \in DOMAIN t.file /\ action(t.file[i]) = "create" /\ next.file[i] = t.file[i]
        BY <2>1, <2>3, <3>1 DEF created
      <4>2. k \in matches(t.file[i])
        BY <3>1, <4>1 DEF matches
      <4> QED
        BY <3>1, <4>1, <4>2 DEF action
    <3> QED
      BY <3>1 DEF Unmet
  <2>7. \A b \in running' : Planned(page'[b].tx)
    BY <2>2, <2>4, <2>5 DEF TwinsInv, running
  <2>8. ~overlapped' => \A b \in running' : Unmet(stock', page'[b].tx) /\ \A c \in running' : b = c
    <3>1. ASSUME ~overlapped' PROVE running' = {a}
      <4>1. ~(running \ {a} # {})
        BY <1>1, <1>4, <3>1, Zenon
      <4> QED
        BY <2>4, <4>1
    <3> QED
      BY <1>1, <2>2, <2>6, <3>1
  <2>9. NoTwinParts'
    <3>1. overlapped => overlapped'
      BY <1>1, Zenon
    <3> QED
      BY <1>1, <3>1 DEF TwinsInv, NoTwinParts
  <2>10. \A b \in Importer : ImportFile(page'[b].file) /\ ImportFile(page'[b].tx.file)
    BY <1>2, <2>1, <2>2 DEF TwinsInv
  <2> QED
    BY <1>1, <2>7, <2>8, <2>9, <2>10 DEF TwinsInv
<1> QED
  BY <1>3, <1>4

\* It picks its slugs.
LEMMA SlugsKeepTwins ==
    ASSUME ImportInv, TwinsInv, NEW a \in Importer, uniqueSlug(a)
    PROVE  TwinsInv'
<1> DEFINE t == page[a].tx
<1>1. PICK slugs :
        /\ DOMAIN slugs = DOMAIN t.file
        /\ \A i \in DOMAIN t.file :
              IF t.actions[i] = "update" THEN slugs[i] = <<>>
              ELSE freeSlug(slugs[i], t.file[i].name, Slugs \cup {slugs[j] : j \in 1 .. i - 1})
        /\ tx(a, [t EXCEPT !.pc = "slugged", !.slugs = slugs])
  BY DEF uniqueSlug
<1> DEFINE next == [t EXCEPT !.pc = "slugged", !.slugs = slugs]
<1>2. DOMAIN page = Importer /\ Shaped(page[a]) /\ ImportFile(t.file) /\ t.pc = "planned" /\ UNCHANGED <<stock, overlapped>>
  BY DEF ImportInv, TwinsInv, uniqueSlug
<1>3. /\ next.pc = "slugged" /\ next.file = t.file /\ next.actions = t.actions /\ next.slugs = slugs
  BY <1>2 DEF Shaped
<1>4. /\ \A b \in Importer \ {a} : page'[b] = page[b]
      /\ page'[a].file = page[a].file /\ page'[a].tx = next
  BY <1>1, <1>2 DEF tx, Shaped
<1> HIDE DEF next
<1>5. running' = running /\ a \in running
  BY <1>2, <1>3, <1>4 DEF running
<1>6. created(next) = created(t)
  BY <1>3 DEF created
<1>7. ASSUME NEW i \in created(t), NEW j \in created(t), i < j PROVE slugs[i] # slugs[j]
  <2>1. i \in 1 .. Len(t.file) /\ j \in 1 .. Len(t.file) /\ Len(t.file) \in Nat /\ t.actions[j] = "create"
    BY <1>2, FilesAreSequences DEF created
  <2>2. slugs[j] \notin Slugs \cup {slugs[k] : k \in 1 .. j - 1}
    BY <1>1, <1>7, <2>1 DEF created, freeSlug
  <2>3. i \in 1 .. j - 1
    BY <1>7, <2>1
  <2> QED
    BY <2>2, <2>3
<1>8. Planned(next)
  BY <1>1, <1>3, <1>5, <1>6, <1>7 DEF Planned, TwinsInv
<1>9. ~overlapped => Unmet(stock, next)
  BY <1>3, <1>5, <1>6 DEF Unmet, TwinsInv
<1>10. \A b \in running' : Planned(page'[b].tx)
  BY <1>4, <1>5, <1>8 DEF TwinsInv, running
<1>11. ~overlapped' => \A b \in running' : Unmet(stock', page'[b].tx) /\ \A c \in running' : b = c
  BY <1>2, <1>4, <1>5, <1>9 DEF TwinsInv, running
<1>12. \A b \in Importer : ImportFile(page'[b].file) /\ ImportFile(page'[b].tx.file)
  BY <1>2, <1>3, <1>4 DEF TwinsInv
<1> QED
  BY <1>2, <1>10, <1>11, <1>12 DEF TwinsInv, NoTwinParts

\* What is added to the catalog: one product for each row it will create, in their order.
LEMMA Added ==
    ASSUME TwinsInv, NEW a \in running, page[a].tx.pc = "slugged",
           NEW is \in InOrder(created(page[a].tx)),
           \A i \in DOMAIN page[a].tx.slugs : page[a].tx.slugs[i] \notin Slugs,
           NEW products, products = stock \o inserted(page[a].tx, is)
    PROVE  ProductRows(products) /\ NoTwins(products, overlapped)
<1> DEFINE n == Cardinality(created(page[a].tx))
<1>0. PICK t : t = page[a].tx
  OBVIOUS
<1>1. /\ DOMAIN t.slugs = DOMAIN t.file /\ \A i, j \in created(t) : i < j => t.slugs[i] # t.slugs[j]
      /\ ~parseProductCsv(t.file).errors /\ (~overlapped => Unmet(stock, t))
      /\ DOMAIN t.file = 1 .. Len(t.file) /\ Len(t.file) \in Nat
  <2>1. a \in Importer
    BY DEF running
  <2> QED
    BY <1>0, <2>1, FilesAreSequences DEF TwinsInv, Planned
<1>2. created(t) \subseteq 1 .. Len(t.file) /\ IsFiniteSet(1 .. Len(t.file)) /\ IsFiniteSet(created(t))
  <2>1. created(t) \subseteq 1 .. Len(t.file)
    BY <1>1 DEF created
  <2>2. IsFiniteSet(1 .. Len(t.file))
    <3>1. 1 \in Int /\ Len(t.file) \in Int
      BY <1>1
    <3> QED
      BY <3>1, FS_Interval
  <2> QED
    BY <2>1, <2>2, FS_Subset
<1>3. n \in Nat
  BY <1>0, <1>2, FS_CardinalityType
<1>4. /\ is \in [1 .. n -> created(t)] /\ \A k, m \in 1 .. n : k < m => is[k] < is[m]
  BY <1>0, <1>3 DEF InOrder
<1> HIDE DEF n
<1>5. PICK more : more = inserted(t, is)
  OBVIOUS
<1>6. /\ DOMAIN more = 1 .. n
      /\ \A k \in 1 .. n : more[k].slug = t.slugs[is[k]] /\ more[k].part = t.file[is[k]].part /\ more[k].brand = t.file[is[k]].brand
  BY <1>4, <1>5 DEF inserted
<1>7. PICK S : stock \in Seq(S)
  BY DEF TwinsInv, ProductRows
<1>8. PICK R : more \in [1 .. n -> R]
  <2>1. more = [k \in 1 .. n |-> [slug |-> t.slugs[is[k]], part |-> t.file[is[k]].part, brand |-> t.file[is[k]].brand, archived |-> FALSE]]
    BY <1>4, <1>5 DEF inserted
  <2>2. more \in [1 .. n -> {more[k] : k \in 1 .. n}]
    BY <2>1
  <2> QED
    BY <2>2
<1>9. more \in Seq(S \cup R) /\ stock \in Seq(S \cup R) /\ Len(more) = n
  BY <1>3, <1>7, <1>8
<1>10. /\ products \in Seq(S \cup R) /\ Len(stock) \in Nat /\ DOMAIN products = 1 .. Len(stock) + n
       /\ \A i \in 1 .. Len(stock) : products[i] = stock[i]
       /\ \A i \in 1 .. Len(stock) + n : i > Len(stock) => products[i] = more[i - Len(stock)]
  <2>1. products = stock \o more
    BY <1>0, <1>5
  <2> QED
    BY <1>3, <1>9, <2>1
<1>11. DOMAIN stock = 1 .. Len(stock)
  BY <1>7
<1>12. \A k \in 1 .. n :
          /\ t.slugs[is[k]] \notin Slugs
          /\ ~overlapped /\ t.file[is[k]].part # None => \A i \in DOMAIN stock :
               stock[i].part = t.file[is[k]].part => stock[i].brand # t.file[is[k]].brand
  BY <1>0, <1>1, <1>4 DEF Unmet, created
<1>13. \A k, m \in 1 .. n : k < m =>
          /\ t.slugs[is[k]] # t.slugs[is[m]]
          /\ t.file[is[k]].part # None /\ t.file[is[k]].part = t.file[is[m]].part => t.file[is[k]].brand # t.file[is[m]].brand
  BY <1>1, <1>4 DEF created, parseProductCsv
<1>14. ASSUME NEW i \in DOMAIN products, NEW j \in DOMAIN products, i < j
       PROVE  /\ products[i].slug # products[j].slug
              /\ products[i].part # None /\ products[i].part = products[j].part =>
                     products[i].brand # products[j].brand \/ overlapped
  <2>1. i \in 1 .. Len(stock) + n /\ j \in 1 .. Len(stock) + n
    BY <1>10
  <2>2. CASE j <= Len(stock)
    <3>1. i \in DOMAIN stock /\ j \in DOMAIN stock /\ products[i] = stock[i] /\ products[j] = stock[j]
      BY <1>3, <1>10, <1>11, <1>14, <2>1, <2>2
    <3> QED
      BY <1>14, <3>1 DEF TwinsInv, NoTwinParts
  <2>3. CASE i <= Len(stock) /\ j > Len(stock)
    <3>1. j - Len(stock) \in 1 .. n /\ products[j] = more[j - Len(stock)]
      BY <1>3, <1>10, <2>1, <2>3
    <3>4. PICK k \in 1 .. n : products[j] = more[k]
      BY <3>1
    <3>2. i \in DOMAIN stock /\ products[i] = stock[i]
      BY <1>3, <1>10, <1>11, <2>1, <2>3
    <3>3. stock[i].slug \in Slugs
      BY <3>2 DEF Slugs
    <3>5. /\ products[j].slug = t.slugs[is[k]] /\ products[j].part = t.file[is[k]].part /\ products[j].brand = t.file[is[k]].brand
      BY <1>6, <3>4
    <3>6. t.slugs[is[k]] \notin Slugs
      BY <1>12
    <3>7. products[i].slug # products[j].slug
      BY <3>2, <3>3, <3>5, <3>6
    <3>8. ~overlapped /\ t.file[is[k]].part # None /\ stock[i].part = t.file[is[k]].part => stock[i].brand # t.file[is[k]].brand
      BY <1>12, <3>2
    <3>9. ~overlapped => (products[i].part # None /\ products[i].part = products[j].part => products[i].brand # products[j].brand)
      BY <3>2, <3>5, <3>8
    <3> QED
      BY <3>7, <3>9, Zenon
  <2>4. CASE i > Len(stock)
    <3>1. i - Len(stock) \in 1 .. n /\ products[i] = more[i - Len(stock)]
      BY <1>3, <1>10, <2>1, <2>4
    <3>3. j > Len(stock) /\ i - Len(stock) < j - Len(stock)
      BY <1>3, <1>10, <1>14, <2>1, <2>4
    <3>4. j - Len(stock) \in 1 .. n /\ products[j] = more[j - Len(stock)]
      BY <1>3, <1>10, <2>1, <3>3
    <3>2. PICK k \in 1 .. n, m \in 1 .. n : products[i] = more[k] /\ products[j] = more[m] /\ k < m
      BY <3>1, <3>3, <3>4
    <3> QED
      BY <1>6, <1>13, <3>2
  <2>5. i <= Len(stock) \/ i > Len(stock)
    BY <1>3, <1>10, <2>1
  <2>6. j <= Len(stock) \/ j > Len(stock)
    BY <1>3, <1>10, <2>1
  <2> QED
    BY <2>2, <2>3, <2>4, <2>5, <2>6
<1>15. ProductRows(products)
  <2>1. \A k \in 1 .. n : ProductRow(more[k])
    BY <1>4, <1>5 DEF inserted, ProductRow
  <2>2. \A k \in DOMAIN stock : ProductRow(stock[k])
    BY DEF TwinsInv, ProductRows
  <2>3. ASSUME NEW k \in DOMAIN products PROVE ProductRow(products[k])
    <3>1. k \in 1 .. Len(stock) + n
      BY <1>10
    <3>2. CASE k <= Len(stock)
      BY <1>3, <1>10, <1>11, <2>2, <3>1, <3>2
    <3>3. CASE k > Len(stock)
      <4>1. k - Len(stock) \in 1 .. n /\ products[k] = more[k - Len(stock)]
        BY <1>3, <1>10, <3>1, <3>3
      <4> QED
        BY <2>1, <4>1
    <3> QED
      BY <1>3, <1>10, <3>1, <3>2, <3>3
  <2> QED
    BY <1>10, <2>3 DEF ProductRows
<1> QED
  BY <1>14, <1>15, Zenon DEF NoTwins

\* It writes them.
LEMMA ApplyKeepsTwins ==
    ASSUME ImportInv, TwinsInv, NEW a \in Importer, apply(a)
    PROVE  TwinsInv'
<1> DEFINE t == page[a].tx
<1>1. /\ t.pc = "slugged" /\ a \in running /\ overlapped' = overlapped
      /\ \/ refused(a, page[a].plan) /\ stock' = stock
         \/ /\ \A i \in DOMAIN t.slugs : t.slugs[i] \notin Slugs
            /\ \E is \in InOrder(created(t)) : stock' = stock \o inserted(t, is)
            /\ page' = [page EXCEPT ![a] = [NoPage EXCEPT !.asked = page[a].asked]]
  BY DEF apply, running
<1>2. DOMAIN page = Importer /\ Shaped(page[a]) /\ NoTx.pc = "idle" /\ NoTx.file = <<>>
  BY DEF ImportInv, NoTx
<1>3. CASE refused(a, page[a].plan) /\ stock' = stock
  <2>1. /\ \A b \in Importer \ {a} : page'[b] = page[b]
        /\ page'[a].file = page[a].file /\ page'[a].tx = NoTx
    BY <1>2, <1>3 DEF refused, Shaped
  <2>2. running' \subseteq running /\ \A b \in running' : page'[b].tx = page[b].tx
    BY <1>2, <2>1 DEF running
  <2>3. \A b \in Importer : ImportFile(page'[b].file) /\ ImportFile(page'[b].tx.file)
    BY <1>2, <2>1 DEF TwinsInv, ImportFile
  <2> QED
    BY <1>1, <1>3, <2>2, <2>3, NothingAdded
<1>4. ASSUME \A i \in DOMAIN t.slugs : t.slugs[i] \notin Slugs, NEW is \in InOrder(created(t)), stock' = stock \o inserted(t, is),
             page' = [page EXCEPT ![a] = [NoPage EXCEPT !.asked = page[a].asked]]
      PROVE  TwinsInv'
  <2>1. PICK g : g = [NoPage EXCEPT !.asked = page[a].asked]
    OBVIOUS
  <2>2. g.tx = NoTx /\ g.file = <<>>
    BY <2>1 DEF NoPage
  <2>3. (\A b \in Importer \ {a} : page'[b] = page[b]) /\ page'[a] = g
    BY <1>2, <1>4, <2>1
  <2>4. running' = running \ {a} /\ \A b \in running' : page'[b].tx = page[b].tx
    BY <1>2, <2>2, <2>3 DEF running
  <2>5. \A b \in Importer : ImportFile(page'[b].file) /\ ImportFile(page'[b].tx.file)
    BY <1>2, <2>2, <2>3 DEF TwinsInv, ImportFile
  <2>6. \A b \in running' : Planned(page'[b].tx)
    BY <2>4 DEF TwinsInv
  <2>7. ~overlapped => running' = {}
    BY <1>1, <2>4 DEF TwinsInv
  <2>8. PICK products : products = stock \o inserted(t, is)
    OBVIOUS
  <2>9. ProductRows(products) /\ NoTwins(products, overlapped)
    BY <1>1, <1>4, <2>8, Added
  <2>10. stock' = products /\ overlapped' = overlapped
    BY <1>1, <1>4, <2>8
  <2>11. NoTwinParts' /\ ProductRows(stock')
    BY <2>9, <2>10, Zenon DEF NoTwinParts, NoTwins
  <2>12. ~overlapped' => \A b \in running' : Unmet(stock', page'[b].tx) /\ \A c \in running' : b = c
    BY <2>7, <2>10
  <2> QED
    BY <2>5, <2>6, <2>11, <2>12 DEF TwinsInv
<1> QED
  BY <1>1, <1>3, <1>4

LEMMA ArchiveKeepsTwins == TwinsInv /\ archive => TwinsInv'
<1> SUFFICES ASSUME TwinsInv, archive PROVE TwinsInv'
  OBVIOUS
<1>1. PICK n \in DOMAIN stock : stock' = [stock EXCEPT ![n].archived = TRUE] /\ UNCHANGED <<page, overlapped>>
  BY DEF archive
<1>2. PICK S : stock \in Seq(S)
  BY DEF TwinsInv, ProductRows
<1>3. PICK p : p = [stock[n] EXCEPT !.archived = TRUE]
  OBVIOUS
<1>4. p.slug = stock[n].slug /\ p.part = stock[n].part /\ p.brand = stock[n].brand /\ ProductRow(p)
  <2>1. PICK q : q = stock[n] /\ q = [slug |-> q.slug, part |-> q.part, brand |-> q.brand, archived |-> q.archived]
    BY DEF TwinsInv, ProductRows, ProductRow
  <2>2. p = [q EXCEPT !.archived = TRUE]
    BY <1>3, <2>1
  <2>3. p.slug = q.slug /\ p.part = q.part /\ p.brand = q.brand /\ p = [slug |-> p.slug, part |-> p.part, brand |-> p.brand, archived |-> p.archived]
    BY <2>1, <2>2
  <2> QED
    BY <2>1, <2>3 DEF ProductRow
<1>5. DOMAIN stock' = DOMAIN stock /\ stock'[n] = p /\ \A k \in DOMAIN stock : k # n => stock'[k] = stock[k]
  BY <1>1, <1>3
<1>6. stock' \in Seq(S \cup {p})
  BY <1>1, <1>2, <1>3
<1>7. \A k \in DOMAIN stock : stock'[k].slug = stock[k].slug /\ stock'[k].part = stock[k].part /\ stock'[k].brand = stock[k].brand
  BY <1>4, <1>5
<1>8. ProductRows(stock')
  BY <1>4, <1>5, <1>6 DEF TwinsInv, ProductRows
<1>9. NoTwinParts'
  <2>1. ASSUME NEW i \in DOMAIN stock', NEW j \in DOMAIN stock', i < j
        PROVE  /\ stock'[i].slug # stock'[j].slug
               /\ stock'[i].part # None /\ stock'[i].part = stock'[j].part => stock'[i].brand # stock'[j].brand \/ overlapped'
    <3>1. i \in DOMAIN stock /\ j \in DOMAIN stock
      BY <1>5
    <3>2. /\ stock[i].slug # stock[j].slug
          /\ stock[i].part # None /\ stock[i].part = stock[j].part => stock[i].brand # stock[j].brand \/ overlapped
      BY <2>1, <3>1, Zenon DEF TwinsInv, NoTwinParts
    <3>3. /\ stock'[i].slug = stock[i].slug /\ stock'[i].part = stock[i].part /\ stock'[i].brand = stock[i].brand
          /\ stock'[j].slug = stock[j].slug /\ stock'[j].part = stock[j].part /\ stock'[j].brand = stock[j].brand
      BY <1>7, <3>1
    <3> QED
      BY <1>1, <3>2, <3>3, Zenon
  <2> QED
    BY <2>1, Zenon DEF NoTwinParts
<1>10. running' = running
  BY <1>1 DEF running
<1>11. \A t : Unmet(stock, t) => Unmet(stock', t)
  BY <1>5, <1>7 DEF Unmet
<1> QED
  BY <1>1, <1>8, <1>9, <1>10, <1>11 DEF TwinsInv

LEMMA TwinsKept == ImportInv /\ TwinsInv /\ [ImportNext]_importVars => TwinsInv'
<1> SUFFICES ASSUME ImportInv, TwinsInv, [ImportNext]_importVars PROVE TwinsInv'
  OBVIOUS
<1>1. ASSUME NEW a \in Importer
      PROVE  /\ DOMAIN page = Importer /\ Shaped(page[a])
             /\ ImportFile(page[a].file) /\ ImportFile(page[a].tx.file)
  BY DEF ImportInv, TwinsInv
<1>2. ASSUME NEW a \in Importer, \E file \in File : preview(a, file) PROVE TwinsInv'
  <2>1. PICK file \in File : page' = [page EXCEPT ![a].file = file, ![a].plan = NoPlan, ![a].busy = TRUE, ![a].asked = @ \cup {file}]
                             /\ UNCHANGED <<stock, overlapped>>
    BY <1>2 DEF preview, cleared
  <2>2. page'[a].file = file /\ page'[a].tx = page[a].tx /\ \A b \in Importer \ {a} : page'[b] = page[b]
    BY <1>1, <2>1 DEF Shaped
  <2>3. running' \subseteq running /\ \A b \in running' : page'[b].tx = page[b].tx
    BY <2>2 DEF running
  <2>4. \A b \in Importer : ImportFile(page'[b].file) /\ ImportFile(page'[b].tx.file)
    BY <1>1, <2>2 DEF ImportFile
  <2> QED
    BY <2>1, <2>3, <2>4, NothingAdded
<1>3. ASSUME NEW a \in Importer, previewAnswered(a) PROVE TwinsInv'
  <2>1. PICK file, shown : page' = [page EXCEPT ![a].asked = @ \ {file}, ![a].busy = FALSE, ![a].plan = shown]
    BY <1>3 DEF previewAnswered
  <2>2. page'[a].file = page[a].file /\ page'[a].tx = page[a].tx /\ \A b \in Importer \ {a} : page'[b] = page[b]
    BY <1>1, <2>1 DEF Shaped
  <2>3. running' \subseteq running /\ (\A b \in running' : page'[b].tx = page[b].tx) /\ UNCHANGED <<stock, overlapped>>
    BY <1>3, <2>2 DEF running, previewAnswered
  <2>4. \A b \in Importer : ImportFile(page'[b].file) /\ ImportFile(page'[b].tx.file)
    BY <1>1, <2>2
  <2> QED
    BY <2>3, <2>4, NothingAdded
<1>4. ASSUME NEW a \in Importer, commit(a) PROVE TwinsInv'
  <2>1. PICK t : t = [NoTx EXCEPT !.pc = "sent", !.file = page[a].file]
    OBVIOUS
  <2>2. page' = [page EXCEPT ![a].busy = TRUE, ![a].tx = t] /\ UNCHANGED <<stock, overlapped>>
    BY <1>4, <2>1 DEF commit
  <2>3. t.pc = "sent" /\ t.file = page[a].file
    BY <2>1 DEF NoTx
  <2>4. page'[a].file = page[a].file /\ page'[a].tx = t /\ \A b \in Importer \ {a} : page'[b] = page[b]
    BY <1>1, <2>2 DEF Shaped
  <2>5. running' \subseteq running /\ \A b \in running' : page'[b].tx = page[b].tx
    BY <2>3, <2>4 DEF running
  <2>6. \A b \in Importer : ImportFile(page'[b].file) /\ ImportFile(page'[b].tx.file)
    BY <1>1, <2>3, <2>4
  <2> QED
    BY <2>2, <2>5, <2>6, NothingAdded
<1>5. ASSUME NEW a \in Importer, abort(a) PROVE TwinsInv'
  <2>1. page' = [page EXCEPT ![a].tx = NoTx, ![a].busy = FALSE, ![a].plan = page[a].plan] /\ UNCHANGED <<stock, overlapped>>
    BY <1>5 DEF abort, refused
  <2>2. page'[a].file = page[a].file /\ page'[a].tx = NoTx /\ \A b \in Importer \ {a} : page'[b] = page[b]
    BY <1>1, <2>1 DEF Shaped
  <2>3. NoTx.pc = "idle" /\ NoTx.file = <<>>
    BY DEF NoTx
  <2>4. running' \subseteq running /\ \A b \in running' : page'[b].tx = page[b].tx
    BY <2>2, <2>3 DEF running
  <2>5. \A b \in Importer : ImportFile(page'[b].file) /\ ImportFile(page'[b].tx.file)
    BY <1>1, <2>2, <2>3 DEF ImportFile
  <2> QED
    BY <2>1, <2>4, <2>5, NothingAdded
<1>6. CASE UNCHANGED importVars
  <2>1. UNCHANGED <<page, stock, overlapped>>
    BY <1>6 DEF importVars
  <2>2. running' = running
    BY <2>1 DEF running
  <2>3. \A b \in Importer : ImportFile(page'[b].file) /\ ImportFile(page'[b].tx.file)
    BY <1>1, <2>1
  <2> QED
    BY <2>1, <2>2, <2>3, NothingAdded
<1> QED
  BY <1>2, <1>3, <1>4, <1>5, <1>6, PlanKeepsTwins, SlugsKeepTwins, ApplyKeepsTwins, ArchiveKeepsTwins DEF ImportNext

\* The master spreadsheet can be sent again and again: whatever files the admins
\* choose, no two products get one slug, or one part number and brand unless two
\* commits overlapped (ProductImportService.plan and apply).
THEOREM ImportMakesNoTwins == OfficeSpec => []NoTwinParts
<1>1. OfficeInit => ImportInv /\ TwinsInv
  <2>1. /\ DOMAIN NoPage = {"file", "plan", "busy", "asked", "tx"} /\ NoPage.tx = NoTx /\ NoPage.plan = NoPlan /\ NoPage.asked = {}
        /\ NoPage.file = <<>> /\ NoTx.file = <<>>
    BY DEF NoPage, NoTx
  <2>2. OfficeInit => ImportInv
    BY <2>1, NoTxShaped DEF OfficeInit, ImportInit, ImportInv, Shaped, Own
  <2>3. ASSUME OfficeInit PROVE TwinsInv
    <3>1. stock = <<>> /\ page = [a \in Importer |-> NoPage]
      BY <2>3 DEF OfficeInit, ImportInit
    <3>2. running = {}
      BY <2>1, <3>1, NoTxShaped DEF running
    <3>3. ProductRows(stock) /\ NoTwinParts
      <4>1. <<>> \in Seq({}) /\ DOMAIN <<>> = {}
        OBVIOUS
      <4> QED
        BY <3>1, <4>1 DEF ProductRows, NoTwinParts
    <3> QED
      BY <2>1, <3>1, <3>2, <3>3 DEF TwinsInv, ImportFile
  <2> QED
    BY <2>2, <2>3
<1>2. (ImportInv /\ TwinsInv) /\ [OfficeNext]_officeVars => (ImportInv /\ TwinsInv)'
  BY ImportKept, TwinsKept, DesksApart
<1>3. TwinsInv => NoTwinParts
  BY DEF TwinsInv
<1> QED
  BY <1>1, <1>2, <1>3, PTL DEF OfficeSpec

-----------------------------------------------------------------------------
(* The lists                                                               *)

\* A request, or the answer shown, with what it holds.
IsRequest(q) ==
    /\ q = [n |-> q.n, key |-> q.key, page |-> q.page, answer |-> q.answer]
    /\ q.n \in Nat /\ q.page \in Int /\ q.answer.pages \in Int
IsAct(a) ==
    /\ a = [row |-> a.row, from |-> a.from, key |-> a.key, page |-> a.page, pc |-> a.pc, refused |-> a.refused, n |-> a.n]
    /\ a.page \in Int /\ a.pc \in {"sent", "served", "loading"}

BoardTyped ==
    /\ board \in Board /\ latest \in Nat \ {0} /\ pageNo \in Int
    /\ spent \in [turns : Nat, acts : Nat, others : Nat, lost : Nat]
    /\ IsRequest(data) /\ (\A q \in asked : IsRequest(q)) /\ \A a \in acts : IsAct(a)

\* Every request has a number of its own.
Numbered ==
    /\ \A q \in asked : q.n <= latest /\ q.n # data.n
    /\ data.n <= latest
    /\ \A q, r \in asked : q.n = r.n => q = r

\* The newest request is for what the list is asked for now.
AsksForThis(q) == q.key = key /\ q.page = pageNo
NewestIsForThis ==
    spent.lost = 0 /\ ~overtaken => \E q \in asked \cup {data} : q.n = latest /\ AsksForThis(q)

\* An answer is what the database holds.
Fresh(q) == q.answer = paginate(q.key, q.page)

\* As long as nobody else changed a row, the newest answer is fresh, or a button
\* was served and the list is about to be read again.
NewestIsFresh ==
    spent.lost = 0 /\ spent.others = 0 =>
        \/ \E a \in acts : a.pc = "served"
        \/ /\ data.n = latest => Fresh(data)
           /\ \A q \in asked : q.n = latest => q.answer = NoAnswer \/ Fresh(q)

\* A plain list is asked for in one way, and its requests and its one button take turns.
PlainInv ==
    /\ ~overtaken /\ AsksForThis(data)
    /\ (\A q \in asked : AsksForThis(q)) /\ \A a \in acts : AsksForThis(a)
    /\ spent.lost = 0 /\ spent.others = 0 /\ spent.acts <= 1 =>
         /\ spent.acts = 0 => acts = {} /\ (asked = {} \/ data.answer = NoAnswer)
         /\ (\A q, r \in asked : q = r) /\ (\A a, b \in acts : a = b)
         /\ \A a \in acts : a.pc # "loading" => asked = {}
         /\ \/ \E a \in acts : a.pc = "served" /\ ~a.refused
            \/ /\ asked = {} => Fresh(data)
               /\ \A q \in asked : q.answer = NoAnswer \/ Fresh(q)

PagedInv == Numbered /\ NewestIsForThis /\ NewestIsFresh

BoardInv == BoardTyped /\ (IF This.paged THEN PagedInv ELSE PlainInv)

LEMMA PagesOfTheOffice ==
    ASSUME board \in Board
    PROVE  This.paged \in BOOLEAN /\ (This.paged => This.reloadsRefused)
<1>1. board \in DOMAIN Pages
  BY BoardPages
<1>2. \A x, y, z \in BOOLEAN :
        LET shape == listPage(x, y, z) IN shape.paged \in BOOLEAN /\ (shape.paged <=> x) /\ (shape.reloadsRefused <=> y)
  BY DEF listPage
<1>3. This \in {listPage(TRUE, TRUE, FALSE), listPage(FALSE, TRUE, FALSE), listPage(FALSE, FALSE, TRUE)}
  <2>1. This \in {AdminOrdersPage, AdminProductsPage, AdminRequestsPage, AdminReviewsPage,
                  AdminCouponsPage, AdminBrandsPage, AdminVehiclesPage, AdminCategoriesPage}
    BY <1>1 DEF This, Pages
  <2> QED
    BY <2>1, Zenon DEF AdminOrdersPage, AdminProductsPage, AdminRequestsPage, AdminReviewsPage,
                       AdminCouponsPage, AdminBrandsPage, AdminVehiclesPage, AdminCategoriesPage
<1> QED
  BY <1>2, <1>3, Zenon

LEMMA PageCounts ==
    ASSUME NEW paged, NEW places, NEW k, NEW p
    PROVE  pageOf(paged, places, k, p).pages \in Int
<1> DEFINE holds(r) == IF paged THEN places[r] = k ELSE places[r] # "gone"
           total_ == Cardinality({i \in DOMAIN Row : holds(Row[i])})
<1>1. DOMAIN Row = 1 .. Len(Row) /\ Len(Row) \in Nat
  BY BoardAssumption
<1>2. IsFiniteSet(DOMAIN Row)
  BY <1>1, FS_Interval
<1>3. IsFiniteSet({i \in DOMAIN Row : holds(Row[i])})
  BY <1>2, FS_Subset
<1>4. total_ \in Nat
  BY <1>3, FS_CardinalityType
<1>5. pageOf(paged, places, k, p).pages = totalPages(total_)
  BY DEF pageOf
<1> HIDE DEF total_
<1>6. \A a, b \in Int : b > 0 => a \div b \in Int
  OBVIOUS
<1>7. totalPages(total_) \in Int
  BY <1>4, <1>6, BoardAssumption DEF totalPages
<1> QED
  BY <1>5, <1>7

LEMMA Spending ==
    ASSUME spent \in [turns : Nat, acts : Nat, others : Nat, lost : Nat]
    PROVE  /\ \A bound : spend("turns", bound) =>
                /\ spent' \in [turns : Nat, acts : Nat, others : Nat, lost : Nat]
                /\ spent'.acts = spent.acts /\ spent'.others = spent.others /\ spent'.lost = spent.lost
           /\ \A bound : spend("acts", bound) =>
                /\ spent' \in [turns : Nat, acts : Nat, others : Nat, lost : Nat]
                /\ spent'.acts = spent.acts + 1 /\ spent'.others = spent.others /\ spent'.lost = spent.lost
           /\ \A bound : spend("others", bound) =>
                /\ spent' \in [turns : Nat, acts : Nat, others : Nat, lost : Nat]
                /\ spent'.others > 0 /\ spent'.lost = spent.lost
           /\ \A bound : spend("lost", bound) =>
                /\ spent' \in [turns : Nat, acts : Nat, others : Nat, lost : Nat]
                /\ spent'.lost > 0
BY DEF spend

LEMMA NewRequest ==
    ASSUME NEW n \in Nat, NEW k, NEW p \in Int
    PROVE  /\ IsRequest(Request(n, k, p))
           /\ Request(n, k, p).n = n /\ Request(n, k, p).key = k /\ Request(n, k, p).page = p
           /\ Request(n, k, p).answer = NoAnswer
BY DEF IsRequest, Request, NoAnswer

LEMMA InitBoard == BoardInit => BoardInv
<1> SUFFICES ASSUME BoardInit PROVE BoardInv
  OBVIOUS
<1> DEFINE first == Request(1, "todo", 1)
           none == Request(0, "todo", 1)
<1>1. /\ board \in Board /\ key = "todo" /\ pageNo = 1 /\ latest = 1 /\ asked = {first} /\ data = none /\ acts = {}
      /\ spent = [turns |-> 0, acts |-> 0, others |-> 0, lost |-> 0]
  BY DEF BoardInit
<1>2. overtaken = FALSE
  BY Zenon DEF BoardInit
<1>3. /\ IsRequest(first) /\ first.n = 1 /\ first.key = "todo" /\ first.page = 1 /\ first.answer = NoAnswer
      /\ IsRequest(none) /\ none.n = 0 /\ none.key = "todo" /\ none.page = 1 /\ none.answer = NoAnswer
  BY NewRequest
<1> HIDE DEF first, none
<1>4. BoardTyped
  BY <1>1, <1>3 DEF BoardTyped
<1>5. PagedInv
  BY <1>1, <1>3 DEF PagedInv, Numbered, NewestIsForThis, NewestIsFresh, AsksForThis
<1>6. PlainInv
  BY <1>1, <1>2, <1>3 DEF PlainInv, AsksForThis
<1> QED
  BY <1>4, <1>5, <1>6 DEF BoardInv

-----------------------------------------------------------------------------

\* Asking again: the new request is the newest, and nothing was read for it yet.
LEMMA Reloaded ==
    ASSUME BoardTyped, NEW k, NEW p \in Int, NEW rest \in SUBSET asked, reload(k, p, rest)
    PROVE  /\ latest' = latest + 1 /\ latest' \in Nat \ {0}
           /\ \A q \in asked' : IsRequest(q)
           /\ \E new : /\ asked' = rest \cup {new} /\ IsRequest(new) /\ new.n = latest + 1
                       /\ new.key = k /\ new.page = p /\ new.answer = NoAnswer
<1> DEFINE new == Request(latest + 1, k, p)
<1>1. latest' = latest + 1 /\ asked' = rest \cup {new}
  BY DEF reload
<1>2. latest + 1 \in Nat \ {0}
  BY DEF BoardTyped
<1>3. IsRequest(new) /\ new.n = latest + 1 /\ new.key = k /\ new.page = p /\ new.answer = NoAnswer
  BY <1>2, NewRequest
<1> HIDE DEF new
<1> QED
  BY <1>1, <1>2, <1>3 DEF BoardTyped

LEMMA ReloadedNumbered ==
    ASSUME BoardTyped, Numbered, NEW k, NEW p \in Int, NEW rest \in SUBSET asked, reload(k, p, rest), data' = data
    PROVE  Numbered'
<1>1. PICK new : asked' = rest \cup {new} /\ IsRequest(new) /\ new.n = latest + 1
  BY Reloaded
<1>2. latest' = latest + 1 /\ latest \in Nat
  BY DEF reload, BoardTyped
<1>3. (\A q \in asked : q.n \in Nat) /\ data.n \in Nat
  BY DEF BoardTyped, IsRequest
<1> QED
  BY <1>1, <1>2, <1>3 DEF Numbered

\* A request for what is now wanted: right whatever was on its way.
LEMMA ReloadedPaged ==
    ASSUME BoardTyped, PagedInv, NEW k, NEW p \in Int, NEW rest \in SUBSET asked, reload(k, p, rest),
           UNCHANGED data, ~overtaken' => k = key' /\ p = pageNo'
    PROVE  PagedInv'
<1>1. PICK new : asked' = rest \cup {new} /\ IsRequest(new) /\ new.n = latest + 1 /\ new.key = k /\ new.page = p /\ new.answer = NoAnswer
  BY Reloaded
<1>2. latest' = latest + 1 /\ latest \in Nat
  BY DEF reload, BoardTyped
<1>3. \A q \in rest \cup {data} : q.n \in Nat /\ q.n # latest + 1
  BY <1>2 DEF BoardTyped, IsRequest, PagedInv, Numbered
<1>4. Numbered'
  BY ReloadedNumbered DEF PagedInv
<1>5. NewestIsForThis'
  BY <1>1, <1>2 DEF NewestIsForThis, AsksForThis
<1>6. NewestIsFresh'
  BY <1>1, <1>2, <1>3 DEF NewestIsFresh
<1> QED
  BY <1>4, <1>5, <1>6 DEF PagedInv

LEMMA TurnStep == ASSUME BoardInv, setFilter \/ Pager PROVE BoardInv'
<1> USE DEF BoardInv
<1>0. BoardTyped /\ This.paged /\ PagedInv
  BY DEF setFilter, Pager
<1>1. /\ spent' \in [turns : Nat, acts : Nat, others : Nat, lost : Nat] /\ ~overtaken'
      /\ UNCHANGED <<board, place, data, acts>>
  BY <1>0, Spending DEF setFilter, Pager, BoardTyped
<1>2. pageNo' \in Int /\ reload(key', pageNo', asked)
  <2>1. CASE setFilter
    BY <2>1 DEF setFilter
  <2>2. CASE Pager
    BY <2>2 DEF Pager
  <2> QED
    BY <2>1, <2>2
<1>3. BoardTyped'
  BY <1>0, <1>1, <1>2, Reloaded DEF BoardTyped
<1>4. PagedInv'
  <2> DEFINE k == key'
             p == pageNo'
  <2>1. reload(k, p, asked) /\ p \in Int
    BY <1>2
  <2>2. k = key' /\ p = pageNo'
    OBVIOUS
  <2> HIDE DEF k, p
  <2> QED
    BY <1>0, <1>1, <2>1, <2>2, ReloadedPaged
<1>5. This' = This
  BY <1>1 DEF This
<1> QED
  BY <1>0, <1>3, <1>4, <1>5

LEMMA ActStep == ASSUME BoardInv, act PROVE BoardInv'
<1> USE DEF BoardInv
<1>1. PICK i \in DOMAIN data.answer.rows :
        acts' = acts \cup {[row |-> data.answer.rows[i][1], from |-> data.answer.rows[i][2], key |-> key, page |-> pageNo,
                           pc |-> "sent", refused |-> FALSE, n |-> spent.acts]}
  BY DEF act
<1> DEFINE a == [row |-> data.answer.rows[i][1], from |-> data.answer.rows[i][2], key |-> key, page |-> pageNo,
                 pc |-> "sent", refused |-> FALSE, n |-> spent.acts]
<1>2. acts' = acts \cup {a}
  BY <1>1
<1>3. IsAct(a) /\ a.pc = "sent" /\ a.key = key /\ a.page = pageNo
  BY DEF IsAct, BoardTyped
<1>4. data.answer # NoAnswer
  BY DEF NoAnswer
<1> HIDE DEF a
<1>5. /\ spent' \in [turns : Nat, acts : Nat, others : Nat, lost : Nat]
      /\ spent'.acts = spent.acts + 1 /\ spent'.others = spent.others /\ spent'.lost = spent.lost
      /\ UNCHANGED <<board, place, key, pageNo, latest, asked, data, overtaken>>
  BY Spending DEF act, BoardTyped
<1>6. spent.acts \in Nat
  BY DEF BoardTyped
<1>7. BoardTyped'
  BY <1>2, <1>3, <1>5 DEF BoardTyped
<1>8. CASE This.paged
  <2>1. Numbered' /\ NewestIsForThis'
    BY <1>5, <1>8 DEF PagedInv, Numbered, NewestIsForThis, AsksForThis
  <2>2. NewestIsFresh'
    BY <1>2, <1>5, <1>8 DEF PagedInv, NewestIsFresh, Fresh, paginate, This
  <2> QED
    BY <1>5, <1>7, <1>8, <2>1, <2>2 DEF PagedInv, This
<1>9. CASE ~This.paged
  <2>1. ~overtaken' /\ AsksForThis(data)' /\ (\A q \in asked' : AsksForThis(q)') /\ \A b \in acts' : AsksForThis(b)'
    BY <1>2, <1>3, <1>5, <1>9 DEF PlainInv, AsksForThis
  <2>2. ASSUME spent'.lost = 0, spent'.others = 0, spent'.acts <= 1
        PROVE  spent.acts = 0 /\ acts' = {a} /\ asked' = {} /\ Fresh(data)'
    <3>1. spent.acts = 0
      BY <1>5, <1>6, <2>2
    <3>2. acts = {} /\ asked = {} /\ Fresh(data)
      BY <1>4, <1>5, <1>9, <2>2, <3>1 DEF PlainInv
    <3> QED
      BY <1>2, <1>5, <3>1, <3>2 DEF Fresh, paginate, This
  <2>3. PlainInv'
    BY <1>3, <1>5, <1>6, <2>1, <2>2 DEF PlainInv
  <2> QED
    BY <1>5, <1>7, <1>9, <2>3 DEF This
<1> QED
  BY <1>8, <1>9

LEMMA ElsewhereOnBoard == ASSUME BoardInv, someoneElse PROVE BoardInv'
<1> USE DEF BoardInv
<1>1. /\ spent' \in [turns : Nat, acts : Nat, others : Nat, lost : Nat] /\ spent'.others # 0 /\ spent'.lost = spent.lost
      /\ UNCHANGED <<board, key, pageNo, latest, asked, data, acts, overtaken>>
  BY Spending DEF someoneElse, BoardTyped
<1>2. BoardTyped'
  BY <1>1 DEF BoardTyped
<1>3. PagedInv => PagedInv'
  BY <1>1 DEF PagedInv, Numbered, NewestIsForThis, NewestIsFresh, AsksForThis
<1>4. PlainInv => PlainInv'
  BY <1>1 DEF PlainInv, AsksForThis
<1> QED
  BY <1>1, <1>2, <1>3, <1>4 DEF This

\* A request is read: it becomes its own fresh answer.
LEMMA ReadListStep == ASSUME BoardInv, NEW q \in asked, readList(q) PROVE BoardInv'
<1> USE DEF BoardInv
<1>1. PICK read : /\ read = [q EXCEPT !.answer = paginate(q.key, q.page)] /\ asked' = (asked \ {q}) \cup {read}
                  /\ UNCHANGED <<board, place, key, pageNo, latest, data, acts, spent, overtaken>>
  BY DEF readList
<1>2. paginate(q.key, q.page).pages \in Int
  BY PageCounts DEF paginate
<1>3. IsRequest(q)
  BY DEF BoardTyped
<1>4. IsRequest(read) /\ read.n = q.n /\ read.key = q.key /\ read.page = q.page /\ read.answer = paginate(q.key, q.page)
  <2> DEFINE listed == paginate(q.key, q.page)
  <2>1. listed.pages \in Int
    BY <1>2
  <2>2. read = [n |-> q.n, key |-> q.key, page |-> q.page, answer |-> listed]
    BY <1>1, <1>3 DEF IsRequest
  <2> HIDE DEF listed
  <2>3. IsRequest(read) /\ read.n = q.n /\ read.key = q.key /\ read.page = q.page /\ read.answer = listed
    BY <1>3, <2>1, <2>2 DEF IsRequest
  <2> QED
    BY <2>3 DEF listed
<1>6. Fresh(read)'
  <2>1. paginate(q.key, q.page)' = paginate(q.key, q.page)
    BY <1>1 DEF paginate, This
  <2> QED
    BY <1>4, <2>1 DEF Fresh
<1>7. BoardTyped'
  BY <1>1, <1>4 DEF BoardTyped
<1>8. CASE This.paged
  <2>0. Numbered'
    <3>1. Numbered
      BY <1>8 DEF PagedInv
    <3>2. read.n <= latest /\ read.n # data.n /\ \A r \in asked \ {q} : r.n # read.n
      BY <1>4, <3>1 DEF Numbered
    <3> QED
      BY <1>1, <3>1, <3>2 DEF Numbered
  <2>1. NewestIsForThis'
    BY <1>1, <1>4, <1>8 DEF PagedInv, NewestIsForThis, AsksForThis
  <2>2. NewestIsFresh'
    <3>1. \A r : Fresh(r) => Fresh(r)'
      BY <1>1 DEF Fresh, paginate, This
    <3>2. Fresh(data) => Fresh(data)'
      BY <1>1 DEF Fresh, paginate, This
    <3> QED
      BY <1>1, <1>6, <1>8, <3>1, <3>2 DEF PagedInv, NewestIsFresh
  <2> QED
    BY <1>1, <1>7, <1>8, <2>0, <2>1, <2>2 DEF PagedInv, This
<1>9. CASE ~This.paged
  <2>1. PlainInv'
    BY <1>1, <1>4, <1>6, <1>9 DEF PlainInv, AsksForThis, Fresh, paginate, This
  <2> QED
    BY <1>1, <1>7, <1>9, <2>1 DEF This
<1> QED
  BY <1>8, <1>9

\* The handlers that waited for a request are over; none that was served was.
LEMMA Released ==
    ASSUME NEW n, release(n)
    PROVE  acts' \subseteq acts /\ \A a \in acts : a.pc # "loading" => a \in acts'
BY DEF release, finished

LEMMA AnswerPaged ==
    ASSUME BoardTyped, This.paged, PagedInv, NEW q \in asked, listAnswered(q)
    PROVE  BoardTyped' /\ PagedInv'
<1>0. /\ q.answer # NoAnswer /\ release(q.n)
      /\ UNCHANGED <<board, place, key, spent, overtaken>>
  BY DEF listAnswered
<1>1. acts' \subseteq acts /\ \A a \in acts : a.pc # "loading" => a \in acts'
  BY <1>0, Released
<1>2. IsRequest(q) /\ q.page \in Int /\ q.answer.pages \in Int /\ pageNo \in Int
  BY DEF BoardTyped, IsRequest
<1>3. isLatest(q) <=> q.n = latest
  BY Zenon DEF isLatest
<1>4. CASE q.n = latest /\ q.answer.rows = <<>> /\ q.page > q.answer.pages /\ pageNo # q.answer.pages
  <2>1. pageNo' = q.answer.pages /\ data' = data /\ reload(key, q.answer.pages, asked \ {q})
    BY <1>3, <1>4 DEF listAnswered
  <2>2. BoardTyped'
    BY <1>0, <1>1, <1>2, <2>1, Reloaded DEF BoardTyped
  <2>3. PagedInv'
    <3> DEFINE p == q.answer.pages
    <3>1. reload(key, p, asked \ {q}) /\ p \in Int /\ key' = key /\ pageNo' = p /\ data' = data
      BY <1>0, <1>2, <2>1
    <3> HIDE DEF p
    <3> QED
      BY <3>1, ReloadedPaged
  <2> QED
    BY <2>2, <2>3
<1>5. CASE q.n = latest /\ q.answer.rows = <<>> /\ q.page > q.answer.pages /\ pageNo = q.answer.pages
  <2>1. pageNo' = pageNo /\ data' = data /\ asked' = asked \ {q} /\ latest' = latest
    BY <1>3, <1>5 DEF listAnswered
  <2>2. BoardTyped'
    BY <1>0, <1>1, <2>1 DEF BoardTyped
  <2>3. spent.lost = 0 => overtaken
    <3> SUFFICES ASSUME spent.lost = 0, ~overtaken PROVE FALSE
      OBVIOUS
    <3>1. PICK r \in asked \cup {data} : r.n = latest /\ r.page = pageNo
      BY DEF PagedInv, NewestIsForThis, AsksForThis
    <3>2. r = q
      BY <1>5, <3>1 DEF PagedInv, Numbered
    <3> QED
      BY <1>2, <1>5, <3>1, <3>2
  <2>4. PagedInv'
    <3>1. Numbered'
      BY <2>1 DEF PagedInv, Numbered
    <3>2. NewestIsForThis'
      BY <1>0, <2>3 DEF NewestIsForThis
    <3>3. data.n # latest /\ \A r \in asked' : r.n # latest
      BY <1>5, <2>1 DEF PagedInv, Numbered
    <3>4. NewestIsFresh'
      BY <2>1, <3>3 DEF NewestIsFresh
    <3> QED
      BY <3>1, <3>2, <3>4 DEF PagedInv
  <2> QED
    BY <2>2, <2>4
<1>6. CASE q.n = latest /\ ~(q.answer.rows = <<>> /\ q.page > q.answer.pages)
  <2>1. data' = q /\ asked' = asked \ {q} /\ UNCHANGED <<latest, pageNo>>
    BY <1>3, <1>6 DEF listAnswered
  <2>2. BoardTyped'
    BY <1>0, <1>1, <2>1 DEF BoardTyped
  <2>3. Numbered'
    BY <1>2, <2>1 DEF PagedInv, Numbered, BoardTyped
  <2>4. NewestIsForThis'
    <3> SUFFICES ASSUME spent.lost = 0, ~overtaken PROVE data'.n = latest' /\ AsksForThis(data)'
      BY <1>0 DEF NewestIsForThis
    <3>1. PICK r \in asked \cup {data} : r.n = latest /\ AsksForThis(r)
      BY DEF PagedInv, NewestIsForThis
    <3>2. r = q
      BY <1>6, <3>1 DEF PagedInv, Numbered
    <3> QED
      BY <1>0, <1>6, <2>1, <3>1, <3>2 DEF AsksForThis
  <2>5. NewestIsFresh'
    <3> SUFFICES ASSUME spent.lost = 0, spent.others = 0, ~\E a \in acts' : a.pc = "served"
                 PROVE  Fresh(data)' /\ \A r \in asked' : r.n # latest'
      BY <1>0 DEF NewestIsFresh
    <3>1. Fresh(q)
      BY <1>0, <1>1, <1>6 DEF PagedInv, NewestIsFresh
    <3>2. Fresh(data)'
      BY <1>0, <2>1, <3>1 DEF Fresh, paginate, This
    <3> QED
      BY <1>6, <2>1, <3>2 DEF PagedInv, Numbered
  <2> QED
    BY <2>2, <2>3, <2>4, <2>5 DEF PagedInv
<1>7. CASE q.n # latest
  <2>1. data' = data /\ asked' = asked \ {q} /\ UNCHANGED <<latest, pageNo>>
    BY <1>3, <1>7 DEF listAnswered
  <2>2. BoardTyped'
    BY <1>0, <1>1, <2>1 DEF BoardTyped
  <2>3. Numbered'
    BY <2>1 DEF PagedInv, Numbered
  <2>4. NewestIsForThis'
    BY <1>0, <1>7, <2>1 DEF PagedInv, NewestIsForThis, AsksForThis
  <2>5. NewestIsFresh'
    <3>1. \A r : Fresh(r) => Fresh(r)'
      BY <1>0 DEF Fresh, paginate, This
    <3>2. Fresh(data) => Fresh(data)'
      BY <1>0, <2>1 DEF Fresh, paginate, This
    <3> QED
      BY <1>0, <1>1, <2>1, <3>1, <3>2 DEF PagedInv, NewestIsFresh
  <2> QED
    BY <2>2, <2>3, <2>4, <2>5 DEF PagedInv
<1> QED
  BY <1>4, <1>5, <1>6, <1>7

LEMMA AnswerPlain ==
    ASSUME BoardTyped, ~This.paged, PlainInv, NEW q \in asked, listAnswered(q)
    PROVE  BoardTyped' /\ PlainInv'
<1>1. /\ q.answer # NoAnswer /\ release(q.n) /\ data' = q /\ asked' = asked \ {q} /\ UNCHANGED <<latest, pageNo>>
      /\ UNCHANGED <<board, place, key, spent, overtaken>>
  BY DEF listAnswered, isLatest
<1>2. acts' \subseteq acts /\ \A a \in acts : a.pc # "loading" => a \in acts'
  BY <1>1, Released
<1>3. BoardTyped'
  BY <1>1, <1>2 DEF BoardTyped
<1>4. ~overtaken' /\ AsksForThis(data)' /\ (\A r \in asked' : AsksForThis(r)') /\ \A a \in acts' : AsksForThis(a)'
  BY <1>1, <1>2 DEF PlainInv, AsksForThis
<1>5. ASSUME spent.lost = 0, spent.others = 0, spent.acts <= 1
      PROVE  asked' = {} /\ Fresh(data)'
  <2>1. asked = {q}
    BY <1>5 DEF PlainInv
  <2>2. Fresh(q)
    BY <1>1, <1>5, <2>1 DEF PlainInv
  <2>3. Fresh(data)'
    BY <1>1, <2>2 DEF Fresh, paginate, This
  <2> QED
    BY <1>1, <2>1, <2>3
<1>6. PlainInv'
  BY <1>1, <1>2, <1>4, <1>5 DEF PlainInv
<1> QED
  BY <1>3, <1>6

LEMMA ListAnsweredStep == ASSUME BoardInv, NEW q \in asked, listAnswered(q) PROVE BoardInv'
<1>1. This' = This
  BY DEF listAnswered, This
<1> QED
  BY <1>1, AnswerPaged, AnswerPlain DEF BoardInv

\* After a request was lost nothing is promised but the numbers.
LEMMA LostSteps ==
    ASSUME BoardInv, (\E q \in asked : listFailed(q)) \/ (\E a \in acts : actLost(a))
    PROVE  BoardInv'
<1> USE DEF BoardInv
<1>1. /\ spent' \in [turns : Nat, acts : Nat, others : Nat, lost : Nat] /\ spent'.lost # 0
      /\ asked' \subseteq asked /\ acts' \subseteq acts
      /\ UNCHANGED <<board, place, key, pageNo, latest, data, overtaken>>
  <2>1. ASSUME NEW q \in asked, listFailed(q) PROVE <1>1
    BY <2>1, Spending, Released DEF listFailed, BoardTyped
  <2>2. ASSUME NEW a \in acts, actLost(a) PROVE <1>1
    BY <2>2, Spending DEF actLost, BoardTyped
  <2> QED
    BY <2>1, <2>2
<1>2. BoardTyped'
  BY <1>1 DEF BoardTyped
<1>3. PagedInv => PagedInv'
  BY <1>1 DEF PagedInv, Numbered, NewestIsForThis, NewestIsFresh
<1>4. PlainInv => PlainInv'
  BY <1>1 DEF PlainInv, AsksForThis
<1> QED
  BY <1>1, <1>2, <1>3, <1>4 DEF This

LEMMA ActServedStep == ASSUME BoardInv, NEW a \in acts, actServed(a) PROVE BoardInv'
<1> USE DEF BoardInv
<1>1. PICK b : /\ b = [a EXCEPT !.pc = "served", !.refused = place[a.row] # a.from] /\ acts' = (acts \ {a}) \cup {b}
               /\ a.pc = "sent" /\ (place[a.row] # a.from => place' = place)
               /\ UNCHANGED <<board, key, pageNo, latest, asked, data, spent, overtaken>>
  BY DEF actServed
<1>2. IsAct(a)
  BY DEF BoardTyped
<1>3. IsAct(b) /\ b.pc = "served" /\ b.refused = (place[a.row] # a.from) /\ b.key = a.key /\ b.page = a.page
  <2> DEFINE moved == place[a.row] # a.from
  <2>1. b = [a EXCEPT !.pc = "served", !.refused = moved]
    BY <1>1
  <2> HIDE DEF moved
  <2>2. b = [row |-> a.row, from |-> a.from, key |-> a.key, page |-> a.page, pc |-> "served", refused |-> moved, n |-> a.n]
    BY <1>2, <2>1 DEF IsAct
  <2>3. IsAct(b) /\ b.pc = "served" /\ b.refused = moved /\ b.key = a.key /\ b.page = a.page
    BY <1>2, <2>2 DEF IsAct
  <2> QED
    BY <2>3 DEF moved
<1>4. b.refused <=> place[a.row] # a.from
  BY <1>3, Zenon
<1>5. BoardTyped'
  BY <1>1, <1>3 DEF BoardTyped
<1>6. PagedInv => PagedInv'
  <2> SUFFICES ASSUME PagedInv PROVE PagedInv'
    OBVIOUS
  <2>1. Numbered' /\ NewestIsForThis'
    BY <1>1 DEF PagedInv, Numbered, NewestIsForThis, AsksForThis
  <2>2. NewestIsFresh'
    BY <1>1, <1>3 DEF NewestIsFresh
  <2> QED
    BY <2>1, <2>2 DEF PagedInv
<1>7. PlainInv => PlainInv'
  <2> SUFFICES ASSUME PlainInv PROVE PlainInv'
    OBVIOUS
  <2>1. ~overtaken' /\ AsksForThis(data)' /\ (\A r \in asked' : AsksForThis(r)') /\ \A c \in acts' : AsksForThis(c)'
    BY <1>1, <1>3 DEF PlainInv, AsksForThis
  <2>2. ASSUME spent.lost = 0, spent.others = 0, spent.acts <= 1
        PROVE  /\ spent.acts # 0 /\ asked' = {} /\ acts' = {b}
               /\ b.refused => Fresh(data)'
    <3>1. asked = {} /\ acts = {a} /\ spent.acts # 0 /\ Fresh(data)
      BY <1>1, <2>2 DEF PlainInv
    <3>2. place' = place => Fresh(data)'
      BY <1>1, <3>1 DEF Fresh, paginate, This
    <3> QED
      BY <1>1, <1>4, <3>1, <3>2
  <2> QED
    BY <1>1, <1>3, <2>1, <2>2 DEF PlainInv
<1> QED
  BY <1>1, <1>5, <1>6, <1>7 DEF This

LEMMA ActAnsweredStep == ASSUME BoardInv, NEW a \in acts, actAnswered(a) PROVE BoardInv'
<1> USE DEF BoardInv
<1>0. /\ a.pc = "served" /\ UNCHANGED <<board, place, key, pageNo, data, spent>>
  BY DEF actAnswered
<1>1. This' = This /\ IsAct(a) /\ pageNo \in Int
  BY <1>0 DEF This, BoardTyped
<1>2. CASE reloads(a)
  <2>1. PICK b : /\ b = [a EXCEPT !.pc = "loading", !.n = latest + 1] /\ acts' = (acts \ {a}) \cup {b}
                 /\ reload(a.key, a.page, asked)
                 /\ overtaken' = (overtaken \/ a.key # key \/ a.page # pageNo)
    BY <1>2 DEF actAnswered
  <2>2. IsAct(b) /\ b.pc = "loading" /\ b.key = a.key /\ b.page = a.page
    BY <1>1, <2>1 DEF IsAct
  <2>3. overtaken' <=> overtaken \/ a.key # key \/ a.page # pageNo
    BY <2>1, Zenon
  <2>4. a.page \in Int /\ (~This.paged => a.key = key /\ a.page = pageNo)
    BY <1>1 DEF PlainInv, AsksForThis, IsAct
  <2>5. BoardTyped'
    BY <1>0, <2>1, <2>2, <2>4, Reloaded DEF BoardTyped
  <2>6. CASE This.paged
    <3> DEFINE k == a.key
               p == a.page
    <3>1. reload(k, p, asked) /\ p \in Int /\ (~overtaken' => k = key' /\ p = pageNo')
      BY <1>0, <2>1, <2>3, <2>4
    <3> HIDE DEF k, p
    <3>2. PagedInv'
      BY <1>0, <2>6, <3>1, ReloadedPaged
    <3> QED
      BY <1>1, <2>5, <2>6, <3>2
  <2>7. CASE ~This.paged
    <3>1. PICK new : asked' = asked \cup {new} /\ new.key = a.key /\ new.page = a.page /\ new.answer = NoAnswer
      BY <2>1, <2>4, Reloaded
    <3>2. ~overtaken' /\ AsksForThis(data)' /\ (\A r \in asked' : AsksForThis(r)') /\ \A c \in acts' : AsksForThis(c)'
      BY <1>0, <2>1, <2>2, <2>3, <2>4, <2>7, <3>1 DEF PlainInv, AsksForThis
    <3>3. ASSUME spent.lost = 0, spent.others = 0, spent.acts <= 1
          PROVE  spent.acts # 0 /\ asked' = {new} /\ acts' = {b}
      <4>1. asked = {} /\ acts = {a} /\ spent.acts # 0
        BY <1>0, <2>7, <3>3 DEF PlainInv
      <4> QED
        BY <2>1, <3>1, <4>1
    <3>4. PlainInv'
      BY <1>0, <2>2, <3>1, <3>2, <3>3 DEF PlainInv
    <3> QED
      BY <1>1, <2>5, <2>7, <3>4
  <2> QED
    BY <2>6, <2>7
<1>3. CASE ~reloads(a)
  <2>1. /\ acts' = acts \ {a} /\ UNCHANGED <<latest, asked, overtaken>>
    BY <1>3 DEF actAnswered
  <2>2. a.refused /\ ~This.paged
    BY <1>3, PagesOfTheOffice DEF reloads, BoardTyped
  <2>3. BoardTyped'
    BY <1>0, <2>1 DEF BoardTyped
  <2>4. ~overtaken' /\ AsksForThis(data)' /\ (\A r \in asked' : AsksForThis(r)') /\ \A c \in acts' : AsksForThis(c)'
    BY <1>0, <2>1, <2>2 DEF PlainInv, AsksForThis
  <2>5. ASSUME spent.lost = 0, spent.others = 0, spent.acts <= 1
        PROVE  spent.acts # 0 /\ asked' = {} /\ acts' = {} /\ Fresh(data)'
    <3>1. asked = {} /\ acts = {a} /\ spent.acts # 0 /\ Fresh(data)
      BY <1>0, <2>2, <2>5 DEF PlainInv
    <3>2. Fresh(data)'
      BY <1>0, <2>1, <3>1 DEF Fresh, paginate, This
    <3> QED
      BY <2>1, <3>1, <3>2
  <2>6. PlainInv'
    BY <1>0, <2>4, <2>5 DEF PlainInv
  <2> QED
    BY <1>1, <2>2, <2>3, <2>6
<1> QED
  BY <1>2, <1>3

LEMMA NextBoard == BoardInv /\ [BoardNext]_boardVars => BoardInv'
<1>1. BoardInv /\ UNCHANGED boardVars => BoardInv'
  <2> SUFFICES ASSUME BoardInv, UNCHANGED boardVars PROVE BoardInv'
    OBVIOUS
  <2>1. UNCHANGED <<board, place, key, pageNo, latest, asked, data, acts, spent, overtaken>>
    BY DEF boardVars
  <2>2. BoardTyped' /\ This' = This
    BY <2>1 DEF BoardInv, BoardTyped, This
  <2>3. PagedInv => PagedInv'
    BY <2>1 DEF PagedInv, Numbered, NewestIsForThis, NewestIsFresh, AsksForThis, Fresh, paginate, This
  <2>4. PlainInv => PlainInv'
    BY <2>1 DEF PlainInv, AsksForThis, Fresh, paginate, This
  <2> QED
    BY <2>2, <2>3, <2>4 DEF BoardInv
<1> QED
  BY <1>1, TurnStep, ActStep, ElsewhereOnBoard, ReadListStep, ListAnsweredStep, LostSteps, ActServedStep, ActAnsweredStep
     DEF BoardNext

LEMMA QuietBoard == BoardInv => ShowsWhatIsAsked
<1> SUFFICES ASSUME BoardInv, Quiet, ~overtaken
             PROVE  /\ data.key = key /\ data.page = pageNo
                    /\ spent.others = 0 /\ (This.paged \/ spent.acts <= 1) => Fresh(data)
  BY DEF ShowsWhatIsAsked, Fresh
<1>1. asked = {} /\ acts = {} /\ spent.lost = 0
  BY DEF Quiet
<1>2. CASE This.paged
  <2>1. data.n = latest /\ AsksForThis(data)
    BY <1>1, <1>2 DEF BoardInv, PagedInv, NewestIsForThis
  <2>2. spent.others = 0 => Fresh(data)
    BY <1>1, <1>2, <2>1 DEF BoardInv, PagedInv, NewestIsFresh
  <2> QED
    BY <2>1, <2>2 DEF AsksForThis
<1>3. CASE ~This.paged
  <2>1. AsksForThis(data)
    BY <1>3 DEF BoardInv, PlainInv
  <2>2. spent.others = 0 /\ spent.acts <= 1 => Fresh(data)
    BY <1>1, <1>3 DEF BoardInv, PlainInv
  <2> QED
    BY <1>3, <2>1, <2>2 DEF AsksForThis
<1> QED
  BY <1>2, <1>3

\* Once a list is quiet it shows what it is asked for, as the database holds it,
\* for lists and pages of any length (useAdminList's numbered requests, and the
\* reload that follows every button).
THEOREM ListsShowWhatIsAsked == OfficeSpec => []ShowsWhatIsAsked
<1>1. OfficeInit => BoardInv
  BY InitBoard DEF OfficeInit
<1>2. BoardInv /\ [OfficeNext]_officeVars => BoardInv'
  <2>1. [OfficeNext]_officeVars => [BoardNext]_boardVars
    BY DEF OfficeNext, officeVars
  <2> QED
    BY <2>1, NextBoard
<1>3. BoardInv => ShowsWhatIsAsked
  BY QuietBoard
<1> QED
  BY <1>1, <1>2, <1>3, PTL DEF OfficeSpec
===============================================================================
