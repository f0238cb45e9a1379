----------------------------- MODULE SessionsProofs -----------------------------
(***************************************************************************)
(* What the sessions keep, for every number of tabs and devices and every  *)
(* bound: a change of password ends what it should, a race is taken for no *)
(* theft, a device loses its session only for cause, a logout is final.    *)
(*                                                                         *)
(* All of it rests on who may name a row of the session table.  A row is   *)
(* named by the cookie jar of one device and by the requests of its tabs   *)
(* (OneHolder), and the row of an answer under way is named by nothing     *)
(* else until the answer arrives (AnswersNew).                             *)
(***************************************************************************)
EXTENDS Sessions, FiniteSetTheorems, WellFoundedInduction, TLAPS

RowStates == {"live", "recent", "old", "idle", "expired"}
Rows == [st : RowStates, pw : Nat]
Refreshes == [pc : {"idle", "sent", "read", "answered", "wait"}, attempt : Nat,
              sid : Row \cup {0}, pw : Nat, ans : Row \cup {0}]
Acts == [kind : {"login", "logout", "change", "reset"}, pc : {"idle", "sent", "read", "answered", "stuck"},
         sid : Row \cup {0}, pw : Nat, ans : Row \cup {0, -1}]

Typed ==
    /\ sess \in [Row -> Rows]
    /\ password \in Nat
    /\ jar \in [Tab -> Device]
    /\ cookie \in [Device -> Row \cup {0}]
    /\ ref \in [Tab -> Refreshes]
    /\ act \in [Tab -> Acts]

\* What a request carries at each point of its way.
CallsOf(t) ==
    /\ ref[t].pc \in {"idle", "wait"} => ref[t].sid = 0
    /\ ref[t].pc # "answered" => ref[t].ans = 0
    /\ ref[t].pc # "idle" => act[t].pc = "idle"
    /\ act[t].pc \in {"idle", "stuck"} => act[t].sid = 0
    /\ act[t].pc # "answered" => act[t].ans = 0
    /\ act[t].kind # "login" => act[t].ans \notin Row
    /\ act[t].kind = "login" => act[t].ans # -1
Calls == \A t \in Tab : CallsOf(t)

Names(t) == {ref[t].sid, ref[t].ans, act[t].sid, act[t].ans}
Held(r, d) == cookie[d] = r \/ \E t \in TabsOf(d) : r \in Names(t)
OneHolder == \A r \in Row : \A d, e \in Device : Held(r, d) /\ Held(r, e) => d = e

AnswersNew ==
    \A t \in Tab : \A r \in Row : r \in {ref[t].ans, act[t].ans} =>
      /\ \A d \in Device : cookie[d] # r
      /\ \A u \in Tab : r \notin {ref[u].sid, act[u].sid} /\ (u # t => r \notin {ref[u].ans, act[u].ans})

Base == Typed /\ Calls /\ OneHolder /\ AnswersNew

LEMMA RowFacts == 0 \notin Row /\ -1 \notin Row /\ Row \subseteq Nat
BY SessionsAssumption DEF Row

LEMMA Entries ==
    ASSUME Typed, NEW t \in Tab
    PROVE  /\ ref[t] \in Refreshes /\ act[t] \in Acts /\ jar[t] \in Device /\ cookie[jar[t]] \in Row \cup {0}
           /\ ref[t].sid \in Row \cup {0} /\ ref[t].ans \in Row \cup {0} /\ ref[t].pw \in Nat /\ ref[t].attempt \in Nat
           /\ act[t].sid \in Row \cup {0} /\ act[t].ans \in Row \cup {0, -1} /\ act[t].pw \in Nat
BY DEF Typed, Refreshes, Acts

LEMMA RowEntries ==
    ASSUME Typed, NEW s \in Row
    PROVE  sess[s] \in Rows /\ sess[s].st \in RowStates /\ sess[s].pw \in Nat
BY DEF Typed, Rows

LEMMA EmptyCalls ==
    /\ NoRefresh \in Refreshes /\ NoRefresh.pc = "idle" /\ NoRefresh.sid = 0 /\ NoRefresh.ans = 0
    /\ NoAct \in Acts /\ NoAct.pc = "idle" /\ NoAct.sid = 0 /\ NoAct.ans = 0 /\ NoAct.kind = "login"
    /\ NoRow \in Rows /\ NoRow.st = "expired"
BY DEF NoRefresh, NoAct, NoRow, Refreshes, Acts, Rows, RowStates

\* Whatever a device or a tab names is named.
LEMMA NamedHas ==
    /\ \A d \in Device : cookie[d] \in Named
    /\ \A t \in Tab : Names(t) \subseteq Named
    /\ \A r, d : d \in Device /\ Held(r, d) => r \in Named
BY DEF Named, Names, Held, TabsOf

LEMMA FreshRow ==
    ASSUME Fresh # {}
    PROVE  NewRow \in Row /\ NewRow \notin Named /\ sess[NewRow].st # "live"
<1>1. Fresh \in SUBSET Nat
  BY RowFacts DEF Fresh
<1>2. \E s \in Fresh : \A r \in Fresh : s <= r
  <2>1. PICK s \in Fresh : \A r \in Fresh : ~ (<<r, s>> \in OpToRel(<, Nat))
    BY <1>1, NatLessThanWellFounded, WFMin
  <2>2. \A r \in Fresh : ~ (r < s) /\ r \in Nat /\ s \in Nat
    BY <1>1, <2>1 DEF OpToRel
  <2> QED
    BY <2>2
<1>3. NewRow \in Fresh
  BY <1>2 DEF NewRow
<1> QED
  BY <1>3 DEF Fresh

-----------------------------------------------------------------------------
(* How a step moves the names.                                             *)

\* Only the requests of t move, and only the jar of its device.
Only(t) ==
    /\ jar' = jar
    /\ \A u \in Tab \ {t} : ref'[u] = ref[u] /\ act'[u] = act[u]
    /\ \A d \in Device \ {jar[t]} : cookie'[d] = cookie[d]

LEMMA HoldersKept ==
    ASSUME Typed, OneHolder, NEW t \in Tab, Only(t),
           \A r \in Row : cookie'[jar[t]] = r \/ r \in Names(t)' => Held(r, jar[t]) \/ r \notin Named
    PROVE  OneHolder'
<1>1. ASSUME NEW r \in Row, NEW d \in Device, Held(r, d)'
      PROVE  Held(r, d) \/ (d = jar[t] /\ r \notin Named)
  <2>1. CASE d = jar[t]
    <3>1. CASE \E u \in Tab \ {t} : jar[u] = d /\ r \in Names(u)'
      BY <3>1 DEF Only, Names, Held, TabsOf
    <3>2. CASE cookie'[jar[t]] = r \/ r \in Names(t)'
      BY <2>1, <3>2
    <3> QED
      BY <1>1, <2>1, <3>1, <3>2 DEF Held, TabsOf, Only
  <2>2. CASE d # jar[t]
    BY <1>1, <2>2 DEF Only, Names, Held, TabsOf
  <2> QED
    BY <2>1, <2>2
<1> QED
  BY <1>1, NamedHas DEF OneHolder

LEMMA AnswersKept ==
    ASSUME Typed, AnswersNew, NEW t \in Tab, Only(t),
           \A r \in Row : r \in {ref'[t].ans, act'[t].ans} => r \notin Named \/ r \in {ref[t].ans, act[t].ans},
           \A r \in Row : r \in {ref'[t].sid, act'[t].sid} => r \in {ref[t].sid, act[t].sid} \/ r = cookie[jar[t]],
           \/ cookie'[jar[t]] = cookie[jar[t]]
           \/ /\ cookie'[jar[t]] \in {0, ref[t].ans, act[t].ans}
              /\ ref'[t].ans \notin Row /\ act'[t].ans \notin Row
    PROVE  AnswersNew'
<1> SUFFICES ASSUME NEW u \in Tab, NEW r \in Row, r \in {ref'[u].ans, act'[u].ans}
             PROVE  /\ \A d \in Device : cookie'[d] # r
                    /\ \A v \in Tab : /\ r \notin {ref'[v].sid, act'[v].sid}
                                      /\ v # u => r \notin {ref'[v].ans, act'[v].ans}
  BY DEF AnswersNew
<1>1. CASE u # t
  <2>1. r \in {ref[u].ans, act[u].ans} /\ r \in Named
    BY <1>1, NamedHas DEF Only, Names
  <2>2. /\ \A d \in Device : cookie[d] # r
        /\ \A v \in Tab : r \notin {ref[v].sid, act[v].sid} /\ (v # u => r \notin {ref[v].ans, act[v].ans})
    BY <2>1 DEF AnswersNew
  <2>3. \A d \in Device : cookie'[d] # r
    BY <1>1, <2>2, RowFacts DEF Only
  <2>4. \A v \in Tab : r \notin {ref'[v].sid, act'[v].sid}
    BY <2>2, Entries DEF Only
  <2>5. \A v \in Tab \ {u} : r \notin {ref'[v].ans, act'[v].ans}
    BY <1>1, <2>1, <2>2 DEF Only
  <2> QED
    BY <2>3, <2>4, <2>5
<1>2. CASE u = t /\ r \notin Named
  <2>1. \A d \in Device : cookie'[d] # r
    BY <1>2, NamedHas DEF Only
  <2>2. \A v \in Tab : r \notin Names(v) /\ r # cookie[jar[t]]
    BY <1>2, NamedHas, Entries
  <2>3. \A v \in Tab : r \notin {ref'[v].sid, act'[v].sid}
    BY <2>2 DEF Only, Names
  <2>4. \A v \in Tab \ {t} : r \notin {ref'[v].ans, act'[v].ans}
    BY <2>2 DEF Only, Names
  <2> QED
    BY <1>2, <2>1, <2>3, <2>4
<1>3. CASE u = t /\ r \in {ref[t].ans, act[t].ans}
  <2>1. /\ \A d \in Device : cookie[d] # r
        /\ \A v \in Tab : r \notin {ref[v].sid, act[v].sid} /\ (v # t => r \notin {ref[v].ans, act[v].ans})
    BY <1>3 DEF AnswersNew
  <2>2. cookie'[jar[t]] = cookie[jar[t]]
    BY <1>3
  <2>3. \A d \in Device : cookie'[d] # r
    BY <2>1, <2>2 DEF Only
  <2>4. \A v \in Tab : r \notin {ref'[v].sid, act'[v].sid}
    BY <2>1, Entries DEF Only
  <2>5. \A v \in Tab \ {t} : r \notin {ref'[v].ans, act'[v].ans}
    BY <2>1 DEF Only
  <2> QED
    BY <1>3, <2>3, <2>4, <2>5
<1> QED
  BY <1>1, <1>2, <1>3

LEMMA BaseKept ==
    ASSUME Base, NEW t \in Tab, Only(t), Typed', CallsOf(t)',
           \A r \in Row : r \in {ref'[t].ans, act'[t].ans} => r \notin Named \/ r \in {ref[t].ans, act[t].ans},
           \A r \in Row : r \in {ref'[t].sid, act'[t].sid} => r \in {ref[t].sid, act[t].sid} \/ r = cookie[jar[t]],
           \/ cookie'[jar[t]] = cookie[jar[t]]
           \/ /\ cookie'[jar[t]] \in {0, ref[t].ans, act[t].ans}
              /\ ref'[t].ans \notin Row /\ act'[t].ans \notin Row
    PROVE  Base'
<1>1. AnswersNew'
  BY AnswersKept DEF Base
<1>2. \A r \in Row : cookie'[jar[t]] = r \/ r \in Names(t)' => Held(r, jar[t]) \/ r \notin Named
  <2>1. t \in TabsOf(jar[t])
    BY DEF TabsOf
  <2>2. \A r \in {cookie[jar[t]], ref[t].sid, ref[t].ans, act[t].sid, act[t].ans} : Held(r, jar[t])
    BY <2>1 DEF Held, Names
  <2> QED
    BY <2>2, RowFacts DEF Names
<1>3. OneHolder'
  BY <1>2, HoldersKept DEF Base
<1>4. Calls'
  BY DEF Base, Calls, CallsOf, Only
<1> QED
  BY <1>1, <1>3, <1>4 DEF Base

-----------------------------------------------------------------------------
(* The steps, one by one, and what each makes of its tab.                  *)

Sends(t) == heartbeat(t) \/ AuthProvider(t) \/ retryRefresh(t)

LEMMA SendsStep ==
    ASSUME Base, NEW t \in Tab, Sends(t)
    PROVE  /\ Base' /\ Only(t)
           /\ UNCHANGED <<sess, password, cookie, overtook, excused, blamed, alarm, signedOut>>
           /\ raced' = Races(t, "refresh")
           /\ ref[t].pc \in {"idle", "wait"} /\ act[t].pc \in {"idle", "stuck"}
           /\ ref'[t].pc = "sent" /\ ref'[t].sid = cookie[jar[t]] /\ ref'[t].ans = 0
           /\ act'[t].pc = "idle" /\ act'[t].sid = 0 /\ act'[t].ans = 0
<1>1. PICK n \in Nat : attemptRefresh(t, n)
  <2>1. ref[t].attempt \in Nat
    BY Entries DEF Base
  <2>2. 1 \in Nat /\ ref[t].attempt + 1 \in Nat
    BY <2>1
  <2> QED
    BY <2>2 DEF Sends, heartbeat, AuthProvider, retryRefresh, refreshSession
<1>2. /\ ref[t].pc \in {"idle", "wait"} /\ act[t].pc \in {"idle", "stuck"}
      /\ (act' = act /\ act[t].pc = "idle") \/ act' = [act EXCEPT ![t] = NoAct]
  BY DEF Sends, heartbeat, AuthProvider, retryRefresh, refreshSession, Base, Calls, CallsOf
<1>3. /\ UNCHANGED <<sess, password, cookie, jar, overtook, excused, blamed, alarm, signedOut>>
      /\ raced' = Races(t, "refresh")
      /\ ref' = [ref EXCEPT ![t] = [pc |-> "sent", attempt |-> n, sid |-> cookie[jar[t]], pw |-> 0, ans |-> 0]]
  BY <1>1 DEF attemptRefresh, rows
<1>4. [pc |-> "sent", attempt |-> n, sid |-> cookie[jar[t]], pw |-> 0, ans |-> 0] \in Refreshes
  BY Entries DEF Base, Refreshes
<1>5. Typed'
  BY <1>2, <1>3, <1>4, EmptyCalls DEF Base, Typed
<1>6. Only(t) /\ ref'[t] = [pc |-> "sent", attempt |-> n, sid |-> cookie[jar[t]], pw |-> 0, ans |-> 0]
      /\ act'[t] \in {act[t], NoAct} /\ act'[t].pc = "idle"
  BY <1>2, <1>3, EmptyCalls DEF Only, Base, Typed
<1>7. act'[t].sid = 0 /\ act'[t].ans = 0
  BY <1>2, <1>6, EmptyCalls DEF Base, Calls, CallsOf
<1>8. CallsOf(t)'
  BY <1>6, <1>7, RowFacts DEF CallsOf
<1>9. Base'
  BY <1>3, <1>5, <1>6, <1>7, <1>8, BaseKept, RowFacts
<1> QED
  BY <1>2, <1>3, <1>6, <1>7, <1>9

LEMMA SubmitsStep ==
    ASSUME Base, NEW t \in Tab, NEW kind \in {"login", "logout", "change", "reset"}, submit(t, kind)
    PROVE  /\ Base' /\ Only(t)
           /\ UNCHANGED <<sess, password, cookie, ref, overtook, excused, blamed, alarm, signedOut>>
           /\ raced' = Races(t, kind)
           /\ ref[t].pc = "idle" /\ act[t].pc = "idle"
           /\ act'[t].pc = "sent" /\ act'[t].kind = kind /\ act'[t].sid = cookie[jar[t]] /\ act'[t].ans = 0
<1> DEFINE a == [kind |-> kind, pc |-> "sent", sid |-> cookie[jar[t]], pw |-> password, ans |-> 0]
<1>1. /\ UNCHANGED <<sess, password, cookie, jar, ref, overtook, excused, blamed, alarm, signedOut>>
      /\ raced' = Races(t, kind) /\ ref[t].pc = "idle" /\ act[t].pc = "idle"
      /\ act' = [act EXCEPT ![t] = a]
  BY DEF submit, rows
<1>2. a \in Acts
  BY Entries DEF Base, Acts, Typed
<1>3. Typed'
  BY <1>1, <1>2 DEF Base, Typed
<1>4. Only(t) /\ act'[t] = a
  BY <1>1 DEF Only, Base, Typed
<1>5. ref[t].sid = 0 /\ ref[t].ans = 0
  BY <1>1 DEF Base, Calls, CallsOf
<1>6. CallsOf(t)'
  BY <1>1, <1>4, <1>5, RowFacts DEF CallsOf
<1>7. Base'
  BY <1>1, <1>3, <1>4, <1>5, <1>6, BaseKept, RowFacts
<1> QED
  BY <1>1, <1>4, <1>7

LEMMA Revoked ==
    ASSUME Typed, NEW S
    PROVE  /\ Revoke(S) \in [Row -> Rows]
           /\ \A s \in Row : Revoke(S)[s] = IF s \in S /\ sess[s].st \in {"live", "idle"}
                                            THEN [st |-> "recent", pw |-> 0] ELSE sess[s]
<1>1. [st |-> "recent", pw |-> 0] \in Rows
  BY DEF Rows, RowStates
<1> QED
  BY <1>1 DEF Revoke, Typed

\* What a row is forgotten to: itself or nothing, and a live one stays.
LEMMA Forgotten ==
    ASSUME Typed, Forget
    PROVE  /\ sess' \in [Row -> Rows]
           /\ \A s \in Row : sess'[s] \in {sess[s], NoRow} /\ (Live(s) => sess'[s] = sess[s])
BY EmptyCalls DEF Forget, Typed

LEMMA LiveRow == ASSUME NEW s \in Row PROVE Live(s) <=> sess[s].st = "live"
BY RowFacts DEF Live

LEMMA TouchStep ==
    ASSUME Base, NEW t \in Tab, touchSession(t)
    PROVE  /\ Base' /\ Only(t)
           /\ UNCHANGED <<password, cookie, act, overtook, signedOut, raced>>
           /\ ref[t].pc = "sent" /\ ref'[t].pc = (IF Live(ref[t].sid) THEN "read" ELSE "answered")
           /\ ref'[t].sid = ref[t].sid /\ ref'[t].ans = 0
           /\ \/ sess' = sess /\ (alarm' <=> alarm) /\ excused' = excused /\ (blamed' <=> blamed)
              \/ /\ ref[t].sid \in Row /\ sess[ref[t].sid].st = "old"
                 /\ sess' = Revoke(Row) /\ alarm' /\ excused' = Device /\ (blamed' <=> blamed)
              \/ /\ ref[t].sid \in Row /\ sess[ref[t].sid].st = "idle" /\ sess' = Revoke({ref[t].sid})
                 /\ (alarm' <=> alarm) /\ excused' = excused \cup Holding({ref[t].sid}) /\ blamed'
<1> DEFINE s == ref[t].sid
           st == IF s = 0 THEN "none" ELSE sess[s].st
<1>1. ref[t] \in Refreshes /\ s \in Row \cup {0} /\ act[t].pc = "idle" /\ act[t].sid = 0 /\ act[t].ans = 0
      /\ ref[t].pc = "sent"
  BY Entries DEF Base, Calls, CallsOf, touchSession
<1>2. Live(s) <=> st = "live"
  BY DEF Live
<1>3. st # "none" => s \in Row
  BY <1>1
<1>4. (IF st = "live" THEN sess[s].pw ELSE 0) \in Nat
  BY <1>3, RowEntries DEF Base
<1>5. /\ ref' = [ref EXCEPT ![t].pc = IF st = "live" THEN "read" ELSE "answered", ![t].pw = IF st = "live" THEN sess[s].pw ELSE 0]
      /\ UNCHANGED <<password, cookie, jar, act, overtook, signedOut, raced>>
      /\ sess' = CASE st = "old" -> Revoke(Row) [] st = "idle" -> Revoke({s}) [] OTHER -> sess
      /\ alarm' = (alarm \/ st = "old")
      /\ excused' = CASE st = "old" -> Device [] st = "idle" -> excused \cup Holding({s}) [] OTHER -> excused
      /\ blamed' = (blamed \/ st = "idle")
  BY DEF touchSession, graceOver
<1> HIDE DEF st
<1>6. \/ sess' = sess /\ (alarm' <=> alarm) /\ excused' = excused /\ (blamed' <=> blamed)
      \/ st = "old" /\ sess' = Revoke(Row) /\ alarm' /\ excused' = Device /\ (blamed' <=> blamed)
      \/ st = "idle" /\ sess' = Revoke({s}) /\ (alarm' <=> alarm) /\ excused' = excused \cup Holding({s}) /\ blamed'
  BY <1>5
<1>7. /\ ref'[t].pc = IF st = "live" THEN "read" ELSE "answered"
      /\ ref'[t].sid = s /\ ref'[t].ans = ref[t].ans /\ ref'[t].attempt = ref[t].attempt
      /\ ref' \in [Tab -> Refreshes] /\ Only(t)
  BY <1>1, <1>4, <1>5 DEF Only, Base, Typed, Refreshes
<1>8. ref[t].ans = 0
  BY <1>1 DEF Base, Calls, CallsOf
<1>9. sess' \in [Row -> Rows]
  BY <1>6, Revoked DEF Base, Typed
<1>10. Typed'
  BY <1>5, <1>7, <1>9 DEF Base, Typed
<1>11. CallsOf(t)'
  BY <1>1, <1>5, <1>7, <1>8, RowFacts DEF CallsOf, Base, Calls
<1>12. Base'
  BY <1>1, <1>5, <1>7, <1>8, <1>10, <1>11, BaseKept
<1>13. /\ ref'[t].pc = IF Live(ref[t].sid) THEN "read" ELSE "answered"
       /\ (st = "old" \/ st = "idle") => ref[t].sid \in Row /\ sess[ref[t].sid].st = st
  BY <1>2, <1>3, <1>7 DEF st
<1> QED
  BY <1>1, <1>5, <1>6, <1>7, <1>8, <1>12, <1>13 DEF st

\* A row that is made: by the rotation of another, or by a login.
LEMMA RotateStep ==
    ASSUME Base, NEW t \in Tab, rotate(t)
    PROVE  /\ Base' /\ Only(t)
           /\ UNCHANGED <<password, cookie, act, excused, blamed, alarm, signedOut, raced>>
           /\ NewRow \in Row /\ NewRow \notin Named /\ sess[NewRow].st # "live"
           /\ ref[t].pc = "read" /\ ref'[t].pc = "answered" /\ ref'[t].sid = ref[t].sid /\ ref'[t].ans = NewRow
           /\ sess'[NewRow].st = "live" /\ sess'[NewRow].pw = ref[t].pw
           /\ ref[t].sid \in Row => sess'[ref[t].sid].st = "recent"
           /\ \A s \in Row \ {NewRow, ref[t].sid} : sess'[s] = sess[s]
           /\ overtook' = IF ref[t].pw # password THEN overtook \cup {NewRow} ELSE overtook \ {NewRow}
<1> DEFINE s == ref[t].sid
           n == NewRow
<1>1. n \in Row /\ n \notin Named /\ sess[n].st # "live"
  BY FreshRow DEF rotate
<1> HIDE DEF n
<1>2. ref[t] \in Refreshes /\ s \in Row \cup {0} /\ act[t].pc = "idle" /\ act[t].sid = 0 /\ act[t].ans = 0
      /\ ref[t].pc = "read" /\ ref[t].pw \in Nat /\ s # n
  BY <1>1, Entries, NamedHas DEF Base, Calls, CallsOf, rotate, Names
<1>3. /\ ref' = [ref EXCEPT ![t].pc = "answered", ![t].pw = 0, ![t].ans = n]
      /\ UNCHANGED <<password, cookie, jar, act, excused, blamed, alarm, signedOut, raced>>
      /\ sess' = [sess EXCEPT ![s] = [st |-> "recent", pw |-> 0], ![n] = [st |-> "live", pw |-> ref[t].pw]]
      /\ overtook' = IF ref[t].pw # password THEN overtook \cup {n} ELSE overtook \ {n}
  BY DEF rotate, n
<1>4. /\ ref'[t].pc = "answered" /\ ref'[t].sid = s /\ ref'[t].ans = n
      /\ ref' \in [Tab -> Refreshes] /\ Only(t)
  BY <1>1, <1>2, <1>3 DEF Only, Base, Typed, Refreshes
<1>5. [st |-> "recent", pw |-> 0] \in Rows /\ [st |-> "live", pw |-> ref[t].pw] \in Rows
  BY <1>2 DEF Rows, RowStates
<1>6. /\ sess' \in [Row -> Rows]
      /\ sess'[n] = [st |-> "live", pw |-> ref[t].pw]
      /\ s \in Row => sess'[s] = [st |-> "recent", pw |-> 0]
      /\ \A x \in Row \ {n, s} : sess'[x] = sess[x]
  BY <1>1, <1>2, <1>3, <1>5 DEF Base, Typed
<1>7. Typed'
  BY <1>3, <1>4, <1>6 DEF Base, Typed
<1>8. CallsOf(t)'
  BY <1>2, <1>3, <1>4, RowFacts DEF CallsOf, Base, Calls
<1>9. Base'
  BY <1>1, <1>2, <1>3, <1>4, <1>7, <1>8, BaseKept, RowFacts
<1> QED
  BY <1>1, <1>2, <1>3, <1>4, <1>6, <1>9 DEF n

LEMMA LoginStep ==
    ASSUME Base, NEW t \in Tab, login(t)
    PROVE  /\ Base' /\ Only(t)
           /\ UNCHANGED <<password, cookie, ref, excused, blamed, alarm, signedOut, raced>>
           /\ NewRow \in Row /\ NewRow \notin Named /\ sess[NewRow].st # "live"
           /\ act[t].pc = "read" /\ act[t].kind = "login"
           /\ act'[t].pc = "answered" /\ act'[t].kind = "login" /\ act'[t].sid = act[t].sid /\ act'[t].ans = NewRow
           /\ sess'[NewRow].st = "live" /\ sess'[NewRow].pw = act[t].pw
           /\ \A s \in Row \ {NewRow} : sess'[s] = sess[s]
           /\ overtook' = IF act[t].pw # password THEN overtook \cup {NewRow} ELSE overtook \ {NewRow}
<1> DEFINE n == NewRow
<1>1. n \in Row /\ n \notin Named /\ sess[n].st # "live"
  BY FreshRow DEF login
<1> HIDE DEF n
<1>2. act[t] \in Acts /\ act[t].pc = "read" /\ act[t].kind = "login" /\ act[t].pw \in Nat
      /\ ref[t].pc = "idle" /\ ref[t].sid = 0 /\ ref[t].ans = 0
  BY Entries DEF Base, Calls, CallsOf, login
<1>3. /\ act' = [act EXCEPT ![t].pc = "answered", ![t].ans = n]
      /\ UNCHANGED <<password, cookie, jar, ref, excused, blamed, alarm, signedOut, raced>>
      /\ sess' = [sess EXCEPT ![n] = [st |-> "live", pw |-> act[t].pw]]
      /\ overtook' = IF act[t].pw # password THEN overtook \cup {n} ELSE overtook \ {n}
  BY DEF login, n
<1>4. /\ act'[t].pc = "answered" /\ act'[t].kind = "login" /\ act'[t].sid = act[t].sid /\ act'[t].ans = n
      /\ act' \in [Tab -> Acts] /\ Only(t)
  BY <1>1, <1>2, <1>3 DEF Only, Base, Typed, Acts
<1>5. [st |-> "live", pw |-> act[t].pw] \in Rows
  BY <1>2 DEF Rows, RowStates
<1>6. /\ sess' \in [Row -> Rows]
      /\ sess'[n] = [st |-> "live", pw |-> act[t].pw]
      /\ \A x \in Row \ {n} : sess'[x] = sess[x]
  BY <1>1, <1>3, <1>5 DEF Base, Typed
<1>7. Typed'
  BY <1>3, <1>4, <1>6 DEF Base, Typed
<1>8. CallsOf(t)'
  BY <1>1, <1>2, <1>3, <1>4, RowFacts DEF CallsOf
<1>9. Base'
  BY <1>1, <1>2, <1>3, <1>4, <1>7, <1>8, BaseKept, RowFacts
<1> QED
  BY <1>1, <1>2, <1>3, <1>4, <1>6, <1>9 DEF n


LEMMA CheckStep ==
    ASSUME Base, NEW t \in Tab, checkCredentials(t)
    PROVE  /\ Base' /\ Only(t)
           /\ UNCHANGED <<sess, password, cookie, ref, overtook, excused, blamed, alarm, signedOut, raced>>
           /\ act[t].pc = "sent" /\ act[t].kind # "logout" /\ act'[t].pc \in {"read", "answered"}
           /\ act'[t].kind = act[t].kind /\ act'[t].sid = act[t].sid /\ act'[t].ans = 0
<1>1. PICK pc \in {"read", "answered"} : act' = [act EXCEPT ![t].pc = pc]
  BY DEF checkCredentials, accept, reject
<1>2. /\ UNCHANGED <<sess, password, cookie, jar, ref, overtook, excused, blamed, alarm, signedOut, raced>>
      /\ act[t].pc = "sent" /\ act[t].kind # "logout"
  BY DEF checkCredentials, accept, reject, rows, ghosts
<1>3. act[t] \in Acts /\ act[t].ans = 0 /\ ref[t].pc = "idle" /\ ref[t].sid = 0 /\ ref[t].ans = 0
  BY <1>2, Entries DEF Base, Calls, CallsOf
<1>4. /\ act'[t].pc = pc /\ act'[t].kind = act[t].kind /\ act'[t].sid = act[t].sid /\ act'[t].ans = 0
      /\ act' \in [Tab -> Acts] /\ Only(t)
  BY <1>1, <1>2, <1>3 DEF Only, Base, Typed, Acts
<1>5. Typed'
  BY <1>2, <1>4 DEF Base, Typed
<1>6. CallsOf(t)'
  BY <1>2, <1>3, <1>4, RowFacts DEF CallsOf
<1>7. Base'
  BY <1>2, <1>3, <1>4, <1>5, <1>6, BaseKept, RowFacts
<1> QED
  BY <1>2, <1>4, <1>7

LEMMA LogoutStep ==
    ASSUME Base, NEW t \in Tab, logout(t)
    PROVE  /\ Base' /\ Only(t)
           /\ UNCHANGED <<password, cookie, ref, overtook, blamed, alarm, signedOut, raced>>
           /\ sess' = Revoke({act[t].sid}) /\ excused' = excused \cup Holding({act[t].sid})
           /\ act[t].pc = "sent" /\ act[t].kind = "logout" /\ act'[t].pc = "answered"
           /\ act'[t].kind = "logout" /\ act'[t].sid = act[t].sid /\ act'[t].ans = 0
<1>1. /\ UNCHANGED <<password, cookie, jar, ref, overtook, blamed, alarm, signedOut, raced>>
      /\ sess' = Revoke({act[t].sid}) /\ excused' = excused \cup Holding({act[t].sid})
      /\ act[t].pc = "sent" /\ act[t].kind = "logout"
      /\ act' = [act EXCEPT ![t].pc = "answered"]
  BY DEF logout
<1>2. act[t] \in Acts /\ act[t].ans = 0 /\ ref[t].pc = "idle" /\ ref[t].sid = 0 /\ ref[t].ans = 0
  BY <1>1, Entries DEF Base, Calls, CallsOf
<1>3. /\ act'[t].pc = "answered" /\ act'[t].kind = "logout" /\ act'[t].sid = act[t].sid /\ act'[t].ans = 0
      /\ act' \in [Tab -> Acts] /\ Only(t)
  BY <1>1, <1>2 DEF Only, Base, Typed, Acts
<1>4. sess' \in [Row -> Rows]
  BY <1>1, Revoked DEF Base
<1>5. Typed'
  BY <1>1, <1>3, <1>4 DEF Base, Typed
<1>6. CallsOf(t)'
  BY <1>1, <1>2, <1>3, RowFacts DEF CallsOf
<1>7. Base'
  BY <1>1, <1>2, <1>3, <1>5, <1>6, BaseKept, RowFacts
<1> QED
  BY <1>1, <1>3, <1>7

\* A change of password leaves at most the row of the request that makes it.
LEMMA PasswordStep ==
    ASSUME Base, NEW t \in Tab, setPassword(t)
    PROVE  /\ Base' /\ Only(t)
           /\ UNCHANGED <<cookie, ref, overtook, alarm, signedOut, raced>>
           /\ password' = password + 1 /\ blamed'
           /\ excused' = excused \cup (IF Undisturbed(t) THEN Holding(Row \ {act[t].sid}) \ {jar[t]} ELSE Holding(Row))
           /\ act[t].pc = "read" /\ act'[t].pc = "answered" /\ act'[t].sid = act[t].sid /\ act'[t].ans = -1
           /\ act'[t].kind = act[t].kind /\ act[t].kind \in {"change", "reset"}
           /\ \A s \in Row : Live(s)' <=> Live(s) /\ act[t].kind = "change" /\ s = act[t].sid
           /\ \A s \in Row : Live(s)' => sess'[s].pw = password'
<1>1. /\ UNCHANGED <<cookie, jar, ref, overtook, alarm, signedOut, raced>>
      /\ password' = password + 1 /\ blamed'
      /\ excused' = excused \cup (IF Undisturbed(t) THEN Holding(Row \ {act[t].sid}) \ {jar[t]} ELSE Holding(Row))
      /\ act[t].pc = "read" /\ act[t].kind \in {"change", "reset"}
      /\ act' = [act EXCEPT ![t].pc = "answered", ![t].ans = -1]
  BY DEF setPassword
<1>2. act[t] \in Acts /\ ref[t].pc = "idle" /\ ref[t].sid = 0 /\ ref[t].ans = 0
  BY <1>1, Entries DEF Base, Calls, CallsOf
<1>3. /\ act'[t].pc = "answered" /\ act'[t].kind = act[t].kind /\ act'[t].sid = act[t].sid /\ act'[t].ans = -1
      /\ act' \in [Tab -> Acts] /\ Only(t)
  BY <1>1, <1>2 DEF Only, Base, Typed, Acts
<1>4. sess' = [s \in Row |-> IF s \in ended(t) THEN Revoke(Row)[s]
                 ELSE [sess[s] EXCEPT !.pw = IF Live(s) /\ s \in keptBy(t) THEN password + 1 ELSE @]]
  BY DEF setPassword
<1>5. ASSUME NEW s \in Row
      PROVE  /\ sess'[s] \in Rows
             /\ Live(s)' <=> Live(s) /\ act[t].kind = "change" /\ s = act[t].sid
             /\ Live(s)' => sess'[s].pw = password + 1
  <2>1. sess[s] \in Rows /\ sess[s].pw \in Nat /\ password + 1 \in Nat
    BY RowEntries DEF Base, Typed
  <2>2. s \in keptBy(t) <=> act[t].kind = "change" /\ s = act[t].sid
    BY DEF keptBy
  <2>3. s \in ended(t) <=> s \notin keptBy(t)
    BY DEF ended
  <2>4. (Live(s) <=> sess[s].st = "live") /\ (Live(s)' <=> sess'[s].st = "live")
    BY RowFacts DEF Live
  <2>5. CASE s \in ended(t)
    <3>1. sess'[s] = Revoke(Row)[s]
      BY <1>4, <2>5
    <3>2. Revoke(Row)[s] \in Rows /\ Revoke(Row)[s].st # "live"
      BY <2>1, Revoked DEF Base
    <3> QED
      BY <2>2, <2>3, <2>4, <2>5, <3>1, <3>2
  <2>6. CASE s \notin ended(t)
    <3>1. sess'[s] = [sess[s] EXCEPT !.pw = IF Live(s) /\ s \in keptBy(t) THEN password + 1 ELSE @]
      BY <1>4, <2>6
    <3>2. sess'[s] \in Rows /\ sess'[s].st = sess[s].st /\ (Live(s) /\ s \in keptBy(t) => sess'[s].pw = password + 1)
      BY <2>1, <3>1 DEF Rows
    <3> QED
      BY <2>2, <2>3, <2>4, <2>6, <3>2
  <2> QED
    BY <2>5, <2>6
<1>6. sess' \in [Row -> Rows]
  BY <1>4, <1>5
<1>7. Typed'
  BY <1>1, <1>3, <1>6 DEF Base, Typed
<1>8. CallsOf(t)'
  BY <1>1, <1>2, <1>3, RowFacts DEF CallsOf
<1>9. Base'
  BY <1>1, <1>2, <1>3, <1>7, <1>8, BaseKept, RowFacts
<1> QED
  BY <1>1, <1>3, <1>5, <1>9

\* A refresh that got no answer, or not the one it wanted.
LEMMA FailedRefresh ==
    ASSUME Base, NEW t \in Tab, NEW final, refreshFailed(t, final)
    PROVE  /\ ref' \in [Tab -> Refreshes] /\ \A u \in Tab \ {t} : ref'[u] = ref[u]
           /\ ref'[t].pc \in {"wait", "idle"} /\ ref'[t].sid = 0 /\ ref'[t].ans = 0
<1>1. ref[t] \in Refreshes /\ ref \in [Tab -> Refreshes]
  BY Entries DEF Base, Typed
<1>2. CASE ref' = [ref EXCEPT ![t].pc = "wait", ![t].sid = 0, ![t].ans = 0]
  BY <1>1, <1>2 DEF Refreshes
<1>3. CASE ref' = [ref EXCEPT ![t] = NoRefresh]
  BY <1>1, <1>3, EmptyCalls
<1> QED
  BY <1>2, <1>3 DEF refreshFailed

LEMMA RefreshAnsweredStep ==
    ASSUME Base, NEW t \in Tab, refreshAnswered(t)
    PROVE  /\ Base' /\ Only(t) /\ Forget
           /\ UNCHANGED <<password, act, overtook, excused, blamed, alarm, raced>>
           /\ ref[t].pc = "answered" /\ ref'[t].pc \in {"wait", "idle"} /\ ref'[t].sid = 0 /\ ref'[t].ans = 0
           /\ \/ ref[t].ans \in Row /\ cookie'[jar[t]] = ref[t].ans /\ signedOut' = signedOut \ {jar[t]}
              \/ ref[t].ans = 0 /\ cookie' = cookie /\ signedOut' = signedOut
<1>1. /\ UNCHANGED <<password, jar, act, overtook, excused, blamed, alarm, raced>>
      /\ ref[t].pc = "answered" /\ Forget
      /\ \/ /\ ref[t].ans # 0 /\ cookie' = [cookie EXCEPT ![jar[t]] = ref[t].ans]
            /\ ref' = [ref EXCEPT ![t] = NoRefresh] /\ signedOut' = signedOut \ {jar[t]}
         \/ ref[t].ans = 0 /\ refreshFailed(t, TRUE) /\ cookie' = cookie /\ signedOut' = signedOut
  BY DEF refreshAnswered
<1>2. ref[t].ans \in Row \cup {0} /\ jar[t] \in Device /\ act[t].sid = 0 /\ act[t].ans = 0 /\ act[t].pc = "idle"
  BY <1>1, Entries DEF Base, Calls, CallsOf
<1>3. /\ ref' \in [Tab -> Refreshes] /\ \A u \in Tab \ {t} : ref'[u] = ref[u]
      /\ ref'[t].pc \in {"wait", "idle"} /\ ref'[t].sid = 0 /\ ref'[t].ans = 0
  <2>1. CASE ref' = [ref EXCEPT ![t] = NoRefresh]
    BY <2>1, EmptyCalls DEF Base, Typed
  <2> QED
    BY <1>1, <2>1, FailedRefresh
<1>4. /\ cookie' \in [Device -> Row \cup {0}] /\ \A d \in Device \ {jar[t]} : cookie'[d] = cookie[d]
      /\ \/ ref[t].ans \in Row /\ cookie'[jar[t]] = ref[t].ans /\ signedOut' = signedOut \ {jar[t]}
         \/ ref[t].ans = 0 /\ cookie' = cookie /\ signedOut' = signedOut
  BY <1>1, <1>2 DEF Base, Typed
<1>5. Only(t)
  BY <1>1, <1>3, <1>4 DEF Only
<1>6. sess' \in [Row -> Rows]
  BY <1>1, Forgotten DEF Base
<1>7. Typed'
  BY <1>1, <1>3, <1>4, <1>6 DEF Base, Typed
<1>8. CallsOf(t)'
  BY <1>1, <1>2, <1>3, RowFacts DEF CallsOf
<1>9. Base'
  BY <1>1, <1>2, <1>3, <1>4, <1>5, <1>7, <1>8, BaseKept, RowFacts
<1> QED
  BY <1>1, <1>3, <1>4, <1>5, <1>9

LEMMA RefreshLostStep ==
    ASSUME Base, NEW t \in Tab, refreshLost(t)
    PROVE  /\ Base' /\ Only(t) /\ Forget
           /\ UNCHANGED <<password, cookie, act, overtook, alarm, signedOut, raced>>
           /\ blamed' /\ excused' = excused \cup {jar[t]}
           /\ ref'[t].pc \in {"wait", "idle"} /\ ref'[t].sid = 0 /\ ref'[t].ans = 0
<1>1. /\ UNCHANGED <<password, jar, cookie, act, overtook, alarm, signedOut, raced>>
      /\ blamed' /\ excused' = excused \cup {jar[t]} /\ Forget /\ ref[t].pc # "idle"
  BY DEF refreshLost
<1>2. /\ ref' \in [Tab -> Refreshes] /\ \A u \in Tab \ {t} : ref'[u] = ref[u]
      /\ ref'[t].pc \in {"wait", "idle"} /\ ref'[t].sid = 0 /\ ref'[t].ans = 0
  BY FailedRefresh DEF refreshLost
<1>3. act[t].sid = 0 /\ act[t].ans = 0 /\ act[t].pc = "idle"
  BY <1>1 DEF Base, Calls, CallsOf
<1>4. sess' \in [Row -> Rows]
  BY <1>1, Forgotten DEF Base
<1>5. Typed'
  BY <1>1, <1>2, <1>4 DEF Base, Typed
<1>6. CallsOf(t)' /\ Only(t)
  BY <1>1, <1>2, <1>3, RowFacts DEF CallsOf, Only
<1>7. Base'
  BY <1>1, <1>2, <1>3, <1>5, <1>6, BaseKept, RowFacts
<1> QED
  BY <1>1, <1>2, <1>6, <1>7

LEMMA ActAnsweredStep ==
    ASSUME Base, NEW t \in Tab, actAnswered(t)
    PROVE  /\ Base' /\ Only(t) /\ Forget
           /\ UNCHANGED <<password, ref, overtook, blamed, alarm, raced>>
           /\ act[t].pc = "answered" /\ act'[t].pc = "idle" /\ act'[t].kind = "login"
           /\ act'[t].sid = 0 /\ act'[t].ans = 0
           /\ \/ /\ act[t].kind = "logout" /\ cookie'[jar[t]] = 0
                 /\ signedOut' = signedOut \cup {jar[t]} /\ excused' = excused
              \/ /\ act[t].kind = "login" /\ act[t].ans \in Row /\ cookie'[jar[t]] = act[t].ans
                 /\ signedOut' = signedOut \ {jar[t]}
                 /\ excused' = IF (\A u \in TabsOf(jar[t]) \ {t} : ~InFlight(u)) /\ Live(act[t].ans)
                               THEN excused \ {jar[t]} ELSE excused \cup {jar[t]}
              \/ /\ act[t].kind # "logout" /\ act[t].ans \notin Row
                 /\ cookie' = cookie /\ signedOut' = signedOut /\ excused' = excused
<1>1. /\ UNCHANGED <<password, jar, ref, overtook, blamed, alarm, raced>>
      /\ act[t].pc = "answered" /\ Forget /\ act' = [act EXCEPT ![t] = NoAct]
      /\ \/ /\ act[t].kind = "logout" /\ cookie' = [cookie EXCEPT ![jar[t]] = 0]
            /\ signedOut' = signedOut \cup {jar[t]} /\ excused' = excused
         \/ /\ act[t].kind = "login" /\ act[t].ans # 0 /\ cookie' = [cookie EXCEPT ![jar[t]] = act[t].ans]
            /\ signedOut' = signedOut \ {jar[t]}
            /\ excused' = IF (\A u \in TabsOf(jar[t]) \ {t} : ~InFlight(u)) /\ Live(act[t].ans)
                          THEN excused \ {jar[t]} ELSE excused \cup {jar[t]}
         \/ /\ act[t].kind # "logout" /\ (act[t].kind = "login" => act[t].ans = 0)
            /\ cookie' = cookie /\ signedOut' = signedOut /\ excused' = excused
  BY DEF actAnswered, clearCookie
<1>2. /\ act[t].ans \in Row \cup {0, -1} /\ jar[t] \in Device
      /\ ref[t].sid = 0 /\ ref[t].ans = 0 /\ ref[t].pc = "idle"
      /\ act[t].kind # "login" => act[t].ans \notin Row
      /\ act[t].kind = "login" => act[t].ans # -1
  BY <1>1, Entries DEF Base, Calls, CallsOf
<1>3. /\ act' \in [Tab -> Acts] /\ \A u \in Tab \ {t} : act'[u] = act[u]
      /\ act'[t].pc = "idle" /\ act'[t].kind = "login" /\ act'[t].sid = 0 /\ act'[t].ans = 0
  BY <1>1, EmptyCalls DEF Base, Typed
<1>4. /\ cookie' \in [Device -> Row \cup {0}] /\ \A d \in Device \ {jar[t]} : cookie'[d] = cookie[d]
      /\ cookie'[jar[t]] = cookie[jar[t]] \/ cookie'[jar[t]] \in {0, act[t].ans}
  BY <1>1, <1>2, RowFacts DEF Base, Typed
<1>5. /\ act[t].kind = "logout" => cookie'[jar[t]] = 0
      /\ act[t].kind = "login" /\ act[t].ans \in Row => cookie'[jar[t]] = act[t].ans
  BY <1>1, <1>2, RowFacts DEF Base, Typed
<1>6. Only(t)
  BY <1>1, <1>3, <1>4 DEF Only
<1>7. sess' \in [Row -> Rows]
  BY <1>1, Forgotten DEF Base
<1>8. Typed'
  BY <1>1, <1>3, <1>4, <1>7 DEF Base, Typed
<1>9. CallsOf(t)'
  BY <1>1, <1>2, <1>3, RowFacts DEF CallsOf
<1>10. Base'
  BY <1>1, <1>2, <1>3, <1>4, <1>6, <1>8, <1>9, BaseKept, RowFacts
<1> QED
  BY <1>1, <1>2, <1>3, <1>5, <1>6, <1>10, RowFacts

LEMMA ActLostStep ==
    ASSUME Base, NEW t \in Tab, actLost(t)
    PROVE  /\ Base' /\ Only(t) /\ Forget
           /\ UNCHANGED <<password, cookie, ref, overtook, alarm, signedOut, raced>>
           /\ blamed' /\ excused' = excused \cup {jar[t]}
           /\ act'[t].pc \in {"stuck", "idle"} /\ act'[t].sid = 0 /\ act'[t].ans = 0
<1>1. /\ UNCHANGED <<password, jar, cookie, ref, overtook, alarm, signedOut, raced>>
      /\ blamed' /\ excused' = excused \cup {jar[t]} /\ Forget /\ act[t].pc \in {"sent", "answered"}
      /\ act' = [act EXCEPT ![t] = IF act[t].kind \in {"change", "reset"} THEN [NoAct EXCEPT !.pc = "stuck"] ELSE NoAct]
  BY DEF actLost
<1>2. ref[t].sid = 0 /\ ref[t].ans = 0 /\ ref[t].pc = "idle"
  BY <1>1 DEF Base, Calls, CallsOf
<1>3. \A a \in {NoAct, [NoAct EXCEPT !.pc = "stuck"]} :
         a \in Acts /\ a.pc \in {"stuck", "idle"} /\ a.sid = 0 /\ a.ans = 0 /\ a.kind = "login"
  BY DEF NoAct, Acts
<1>4. /\ act' \in [Tab -> Acts] /\ \A u \in Tab \ {t} : act'[u] = act[u]
      /\ act'[t].pc \in {"stuck", "idle"} /\ act'[t].sid = 0 /\ act'[t].ans = 0 /\ act'[t].kind = "login"
  <2>1. PICK a \in {NoAct, [NoAct EXCEPT !.pc = "stuck"]} : act' = [act EXCEPT ![t] = a]
    BY <1>1
  <2> QED
    BY <1>3, <2>1 DEF Base, Typed
<1>5. sess' \in [Row -> Rows]
  BY <1>1, Forgotten DEF Base
<1>6. Typed'
  BY <1>1, <1>4, <1>5 DEF Base, Typed
<1>7. CallsOf(t)' /\ Only(t)
  BY <1>1, <1>2, <1>4, RowFacts DEF CallsOf, Only
<1>8. Base'
  BY <1>1, <1>2, <1>4, <1>6, <1>7, BaseKept, RowFacts
<1> QED
  BY <1>1, <1>4, <1>7, <1>8

\* Time moves the rows and nothing else.
LEMMA TimeStep ==
    ASSUME Base, forgotPassword \/ \E s \in Row : pastGrace(s) \/ pastWindow(s)
    PROVE  /\ Base' /\ UNCHANGED <<password, jar, cookie, ref, act, overtook, blamed, alarm, signedOut, raced>>
           /\ \/ sess' = sess /\ excused' = excused
              \/ \E s \in Row : /\ sess[s].st = "recent" /\ ~Carried(s) /\ sess'[s].st = "old"
                                /\ excused' = excused /\ \A x \in Row \ {s} : sess'[x] = sess[x]
              \/ \E s \in Row : /\ Live(s) /\ ~Carried(s) /\ sess'[s].st \in {"idle", "expired"}
                                /\ excused' = excused \cup Holding({s}) /\ \A x \in Row \ {s} : sess'[x] = sess[x]
<1>1. UNCHANGED <<password, jar, cookie, ref, act, overtook, blamed, alarm, signedOut, raced>>
  BY DEF forgotPassword, pastGrace, pastWindow, client, ghosts
<1>2. SUFFICES /\ sess' \in [Row -> Rows]
               /\ \/ sess' = sess /\ excused' = excused
                  \/ \E s \in Row : /\ sess[s].st = "recent" /\ ~Carried(s) /\ sess'[s].st = "old"
                                    /\ excused' = excused /\ \A x \in Row \ {s} : sess'[x] = sess[x]
                  \/ \E s \in Row : /\ Live(s) /\ ~Carried(s) /\ sess'[s].st \in {"idle", "expired"}
                                    /\ excused' = excused \cup Holding({s}) /\ \A x \in Row \ {s} : sess'[x] = sess[x]
  <2>1. ASSUME sess' \in [Row -> Rows]
        PROVE  Base'
    BY <1>1, <2>1 DEF Base, Typed, Calls, CallsOf, OneHolder, Held, Names, TabsOf, AnswersNew
  <2> QED
    BY <1>1, <2>1
<1>3. CASE forgotPassword
  BY <1>3 DEF forgotPassword, ghosts, Base, Typed
<1>4. ASSUME NEW s \in Row, pastGrace(s)
      PROVE  /\ sess' \in [Row -> Rows]
             /\ sess[s].st = "recent" /\ ~Carried(s) /\ sess'[s].st = "old"
             /\ excused' = excused /\ \A x \in Row \ {s} : sess'[x] = sess[x]
  BY <1>4, RowEntries DEF pastGrace, ghosts, Base, Typed, Rows, RowStates
<1>5. ASSUME NEW s \in Row, pastWindow(s)
      PROVE  /\ sess' \in [Row -> Rows]
             /\ Live(s) /\ ~Carried(s) /\ sess'[s].st \in {"idle", "expired"}
             /\ excused' = excused \cup Holding({s}) /\ \A x \in Row \ {s} : sess'[x] = sess[x]
  <2>1. PICK w \in {[st |-> "idle", pw |-> 0], [st |-> "expired", pw |-> 0], NoRow} : sess' = [sess EXCEPT ![s] = w]
    BY <1>5 DEF pastWindow
  <2>2. w \in Rows /\ w.st \in {"idle", "expired"}
    BY DEF Rows, RowStates, NoRow
  <2> QED
    BY <1>5, <2>1, <2>2 DEF pastWindow, Base, Typed
<1> QED
  BY <1>3, <1>4, <1>5

LEMMA Steps ==
    ASSUME [Next]_vars
    PROVE  \/ \E t \in Tab : Sends(t)
           \/ \E t \in Tab : \E kind \in {"login", "logout", "change", "reset"} : submit(t, kind)
           \/ \E t \in Tab : touchSession(t)
           \/ \E t \in Tab : rotate(t)
           \/ \E t \in Tab : checkCredentials(t)
           \/ \E t \in Tab : login(t)
           \/ \E t \in Tab : logout(t)
           \/ \E t \in Tab : setPassword(t)
           \/ \E t \in Tab : refreshAnswered(t)
           \/ \E t \in Tab : refreshLost(t)
           \/ \E t \in Tab : actAnswered(t)
           \/ \E t \in Tab : actLost(t)
           \/ forgotPassword \/ \E s \in Row : pastGrace(s) \/ pastWindow(s)
           \/ UNCHANGED vars
<1>1. ASSUME NEW t \in Tab, LoginForm(t) \/ Logout(t) \/ ChangePasswordForm(t) \/ ResetPasswordPage(t)
      PROVE  \E kind \in {"login", "logout", "change", "reset"} : submit(t, kind)
  BY <1>1 DEF LoginForm, Logout, ChangePasswordForm, ResetPasswordPage
<1>2. ASSUME NEW t \in Tab, heartbeat(t) \/ AuthProvider(t) \/ retryRefresh(t)
      PROVE  Sends(t)
  BY <1>2 DEF Sends
<1> QED
  BY <1>1, <1>2 DEF Next, Server, Network

LEMMA InitBase == Init => Base
<1> SUFFICES ASSUME Init PROVE Base
  OBVIOUS
<1>1. 0 .. Cardinality(Device) \subseteq Row \cup {0}
  BY SessionsAssumption, FS_CardinalityType DEF Row
<1>2. /\ cookie \in [Device -> Row \cup {0}]
      /\ \A d, e \in Device : cookie[d] = cookie[e] => d = e \/ cookie[d] = 0
  BY <1>1 DEF Init
<1>3. sess \in [Row -> Rows]
  <2>1. [st |-> "live", pw |-> 1] \in Rows
    BY DEF Rows, RowStates
  <2> QED
    BY <2>1, EmptyCalls DEF Init
<1>4. \A t \in Tab : ref[t] = NoRefresh /\ act[t] = NoAct
  BY DEF Init
<1>5. ref \in [Tab -> Refreshes] /\ act \in [Tab -> Acts]
  BY EmptyCalls DEF Init
<1>6. Typed
  BY <1>2, <1>3, <1>5 DEF Init, Typed
<1>7. Calls
  BY <1>4, EmptyCalls, RowFacts DEF Calls, CallsOf
<1>8. \A t \in Tab : \A r \in Row : r \notin Names(t)
  BY <1>4, EmptyCalls, RowFacts DEF Names
<1>9. OneHolder
  <2>1. \A r \in Row : \A d \in Device : Held(r, d) => cookie[d] = r
    BY <1>8 DEF Held, TabsOf
  <2> QED
    BY <1>2, <2>1, RowFacts DEF OneHolder
<1>10. AnswersNew
  BY <1>4, EmptyCalls, RowFacts DEF AnswersNew
<1> QED
  BY <1>6, <1>7, <1>9, <1>10 DEF Base

LEMMA NextBase == Base /\ [Next]_vars => Base'
<1> SUFFICES ASSUME Base, [Next]_vars PROVE Base'
  OBVIOUS
<1>1. CASE UNCHANGED vars
  BY <1>1 DEF vars, rows, client, Base, Typed, Calls, CallsOf, OneHolder, Held, Names, TabsOf, AnswersNew
<1> QED
  BY <1>1, Steps, SendsStep, SubmitsStep, TouchStep, RotateStep, CheckStep, LoginStep, LogoutStep,
     PasswordStep, RefreshAnsweredStep, RefreshLostStep, ActAnsweredStep, ActLostStep, TimeStep

\* Every row, cookie and request is of its type; a row is named by one device,
\* and the row of an answer on its way by that answer alone: createSession and
\* rotate hand a token to one request, whose device alone sends it back.
THEOREM RowsHaveOneHolder == Spec => []Base
<1>1. Init => Base
  BY InitBase
<1>2. Base /\ [Next]_vars => Base'
  BY NextBase
<1> QED
  BY <1>1, <1>2, PTL DEF Spec

-----------------------------------------------------------------------------
(* The password a session was proved with.                                 *)

\* A row that is live after it was revoked, forgotten or aged lived before.
LEMMA RevokedRow ==
    ASSUME Typed, NEW S, sess' = Revoke(S), NEW s \in Row
    PROVE  /\ Live(s)' <=> Live(s) /\ s \notin S
           /\ Live(s)' => sess'[s] = sess[s]
           /\ sess'[s].st = "old" <=> sess[s].st = "old"
           /\ sess'[s].st = "recent" <=> sess[s].st = "recent" \/ (s \in S /\ sess[s].st \in {"live", "idle"})
<1>1. sess'[s] = IF s \in S /\ sess[s].st \in {"live", "idle"} THEN [st |-> "recent", pw |-> 0] ELSE sess[s]
  BY Revoked
<1>2. Live(s)' <=> sess'[s].st = "live"
  BY RowFacts DEF Live
<1> QED
  BY <1>1, <1>2, LiveRow

LEMMA ForgottenRow ==
    ASSUME Typed, Forget, NEW s \in Row
    PROVE  /\ Live(s)' <=> Live(s)
           /\ sess'[s].st \in {"live", "old", "recent"} => sess'[s] = sess[s]
<1>1. Live(s)' <=> sess'[s].st = "live"
  BY RowFacts DEF Live
<1> QED
  BY <1>1, LiveRow, Forgotten, EmptyCalls

\* After a password change or reset no session that was proved with an older
\* password lives on, but for the row of a refresh or a login that had read the
\* account before the change and committed after it (setPassword's transaction
\* in changePassword and resetPassword).
THEOREM PasswordEndsSessions == Spec => []OnlyOvertakenSurvive
<1>1. Init => OnlyOvertakenSurvive
  <2> SUFFICES ASSUME Init, NEW s \in Row, Live(s) PROVE sess[s].pw = password
    BY DEF OnlyOvertakenSurvive
  <2> QED
    BY LiveRow, EmptyCalls DEF Init
<1>2. ASSUME Base, OnlyOvertakenSurvive, [Next]_vars
      PROVE  OnlyOvertakenSurvive'
  <2> SUFFICES ASSUME NEW s \in Row, Live(s)'
               PROVE  sess'[s].pw = password' \/ s \in overtook'
    BY DEF OnlyOvertakenSurvive
  <2> USE DEF OnlyOvertakenSurvive
  <2>0. (Live(s) <=> sess[s].st = "live") /\ sess'[s].st = "live" /\ Typed
    BY <1>2, LiveRow, RowFacts DEF Live, Base
  <2>1. CASE Live(s) /\ sess'[s] = sess[s] /\ password' = password /\ overtook' = overtook
    BY <1>2, <2>1
  <2>2. CASE UNCHANGED vars
    BY <2>0, <2>1, <2>2 DEF vars, rows, ghosts
  <2>3. CASE \E t \in Tab : Sends(t)
    BY <1>2, <2>0, <2>1, <2>3, SendsStep
  <2>4. CASE \E t \in Tab : \E kind \in {"login", "logout", "change", "reset"} : submit(t, kind)
    BY <1>2, <2>0, <2>1, <2>4, SubmitsStep
  <2>5. CASE \E t \in Tab : touchSession(t)
    BY <1>2, <2>0, <2>1, <2>5, TouchStep, RevokedRow
  <2>6. ASSUME NEW t \in Tab, rotate(t)
        PROVE  sess'[s].pw = password' \/ s \in overtook'
    <3>1. s # ref[t].sid
      BY <1>2, <2>0, <2>6, RotateStep
    <3>2. CASE s = NewRow
      BY <1>2, <2>6, <3>2, RotateStep
    <3>3. CASE s # NewRow
      BY <1>2, <2>0, <2>6, <3>1, <3>3, RotateStep
    <3> QED
      BY <3>2, <3>3
  <2>7. CASE \E t \in Tab : checkCredentials(t)
    BY <1>2, <2>0, <2>1, <2>7, CheckStep
  <2>8. ASSUME NEW t \in Tab, login(t)
        PROVE  sess'[s].pw = password' \/ s \in overtook'
    <3>1. CASE s = NewRow
      BY <1>2, <2>8, <3>1, LoginStep
    <3>2. CASE s # NewRow
      BY <1>2, <2>0, <2>8, <3>2, LoginStep
    <3> QED
      BY <3>1, <3>2
  <2>9. CASE \E t \in Tab : logout(t)
    BY <1>2, <2>0, <2>1, <2>9, LogoutStep, RevokedRow
  <2>10. CASE \E t \in Tab : setPassword(t)
    BY <1>2, <2>0, <2>10, PasswordStep
  <2>11. ASSUME NEW t \in Tab, refreshAnswered(t) \/ refreshLost(t) \/ actAnswered(t) \/ actLost(t)
         PROVE  sess'[s].pw = password' \/ s \in overtook'
    <3>1. Forget /\ password' = password /\ overtook' = overtook
      BY <1>2, <2>11, RefreshAnsweredStep, RefreshLostStep, ActAnsweredStep, ActLostStep
    <3> QED
      BY <2>0, <2>1, <3>1, ForgottenRow
  <2>12. CASE forgotPassword \/ \E x \in Row : pastGrace(x) \/ pastWindow(x)
    BY <1>2, <2>0, <2>1, <2>12, TimeStep
  <2> QED
    BY <1>2, <2>2, <2>3, <2>4, <2>5, <2>6, <2>7, <2>8, <2>9, <2>10, <2>11, <2>12, Steps
<1> QED
  BY <1>1, <1>2, InitBase, NextBase, PTL DEF Spec

-----------------------------------------------------------------------------
(* The alarm.                                                              *)

\* The answer that takes the revoked token out of the jar is on its way.
Replacing(t) == (ref[t].pc = "answered" /\ ref[t].ans # 0) \/ (act[t].pc = "answered" /\ act[t].kind = "logout")

OldIsGone ==
    \A s \in Row : sess[s].st = "old" =>
      (\A d \in Device : cookie[d] # s) /\ \A t \in Tab : s \notin Names(t)
RecentIsReplaced ==
    \A d \in Device : cookie[d] \in Row /\ sess[cookie[d]].st = "recent" => \E t \in TabsOf(d) : Replacing(t)
AnswersLive == \A t \in Tab : \A r \in Row : r \in {ref[t].ans, act[t].ans} => sess[r].st = "live"

\* As long as no answer is lost and no revoked token is kept, a token is out of
\* every jar and every request before its grace ends.
Calm == ~blamed => ~alarm /\ OldIsGone /\ RecentIsReplaced /\ AnswersLive

LEMMA OldKept ==
    ASSUME Typed, OldIsGone, NEW t \in Tab, Only(t),
           \A s \in Row : sess'[s].st = "old" =>
              /\ sess[s].st = "old"
              /\ cookie'[jar[t]] = s => s \in Names(t) \/ cookie[jar[t]] = s
              /\ s \in {ref'[t].sid, ref'[t].ans, act'[t].sid, act'[t].ans} => s \in Names(t) \/ cookie[jar[t]] = s
    PROVE  OldIsGone'
<1> SUFFICES ASSUME NEW s \in Row, sess'[s].st = "old"
             PROVE  /\ \A d \in Device : cookie'[d] # s
                    /\ \A u \in Tab : s \notin {ref'[u].sid, ref'[u].ans, act'[u].sid, act'[u].ans}
  BY DEF OldIsGone, Names
<1>1. (\A d \in Device : cookie[d] # s) /\ \A u \in Tab : s \notin Names(u)
  BY DEF OldIsGone
<1>2. jar[t] \in Device /\ cookie[jar[t]] # s /\ s \notin Names(t)
  BY <1>1, Entries
<1>3. \A d \in Device : cookie'[d] # s
  BY <1>1, <1>2 DEF Only
<1>4. \A u \in Tab \ {t} : s \notin {ref'[u].sid, ref'[u].ans, act'[u].sid, act'[u].ans}
  BY <1>1 DEF Only, Names
<1> QED
  BY <1>2, <1>3, <1>4

LEMMA RecentKept ==
    ASSUME Typed, RecentIsReplaced, NEW t \in Tab, Only(t),
           \A d \in Device : cookie'[d] \in Row /\ sess'[cookie'[d]].st = "recent" =>
              \/ d = jar[t] /\ Replacing(t)'
              \/ cookie'[d] = cookie[d] /\ sess[cookie[d]].st = "recent" /\ (d = jar[t] /\ Replacing(t) => Replacing(t)')
    PROVE  RecentIsReplaced'
<1> SUFFICES ASSUME NEW d \in Device, cookie'[d] \in Row, sess'[cookie'[d]].st = "recent"
             PROVE  \E u \in Tab : jar[u] = d /\ Replacing(u)'
  BY DEF RecentIsReplaced, TabsOf, Only
<1>1. CASE d = jar[t] /\ Replacing(t)'
  BY <1>1
<1>2. CASE cookie'[d] = cookie[d] /\ sess[cookie[d]].st = "recent" /\ (d = jar[t] /\ Replacing(t) => Replacing(t)')
  <2>1. PICK u \in Tab : jar[u] = d /\ Replacing(u)
    BY <1>2 DEF RecentIsReplaced, TabsOf
  <2>2. u # t => Replacing(u)'
    BY <2>1 DEF Only, Replacing
  <2> QED
    BY <1>2, <2>1, <2>2
<1> QED
  BY <1>1, <1>2

LEMMA LiveKept ==
    ASSUME AnswersLive, NEW t \in Tab, Only(t),
           \A u \in Tab : \A r \in Row : r \in {ref[u].ans, act[u].ans} /\ sess[r].st = "live" => sess'[r].st = "live",
           \A r \in Row : r \in {ref'[t].ans, act'[t].ans} => r \in {ref[t].ans, act[t].ans} \/ sess'[r].st = "live"
    PROVE  AnswersLive'
BY DEF AnswersLive, Only

LEMMA InitCalm == Init => Calm
<1> SUFFICES ASSUME Init PROVE ~alarm /\ OldIsGone /\ RecentIsReplaced /\ AnswersLive
  BY DEF Calm
<1>1. \A s \in Row : sess[s].st \notin {"old", "recent"}
  BY EmptyCalls DEF Init
<1>2. \A t \in Tab : ref[t].ans = 0 /\ act[t].ans = 0
  BY EmptyCalls DEF Init
<1> QED
  BY <1>1, <1>2, RowFacts DEF Init, OldIsGone, RecentIsReplaced, AnswersLive

\* A request that is sent or checked, and changes no row.
LEMMA CalmSends ==
    ASSUME Base, Calm, NEW t \in Tab, Only(t), UNCHANGED <<sess, cookie, blamed, alarm>>, ~blamed,
           ~Replacing(t) \/ Replacing(t)',
           \A r \in Row : r \in {ref'[t].ans, act'[t].ans} => r \in {ref[t].ans, act[t].ans},
           \A r \in Row : r \in {ref'[t].sid, act'[t].sid} => r \in Names(t) \/ cookie[jar[t]] = r
    PROVE  Calm'
<1>1. Typed /\ ~alarm /\ OldIsGone /\ RecentIsReplaced /\ AnswersLive
  BY DEF Calm, Base
<1>2. OldIsGone'
  BY <1>1, OldKept DEF Names
<1>3. RecentIsReplaced'
  BY <1>1, RecentKept
<1>4. AnswersLive'
  BY <1>1, LiveKept
<1> QED
  BY <1>1, <1>2, <1>3, <1>4 DEF Calm

LEMMA CalmRevokes ==
    ASSUME Base, Calm, NEW t \in Tab, rotate(t) \/ logout(t), ~blamed
    PROVE  Calm'
<1> DEFINE s == ref[t].sid
           n == NewRow
<1>1. Typed /\ ~alarm /\ OldIsGone /\ RecentIsReplaced /\ AnswersLive /\ OneHolder /\ AnswersNew /\ t \in TabsOf(jar[t])
  BY DEF Calm, Base, TabsOf
<1>2. CASE rotate(t)
  <2>1. /\ Only(t) /\ cookie' = cookie /\ act' = act /\ alarm' = alarm
        /\ n \in Row /\ n \notin Named
        /\ ref[t].pc = "read" /\ ref'[t].pc = "answered" /\ ref'[t].sid = s /\ ref'[t].ans = n
        /\ sess'[n].st = "live" /\ (s \in Row => sess'[s].st = "recent")
        /\ \A x \in Row \ {n, s} : sess'[x] = sess[x]
    BY <1>2, RotateStep
  <2> HIDE DEF n
  <2>2. Replacing(t)'
    BY <2>1, RowFacts DEF Replacing
  <2>3. \A d \in Device : cookie[d] \in Row /\ cookie[d] \in {s, n} => d = jar[t]
    <3>1. \A d \in Device : cookie[d] # n
      BY <2>1, NamedHas
    <3>2. ASSUME NEW d \in Device, cookie[d] \in Row, cookie[d] = s
          PROVE  d = jar[t]
      <4>1. Held(s, d) /\ Held(s, jar[t]) /\ jar[t] \in Device
        BY <1>1, <3>2, Entries DEF Held, Names
      <4> QED
        BY <1>1, <3>2, <4>1 DEF OneHolder
    <3> QED
      BY <3>1, <3>2
  <2>4. OldIsGone'
    <3>1. \A x \in Row : sess'[x].st = "old" => x \notin {s, n} /\ sess[x].st = "old"
      BY <2>1
    <3>2. \A x \in Row : sess'[x].st = "old" =>
              /\ cookie'[jar[t]] = x => x \in Names(t) \/ cookie[jar[t]] = x
              /\ x \in {ref'[t].sid, ref'[t].ans, act'[t].sid, act'[t].ans} => x \in Names(t)
      BY <2>1, <3>1 DEF Names
    <3> QED
      BY <1>1, <2>1, <3>1, <3>2, OldKept
  <2>5. RecentIsReplaced'
    BY <1>1, <2>1, <2>2, <2>3, RecentKept
  <2>6. AnswersLive'
    <3>1. \A u \in Tab : \A r \in Row : r \in {ref[u].ans, act[u].ans} => r # s
      BY <1>1 DEF AnswersNew
    <3> QED
      BY <1>1, <2>1, <3>1, LiveKept
  <2> QED
    BY <1>1, <2>1, <2>4, <2>5, <2>6 DEF Calm
<1>3. CASE logout(t)
  <2>1. /\ Only(t) /\ cookie' = cookie /\ ref' = ref /\ alarm' = alarm
        /\ sess' = Revoke({act[t].sid}) /\ act[t].pc = "sent" /\ act'[t].pc = "answered"
        /\ act'[t].kind = "logout" /\ act'[t].sid = act[t].sid /\ act'[t].ans = 0
    BY <1>3, LogoutStep
  <2>2. Replacing(t)'
    BY <2>1 DEF Replacing
  <2>3. \A d \in Device : cookie[d] \in Row /\ cookie[d] = act[t].sid => d = jar[t]
    <3>1. \A d \in Device : cookie[d] = act[t].sid => Held(act[t].sid, d)
      BY DEF Held
    <3>2. Held(act[t].sid, jar[t]) /\ jar[t] \in Device
      BY <1>1, Entries DEF Held, Names
    <3> QED
      BY <1>1, <3>1, <3>2 DEF OneHolder
  <2>4. \A x \in Row : /\ Live(x)' <=> Live(x) /\ x # act[t].sid
                       /\ sess'[x].st = "old" <=> sess[x].st = "old"
                       /\ sess'[x].st = "recent" => sess[x].st = "recent" \/ x = act[t].sid
    BY <1>1, <2>1, RevokedRow
  <2>5. OldIsGone'
    BY <1>1, <2>1, <2>4, RowFacts, OldKept DEF Names
  <2>6. RecentIsReplaced'
    BY <1>1, <2>1, <2>2, <2>3, <2>4, RecentKept
  <2>7. \A u \in Tab : \A r \in Row : r \in {ref[u].ans, act[u].ans} => r # act[t].sid
    BY <1>1 DEF AnswersNew
  <2>8. \A x \in Row : sess[x].st = "live" /\ x # act[t].sid => sess'[x].st = "live"
    BY <2>4, RowFacts DEF Live
  <2>9. AnswersLive'
    BY <1>1, <2>1, <2>7, <2>8, RowFacts, LiveKept
  <2> QED
    BY <1>1, <2>1, <2>5, <2>6, <2>9 DEF Calm
<1> QED
  BY <1>2, <1>3

LEMMA CalmAnswers ==
    ASSUME Base, Calm, NEW t \in Tab, refreshAnswered(t) \/ actAnswered(t), ~blamed
    PROVE  Calm'
<1>1. Typed /\ ~alarm /\ OldIsGone /\ RecentIsReplaced /\ AnswersLive
  BY DEF Calm, Base
<1>2. /\ Only(t) /\ Forget /\ (alarm' <=> alarm)
      /\ ref'[t].sid \in {0, ref[t].sid} /\ ref'[t].ans = 0 /\ act'[t].sid \in {0, act[t].sid} /\ act'[t].ans = 0
      /\ \/ cookie'[jar[t]] = cookie[jar[t]] /\ ~Replacing(t)
         \/ cookie'[jar[t]] = 0
         \/ cookie'[jar[t]] \in Row /\ cookie'[jar[t]] \in {ref[t].ans, act[t].ans}
  <2>1. CASE refreshAnswered(t)
    <3>1. act[t].ans = 0 /\ act[t].pc = "idle" /\ act' = act
      BY <2>1, RefreshAnsweredStep DEF Base, Calls, CallsOf
    <3> QED
      BY <2>1, <3>1, RefreshAnsweredStep DEF Replacing
  <2>2. CASE actAnswered(t)
    <3>1. ref[t].ans = 0 /\ ref[t].pc = "idle" /\ ref' = ref
      BY <2>2, ActAnsweredStep DEF Base, Calls, CallsOf
    <3> QED
      BY <2>2, <3>1, ActAnsweredStep DEF Replacing
  <2> QED
    BY <2>1, <2>2
<1>3. \A x \in Row : /\ sess[x].st = "live" => sess'[x].st = "live"
                     /\ sess'[x].st \in {"live", "old", "recent"} => sess'[x] = sess[x]
  <2>1. ASSUME NEW x \in Row
        PROVE  (Live(x) <=> sess[x].st = "live") /\ (Live(x)' <=> sess'[x].st = "live")
    BY RowFacts DEF Live
  <2> QED
    BY <1>1, <1>2, <2>1, ForgottenRow
<1>4. OldIsGone'
  BY <1>1, <1>2, <1>3, RowFacts, OldKept DEF Names
<1>5. RecentIsReplaced'
  <2>1. \A r \in Row : r \in {ref[t].ans, act[t].ans} => sess'[r].st = "live"
    BY <1>1, <1>3 DEF AnswersLive
  <2>2. \A d \in Device : cookie'[d] \in Row /\ sess'[cookie'[d]].st = "recent" =>
           cookie'[d] = cookie[d] /\ sess[cookie[d]].st = "recent" /\ (d = jar[t] => ~Replacing(t))
    <3> SUFFICES ASSUME NEW d \in Device, NEW r \in Row, cookie'[d] = r, sess'[r].st = "recent"
                 PROVE  cookie[d] = r /\ sess[r].st = "recent" /\ (d = jar[t] => ~Replacing(t))
      OBVIOUS
    <3>1. sess[r].st = "recent" /\ r # 0 /\ r \notin {ref[t].ans, act[t].ans}
      BY <1>3, <2>1, RowFacts
    <3>2. d = jar[t] => cookie[d] = r /\ ~Replacing(t)
      BY <1>2, <3>1
    <3>3. d # jar[t] => cookie[d] = r
      BY <1>2 DEF Only
    <3> QED
      BY <3>1, <3>2, <3>3
  <2> QED
    BY <1>1, <1>2, <2>2, RecentKept
<1>6. AnswersLive'
  BY <1>1, <1>2, <1>3, RowFacts, LiveKept
<1> QED
  BY <1>1, <1>2, <1>4, <1>5, <1>6 DEF Calm

\* A token that a jar or a request still holds stays within its grace: the
\* answer that takes its place is not as old as that.
LEMMA CalmTime ==
    ASSUME Base, Calm, forgotPassword \/ \E s \in Row : pastGrace(s) \/ pastWindow(s), ~blamed
    PROVE  Calm'
<1>1. Typed /\ Calls /\ ~alarm /\ OldIsGone /\ RecentIsReplaced /\ AnswersLive
  BY DEF Calm, Base
<1>2. UNCHANGED <<jar, cookie, ref, act, alarm>>
  BY TimeStep
<1>3. \A t \in Tab : \A r \in Row : r \in Names(t) =>
         /\ ref[t].pc \in {"sent", "read", "answered"} \/ act[t].pc \in {"sent", "read", "answered"}
         /\ Carried(r)
  <2> SUFFICES ASSUME NEW t \in Tab, NEW r \in Row, r \in Names(t)
               PROVE  ref[t].pc \in {"sent", "read", "answered"} \/ act[t].pc \in {"sent", "read", "answered"}
    BY DEF Carried, Names, InFlight
  <2>1. ref[t] \in Refreshes /\ act[t] \in Acts /\ CallsOf(t)
    BY <1>1, Entries DEF Calls
  <2> QED
    BY <2>1, RowFacts DEF CallsOf, Names, Refreshes, Acts
<1>4. \A t \in Tab : Replacing(t) => Carried(cookie[jar[t]])
  BY DEF Replacing, Carried, InFlight
<1>5. CASE sess' = sess
  BY <1>1, <1>2, <1>5 DEF Calm, OldIsGone, RecentIsReplaced, AnswersLive, Names, TabsOf, Replacing
<1>6. ASSUME NEW s \in Row, sess[s].st = "recent", ~Carried(s), sess'[s].st = "old", \A x \in Row \ {s} : sess'[x] = sess[x]
      PROVE  Calm'
  <2>1. \A t \in Tab : s \notin Names(t)
    BY <1>3, <1>6
  <2>2. \A d \in Device : cookie[d] # s
    BY <1>1, <1>4, <1>6 DEF RecentIsReplaced, TabsOf
  <2>3. \A x \in Row : sess'[x].st = "old" => x = s \/ sess[x].st = "old"
    BY <1>6
  <2>4. OldIsGone'
    BY <1>1, <1>2, <2>1, <2>2, <2>3 DEF OldIsGone, Names
  <2>5. RecentIsReplaced'
    BY <1>1, <1>2, <1>6, <2>2 DEF RecentIsReplaced, TabsOf, Replacing
  <2>6. AnswersLive'
    BY <1>1, <1>2, <1>6, <2>1 DEF AnswersLive, Names
  <2> QED
    BY <1>1, <1>2, <2>4, <2>5, <2>6 DEF Calm
<1>7. ASSUME NEW s \in Row, ~Carried(s), sess'[s].st \in {"idle", "expired"}, \A x \in Row \ {s} : sess'[x] = sess[x]
      PROVE  Calm'
  <2>1. \A t \in Tab : s \notin Names(t)
    BY <1>3, <1>7
  <2>2. \A x \in Row : sess'[x].st \in {"old", "recent"} => sess'[x] = sess[x]
    BY <1>7
  <2>3. OldIsGone'
    BY <1>1, <1>2, <2>2 DEF OldIsGone, Names
  <2>4. RecentIsReplaced'
    BY <1>1, <1>2, <2>2 DEF RecentIsReplaced, TabsOf, Replacing
  <2>5. AnswersLive'
    BY <1>1, <1>2, <1>7, <2>1 DEF AnswersLive, Names
  <2> QED
    BY <1>1, <1>2, <2>3, <2>4, <2>5 DEF Calm
<1> QED
  BY <1>5, <1>6, <1>7, TimeStep

LEMMA NextCalm == Base /\ Calm /\ [Next]_vars => Calm'
<1> SUFFICES ASSUME Base, Calm, [Next]_vars PROVE Calm'
  OBVIOUS
<1>1. CASE blamed'
  BY <1>1 DEF Calm
<1>2. CASE UNCHANGED vars
  BY <1>2 DEF vars, rows, client, ghosts, Calm, OldIsGone, RecentIsReplaced, AnswersLive, Names, TabsOf, Replacing
<1>3. ASSUME NEW t \in Tab, Sends(t), ~blamed'
      PROVE  Calm'
  <2>1. /\ Only(t) /\ UNCHANGED <<sess, cookie, blamed, alarm>>
        /\ ref[t].pc \in {"idle", "wait"} /\ act[t].pc \in {"idle", "stuck"}
        /\ ref'[t].sid = cookie[jar[t]] /\ ref'[t].ans = 0 /\ act'[t].sid = 0 /\ act'[t].ans = 0
    BY <1>3, SendsStep
  <2>2. ~Replacing(t) /\ ~blamed
    BY <1>3, <2>1 DEF Replacing
  <2> QED
    BY <2>1, <2>2, RowFacts, CalmSends
<1>4. ASSUME NEW t \in Tab, NEW kind \in {"login", "logout", "change", "reset"}, submit(t, kind), ~blamed'
      PROVE  Calm'
  <2>1. /\ Only(t) /\ UNCHANGED <<sess, cookie, ref, blamed, alarm>> /\ ref[t].pc = "idle" /\ act[t].pc = "idle"
        /\ act'[t].sid = cookie[jar[t]] /\ act'[t].ans = 0
    BY <1>4, SubmitsStep
  <2>2. ~Replacing(t) /\ ~blamed
    BY <1>4, <2>1 DEF Replacing
  <2> QED
    BY <2>1, <2>2, RowFacts, CalmSends DEF Names
<1>5. ASSUME NEW t \in Tab, touchSession(t), ~blamed'
      PROVE  Calm'
  <2>1. /\ Only(t) /\ UNCHANGED <<cookie, act>> /\ ref[t].pc = "sent"
        /\ ref'[t].sid = ref[t].sid /\ ref'[t].ans = 0
        /\ ~blamed /\ ~blamed'
        /\ \/ sess' = sess /\ (alarm' <=> alarm)
           \/ ref[t].sid \in Row /\ sess[ref[t].sid].st = "old"
    BY <1>5, TouchStep
  <2>2. ~alarm /\ OldIsGone
    BY <2>1 DEF Calm
  <2>3. ~(ref[t].sid \in Row /\ sess[ref[t].sid].st = "old")
    BY <2>2 DEF OldIsGone, Names
  <2>4. ~Replacing(t)
    BY <2>1 DEF Replacing, Base, Calls, CallsOf
  <2>5. Typed /\ RecentIsReplaced /\ AnswersLive /\ sess' = sess /\ ~alarm'
    BY <2>1, <2>2, <2>3 DEF Calm, Base
  <2>6. OldIsGone'
    BY <2>1, <2>2, <2>5, RowFacts, OldKept DEF Names
  <2>7. RecentIsReplaced'
    BY <2>1, <2>4, <2>5, RecentKept
  <2>8. AnswersLive'
    BY <2>1, <2>5, RowFacts, LiveKept
  <2> QED
    BY <2>5, <2>6, <2>7, <2>8 DEF Calm
<1>6. ASSUME NEW t \in Tab, rotate(t) \/ logout(t), ~blamed'
      PROVE  Calm'
  <2>1. ~blamed
    BY <1>6, RotateStep, LogoutStep
  <2> QED
    BY <1>6, <2>1, CalmRevokes
<1>7. ASSUME NEW t \in Tab, checkCredentials(t), ~blamed'
      PROVE  Calm'
  <2>1. /\ Only(t) /\ UNCHANGED <<sess, cookie, ref, blamed, alarm>> /\ ref[t].pc = "idle" /\ act[t].pc = "sent"
        /\ act'[t].sid = act[t].sid /\ act'[t].ans = 0
    BY <1>7, CheckStep DEF Base, Calls, CallsOf
  <2>2. ~Replacing(t) /\ ~blamed
    BY <1>7, <2>1 DEF Replacing
  <2> QED
    BY <2>1, <2>2, RowFacts, CalmSends DEF Names
<1>8. ASSUME NEW t \in Tab, login(t), ~blamed'
      PROVE  Calm'
  <2>1. /\ Only(t) /\ UNCHANGED <<cookie, ref, blamed, alarm>>
        /\ NewRow \in Row /\ NewRow \notin Named /\ sess'[NewRow].st = "live"
        /\ act[t].pc = "read" /\ act[t].kind = "login" /\ ref[t].pc = "idle"
        /\ act'[t].sid = act[t].sid /\ act'[t].ans = NewRow
        /\ \A x \in Row \ {NewRow} : sess'[x] = sess[x]
    BY <1>8, LoginStep DEF Base, Calls, CallsOf
  <2> DEFINE n == NewRow
  <2>2. ~Replacing(t) /\ ~blamed
    BY <1>8, <2>1 DEF Replacing
  <2>3. Typed /\ ~alarm' /\ OldIsGone /\ RecentIsReplaced /\ AnswersLive
    BY <2>1, <2>2 DEF Calm, Base
  <2>4. \A d \in Device : cookie[d] # n
    BY <2>1, NamedHas
  <2> HIDE DEF n
  <2>5. OldIsGone'
    <3>1. \A x \in Row : sess'[x].st = "old" => x # n /\ sess[x].st = "old"
      BY <2>1 DEF n
    <3>2. \A x \in Row : sess'[x].st = "old" =>
              /\ cookie'[jar[t]] = x => x \in Names(t) \/ cookie[jar[t]] = x
              /\ x \in {ref'[t].sid, ref'[t].ans, act'[t].sid, act'[t].ans} => x \in Names(t)
      BY <2>1, <3>1 DEF Names, n
    <3> QED
      BY <2>1, <2>3, <3>1, <3>2, OldKept
  <2>6. RecentIsReplaced'
    <3>1. \A d \in Device : cookie'[d] \in Row /\ sess'[cookie'[d]].st = "recent" =>
             cookie'[d] = cookie[d] /\ sess[cookie[d]].st = "recent" /\ (d = jar[t] /\ Replacing(t) => Replacing(t)')
      BY <2>1, <2>2, <2>4 DEF n
    <3> QED
      BY <2>1, <2>3, <3>1, RecentKept
  <2>7. AnswersLive'
    BY <2>1, <2>3, RowFacts, LiveKept
  <2> QED
    BY <2>3, <2>5, <2>6, <2>7 DEF Calm
<1>9. ASSUME NEW t \in Tab, refreshAnswered(t) \/ actAnswered(t), ~blamed'
      PROVE  Calm'
  BY <1>9, RefreshAnsweredStep, ActAnsweredStep, CalmAnswers
<1>10. CASE forgotPassword \/ \E s \in Row : pastGrace(s) \/ pastWindow(s)
  BY <1>1, <1>10, TimeStep, CalmTime
<1> QED
  BY <1>1, <1>2, <1>3, <1>4, <1>5, <1>6, <1>7, <1>8, <1>9, <1>10, Steps, PasswordStep, RefreshLostStep, ActLostStep

\* Tabs that race to rotate one token are never taken for a theft: the branch
\* of touchSession that revokes every session of the account is reached only
\* after an answer was lost, or a revoked token kept by a change of password
\* or an inactive device.
THEOREM RacesAreNoTheft == Spec => []NoFalseAlarm
<1>1. Calm => NoFalseAlarm
  BY DEF Calm, NoFalseAlarm
<1> QED
  BY <1>1, InitBase, NextBase, InitCalm, NextCalm, PTL DEF Spec

-----------------------------------------------------------------------------
(* The logout.                                                             *)

\* The answer on its way, or the row it will bring, takes the place of a token
\* that is no good any more.
Replaces(t) == Replacing(t) \/ (act[t].kind = "login" /\ act[t].pc \in {"sent", "read", "answered"})

OutIsEmpty == signedOut \subseteq Device /\ \A d \in signedOut : cookie[d] = 0
OneByOne == \A d \in Device \ raced : \A t, u \in TabsOf(d) : InFlight(t) /\ InFlight(u) => t = u
TakesItsPlace ==
    \A d \in Device \ raced : \A t \in TabsOf(d) :
      /\ InFlight(t) => cookie[d] \in {ref[t].sid, act[t].sid}
      /\ Replaces(t) => ~Live(cookie[d])
NoOrphan ==
    \A s \in Row : Live(s) => \/ \E d \in Device : cookie[d] = s
                              \/ \E t \in Tab : s \in {ref[t].ans, act[t].ans}

\* While the requests of a device go one by one, each replaces the token it was
\* sent with, so that no live row is left without a holder.
Orderly == OutIsEmpty /\ OneByOne /\ (~blamed => TakesItsPlace) /\ (~blamed /\ raced = {} => NoOrphan)

LEMMA InFlightReplaces == ASSUME NEW t \in Tab, Replaces(t) PROVE InFlight(t)
BY DEF Replaces, Replacing, InFlight

LEMMA OneByOneKept ==
    ASSUME OneByOne, NEW t \in Tab, Only(t), raced' = raced, InFlight(t)' => InFlight(t)
    PROVE  OneByOne'
<1>1. \A u \in Tab : InFlight(u)' => InFlight(u)
  BY DEF Only, InFlight
<1> QED
  BY <1>1 DEF OneByOne, TabsOf, Only

LEMMA TakesItsPlaceKept ==
    ASSUME Typed, TakesItsPlace, NEW t \in Tab, Only(t), raced' = raced, cookie' = cookie,
           \A r \in Row : Live(r)' => Live(r) \/ r \notin Named,
           InFlight(t)' => InFlight(t),
           ref'[t].sid = ref[t].sid /\ act'[t].sid = act[t].sid,
           jar[t] \notin raced /\ Replaces(t)' => Replaces(t) \/ cookie[jar[t]] = 0 \/ sess'[cookie[jar[t]]].st # "live"
    PROVE  TakesItsPlace'
<1> SUFFICES ASSUME NEW d \in Device, d \notin raced, NEW u \in Tab, jar[u] = d
             PROVE  /\ InFlight(u)' => cookie[d] \in {ref'[u].sid, act'[u].sid}
                    /\ Replaces(u)' => ~Live(cookie[d])'
  BY DEF TakesItsPlace, TabsOf, Only
<1>1. /\ InFlight(u) => cookie[d] \in {ref[u].sid, act[u].sid}
      /\ Replaces(u) => ~Live(cookie[d])
  BY DEF TakesItsPlace, TabsOf
<1>2. ~Live(cookie[d]) => ~Live(cookie[d])'
  <2>1. ASSUME NEW r \in Row, cookie[d] = r, sess'[r].st = "live"
        PROVE  sess[r].st = "live"
    BY <2>1, NamedHas, RowFacts DEF Live
  <2>2. cookie[d] \in Row \cup {0} /\ cookie'[d] = cookie[d] /\ 0 \notin Row
    BY RowFacts DEF Typed
  <2>3. Live(cookie[d])' => cookie[d] # 0 /\ sess'[cookie[d]].st = "live"
    BY <2>2 DEF Live
  <2> QED
    BY <2>1, <2>2, <2>3 DEF Live
<1>3. CASE u = t
  <2>1. Replaces(t)' => Replaces(t) \/ cookie[d] = 0 \/ sess'[cookie[d]].st # "live"
    BY <1>3
  <2>2. Live(cookie[d])' => cookie[d] # 0 /\ sess'[cookie[d]].st = "live"
    BY DEF Live
  <2> QED
    BY <1>1, <1>2, <1>3, <2>1, <2>2
<1>4. CASE u # t
  BY <1>1, <1>2, <1>4 DEF Only, InFlight, Replaces, Replacing
<1> QED
  BY <1>3, <1>4

LEMMA InitOrderly == Init => Orderly
<1> SUFFICES ASSUME Init PROVE Orderly
  OBVIOUS
<1>1. \A t \in Tab : ref[t] = NoRefresh /\ act[t] = NoAct
  BY DEF Init
<1>2. \A t \in Tab : ~InFlight(t) /\ ~Replaces(t)
  BY <1>1, EmptyCalls DEF InFlight, Replaces, Replacing
<1>3. OutIsEmpty /\ OneByOne /\ TakesItsPlace
  BY <1>2 DEF Init, OutIsEmpty, OneByOne, TakesItsPlace, TabsOf
<1>4. NoOrphan
  BY LiveRow, EmptyCalls DEF Init, NoOrphan
<1> QED
  BY <1>3, <1>4 DEF Orderly

LEMMA NextOut == Base /\ OutIsEmpty /\ [Next]_vars => OutIsEmpty'
<1> SUFFICES ASSUME Base, OutIsEmpty, [Next]_vars PROVE OutIsEmpty'
  OBVIOUS
<1>1. CASE cookie' = cookie /\ signedOut' = signedOut
  BY <1>1 DEF OutIsEmpty
<1>2. ASSUME NEW t \in Tab, refreshAnswered(t) \/ actAnswered(t)
      PROVE  OutIsEmpty'
  <2>1. /\ \A d \in Device \ {jar[t]} : cookie'[d] = cookie[d]
        /\ \/ cookie' = cookie /\ signedOut' = signedOut
           \/ signedOut' = signedOut \ {jar[t]}
           \/ signedOut' = signedOut \cup {jar[t]} /\ cookie'[jar[t]] = 0
    BY <1>2, RefreshAnsweredStep, ActAnsweredStep DEF Only
  <2>2. jar[t] \in Device /\ signedOut \subseteq Device /\ \A d \in signedOut : cookie[d] = 0
    BY Entries DEF Base, OutIsEmpty
  <2>3. signedOut' \subseteq Device /\ \A d \in signedOut' : cookie'[d] = 0
    BY <2>1, <2>2
  <2> QED
    BY <2>3 DEF OutIsEmpty
<1>3. CASE UNCHANGED vars
  BY <1>1, <1>3 DEF vars, client, ghosts
<1> QED
  BY <1>1, <1>2, <1>3, Steps, SendsStep, SubmitsStep, TouchStep, RotateStep, CheckStep, LoginStep, LogoutStep,
     PasswordStep, RefreshLostStep, ActLostStep, TimeStep

\* A device whose requests overlap, and it alone, is marked as it sends them.
LEMMA RacesMark ==
    ASSUME NEW t \in Tab, NEW kind, raced' = Races(t, kind), NEW d \in Device, d \notin raced', Only(t)
    PROVE  /\ d \notin raced
           /\ d = jar[t] => /\ \A u \in TabsOf(d) : ~InFlight(u)
                            /\ kind = "login" => ~Live(cookie[d])
BY DEF Races

LEMMA NextOneByOne == Base /\ OneByOne /\ [Next]_vars => OneByOne'
<1> SUFFICES ASSUME Base, OneByOne, [Next]_vars PROVE OneByOne'
  OBVIOUS
<1>1. CASE UNCHANGED <<raced, jar, ref, act>>
  BY <1>1 DEF OneByOne, TabsOf, InFlight
<1>2. ASSUME NEW t \in Tab, NEW kind, Only(t), raced' = Races(t, kind)
      PROVE  OneByOne'
  <2> SUFFICES ASSUME NEW d \in Device, d \notin raced', NEW u \in TabsOf(d), NEW v \in TabsOf(d), InFlight(u)', InFlight(v)'
               PROVE  u = v
    BY <1>2 DEF OneByOne, TabsOf, Only
  <2>1. u \in Tab /\ v \in Tab /\ jar[u] = d /\ jar[v] = d
    BY DEF TabsOf
  <2>2. \A w \in Tab \ {t} : InFlight(w)' => InFlight(w)
    BY <1>2 DEF Only, InFlight
  <2>3. CASE d = jar[t]
    <3>1. \A w \in TabsOf(d) : ~InFlight(w)
      BY <1>2, <2>3, RacesMark
    <3> QED
      BY <2>1, <2>2, <3>1
  <2>4. CASE d # jar[t]
    <3>1. InFlight(u) /\ InFlight(v) /\ d \notin raced
      BY <1>2, <2>1, <2>2, <2>4, RacesMark
    <3> QED
      BY <3>1 DEF OneByOne
  <2> QED
    BY <2>3, <2>4
<1>3. ASSUME NEW t \in Tab, Only(t), raced' = raced, InFlight(t)' => InFlight(t)
      PROVE  OneByOne'
  BY <1>3, OneByOneKept
<1>4. ASSUME NEW t \in Tab, touchSession(t) \/ rotate(t) \/ refreshAnswered(t) \/ refreshLost(t)
      PROVE  OneByOne'
  <2>1. Only(t) /\ raced' = raced /\ ref[t].pc \in {"sent", "read", "answered"}
    BY <1>4, TouchStep, RotateStep, RefreshAnsweredStep, RefreshLostStep DEF refreshLost
  <2>2. InFlight(t)
    BY <2>1 DEF InFlight
  <2> QED
    BY <1>3, <2>1, <2>2
<1>5. ASSUME NEW t \in Tab, checkCredentials(t) \/ login(t) \/ logout(t) \/ setPassword(t) \/ actAnswered(t) \/ actLost(t)
      PROVE  OneByOne'
  <2>1. Only(t) /\ raced' = raced /\ act[t].pc \in {"sent", "read", "answered"}
    BY <1>5, CheckStep, LoginStep, LogoutStep, PasswordStep, ActAnsweredStep, ActLostStep DEF actLost
  <2>2. InFlight(t)
    BY <2>1 DEF InFlight
  <2> QED
    BY <1>3, <2>1, <2>2
<1>6. CASE UNCHANGED vars
  BY <1>1, <1>6 DEF vars, client, ghosts
<1>7. CASE forgotPassword \/ \E s \in Row : pastGrace(s) \/ pastWindow(s)
  BY <1>1, <1>7, TimeStep
<1> QED
  BY <1>2, <1>4, <1>5, <1>6, <1>7, Steps, SendsStep, SubmitsStep

LEMMA PlaceSends ==
    ASSUME TakesItsPlace, NEW t \in Tab, NEW kind, Only(t), raced' = Races(t, kind), UNCHANGED <<sess, cookie>>,
           cookie[jar[t]] \in {ref'[t].sid, act'[t].sid},
           Replaces(t)' => kind = "login"
    PROVE  TakesItsPlace'
<1> SUFFICES ASSUME NEW d \in Device, d \notin raced', NEW u \in Tab, jar[u] = d
             PROVE  /\ InFlight(u)' => cookie[d] \in {ref'[u].sid, act'[u].sid}
                    /\ Replaces(u)' => ~Live(cookie[d])
  BY DEF TakesItsPlace, TabsOf, Only, Live
<1>1. d \notin raced /\ (d = jar[t] => (\A v \in TabsOf(d) : ~InFlight(v)) /\ (kind = "login" => ~Live(cookie[d])))
  BY RacesMark
<1>2. u # t => (InFlight(u)' <=> InFlight(u)) /\ (Replaces(u)' <=> Replaces(u)) /\ ref'[u] = ref[u] /\ act'[u] = act[u]
  BY DEF Only, InFlight, Replaces, Replacing
<1>3. CASE u = t
  BY <1>1, <1>3
<1>4. CASE u # t
  BY <1>1, <1>2, <1>4 DEF TakesItsPlace, TabsOf
<1> QED
  BY <1>3, <1>4

LEMMA PlaceAnswers ==
    ASSUME Base, OneByOne, TakesItsPlace, NEW t \in Tab, refreshAnswered(t) \/ actAnswered(t)
    PROVE  TakesItsPlace'
<1>1. /\ Only(t) /\ Forget /\ raced' = raced
      /\ ref[t].pc = "answered" \/ act[t].pc = "answered"
      /\ ref'[t].pc \in {"wait", "idle"} /\ act'[t].pc = "idle"
  <2>1. CASE refreshAnswered(t)
    BY <2>1, RefreshAnsweredStep DEF Base, Calls, CallsOf
  <2>2. CASE actAnswered(t)
    BY <2>2, ActAnsweredStep DEF Base, Calls, CallsOf
  <2> QED
    BY <2>1, <2>2
<1> SUFFICES ASSUME NEW d \in Device, d \notin raced, NEW u \in Tab, jar[u] = d, InFlight(u)'
             PROVE  cookie'[d] \in {ref'[u].sid, act'[u].sid} /\ (Replaces(u)' => ~Live(cookie[d])')
  <2>1. \A u \in Tab : Replaces(u)' => InFlight(u)'
    BY DEF Replaces, Replacing, InFlight
  <2> QED
    BY <1>1, <2>1 DEF TakesItsPlace, TabsOf, Only
<1>2. InFlight(t) /\ ~InFlight(t)'
  BY <1>1 DEF InFlight
<1>3. u # t
  BY <1>2
<1>4. InFlight(u) /\ (Replaces(u)' => Replaces(u)) /\ ref'[u] = ref[u] /\ act'[u] = act[u]
  BY <1>1, <1>3 DEF Only, InFlight, Replaces, Replacing
<1>5. d # jar[t]
  BY <1>2, <1>3, <1>4 DEF OneByOne, TabsOf
<1>6. cookie[d] \in {ref[u].sid, act[u].sid} /\ (Replaces(u) => ~Live(cookie[d])) /\ cookie'[d] = cookie[d]
  BY <1>1, <1>4, <1>5 DEF TakesItsPlace, TabsOf, Only
<1>7. cookie[d] \in Row \cup {0} /\ Typed
  BY DEF Base, Typed
<1>8. \A r \in Row : Live(r)' => Live(r)
  BY <1>1, <1>7, ForgottenRow
<1>9. ~Live(cookie[d]) => ~Live(cookie[d])'
  <2>1. \A r \in Row : sess'[r].st = "live" => Live(r)
    BY <1>8, RowFacts DEF Live
  <2>2. Live(cookie[d])' => cookie[d] # 0 /\ sess'[cookie[d]].st = "live"
    BY <1>6 DEF Live
  <2> QED
    BY <1>7, <2>1, <2>2
<1> QED
  BY <1>4, <1>6, <1>9

LEMMA NextPlace == Base /\ OneByOne /\ TakesItsPlace /\ [Next]_vars /\ ~blamed' => TakesItsPlace'
<1> SUFFICES ASSUME Base, OneByOne, TakesItsPlace, [Next]_vars, ~blamed' PROVE TakesItsPlace'
  OBVIOUS
<1>0. Typed
  BY DEF Base
<1>1. CASE UNCHANGED vars
  BY <1>1 DEF vars, rows, client, ghosts, TakesItsPlace, TabsOf, InFlight, Live, Replaces, Replacing
<1>2. ASSUME NEW t \in Tab, Sends(t)
      PROVE  TakesItsPlace'
  <2>1. /\ Only(t) /\ UNCHANGED <<sess, cookie>> /\ raced' = Races(t, "refresh")
        /\ ref'[t].pc = "sent" /\ ref'[t].sid = cookie[jar[t]] /\ act'[t].pc = "idle"
    BY <1>2, SendsStep
  <2>2. ~Replaces(t)'
    BY <2>1 DEF Replaces, Replacing
  <2> QED
    BY <2>1, <2>2, PlaceSends
<1>3. ASSUME NEW t \in Tab, NEW kind \in {"login", "logout", "change", "reset"}, submit(t, kind)
      PROVE  TakesItsPlace'
  <2>1. /\ Only(t) /\ UNCHANGED <<sess, cookie, ref>> /\ raced' = Races(t, kind) /\ ref[t].pc = "idle"
        /\ act'[t].pc = "sent" /\ act'[t].kind = kind /\ act'[t].sid = cookie[jar[t]]
    BY <1>3, SubmitsStep
  <2>2. Replaces(t)' => kind = "login"
    BY <2>1 DEF Replaces, Replacing
  <2> QED
    BY <2>1, <2>2, PlaceSends
<1>4. ASSUME NEW t \in Tab, touchSession(t)
      PROVE  TakesItsPlace'
  <2>1. /\ Only(t) /\ UNCHANGED <<cookie, act, raced>> /\ ref[t].pc = "sent" /\ act[t].pc = "idle"
        /\ ref'[t].sid = ref[t].sid /\ ref'[t].ans = 0
        /\ sess' = sess \/ sess' = Revoke(Row) \/ sess' = Revoke({ref[t].sid})
    BY <1>4, TouchStep DEF Base, Calls, CallsOf
  <2>2. InFlight(t) /\ ~Replaces(t)'
    BY <2>1 DEF Replaces, Replacing, InFlight
  <2>3. \A r \in Row : Live(r)' => Live(r)
    <3>1. CASE sess' = sess
      BY <3>1 DEF Live
    <3> QED
      BY <1>0, <2>1, <3>1, RevokedRow
  <2> QED
    BY <1>0, <2>1, <2>2, <2>3, TakesItsPlaceKept
<1>5. ASSUME NEW t \in Tab, rotate(t)
      PROVE  TakesItsPlace'
  <2>1. /\ Only(t) /\ UNCHANGED <<cookie, act, raced>> /\ NewRow \notin Named
        /\ ref[t].pc = "read" /\ act[t].sid = 0 /\ ref'[t].sid = ref[t].sid
        /\ ref[t].sid \in Row => sess'[ref[t].sid].st = "recent"
        /\ \A x \in Row \ {NewRow, ref[t].sid} : sess'[x] = sess[x]
    BY <1>5, RotateStep DEF Base, Calls, CallsOf
  <2>2. \A r \in Row : Live(r)' => Live(r) \/ r \notin Named
    <3>1. \A r \in Row : (Live(r)' <=> sess'[r].st = "live") /\ (Live(r) <=> sess[r].st = "live")
      BY RowFacts DEF Live
    <3> QED
      BY <2>1, <3>1
  <2>3. InFlight(t) /\ jar[t] \in Device /\ ref[t].sid \in Row \cup {0}
    BY <1>0, <2>1, Entries DEF InFlight
  <2>4. jar[t] \notin raced => cookie[jar[t]] = 0 \/ sess'[cookie[jar[t]]].st # "live"
    BY <2>1, <2>3 DEF TakesItsPlace, TabsOf
  <2> QED
    BY <1>0, <2>1, <2>2, <2>3, <2>4, TakesItsPlaceKept
<1>6. ASSUME NEW t \in Tab, checkCredentials(t)
      PROVE  TakesItsPlace'
  <2>1. /\ Only(t) /\ UNCHANGED <<sess, cookie, ref, raced>> /\ ref[t].pc = "idle"
        /\ act[t].pc = "sent" /\ act[t].kind # "logout"
        /\ act'[t].kind = act[t].kind /\ act'[t].sid = act[t].sid
    BY <1>6, CheckStep DEF Base, Calls, CallsOf
  <2>2. InFlight(t) /\ (Replaces(t)' => Replaces(t))
    BY <2>1 DEF Replaces, Replacing, InFlight
  <2>3. \A r \in Row : Live(r)' => Live(r)
    BY <2>1 DEF Live
  <2> QED
    BY <1>0, <2>1, <2>2, <2>3, TakesItsPlaceKept
<1>7. ASSUME NEW t \in Tab, login(t)
      PROVE  TakesItsPlace'
  <2>1. /\ Only(t) /\ UNCHANGED <<cookie, ref, raced>> /\ NewRow \notin Named
        /\ act[t].pc = "read" /\ act[t].kind = "login" /\ act'[t].sid = act[t].sid
        /\ \A x \in Row \ {NewRow} : sess'[x] = sess[x]
    BY <1>7, LoginStep
  <2>2. InFlight(t) /\ Replaces(t)
    BY <2>1 DEF Replaces, InFlight
  <2>3. \A r \in Row : Live(r)' => Live(r) \/ r \notin Named
    <3>1. \A r \in Row : (Live(r)' <=> sess'[r].st = "live") /\ (Live(r) <=> sess[r].st = "live")
      BY RowFacts DEF Live
    <3> QED
      BY <2>1, <3>1
  <2> QED
    BY <1>0, <2>1, <2>2, <2>3, TakesItsPlaceKept
<1>8. ASSUME NEW t \in Tab, logout(t)
      PROVE  TakesItsPlace'
  <2>1. /\ Only(t) /\ UNCHANGED <<cookie, ref, raced>> /\ ref[t].sid = 0
        /\ sess' = Revoke({act[t].sid}) /\ act[t].pc = "sent" /\ act'[t].sid = act[t].sid
    BY <1>8, LogoutStep DEF Base, Calls, CallsOf
  <2>2. \A r \in Row : Live(r)' => Live(r) /\ r # act[t].sid
    BY <1>0, <2>1, RevokedRow
  <2>3. InFlight(t) /\ jar[t] \in Device /\ cookie[jar[t]] \in Row \cup {0}
    BY <1>0, <2>1, Entries DEF InFlight
  <2>4. \A r \in Row : sess'[r].st = "live" => r # act[t].sid
    BY <2>2, RowFacts DEF Live
  <2>5. jar[t] \notin raced => cookie[jar[t]] = 0 \/ sess'[cookie[jar[t]]].st # "live"
    BY <2>1, <2>3, <2>4 DEF TakesItsPlace, TabsOf
  <2> QED
    BY <1>0, <2>1, <2>2, <2>3, <2>5, TakesItsPlaceKept
<1>9. ASSUME NEW t \in Tab, refreshAnswered(t) \/ actAnswered(t)
      PROVE  TakesItsPlace'
  BY <1>9, PlaceAnswers
<1>10. CASE forgotPassword \/ \E s \in Row : pastGrace(s) \/ pastWindow(s)
  <2>1. UNCHANGED <<jar, cookie, ref, act, raced>>
    BY <1>10, TimeStep
  <2>2. \A r \in Row : sess'[r].st = "live" => sess[r].st = "live"
    BY <1>10, TimeStep
  <2>3. \A d \in Device : Live(cookie[d])' => Live(cookie[d])
    BY <1>0, <2>1, <2>2 DEF Live, Typed
  <2> QED
    BY <2>1, <2>3 DEF TakesItsPlace, TabsOf, InFlight, Replaces, Replacing
<1> QED
  BY <1>1, <1>2, <1>3, <1>4, <1>5, <1>6, <1>7, <1>8, <1>9, <1>10, Steps, PasswordStep, RefreshLostStep, ActLostStep

LEMMA OrphanKept ==
    ASSUME Typed, NoOrphan, NEW t \in Tab, Only(t),
           \A s \in Row : sess'[s].st = "live" =>
              \/ s \in {ref'[t].ans, act'[t].ans} \/ cookie'[jar[t]] = s
              \/ sess[s].st = "live" /\ cookie[jar[t]] # s /\ s \notin {ref[t].ans, act[t].ans}
    PROVE  NoOrphan'
<1> SUFFICES ASSUME NEW s \in Row, sess'[s].st = "live"
             PROVE  \/ \E d \in Device : cookie'[d] = s
                    \/ \E u \in Tab : s \in {ref'[u].ans, act'[u].ans}
  BY DEF NoOrphan, Live
<1>1. CASE s \in {ref'[t].ans, act'[t].ans} \/ cookie'[jar[t]] = s
  BY <1>1, Entries DEF Only
<1>2. CASE sess[s].st = "live" /\ cookie[jar[t]] # s /\ s \notin {ref[t].ans, act[t].ans}
  <2>1. Live(s)
    BY <1>2, LiveRow
  <2>2. CASE \E d \in Device : cookie[d] = s
    BY <1>2, <2>2 DEF Only
  <2>3. CASE \E u \in Tab : s \in {ref[u].ans, act[u].ans}
    BY <1>2, <2>3 DEF Only
  <2> QED
    BY <2>1, <2>2, <2>3 DEF NoOrphan
<1> QED
  BY <1>1, <1>2

LEMMA NextOrphan == Base /\ TakesItsPlace /\ NoOrphan /\ raced = {} /\ [Next]_vars /\ ~blamed' => NoOrphan'
<1> SUFFICES ASSUME Base, TakesItsPlace, NoOrphan, raced = {}, [Next]_vars, ~blamed' PROVE NoOrphan'
  OBVIOUS
<1>0. Typed /\ Calls
  BY DEF Base
<1>1. CASE UNCHANGED vars
  BY <1>1 DEF vars, rows, client, ghosts, NoOrphan, Live
\* A step that makes no row and brings no answer.
<1>2. ASSUME NEW t \in Tab, Only(t), cookie' = cookie, \A s \in Row : Live(s)' => Live(s),
             ref[t].ans \notin Row, act[t].ans \notin Row
      PROVE  NoOrphan'
  <2>1. \A s \in Row : sess'[s].st = "live" => sess[s].st = "live"
    BY <1>2, RowFacts DEF Live
  <2> QED
    BY <1>0, <1>2, <2>1, OrphanKept
<1>3. ASSUME NEW t \in Tab, Sends(t) \/ \E kind \in {"login", "logout", "change", "reset"} : submit(t, kind)
      PROVE  NoOrphan'
  <2>1. Only(t) /\ UNCHANGED <<sess, cookie>> /\ ref[t].pc \in {"idle", "wait"} /\ act[t].pc \in {"idle", "stuck"}
    BY <1>3, SendsStep, SubmitsStep
  <2>2. ref[t].ans = 0 /\ act[t].ans = 0
    BY <1>0, <2>1 DEF Calls, CallsOf
  <2>3. \A s \in Row : Live(s)' => Live(s)
    BY <2>1 DEF Live
  <2> QED
    BY <1>2, <2>1, <2>2, <2>3, RowFacts
<1>4. ASSUME NEW t \in Tab, touchSession(t)
      PROVE  NoOrphan'
  <2>1. /\ Only(t) /\ cookie' = cookie /\ ref[t].pc = "sent"
        /\ sess' = sess \/ sess' = Revoke(Row) \/ sess' = Revoke({ref[t].sid})
    BY <1>4, TouchStep
  <2>2. ref[t].ans = 0 /\ act[t].ans = 0
    BY <1>0, <2>1 DEF Calls, CallsOf
  <2>3. \A s \in Row : Live(s)' => Live(s)
    <3>1. CASE sess' = sess
      BY <3>1 DEF Live
    <3> QED
      BY <1>0, <2>1, <3>1, RevokedRow
  <2> QED
    BY <1>2, <2>1, <2>2, <2>3, RowFacts
<1>5. ASSUME NEW t \in Tab, rotate(t)
      PROVE  NoOrphan'
  <2>1. /\ Only(t) /\ cookie' = cookie /\ ref[t].pc = "read" /\ ref'[t].ans = NewRow
        /\ ref[t].sid \in Row => sess'[ref[t].sid].st = "recent"
        /\ \A x \in Row \ {NewRow, ref[t].sid} : sess'[x] = sess[x]
    BY <1>5, RotateStep
  <2>2. ref[t].ans = 0 /\ act[t].ans = 0
    BY <1>0, <2>1 DEF Calls, CallsOf
  <2>3. \A s \in Row : sess'[s].st = "live" => s = ref'[t].ans \/ sess[s].st = "live"
    BY <2>1
  <2> QED
    BY <1>0, <2>1, <2>2, <2>3, RowFacts, OrphanKept
<1>6. ASSUME NEW t \in Tab, checkCredentials(t) \/ logout(t)
      PROVE  NoOrphan'
  <2>1. /\ Only(t) /\ cookie' = cookie /\ act[t].pc = "sent"
        /\ sess' = sess \/ sess' = Revoke({act[t].sid})
    BY <1>6, CheckStep, LogoutStep
  <2>2. ref[t].ans = 0 /\ act[t].ans = 0
    BY <1>0, <2>1 DEF Calls, CallsOf
  <2>3. \A s \in Row : Live(s)' => Live(s)
    <3>1. CASE sess' = sess
      BY <3>1 DEF Live
    <3> QED
      BY <1>0, <2>1, <3>1, RevokedRow
  <2> QED
    BY <1>2, <2>1, <2>2, <2>3, RowFacts
<1>7. ASSUME NEW t \in Tab, login(t)
      PROVE  NoOrphan'
  <2>1. /\ Only(t) /\ cookie' = cookie /\ act[t].pc = "read" /\ act'[t].ans = NewRow
        /\ \A x \in Row \ {NewRow} : sess'[x] = sess[x]
    BY <1>7, LoginStep
  <2>2. ref[t].ans = 0 /\ act[t].ans = 0
    BY <1>0, <2>1 DEF Calls, CallsOf
  <2>3. \A s \in Row : sess'[s].st = "live" => s = act'[t].ans \/ sess[s].st = "live"
    BY <2>1
  <2> QED
    BY <1>0, <2>1, <2>2, <2>3, RowFacts, OrphanKept
<1>8. ASSUME NEW t \in Tab, refreshAnswered(t) \/ actAnswered(t)
      PROVE  NoOrphan'
  <2>1. /\ Only(t) /\ Forget
        /\ \/ /\ cookie' = cookie /\ ref[t].ans \notin Row /\ act[t].ans \notin Row
           \/ /\ Replaces(t)
              /\ \A r \in Row : r \in {ref[t].ans, act[t].ans} => cookie'[jar[t]] = r
    <3>1. CASE refreshAnswered(t)
      <4>1. act[t].ans = 0 /\ Only(t) /\ Forget
        BY <1>0, <3>1, RefreshAnsweredStep DEF Calls, CallsOf
      <4> QED
        BY <1>8, <3>1, <4>1, RefreshAnsweredStep, RowFacts DEF Replaces, Replacing
    <3>2. CASE actAnswered(t)
      <4>1. ref[t].ans = 0 /\ (act[t].kind # "login" => act[t].ans \notin Row) /\ Only(t) /\ Forget
        BY <1>0, <3>2, ActAnsweredStep DEF Calls, CallsOf
      <4> QED
        BY <3>2, <4>1, ActAnsweredStep, RowFacts DEF Replaces, Replacing
    <3> QED
      BY <1>8, <3>1, <3>2
  <2>2. \A s \in Row : Live(s)' => Live(s)
    BY <1>0, <2>1, ForgottenRow
  <2>3. CASE cookie' = cookie /\ ref[t].ans \notin Row /\ act[t].ans \notin Row
    BY <1>2, <2>1, <2>2, <2>3
  <2>4. CASE Replaces(t) /\ \A r \in Row : r \in {ref[t].ans, act[t].ans} => cookie'[jar[t]] = r
    <3>1. ~Live(cookie[jar[t]])
      BY <1>0, <2>4, Entries DEF TakesItsPlace, TabsOf
    <3>2. \A s \in Row : sess'[s].st = "live" => sess[s].st = "live" /\ s # cookie[jar[t]]
      <4> SUFFICES ASSUME NEW s \in Row, sess'[s].st = "live" PROVE sess[s].st = "live" /\ s # cookie[jar[t]]
        OBVIOUS
      <4>1. Live(s)
        BY <2>2, RowFacts DEF Live
      <4> QED
        BY <3>1, <4>1, LiveRow
    <3> QED
      BY <1>0, <2>1, <2>4, <3>2, OrphanKept
  <2> QED
    BY <2>1, <2>3, <2>4
<1>9. CASE forgotPassword \/ \E s \in Row : pastGrace(s) \/ pastWindow(s)
  <2>1. UNCHANGED <<cookie, ref, act>>
    BY <1>9, TimeStep
  <2>2. \A r \in Row : sess'[r].st = "live" => sess[r].st = "live"
    BY <1>9, TimeStep
  <2>3. \A r \in Row : Live(r)' => Live(r)
    BY <2>2 DEF Live
  <2> QED
    BY <2>1, <2>3 DEF NoOrphan
<1> QED
  BY <1>1, <1>3, <1>4, <1>5, <1>6, <1>7, <1>8, <1>9, Steps, PasswordStep, RefreshLostStep, ActLostStep

\* Nothing takes a device from those that raced, or forgives what was blamed.
LEMMA MarksStay ==
    ASSUME Base, [Next]_vars
    PROVE  (blamed => blamed') /\ (raced' = {} => raced = {})
<1>1. ASSUME NEW t \in Tab, NEW kind, raced' = Races(t, kind), blamed' = blamed
      PROVE  (blamed => blamed') /\ (raced' = {} => raced = {})
  BY <1>1 DEF Races
<1>2. CASE \E t \in Tab : Sends(t) \/ \E kind \in {"login", "logout", "change", "reset"} : submit(t, kind)
  BY <1>1, <1>2, SendsStep, SubmitsStep
<1>3. CASE (blamed => blamed') /\ raced' = raced
  BY <1>3
<1>4. CASE \E t \in Tab : touchSession(t) \/ rotate(t) \/ checkCredentials(t) \/ login(t) \/ logout(t) \/ setPassword(t)
  BY <1>3, <1>4, TouchStep, RotateStep, CheckStep, LoginStep, LogoutStep, PasswordStep
<1>5. CASE \E t \in Tab : refreshAnswered(t) \/ refreshLost(t) \/ actAnswered(t) \/ actLost(t)
  BY <1>3, <1>5, RefreshAnsweredStep, RefreshLostStep, ActAnsweredStep, ActLostStep
<1>6. CASE UNCHANGED vars
  BY <1>3, <1>6 DEF vars, ghosts
<1>7. CASE forgotPassword \/ \E s \in Row : pastGrace(s) \/ pastWindow(s)
  BY <1>3, <1>7, TimeStep
<1> QED
  BY <1>2, <1>4, <1>5, <1>6, <1>7, Steps

\* A logout is final (logout of auth.service.ts and of the AuthContext): the
\* jar stays empty until the next login, and once every device is out, no row
\* of the account lives, unless requests of one device overlapped or an answer
\* was lost.
THEOREM LogoutIsFinal == Spec => []SignedOutIsFinal
<1>1. ASSUME Base, Orderly, [Next]_vars
      PROVE  Orderly'
  <2>1. OutIsEmpty' /\ OneByOne'
    BY <1>1, NextOut, NextOneByOne DEF Orderly
  <2>2. ~blamed' => TakesItsPlace'
    BY <1>1, MarksStay, NextPlace DEF Orderly
  <2>3. ~blamed' /\ raced' = {} => NoOrphan'
    BY <1>1, MarksStay, NextOrphan DEF Orderly
  <2> QED
    BY <2>1, <2>2, <2>3 DEF Orderly
<1>2. ASSUME Base, Orderly
      PROVE  SignedOutIsFinal
  <2>1. \A d \in signedOut \ raced : cookie[d] = 0
    BY <1>2 DEF Orderly, OutIsEmpty
  <2>2. ASSUME signedOut = Device, raced = {}, ~blamed, \A t \in Tab : ~InFlight(t), NEW s \in Row, Live(s)
        PROVE  FALSE
    <3>1. \A d \in Device : cookie[d] = 0
      BY <1>2, <2>2 DEF Orderly, OutIsEmpty
    <3>2. \A t \in Tab : ref[t].ans = 0 /\ act[t].ans = 0
      BY <1>2, <2>2 DEF Base, Calls, CallsOf, InFlight
    <3> QED
      BY <1>2, <2>2, <3>1, <3>2, RowFacts DEF Orderly, NoOrphan
  <2> QED
    BY <2>1, <2>2 DEF SignedOutIsFinal
<1> QED
  BY <1>1, <1>2, InitBase, NextBase, InitOrderly, PTL DEF Spec

-----------------------------------------------------------------------------
(* The session of a device.                                                *)

\* The cookie of d works, or an answer that replaces it does; none does not.
Works(d) ==
    /\ Live(cookie[d]) \/ \E t \in TabsOf(d) : Live(ref[t].ans)
    /\ \A t \in TabsOf(d) : ref[t].ans # 0 => Live(ref[t].ans)
\* The device of a logout that was done is excused until it is answered.
LogoutExcused == \A t \in Tab : act[t].kind = "logout" /\ act[t].pc = "answered" => jar[t] \in excused
Working == (\A d \in Device \ excused : Works(d)) /\ LogoutExcused

LEMMA AnswersFly == ASSUME Calls, NEW t \in Tab, ref[t].ans # 0 PROVE InFlight(t)
BY DEF Calls, CallsOf, InFlight

LEMMA WorksKept ==
    ASSUME Typed, NEW d \in Device, Works(d), jar' = jar, cookie'[d] = cookie[d],
           \A u \in TabsOf(d) : ref'[u].ans = ref[u].ans,
           \A r \in Row : r = cookie[d] \/ (\E u \in TabsOf(d) : ref[u].ans = r) =>
              (sess[r].st = "live" => sess'[r].st = "live")
    PROVE  Works(d)'
<1>1. cookie[d] \in Row \cup {0} /\ \A u \in TabsOf(d) : ref[u].ans \in Row \cup {0}
  BY Entries DEF Typed, TabsOf
<1>2. TabsOf(d)' = TabsOf(d)
  BY DEF TabsOf
<1>3. Live(cookie[d]) => Live(cookie[d])'
  BY <1>1 DEF Live
<1>4. ASSUME NEW u \in TabsOf(d), Live(ref[u].ans)
      PROVE  ref'[u].ans # 0 /\ sess'[ref'[u].ans].st = "live"
  <2>1. ref[u].ans \in Row /\ sess[ref[u].ans].st = "live"
    BY <1>1, <1>4 DEF Live
  <2>2. sess'[ref[u].ans].st = "live" /\ ref'[u].ans = ref[u].ans
    BY <2>1
  <2> QED
    BY <2>1, <2>2, RowFacts DEF Live
<1>5. \A u \in TabsOf(d) : ref'[u].ans # 0 => ref'[u].ans # 0 /\ sess'[ref'[u].ans].st = "live"
  BY <1>4 DEF Works, Live
<1>6. Live(cookie[d])' \/ \E u \in TabsOf(d) : ref'[u].ans # 0 /\ sess'[ref'[u].ans].st = "live"
  BY <1>3, <1>4 DEF Works, Live
<1> QED
  BY <1>2, <1>5, <1>6 DEF Works, Live

LEMMA InitWorking == Init => Working
<1> SUFFICES ASSUME Init PROVE Working
  OBVIOUS
<1>1. \A t \in Tab : ref[t].ans = 0 /\ act[t].pc = "idle"
  BY EmptyCalls DEF Init
<1>2. ASSUME NEW d \in Device, d \notin excused
      PROVE  Live(cookie[d])
  <2>1. cookie[d] # 0
    BY <1>2 DEF Init
  <2>2. cookie[d] \in Row
    BY <2>1, InitBase DEF Base, Typed
  <2>3. sess[cookie[d]].st = "live"
    BY <2>2 DEF Init
  <2> QED
    BY <2>1, <2>3 DEF Live
<1> QED
  BY <1>1, <1>2 DEF Working, Works, LogoutExcused, TabsOf

\* Devices whose rows, cookie and answers a step leaves alone.
LEMMA WorkingSame ==
    ASSUME Base, Working, NEW t \in Tab, Only(t), cookie' = cookie, ref'[t].ans = ref[t].ans,
           excused \subseteq excused',
           \A d \in Device \ excused' : \A r \in Row :
              r = cookie[d] \/ (\E u \in TabsOf(d) : ref[u].ans = r) => (sess[r].st = "live" => sess'[r].st = "live"),
           act'[t].kind = "logout" /\ act'[t].pc = "answered" => jar[t] \in excused'
    PROVE  Working'
<1>1. ASSUME NEW d \in Device, d \notin excused'
      PROVE  Works(d)'
  <2>1. Typed /\ Works(d) /\ jar' = jar /\ cookie'[d] = cookie[d] /\ \A u \in TabsOf(d) : ref'[u].ans = ref[u].ans
    BY <1>1 DEF Base, Working, Only, TabsOf
  <2>2. \A r \in Row : r = cookie[d] \/ (\E u \in TabsOf(d) : ref[u].ans = r) => (sess[r].st = "live" => sess'[r].st = "live")
    BY <1>1
  <2> QED
    BY <2>1, <2>2, WorksKept
<1>2. LogoutExcused'
  BY DEF Working, LogoutExcused, Only
<1> QED
  BY <1>1, <1>2 DEF Working

\* A row is revoked, or ages, away from the devices that are not excused.
LEMMA AwayFromHolding ==
    ASSUME Base, NEW S, NEW d \in Device, d \notin Holding(S), NEW r \in Row,
           r = cookie[d] \/ (\E u \in TabsOf(d) : ref[u].ans = r)
    PROVE  r = cookie[d] /\ r \notin S /\ \A u \in TabsOf(d) : ~InFlight(u) /\ ref[u].ans = 0
<1>1. cookie[d] \notin S /\ \A u \in TabsOf(d) : ~InFlight(u)
  BY DEF Holding
<1>2. \A u \in TabsOf(d) : ref[u].ans = 0
  BY <1>1, AnswersFly DEF Base, TabsOf
<1> QED
  BY <1>1, <1>2, RowFacts

LEMMA WorkingRotate == ASSUME Base, Working, NEW t \in Tab, rotate(t) PROVE Working'
<1> DEFINE s == ref[t].sid
           n == NewRow
<1>1. /\ Only(t) /\ UNCHANGED <<cookie, act, excused>>
      /\ n \in Row /\ n \notin Named /\ sess[n].st # "live"
      /\ ref[t].pc = "read" /\ ref'[t].ans = n /\ sess'[n].st = "live"
      /\ \A x \in Row \ {n, s} : sess'[x] = sess[x]
  BY RotateStep
<1> HIDE DEF n
<1>2. Typed /\ OneHolder /\ AnswersNew /\ Calls /\ t \in TabsOf(jar[t]) /\ LogoutExcused
  BY DEF Base, TabsOf, Working
<1>3. jar[t] \in Device /\ act[t].pc = "idle" /\ act[t].ans = 0 /\ s \in Row \cup {0}
  BY <1>1, <1>2, Entries DEF Calls, CallsOf
\* The row of an answer is never the one that is rotated.
<1>4. \A u \in Tab : ref[u].ans \in Row => ref[u].ans # s /\ ref[u].ans # n
  <2>1. \A u \in Tab : ref[u].ans \in Named
    BY NamedHas DEF Names
  <2> QED
    BY <1>1, <1>2, <2>1 DEF AnswersNew
<1>5. \A u \in Tab : ref[u].ans \in Row => sess'[ref[u].ans] = sess[ref[u].ans]
  BY <1>1, <1>4
<1>6. ASSUME NEW d \in Device \ excused
      PROVE  Works(d)'
  <2>1. Works(d)
    BY DEF Working
  <2>2. CASE d # jar[t]
    <3>1. \A u \in TabsOf(d) : ref'[u].ans = ref[u].ans /\ u \in Tab
      BY <1>1, <2>2 DEF Only, TabsOf
    <3>2. cookie[d] \in Row => cookie[d] # s /\ cookie[d] # n
      <4>1. Held(cookie[d], d) /\ Held(s, jar[t])
        BY <1>2 DEF Held, Names
      <4> QED
        BY <1>1, <1>2, <1>3, <2>2, <4>1, NamedHas DEF OneHolder
    <3>3. jar' = jar /\ cookie'[d] = cookie[d] /\ \A r \in Row : r = cookie[d] \/ (\E u \in TabsOf(d) : ref[u].ans = r) =>
              (sess[r].st = "live" => sess'[r].st = "live")
      BY <1>1, <1>5, <3>1, <3>2 DEF Only
    <3> QED
      BY <1>2, <2>1, <3>1, <3>3, WorksKept
  <2>3. CASE d = jar[t]
    <3>1. TabsOf(d)' = TabsOf(d) /\ \A u \in TabsOf(d) : u \in Tab
      BY <1>1 DEF TabsOf, Only
    <3>2. \A u \in TabsOf(d) \ {t} : ref'[u].ans = ref[u].ans
      BY <1>1, <3>1 DEF Only
    <3>3. \A u \in TabsOf(d) \ {t} : ref[u].ans # 0 => sess'[ref[u].ans].st = "live"
      BY <1>2, <1>5, <2>1, <3>1, Entries DEF Works, Live
    <3>4. n # 0 /\ t \in TabsOf(d) /\ ref'[t].ans = n /\ sess'[n].st = "live"
      BY <1>1, <1>2, <2>3, RowFacts
    <3>5. \A u \in TabsOf(d) : ref'[u].ans # 0 => sess'[ref'[u].ans].st = "live"
      BY <3>2, <3>3, <3>4
    <3> QED
      BY <3>1, <3>4, <3>5 DEF Works, Live
  <2> QED
    BY <2>2, <2>3
<1>7. LogoutExcused'
  BY <1>1, <1>2 DEF LogoutExcused, Only
<1> QED
  BY <1>1, <1>6, <1>7 DEF Working

LEMMA WorkingPassword == ASSUME Base, Working, NEW t \in Tab, setPassword(t) PROVE Working'
<1>1. /\ Only(t) /\ UNCHANGED <<cookie, ref>>
      /\ excused' = excused \cup (IF Undisturbed(t) THEN Holding(Row \ {act[t].sid}) \ {jar[t]} ELSE Holding(Row))
      /\ act'[t].kind = act[t].kind /\ act[t].kind \in {"change", "reset"} /\ act[t].pc = "read"
      /\ \A s \in Row : Live(s)' <=> Live(s) /\ act[t].kind = "change" /\ s = act[t].sid
  BY PasswordStep
<1>2. OneHolder /\ ref[t].ans = 0 /\ t \in TabsOf(jar[t]) /\ Calls
  BY <1>1 DEF Base, Calls, CallsOf, TabsOf
<1> SUFFICES ASSUME NEW d \in Device, d \notin excused', NEW r \in Row, sess[r].st = "live",
                    r = cookie[d] \/ (\E u \in TabsOf(d) : ref[u].ans = r)
             PROVE  sess'[r].st = "live"
  BY <1>1, WorkingSame
<1>3. (Live(r) <=> sess[r].st = "live") /\ (Live(r)' <=> sess'[r].st = "live")
  BY RowFacts DEF Live
<1>4. CASE ~Undisturbed(t)
  BY <1>1, <1>4, AwayFromHolding
<1>5. CASE Undisturbed(t) /\ d = jar[t]
  <2>1. act[t].kind = "change" /\ cookie[d] = act[t].sid /\ \A u \in TabsOf(d) \ {t} : ~InFlight(u)
    BY <1>5 DEF Undisturbed
  <2>2. \A u \in TabsOf(d) : ref[u].ans = 0
    BY <1>2, <2>1, AnswersFly DEF TabsOf
  <2> QED
    BY <1>1, <1>3, <2>1, <2>2, RowFacts
<1>6. CASE Undisturbed(t) /\ d # jar[t]
  <2>1. r = cookie[d] /\ r \notin Row \ {act[t].sid}
    BY <1>1, <1>6, AwayFromHolding
  <2>2. Held(r, d) /\ Held(r, jar[t]) /\ jar[t] \in Device
    BY <1>2, <2>1, Entries DEF Held, Names, Base
  <2> QED
    BY <1>2, <1>6, <2>2 DEF OneHolder
<1> QED
  BY <1>4, <1>5, <1>6

\* The answer of a refresh, a login or a logout sets the cookie of its device.
LEMMA WorkingAnswers ==
    ASSUME Base, Working, NEW t \in Tab, refreshAnswered(t) \/ actAnswered(t)
    PROVE  Working'
<1>1. /\ Only(t) /\ Forget /\ ref'[t].ans = 0 /\ act'[t].pc # "answered" /\ InFlight(t)
      /\ \/ /\ cookie' = cookie /\ ref[t].ans = 0 /\ excused' = excused
         \/ /\ cookie'[jar[t]] = ref[t].ans /\ ref[t].ans # 0 /\ excused' = excused
         \/ /\ jar[t] \in excused /\ ref[t].ans = 0 /\ excused' = excused
         \/ /\ cookie'[jar[t]] = act[t].ans /\ ref[t].ans = 0 /\ Live(act[t].ans) /\ excused' = excused \ {jar[t]}
            /\ \A u \in TabsOf(jar[t]) \ {t} : ~InFlight(u)
         \/ ref[t].ans = 0 /\ excused' = excused \cup {jar[t]}
  <2>1. CASE refreshAnswered(t)
    <3>1. act[t].pc = "idle" /\ act' = act
      BY <2>1, RefreshAnsweredStep DEF Base, Calls, CallsOf
    <3> QED
      BY <2>1, <3>1, RefreshAnsweredStep, RowFacts DEF InFlight
  <2>2. CASE actAnswered(t)
    <3>1. ref[t].ans = 0 /\ ref' = ref /\ act[t].pc = "answered"
      BY <2>2, ActAnsweredStep DEF Base, Calls, CallsOf
    <3>2. act[t].kind = "logout" => jar[t] \in excused
      BY <3>1 DEF Working, LogoutExcused
    <3> QED
      BY <2>2, <3>1, <3>2, ActAnsweredStep DEF InFlight
  <2> QED
    BY <2>1, <2>2
<1>2. Typed /\ Calls /\ LogoutExcused /\ jar[t] \in Device /\ jar' = jar /\ \A d \in Device : TabsOf(d)' = TabsOf(d)
  BY <1>1, Entries DEF Base, Working, Only, TabsOf
<1>3. \A r \in Row : sess[r].st = "live" => sess'[r].st = "live"
  <2>1. \A r \in Row : Live(r)' <=> Live(r)
    BY <1>1, <1>2, ForgottenRow
  <2> QED
    BY <2>1, RowFacts DEF Live
<1>4. ASSUME NEW d \in Device, d \notin excused', d # jar[t]
      PROVE  Works(d)'
  <2>1. Works(d) /\ cookie'[d] = cookie[d] /\ \A u \in TabsOf(d) : ref'[u].ans = ref[u].ans
    BY <1>1, <1>4 DEF Working, Only, TabsOf
  <2> QED
    BY <1>2, <1>3, <2>1, WorksKept
\* The device that is answered.
<1>5. ASSUME NEW d \in Device, d \notin excused', d = jar[t]
      PROVE  Works(d)'
  <2>1. CASE cookie' = cookie /\ ref[t].ans = 0 /\ excused' = excused
    <3>1. \A u \in TabsOf(d) : ref'[u].ans = ref[u].ans
      BY <1>1, <1>5, <2>1 DEF Only, TabsOf
    <3>2. Works(d) /\ d \in Device /\ cookie'[d] = cookie[d]
      BY <1>2, <1>5, <2>1 DEF Working
    <3> QED
      BY <1>2, <1>3, <3>1, <3>2, WorksKept
  <2>2. ASSUME NEW a \in Row, cookie'[d] = a, sess[a].st = "live",
               \A u \in TabsOf(d) \ {t} : ref[u].ans # 0 => Live(ref[u].ans)
        PROVE  Works(d)'
    <3>1. \A u \in TabsOf(d) : ref'[u].ans # 0 => sess'[ref'[u].ans].st = "live"
      <4> SUFFICES ASSUME NEW u \in Tab, jar[u] = d, ref'[u].ans # 0 PROVE sess'[ref'[u].ans].st = "live"
        BY DEF TabsOf
      <4>1. u # t /\ ref'[u] = ref[u] /\ u \in TabsOf(d)
        BY <1>1, <1>5 DEF Only, TabsOf
      <4>2. ref[u].ans \in Row /\ sess[ref[u].ans].st = "live"
        BY <1>2, <2>2, <4>1, Entries DEF Live
      <4> QED
        BY <1>3, <4>1, <4>2
    <3>2. cookie'[d] # 0 /\ sess'[cookie'[d]].st = "live"
      BY <1>3, <2>2, RowFacts
    <3> QED
      BY <1>2, <3>1, <3>2 DEF Works, Live
  <2>3. CASE cookie'[jar[t]] = ref[t].ans /\ ref[t].ans # 0 /\ excused' = excused
    <3>1. Works(d) /\ t \in TabsOf(d)
      BY <1>2, <1>5, <2>3 DEF Working, TabsOf
    <3>2. ref[t].ans \in Row /\ sess[ref[t].ans].st = "live" /\ \A u \in TabsOf(d) : ref[u].ans # 0 => Live(ref[u].ans)
      BY <1>2, <1>5, <2>3, <3>1, Entries DEF Works, Live
    <3> QED
      BY <1>5, <2>2, <2>3, <3>2
  <2>4. CASE cookie'[jar[t]] = act[t].ans /\ Live(act[t].ans) /\ \A u \in TabsOf(jar[t]) \ {t} : ~InFlight(u)
    <3>1. \A u \in TabsOf(d) \ {t} : ref[u].ans = 0
      BY <1>2, <1>5, <2>4, AnswersFly DEF TabsOf
    <3>2. cookie'[d] \in Row \cup {0} /\ act[t].ans # 0 /\ sess[act[t].ans].st = "live"
      <4>1. Typed'
        BY NextBase, RefreshAnsweredStep, ActAnsweredStep DEF Base
      <4> QED
        BY <1>2, <1>5, <2>4, <4>1 DEF Typed, Live
    <3> QED
      BY <1>5, <2>2, <2>4, <3>1, <3>2
  <2> QED
    BY <1>1, <1>5, <2>1, <2>3, <2>4
<1>6. LogoutExcused'
  <2> SUFFICES ASSUME NEW u \in Tab, act'[u].kind = "logout", act'[u].pc = "answered"
               PROVE  jar[u] \in excused'
    BY <1>2 DEF LogoutExcused
  <2>1. u # t /\ act[u].kind = "logout" /\ act[u].pc = "answered" /\ jar[u] \in excused /\ InFlight(u)
    BY <1>1, <1>2 DEF Only, LogoutExcused, InFlight
  <2> QED
    BY <1>1, <2>1 DEF TabsOf
<1> QED
  BY <1>4, <1>5, <1>6 DEF Working

LEMMA NextWorking == Base /\ Working /\ [Next]_vars => Working'
<1> SUFFICES ASSUME Base, Working, [Next]_vars PROVE Working'
  OBVIOUS
<1>0. Typed /\ Calls
  BY DEF Base
<1>1. CASE UNCHANGED vars
  BY <1>1 DEF vars, rows, client, ghosts, Working, Works, LogoutExcused, TabsOf, Live
<1>2. ASSUME NEW t \in Tab, Sends(t) \/ \E kind \in {"login", "logout", "change", "reset"} : submit(t, kind)
      PROVE  Working'
  <2>1. /\ Only(t) /\ UNCHANGED <<sess, cookie, excused>> /\ ref[t].pc # "answered" /\ act'[t].pc # "answered"
        /\ ref'[t].ans = 0 \/ ref' = ref
    BY <1>2, SendsStep, SubmitsStep
  <2>2. ref'[t].ans = ref[t].ans
    BY <1>0, <2>1 DEF Calls, CallsOf
  <2> QED
    BY <2>1, <2>2, WorkingSame
<1>3. ASSUME NEW t \in Tab, touchSession(t)
      PROVE  Working'
  <2>1. Only(t) /\ UNCHANGED <<cookie, act>> /\ ref[t].pc = "sent" /\ ref'[t].ans = 0
    BY <1>3, TouchStep
  <2>2. ref[t].ans = 0 /\ act[t].pc = "idle"
    BY <1>0, <2>1 DEF Calls, CallsOf
  <2>3. CASE excused' = Device
    BY <1>0, <2>1, <2>2, <2>3, Entries DEF Working, LogoutExcused, Only
  <2>4. CASE sess' = sess /\ excused' = excused
    BY <2>1, <2>2, <2>4, WorkingSame
  <2>5. CASE /\ ref[t].sid \in Row /\ sess[ref[t].sid].st = "idle" /\ sess' = Revoke({ref[t].sid})
             /\ excused' = excused \cup Holding({ref[t].sid})
    <3>1. \A r \in Row : Live(r)' <=> Live(r) /\ r # ref[t].sid
      BY <1>0, <2>5, RevokedRow
    <3>2. \A r \in Row : sess[r].st = "live" => sess'[r].st = "live"
      BY <2>5, <3>1, RowFacts DEF Live
    <3> QED
      BY <2>1, <2>2, <2>5, <3>2, WorkingSame
  <2> QED
    BY <1>3, <2>3, <2>4, <2>5, TouchStep
<1>4. ASSUME NEW t \in Tab, checkCredentials(t)
      PROVE  Working'
  <2>1. Only(t) /\ UNCHANGED <<sess, cookie, ref, excused>> /\ act'[t].kind # "logout"
    BY <1>4, CheckStep
  <2> QED
    BY <2>1, WorkingSame
<1>5. ASSUME NEW t \in Tab, login(t)
      PROVE  Working'
  <2>1. /\ Only(t) /\ UNCHANGED <<cookie, ref, excused>> /\ act'[t].kind = "login" /\ sess[NewRow].st # "live"
        /\ \A x \in Row \ {NewRow} : sess'[x] = sess[x]
    BY <1>5, LoginStep
  <2>2. \A r \in Row : sess[r].st = "live" => sess'[r].st = "live"
    BY <2>1
  <2> QED
    BY <2>1, <2>2, WorkingSame
<1>6. ASSUME NEW t \in Tab, logout(t)
      PROVE  Working'
  <2>1. /\ Only(t) /\ UNCHANGED <<cookie, ref>> /\ act[t].pc = "sent"
        /\ sess' = Revoke({act[t].sid}) /\ excused' = excused \cup Holding({act[t].sid})
    BY <1>6, LogoutStep
  <2>2. jar[t] \in Holding({act[t].sid})
    BY <1>0, <2>1, Entries DEF Holding, InFlight, TabsOf
  <2>3. ASSUME NEW d \in Device \ excused', NEW r \in Row, r = cookie[d] \/ (\E u \in TabsOf(d) : ref[u].ans = r),
               sess[r].st = "live"
        PROVE  sess'[r].st = "live"
    <3>1. r # act[t].sid
      BY <2>1, <2>3, AwayFromHolding
    <3>2. Live(r)' <=> Live(r) /\ r # act[t].sid
      BY <1>0, <2>1, RevokedRow
    <3> QED
      BY <2>3, <3>1, <3>2, RowFacts DEF Live
  <2> QED
    BY <2>1, <2>2, <2>3, WorkingSame
<1>7. ASSUME NEW t \in Tab, refreshLost(t) \/ actLost(t)
      PROVE  Working'
  <2>1. /\ Only(t) /\ Forget /\ cookie' = cookie /\ excused' = excused \cup {jar[t]}
        /\ \/ ref' = ref /\ act'[t].pc # "answered"
           \/ act' = act
    BY <1>7, RefreshLostStep, ActLostStep
  <2>2. \A r \in Row : sess[r].st = "live" => sess'[r].st = "live"
    <3>1. \A r \in Row : Live(r)' <=> Live(r)
      BY <1>0, <2>1, ForgottenRow
    <3> QED
      BY <3>1, RowFacts DEF Live
  <2>3. ASSUME NEW d \in Device \ excused'
        PROVE  Works(d)'
    <3>1. Works(d) /\ jar' = jar /\ cookie'[d] = cookie[d] /\ \A u \in TabsOf(d) : ref'[u].ans = ref[u].ans
      BY <2>1 DEF Working, Only, TabsOf
    <3> QED
      BY <1>0, <2>2, <3>1, WorksKept
  <2>4. LogoutExcused'
    BY <2>1 DEF Working, LogoutExcused, Only
  <2> QED
    BY <2>3, <2>4 DEF Working
<1>8. CASE forgotPassword \/ \E s \in Row : pastGrace(s) \/ pastWindow(s)
  <2>1. UNCHANGED <<jar, cookie, ref, act>> /\ excused \subseteq excused'
    BY <1>8, TimeStep
  <2>2. ASSUME NEW d \in Device \ excused', NEW r \in Row, r = cookie[d] \/ (\E u \in TabsOf(d) : ref[u].ans = r),
               sess[r].st = "live"
        PROVE  sess'[r].st = "live"
    <3>1. ASSUME NEW s \in Row, excused' = excused \cup Holding({s}), \A x \in Row \ {s} : sess'[x] = sess[x]
          PROVE  sess'[r].st = "live"
      BY <2>2, <3>1, AwayFromHolding
    <3>2. CASE \E s \in Row : sess[s].st = "recent" /\ \A x \in Row \ {s} : sess'[x] = sess[x]
      BY <2>2, <3>2
    <3>3. CASE sess' = sess
      BY <2>2, <3>3
    <3> QED
      BY <1>8, <3>1, <3>2, <3>3, TimeStep
  <2>3. ASSUME NEW d \in Device \ excused'
        PROVE  Works(d)'
    <3>1. Works(d) /\ jar' = jar /\ cookie'[d] = cookie[d] /\ \A u \in TabsOf(d) : ref'[u].ans = ref[u].ans
      BY <2>1 DEF Working
    <3> QED
      BY <1>0, <2>2, <3>1, WorksKept
  <2>4. LogoutExcused'
    BY <2>1 DEF Working, LogoutExcused
  <2> QED
    BY <2>3, <2>4 DEF Working
<1> QED
  BY <1>1, <1>2, <1>3, <1>4, <1>5, <1>6, <1>7, <1>8, Steps, WorkingRotate, WorkingPassword, WorkingAnswers

\* However the requests of its tabs overlap, a device keeps a session that
\* works: refreshSession of lib/api.ts and rotate of auth.service.ts leave it
\* with a live row or with the answer that brings one, but for a logout, a
\* password set, inactivity, a lost answer or an alarm.
THEOREM DevicesStaySignedIn == Spec => []NoDeviceLosesItsSession
<1>1. ASSUME Base, Working
      PROVE  NoDeviceLosesItsSession
  <2> SUFFICES ASSUME NEW d \in Device \ excused
               PROVE  \/ Live(cookie[d])
                      \/ \E t \in TabsOf(d) : ref[t].pc = "answered" /\ Live(ref[t].ans)
    BY DEF NoDeviceLosesItsSession
  <2>1. Live(cookie[d]) \/ \E t \in TabsOf(d) : Live(ref[t].ans)
    BY <1>1 DEF Working, Works
  <2>2. \A t \in TabsOf(d) : Live(ref[t].ans) => ref[t].pc = "answered"
    BY <1>1 DEF Base, Calls, CallsOf, TabsOf, Live
  <2> QED
    BY <2>1, <2>2
<1> QED
  BY <1>1, InitBase, NextBase, InitWorking, NextWorking, PTL DEF Spec
================================================================================
