------------------------------- MODULE Sessions -------------------------------
(***************************************************************************)
(* One account signed in on several devices: the session rows and the      *)
(* rotation of their tokens on the server, the cookie jar of each device,  *)
(* and the tabs that share a jar and refresh, log in, log out and change   *)
(* the password.  Sources: apps/backend/src/auth/ and, under               *)
(* apps/frontend/src/, lib/api.ts, context/AuthContext.tsx and the forms.  *)
(*                                                                         *)
(* A request is sent, checked against what the server reads, committed and *)
(* answered, each its own step.  Only the time limits the code compares    *)
(* with are kept: a revoked row is "recent" within REUSE_GRACE_MS and      *)
(* "old" after it, a row is "idle" past SESSION_INACTIVITY_MS and          *)
(* "expired" past SESSION_ABSOLUTE_MS.  A request lasts less than either.  *)
(***************************************************************************)
EXTENDS Integers, FiniteSets

CONSTANTS Tab, Device,
          MaxSessions,      \* bound: rows that are live or still referred to
          MaxAttempts,      \* REFRESH_MAX_ATTEMPTS
          MaxSubmits,       \* bound: forms submitted
          MaxLost           \* bound: answers lost on the network

ASSUME SessionsAssumption ==
    /\ {MaxSessions, MaxAttempts} \subseteq Nat \ {0}
    /\ {MaxSubmits, MaxLost} \subseteq Nat
    /\ IsFiniteSet(Device) /\ Cardinality(Device) <= MaxSessions     \* each may be signed in

VARIABLES sess,             \* row -> its state, the password it was proved with
          password,         \* User.passwordHash, a version
          link,             \* the password reset link: none, sent, used
          jar,              \* the device each tab's cookies belong to
          cookie,           \* per device: the row its session cookie names, or 0
          ref,              \* per tab: the refresh in flight
          act,              \* per tab: the form submitted, or the logout
          user,             \* per tab: AuthContext: loading, in, out
          submits, lost,
          \* What the properties remember.
          overtook,         \* rows made by a request that read before a change
          excused,          \* devices whose session was ended for cause
          blamed,           \* an answer was lost, or a revoked cookie kept
          alarm,            \* touchSession took a replay for a theft
          signedOut, raced  \* devices signed out; whose requests were not one by one

rows == <<sess, password, link>>
client == <<jar, cookie, ref, act, user, submits, lost>>
ghosts == <<overtook, excused, blamed, alarm, signedOut, raced>>
vars == <<rows, client, ghosts>>

Row == 1 .. MaxSessions
NoRow == [st |-> "expired", pw |-> 0]
NoRefresh == [pc |-> "idle", attempt |-> 0, sid |-> 0, pw |-> 0, ans |-> 0]
NoAct == [kind |-> "login", pc |-> "idle", sid |-> 0, pw |-> 0, ans |-> 0]

Live(s) == s # 0 /\ sess[s].st = "live"
TabsOf(d) == {t \in Tab : jar[t] = d}
\* A request of the tab is on its way, at the server or being answered.
InFlight(t) == ref[t].pc \in {"sent", "read", "answered"} \/ act[t].pc \in {"sent", "read", "answered"}
\* Rows some cookie or request names; the others may stand for new rows.
Named == {cookie[d] : d \in Device} \cup
         UNION {{ref[t].sid, ref[t].ans, act[t].sid, act[t].ans} : t \in Tab}
Fresh == {s \in Row : s \notin Named /\ sess[s].st # "live"}
Pending == {t \in Tab : ref[t].pc # "idle" /\ ref[t].ans = 0}
           \cup {t \in Tab : act[t].pc \in {"sent", "read"} /\ act[t].kind = "login"}
Room == Cardinality(Fresh) > Cardinality(Pending)
NewRow == CHOOSE s \in Fresh : \A r \in Fresh : s <= r

Revoke(S) == [s \in Row |-> IF s \in S /\ sess[s].st \in {"live", "idle"}
                            THEN [st |-> "recent", pw |-> 0] ELSE sess[s]]
\* A row that is not live and that nothing names any more is as good as gone.
Forget == sess' = [s \in Row |-> IF Live(s) \/ s \in Named' THEN sess[s] ELSE NoRow]
\* Devices whose cookie, or whose request in flight, is about to name a row of S.
Holding(S) == {d \in Device : cookie[d] \in S \/ \E t \in TabsOf(d) : InFlight(t)}

Init ==                     \* some devices are signed in already
    /\ jar \in [Tab -> Device]
    /\ cookie \in {c \in [Device -> 0 .. Cardinality(Device)] :
                      \A d, e \in Device : c[d] = c[e] => d = e \/ c[d] = 0}
    /\ sess = [s \in Row |-> IF \E d \in Device : cookie[d] = s THEN [st |-> "live", pw |-> 1] ELSE NoRow]
    /\ user = [t \in Tab |-> IF Live(cookie[jar[t]]) THEN "in" ELSE "out"]
    /\ signedOut = {d \in Device : cookie[d] = 0} /\ excused = signedOut
    /\ password = 1 /\ link = "none"
    /\ ref = [t \in Tab |-> NoRefresh]
    /\ act = [t \in Tab |-> NoAct]
    /\ submits = 0 /\ lost = 0
    /\ overtook = {} /\ blamed = FALSE /\ alarm = FALSE /\ raced = {}

\* A tab of a device sends a request while another of its requests is out, or
\* logs in not knowing of the session its jar holds: no answer signs that out.
Races(t, kind) == IF (\E u \in TabsOf(jar[t]) : InFlight(u)) \/ (kind = "login" /\ Live(cookie[jar[t]]))
                  THEN raced \cup {jar[t]} ELSE raced
-------------------------------------------------------------------------------
(* The client's refresh: single flight, retried with whatever cookie the   *)
(* jar holds by then.                                                       *)
attemptRefresh(t, n) ==
    /\ ref' = [ref EXCEPT ![t] = [pc |-> "sent", attempt |-> n, sid |-> cookie[jar[t]],
                               pw |-> 0, ans |-> 0]]
    /\ raced' = Races(t, "refresh")
    /\ UNCHANGED <<jar, rows, cookie, submits, lost, overtook, excused, blamed, alarm, signedOut>>

refreshSession(t) == ref[t].pc = "idle" /\ Room /\ attemptRefresh(t, 1)

\* The activity heartbeat, or apiFetch after a 401.
heartbeat(t) == user[t] = "in" /\ act[t].pc = "idle" /\ refreshSession(t) /\ UNCHANGED <<act, user>>

\* A page is loaded and AuthProvider mounts.  The requests of the page before
\* it were answered, or it holds the form that never came back.
AuthProvider(t) ==
    /\ act[t].pc \in {"idle", "stuck"} /\ user[t] # "loading"
    /\ refreshSession(t)
    /\ user' = [user EXCEPT ![t] = "loading"]
    /\ act' = [act EXCEPT ![t] = NoAct]

retryRefresh(t) ==
    /\ ref[t].pc = "wait" /\ attemptRefresh(t, ref[t].attempt + 1)
    /\ UNCHANGED <<act, user>>

attemptsLeft(t) == ref[t].attempt < MaxAttempts
refreshFailed(t, final) ==  \* no answer, or an answer that is not 200
    IF attemptsLeft(t)
    THEN /\ ref' = [ref EXCEPT ![t].pc = "wait", ![t].sid = 0, ![t].ans = 0]
         /\ UNCHANGED user
    ELSE /\ ref' = [ref EXCEPT ![t] = NoRefresh]
         /\ user' = [user EXCEPT ![t] = IF final \/ @ = "loading" THEN "out" ELSE @]

refreshAnswered(t) ==
    /\ ref[t].pc = "answered"
    /\ IF ref[t].ans # 0
       THEN /\ cookie' = [cookie EXCEPT ![jar[t]] = ref[t].ans]
            /\ user' = [user EXCEPT ![t] = "in"]
            /\ ref' = [ref EXCEPT ![t] = NoRefresh]
            /\ signedOut' = signedOut \ {jar[t]}
       ELSE refreshFailed(t, TRUE) /\ UNCHANGED <<cookie, signedOut>>
    /\ UNCHANGED <<jar, password, link, act, submits, lost, overtook, excused, blamed, alarm, raced>>
    /\ Forget

refreshLost(t) ==           \* the request or its answer, on the network
    /\ ref[t].pc \in {"sent", "answered"} /\ lost < MaxLost
    /\ lost' = lost + 1
    /\ refreshFailed(t, FALSE)
    /\ blamed' = TRUE /\ excused' = excused \cup {jar[t]}
    /\ UNCHANGED <<jar, password, link, cookie, act, submits, overtook, alarm, signedOut, raced>>
    /\ Forget
-------------------------------------------------------------------------------
(* touchSession: the row is read, then the rotation is one transaction.    *)
\* mutant: a token revoked a moment ago is a theft too.
graceNone(st) == st \in {"recent", "old"}
graceOver(st) == st = "old"

touchSession(t) ==
    LET s == ref[t].sid
        st == IF s = 0 THEN "none" ELSE sess[s].st
        theft == graceOver(st) IN
    /\ ref[t].pc = "sent"
    /\ ref' = [ref EXCEPT ![t].pc = IF st = "live" THEN "read" ELSE "answered",
                          ![t].pw = IF st = "live" THEN sess[s].pw ELSE 0]
    /\ sess' = CASE theft -> Revoke(Row) [] st = "idle" -> Revoke({s}) [] OTHER -> sess
    /\ alarm' = (alarm \/ theft)
    /\ excused' = CASE theft -> Device [] st = "idle" -> excused \cup Holding({s}) [] OTHER -> excused
    /\ blamed' = (blamed \/ st = "idle")
    /\ UNCHANGED <<jar, password, link, cookie, act, user, submits, lost, overtook, signedOut, raced>>

rotate(t) ==
    LET s == ref[t].sid IN
    /\ ref[t].pc = "read" /\ Fresh # {}
    /\ sess' = [sess EXCEPT ![s] = [st |-> "recent", pw |-> 0],
                               ![NewRow] = [st |-> "live", pw |-> ref[t].pw]]
    /\ ref' = [ref EXCEPT ![t].pc = "answered", ![t].pw = 0, ![t].ans = NewRow]
    /\ overtook' = IF ref[t].pw # password THEN overtook \cup {NewRow} ELSE overtook \ {NewRow}
    /\ UNCHANGED <<jar, password, link, cookie, act, user, submits, lost, excused, blamed, alarm, signedOut, raced>>
-------------------------------------------------------------------------------
(* The forms.  Each is offered to a tab in one state, and its request      *)
(* carries the device's cookie as it is when sent.                         *)
submit(t, kind) ==
    /\ act[t].pc = "idle" /\ ref[t].pc = "idle" /\ submits < MaxSubmits
    /\ act' = [act EXCEPT ![t] = [kind |-> kind, pc |-> "sent", sid |-> cookie[jar[t]],
                                  pw |-> password, ans |-> 0]]
    /\ submits' = submits + 1
    /\ raced' = Races(t, kind)
    /\ UNCHANGED <<jar, rows, cookie, ref, user, lost, overtook, excused, blamed, alarm, signedOut>>

LoginForm(t) == user[t] = "out" /\ Room /\ submit(t, "login")
Logout(t) == user[t] = "in" /\ submit(t, "logout")
ChangePasswordForm(t) == user[t] = "in" /\ submit(t, "change")
ResetPasswordPage(t) == link # "none" /\ submit(t, "reset")

forgotPassword ==
    /\ link = "none" /\ link' = "sent"
    /\ UNCHANGED <<sess, password, client, ghosts>>

reject(t) == act' = [act EXCEPT ![t].pc = "answered"] /\ UNCHANGED <<rows, ghosts>>
accept(t) == act' = [act EXCEPT ![t].pc = "read"] /\ UNCHANGED <<rows, ghosts>>

\* What a handler reads before it writes: the password it compares, the link.
checkCredentials(t) ==
    /\ act[t].pc = "sent" /\ act[t].kind # "logout"
    /\ IF \/ act[t].kind \in {"login", "change"} /\ act[t].pw = password
          \/ act[t].kind = "reset" /\ link = "sent"
       THEN accept(t) ELSE reject(t)
    /\ UNCHANGED <<jar, cookie, ref, user, submits, lost>>

login(t) ==                 \* createSession
    /\ act[t].kind = "login" /\ act[t].pc = "read" /\ Fresh # {}
    /\ sess' = [sess EXCEPT ![NewRow] = [st |-> "live", pw |-> act[t].pw]]
    /\ act' = [act EXCEPT ![t].pc = "answered", ![t].ans = NewRow]
    /\ overtook' = IF act[t].pw # password THEN overtook \cup {NewRow} ELSE overtook \ {NewRow}
    /\ UNCHANGED <<jar, password, link, cookie, ref, user, submits, lost, excused, blamed, alarm, signedOut, raced>>

logout(t) ==
    /\ act[t].kind = "logout" /\ act[t].pc = "sent"
    /\ sess' = Revoke({act[t].sid})
    /\ excused' = excused \cup Holding({act[t].sid})
    /\ act' = [act EXCEPT ![t].pc = "answered"]
    /\ UNCHANGED <<jar, password, link, cookie, ref, user, submits, lost, overtook, blamed, alarm, signedOut, raced>>

\* mutant: the token of the request is not passed on.
keptByNobody(t) == {}
\* The row a change of password leaves signed in.
keptBy(t) == IF act[t].kind = "change" THEN {act[t].sid} ELSE {}
\* mutant: only the password is written.
endedNone(t) == {}
ended(t) == Row \ keptBy(t)
\* A change of password that no other request of its device overlaps.
Undisturbed(t) ==
    /\ act[t].kind = "change" /\ cookie[jar[t]] = act[t].sid
    /\ \A u \in TabsOf(jar[t]) \ {t} : ~InFlight(u)
setPassword(t) ==           \* the transaction of changePassword and resetPassword
    /\ act[t].kind \in {"change", "reset"} /\ act[t].pc = "read"
    /\ password' = password + 1
    /\ link' = IF act[t].kind = "reset" THEN "used" ELSE link
    /\ sess' = [s \in Row |-> IF s \in ended(t) THEN Revoke(Row)[s]
                              ELSE [sess[s] EXCEPT !.pw = IF Live(s) /\ s \in keptBy(t) THEN password + 1 ELSE @]]
    /\ excused' = excused \cup (IF Undisturbed(t) THEN Holding(Row \ {act[t].sid}) \ {jar[t]} ELSE Holding(Row))
    /\ blamed' = TRUE
    /\ act' = [act EXCEPT ![t].pc = "answered", ![t].ans = -1]
    /\ UNCHANGED <<jar, cookie, ref, user, submits, lost, overtook, alarm, signedOut, raced>>

\* mutant: the cookie stays in the jar.
clearCookieLeft(t) == UNCHANGED cookie
clearCookie(t) == cookie' = [cookie EXCEPT ![jar[t]] = 0]
\* logout() of the AuthContext ignores what the answer says; a rejected form
\* shows its error; an accepted one sets the cookie and the user.
actAnswered(t) ==
    LET d == jar[t]
        alone == \A u \in TabsOf(d) \ {t} : ~InFlight(u) IN
    /\ act[t].pc = "answered"
    /\ act' = [act EXCEPT ![t] = NoAct]
    /\ \/ /\ act[t].kind = "logout" /\ clearCookie(t)
          /\ user' = [user EXCEPT ![t] = "out"]
          /\ signedOut' = signedOut \cup {d} /\ UNCHANGED excused
       \/ /\ act[t].kind = "login" /\ act[t].ans # 0
          /\ cookie' = [cookie EXCEPT ![d] = act[t].ans]
          /\ user' = [user EXCEPT ![t] = "in"]
          /\ signedOut' = signedOut \ {d}
          /\ excused' = IF alone /\ Live(act[t].ans) THEN excused \ {d} ELSE excused \cup {d}
       \/ /\ act[t].kind # "logout" /\ (act[t].kind = "login" => act[t].ans = 0)
          /\ UNCHANGED <<cookie, user, signedOut, excused>>
    /\ UNCHANGED <<jar, password, link, ref, submits, lost, overtook, blamed, alarm, raced>>
    /\ Forget

\* The login form catches a failed fetch; the two password forms do not, and
\* stay submitting until the page is loaded again.
actLost(t) ==
    /\ act[t].pc \in {"sent", "answered"} /\ lost < MaxLost
    /\ lost' = lost + 1
    /\ act' = [act EXCEPT ![t] = IF act[t].kind \in {"change", "reset"}
                                 THEN [NoAct EXCEPT !.pc = "stuck"] ELSE NoAct]
    /\ blamed' = TRUE /\ excused' = excused \cup {jar[t]}
    /\ UNCHANGED <<jar, password, link, cookie, ref, user, submits, overtook, alarm, signedOut, raced>>
    /\ Forget
-------------------------------------------------------------------------------
(* Time.  Nothing in flight is as old as the grace or the windows.          *)
Carried(s) == \E t \in Tab : (InFlight(t) \/ ref[t].pc = "wait") /\ (s \in {ref[t].sid, act[t].sid, ref[t].ans, act[t].ans} \/ cookie[jar[t]] = s)

pastGrace(s) ==
    /\ sess[s].st = "recent" /\ ~Carried(s)
    /\ sess' = [sess EXCEPT ![s].st = "old"]
    /\ UNCHANGED <<password, link, client, ghosts>>

pastWindow(s) ==            \* the inactivity window, or the 30 days
    /\ Live(s) /\ ~Carried(s)
    /\ \E st \in {"idle", "expired"} :
           sess' = [sess EXCEPT ![s] = IF s \in Named THEN [st |-> st, pw |-> 0] ELSE NoRow]
    /\ excused' = excused \cup Holding({s})
    /\ UNCHANGED <<password, link, client, overtook, blamed, alarm, signedOut, raced>>

Server(t) == touchSession(t) \/ rotate(t) \/ checkCredentials(t) \/ login(t) \/ logout(t) \/ setPassword(t)
Network(t) == refreshAnswered(t) \/ retryRefresh(t) \/ actAnswered(t)
Next ==
    \/ \E t \in Tab :
         \/ Server(t) \/ Network(t)
         \/ heartbeat(t) \/ AuthProvider(t) \/ refreshLost(t) \/ actLost(t)
         \/ LoginForm(t) \/ Logout(t) \/ ChangePasswordForm(t) \/ ResetPasswordPage(t)
    \/ forgotPassword
    \/ \E s \in Row : pastGrace(s) \/ pastWindow(s)

Spec == Init /\ [][Next]_vars
-------------------------------------------------------------------------------
\* However the requests of its tabs overlap, a device keeps a session that
\* works: the row its cookie names is live, or the answer that replaces the
\* cookie is on its way.  The excuses are a logout, a password set elsewhere or
\* while the device had a request out, inactivity, a lost answer, an alarm.
NoDeviceLosesItsSession ==
    \A d \in Device \ excused :
        \/ Live(cookie[d])
        \/ \E t \in TabsOf(d) : ref[t].pc = "answered" /\ Live(ref[t].ans)

\* Tabs that race to rotate one token are never taken for a theft: the branch
\* that revokes every session of the account is reached only by a token whose
\* successor was lost, or that a password change or inactivity revoked.
NoFalseAlarm == alarm => blamed

\* After a password change or reset no session that was proved with an older
\* password lives on, but for the row of a refresh or a login that had read
\* the account before the change and committed after it.
OnlyOvertakenSurvive ==
    \A s \in Row : Live(s) => sess[s].pw = password \/ s \in overtook

\* A logout that no other request of its device overlapped is final: the jar
\* is empty until the next login, and once every device is out, no row lives.
\* A login over a session that its tab did not know of leaves that one behind:
\* createSession adds a row, and the logout that follows ends the row it names.
SignedOutIsFinal ==
    /\ \A d \in signedOut \ raced : cookie[d] = 0
    /\ signedOut = Device /\ raced = {} /\ ~blamed /\ (\A t \in Tab : ~InFlight(t))
         => \A s \in Row : ~Live(s)

\* auth.service.ts:26-27 calls the sliding window "what makes 'logged out only
\* if inactive' actually true": checking one session ends no other live one.
\* The code ends them all when a device that was away for an hour is used
\* twice: its first check revokes the idle row and answers 401 without clearing
\* the cookie, and the page loaded next replays the row as an old one.
LoggedOutOnlyIfInactive ==
    [][\A t \in Tab : touchSession(t) => \A s \in Row : Live(s) => Live(s)']_vars
===============================================================================
