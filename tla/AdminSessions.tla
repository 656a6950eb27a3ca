--------------------------- MODULE AdminSessions ---------------------------
(***************************************************************************)
(* Administrator sessions end to end: browser tabs that share one cookie,  *)
(* the web server in front of the API, and the API's session rows, CSRF    *)
(* checks and login limiter.                                               *)
(*                                                                         *)
(* A tab has one request under way; each API transaction is one step and   *)
(* any answer may be lost on the way back.  A token is the number of the   *)
(* session row it opens; a CSRF token is the pair of the row and the time  *)
(* bucket it was signed for.  All tabs share one client address.           *)
(***************************************************************************)
EXTENDS Integers, Sequences, FiniteSets

CONSTANTS
    Tabs,          \* browser tabs
    Ops,           \* what tabs do: "login", "read", "retry", "logout"
    Passwords,     \* the passwords typed: TRUE is the right one
    RotationAge,   \* SESSION_ROTATION_AGE in ticks
    Lifetime,      \* SESSION_LIFETIME in ticks
    CsrfBucket,    \* CSRF_BUCKET_SECONDS in ticks
    LoginWindow,   \* LOGIN_FAILURE_WINDOW_SECONDS in ticks
    FailureLimit,  \* LOGIN_FAILURE_LIMIT
    MaxSessions,   \* bound on session rows
    MaxTime        \* bound on the clock

ASSUME SessionAssumption ==
    /\ RotationAge \in Nat \ {0} /\ Lifetime \in Nat /\ RotationAge < Lifetime
    /\ CsrfBucket \in Nat \ {0} /\ LoginWindow \in Nat \ {0}
    /\ FailureLimit \in Nat \ {0} /\ MaxSessions \in Nat /\ MaxTime \in Nat
    /\ IsFiniteSet(Tabs) /\ Passwords \subseteq BOOLEAN
    /\ Ops \subseteq {"login", "read", "retry", "logout"}

VARIABLES
    now,      \* the API's clock
    rows,     \* admin_sessions, in the order of creation
    fails,    \* login_rate_limits of the client: failure_count by bucket
    cookie,   \* the browser's session cookie, 0 when there is none
    tab,      \* what each tab's request is doing
    dropped,  \* an answer that changed the session was lost (history)
    ended,    \* logins whose logout the API accepted (history)
    tried     \* failed password checks by bucket since the last clear (history)

vars == <<now, rows, fails, cookie, tab, dropped, ended, tried>>

\* The login_rate_limits rows a client can have, by bucket_start.
Buckets == 0 .. MaxTime \div LoginWindow

NoCsrf  == [row |-> 0, bucket |-> 0]
Idle    == [op |-> "none", phase |-> "idle", token |-> 0, fresh |-> 0,
            csrf |-> NoCsrf, at |-> 0, why |-> "none"]

-----------------------------------------------------------------------------
(* Session rows *)

\* An admin_sessions row: the login it goes back to, created_at, revoked_at.
SessionRow == [login : Nat, issued : Nat, revoked : BOOLEAN]

\* _locked_row: the row of the token's digest
Found(s) == s \in DOMAIN rows

\* evaluate_session: the token's row exists, is not revoked and not expired
Live(s) == Found(s) /\ ~rows[s].revoked /\ now < rows[s].issued + Lifetime

RotationRequired(s) == now >= rows[s].issued + RotationAge

\* access: the replacement row and the revocation of the old one together
Appended(old, login) ==
    Append([s \in DOMAIN rows |->
                IF s = old THEN [rows[s] EXCEPT !.revoked = TRUE] ELSE rows[s]],
           [login |-> login, issued |-> now, revoked |-> FALSE])

-----------------------------------------------------------------------------
(* CSRF tokens *)

\* CsrfProtector.issue: the current bucket, signed for the row
Csrf(s) == [row |-> s, bucket |-> now \div CsrfBucket]

\* Mutant: only the bucket under way is accepted.
CsrfValidCurrent(s, csrf) == csrf.row = s /\ csrf.bucket = now \div CsrfBucket

\* CsrfProtector.verify: signed for this row, for this bucket or the one before
CsrfValid(s, csrf) ==
    /\ csrf.row = s
    /\ csrf.bucket \in {now \div CsrfBucket, now \div CsrfBucket - 1}

-----------------------------------------------------------------------------
(* Requests *)

\* A request leaves the tab with the cookie it finds in the jar; without a
\* cookie the routes answer 401 and the pages redirect to the login form.
Send(t, op) ==
    /\ tab[t].phase = "idle" /\ op \in Ops \ {"login"} /\ cookie # 0
    /\ tab' = [tab EXCEPT ![t] = [Idle EXCEPT !.op = op, !.phase = "sent", !.token = cookie]]
    /\ UNCHANGED <<now, rows, fails, cookie, dropped, ended, tried>>

\* The API refuses the request: the browser's answer is 401 or 403.
Refuse(t, why) == tab' = [tab EXCEPT ![t].phase = "refused", ![t].why = why]

\* The API rejects the web server's own service token before it looks at
\* anything else; the status is 401 as for a rejected session.
ServiceRefused(t) ==
    /\ tab[t].phase \in {"sent", "answered", "revoking"} /\ tab[t].op # "login"
    /\ tab[t].phase = "answered" => tab[t].op = "retry"
    /\ Refuse(t, "service")
    /\ UNCHANGED <<now, rows, fails, cookie, dropped, ended, tried>>

\* session: evaluate the row under its lock and rotate it when it is old
Access(t) ==
    /\ tab[t].phase = "sent"
    /\ LET s == tab[t].token IN
        \/ /\ ~Live(s) /\ Refuse(t, "session") /\ UNCHANGED rows
        \/ /\ Live(s) /\ ~RotationRequired(s)
           /\ tab' = [tab EXCEPT ![t].phase = "answered", ![t].csrf = Csrf(s), ![t].at = now]
           /\ UNCHANGED rows
        \/ /\ Live(s) /\ RotationRequired(s) /\ Len(rows) < MaxSessions
           /\ rows' = Appended(s, rows[s].login)
           /\ LET fresh == Len(rows) + 1 IN
              tab' = [tab EXCEPT ![t].phase = "answered", ![t].fresh = fresh,
                                 ![t].csrf = Csrf(fresh), ![t].at = now]
    /\ UNCHANGED <<now, fails, cookie, dropped, ended, tried>>

\* The session a request speaks for after access: the replacement if any.
Holder(t) == IF tab[t].fresh = 0 THEN tab[t].token ELSE tab[t].fresh

\* verify_csrf for a retry command, with the token of the answer just received
Authorize(t) ==
    /\ tab[t].op = "retry" /\ tab[t].phase = "answered"
    /\ IF Live(Holder(t)) /\ CsrfValid(Holder(t), tab[t].csrf)
       THEN tab' = [tab EXCEPT ![t].phase = "done"]
       ELSE Refuse(t, IF Live(Holder(t)) THEN "csrf" ELSE "session")
    /\ UNCHANGED <<now, rows, fails, cookie, dropped, ended, tried>>

\* The answer of a read or of an authorized retry reaches the browser, which
\* stores the replacement if there is one.  The logout button goes on.
Deliver(t) ==
    /\ \/ tab[t].op \in {"read", "logout"} /\ tab[t].phase = "answered"
       \/ tab[t].op \in {"retry", "login"} /\ tab[t].phase = "done"
    /\ cookie' = IF tab[t].fresh = 0 THEN cookie ELSE tab[t].fresh
    /\ tab' = [tab EXCEPT ![t] =
                  IF tab[t].op = "logout" THEN [tab[t] EXCEPT !.phase = "confirming"] ELSE Idle]
    /\ UNCHANGED <<now, rows, fails, dropped, ended, tried>>

\* A refusal reaches the browser.  The session, dashboard and retry routes
\* clear the cookie, whichever cookie that is by now; logout leaves it.
DeliverRefusal(t) ==
    /\ tab[t].phase = "refused"
    /\ cookie' = IF tab[t].op = "login" \/ tab[t].token = 0 THEN cookie ELSE 0
    /\ tab' = [tab EXCEPT ![t] = Idle]
    /\ UNCHANGED <<now, rows, fails, dropped, ended, tried>>

\* An answer is lost, or the web server's call times out after the API
\* committed, or a later call of the same route fails: no cookie is set.
Lose(t) ==
    /\ tab[t].phase \in {"sent", "answered", "done", "refused", "confirming", "revoked"}
    /\ dropped' = (dropped \/ (tab[t].fresh # 0 /\ tab[t].phase # "confirming")
                           \/ tab[t].phase = "revoked")
    /\ tab' = [tab EXCEPT ![t] = Idle]
    /\ UNCHANGED <<now, rows, fails, cookie, ended, tried>>

-----------------------------------------------------------------------------
(* Logout: a second request, with the cookie of that moment *)

PostLogout(t) ==
    /\ tab[t].phase = "confirming"
    /\ tab' = IF cookie = 0 THEN [tab EXCEPT ![t] = Idle]
              ELSE [tab EXCEPT ![t].phase = "revoking", ![t].token = cookie, ![t].fresh = 0]
    /\ UNCHANGED <<now, rows, fails, cookie, dropped, ended, tried>>

\* Mutant: logout checks the session but forgets the rotation that came after.
RevokeAnyRow(t) ==
    /\ tab[t].phase = "revoking" /\ CsrfValid(tab[t].token, tab[t].csrf)
    /\ ended' = ended \union {rows[tab[t].token].login}
    /\ rows' = [rows EXCEPT ![tab[t].token].revoked = TRUE]
    /\ tab' = [tab EXCEPT ![t].phase = "revoked"]
    /\ UNCHANGED <<now, fails, cookie, dropped, tried>>

\* revoke: session and CSRF under the row lock, then revoked_at
Revoke(t) ==
    /\ tab[t].phase = "revoking"
    /\ LET s == tab[t].token IN
       IF Live(s) /\ CsrfValid(s, tab[t].csrf)
       THEN /\ rows' = [rows EXCEPT ![s].revoked = TRUE]
            /\ ended' = ended \union {rows[s].login}
            /\ tab' = [tab EXCEPT ![t].phase = "revoked"]
       ELSE /\ tab' = [tab EXCEPT ![t] = Idle]     \* the button shows an error
            /\ UNCHANGED <<rows, ended>>
    /\ UNCHANGED <<now, fails, cookie, dropped, tried>>

DeliverLogout(t) ==
    /\ tab[t].phase = "revoked"
    /\ cookie' = 0
    /\ tab' = [tab EXCEPT ![t] = Idle]
    /\ UNCHANGED <<now, rows, fails, dropped, ended, tried>>

-----------------------------------------------------------------------------
(* Login: the limiter, the password and the session in transactions of
   their own, all with the clock read at the start *)

Bucket(at) == at \div LoginWindow

\* is_allowed; locked_until is the end of the bucket the count fills
LoginAllowed(at) == fails[Bucket(at)] < FailureLimit

StartLogin(t) ==
    /\ tab[t].phase = "idle" /\ "login" \in Ops
    /\ \/ /\ LoginAllowed(now)
          /\ \E right \in Passwords :
                tab' = [tab EXCEPT ![t] = [Idle EXCEPT !.op = "login", !.at = now,
                                 !.phase = IF right THEN "matched" ELSE "mismatched"]]
       \/ ~LoginAllowed(now) /\ UNCHANGED tab
    /\ UNCHANGED <<now, rows, fails, cookie, dropped, ended, tried>>

\* record_failure: the upsert increments the stored count
Counted(b) == fails[b] + 1

RecordFailure(t) ==
    /\ tab[t].phase = "mismatched"
    /\ LET b == Bucket(tab[t].at) IN
        /\ fails' = [fails EXCEPT ![b] = Counted(b)]
        /\ tried' = [tried EXCEPT ![b] = @ + 1]
    /\ tab' = [tab EXCEPT ![t] = Idle]
    /\ UNCHANGED <<now, rows, cookie, dropped, ended>>

\* clear: every row of the client
ClearFailures(t) ==
    /\ tab[t].phase = "matched"
    /\ fails' = [b \in Buckets |-> 0]
    /\ tried' = [b \in Buckets |-> 0]
    /\ tab' = [tab EXCEPT ![t].phase = "cleared"]
    /\ UNCHANGED <<now, rows, cookie, dropped, ended>>

\* create: a row of its own, whatever sessions exist already
CreateSession(t) ==
    /\ tab[t].phase = "cleared" /\ Len(rows) < MaxSessions
    /\ rows' = Append(rows, [login |-> Len(rows) + 1, issued |-> tab[t].at, revoked |-> FALSE])
    /\ tab' = [tab EXCEPT ![t].phase = "done", ![t].fresh = Len(rows) + 1]
    /\ UNCHANGED <<now, fails, cookie, dropped, ended, tried>>

Tick ==
    /\ now < MaxTime
    /\ now' = now + 1
    /\ UNCHANGED <<rows, fails, cookie, tab, dropped, ended, tried>>

-----------------------------------------------------------------------------

Init ==
    /\ now = 0 /\ rows = <<>> /\ cookie = 0 /\ dropped = FALSE /\ ended = {}
    /\ fails = [b \in Buckets |-> 0] /\ tried = [b \in Buckets |-> 0]
    /\ tab = [t \in Tabs |-> Idle]

Next ==
    \/ Tick
    \/ \E t \in Tabs :
        \/ \E op \in Ops : Send(t, op)
        \/ ServiceRefused(t) \/ Access(t) \/ Authorize(t)
        \/ Deliver(t) \/ DeliverRefusal(t) \/ Lose(t)
        \/ PostLogout(t) \/ Revoke(t) \/ DeliverLogout(t)
        \/ StartLogin(t) \/ RecordFailure(t) \/ ClearFailures(t) \/ CreateSession(t)

Spec == Init /\ [][Next]_vars

-----------------------------------------------------------------------------
(* Properties *)

TypeOK ==
    /\ now \in 0 .. MaxTime /\ rows \in Seq(SessionRow) /\ cookie \in 0 .. Len(rows)
    /\ \A s \in DOMAIN rows : rows[s].login \in 1 .. s /\ rows[s].issued \in 0 .. now
    /\ \A t \in Tabs : tab[t].token \in 0 .. Len(rows) /\ tab[t].fresh \in 0 .. Len(rows)
    /\ \A b \in Buckets : fails[b] \in Nat

\* However tabs race the rotation of one session, and whatever answers are
\* lost, one login never has two sessions that the API would accept: the
\* replacement is created and the old row revoked under one row lock.
OneLivePerLogin ==
    \A r, s \in DOMAIN rows : Live(r) /\ Live(s) /\ rows[r].login = rows[s].login => r = s

\* The cookie names a session the API still accepts, until that session
\* expires: a revoked one stays in the jar only while the answer that
\* replaces or clears it is under way, or after that answer was lost.
CookieNamesLiveSession ==
    cookie # 0 =>
        \/ Live(cookie)
        \/ now >= rows[cookie].issued + Lifetime
        \/ dropped
        \/ \E t \in Tabs :
              \/ tab[t].phase \in {"answered", "done", "refused"} /\ tab[t].fresh # 0
              \/ tab[t].phase = "revoked"

\* A retry command is refused for its CSRF token only when at least a whole
\* bucket passed since the web server received that token: crossing one
\* bucket boundary between the two calls of the route refuses nothing.
FreshCsrfAccepted ==
    [][\A t \in Tabs :
        tab[t].phase = "answered" /\ tab'[t].why = "csrf" =>
            now - tab[t].at >= CsrfBucket]_vars

\* Once the API accepted a logout, no session of that login is accepted
\* again, also when another tab rotated the session in between.
LogoutEndsLogin ==
    \A s \in DOMAIN rows : rows[s].login \in ended => ~Live(s)

\* Concurrent attempts pass the limiter before any of them has failed, so
\* the count can pass the limit, but by less than the number of tabs.
FailuresBounded == \A b \in Buckets : fails[b] < FailureLimit + Cardinality(Tabs)

\* No failure is lost when attempts race: the stored count is the number of
\* passwords that were rejected in the bucket since the last success.
FailuresCounted == \A b \in Buckets : fails[b] = tried[b]

\* What the session rows, the cookie and the limiter promise at every moment,
\* however tabs, rotations, lost answers and failed logins interleave.
SessionsSound ==
    /\ TypeOK
    /\ OneLivePerLogin
    /\ LogoutEndsLogin
    /\ CookieNamesLiveSession
    /\ FailuresBounded
    /\ FailuresCounted

=============================================================================
