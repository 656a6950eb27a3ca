---------------------------- MODULE AccessProofs ----------------------------
(***************************************************************************)
(* Who may act on the system, proved for every value of the constants:     *)
(* administrator sessions, service tokens and the leases of analysis       *)
(* workers are each sound, and share no state.                             *)
(***************************************************************************)
EXTENDS AdminSessions, ServiceTokens, AnalysisQueue,
        FiniteSetTheorems, SequenceTheorems, TLAPS

-----------------------------------------------------------------------------
(* Administrator sessions are sound for every number of tabs and sessions: *)
(* one live session per login, nothing survives a logout, the cookie names *)
(* a live session unless an answer is under way or was lost, and the login *)
(* limiter neither loses a failure nor lets more than one attempt per tab  *)
(* past its limit.                                                         *)

Phases == {"idle", "sent", "answered", "done", "refused", "confirming", "revoking", "revoked",
           "matched", "mismatched", "cleared"}
Whys   == {"none", "service", "session", "csrf"}
Csrfs  == [row : Nat, bucket : Int]

\* What a tab's request can be.
Request ==
    [op : Ops \cup {"none", "login"}, phase : Phases, token : Nat, fresh : Nat,
     csrf : Csrfs, at : Nat, why : Whys]

Columns ==
    /\ now \in 0 .. MaxTime
    /\ rows \in Seq(SessionRow)
    /\ tab \in [Tabs -> Request]
    /\ fails \in [Buckets -> Nat]

-----------------------------------------------------------------------------
(* Session rows *)

\* Sessions go back to logins no younger than they are, created in the past.
RowsInOrder ==
    \A s \in DOMAIN rows : rows[s].login >= 1 /\ rows[s].login <= s /\ rows[s].issued <= now

\* One login has at most one session that is not revoked, expired or not.
OneUnrevoked ==
    \A r, s \in DOMAIN rows :
        ~rows[r].revoked /\ ~rows[s].revoked /\ rows[r].login = rows[s].login => r = s

\* A login that was ended has no session left.
EndedRevoked ==
    /\ \A l \in ended : l \in 1 .. Len(rows)
    /\ \A s \in DOMAIN rows : rows[s].login \in ended => rows[s].revoked

RowInv == RowsInOrder /\ OneUnrevoked /\ EndedRevoked

\* What access leaves behind: the old row revoked, its replacement last.
LEMMA AppendedRows ==
    ASSUME rows \in Seq(SessionRow), now \in Nat, NEW old \in DOMAIN rows, NEW login \in Nat
    PROVE  LET new == Appended(old, login) IN
           /\ new \in Seq(SessionRow) /\ Len(new) = Len(rows) + 1
           /\ DOMAIN new = 1 .. Len(rows) + 1
           /\ \A s \in DOMAIN rows :
                 /\ new[s].login = rows[s].login /\ new[s].issued = rows[s].issued
                 /\ new[s].revoked <=> rows[s].revoked \/ s = old
           /\ new[Len(rows) + 1].login = login /\ new[Len(rows) + 1].issued = now
           /\ ~new[Len(rows) + 1].revoked
<1> DEFINE n == Len(rows)
           gone(s) == [rows[s] EXCEPT !.revoked = TRUE]
           kept == [s \in DOMAIN rows |-> IF s = old THEN gone(s) ELSE rows[s]]
           row == [login |-> login, issued |-> now, revoked |-> FALSE]
           new == Append(kept, row)
<1>0. n \in Nat /\ DOMAIN rows = 1 .. n BY LenProperties
<1>1. Appended(old, login) = new BY DEF Appended
<1>2. row \in SessionRow /\ row.login = login /\ row.issued = now /\ ~row.revoked
  BY DEF SessionRow
<1>3. ASSUME NEW s \in DOMAIN rows
      PROVE  /\ gone(s) \in SessionRow /\ gone(s).login = rows[s].login
             /\ gone(s).issued = rows[s].issued /\ gone(s).revoked
  <2>1. rows[s] \in SessionRow BY <1>0, ElementOfSeq
  <2> QED BY <2>1 DEF SessionRow
<1> HIDE DEF row, gone
<1>4. \A s \in 1 .. n : rows[s] \in SessionRow BY ElementOfSeq
<1>5. kept \in [1 .. n -> SessionRow] BY <1>0, <1>3, <1>4
<1>6. kept \in Seq(SessionRow) /\ DOMAIN kept = 1 .. n BY <1>0, <1>5, SeqDef
<1>7. Len(kept) = n BY <1>0, <1>6, LenProperties
<1>8. \A s \in DOMAIN rows : kept[s] = IF s = old THEN gone(s) ELSE rows[s] OBVIOUS
<1> HIDE DEF kept, n
<1>9. /\ new \in Seq(SessionRow) /\ Len(new) = n + 1
      /\ \A s \in 1 .. n : new[s] = kept[s]
      /\ new[n + 1] = row
  BY <1>0, <1>2, <1>6, <1>7
<1> HIDE DEF new
<1>10. DOMAIN new = 1 .. n + 1 BY <1>9, LenProperties
<1>11. ASSUME NEW s \in DOMAIN rows
       PROVE  /\ new[s].login = rows[s].login /\ new[s].issued = rows[s].issued
              /\ new[s].revoked <=> rows[s].revoked \/ s = old
  <2>1. new[s] = kept[s] BY <1>0, <1>9
  <2>2. CASE s = old
    <3>1. new[s] = gone(s) BY <2>1, <2>2, <1>8
    <3> QED BY <3>1, <2>2, <1>3
  <2>3. CASE s # old
    <3>1. new[s] = rows[s] BY <2>1, <2>3, <1>8
    <3> QED BY <3>1, <2>3
  <2> QED BY <2>2, <2>3
<1> QED BY <1>1, <1>2, <1>9, <1>10, <1>11 DEF n

\* What create leaves behind: one more row.
LEMMA CreatedRows ==
    ASSUME rows \in Seq(SessionRow), NEW row \in SessionRow
    PROVE  LET new == Append(rows, row) IN
           /\ new \in Seq(SessionRow) /\ Len(new) = Len(rows) + 1
           /\ DOMAIN new = 1 .. Len(rows) + 1
           /\ \A s \in DOMAIN rows : new[s] = rows[s]
           /\ new[Len(rows) + 1] = row
<1>0. Len(rows) \in Nat /\ DOMAIN rows = 1 .. Len(rows) BY LenProperties
<1>1. /\ Append(rows, row) \in Seq(SessionRow) /\ Len(Append(rows, row)) = Len(rows) + 1
      /\ \A s \in 1 .. Len(rows) : Append(rows, row)[s] = rows[s]
      /\ Append(rows, row)[Len(rows) + 1] = row
  OBVIOUS
<1>2. DOMAIN Append(rows, row) = 1 .. Len(rows) + 1 BY <1>1, LenProperties
<1> QED BY <1>0, <1>1, <1>2

\* What revoke leaves behind: one row revoked.
LEMMA RevokedRows ==
    ASSUME rows \in Seq(SessionRow), NEW old \in DOMAIN rows
    PROVE  LET new == [rows EXCEPT ![old].revoked = TRUE] IN
           /\ new \in Seq(SessionRow) /\ Len(new) = Len(rows) /\ DOMAIN new = DOMAIN rows
           /\ \A s \in DOMAIN rows :
                 /\ new[s].login = rows[s].login /\ new[s].issued = rows[s].issued
                 /\ new[s].revoked <=> rows[s].revoked \/ s = old
<1> DEFINE row == [rows[old] EXCEPT !.revoked = TRUE]
           new == [rows EXCEPT ![old] = row]
<1>0. Len(rows) \in Nat /\ DOMAIN rows = 1 .. Len(rows) BY LenProperties
<1>1. rows[old] \in SessionRow BY <1>0, ElementOfSeq
<1>2. /\ row \in SessionRow /\ row.login = rows[old].login
      /\ row.issued = rows[old].issued /\ row.revoked
  BY <1>1 DEF SessionRow
<1>3. [rows EXCEPT ![old].revoked = TRUE] = new OBVIOUS
<1> HIDE DEF row
<1>4. new \in Seq(SessionRow) /\ Len(new) = Len(rows) /\ DOMAIN new = DOMAIN rows
  BY <1>0, <1>2, ExceptSeq
<1>5. \A s \in DOMAIN rows : new[s] = IF s = old THEN row ELSE rows[s] OBVIOUS
<1> HIDE DEF new
<1>6. ASSUME NEW s \in DOMAIN rows
      PROVE  /\ new[s].login = rows[s].login /\ new[s].issued = rows[s].issued
             /\ new[s].revoked <=> rows[s].revoked \/ s = old
  <2>1. CASE s = old BY <2>1, <1>2, <1>5
  <2>2. CASE s # old BY <2>2, <1>5
  <2> QED BY <2>1, <2>2
<1> QED BY <1>3, <1>4, <1>6

-----------------------------------------------------------------------------
(* What the actions do to the request of a tab *)

\* A request with everything but its operation overwritten.
Overwritten(r, phase, token, fresh, csrf, at, why) ==
    [r EXCEPT !.phase = phase, !.token = token, !.fresh = fresh,
              !.csrf = csrf, !.at = at, !.why = why]

\* A request with new values is a request with these values.
LEMMA OverwrittenRequest ==
    ASSUME NEW r \in Request, NEW phase \in Phases, NEW token \in Nat, NEW fresh \in Nat,
           NEW csrf \in Csrfs, NEW at \in Nat, NEW why \in Whys
    PROVE  LET q == Overwritten(r, phase, token, fresh, csrf, at, why) IN
           /\ q \in Request /\ q.op = r.op /\ q.phase = phase /\ q.token = token
           /\ q.fresh = fresh /\ q.csrf = csrf /\ q.at = at /\ q.why = why
<1> DEFINE q1 == [r EXCEPT !.phase = phase]
           q2 == [q1 EXCEPT !.token = token]
           q3 == [q2 EXCEPT !.fresh = fresh]
           q4 == [q3 EXCEPT !.csrf = csrf]
           q5 == [q4 EXCEPT !.at = at]
           q6 == [q5 EXCEPT !.why = why]
<1>0. Overwritten(r, phase, token, fresh, csrf, at, why) = q6 BY DEF Overwritten
<1>1. q1 \in Request /\ q1.op = r.op /\ q1.phase = phase BY DEF Request
<1> HIDE DEF q1
<1>2. q2 \in Request /\ q2.op = r.op /\ q2.phase = phase /\ q2.token = token
  BY <1>1 DEF Request
<1> HIDE DEF q2
<1>3. /\ q3 \in Request /\ q3.op = r.op /\ q3.phase = phase /\ q3.token = token
      /\ q3.fresh = fresh
  BY <1>2 DEF Request
<1> HIDE DEF q3
<1>4. /\ q4 \in Request /\ q4.op = r.op /\ q4.phase = phase /\ q4.token = token
      /\ q4.fresh = fresh /\ q4.csrf = csrf
  BY <1>3 DEF Request
<1> HIDE DEF q4
<1>5. /\ q5 \in Request /\ q5.op = r.op /\ q5.phase = phase /\ q5.token = token
      /\ q5.fresh = fresh /\ q5.csrf = csrf /\ q5.at = at
  BY <1>4 DEF Request
<1> HIDE DEF q5
<1>6. /\ q6 \in Request /\ q6.op = r.op /\ q6.phase = phase /\ q6.token = token
      /\ q6.fresh = fresh /\ q6.csrf = csrf /\ q6.at = at /\ q6.why = why
  BY <1>5 DEF Request
<1> QED BY <1>0, <1>6

\* The request of one tab becomes another; the other tabs are left alone.
Becomes(t, op, phase, token, fresh, csrf, at, why) ==
    /\ tab' \in [Tabs -> Request]
    /\ tab'[t].op = op /\ tab'[t].phase = phase /\ tab'[t].token = token
    /\ tab'[t].fresh = fresh /\ tab'[t].csrf = csrf /\ tab'[t].at = at /\ tab'[t].why = why
    /\ \A u \in Tabs : u # t => tab'[u] = tab[u]

\* Overwriting the fields of one tab changes that tab only.
LEMMA RequestOverwritten ==
    ASSUME tab \in [Tabs -> Request], NEW t \in Tabs,
           NEW phase \in Phases, NEW token \in Nat, NEW fresh \in Nat,
           NEW csrf \in Csrfs, NEW at \in Nat, NEW why \in Whys,
           tab' = [tab EXCEPT ![t] = Overwritten(tab[t], phase, token, fresh, csrf, at, why)]
    PROVE  Becomes(t, tab[t].op, phase, token, fresh, csrf, at, why)
<1> DEFINE q == Overwritten(tab[t], phase, token, fresh, csrf, at, why)
<1>1. tab[t] \in Request OBVIOUS
<1>2. /\ q \in Request /\ q.op = tab[t].op /\ q.phase = phase /\ q.token = token
      /\ q.fresh = fresh /\ q.csrf = csrf /\ q.at = at /\ q.why = why
  BY <1>1, OverwrittenRequest
<1>3. tab' = [tab EXCEPT ![t] = q] OBVIOUS
<1> HIDE DEF q
<1> QED BY <1>2, <1>3 DEF Becomes

\* The fields of a tab without a request.
LEMMA IdleRequest ==
    /\ Idle \in Request /\ Idle.op = "none" /\ Idle.phase = "idle" /\ Idle.token = 0
    /\ Idle.fresh = 0 /\ Idle.csrf = NoCsrf /\ Idle.at = 0 /\ Idle.why = "none"
    /\ NoCsrf \in Csrfs
<1>1. NoCsrf \in Csrfs BY DEF NoCsrf, Csrfs
<1>2. /\ Idle.op = "none" /\ Idle.phase = "idle" /\ Idle.token = 0 /\ Idle.fresh = 0
      /\ Idle.csrf = NoCsrf /\ Idle.at = 0 /\ Idle.why = "none"
  BY DEF Idle
<1>4. "none" \in Ops \cup {"none", "login"} OBVIOUS
<1>5. "none" \in Whys /\ "idle" \in Phases BY DEF Whys, Phases
<1>6. 0 \in Nat OBVIOUS
<1> HIDE DEF NoCsrf, Csrfs
<1>3. Idle \in Request BY <1>1, <1>4, <1>5, <1>6 DEF Idle, Request
<1> QED BY <1>1, <1>2, <1>3

\* Ending a request empties one tab.
LEMMA RequestEnds ==
    ASSUME tab \in [Tabs -> Request], NEW t \in Tabs, tab' = [tab EXCEPT ![t] = Idle]
    PROVE  Becomes(t, "none", "idle", 0, 0, NoCsrf, 0, "none")
  BY IdleRequest DEF Becomes

\* A request starts afresh: the fields not named are those of Idle.
LEMMA RequestStarts ==
    ASSUME tab \in [Tabs -> Request], NEW t \in Tabs,
           NEW q1 \in Request, NEW phase \in Phases, NEW token \in Nat, NEW at \in Nat,
           tab' = [tab EXCEPT ![t] = Overwritten(q1, phase, token, 0, NoCsrf, at, "none")]
    PROVE  Becomes(t, q1.op, phase, token, 0, NoCsrf, at, "none")
<1> DEFINE q == Overwritten(q1, phase, token, 0, NoCsrf, at, "none")
<1>2. "none" \in Whys /\ 0 \in Nat BY DEF Whys
<1>5. NoCsrf \in Csrfs BY IdleRequest
<1>3. /\ q \in Request /\ q.op = q1.op /\ q.phase = phase /\ q.token = token
      /\ q.fresh = 0 /\ q.csrf = NoCsrf /\ q.at = at /\ q.why = "none"
  BY <1>2, <1>5, OverwrittenRequest
<1>4. tab' = [tab EXCEPT ![t] = q] OBVIOUS
<1> HIDE DEF q
<1> QED BY <1>3, <1>4 DEF Becomes

\* The types of the fields of a request.
LEMMA RequestFields ==
    ASSUME tab \in [Tabs -> Request], NEW t \in Tabs
    PROVE  /\ tab[t].phase \in Phases /\ tab[t].token \in Nat /\ tab[t].fresh \in Nat
           /\ tab[t].csrf \in Csrfs /\ tab[t].at \in Nat /\ tab[t].why \in Whys
           /\ tab[t].op \in Ops \cup {"none", "login"}
  BY DEF Request

-----------------------------------------------------------------------------
(* The actions, by what they do to the request of their tab *)

\* A request is sent with the cookie of the moment.
LEMMA SendEffect ==
    ASSUME Columns, cookie \in Nat, NEW t \in Tabs, NEW op \in Ops, Send(t, op)
    PROVE  /\ tab[t].phase = "idle" /\ op # "login" /\ cookie # 0
           /\ Becomes(t, op, "sent", cookie, 0, NoCsrf, 0, "none")
<1> DEFINE q1 == [Idle EXCEPT !.op = op]
           q  == [Idle EXCEPT !.op = op, !.phase = "sent", !.token = cookie]
<1>1. /\ tab[t].phase = "idle" /\ op # "login" /\ cookie # 0
      /\ tab' = [tab EXCEPT ![t] = q]
  BY DEF Send
<1>2. /\ q1 \in Request /\ q1.op = op /\ q1.fresh = 0 /\ q1.csrf = NoCsrf /\ q1.at = 0 /\ q1.why = "none"
  BY IdleRequest DEF Request
<1>3. q = [q1 EXCEPT !.phase = "sent", !.token = cookie] OBVIOUS
<1> HIDE DEF q1, q
<1>4. q = Overwritten(q1, "sent", cookie, 0, NoCsrf, 0, "none")
  BY <1>2, <1>3 DEF Overwritten, Request
<1>5. tab \in [Tabs -> Request] /\ "sent" \in Phases /\ 0 \in Nat BY DEF Columns, Phases
<1> QED BY <1>1, <1>2, <1>4, <1>5, RequestStarts

\* A login is matched or mismatched only if the limiter allows it.
LEMMA StartLoginEffect ==
    ASSUME Columns, NEW t \in Tabs, StartLogin(t)
    PROVE  /\ tab[t].phase = "idle"
           /\ \/ /\ LoginAllowed(now)
                 /\ \/ Becomes(t, "login", "matched", 0, 0, NoCsrf, now, "none")
                    \/ Becomes(t, "login", "mismatched", 0, 0, NoCsrf, now, "none")
              \/ tab' = tab
<1>0. tab \in [Tabs -> Request] /\ now \in Nat /\ 0 \in Nat
  BY DEF Columns, SessionAssumption
<1>1. CASE tab' = tab BY <1>1 DEF StartLogin
<1>2. CASE tab' # tab
  <2>1. PICK right \in Passwords :
            tab' = [tab EXCEPT ![t] = [Idle EXCEPT !.op = "login", !.at = now,
                                 !.phase = IF right THEN "matched" ELSE "mismatched"]]
    BY <1>2 DEF StartLogin
  <2> DEFINE phase == IF right THEN "matched" ELSE "mismatched"
             q1 == [Idle EXCEPT !.op = "login"]
             q  == [Idle EXCEPT !.op = "login", !.at = now, !.phase = phase]
  <2>2. /\ q1 \in Request /\ q1.op = "login" /\ q1.fresh = 0 /\ q1.csrf = NoCsrf /\ q1.token = 0
        /\ q1.why = "none"
    BY IdleRequest DEF Request
  <2>3. phase \in Phases /\ (phase = "matched" \/ phase = "mismatched") BY DEF Phases
  <2>4. tab' = [tab EXCEPT ![t] = q] BY <2>1
  <2>5. q = [q1 EXCEPT !.at = now, !.phase = phase] OBVIOUS
  <2> HIDE DEF q, q1, phase
  <2>6. q = Overwritten(q1, phase, 0, 0, NoCsrf, now, "none")
    BY <2>2, <2>5 DEF Overwritten, Request
  <2>7. Becomes(t, "login", phase, 0, 0, NoCsrf, now, "none")
    BY <1>0, <2>2, <2>3, <2>4, <2>6, RequestStarts
  <2>8. tab[t].phase = "idle" /\ LoginAllowed(now) BY <1>2 DEF StartLogin
  <2> QED BY <2>3, <2>7, <2>8
<1> QED BY <1>1, <1>2

\* Only the phase changes.
LEMMA PhaseMoves ==
    ASSUME Columns, NEW t \in Tabs, NEW phase \in Phases,
           tab' = [tab EXCEPT ![t].phase = phase]
    PROVE  Becomes(t, tab[t].op, phase, tab[t].token, tab[t].fresh, tab[t].csrf, tab[t].at,
                   tab[t].why)
<1> DEFINE r == tab[t]
           q == [r EXCEPT !.phase = phase]
<1>0. /\ tab \in [Tabs -> Request] /\ r \in Request
      /\ r.token \in Nat /\ r.fresh \in Nat /\ r.csrf \in Csrfs /\ r.at \in Nat
      /\ r.why \in Whys
  BY RequestFields DEF Columns
<1>1. tab' = [tab EXCEPT ![t] = q] BY <1>0
<1>2. q = Overwritten(r, phase, r.token, r.fresh, r.csrf, r.at, r.why)
  BY <1>0 DEF Overwritten, Request
<1> QED BY <1>0, <1>1, <1>2, RequestOverwritten

\* The phase and the reason change.
LEMMA RefuseMoves ==
    ASSUME Columns, NEW t \in Tabs, NEW why \in Whys, Refuse(t, why)
    PROVE  Becomes(t, tab[t].op, "refused", tab[t].token, tab[t].fresh, tab[t].csrf, tab[t].at,
                   why)
<1> DEFINE r == tab[t]
           q == [r EXCEPT !.phase = "refused", !.why = why]
<1>0. /\ tab \in [Tabs -> Request] /\ r \in Request /\ "refused" \in Phases
      /\ r.token \in Nat /\ r.fresh \in Nat /\ r.csrf \in Csrfs /\ r.at \in Nat
  BY RequestFields DEF Columns, Phases
<1>1. tab' = [tab EXCEPT ![t] = q] BY <1>0 DEF Refuse
<1>2. q = Overwritten(r, "refused", r.token, r.fresh, r.csrf, r.at, why)
  BY <1>0 DEF Overwritten, Request
<1> QED BY <1>0, <1>1, <1>2, RequestOverwritten

\* What the API does with the session of a request.
LEMMA AccessEffect ==
    ASSUME Columns, NEW t \in Tabs, Access(t)
    PROVE  LET s == tab[t].token IN
           /\ tab[t].phase = "sent"
           /\ \/ /\ rows' = rows
                 /\ Becomes(t, tab[t].op, "refused", s, tab[t].fresh, tab[t].csrf, tab[t].at,
                            "session")
              \/ /\ rows' = rows /\ Live(s)
                 /\ Becomes(t, tab[t].op, "answered", s, tab[t].fresh, Csrf(s), now, tab[t].why)
              \/ /\ Live(s) /\ rows' = Appended(s, rows[s].login)
                 /\ Becomes(t, tab[t].op, "answered", s, Len(rows) + 1, Csrf(Len(rows) + 1), now,
                            tab[t].why)
<1> DEFINE r == tab[t]
           s == r.token
           fresh == Len(rows) + 1
<1>0. /\ tab \in [Tabs -> Request] /\ r \in Request /\ r.phase = "sent"
      /\ now \in Nat /\ Len(rows) \in Nat
      /\ r.token \in Nat /\ r.fresh \in Nat /\ r.at \in Nat /\ r.why \in Whys
      /\ "answered" \in Phases /\ "session" \in Whys
  BY LenProperties, RequestFields DEF Columns, SessionAssumption, Access, Phases, Whys
<1>1. \A i \in Nat : Csrf(i) \in Csrfs
  <2>1. now \div CsrfBucket \in Int BY <1>0, SessionAssumption
  <2> QED BY <2>1 DEF Csrf, Csrfs
<1>2. CASE Refuse(t, "session") /\ rows' = rows
  BY <1>0, <1>2, RefuseMoves
<1>3. CASE /\ Live(s) /\ rows' = rows
           /\ tab' = [tab EXCEPT ![t].phase = "answered", ![t].csrf = Csrf(s), ![t].at = now]
  <2> DEFINE q == [r EXCEPT !.phase = "answered", !.csrf = Csrf(s), !.at = now]
  <2>1. tab' = [tab EXCEPT ![t] = q] BY <1>0, <1>3
  <2>2. Csrf(s) \in Csrfs BY <1>0, <1>1
  <2>3. q = Overwritten(r, "answered", s, r.fresh, Csrf(s), now, r.why)
    BY <1>0, <2>2 DEF Overwritten, Request
  <2>4. Becomes(t, r.op, "answered", s, r.fresh, Csrf(s), now, r.why)
    BY <1>0, <2>1, <2>2, <2>3, RequestOverwritten
  <2> QED BY <1>0, <1>3, <2>4
<1>4. CASE /\ Live(s) /\ rows' = Appended(s, rows[s].login)
           /\ tab' = [tab EXCEPT ![t].phase = "answered", ![t].fresh = fresh,
                                 ![t].csrf = Csrf(fresh), ![t].at = now]
  <2>0. fresh \in Nat BY <1>0
  <2> HIDE DEF fresh
  <2> DEFINE q == [r EXCEPT !.phase = "answered", !.fresh = fresh, !.csrf = Csrf(fresh), !.at = now]
  <2>1. tab' = [tab EXCEPT ![t] = q] BY <1>0, <1>4
  <2>2. Csrf(fresh) \in Csrfs BY <1>1, <2>0
  <2>3. q = Overwritten(r, "answered", s, fresh, Csrf(fresh), now, r.why)
    BY <1>0, <2>0, <2>2 DEF Overwritten, Request
  <2>4. Becomes(t, r.op, "answered", s, fresh, Csrf(fresh), now, r.why)
    BY <1>0, <2>0, <2>1, <2>2, <2>3, RequestOverwritten
  <2> QED BY <1>0, <1>4, <2>4 DEF fresh
<1> QED BY <1>2, <1>3, <1>4 DEF Access

\* A retry is done or refused for its session or its CSRF token.
LEMMA AuthorizeEffect ==
    ASSUME Columns, NEW t \in Tabs, Authorize(t)
    PROVE  LET r == tab[t] IN
           /\ r.phase = "answered" /\ r.op = "retry"
           /\ \/ Becomes(t, r.op, "done", r.token, r.fresh, r.csrf, r.at, r.why)
              \/ Becomes(t, r.op, "refused", r.token, r.fresh, r.csrf, r.at, "session")
              \/ /\ Live(Holder(t)) /\ ~CsrfValid(Holder(t), r.csrf)
                 /\ Becomes(t, r.op, "refused", r.token, r.fresh, r.csrf, r.at, "csrf")
<1>0. tab[t].phase = "answered" /\ tab[t].op = "retry" BY DEF Authorize
<1>1. "done" \in Phases /\ "session" \in Whys /\ "csrf" \in Whys BY DEF Phases, Whys
<1>2. CASE tab' = [tab EXCEPT ![t].phase = "done"] BY <1>0, <1>1, <1>2, PhaseMoves
<1>3. CASE Refuse(t, "session") BY <1>0, <1>1, <1>3, RefuseMoves
<1>4. CASE Live(Holder(t)) /\ ~CsrfValid(Holder(t), tab[t].csrf) /\ Refuse(t, "csrf")
  BY <1>0, <1>1, <1>4, RefuseMoves
<1> QED BY <1>2, <1>3, <1>4 DEF Authorize

\* A confirmed logout revokes the session of the cookie, if any.
LEMMA PostLogoutEffect ==
    ASSUME Columns, cookie \in Nat, NEW t \in Tabs, PostLogout(t)
    PROVE  LET r == tab[t] IN
           /\ r.phase = "confirming"
           /\ \/ Becomes(t, "none", "idle", 0, 0, NoCsrf, 0, "none")
              \/ cookie # 0 /\ Becomes(t, r.op, "revoking", cookie, 0, r.csrf, r.at, r.why)
<1> DEFINE r == tab[t]
           q == [r EXCEPT !.phase = "revoking", !.token = cookie, !.fresh = 0]
<1>0. /\ tab \in [Tabs -> Request] /\ r \in Request /\ r.phase = "confirming"
      /\ r.csrf \in Csrfs /\ r.at \in Nat /\ r.why \in Whys
      /\ "revoking" \in Phases /\ 0 \in Nat
  BY RequestFields DEF Columns, PostLogout, Phases
<1>1. CASE cookie = 0
  <2>1. tab' = [tab EXCEPT ![t] = Idle] BY <1>1 DEF PostLogout
  <2> QED BY <1>0, <2>1, RequestEnds
<1>2. CASE cookie # 0
  <2>1. tab' = [tab EXCEPT ![t] = q] BY <1>0, <1>2 DEF PostLogout
  <2>2. q = Overwritten(r, "revoking", cookie, 0, r.csrf, r.at, r.why)
    BY <1>0 DEF Overwritten, Request
  <2>3. Becomes(t, r.op, "revoking", cookie, 0, r.csrf, r.at, r.why)
    BY <1>0, <2>1, <2>2, RequestOverwritten
  <2> QED BY <1>0, <1>2, <2>3
<1> QED BY <1>1, <1>2

\* A login that cleared its failures appends a session of its own.
LEMMA CreateSessionEffect ==
    ASSUME Columns, NEW t \in Tabs, CreateSession(t)
    PROVE  LET r == tab[t] IN
           /\ r.phase = "cleared"
           /\ rows' = Append(rows, [login |-> Len(rows) + 1, issued |-> r.at, revoked |-> FALSE])
           /\ Becomes(t, r.op, "done", r.token, Len(rows) + 1, r.csrf, r.at, r.why)
<1> DEFINE r == tab[t]
           fresh == Len(rows) + 1
           q == [r EXCEPT !.phase = "done", !.fresh = fresh]
<1>0. /\ tab \in [Tabs -> Request] /\ r \in Request /\ r.phase = "cleared"
      /\ r.token \in Nat /\ r.csrf \in Csrfs /\ r.at \in Nat /\ r.why \in Whys
      /\ "done" \in Phases /\ Len(rows) \in Nat
  BY LenProperties, RequestFields DEF Columns, CreateSession, Phases
<1>1. /\ tab' = [tab EXCEPT ![t] = q]
      /\ rows' = Append(rows, [login |-> fresh, issued |-> r.at, revoked |-> FALSE])
  BY <1>0 DEF CreateSession
<1>2. fresh \in Nat BY <1>0
<1> HIDE DEF fresh
<1>3. q = Overwritten(r, "done", r.token, fresh, r.csrf, r.at, r.why)
  BY <1>0, <1>2 DEF Overwritten, Request
<1>4. Becomes(t, r.op, "done", r.token, fresh, r.csrf, r.at, r.why)
  BY <1>0, <1>1, <1>2, <1>3, RequestOverwritten
<1> QED BY <1>0, <1>1, <1>4 DEF fresh

-----------------------------------------------------------------------------
(* The invariant *)

\* An answer on its way that carries a replacement session.
Pending(t) == tab[t].phase \in {"answered", "done", "refused"} /\ tab[t].fresh # 0

\* What every phase of a request says of its other fields.
Good(t) ==
    /\ tab[t].token <= Len(rows) /\ tab[t].fresh <= Len(rows) /\ tab[t].at <= now
    /\ tab[t].phase \in {"idle", "sent", "revoking", "revoked", "matched", "mismatched",
                         "cleared"} => tab[t].fresh = 0
    /\ tab[t].phase \in {"sent", "answered", "refused", "revoking", "confirming"} =>
          tab[t].op # "login"
    /\ tab[t].phase \in {"sent", "answered", "refused", "revoking"} => tab[t].token # 0
    /\ tab[t].phase \in {"matched", "mismatched", "cleared"} => tab[t].token = 0
    /\ tab[t].phase # "refused" => tab[t].why = "none"
    /\ tab[t].phase = "answered" =>
          tab[t].csrf.row = Holder(t) /\ tab[t].csrf.bucket = tab[t].at \div CsrfBucket

TabsGood == \A t \in Tabs : Good(t)

\* A replacement under way is not revoked and known to nobody else.
FreshOwned ==
    \A t \in Tabs : Pending(t) =>
        /\ ~rows[tab[t].fresh].revoked
        /\ cookie # tab[t].fresh
        /\ \A u \in Tabs :
              /\ tab[u].token # tab[t].fresh
              /\ u # t /\ Pending(u) => tab[u].fresh # tab[t].fresh

\* The cookie names a session that is not revoked, unless the answer that
\* replaces or clears it is under way or was lost.
CookieCovered ==
    /\ cookie \in Nat /\ cookie <= Len(rows)
    /\ cookie # 0 =>
          \/ ~rows[cookie].revoked
          \/ dropped
          \/ \E t \in Tabs : Pending(t) \/ tab[t].phase = "revoked"

\* Attempts whose failure is not counted yet.
Attempts(b) == {t \in Tabs : tab[t].phase = "mismatched" /\ Bucket(tab[t].at) = b}

\* The limit is passed by attempts that were under way, one per tab.
LimiterInv ==
    /\ tried = fails
    /\ \A b \in Buckets :
          fails[b] + Cardinality(Attempts(b)) < FailureLimit + Cardinality(Tabs)

SessionInv ==
    /\ Columns
    /\ RowInv
    /\ TabsGood
    /\ FreshOwned
    /\ CookieCovered
    /\ LimiterInv

-----------------------------------------------------------------------------
(* Facts about one step *)

\* The column types, spelled out.
LEMMA SessionFacts ==
    ASSUME SessionInv
    PROVE  /\ Columns /\ tab \in [Tabs -> Request] /\ rows \in Seq(SessionRow)
           /\ now \in Nat /\ cookie \in Nat
           /\ Len(rows) \in Nat /\ DOMAIN rows = 1 .. Len(rows)
           /\ \A s \in DOMAIN rows :
                 rows[s] \in SessionRow /\ rows[s].login \in Nat /\ rows[s].issued \in Nat
           /\ \A t \in Tabs :
                 tab[t].token \in Nat /\ tab[t].fresh \in Nat /\ tab[t].at \in Nat
<1>1. Columns /\ cookie \in Nat BY DEF SessionInv, CookieCovered
<1>2. tab \in [Tabs -> Request] /\ rows \in Seq(SessionRow) /\ now \in Nat
  BY <1>1, SessionAssumption DEF Columns
<1>3. Len(rows) \in Nat /\ DOMAIN rows = 1 .. Len(rows) BY <1>2, LenProperties
<1>4. \A s \in DOMAIN rows : rows[s] \in SessionRow BY <1>2, <1>3, ElementOfSeq
<1>5. \A s \in DOMAIN rows : rows[s].login \in Nat /\ rows[s].issued \in Nat
  BY <1>4 DEF SessionRow
<1>6. \A t \in Tabs : tab[t].token \in Nat /\ tab[t].fresh \in Nat /\ tab[t].at \in Nat
  BY <1>2, RequestFields
<1> QED BY <1>1, <1>2, <1>3, <1>4, <1>5, <1>6

\* One tab moves, the sessions stay and at most the cookie is cleared.
LEMMA CookieQuiet ==
    ASSUME SessionInv, NEW t \in Tabs, rows' = rows,
           \A u \in Tabs : u # t => tab'[u] = tab[u],
           cookie' = cookie \/ cookie' = 0,
           dropped => dropped',
           tab'[t].token = tab[t].token \/ tab'[t].token = 0 \/ tab'[t].token = cookie,
           Pending(t)' => Pending(t) /\ tab'[t].fresh = tab[t].fresh,
           (Pending(t) \/ tab[t].phase = "revoked") /\ cookie' # 0 => Pending(t)' \/ dropped'
    PROVE  FreshOwned' /\ CookieCovered'
<1>1. FreshOwned'
  <2> SUFFICES ASSUME NEW u \in Tabs, Pending(u)'
               PROVE  /\ ~rows'[tab'[u].fresh].revoked
                      /\ cookie' # tab'[u].fresh
                      /\ \A v \in Tabs :
                            /\ tab'[v].token # tab'[u].fresh
                            /\ v # u /\ Pending(v)' => tab'[v].fresh # tab'[u].fresh
    BY DEF FreshOwned
  <2>1. Pending(u) /\ tab'[u].fresh = tab[u].fresh /\ tab[u].fresh # 0 BY DEF Pending
  <2>2. ~rows[tab[u].fresh].revoked /\ cookie # tab[u].fresh
    BY <2>1 DEF SessionInv, FreshOwned
  <2>3. ASSUME NEW v \in Tabs PROVE tab'[v].token # tab[u].fresh
    <3>1. tab[v].token # tab[u].fresh BY <2>1 DEF SessionInv, FreshOwned
    <3> QED BY <2>1, <2>2, <3>1
  <2>4. ASSUME NEW v \in Tabs, v # u, Pending(v)' PROVE tab'[v].fresh # tab[u].fresh
    <3>1. Pending(v) /\ tab'[v].fresh = tab[v].fresh BY <2>4 DEF Pending
    <3> QED BY <2>1, <2>4, <3>1 DEF SessionInv, FreshOwned
  <2> QED BY <2>1, <2>2, <2>3, <2>4
<1>2. CookieCovered'
  <2>1. cookie' \in Nat /\ cookie' <= Len(rows') BY SessionFacts DEF SessionInv, CookieCovered
  <2>2. ASSUME cookie' # 0, ~dropped', rows'[cookie'].revoked
        PROVE  \E u \in Tabs : Pending(u)' \/ tab'[u].phase = "revoked"
    <3>1. cookie' = cookie /\ rows[cookie].revoked /\ ~dropped BY <2>2
    <3>2. PICK u \in Tabs : Pending(u) \/ tab[u].phase = "revoked"
      BY <2>2, <3>1 DEF SessionInv, CookieCovered
    <3>3. CASE u = t BY <2>2, <3>2, <3>3
    <3>4. CASE u # t BY <3>2, <3>4 DEF Pending
    <3> QED BY <3>3, <3>4
  <2> QED BY <2>1, <2>2 DEF CookieCovered
<1> QED BY <1>1, <1>2

\* The answer with the replacement arrives.
LEMMA CookieDelivered ==
    ASSUME SessionInv, NEW t \in Tabs, rows' = rows,
           \A u \in Tabs : u # t => tab'[u] = tab[u],
           Pending(t), ~Pending(t)', cookie' = tab[t].fresh,
           tab'[t].token = tab[t].token \/ tab'[t].token = 0
    PROVE  FreshOwned' /\ CookieCovered'
<1>1. FreshOwned'
  <2> SUFFICES ASSUME NEW u \in Tabs, Pending(u)'
               PROVE  /\ ~rows'[tab'[u].fresh].revoked
                      /\ cookie' # tab'[u].fresh
                      /\ \A v \in Tabs :
                            /\ tab'[v].token # tab'[u].fresh
                            /\ v # u /\ Pending(v)' => tab'[v].fresh # tab'[u].fresh
    BY DEF FreshOwned
  <2>1. u # t /\ Pending(u) /\ tab'[u].fresh = tab[u].fresh /\ tab[u].fresh # 0
    BY DEF Pending
  <2>2. ~rows[tab[u].fresh].revoked /\ tab[t].fresh # tab[u].fresh
    BY <2>1 DEF SessionInv, FreshOwned
  <2>3. ASSUME NEW v \in Tabs PROVE tab'[v].token # tab[u].fresh
    <3>1. tab[v].token # tab[u].fresh BY <2>1 DEF SessionInv, FreshOwned
    <3> QED BY <2>1, <2>2, <3>1
  <2>4. ASSUME NEW v \in Tabs, v # u, Pending(v)' PROVE tab'[v].fresh # tab[u].fresh
    <3>1. Pending(v) /\ tab'[v].fresh = tab[v].fresh BY <2>4 DEF Pending
    <3> QED BY <2>1, <2>4, <3>1 DEF SessionInv, FreshOwned
  <2> QED BY <2>1, <2>2, <2>3, <2>4
<1>2. CookieCovered'
  <2>1. /\ tab[t].fresh \in Nat /\ tab[t].fresh <= Len(rows)
        /\ ~rows[tab[t].fresh].revoked
    BY SessionFacts DEF SessionInv, TabsGood, Good, FreshOwned
  <2> QED BY <2>1 DEF CookieCovered
<1> QED BY <1>1, <1>2

\* A new session is created, for a login or in place of an old one.
LEMMA CookieReplaced ==
    ASSUME SessionInv, NEW t \in Tabs,
           \A u \in Tabs : u # t => tab'[u] = tab[u],
           cookie' = cookie, Len(rows') = Len(rows) + 1,
           \A s \in DOMAIN rows : rows'[s].revoked <=> rows[s].revoked \/ s = tab[t].token,
           ~rows'[Len(rows) + 1].revoked,
           Pending(t)', tab'[t].fresh = Len(rows) + 1, tab'[t].token = tab[t].token
    PROVE  FreshOwned' /\ CookieCovered'
<1> DEFINE n == Len(rows)
<1>0. n \in Nat /\ DOMAIN rows = 1 .. n /\ cookie \in Nat /\ cookie <= n
  BY SessionFacts DEF SessionInv, CookieCovered
<1>1. \A u \in Tabs :
          /\ tab[u].token \in Nat /\ tab[u].fresh \in Nat
          /\ tab[u].token <= n /\ tab[u].fresh <= n
  BY SessionFacts DEF SessionInv, TabsGood, Good
<1>2. FreshOwned'
  <2> SUFFICES ASSUME NEW u \in Tabs, Pending(u)'
               PROVE  /\ ~rows'[tab'[u].fresh].revoked
                      /\ cookie' # tab'[u].fresh
                      /\ \A v \in Tabs :
                            /\ tab'[v].token # tab'[u].fresh
                            /\ v # u /\ Pending(v)' => tab'[v].fresh # tab'[u].fresh
    BY DEF FreshOwned
  <2>0. \A v \in Tabs : tab'[v].token = tab[v].token OBVIOUS
  <2>1. CASE u = t
    <3>1. tab'[u].fresh = n + 1 BY <2>1
    <3>2. \A v \in Tabs : v # u => tab'[v].fresh = tab[v].fresh BY <2>1
    <3> QED BY <2>0, <2>1, <3>1, <3>2, <1>0, <1>1
  <2>2. CASE u # t
    <3>1. Pending(u) /\ tab'[u].fresh = tab[u].fresh /\ tab[u].fresh # 0
      BY <2>2 DEF Pending
    <3>2. tab[u].fresh \in DOMAIN rows BY <3>1, <1>0, <1>1
    <3>3. /\ ~rows[tab[u].fresh].revoked /\ cookie # tab[u].fresh
          /\ \A v \in Tabs : tab[v].token # tab[u].fresh
      BY <3>1 DEF SessionInv, FreshOwned
    <3>4. ~rows'[tab[u].fresh].revoked BY <3>2, <3>3
    <3>5. ASSUME NEW v \in Tabs, v # u, Pending(v)' PROVE tab'[v].fresh # tab[u].fresh
      <4>1. CASE v = t BY <4>1, <1>0, <1>1
      <4>2. CASE v # t
        <5>1. Pending(v) /\ tab'[v].fresh = tab[v].fresh BY <3>5, <4>2 DEF Pending
        <5> QED BY <3>1, <3>5, <5>1 DEF SessionInv, FreshOwned
      <4> QED BY <4>1, <4>2
    <3> QED BY <2>0, <3>1, <3>3, <3>4, <3>5
  <2> QED BY <2>1, <2>2
<1>3. CookieCovered' BY <1>0 DEF CookieCovered
<1> QED BY <1>2, <1>3

\* A logout is accepted.
LEMMA CookieRevoked ==
    ASSUME SessionInv, NEW t \in Tabs,
           \A u \in Tabs : u # t => tab'[u] = tab[u],
           cookie' = cookie, Len(rows') = Len(rows),
           \A s \in DOMAIN rows : rows'[s].revoked <=> rows[s].revoked \/ s = tab[t].token,
           tab'[t].phase = "revoked", tab'[t].token = tab[t].token
    PROVE  FreshOwned' /\ CookieCovered'
<1>0. Len(rows) \in Nat /\ DOMAIN rows = 1 .. Len(rows) /\ cookie \in Nat /\ cookie <= Len(rows)
  BY SessionFacts DEF SessionInv, CookieCovered
<1>1. FreshOwned'
  <2> SUFFICES ASSUME NEW u \in Tabs, Pending(u)'
               PROVE  /\ ~rows'[tab'[u].fresh].revoked
                      /\ cookie' # tab'[u].fresh
                      /\ \A v \in Tabs :
                            /\ tab'[v].token # tab'[u].fresh
                            /\ v # u /\ Pending(v)' => tab'[v].fresh # tab'[u].fresh
    BY DEF FreshOwned
  <2>1. u # t /\ Pending(u) /\ tab'[u].fresh = tab[u].fresh /\ tab[u].fresh # 0
    BY DEF Pending
  <2>2. /\ ~rows[tab[u].fresh].revoked /\ cookie # tab[u].fresh
        /\ \A v \in Tabs : tab[v].token # tab[u].fresh
    BY <2>1 DEF SessionInv, FreshOwned
  <2>3. tab[u].fresh \in DOMAIN rows
    BY <2>1, <1>0, SessionFacts DEF SessionInv, TabsGood, Good
  <2>4. ~rows'[tab[u].fresh].revoked BY <2>2, <2>3
  <2>5. ASSUME NEW v \in Tabs, v # u, Pending(v)' PROVE tab'[v].fresh # tab[u].fresh
    <3>1. v # t /\ Pending(v) /\ tab'[v].fresh = tab[v].fresh BY <2>5 DEF Pending
    <3> QED BY <2>1, <2>5, <3>1 DEF SessionInv, FreshOwned
  <2>6. \A v \in Tabs : tab'[v].token = tab[v].token OBVIOUS
  <2> QED BY <2>1, <2>2, <2>4, <2>5, <2>6
<1>2. CookieCovered' BY <1>0 DEF CookieCovered
<1> QED BY <1>1, <1>2

\* Rows stay good while only time passes.
LEMMA RowsStay ==
    ASSUME SessionInv, rows' = rows, ended' = ended, now' = now \/ now' = now + 1
    PROVE  RowInv'
<1>1. RowsInOrder' BY SessionFacts DEF SessionInv, RowInv, RowsInOrder
<1>2. OneUnrevoked' /\ EndedRevoked' BY DEF SessionInv, RowInv, OneUnrevoked, EndedRevoked
<1> QED BY <1>1, <1>2 DEF RowInv

\* A rotation revokes one row and appends its successor.
LEMMA RowsRotated ==
    ASSUME SessionInv, NEW s \in DOMAIN rows, Live(s), rows' = Appended(s, rows[s].login),
           ended' = ended, now' = now
    PROVE  /\ RowInv' /\ rows' \in Seq(SessionRow) /\ Len(rows') = Len(rows) + 1
           /\ \A r \in DOMAIN rows : rows'[r].revoked <=> rows[r].revoked \/ r = s
           /\ ~rows'[Len(rows) + 1].revoked
<1> DEFINE n == Len(rows)
<1>0. /\ n \in Nat /\ DOMAIN rows = 1 .. n /\ now \in Nat /\ rows \in Seq(SessionRow)
      /\ \A r \in DOMAIN rows : rows[r].login \in Nat /\ rows[r].issued \in Nat
  BY SessionFacts
<1>1. /\ rows' \in Seq(SessionRow) /\ Len(rows') = n + 1 /\ DOMAIN rows' = 1 .. n + 1
      /\ \A r \in DOMAIN rows :
            /\ rows'[r].login = rows[r].login /\ rows'[r].issued = rows[r].issued
            /\ rows'[r].revoked <=> rows[r].revoked \/ r = s
      /\ rows'[n + 1].login = rows[s].login /\ rows'[n + 1].issued = now
      /\ ~rows'[n + 1].revoked
  BY <1>0, AppendedRows
<1>2. \A r \in DOMAIN rows' : r \in DOMAIN rows \/ r = n + 1 BY <1>0, <1>1
<1>3. /\ \A r \in DOMAIN rows : rows[r].login >= 1 /\ rows[r].login <= r /\ rows[r].issued <= now
      /\ ~rows[s].revoked
  BY DEF SessionInv, RowInv, RowsInOrder, Live, Found
<1>4. RowsInOrder'
  <2> SUFFICES ASSUME NEW r \in DOMAIN rows'
               PROVE  rows'[r].login >= 1 /\ rows'[r].login <= r /\ rows'[r].issued <= now'
    BY DEF RowsInOrder
  <2>1. CASE r \in DOMAIN rows BY <2>1, <1>1, <1>3
  <2>2. CASE r = n + 1 BY <2>2, <1>0, <1>1, <1>3
  <2> QED BY <2>1, <2>2, <1>2
<1>5. \A a, b \in DOMAIN rows :
          ~rows[a].revoked /\ ~rows[b].revoked /\ rows[a].login = rows[b].login => a = b
  BY DEF SessionInv, RowInv, OneUnrevoked
<1>6. OneUnrevoked'
  <2> SUFFICES ASSUME NEW a \in DOMAIN rows', NEW b \in DOMAIN rows',
                      ~rows'[a].revoked, ~rows'[b].revoked, rows'[a].login = rows'[b].login
               PROVE  a = b
    BY DEF OneUnrevoked
  <2>1. CASE a \in DOMAIN rows /\ b \in DOMAIN rows BY <2>1, <1>1, <1>5
  <2>2. CASE a \in DOMAIN rows /\ b = n + 1
    <3>1. ~rows[a].revoked /\ a # s /\ rows[a].login = rows[s].login BY <2>2, <1>1
    <3> QED BY <3>1, <2>2, <1>3, <1>5
  <2>3. CASE a = n + 1 /\ b \in DOMAIN rows
    <3>1. ~rows[b].revoked /\ b # s /\ rows[b].login = rows[s].login BY <2>3, <1>1
    <3> QED BY <3>1, <2>3, <1>3, <1>5
  <2> QED BY <2>1, <2>2, <2>3, <1>2
<1>7. EndedRevoked'
  <2>1. /\ \A l \in ended : l \in 1 .. n
        /\ \A r \in DOMAIN rows : rows[r].login \in ended => rows[r].revoked
    BY DEF SessionInv, RowInv, EndedRevoked
  <2>2. \A l \in ended : l \in 1 .. n + 1 BY <2>1, <1>0
  <2>3. rows[s].login \notin ended BY <2>1, <1>3
  <2>4. \A r \in DOMAIN rows' : rows'[r].login \in ended => rows'[r].revoked
    BY <2>1, <2>3, <1>1, <1>2
  <2> QED BY <2>2, <2>4, <1>1 DEF EndedRevoked
<1> QED BY <1>1, <1>4, <1>6, <1>7 DEF RowInv

\* A login appends one live row.
LEMMA RowsCreated ==
    ASSUME SessionInv, NEW at \in Nat, at <= now,
           rows' = Append(rows, [login |-> Len(rows) + 1, issued |-> at, revoked |-> FALSE]),
           ended' = ended, now' = now
    PROVE  /\ RowInv' /\ rows' \in Seq(SessionRow) /\ Len(rows') = Len(rows) + 1
           /\ \A r \in DOMAIN rows : rows'[r] = rows[r]
           /\ ~rows'[Len(rows) + 1].revoked
<1> DEFINE n == Len(rows)
           row == [login |-> n + 1, issued |-> at, revoked |-> FALSE]
<1>0. /\ n \in Nat /\ DOMAIN rows = 1 .. n /\ now \in Nat /\ rows \in Seq(SessionRow)
      /\ \A r \in DOMAIN rows : rows[r].login \in Nat /\ rows[r].issued \in Nat
  BY SessionFacts
<1>a. row \in SessionRow /\ row.login = n + 1 /\ row.issued = at /\ ~row.revoked
  BY <1>0 DEF SessionRow
<1>b. rows' = Append(rows, row) OBVIOUS
<1> HIDE DEF row
<1>1. /\ rows' \in Seq(SessionRow) /\ Len(rows') = n + 1 /\ DOMAIN rows' = 1 .. n + 1
      /\ \A r \in DOMAIN rows : rows'[r] = rows[r]
      /\ rows'[n + 1] = row
  BY <1>0, <1>a, <1>b, CreatedRows
<1>2. \A r \in DOMAIN rows' : r \in DOMAIN rows \/ r = n + 1 BY <1>0, <1>1
<1>3. \A r \in DOMAIN rows : rows[r].login >= 1 /\ rows[r].login <= r /\ rows[r].issued <= now
  BY DEF SessionInv, RowInv, RowsInOrder
<1>4. RowsInOrder'
  <2> SUFFICES ASSUME NEW r \in DOMAIN rows'
               PROVE  rows'[r].login >= 1 /\ rows'[r].login <= r /\ rows'[r].issued <= now'
    BY DEF RowsInOrder
  <2>1. CASE r \in DOMAIN rows BY <2>1, <1>1, <1>3
  <2>2. CASE r = n + 1 BY <2>2, <1>0, <1>a, <1>1
  <2> QED BY <2>1, <2>2, <1>2
<1>5. \A r \in DOMAIN rows : rows[r].login # n + 1 BY <1>0, <1>3
<1>6. OneUnrevoked'
  <2> SUFFICES ASSUME NEW a \in DOMAIN rows', NEW b \in DOMAIN rows',
                      ~rows'[a].revoked, ~rows'[b].revoked, rows'[a].login = rows'[b].login
               PROVE  a = b
    BY DEF OneUnrevoked
  <2>1. CASE a \in DOMAIN rows /\ b \in DOMAIN rows
    BY <2>1, <1>1 DEF SessionInv, RowInv, OneUnrevoked
  <2>2. CASE a \in DOMAIN rows /\ b = n + 1 BY <2>2, <1>a, <1>1, <1>5
  <2>3. CASE a = n + 1 /\ b \in DOMAIN rows BY <2>3, <1>a, <1>1, <1>5
  <2> QED BY <2>1, <2>2, <2>3, <1>2
<1>7. EndedRevoked'
  <2>1. /\ \A l \in ended : l \in 1 .. n
        /\ \A r \in DOMAIN rows : rows[r].login \in ended => rows[r].revoked
    BY DEF SessionInv, RowInv, EndedRevoked
  <2>2. \A l \in ended : l \in 1 .. n + 1 BY <2>1, <1>0
  <2>3. n + 1 \notin ended BY <2>1, <1>0
  <2>4. \A r \in DOMAIN rows' : rows'[r].login \in ended => rows'[r].revoked
    BY <2>1, <2>3, <1>a, <1>1, <1>2
  <2> QED BY <2>2, <2>4, <1>1 DEF EndedRevoked
<1> QED BY <1>a, <1>1, <1>4, <1>6, <1>7 DEF RowInv

\* A logout revokes one row and ends its login.
LEMMA RowsRevoked ==
    ASSUME SessionInv, NEW s \in DOMAIN rows, Live(s),
           rows' = [rows EXCEPT ![s].revoked = TRUE],
           ended' = ended \union {rows[s].login}, now' = now
    PROVE  /\ RowInv' /\ rows' \in Seq(SessionRow) /\ Len(rows') = Len(rows)
           /\ \A r \in DOMAIN rows : rows'[r].revoked <=> rows[r].revoked \/ r = s
<1> DEFINE n == Len(rows)
<1>0. /\ n \in Nat /\ DOMAIN rows = 1 .. n /\ now \in Nat /\ rows \in Seq(SessionRow)
      /\ \A r \in DOMAIN rows : rows[r].login \in Nat /\ rows[r].issued \in Nat
  BY SessionFacts
<1>1. /\ rows' \in Seq(SessionRow) /\ Len(rows') = n /\ DOMAIN rows' = DOMAIN rows
      /\ \A r \in DOMAIN rows :
            /\ rows'[r].login = rows[r].login /\ rows'[r].issued = rows[r].issued
            /\ rows'[r].revoked <=> rows[r].revoked \/ r = s
  BY <1>0, RevokedRows
<1>2. /\ \A r \in DOMAIN rows : rows[r].login >= 1 /\ rows[r].login <= r /\ rows[r].issued <= now
      /\ ~rows[s].revoked
  BY DEF SessionInv, RowInv, RowsInOrder, Live, Found
<1>3. RowsInOrder' BY <1>1, <1>2 DEF RowsInOrder
<1>4. \A a, b \in DOMAIN rows :
          ~rows[a].revoked /\ ~rows[b].revoked /\ rows[a].login = rows[b].login => a = b
  BY DEF SessionInv, RowInv, OneUnrevoked
<1>5. OneUnrevoked' BY <1>1, <1>4 DEF OneUnrevoked
<1>6. EndedRevoked'
  <2>1. /\ \A l \in ended : l \in 1 .. n
        /\ \A r \in DOMAIN rows : rows[r].login \in ended => rows[r].revoked
    BY DEF SessionInv, RowInv, EndedRevoked
  <2>2. rows[s].login \in 1 .. n BY <1>0, <1>2
  <2>3. \A l \in ended' : l \in 1 .. n BY <2>1, <2>2
  <2>4. ASSUME NEW r \in DOMAIN rows, rows'[r].login \in ended' PROVE rows'[r].revoked
    <3>1. CASE rows[r].login \in ended BY <3>1, <2>1, <1>1
    <3>2. CASE rows[r].login = rows[s].login
      <4>1. rows[r].revoked \/ r = s BY <3>2, <1>2, <1>4
      <4> QED BY <4>1, <1>1
    <3> QED BY <3>1, <3>2, <2>4, <1>1
  <2> QED BY <2>3, <2>4, <1>1 DEF EndedRevoked
<1> QED BY <1>1, <1>3, <1>5, <1>6 DEF RowInv

-----------------------------------------------------------------------------
(* The limiter *)

\* There are no more attempts under way than tabs.
LEMMA AttemptsFinite ==
    ASSUME NEW b
    PROVE  /\ IsFiniteSet(Attempts(b)) /\ Cardinality(Attempts(b)) \in Nat
           /\ Cardinality(Attempts(b)) <= Cardinality(Tabs) /\ Cardinality(Tabs) \in Nat
<1>1. Attempts(b) \in SUBSET Tabs BY DEF Attempts
<1>2. IsFiniteSet(Tabs) BY SessionAssumption
<1>3. IsFiniteSet(Attempts(b)) /\ Cardinality(Attempts(b)) <= Cardinality(Tabs)
  BY <1>1, <1>2, FS_Subset
<1> QED BY <1>2, <1>3, FS_CardinalityType

\* The same of the state after a step.
LEMMA AttemptsFiniteNext ==
    ASSUME NEW b
    PROVE  /\ IsFiniteSet(Attempts(b)') /\ Cardinality(Attempts(b)') \in Nat
           /\ Cardinality(Attempts(b)') <= Cardinality(Tabs)
<1>1. Attempts(b)' \in SUBSET Tabs BY DEF Attempts
<1>2. IsFiniteSet(Tabs) BY SessionAssumption
<1>3. IsFiniteSet(Attempts(b)') /\ Cardinality(Attempts(b)') <= Cardinality(Tabs)
  BY <1>1, <1>2, FS_Subset
<1> QED BY <1>3, FS_CardinalityType

\* The limiter agrees while no attempt starts or fails.
LEMMA AttemptsStay ==
    ASSUME SessionInv, NEW t \in Tabs, UNCHANGED <<fails, tried>>,
           \A u \in Tabs : u # t => tab'[u] = tab[u],
           tab[t].phase # "mismatched", tab'[t].phase # "mismatched"
    PROVE  LimiterInv'
<1>1. \A b : Attempts(b)' = Attempts(b) BY DEF Attempts
<1> QED BY <1>1 DEF SessionInv, LimiterInv

\* An attempt starts below the limit, so one more per tab passes it.
LEMMA AttemptStarts ==
    ASSUME SessionInv, NEW t \in Tabs, UNCHANGED <<fails, tried>>,
           \A u \in Tabs : u # t => tab'[u] = tab[u],
           tab[t].phase = "idle", tab'[t].phase = "mismatched", tab'[t].at = now,
           LoginAllowed(now)
    PROVE  LimiterInv'
<1> SUFFICES ASSUME NEW b \in Buckets
             PROVE  fails[b] + Cardinality(Attempts(b)') < FailureLimit + Cardinality(Tabs)
  BY DEF SessionInv, LimiterInv
<1>0. fails[b] \in Nat /\ FailureLimit \in Nat
  BY SessionAssumption DEF SessionInv, Columns
<1>1. CASE b = Bucket(now)
  <2>1. fails[b] < FailureLimit BY <1>1 DEF LoginAllowed
  <2> DEFINE n == Cardinality(Attempts(b)')
             m == Cardinality(Tabs)
  <2>2. n \in Nat /\ m \in Nat /\ n <= m  BY AttemptsFinite, AttemptsFiniteNext
  <2> HIDE DEF n, m
  <2>3. fails[b] + n < FailureLimit + m  BY <1>0, <2>1, <2>2
  <2> QED  BY <2>3 DEF n, m
<1>2. CASE b # Bucket(now)
  <2>1. Attempts(b)' = Attempts(b) BY <1>2 DEF Attempts, Bucket
  <2> QED BY <2>1 DEF SessionInv, LimiterInv
<1> QED BY <1>1, <1>2

\* A recorded failure replaces an attempt under way.
LEMMA AttemptFails ==
    ASSUME SessionInv, NEW t \in Tabs, tab[t].phase = "mismatched",
           \A u \in Tabs : u # t => tab'[u] = tab[u], tab'[t].phase = "idle",
           fails' = [fails EXCEPT ![Bucket(tab[t].at)] = fails[Bucket(tab[t].at)] + 1],
           tried' = [tried EXCEPT ![Bucket(tab[t].at)] = tried[Bucket(tab[t].at)] + 1]
    PROVE  LimiterInv' /\ fails' \in [Buckets -> Nat]
<1> DEFINE a == Bucket(tab[t].at)
<1>0. fails \in [Buckets -> Nat] /\ tried = fails
  BY DEF SessionInv, Columns, LimiterInv
<1>1. fails' = [fails EXCEPT ![a] = fails[a] + 1] /\ tried' = fails' BY <1>0
<1>2. ASSUME NEW b \in Buckets
      PROVE  /\ fails'[b] + Cardinality(Attempts(b)') < FailureLimit + Cardinality(Tabs)
             /\ fails'[b] \in Nat
  <2>0. /\ fails[b] \in Nat
        /\ fails[b] + Cardinality(Attempts(b)) < FailureLimit + Cardinality(Tabs)
    BY <1>0 DEF SessionInv, LimiterInv
  <2>1. CASE b = a
    <3>1. Attempts(b)' = Attempts(b) \ {t} BY DEF Attempts
    <3>2. t \in Attempts(b) BY <2>1 DEF Attempts
    <3>3. IsFiniteSet(Attempts(b)) /\ Cardinality(Attempts(b)) \in Nat BY AttemptsFinite
    <3>4. Cardinality(Attempts(b)') = Cardinality(Attempts(b)) - 1
      BY <3>1, <3>2, <3>3, FS_RemoveElement
    <3>5. fails'[b] = fails[b] + 1 BY <1>0, <1>1, <2>1
    <3> QED BY <2>0, <3>3, <3>4, <3>5
  <2>2. CASE b # a
    <3>1. Attempts(b)' = Attempts(b) BY <2>2 DEF Attempts
    <3>2. fails'[b] = fails[b] BY <1>0, <1>1, <2>2
    <3> QED BY <2>0, <3>1, <3>2
  <2> QED BY <2>1, <2>2
<1>3. fails' \in [Buckets -> Nat] BY <1>0, <1>1, <1>2
<1> QED BY <1>1, <1>2, <1>3 DEF LimiterInv

\* A cleared limiter agrees.
LEMMA AttemptsCleared ==
    ASSUME SessionInv, fails' = [b \in Buckets |-> 0], tried' = [b \in Buckets |-> 0]
    PROVE  LimiterInv' /\ fails' \in [Buckets -> Nat]
<1>1. ASSUME NEW b \in Buckets
      PROVE  fails'[b] + Cardinality(Attempts(b)') < FailureLimit + Cardinality(Tabs)
  <2>1. fails'[b] = 0 /\ FailureLimit \in Nat /\ FailureLimit > 0 BY SessionAssumption
  <2> QED BY <2>1, AttemptsFinite, AttemptsFiniteNext
<1> QED BY <1>1 DEF LimiterInv

-----------------------------------------------------------------------------
(* Every action keeps the invariant *)

\* The requests that did not move stay as they were meant to be.
LEMMA OthersGood ==
    ASSUME SessionInv, NEW t \in Tabs, \A u \in Tabs : u # t => tab'[u] = tab[u],
           Len(rows') = Len(rows) \/ Len(rows') = Len(rows) + 1, now' = now, Good(t)'
    PROVE  TabsGood'
<1> SUFFICES ASSUME NEW u \in Tabs, u # t PROVE Good(u)' BY DEF TabsGood
<1>1. tab'[u] = tab[u] OBVIOUS
<1>2. Good(u) BY DEF SessionInv, TabsGood
<1>3. /\ tab[u].token \in Nat /\ tab[u].fresh \in Nat /\ tab[u].at \in Nat
      /\ Len(rows) \in Nat /\ now \in Nat
  BY SessionFacts
<1>4. Holder(u)' = Holder(u) BY <1>1 DEF Holder
<1> QED BY <1>1, <1>2, <1>3, <1>4 DEF Good

\* A step of one tab that leaves sessions, clock and limiter alone.
LEMMA TabMoves ==
    ASSUME SessionInv, NEW t \in Tabs, UNCHANGED <<now, rows, fails, ended, tried>>,
           tab' \in [Tabs -> Request], \A u \in Tabs : u # t => tab'[u] = tab[u],
           Good(t)', FreshOwned', CookieCovered',
           tab[t].phase # "mismatched", tab'[t].phase # "mismatched"
    PROVE  SessionInv'
<1>1. Columns' BY DEF SessionInv, Columns
<1>2. RowInv' BY RowsStay
<1>3. TabsGood' BY OthersGood
<1>4. LimiterInv' BY AttemptsStay
<1> QED BY <1>1, <1>2, <1>3, <1>4 DEF SessionInv

\* Sending a request keeps the invariant.
LEMMA SendStep ==
    ASSUME SessionInv, NEW t \in Tabs, NEW op \in Ops, Send(t, op)
    PROVE  SessionInv'
<1>0. /\ tab[t].phase = "idle" /\ op # "login" /\ cookie # 0
      /\ Becomes(t, op, "sent", cookie, 0, NoCsrf, 0, "none")
      /\ UNCHANGED <<now, rows, fails, cookie, dropped, ended, tried>>
  BY SendEffect, SessionFacts DEF Send
<1>1. cookie \in Nat /\ cookie <= Len(rows) /\ Len(rows) \in Nat /\ now \in Nat
  BY SessionFacts DEF SessionInv, CookieCovered
<1>2. Good(t)' BY <1>0, <1>1 DEF Good, Becomes
<1>3. ~Pending(t) /\ ~Pending(t)' BY <1>0 DEF Pending, Becomes
<1>4. FreshOwned' /\ CookieCovered' BY <1>0, <1>3, CookieQuiet DEF Becomes
<1> QED BY <1>0, <1>2, <1>4, TabMoves DEF Becomes

\* A refused request keeps the session it was sent with.
LEMMA RefusedGood ==
    ASSUME SessionInv, NEW t \in Tabs, NEW why, UNCHANGED <<now, rows>>,
           Becomes(t, tab[t].op, "refused", tab[t].token, tab[t].fresh, tab[t].csrf, tab[t].at,
                   why),
           tab[t].op # "login", tab[t].token # 0
    PROVE  Good(t)'
<1>1. Good(t) BY DEF SessionInv, TabsGood
<1> QED BY <1>1 DEF Good, Becomes

\* A refusal of the service token keeps the invariant.
LEMMA ServiceRefusedStep ==
    ASSUME SessionInv, NEW t \in Tabs, ServiceRefused(t)
    PROVE  SessionInv'
<1>0. /\ tab[t].phase = "sent" \/ tab[t].phase = "answered" \/ tab[t].phase = "revoking"
      /\ Refuse(t, "service")
      /\ UNCHANGED <<now, rows, fails, cookie, dropped, ended, tried>>
  BY DEF ServiceRefused
<1>1. Becomes(t, tab[t].op, "refused", tab[t].token, tab[t].fresh, tab[t].csrf, tab[t].at,
              "service")
  BY <1>0, RefuseMoves, SessionFacts DEF Whys
<1>2. tab[t].op # "login" /\ tab[t].token # 0 /\ (tab[t].phase # "answered" => tab[t].fresh = 0)
  BY <1>0 DEF SessionInv, TabsGood, Good
<1>3. Good(t)' BY <1>0, <1>1, <1>2, RefusedGood
<1>4. Pending(t)' <=> Pending(t) BY <1>0, <1>1, <1>2 DEF Pending, Becomes
<1>5. FreshOwned' /\ CookieCovered' BY <1>0, <1>1, <1>4, CookieQuiet DEF Becomes
<1> QED BY <1>0, <1>1, <1>3, <1>5, TabMoves DEF Becomes

\* Authorization of a command keeps the invariant.
LEMMA AuthorizeStep ==
    ASSUME SessionInv, NEW t \in Tabs, Authorize(t)
    PROVE  SessionInv'
<1>0. /\ UNCHANGED <<now, rows, fails, cookie, dropped, ended, tried>>
      /\ tab[t].phase = "answered" /\ tab[t].op = "retry"
  BY DEF Authorize
<1>1. PICK phase \in {"done", "refused"}, why \in Whys :
        /\ Becomes(t, tab[t].op, phase, tab[t].token, tab[t].fresh, tab[t].csrf, tab[t].at, why)
        /\ phase = "done" => why = tab[t].why
  <2>1. tab[t].why \in Whys /\ "session" \in Whys /\ "csrf" \in Whys
    BY SessionFacts, RequestFields DEF Whys
  <2> QED BY <2>1, AuthorizeEffect, SessionFacts
<1>2. Good(t) BY DEF SessionInv, TabsGood
<1>3. Good(t)' BY <1>0, <1>1, <1>2 DEF Good, Becomes
<1>4. Pending(t)' <=> Pending(t) BY <1>0, <1>1 DEF Pending, Becomes
<1>5. FreshOwned' /\ CookieCovered' BY <1>0, <1>1, <1>4, CookieQuiet DEF Becomes
<1> QED BY <1>0, <1>1, <1>3, <1>5, TabMoves DEF Becomes

\* Posting a logout keeps the invariant.
LEMMA PostLogoutStep ==
    ASSUME SessionInv, NEW t \in Tabs, PostLogout(t)
    PROVE  SessionInv'
<1>0. /\ UNCHANGED <<now, rows, fails, cookie, dropped, ended, tried>>
      /\ tab[t].phase = "confirming"
  BY DEF PostLogout
<1>1. /\ \/ Becomes(t, "none", "idle", 0, 0, NoCsrf, 0, "none")
         \/ /\ cookie # 0
            /\ Becomes(t, tab[t].op, "revoking", cookie, 0, tab[t].csrf, tab[t].at, tab[t].why)
  BY PostLogoutEffect, SessionFacts
<1>2. Good(t) BY DEF SessionInv, TabsGood
<1>3. cookie \in Nat /\ cookie <= Len(rows) /\ Len(rows) \in Nat /\ now \in Nat
  BY SessionFacts DEF SessionInv, CookieCovered
<1>4. Good(t)' BY <1>0, <1>1, <1>2, <1>3 DEF Good, Becomes
<1>5. ~Pending(t) /\ ~Pending(t)' BY <1>0, <1>1 DEF Pending, Becomes
<1>6. FreshOwned' /\ CookieCovered' BY <1>0, <1>1, <1>5, CookieQuiet DEF Becomes
<1> QED BY <1>0, <1>1, <1>4, <1>6, TabMoves DEF Becomes

\* A CSRF token names its session and the bucket of now.
LEMMA CsrfFields ==
    ASSUME NEW s PROVE Csrf(s).row = s /\ Csrf(s).bucket = now \div CsrfBucket
  BY DEF Csrf

\* Access to a session, with rotation, keeps the invariant.
LEMMA AccessStep ==
    ASSUME SessionInv, NEW t \in Tabs, Access(t)
    PROVE  SessionInv'
<1> DEFINE s == tab[t].token
           n == Len(rows)
<1>0. /\ UNCHANGED <<now, fails, cookie, dropped, ended, tried>>
      /\ tab[t].phase = "sent" /\ Columns
  BY SessionFacts DEF Access
<1>1. /\ \/ /\ rows' = rows
            /\ Becomes(t, tab[t].op, "refused", s, tab[t].fresh, tab[t].csrf, tab[t].at,
                       "session")
         \/ /\ rows' = rows /\ Live(s)
            /\ Becomes(t, tab[t].op, "answered", s, tab[t].fresh, Csrf(s), now, tab[t].why)
         \/ /\ Live(s) /\ rows' = Appended(s, rows[s].login)
            /\ Becomes(t, tab[t].op, "answered", s, n + 1, Csrf(n + 1), now, tab[t].why)
  BY <1>0, AccessEffect
<1>2. Good(t) BY DEF SessionInv, TabsGood
<1>3. /\ tab[t].fresh = 0 /\ tab[t].why = "none" /\ s # 0 /\ tab[t].op # "login" /\ s <= n
      /\ s \in Nat /\ n \in Nat /\ now \in Nat
  BY <1>0, <1>2, SessionFacts DEF Good
<1>4. CASE /\ rows' = rows
           /\ Becomes(t, tab[t].op, "refused", s, tab[t].fresh, tab[t].csrf, tab[t].at, "session")
  <2>1. Good(t)' BY <1>0, <1>3, <1>4, RefusedGood
  <2>2. ~Pending(t) /\ ~Pending(t)' BY <1>0, <1>3, <1>4 DEF Pending, Becomes
  <2>3. FreshOwned' /\ CookieCovered' BY <1>0, <1>4, <2>2, CookieQuiet DEF Becomes
  <2> QED BY <1>0, <1>4, <2>1, <2>3, TabMoves DEF Becomes
<1>5. CASE /\ rows' = rows
           /\ Becomes(t, tab[t].op, "answered", s, tab[t].fresh, Csrf(s), now, tab[t].why)
  <2>1. Good(t)' BY <1>0, <1>2, <1>3, <1>5, CsrfFields DEF Good, Becomes, Holder
  <2>2. ~Pending(t) /\ ~Pending(t)' BY <1>0, <1>3, <1>5 DEF Pending, Becomes
  <2>3. FreshOwned' /\ CookieCovered' BY <1>0, <1>5, <2>2, CookieQuiet DEF Becomes
  <2> QED BY <1>0, <1>5, <2>1, <2>3, TabMoves DEF Becomes
<1>6. CASE /\ Live(s) /\ rows' = Appended(s, rows[s].login)
           /\ Becomes(t, tab[t].op, "answered", s, n + 1, Csrf(n + 1), now, tab[t].why)
  <2>0. s \in DOMAIN rows /\ ended' = ended /\ now' = now BY <1>0, <1>6 DEF Live, Found
  <2>c. Live(s) /\ rows' = Appended(s, rows[s].login) BY <1>6
  <2>1. /\ RowInv' /\ rows' \in Seq(SessionRow) /\ Len(rows') = n + 1
        /\ \A r \in DOMAIN rows : rows'[r].revoked <=> rows[r].revoked \/ r = s
        /\ ~rows'[n + 1].revoked
    BY <2>0, <2>c, RowsRotated
  <2>2. Good(t)' BY <1>0, <1>2, <1>3, <1>6, <2>1, CsrfFields DEF Good, Becomes, Holder
  <2>3. Pending(t)' BY <1>3, <1>6 DEF Pending, Becomes
  <2>4. FreshOwned' /\ CookieCovered' BY <1>0, <1>6, <2>1, <2>3, CookieReplaced DEF Becomes
  <2>5. TabsGood' BY <1>0, <1>6, <2>1, <2>2, OthersGood DEF Becomes
  <2>6. LimiterInv' BY <1>0, <1>6, AttemptsStay DEF Becomes
  <2>7. Columns' BY <1>0, <1>6, <2>1 DEF Columns, Becomes
  <2> QED BY <2>1, <2>4, <2>5, <2>6, <2>7 DEF SessionInv
<1> QED BY <1>1, <1>4, <1>5, <1>6

\* A new session keeps the invariant.
LEMMA CreateSessionStep ==
    ASSUME SessionInv, NEW t \in Tabs, CreateSession(t)
    PROVE  SessionInv'
<1> DEFINE n == Len(rows)
<1>0. UNCHANGED <<now, fails, cookie, dropped, ended, tried>> /\ Columns
  BY SessionFacts DEF CreateSession
<1>1. /\ tab[t].phase = "cleared"
      /\ rows' = Append(rows, [login |-> n + 1, issued |-> tab[t].at, revoked |-> FALSE])
      /\ Becomes(t, tab[t].op, "done", tab[t].token, n + 1, tab[t].csrf, tab[t].at, tab[t].why)
  BY <1>0, CreateSessionEffect
<1>2. Good(t) BY DEF SessionInv, TabsGood
<1>3. /\ tab[t].token = 0 /\ tab[t].why = "none" /\ tab[t].at <= now
      /\ tab[t].at \in Nat /\ n \in Nat /\ now \in Nat /\ DOMAIN rows = 1 .. n
  BY <1>1, <1>2, SessionFacts DEF Good
<1>4. /\ RowInv' /\ rows' \in Seq(SessionRow) /\ Len(rows') = n + 1
      /\ \A r \in DOMAIN rows : rows'[r] = rows[r]
      /\ ~rows'[n + 1].revoked
  <2>1. ended' = ended /\ now' = now BY <1>0
  <2>2. rows' = Append(rows, [login |-> Len(rows) + 1, issued |-> tab[t].at, revoked |-> FALSE])
    BY <1>1
  <2> QED BY <1>3, <2>1, <2>2, RowsCreated
<1>5. \A r \in DOMAIN rows : rows'[r].revoked <=> rows[r].revoked \/ r = tab[t].token
  BY <1>3, <1>4
<1>6. Good(t)' BY <1>0, <1>1, <1>3, <1>4 DEF Good, Becomes
<1>7. Pending(t)' BY <1>1, <1>3 DEF Pending, Becomes
<1>8. FreshOwned' /\ CookieCovered' BY <1>0, <1>1, <1>4, <1>5, <1>7, CookieReplaced DEF Becomes
<1>9. TabsGood' BY <1>0, <1>1, <1>4, <1>6, OthersGood DEF Becomes
<1>10. LimiterInv' BY <1>0, <1>1, AttemptsStay DEF Becomes
<1>11. Columns' BY <1>0, <1>1, <1>4 DEF Columns, Becomes
<1> QED BY <1>4, <1>8, <1>9, <1>10, <1>11 DEF SessionInv

\* Revocation keeps the invariant.
LEMMA RevokeStep ==
    ASSUME SessionInv, NEW t \in Tabs, Revoke(t)
    PROVE  SessionInv'
<1> DEFINE s == tab[t].token
           n == Len(rows)
<1>0. UNCHANGED <<now, fails, cookie, dropped, tried>> /\ Columns /\ tab[t].phase = "revoking"
  BY SessionFacts DEF Revoke
<1>1. Good(t) /\ tab \in [Tabs -> Request] BY SessionFacts DEF SessionInv, TabsGood
<1>2. tab[t].fresh = 0 BY <1>0, <1>1 DEF Good
<1>3. CASE tab' = [tab EXCEPT ![t] = Idle] /\ UNCHANGED <<rows, ended>>
  <2>1. Becomes(t, "none", "idle", 0, 0, NoCsrf, 0, "none") BY <1>1, <1>3, RequestEnds
  <2>2. Good(t)' BY <1>0, <1>3, <2>1, SessionFacts DEF Good, Becomes
  <2>3. ~Pending(t) /\ ~Pending(t)' BY <1>0, <2>1 DEF Pending, Becomes
  <2>4. FreshOwned' /\ CookieCovered' BY <1>0, <1>3, <2>1, <2>3, CookieQuiet DEF Becomes
  <2> QED BY <1>0, <1>3, <2>1, <2>2, <2>4, TabMoves DEF Becomes
<1>4. CASE /\ Live(s) /\ rows' = [rows EXCEPT ![s].revoked = TRUE]
           /\ ended' = ended \union {rows[s].login}
           /\ tab' = [tab EXCEPT ![t].phase = "revoked"]
  <2>0. s \in DOMAIN rows BY <1>4 DEF Live, Found
  <2>1. /\ RowInv' /\ rows' \in Seq(SessionRow) /\ Len(rows') = n
        /\ \A r \in DOMAIN rows : rows'[r].revoked <=> rows[r].revoked \/ r = s
    BY <1>0, <1>4, <2>0, RowsRevoked
  <2>2. Becomes(t, tab[t].op, "revoked", s, tab[t].fresh, tab[t].csrf, tab[t].at, tab[t].why)
    BY <1>0, <1>4, PhaseMoves DEF Phases
  <2>3. Good(t)' BY <1>0, <1>1, <1>2, <2>1, <2>2 DEF Good, Becomes
  <2>4. FreshOwned' /\ CookieCovered' BY <1>0, <2>1, <2>2, CookieRevoked DEF Becomes
  <2>5. TabsGood' BY <1>0, <2>1, <2>2, <2>3, OthersGood DEF Becomes
  <2>6. LimiterInv' BY <1>0, <2>2, AttemptsStay DEF Becomes
  <2>7. Columns' BY <1>0, <2>1, <2>2 DEF Columns, Becomes
  <2> QED BY <2>1, <2>4, <2>5, <2>6, <2>7 DEF SessionInv
<1> QED BY <1>3, <1>4 DEF Revoke

\* A request ends, or its answer goes on to the logout call.
LEMMA IdleGood ==
    ASSUME SessionInv, NEW t \in Tabs, UNCHANGED <<now, rows>>,
           Becomes(t, "none", "idle", 0, 0, NoCsrf, 0, "none")
    PROVE  Good(t)' /\ ~Pending(t)'
  BY SessionFacts DEF Good, Pending, Becomes

\* An answer that sets the cookie keeps the invariant.
LEMMA DeliverStep ==
    ASSUME SessionInv, NEW t \in Tabs, Deliver(t)
    PROVE  SessionInv'
<1> DEFINE r == tab[t]
<1>0. /\ UNCHANGED <<now, rows, fails, dropped, ended, tried>> /\ Columns
      /\ r.phase = "answered" \/ r.phase = "done"
      /\ r.op = "logout" => r.phase = "answered"
      /\ cookie' = IF r.fresh = 0 THEN cookie ELSE r.fresh
  BY SessionFacts DEF Deliver
<1>1. Good(t) /\ tab \in [Tabs -> Request] BY SessionFacts DEF SessionInv, TabsGood
<1>2. /\ tab'[t].token = r.token \/ tab'[t].token = 0
      /\ Good(t)' /\ ~Pending(t)' /\ tab'[t].phase # "mismatched"
      /\ tab' \in [Tabs -> Request] /\ \A u \in Tabs : u # t => tab'[u] = tab[u]
  <2>1. CASE r.op = "logout"
    <3>0. tab' = [tab EXCEPT ![t] = [tab[t] EXCEPT !.phase = "confirming"]]
      BY <2>1 DEF Deliver
    <3>1. tab' = [tab EXCEPT ![t].phase = "confirming"] BY <3>0, <1>1
    <3>2. Becomes(t, r.op, "confirming", r.token, r.fresh, r.csrf, r.at, r.why)
      BY <1>0, <3>1, PhaseMoves DEF Phases
    <3>3. Good(t)' BY <1>0, <1>1, <2>1, <3>2 DEF Good, Becomes
    <3> QED BY <3>2, <3>3 DEF Becomes, Pending
  <2>2. CASE r.op # "logout"
    <3>1. tab' = [tab EXCEPT ![t] = Idle] BY <2>2 DEF Deliver
    <3>2. Becomes(t, "none", "idle", 0, 0, NoCsrf, 0, "none") BY <1>1, <3>1, RequestEnds
    <3> QED BY <1>0, <3>2, IdleGood DEF Becomes
  <2> QED BY <2>1, <2>2
<1>3. FreshOwned' /\ CookieCovered'
  <2>1. CASE r.fresh = 0
    <3>1. ~Pending(t) /\ cookie' = cookie BY <2>1, <1>0 DEF Pending
    <3> QED BY <3>1, <1>0, <1>2, CookieQuiet
  <2>2. CASE r.fresh # 0
    <3>1. Pending(t) /\ cookie' = r.fresh BY <2>2, <1>0 DEF Pending
    <3> QED BY <3>1, <1>0, <1>2, CookieDelivered
  <2> QED BY <2>1, <2>2
<1> QED BY <1>0, <1>2, <1>3, TabMoves

\* A refusal that clears the cookie keeps the invariant.
LEMMA DeliverRefusalStep ==
    ASSUME SessionInv, NEW t \in Tabs, DeliverRefusal(t)
    PROVE  SessionInv'
<1>0. /\ UNCHANGED <<now, rows, fails, dropped, ended, tried>>
      /\ tab[t].phase = "refused" /\ tab' = [tab EXCEPT ![t] = Idle]
      /\ cookie' = IF tab[t].op = "login" \/ tab[t].token = 0 THEN cookie ELSE 0
  BY DEF DeliverRefusal
<1>1. Becomes(t, "none", "idle", 0, 0, NoCsrf, 0, "none") BY <1>0, RequestEnds, SessionFacts
<1>2. Good(t) BY DEF SessionInv, TabsGood
<1>3. cookie' = 0 BY <1>0, <1>2 DEF Good
<1>4. Good(t)' /\ ~Pending(t)' BY <1>0, <1>1, IdleGood
<1>5. FreshOwned' /\ CookieCovered' BY <1>0, <1>1, <1>3, <1>4, CookieQuiet DEF Becomes
<1> QED BY <1>0, <1>1, <1>4, <1>5, TabMoves DEF Becomes

\* A lost answer keeps the invariant.
LEMMA LoseStep ==
    ASSUME SessionInv, NEW t \in Tabs, Lose(t)
    PROVE  SessionInv'
<1>0. /\ UNCHANGED <<now, rows, fails, cookie, ended, tried>>
      /\ tab[t].phase # "mismatched" /\ tab' = [tab EXCEPT ![t] = Idle]
      /\ dropped' <=> (dropped \/ (tab[t].fresh # 0 /\ tab[t].phase # "confirming")
                               \/ tab[t].phase = "revoked")
  BY DEF Lose
<1>1. Becomes(t, "none", "idle", 0, 0, NoCsrf, 0, "none") BY <1>0, RequestEnds, SessionFacts
<1>2. Good(t)' /\ ~Pending(t)' BY <1>0, <1>1, IdleGood
<1>3. Pending(t) \/ tab[t].phase = "revoked" => dropped' BY <1>0 DEF Pending
<1>4. FreshOwned' /\ CookieCovered' BY <1>0, <1>1, <1>2, <1>3, CookieQuiet DEF Becomes
<1> QED BY <1>0, <1>1, <1>2, <1>4, TabMoves DEF Becomes

\* The answer to a logout keeps the invariant.
LEMMA DeliverLogoutStep ==
    ASSUME SessionInv, NEW t \in Tabs, DeliverLogout(t)
    PROVE  SessionInv'
<1>0. /\ UNCHANGED <<now, rows, fails, dropped, ended, tried>>
      /\ tab[t].phase = "revoked" /\ tab' = [tab EXCEPT ![t] = Idle] /\ cookie' = 0
  BY DEF DeliverLogout
<1>1. Becomes(t, "none", "idle", 0, 0, NoCsrf, 0, "none") BY <1>0, RequestEnds, SessionFacts
<1>2. Good(t)' /\ ~Pending(t)' BY <1>0, <1>1, IdleGood
<1>3. FreshOwned' /\ CookieCovered' BY <1>0, <1>1, <1>2, CookieQuiet DEF Becomes
<1> QED BY <1>0, <1>1, <1>2, <1>3, TabMoves DEF Becomes

\* The limiter's requests carry no session.
LEMMA LoginGood ==
    ASSUME SessionInv, NEW t \in Tabs, UNCHANGED <<now, rows>>,
           NEW phase \in {"matched", "mismatched", "cleared"}, NEW at \in Nat, at <= now,
           Becomes(t, "login", phase, 0, 0, NoCsrf, at, "none")
    PROVE  Good(t)' /\ ~Pending(t)'
  BY SessionFacts DEF Good, Pending, Becomes

\* The start of a login keeps the invariant.
LEMMA StartLoginStep ==
    ASSUME SessionInv, NEW t \in Tabs, StartLogin(t)
    PROVE  SessionInv'
<1>0. UNCHANGED <<now, rows, fails, cookie, dropped, ended, tried>> BY DEF StartLogin
<1>a. now \in Nat /\ now <= now /\ Columns BY SessionFacts
<1>1. /\ tab[t].phase = "idle"
      /\ \/ /\ LoginAllowed(now)
            /\ \/ Becomes(t, "login", "matched", 0, 0, NoCsrf, now, "none")
               \/ Becomes(t, "login", "mismatched", 0, 0, NoCsrf, now, "none")
         \/ tab' = tab
  BY <1>a, StartLoginEffect
<1>2. ~Pending(t) BY <1>1 DEF Pending
<1>3. CASE tab' = tab
  <2>1. Good(t) BY DEF SessionInv, TabsGood
  <2>2. Good(t)' BY <1>0, <1>3, <2>1 DEF Good, Holder
  <2>3. ~Pending(t)' BY <1>2, <1>3 DEF Pending
  <2>4. FreshOwned' /\ CookieCovered' BY <1>0, <1>1, <1>2, <1>3, <2>3, CookieQuiet
  <2>5. tab' \in [Tabs -> Request] BY <1>3, SessionFacts
  <2> QED BY <1>0, <1>1, <1>3, <2>2, <2>4, <2>5, TabMoves
<1>4. CASE Becomes(t, "login", "matched", 0, 0, NoCsrf, now, "none")
  <2>1. Good(t)' /\ ~Pending(t)' BY <1>0, <1>a, <1>4, LoginGood
  <2>2. FreshOwned' /\ CookieCovered' BY <1>0, <1>1, <1>2, <1>4, <2>1, CookieQuiet DEF Becomes
  <2> QED BY <1>0, <1>1, <1>4, <2>1, <2>2, TabMoves DEF Becomes
<1>5. CASE LoginAllowed(now) /\ Becomes(t, "login", "mismatched", 0, 0, NoCsrf, now, "none")
  <2>1. Good(t)' /\ ~Pending(t)' BY <1>0, <1>a, <1>5, LoginGood
  <2>2. FreshOwned' /\ CookieCovered' BY <1>0, <1>1, <1>2, <1>5, <2>1, CookieQuiet DEF Becomes
  <2>3. LimiterInv' BY <1>0, <1>1, <1>5, AttemptStarts DEF Becomes
  <2>4. TabsGood' BY <1>0, <1>5, <2>1, OthersGood DEF Becomes
  <2>5. RowInv' BY <1>0, RowsStay
  <2>6. Columns' BY <1>0, <1>a, <1>5 DEF Columns, Becomes
  <2> QED BY <2>2, <2>3, <2>4, <2>5, <2>6 DEF SessionInv
<1> QED BY <1>1, <1>3, <1>4, <1>5

\* A recorded failure keeps the invariant.
LEMMA RecordFailureStep ==
    ASSUME SessionInv, NEW t \in Tabs, RecordFailure(t)
    PROVE  SessionInv'
<1> DEFINE a == Bucket(tab[t].at)
<1>0. /\ UNCHANGED <<now, rows, cookie, dropped, ended>>
      /\ tab[t].phase = "mismatched" /\ tab' = [tab EXCEPT ![t] = Idle]
      /\ fails' = [fails EXCEPT ![a] = fails[a] + 1]
      /\ tried' = [tried EXCEPT ![a] = tried[a] + 1]
  BY DEF RecordFailure, Counted
<1>1. Becomes(t, "none", "idle", 0, 0, NoCsrf, 0, "none") BY <1>0, RequestEnds, SessionFacts
<1>2. Good(t)' /\ ~Pending(t)' BY <1>0, <1>1, IdleGood
<1>3. ~Pending(t) BY <1>0 DEF Pending
<1>4. FreshOwned' /\ CookieCovered' BY <1>0, <1>1, <1>2, <1>3, CookieQuiet DEF Becomes
<1>5. LimiterInv' /\ fails' \in [Buckets -> Nat] BY <1>0, <1>1, AttemptFails DEF Becomes
<1>6. TabsGood' BY <1>0, <1>1, <1>2, OthersGood DEF Becomes
<1>7. RowInv' BY <1>0, RowsStay
<1>8. Columns' BY <1>0, <1>1, <1>5, SessionFacts DEF Columns, Becomes
<1> QED BY <1>4, <1>5, <1>6, <1>7, <1>8 DEF SessionInv

\* Clearing the failures keeps the invariant.
LEMMA ClearFailuresStep ==
    ASSUME SessionInv, NEW t \in Tabs, ClearFailures(t)
    PROVE  SessionInv'
<1> DEFINE r == tab[t]
<1>0. /\ UNCHANGED <<now, rows, cookie, dropped, ended>>
      /\ r.phase = "matched" /\ tab' = [tab EXCEPT ![t].phase = "cleared"]
      /\ fails' = [b \in Buckets |-> 0] /\ tried' = [b \in Buckets |-> 0]
  BY DEF ClearFailures
<1>1. Becomes(t, r.op, "cleared", r.token, r.fresh, r.csrf, r.at, r.why)
  BY <1>0, PhaseMoves, SessionFacts DEF Phases
<1>2. Good(t) BY DEF SessionInv, TabsGood
<1>3. Good(t)' /\ ~Pending(t) /\ ~Pending(t)'
  BY <1>0, <1>1, <1>2 DEF Good, Pending, Becomes
<1>4. FreshOwned' /\ CookieCovered' BY <1>0, <1>1, <1>3, CookieQuiet DEF Becomes
<1>5. LimiterInv' /\ fails' \in [Buckets -> Nat] BY <1>0, AttemptsCleared
<1>6. TabsGood' BY <1>0, <1>1, <1>3, OthersGood DEF Becomes
<1>7. RowInv' BY <1>0, RowsStay
<1>8. Columns' BY <1>0, <1>1, <1>5, SessionFacts DEF Columns, Becomes
<1> QED BY <1>4, <1>5, <1>6, <1>7, <1>8 DEF SessionInv

\* Time keeps the invariant.
LEMMA TickStep ==
    ASSUME SessionInv, Tick
    PROVE  SessionInv'
<1>0. now' = now + 1 /\ now < MaxTime /\ UNCHANGED <<rows, fails, cookie, tab, dropped, ended, tried>>
  BY DEF Tick
<1>1. Columns /\ now \in Nat BY SessionFacts
<1>2. Columns' BY <1>0, <1>1, SessionAssumption DEF Columns
<1>3. RowInv' BY <1>0, RowsStay
<1>4. TabsGood'
  <2> SUFFICES ASSUME NEW t \in Tabs PROVE Good(t)' BY DEF TabsGood
  <2>1. Good(t) /\ tab[t].at \in Nat BY SessionFacts DEF SessionInv, TabsGood
  <2> QED BY <1>0, <1>1, <2>1 DEF Good, Holder
<1>5. FreshOwned' BY <1>0 DEF SessionInv, FreshOwned, Pending
<1>6. CookieCovered' BY <1>0 DEF SessionInv, CookieCovered, Pending
<1>7. LimiterInv' BY <1>0 DEF SessionInv, LimiterInv, Attempts
<1> QED BY <1>2, <1>3, <1>4, <1>5, <1>6, <1>7 DEF SessionInv

-----------------------------------------------------------------------------
(* The theorems *)

\* The invariant holds before any login.
LEMMA SessionInit == Init => SessionInv
<1> SUFFICES ASSUME Init PROVE SessionInv OBVIOUS
<1>1. /\ now = 0 /\ rows = <<>> /\ cookie = 0 /\ dropped = FALSE /\ ended = {}
      /\ fails = [b \in Buckets |-> 0] /\ tried = fails
      /\ tab = [t \in Tabs |-> Idle]
  BY DEF Init
<1>2. Len(rows) = 0 /\ DOMAIN rows = {} /\ rows \in Seq(SessionRow) BY <1>1
<1>3. \A t \in Tabs : /\ tab[t].phase = "idle" /\ tab[t].token = 0 /\ tab[t].fresh = 0
                      /\ tab[t].at = 0 /\ tab[t].why = "none"
  BY <1>1, IdleRequest
<1>4. Columns BY <1>1, <1>2, IdleRequest, SessionAssumption DEF Columns
<1>5. RowInv BY <1>1, <1>2 DEF RowInv, RowsInOrder, OneUnrevoked, EndedRevoked
<1>6. TabsGood BY <1>1, <1>2, <1>3 DEF TabsGood, Good
<1>7. FreshOwned BY <1>3 DEF FreshOwned, Pending
<1>8. CookieCovered BY <1>1, <1>2 DEF CookieCovered
<1>9. LimiterInv
  <2> SUFFICES ASSUME NEW b \in Buckets
               PROVE  fails[b] + Cardinality(Attempts(b)) < FailureLimit + Cardinality(Tabs)
    BY <1>1 DEF LimiterInv
  <2>1. fails[b] = 0 /\ FailureLimit \in Nat /\ FailureLimit > 0 BY <1>1, SessionAssumption
  <2> QED BY <2>1, AttemptsFinite
<1> QED BY <1>4, <1>5, <1>6, <1>7, <1>8, <1>9 DEF SessionInv

\* Every step keeps the invariant.
LEMMA SessionStep == SessionInv /\ [Next]_vars => SessionInv'
<1> SUFFICES ASSUME SessionInv, [Next]_vars PROVE SessionInv' OBVIOUS
<1>1. CASE UNCHANGED vars
  <2>1. \A b : Attempts(b)' = Attempts(b) BY <1>1 DEF vars, Attempts
  <2> QED BY <1>1, <2>1 DEF vars, SessionInv, Columns, RowInv, RowsInOrder, OneUnrevoked,
        EndedRevoked, TabsGood, Good, Holder, FreshOwned, Pending, CookieCovered, LimiterInv
<1>2. CASE Tick BY <1>2, TickStep
<1>3. ASSUME NEW t \in Tabs, NEW op \in Ops, Send(t, op) PROVE SessionInv'
  BY <1>3, SendStep
<1>4. ASSUME NEW t \in Tabs, ServiceRefused(t) PROVE SessionInv' BY <1>4, ServiceRefusedStep
<1>5. ASSUME NEW t \in Tabs, Access(t) PROVE SessionInv' BY <1>5, AccessStep
<1>6. ASSUME NEW t \in Tabs, Authorize(t) PROVE SessionInv' BY <1>6, AuthorizeStep
<1>7. ASSUME NEW t \in Tabs, Deliver(t) PROVE SessionInv' BY <1>7, DeliverStep
<1>8. ASSUME NEW t \in Tabs, DeliverRefusal(t) PROVE SessionInv' BY <1>8, DeliverRefusalStep
<1>9. ASSUME NEW t \in Tabs, Lose(t) PROVE SessionInv' BY <1>9, LoseStep
<1>10. ASSUME NEW t \in Tabs, PostLogout(t) PROVE SessionInv' BY <1>10, PostLogoutStep
<1>11. ASSUME NEW t \in Tabs, Revoke(t) PROVE SessionInv' BY <1>11, RevokeStep
<1>12. ASSUME NEW t \in Tabs, DeliverLogout(t) PROVE SessionInv' BY <1>12, DeliverLogoutStep
<1>13. ASSUME NEW t \in Tabs, StartLogin(t) PROVE SessionInv' BY <1>13, StartLoginStep
<1>14. ASSUME NEW t \in Tabs, RecordFailure(t) PROVE SessionInv' BY <1>14, RecordFailureStep
<1>15. ASSUME NEW t \in Tabs, ClearFailures(t) PROVE SessionInv' BY <1>15, ClearFailuresStep
<1>16. ASSUME NEW t \in Tabs, CreateSession(t) PROVE SessionInv' BY <1>16, CreateSessionStep
<1> QED BY <1>1, <1>2, <1>3, <1>4, <1>5, <1>6, <1>7, <1>8, <1>9, <1>10, <1>11, <1>12, <1>13,
           <1>14, <1>15, <1>16 DEF Next

\* The inductive invariant: a replacement session under way is known to no
\* other tab, an answer under way explains every revoked cookie, and attempts
\* under way are all that can pass the limit.
THEOREM SessionInvariant == Spec => []SessionInv
<1>1. SessionInv /\ [Next]_vars => SessionInv' BY SessionStep
<1> QED BY SessionInit, <1>1, PTL DEF Spec

\* However many tabs race rotation, logout and login over lost answers: one
\* session per login is accepted, a logout ends its login for good, the cookie
\* names a live session unless an answer was lost or is under way, and the
\* limiter counts every failure and is passed by less than one per tab.
THEOREM SessionsAreSound == Spec => []SessionsSound
<1>1. SessionInv => SessionsSound
  <2> SUFFICES ASSUME SessionInv PROVE SessionsSound OBVIOUS
  <2>0. /\ Columns /\ Len(rows) \in Nat /\ DOMAIN rows = 1 .. Len(rows) /\ now \in Nat
        /\ \A s \in DOMAIN rows : rows[s].login \in Nat /\ rows[s].issued \in Nat
        /\ \A t \in Tabs : tab[t].token \in Nat /\ tab[t].fresh \in Nat
    BY SessionFacts
  <2>1. TypeOK
    <3>1. now \in 0 .. MaxTime /\ rows \in Seq(SessionRow) /\ \A b \in Buckets : fails[b] \in Nat
      BY <2>0 DEF Columns
    <3>2. cookie \in 0 .. Len(rows) BY <2>0 DEF SessionInv, CookieCovered
    <3>3. \A s \in DOMAIN rows : rows[s].login \in 1 .. s /\ rows[s].issued \in 0 .. now
      BY <2>0 DEF SessionInv, RowInv, RowsInOrder
    <3>4. \A t \in Tabs : tab[t].token \in 0 .. Len(rows) /\ tab[t].fresh \in 0 .. Len(rows)
      BY <2>0 DEF SessionInv, TabsGood, Good
    <3> QED BY <3>1, <3>2, <3>3, <3>4 DEF TypeOK
  <2>2. OneLivePerLogin BY DEF SessionInv, RowInv, OneUnrevoked, OneLivePerLogin, Live
  <2>3. LogoutEndsLogin BY DEF SessionInv, RowInv, EndedRevoked, LogoutEndsLogin, Live
  <2>4. CookieNamesLiveSession
    <3> SUFFICES ASSUME cookie # 0, ~dropped, ~Live(cookie), now < rows[cookie].issued + Lifetime
                 PROVE  \E t \in Tabs :
                           \/ tab[t].phase \in {"answered", "done", "refused"} /\ tab[t].fresh # 0
                           \/ tab[t].phase = "revoked"
      <4>1. cookie # 0 => cookie \in DOMAIN rows BY <2>0 DEF SessionInv, CookieCovered
      <4>2. cookie # 0 => rows[cookie].issued \in Nat BY <4>1, <2>0
      <4> QED BY <4>2, <2>0, SessionAssumption DEF CookieNamesLiveSession
    <3>1. cookie \in DOMAIN rows BY <2>0 DEF SessionInv, CookieCovered
    <3>2. rows[cookie].revoked BY <3>1 DEF Live, Found
    <3> QED BY <3>2 DEF SessionInv, CookieCovered, Pending
  <2>5. FailuresBounded
    <3> SUFFICES ASSUME NEW b \in Buckets PROVE fails[b] < FailureLimit + Cardinality(Tabs)
      BY DEF FailuresBounded
    <3>1. /\ fails[b] + Cardinality(Attempts(b)) < FailureLimit + Cardinality(Tabs)
          /\ fails[b] \in Nat
      BY <2>0 DEF SessionInv, LimiterInv, Columns
    <3> QED BY <3>1, AttemptsFinite, SessionAssumption
  <2>6. FailuresCounted BY DEF SessionInv, LimiterInv, FailuresCounted
  <2> QED BY <2>1, <2>2, <2>3, <2>4, <2>5, <2>6 DEF SessionsSound
<1> QED BY SessionInvariant, <1>1, PTL

\* Two moments whose time buckets are not neighbours are a bucket apart.
LEMMA BucketsApart ==
    ASSUME NEW n \in Nat, NEW a \in Nat, a <= n,
           a \div CsrfBucket # n \div CsrfBucket, a \div CsrfBucket # n \div CsrfBucket - 1
    PROVE  n - a >= CsrfBucket
<1> DEFINE p == n \div CsrfBucket
           q == a \div CsrfBucket
           B == CsrfBucket
<1>0. B \in Nat /\ B > 0 BY SessionAssumption
<1>1. /\ p \in Int /\ q \in Int /\ p # q /\ q # p - 1
      /\ p * B <= n /\ n < (p + 1) * B /\ q * B <= a /\ a < (q + 1) * B
  BY <1>0
<1> HIDE DEF p, q, B
<1>2. ~(q >= p + 1)
  <2>1. q >= p + 1 => q * B >= (p + 1) * B BY <1>0, <1>1
  <2> QED BY <2>1, <1>0, <1>1
<1>3. q + 1 <= p - 1 BY <1>1, <1>2
<1>4. (q + 1) * B <= (p - 1) * B BY <1>0, <1>1, <1>3
<1>5. (p - 1) * B = p * B - B BY <1>0, <1>1
<1>6. p * B \in Int /\ q * B \in Int /\ (q + 1) * B \in Int BY <1>0, <1>1
<1> QED BY <1>0, <1>1, <1>4, <1>5, <1>6 DEF B

\* Only a refusal of verify_csrf leaves the reason "csrf".
LEMMA CsrfRefused ==
    ASSUME SessionInv, Next, NEW t \in Tabs, tab[t].phase = "answered", tab'[t].why = "csrf"
    PROVE  now - tab[t].at >= CsrfBucket
<1>0. /\ Good(t) /\ tab[t].why = "none" /\ tab \in [Tabs -> Request] /\ Columns
      /\ now \in Nat /\ tab[t].at \in Nat /\ cookie \in Nat
  BY SessionFacts DEF SessionInv, TabsGood, Good
<1>1. tab' # tab BY <1>0
<1>2. PICK u \in Tabs :
          \/ \E op \in Ops : Send(u, op)
          \/ ServiceRefused(u) \/ Access(u) \/ Authorize(u)
          \/ Deliver(u) \/ DeliverRefusal(u) \/ Lose(u)
          \/ PostLogout(u) \/ Revoke(u) \/ DeliverLogout(u)
          \/ StartLogin(u) \/ RecordFailure(u) \/ ClearFailures(u) \/ CreateSession(u)
  BY <1>1 DEF Next, Tick
<1>3. CASE Authorize(u)
  <2>1. PICK phase \in Phases, why \in Whys :
          /\ Becomes(u, tab[u].op, phase, tab[u].token, tab[u].fresh, tab[u].csrf, tab[u].at, why)
          /\ why = "csrf" => Live(Holder(u)) /\ ~CsrfValid(Holder(u), tab[u].csrf)
          /\ phase = "done" => why = tab[u].why
    <3>1. /\ tab[u].why \in Whys /\ "session" \in Whys /\ "csrf" \in Whys
          /\ "done" \in Phases /\ "refused" \in Phases /\ tab[u].why = "none"
      BY <1>3, SessionFacts, RequestFields DEF Whys, Phases, SessionInv, TabsGood, Good, Authorize
    <3> QED BY <1>0, <1>3, <3>1, AuthorizeEffect
  <2>2. u = t BY <1>0, <2>1 DEF Becomes
  <2>3. ~CsrfValid(Holder(t), tab[t].csrf) BY <2>1, <2>2 DEF Becomes
  <2>4. tab[t].csrf.row = Holder(t) /\ tab[t].csrf.bucket = tab[t].at \div CsrfBucket /\ tab[t].at <= now
    BY <1>0 DEF Good
  <2>5. /\ tab[t].at \div CsrfBucket # now \div CsrfBucket
        /\ tab[t].at \div CsrfBucket # now \div CsrfBucket - 1
    BY <2>3, <2>4 DEF CsrfValid
  <2> QED BY <1>0, <2>4, <2>5, BucketsApart
<1>4. ASSUME NEW why, why # "csrf", NEW op, NEW phase, NEW token, NEW fresh, NEW csrf, NEW at,
             Becomes(u, op, phase, token, fresh, csrf, at, why)
      PROVE  FALSE
  BY <1>0, <1>4 DEF Becomes
<1>5. ASSUME tab' = [tab EXCEPT ![u] = Idle] PROVE FALSE
  BY <1>0, <1>4, <1>5, RequestEnds
<1>6. CASE u = t
  <2>1. ServiceRefused(t) \/ Authorize(t) \/ Deliver(t) \/ Lose(t)
    BY <1>2, <1>6 DEF Send, Access, DeliverRefusal, PostLogout, Revoke, DeliverLogout, StartLogin,
       RecordFailure, ClearFailures, CreateSession
  <2>2. CASE ServiceRefused(t)
    BY <1>0, <1>4, <1>6, <2>2, RefuseMoves DEF ServiceRefused, Whys
  <2>3. CASE Deliver(t)
    <3>1. tab' = [tab EXCEPT ![t] = Idle] \/ tab' = [tab EXCEPT ![t].phase = "confirming"]
      BY <1>0, <2>3 DEF Deliver
    <3> QED BY <1>0, <1>4, <1>5, <1>6, <3>1, PhaseMoves DEF Phases
  <2>4. CASE Lose(t) BY <1>5, <1>6, <2>4 DEF Lose
  <2> QED BY <1>3, <1>6, <2>1, <2>2, <2>3, <2>4
<1>7. CASE u # t
  <2>1. tab'[t] = tab[t]
    BY <1>0, <1>2, <1>7 DEF Send, ServiceRefused, Refuse, Access, Authorize, Deliver,
       DeliverRefusal, Lose, PostLogout, Revoke, DeliverLogout, StartLogin, RecordFailure,
       ClearFailures, CreateSession
  <2> QED BY <1>0, <2>1
<1> QED BY <1>6, <1>7

\* verify_csrf never refuses a token that is younger than one bucket.
THEOREM FreshCsrfStands == Spec => FreshCsrfAccepted
<1>1. SessionInv /\ [Next]_vars =>
         [\A t \in Tabs : tab[t].phase = "answered" /\ tab'[t].why = "csrf" =>
            now - tab[t].at >= CsrfBucket]_vars
  BY CsrfRefused
<1> QED BY SessionInvariant, <1>1, PTL DEF Spec, FreshCsrfAccepted

-----------------------------------------------------------------------------
(* Service tokens are sound for every set of callers, jobs and worker      *)
(* requests and every choice of the lifetimes: what the provider's cache   *)
(* still hands out the API still accepts, a revoked principal stays out,   *)
(* and a signed worker request is exchanged once.                          *)
(*                                                                         *)
(* The argument is that credentials only grow (CredentialsGrow): an        *)
(* exchange that was issued is covered by the credential until its token   *)
(* expires (IssuedCovered), whatever registers after it, and so is the     *)
(* token it brings into the cache (CacheCovered).                          *)

Entry  == [exp : Int, until : Int]
Waiter == [phase : {"idle", "waiting", "handed", "failed"}, key : Keys \cup {"none"}]

\* The column types the inductive steps need, beyond TokenTypeOK.
TokenColumns ==
    /\ clock \in 0 .. MaxClock
    /\ cred \in [Subjects -> Credential \cup {Absent}]
    /\ call \in [Slots -> Call]
    /\ cache \in [Keys -> Entry]
    /\ caller \in [Callers -> Waiter]
    /\ nonces \in [Requests -> Nat] /\ accepted \in [Requests -> Nat]

\* A caller waits for an exchange of the provider that is under way.
WaitersHaveCall ==
    \A g \in Callers : caller[g].phase = "waiting" =>
        caller[g].key \in Keys /\ call[caller[g].key].phase # "none"

\* No clock that an exchange has read, and no credential, lies in the future.
NothingFromFuture ==
    /\ \A x \in Slots : call[x].at <= clock
    /\ \A p \in Subjects : cred[p].from <= clock

\* The credential of an issued exchange lasts at least as long as its token.
IssuedCovered ==
    \A x \in Slots : call[x].phase = "issued" =>
        cred[Subject(x)].until >= TokenExpiry(call[x].at)

\* So does that of a cached token, which is dropped early enough.
CacheCovered ==
    \A k \in Keys :
        \/ cache[k] = NoEntry
        \/ /\ cache[k].until <= cache[k].exp - Safety
           /\ cred["deployment"].until >= cache[k].exp

\* A revocation is never undone.
LapsedRevoked == \A p \in lapsed : p \in Subjects /\ cred[p].state = "revoked"

\* The nonce of an exchanged request outlives the request.
NonceOutlives ==
    \A q \in Requests :
        \/ accepted[q] = 0
        \/ accepted[q] = 1 /\ nonces[q] > SignedAt + RequestMaxAge

TokenInv ==
    /\ TokenColumns
    /\ WaitersHaveCall
    /\ NothingFromFuture
    /\ IssuedCovered
    /\ CacheCovered
    /\ LapsedRevoked
    /\ NonceOutlives

-----------------------------------------------------------------------------
(* Facts about the parameters and the helpers *)

\* The constants are numbers, and a nonce outlives the request it belongs to.
LEMMA ParameterTypes ==
    ASSUME TokenAssumption
    PROVE  /\ TokenTtl \in Nat /\ TokenTtl > 0 /\ CacheMax \in Nat /\ Window \in Nat
           /\ Safety \in Nat /\ Skew \in Nat /\ RequestMaxAge \in Nat /\ Retention \in Nat
           /\ ExchangeLimit \in Nat /\ MaxClock \in Nat
           /\ RequestMaxAge + Skew < Retention
           /\ Keys \cap Jobs = {}
  BY DEF TokenAssumption

\* Every exchange acts on a known principal, the provider's on the deployment.
LEMMA SubjectKnown ==
    /\ \A x \in Slots : Subject(x) \in Subjects
    /\ \A k \in Keys : k \in Slots /\ Subject(k) = "deployment" /\ "deployment" \in Subjects
    /\ \A j \in Jobs : j \in Slots
<1>1. \A x \in Slots : Subject(x) \in Subjects BY DEF Subjects
<1>2. \A k \in Keys : k \in Slots /\ Subject(k) = "deployment" BY DEF Slots, Subject
<1>3. \A j \in Jobs : j \in Slots BY DEF Slots
<1> QED BY <1>1, <1>2, <1>3

\* The empty call has the type of a call.
LEMMA NoCallType == TokenAssumption => NoCall \in Call /\ NoCall.phase = "none" /\ NoCall.at = 0
<1> SUFFICES ASSUME TokenAssumption
             PROVE  NoCall \in Call /\ NoCall.phase = "none" /\ NoCall.at = 0
  OBVIOUS
<1>1. 0 \in 0 .. MaxClock BY ParameterTypes
<1> QED BY <1>1 DEF NoCall, Call

\* Nothing of a credential that tokens rely on is ever taken back but by the
\* operator: register extends valid_until and leaves a revoked one alone.
CredentialsGrow ==
    /\ cred' \in [Subjects -> Credential \cup {Absent}]
    /\ \A p \in Subjects :
          /\ cred'[p].until >= cred[p].until
          /\ cred'[p].from <= clock
          /\ cred[p].state = "revoked" => cred'[p].state = "revoked"

-----------------------------------------------------------------------------
(* Two shapes of step *)

\* A step of exchanges and callers that issues nothing.
LEMMA CallsMove ==
    ASSUME TokenAssumption, TokenInv,
           UNCHANGED <<clock, cred, cache, nonces, accepted, lapsed>>,
           call' \in [Slots -> Call], caller' \in [Callers -> Waiter],
           WaitersHaveCall',
           \A x \in Slots : call'[x].at <= clock,
           \A x \in Slots : call'[x].phase = "issued" =>
               call[x].phase = "issued" /\ call'[x].at = call[x].at
    PROVE  TokenInv'
<1>1. TokenColumns' /\ NothingFromFuture' BY DEF TokenInv, TokenColumns, NothingFromFuture
<1>2. IssuedCovered' BY DEF TokenInv, IssuedCovered, TokenExpiry
<1>3. CacheCovered' BY DEF TokenInv, CacheCovered
<1>4. LapsedRevoked' /\ NonceOutlives' BY DEF TokenInv, LapsedRevoked, NonceOutlives
<1> QED BY <1>1, <1>2, <1>3, <1>4 DEF TokenInv

\* A step that lets credentials grow and issues only what they cover.
LEMMA CredentialsMove ==
    ASSUME TokenAssumption, TokenInv, CredentialsGrow,
           UNCHANGED <<clock, cache, caller, nonces, accepted>>,
           call' \in [Slots -> Call], WaitersHaveCall', LapsedRevoked',
           \A x \in Slots : call'[x].at = call[x].at,
           \A x \in Slots : call'[x].phase = "issued" =>
               \/ call[x].phase = "issued"
               \/ cred'[Subject(x)].until >= TokenExpiry(call[x].at)
    PROVE  TokenInv'
<1>0. \A p \in Subjects : cred[p].until \in Int /\ cred'[p].until \in Int
  BY DEF TokenInv, TokenColumns, CredentialsGrow, Credential, Absent
<1>1. TokenColumns' BY DEF TokenInv, TokenColumns, CredentialsGrow
<1>2. NothingFromFuture' BY DEF TokenInv, NothingFromFuture, CredentialsGrow
<1>3. IssuedCovered'
  <2> SUFFICES ASSUME NEW x \in Slots, call'[x].phase = "issued"
               PROVE  cred'[Subject(x)].until >= call[x].at + TokenTtl
    BY DEF IssuedCovered, TokenExpiry
  <2>1. Subject(x) \in Subjects BY SubjectKnown
  <2>2. call[x].at \in Int BY DEF TokenInv, TokenColumns, Call
  <2>3. TokenTtl \in Int BY ParameterTypes
  <2>4. cred'[Subject(x)].until >= cred[Subject(x)].until BY <2>1 DEF CredentialsGrow
  <2>5. CASE call[x].phase = "issued"
    <3>1. cred[Subject(x)].until >= call[x].at + TokenTtl
      BY <2>5 DEF TokenInv, IssuedCovered, TokenExpiry
    <3> QED BY <3>1, <2>1, <2>2, <2>3, <2>4, <1>0
  <2> QED BY <2>5 DEF TokenExpiry
<1>4. CacheCovered'
  <2> SUFFICES ASSUME NEW k \in Keys, cache[k] # NoEntry
               PROVE  /\ cache[k].until <= cache[k].exp - Safety
                      /\ cred'["deployment"].until >= cache[k].exp
    BY DEF CacheCovered
  <2>1. "deployment" \in Subjects BY SubjectKnown
  <2>2. cache[k].exp \in Int BY DEF TokenInv, TokenColumns, Entry
  <2>3. cred'["deployment"].until >= cred["deployment"].until BY <2>1 DEF CredentialsGrow
  <2>4. /\ cache[k].until <= cache[k].exp - Safety
        /\ cred["deployment"].until >= cache[k].exp
    BY DEF TokenInv, CacheCovered
  <2> QED BY <2>1, <2>2, <2>3, <2>4, <1>0
<1>5. NonceOutlives' BY DEF TokenInv, NonceOutlives
<1> QED BY <1>1, <1>2, <1>3, <1>4, <1>5 DEF TokenInv

-----------------------------------------------------------------------------
(* How the actions change exchanges and callers *)

\* Setting the phase of one exchange leaves the rest of it and the others.
LEMMA PhaseSet ==
    ASSUME TokenInv, NEW x \in Slots,
           NEW phase \in {"admitted", "denied", "inserting", "issued", "revoked"},
           call' = [call EXCEPT ![x].phase = phase]
    PROVE  /\ call' \in [Slots -> Call]
           /\ call'[x].phase = phase /\ call'[x].at = call[x].at
           /\ \A y \in Slots : y # x => call'[y] = call[y]
<1>1. call \in [Slots -> Call] BY DEF TokenInv, TokenColumns
<1>2. call' = [call EXCEPT ![x] = [call[x] EXCEPT !.phase = phase]] BY <1>1
<1>3. [call[x] EXCEPT !.phase = phase] \in Call BY <1>1 DEF Call
<1>4. [call[x] EXCEPT !.phase = phase].phase = phase
      /\ [call[x] EXCEPT !.phase = phase].at = call[x].at
  BY <1>1 DEF Call
<1> QED BY <1>1, <1>2, <1>3, <1>4

\* Nobody's exchange goes away while none ends.
LEMMA WaitersStay ==
    ASSUME TokenInv, caller' = caller,
           \A y \in Slots : call'[y].phase = "none" => call[y].phase = "none"
    PROVE  caller' \in [Callers -> Waiter] /\ WaitersHaveCall'
  BY SubjectKnown DEF TokenInv, TokenColumns, WaitersHaveCall

\* An exchange of the provider ends once everyone who waited has an answer.
LEMMA WaitersAnswered ==
    ASSUME TokenInv, NEW k \in Keys, NEW answer \in {"handed", "failed"},
           caller' = [g \in Callers |->
                          IF caller[g].key = k /\ caller[g].phase = "waiting"
                          THEN [caller[g] EXCEPT !.phase = answer] ELSE caller[g]],
           call' = [call EXCEPT ![k] = NoCall]
    PROVE  caller' \in [Callers -> Waiter] /\ WaitersHaveCall'
<1>1. call \in [Slots -> Call] /\ k \in Slots /\ caller \in [Callers -> Waiter]
  BY SubjectKnown DEF TokenInv, TokenColumns
<1>2. ASSUME NEW g \in Callers
      PROVE  /\ caller'[g] \in Waiter
             /\ caller'[g].phase = "waiting" => caller'[g] = caller[g] /\ caller[g].key # k
  <2>1. CASE caller[g].key = k /\ caller[g].phase = "waiting"
    <3>1. caller'[g] = [caller[g] EXCEPT !.phase = answer] BY <2>1
    <3>2. [caller[g] EXCEPT !.phase = answer] \in Waiter BY <1>1 DEF Waiter
    <3>3. [caller[g] EXCEPT !.phase = answer].phase = answer BY <1>1 DEF Waiter
    <3> QED BY <3>1, <3>2, <3>3
  <2>2. CASE ~(caller[g].key = k /\ caller[g].phase = "waiting")
    <3>1. caller'[g] = caller[g] BY <2>2
    <3> QED BY <3>1, <2>2, <1>1
  <2> QED BY <2>1, <2>2
<1>3. \A y \in Slots : y # k => call'[y] = call[y] BY <1>1
<1>4. WaitersHaveCall'
  <2> SUFFICES ASSUME NEW g \in Callers, caller'[g].phase = "waiting"
               PROVE  caller'[g].key \in Keys /\ call'[caller'[g].key].phase # "none"
    BY DEF WaitersHaveCall
  <2>1. caller'[g] = caller[g] /\ caller[g].key # k BY <1>2
  <2>2. caller[g].key \in Keys /\ call[caller[g].key].phase # "none"
    BY <2>1 DEF TokenInv, WaitersHaveCall
  <2> QED BY <2>1, <2>2, <1>3, SubjectKnown
<1>5. caller' \in [Callers -> Waiter] BY <1>2
<1> QED BY <1>4, <1>5

\* Ending one exchange leaves the others.
LEMMA CallEnds ==
    ASSUME TokenAssumption, TokenInv, NEW x \in Slots, call' = [call EXCEPT ![x] = NoCall]
    PROVE  /\ call' \in [Slots -> Call]
           /\ \A y \in Slots : call'[y].at <= clock
           /\ \A y \in Slots : call'[y].phase = "issued" =>
                  call[y].phase = "issued" /\ call'[y].at = call[y].at
<1>1. call \in [Slots -> Call] /\ clock \in 0 .. MaxClock BY DEF TokenInv, TokenColumns
<1>2. call'[x] = NoCall /\ \A y \in Slots : y # x => call'[y] = call[y] BY <1>1
<1>3. NoCall \in Call /\ NoCall.phase = "none" /\ NoCall.at = 0 BY NoCallType
<1>4. \A y \in Slots : call[y].at <= clock BY DEF TokenInv, NothingFromFuture
<1>5. call' \in [Slots -> Call] BY <1>1, <1>3
<1> QED BY <1>1, <1>2, <1>3, <1>4, <1>5, ParameterTypes

-----------------------------------------------------------------------------
(* The provider's actions *)

\* A request for a token keeps the invariant.
LEMMA GetStep ==
    ASSUME TokenAssumption, TokenInv, NEW g \in Callers, NEW k \in Keys, Get(g, k)
    PROVE  TokenInv'
<1>0. /\ call \in [Slots -> Call] /\ caller \in [Callers -> Waiter] /\ k \in Slots
      /\ clock \in 0 .. MaxClock
  BY SubjectKnown DEF TokenInv, TokenColumns
<1>1. UNCHANGED <<clock, cred, cache, rate, nonces, accepted, lapsed>> BY DEF Get
<1>2. CASE cache[k].until > clock
  <2> DEFINE c == [phase |-> "handed", key |-> k]
  <2>1. caller' = [caller EXCEPT ![g] = c] /\ call' = call BY <1>2 DEF Get
  <2>2. c \in Waiter /\ c.phase = "handed" BY DEF Waiter
  <2> HIDE DEF c
  <2>3. caller' \in [Callers -> Waiter] BY <1>0, <2>1, <2>2
  <2>4. WaitersHaveCall' BY <1>0, <2>1, <2>2 DEF TokenInv, WaitersHaveCall
  <2> QED BY <1>0, <1>1, <2>1, <2>3, <2>4, CallsMove DEF TokenInv, NothingFromFuture
<1>3. CASE ~(cache[k].until > clock)
  <2> DEFINE c == [phase |-> "waiting", key |-> k]
             s == [NoCall EXCEPT !.phase = "sent", !.asked = clock]
  <2>1. /\ caller' = [caller EXCEPT ![g] = c]
        /\ call' = IF call[k].phase # "none" THEN call ELSE [call EXCEPT ![k] = s]
    BY <1>3 DEF Get
  <2>2. c \in Waiter /\ c.phase = "waiting" /\ c.key = k BY DEF Waiter
  <2>3. s \in Call /\ s.phase = "sent" /\ s.at = 0
    <3> DEFINE sent == [NoCall EXCEPT !.phase = "sent"]
    <3>1. NoCall \in Call /\ NoCall.at = 0 BY NoCallType
    <3>2. sent \in Call /\ sent.phase = "sent" /\ sent.at = 0 BY <3>1 DEF Call
    <3>3. s = [sent EXCEPT !.asked = clock] OBVIOUS
    <3> HIDE DEF sent, s
    <3> QED BY <1>0, <3>2, <3>3 DEF Call
  <2> HIDE DEF c, s
  <2>4. caller' \in [Callers -> Waiter] BY <1>0, <2>1, <2>2
  <2>5. call' \in [Slots -> Call] BY <1>0, <2>1, <2>3
  <2>6. call'[k].phase # "none" /\ \A y \in Slots : y # k => call'[y] = call[y]
    BY <1>0, <2>1, <2>3
  <2>7. WaitersHaveCall'
    <3> SUFFICES ASSUME NEW h \in Callers, caller'[h].phase = "waiting"
                 PROVE  caller'[h].key \in Keys /\ call'[caller'[h].key].phase # "none"
      BY DEF WaitersHaveCall
    <3>1. CASE h = g
      <4>1. caller'[h] = c BY <3>1, <2>1, <1>0
      <4> QED BY <4>1, <2>2, <2>6
    <3>2. CASE h # g
      <4>1. caller'[h] = caller[h] BY <3>2, <2>1, <1>0
      <4>2. caller[h].key \in Keys /\ call[caller[h].key].phase # "none"
        BY <4>1 DEF TokenInv, WaitersHaveCall
      <4> QED BY <4>1, <4>2, <2>6, SubjectKnown
    <3> QED BY <3>1, <3>2
  <2>8. \A y \in Slots : call[y].at <= clock /\ 0 <= clock
    BY <1>0, ParameterTypes DEF TokenInv, NothingFromFuture
  <2>9. \A y \in Slots : call'[y].at <= clock
    BY <1>0, <2>1, <2>3, <2>8
  <2>10. \A y \in Slots : call'[y].phase = "issued" =>
              call[y].phase = "issued" /\ call'[y].at = call[y].at
    BY <1>0, <2>1, <2>3
  <2> QED BY <1>1, <2>4, <2>5, <2>7, <2>9, <2>10, CallsMove
<1> QED BY <1>2, <1>3

\* A failed exchange keeps the invariant.
LEMMA ExchangeFailsStep ==
    ASSUME TokenAssumption, TokenInv, NEW k \in Keys, ExchangeFails(k) PROVE TokenInv'
<1>1. /\ call' = [call EXCEPT ![k] = NoCall] /\ caller' = Fail(k)
      /\ UNCHANGED <<clock, cred, cache, rate, nonces, accepted, lapsed>>
  BY DEF ExchangeFails
<1>2. caller' = [g \in Callers |->
                    IF caller[g].key = k /\ caller[g].phase = "waiting"
                    THEN [caller[g] EXCEPT !.phase = "failed"] ELSE caller[g]]
  BY <1>1 DEF Fail
<1>3. caller' \in [Callers -> Waiter] /\ WaitersHaveCall'
  BY <1>1, <1>2, WaitersAnswered
<1> QED BY <1>1, <1>3, CallEnds, CallsMove, SubjectKnown

\* An exchanged token that reaches the cache keeps the invariant.
LEMMA ReceiveStep ==
    ASSUME TokenAssumption, TokenInv, NEW k \in Keys, Receive(k) PROVE TokenInv'
<1> DEFINE exp   == TokenExpiry(call[k].at)
           until == CacheUntil(call[k].asked, exp)
           entry == [exp |-> exp, until |-> until]
<1>0. /\ call \in [Slots -> Call] /\ cache \in [Keys -> Entry] /\ k \in Slots
      /\ caller \in [Callers -> Waiter]
  BY SubjectKnown DEF TokenInv, TokenColumns
<1>1. /\ call[k].phase = "issued" /\ call' = [call EXCEPT ![k] = NoCall]
      /\ UNCHANGED <<clock, cred, rate, nonces, accepted, lapsed>>
  BY DEF Receive
<1>2. CASE until <= call[k].asked
  <2>1. caller' = Fail(k) /\ cache' = cache BY <1>2 DEF Receive
  <2>2. caller' = [g \in Callers |->
                      IF caller[g].key = k /\ caller[g].phase = "waiting"
                      THEN [caller[g] EXCEPT !.phase = "failed"] ELSE caller[g]]
    BY <2>1 DEF Fail
  <2>3. caller' \in [Callers -> Waiter] /\ WaitersHaveCall'
    BY <1>1, <2>2, WaitersAnswered
  <2> QED BY <1>1, <2>1, <2>3, CallEnds, CallsMove, SubjectKnown
<1>3. CASE ~(until <= call[k].asked)
  <2>1. /\ cache' = [cache EXCEPT ![k] = entry]
        /\ caller' = [g \in Callers |->
                          IF caller[g].key = k /\ caller[g].phase = "waiting"
                          THEN [caller[g] EXCEPT !.phase = "handed"] ELSE caller[g]]
    BY <1>3 DEF Receive
  <2>2. caller' \in [Callers -> Waiter] /\ WaitersHaveCall'
    BY <1>1, <2>1, WaitersAnswered
  <2>3. /\ call' \in [Slots -> Call]
        /\ \A y \in Slots : call'[y].at <= clock
        /\ \A y \in Slots : call'[y].phase = "issued" =>
              call[y].phase = "issued" /\ call'[y].at = call[y].at
    BY <1>1, <1>0, CallEnds
  <2>4. exp \in Int /\ until \in Int /\ until <= exp - Safety
    <3>1. call[k].at \in Int /\ call[k].asked \in Int BY <1>0 DEF Call
    <3> QED BY <3>1, ParameterTypes DEF TokenExpiry, CacheUntil, Earlier
  <2>5. cred["deployment"].until >= exp
    BY <1>0, <1>1, SubjectKnown DEF TokenInv, IssuedCovered
  <2> HIDE DEF exp, until
  <2>6. entry \in Entry /\ entry.exp = exp /\ entry.until = until BY <2>4 DEF Entry
  <2> HIDE DEF entry
  <2>7. cache' \in [Keys -> Entry] BY <1>0, <2>1, <2>6
  <2>8. CacheCovered'
    BY <1>0, <1>1, <2>1, <2>4, <2>5, <2>6 DEF TokenInv, CacheCovered
  <2>9. TokenColumns' BY <1>1, <2>2, <2>3, <2>7 DEF TokenInv, TokenColumns
  <2>10. NothingFromFuture' BY <1>1, <2>3 DEF TokenInv, NothingFromFuture
  <2>11. IssuedCovered' BY <1>1, <2>3 DEF TokenInv, IssuedCovered, TokenExpiry
  <2>12. LapsedRevoked' /\ NonceOutlives' BY <1>1 DEF TokenInv, LapsedRevoked, NonceOutlives
  <2> QED BY <2>2, <2>8, <2>9, <2>10, <2>11, <2>12 DEF TokenInv
<1> QED BY <1>2, <1>3

\* A caller that takes its token keeps the invariant.
LEMMA FinishStep ==
    ASSUME TokenAssumption, TokenInv, NEW g \in Callers, Finish(g) PROVE TokenInv'
<1>0. caller \in [Callers -> Waiter] /\ call \in [Slots -> Call]
  BY DEF TokenInv, TokenColumns
<1>1. /\ caller' = [caller EXCEPT ![g] = NoCaller]
      /\ UNCHANGED <<clock, cred, call, cache, rate, nonces, accepted, lapsed>>
  BY DEF Finish
<1>2. NoCaller \in Waiter /\ NoCaller.phase = "idle" BY DEF NoCaller, Waiter
<1>3. caller' \in [Callers -> Waiter] BY <1>0, <1>1, <1>2
<1>4. WaitersHaveCall' BY <1>0, <1>1, <1>2 DEF TokenInv, WaitersHaveCall
<1> QED BY <1>0, <1>1, <1>3, <1>4, CallsMove DEF TokenInv, NothingFromFuture

-----------------------------------------------------------------------------
(* The actions of an exchange *)

\* The start of a workflow job keeps the invariant.
LEMMA StartJobStep ==
    ASSUME TokenAssumption, TokenInv, NEW j \in Jobs, StartJob(j) PROVE TokenInv'
<1> DEFINE s == [NoCall EXCEPT !.phase = "sent"]
<1>0. /\ call \in [Slots -> Call] /\ j \in Slots /\ clock \in 0 .. MaxClock
  BY SubjectKnown DEF TokenInv, TokenColumns
<1>1. /\ call' = [call EXCEPT ![j] = s]
      /\ UNCHANGED <<clock, cred, cache, caller, rate, nonces, accepted, lapsed>>
  BY DEF StartJob
<1>2. NoCall \in Call /\ NoCall.at = 0 BY NoCallType
<1>3. s \in Call /\ s.phase = "sent" /\ s.at = 0 BY <1>2 DEF Call
<1> HIDE DEF s
<1>4. call' \in [Slots -> Call] BY <1>0, <1>1, <1>3
<1>5. \A y \in Slots : call[y].at <= clock /\ 0 <= clock
  BY <1>0, ParameterTypes DEF TokenInv, NothingFromFuture
<1>6. \A y \in Slots : call'[y].at <= clock BY <1>0, <1>1, <1>3, <1>5
<1>7. \A y \in Slots : call'[y].phase = "issued" =>
          call[y].phase = "issued" /\ call'[y].at = call[y].at
  BY <1>0, <1>1, <1>3
<1>8. \A y \in Slots : call'[y].phase = "none" => call[y].phase = "none"
  BY <1>0, <1>1, <1>3
<1>9. caller' \in [Callers -> Waiter] /\ WaitersHaveCall' BY <1>1, <1>8, WaitersStay
<1> QED BY <1>1, <1>4, <1>6, <1>7, <1>9, CallsMove

\* The clock is read and the provider's own authorization decides.
LEMMA AdmitStep ==
    ASSUME TokenAssumption, TokenInv, NEW x \in Slots, NEW phase \in {"admitted", "denied"},
           call' = [call EXCEPT ![x].at = clock, ![x].phase = phase],
           UNCHANGED <<clock, cred, cache, caller, nonces, accepted, lapsed>>
    PROVE  TokenInv'
<1>0. call \in [Slots -> Call] /\ clock \in 0 .. MaxClock BY DEF TokenInv, TokenColumns
<1> DEFINE c1 == [call[x] EXCEPT !.at = clock]
           c2 == [c1 EXCEPT !.phase = phase]
<1>1. call' = [call EXCEPT ![x] = c2] BY <1>0
<1>2. c1 \in Call /\ c1.at = clock BY <1>0 DEF Call
<1> HIDE DEF c1
<1>3. c2 \in Call /\ c2.at = clock /\ c2.phase = phase BY <1>2 DEF Call
<1> HIDE DEF c2
<1>4. call' \in [Slots -> Call] BY <1>0, <1>1, <1>3
<1>5. \A y \in Slots : call[y].at <= clock /\ clock <= clock
  BY <1>0, ParameterTypes DEF TokenInv, NothingFromFuture
<1>6. \A y \in Slots : call'[y].at <= clock BY <1>0, <1>1, <1>3, <1>5
<1>7. \A y \in Slots : call'[y].phase = "issued" =>
          call[y].phase = "issued" /\ call'[y].at = call[y].at
  BY <1>0, <1>1, <1>3
<1>8. \A y \in Slots : call'[y].phase = "none" => call[y].phase = "none"
  BY <1>0, <1>1, <1>3
<1>9. caller' \in [Callers -> Waiter] /\ WaitersHaveCall' BY <1>8, WaitersStay
<1> QED BY <1>4, <1>6, <1>7, <1>9, CallsMove

\* An exchange that finds no credential keeps the invariant.
LEMMA FindNoneStep ==
    ASSUME TokenAssumption, TokenInv, NEW x \in Slots, FindNone(x) PROVE TokenInv'
<1>1. /\ call' = [call EXCEPT ![x].phase = "inserting"]
      /\ UNCHANGED <<clock, cred, cache, caller, rate, nonces, accepted, lapsed>>
  BY DEF FindNone
<1>2. /\ call' \in [Slots -> Call]
      /\ call'[x].phase = "inserting" /\ call'[x].at = call[x].at
      /\ \A y \in Slots : y # x => call'[y] = call[y]
  BY <1>1, PhaseSet
<1>3. caller' \in [Callers -> Waiter] /\ WaitersHaveCall' BY <1>1, <1>2, WaitersStay
<1>4. \A y \in Slots : call'[y].at <= clock
  BY <1>2 DEF TokenInv, NothingFromFuture
<1>5. \A y \in Slots : call'[y].phase = "issued" =>
          call[y].phase = "issued" /\ call'[y].at = call[y].at
  BY <1>2
<1> QED BY <1>1, <1>2, <1>3, <1>4, <1>5, CallsMove

\* The end of a workflow job keeps the invariant.
LEMMA EndJobStep ==
    ASSUME TokenAssumption, TokenInv, NEW j \in Jobs, EndJob(j) PROVE TokenInv'
<1>0. call \in [Slots -> Call] /\ j \in Slots /\ j \notin Keys
  BY SubjectKnown, ParameterTypes DEF TokenInv, TokenColumns
<1>1. /\ call' = [call EXCEPT ![j] = NoCall]
      /\ UNCHANGED <<clock, cred, cache, caller, rate, nonces, accepted, lapsed>>
  BY DEF EndJob
<1>2. \A k \in Keys : call'[k] = call[k] BY <1>0, <1>1, SubjectKnown
<1>3. caller' \in [Callers -> Waiter] /\ WaitersHaveCall'
  BY <1>1, <1>2 DEF TokenInv, TokenColumns, WaitersHaveCall
<1> QED BY <1>0, <1>1, <1>3, CallEnds, CallsMove

\* A registration moves one exchange on and lets the credentials grow.
LEMMA RegistrationMoves ==
    ASSUME TokenAssumption, TokenInv, CredentialsGrow, NEW x \in Slots,
           NEW phase \in {"denied", "issued", "revoked"},
           call' = [call EXCEPT ![x].phase = phase],
           phase = "issued" => cred'[Subject(x)].until >= TokenExpiry(call[x].at),
           UNCHANGED <<clock, cache, caller, nonces, accepted, lapsed>>
    PROVE  TokenInv'
<1>1. /\ call' \in [Slots -> Call]
      /\ call'[x].phase = phase /\ call'[x].at = call[x].at
      /\ \A y \in Slots : y # x => call'[y] = call[y]
  BY PhaseSet
<1>2. caller' \in [Callers -> Waiter] /\ WaitersHaveCall' BY <1>1, WaitersStay
<1>3. LapsedRevoked' BY DEF TokenInv, LapsedRevoked, CredentialsGrow
<1>4. \A y \in Slots : call'[y].at = call[y].at BY <1>1
<1>5. \A y \in Slots : call'[y].phase = "issued" =>
          \/ call[y].phase = "issued"
          \/ cred'[Subject(y)].until >= TokenExpiry(call[y].at)
  BY <1>1
<1> QED BY <1>1, <1>2, <1>3, <1>4, <1>5, CredentialsMove

\* Credentials that do not change have not shrunk.
LEMMA CredentialsStay == TokenInv /\ cred' = cred => CredentialsGrow
<1> SUFFICES ASSUME TokenInv, cred' = cred PROVE CredentialsGrow OBVIOUS
<1>1. cred \in [Subjects -> Credential \cup {Absent}] BY DEF TokenInv, TokenColumns
<1>2. \A p \in Subjects : cred[p].until \in Int BY <1>1 DEF Credential, Absent
<1> QED BY <1>1, <1>2 DEF TokenInv, NothingFromFuture, CredentialsGrow

\* The first credential of a principal keeps the invariant.
LEMMA InsertStep ==
    ASSUME TokenAssumption, TokenInv, NEW x \in Slots, Insert(x) PROVE TokenInv'
<1> DEFINE p == Subject(x)
           at == call[x].at
           row == [state |-> "active", from |-> at, until |-> TokenExpiry(at)]
<1>0. /\ cred \in [Subjects -> Credential \cup {Absent}] /\ p \in Subjects
      /\ at \in 0 .. MaxClock /\ at <= clock
  BY SubjectKnown DEF TokenInv, TokenColumns, Call, NothingFromFuture
<1>1. UNCHANGED <<clock, cache, caller, nonces, accepted, lapsed>> BY DEF Insert
<1>2. CASE cred[p].state = "absent"
  <2>1. /\ cred' = [cred EXCEPT ![p] = row]
        /\ call' = [call EXCEPT ![x].phase = "issued"]
    BY <1>2 DEF Insert
  <2>2. TokenExpiry(at) \in 1 .. MaxClock + TokenTtl /\ at < TokenExpiry(at)
    BY <1>0, ParameterTypes DEF TokenExpiry
  <2>3. row \in Credential /\ row.from = at /\ row.until = TokenExpiry(at)
    BY <1>0, <2>2 DEF Credential
  <2>4. cred[p].until = 0 BY <1>0, <1>2 DEF Credential, Absent
  <2> HIDE DEF row, at, p
  <2>5. cred'[p] = row /\ \A y \in Subjects : y # p => cred'[y] = cred[y]
    BY <1>0, <2>1
  <2>6. cred' \in [Subjects -> Credential \cup {Absent}] BY <1>0, <2>1, <2>3
  <2>7. \A y \in Subjects : cred[y].until \in Int /\ cred[y].from <= clock
    BY <1>0 DEF Credential, Absent, TokenInv, NothingFromFuture
  <2>8. ASSUME NEW y \in Subjects
        PROVE  /\ cred'[y].until >= cred[y].until
               /\ cred'[y].from <= clock
               /\ cred[y].state = "revoked" => cred'[y].state = "revoked"
    <3>1. CASE y = p
      BY <3>1, <2>2, <2>3, <2>4, <2>5, <1>0, <1>2
    <3>2. CASE y # p
      BY <3>2, <2>5, <2>7
    <3> QED BY <3>1, <3>2
  <2>9. CredentialsGrow BY <2>6, <2>8 DEF CredentialsGrow
  <2>10. cred'[Subject(x)].until >= TokenExpiry(call[x].at)
    BY <2>2, <2>3, <2>5 DEF p, at
  <2> QED BY <1>1, <2>1, <2>9, <2>10, RegistrationMoves
<1>3. CASE cred[p].state # "absent"
  <2>1. cred' = cred /\ call' = [call EXCEPT ![x].phase = "denied"]
    BY <1>3 DEF Insert
  <2>2. CredentialsGrow BY <2>1, CredentialsStay
  <2> QED BY <1>1, <2>1, <2>2, RegistrationMoves
<1> QED BY <1>2, <1>3

\* An extended credential keeps the invariant.
LEMMA RegisterStep ==
    ASSUME TokenAssumption, TokenInv, NEW x \in Slots, Register(x) PROVE TokenInv'
<1> DEFINE p == Subject(x)
           at == call[x].at
           exp == TokenExpiry(at)
           until == IF exp > cred[p].until THEN exp ELSE cred[p].until
           r1 == [cred[p] EXCEPT !.until = until]
           row == [r1 EXCEPT !.state = "active"]
           phase == IF cred[p].from <= at THEN "issued" ELSE "revoked"
<1>0. /\ cred \in [Subjects -> Credential \cup {Absent}] /\ p \in Subjects
      /\ at \in 0 .. MaxClock /\ at <= clock
  BY SubjectKnown DEF TokenInv, TokenColumns, Call, NothingFromFuture
<1>1. UNCHANGED <<clock, cache, caller, nonces, accepted, lapsed>> BY DEF Register
<1>2. CASE Registrable(p)
  <2>0. cred[p].state = "active" BY <1>2 DEF Registrable
  <2>1. /\ cred' = [[cred EXCEPT ![p].until = until] EXCEPT ![p].state = "active"]
        /\ call' = [call EXCEPT ![x].phase = phase]
    BY <1>0, <1>2 DEF Register, Extended
  <2>2. cred[p] \in Credential
    BY <1>0, <2>0 DEF Absent
  <2>3. exp \in 1 .. MaxClock + TokenTtl
    BY <1>0, ParameterTypes DEF TokenExpiry
  <2>4. until \in 1 .. MaxClock + TokenTtl /\ until >= exp /\ until >= cred[p].until
    BY <2>2, <2>3, ParameterTypes DEF Credential
  <2> HIDE DEF until
  <2>5. r1 \in Credential /\ r1.until = until /\ r1.from = cred[p].from
    BY <2>2, <2>4, ParameterTypes DEF Credential
  <2>a. cred' = [cred EXCEPT ![p] = row] BY <1>0, <2>1
  <2> HIDE DEF r1
  <2>6. row \in Credential /\ row.until = until /\ row.from = cred[p].from
    BY <2>5 DEF Credential
  <2> HIDE DEF row, p, at, exp
  <2>7. cred'[p] = row /\ \A y \in Subjects : y # p => cred'[y] = cred[y]
    BY <1>0, <2>a
  <2>8. cred' \in [Subjects -> Credential \cup {Absent}] BY <1>0, <2>a, <2>6
  <2>9. \A y \in Subjects : cred[y].until \in Int /\ cred[y].from <= clock
    BY <1>0 DEF Credential, Absent, TokenInv, NothingFromFuture
  <2>10. ASSUME NEW y \in Subjects
         PROVE  /\ cred'[y].until >= cred[y].until
                /\ cred'[y].from <= clock
                /\ cred[y].state = "revoked" => cred'[y].state = "revoked"
    <3>1. CASE y = p
      BY <3>1, <2>0, <2>4, <2>6, <2>7, <2>9
    <3>2. CASE y # p
      BY <3>2, <2>7, <2>9
    <3> QED BY <3>1, <3>2
  <2>11. CredentialsGrow BY <2>8, <2>10 DEF CredentialsGrow
  <2>12. cred'[Subject(x)].until >= TokenExpiry(call[x].at)
    BY <2>4, <2>6, <2>7 DEF p, at, exp
  <2>13. phase \in {"denied", "issued", "revoked"} OBVIOUS
  <2> QED BY <1>1, <2>1, <2>11, <2>12, <2>13, RegistrationMoves
<1>3. CASE ~Registrable(p)
  <2>1. cred' = cred /\ call' = [call EXCEPT ![x].phase = "revoked"]
    BY <1>3 DEF Register
  <2>2. CredentialsGrow BY <2>1, CredentialsStay
  <2> QED BY <1>1, <2>1, <2>2, RegistrationMoves
<1> QED BY <1>2, <1>3

\* A revocation keeps the invariant.
LEMMA PrincipalRevokeStep ==
    ASSUME TokenAssumption, TokenInv, NEW p \in Subjects, RevokePrincipal(p) PROVE TokenInv'
<1> DEFINE row == [cred[p] EXCEPT !.state = "revoked"]
<1>0. /\ cred \in [Subjects -> Credential \cup {Absent}] /\ call \in [Slots -> Call]
      /\ \A y \in Subjects : cred[y].from <= clock
  BY DEF TokenInv, TokenColumns, NothingFromFuture
<1>1. /\ cred[p].state = "active" /\ cred' = [cred EXCEPT ![p] = row]
      /\ lapsed' = lapsed \union {p}
      /\ UNCHANGED <<clock, call, cache, caller, rate, nonces, accepted>>
  BY <1>0 DEF RevokePrincipal
<1>2. cred[p] \in Credential BY <1>0, <1>1 DEF Absent
<1>3. /\ row \in Credential /\ row.state = "revoked"
      /\ row.from = cred[p].from /\ row.until = cred[p].until
  BY <1>2 DEF Credential
<1> HIDE DEF row
<1>4. cred'[p] = row /\ \A y \in Subjects : y # p => cred'[y] = cred[y]
  BY <1>0, <1>1
<1>5. cred' \in [Subjects -> Credential \cup {Absent}] BY <1>0, <1>1, <1>3
<1>6. \A y \in Subjects : cred[y].until \in Int BY <1>0 DEF Credential, Absent
<1>7. \A y \in Subjects : cred'[y].until >= cred[y].until /\ cred'[y].from <= clock
  BY <1>0, <1>3, <1>4, <1>6
<1>8. CredentialsGrow BY <1>1, <1>3, <1>4, <1>5, <1>7 DEF CredentialsGrow
<1>9. caller' \in [Callers -> Waiter] /\ WaitersHaveCall' BY <1>1, WaitersStay
<1>10. LapsedRevoked' BY <1>1, <1>3, <1>4 DEF TokenInv, LapsedRevoked
<1> QED BY <1>0, <1>1, <1>8, <1>9, <1>10, CredentialsMove

-----------------------------------------------------------------------------
(* Worker requests and the clock *)

\* The exchange of a signed request keeps the invariant.
LEMMA WorkerStep ==
    ASSUME TokenAssumption, TokenInv, NEW q \in Requests, ExchangeWorker(q) PROVE TokenInv'
<1>0. /\ nonces \in [Requests -> Nat] /\ accepted \in [Requests -> Nat]
      /\ clock \in Nat /\ SignedAt = 1
  BY ParameterTypes DEF TokenInv, TokenColumns, SignedAt
<1>1. /\ clock - SignedAt <= RequestMaxAge /\ clock - SignedAt >= -Skew
      /\ nonces[q] <= clock
      /\ nonces' = [nonces EXCEPT ![q] = clock + Retention]
      /\ accepted' = [accepted EXCEPT ![q] = accepted[q] + 1]
      /\ UNCHANGED <<clock, cred, call, cache, caller, rate, lapsed>>
  BY DEF ExchangeWorker, WorkerAuthorized, NonceFree, RetainUntil
<1>2. accepted[q] = 0
  <2>1. ~(nonces[q] > SignedAt + RequestMaxAge) BY <1>0, <1>1, ParameterTypes
  <2> QED BY <2>1 DEF TokenInv, NonceOutlives
<1>3. clock + Retention > SignedAt + RequestMaxAge /\ clock + Retention \in Nat
  BY <1>0, <1>1, ParameterTypes
<1>4. nonces' \in [Requests -> Nat] /\ accepted' \in [Requests -> Nat]
  BY <1>0, <1>1, <1>3
<1>5. NonceOutlives' BY <1>0, <1>1, <1>2, <1>3 DEF TokenInv, NonceOutlives
<1>6. TokenColumns' BY <1>1, <1>4 DEF TokenInv, TokenColumns
<1> QED
  BY <1>1, <1>5, <1>6 DEF TokenInv, WaitersHaveCall, NothingFromFuture, IssuedCovered,
     TokenExpiry, CacheCovered, LapsedRevoked

\* Time keeps the invariant.
LEMMA TokenTickStep == ASSUME TokenAssumption, TokenInv, TokenTick PROVE TokenInv'
<1>1. /\ clock < MaxClock /\ clock' = clock + 1
      /\ UNCHANGED <<cred, call, cache, caller, nonces, accepted, lapsed>>
  BY DEF TokenTick
<1>2. clock \in 0 .. MaxClock BY DEF TokenInv, TokenColumns
<1>3. clock' \in 0 .. MaxClock BY <1>1, <1>2, ParameterTypes
<1>4. TokenColumns' BY <1>1, <1>3 DEF TokenInv, TokenColumns
<1>5. NothingFromFuture'
  <2>1. \A x \in Slots : call[x].at \in Int BY DEF TokenInv, TokenColumns, Call
  <2>2. \A p \in Subjects : cred[p].from \in Int
    BY DEF TokenInv, TokenColumns, Credential, Absent
  <2> QED BY <1>1, <1>2, <2>1, <2>2, ParameterTypes DEF TokenInv, NothingFromFuture
<1> QED
  BY <1>1, <1>4, <1>5 DEF TokenInv, WaitersHaveCall, IssuedCovered, TokenExpiry,
     CacheCovered, LapsedRevoked, NonceOutlives

-----------------------------------------------------------------------------
(* The theorems *)

\* The invariant holds before any exchange.
LEMMA TokenStart == ASSUME TokenAssumption, TokenInit PROVE TokenInv
<1>1. 0 \in 0 .. MaxClock BY ParameterTypes
<1>2. NoCall \in Call /\ NoCall.phase = "none" /\ NoCall.at = 0 BY NoCallType
<1>3. NoEntry \in Entry BY DEF NoEntry, Entry
<1>4. NoCaller \in Waiter /\ NoCaller.phase = "idle" BY DEF NoCaller, Waiter
<1>5. TokenColumns BY <1>1, <1>2, <1>3, <1>4 DEF TokenInit, TokenColumns
<1>6. WaitersHaveCall BY <1>4 DEF TokenInit, WaitersHaveCall
<1>7. NothingFromFuture BY <1>2 DEF TokenInit, NothingFromFuture, Absent
<1>8. IssuedCovered BY <1>2 DEF TokenInit, IssuedCovered
<1>9. CacheCovered /\ LapsedRevoked /\ NonceOutlives
  BY DEF TokenInit, CacheCovered, LapsedRevoked, NonceOutlives
<1> QED BY <1>5, <1>6, <1>7, <1>8, <1>9 DEF TokenInv

\* Every step keeps the invariant.
LEMMA TokenStep == ASSUME TokenAssumption, TokenInv, TokenNext PROVE TokenInv'
<1>1. ASSUME NEW k \in Keys, AdmitServer(k) PROVE TokenInv'
  <2> DEFINE phase == IF rate < ExchangeLimit THEN "admitted" ELSE "denied"
  <2>1. /\ call' = [call EXCEPT ![k].at = clock, ![k].phase = phase]
        /\ UNCHANGED <<clock, cred, cache, caller, nonces, accepted, lapsed>>
    BY <1>1 DEF AdmitServer
  <2>2. phase \in {"admitted", "denied"} OBVIOUS
  <2> HIDE DEF phase
  <2> QED BY <2>1, <2>2, AdmitStep, SubjectKnown
<1>2. ASSUME NEW j \in Jobs, AdmitJob(j) PROVE TokenInv'
  <2>1. PICK phase \in {"admitted", "denied"} :
            call' = [call EXCEPT ![j].at = clock, ![j].phase = phase]
    BY <1>2 DEF AdmitJob
  <2>2. UNCHANGED <<clock, cred, cache, caller, nonces, accepted, lapsed>>
    BY <1>2 DEF AdmitJob
  <2> QED BY <2>1, <2>2, AdmitStep, SubjectKnown
<1>3. ASSUME NEW x \in Slots, RegisterSteps(x) PROVE TokenInv'
  BY <1>3, FindNoneStep, InsertStep, RegisterStep DEF RegisterSteps
<1>4. CASE TokenTick BY <1>4, TokenTickStep
<1> QED
  BY <1>1, <1>2, <1>3, <1>4, GetStep, FinishStep, ReceiveStep, ExchangeFailsStep,
     StartJobStep, EndJobStep, PrincipalRevokeStep, WorkerStep DEF TokenNext

\* Calls, credentials, the cache and the nonces agree in every state.
THEOREM TokenInvariant == ASSUME TokenAssumption PROVE TokenSpec => []TokenInv
<1>1. TokenInit => TokenInv BY TokenStart
<1>2. TokenInv /\ [TokenNext]_tokenVars => TokenInv'
  <2> SUFFICES ASSUME TokenInv, [TokenNext]_tokenVars PROVE TokenInv' OBVIOUS
  <2>1. CASE TokenNext BY <2>1, TokenStep
  <2>2. CASE UNCHANGED tokenVars
    <3>1. UNCHANGED <<clock, cred, call, cache, caller, nonces, accepted, lapsed>>
      BY <2>2 DEF tokenVars
    <3> QED
      BY <3>1 DEF TokenInv, TokenColumns, WaitersHaveCall, NothingFromFuture, IssuedCovered,
         TokenExpiry, CacheCovered, LapsedRevoked, NonceOutlives
  <2> QED BY <2>1, <2>2
<1> QED BY <1>1, <1>2, PTL DEF TokenSpec

\* What createBffTokenProvider takes from its cache is accepted by the API
\* for longer than the safety margin, a token is covered by its credential
\* until it expires whatever registers after it, and a revoked principal
\* stays out through every exchange that was under way.
THEOREM TokensAreSound == ASSUME TokenAssumption PROVE TokenSpec => []TokensSound
<1>1. TokenInv => TokensSound
  <2> SUFFICES ASSUME TokenInv PROVE TokensSound OBVIOUS
  <2>0. /\ clock \in Nat /\ cache \in [Keys -> Entry]
        /\ cred \in [Subjects -> Credential \cup {Absent}]
    BY ParameterTypes DEF TokenInv, TokenColumns
  <2>1. TokenTypeOK BY DEF TokenInv, TokenColumns, TokenTypeOK, WaitersHaveCall
  <2>2. ASSUME NEW k \in Keys, cache[k] # NoEntry
        PROVE  /\ cache[k].exp \in Int /\ cache[k].until \in Int
               /\ cache[k].until <= cache[k].exp - Safety
               /\ cred["deployment"].until >= cache[k].exp
               /\ cred["deployment"].from <= clock
               /\ cred["deployment"].until \in Int
    BY <2>0, <2>2, SubjectKnown DEF TokenInv, CacheCovered, NothingFromFuture, Entry,
       Credential, Absent
  <2>3. CachedTokenUsable
    <3> SUFFICES ASSUME NEW k \in Keys, cache[k].until > clock,
                        cred["deployment"].state = "active"
                 PROVE  Accepts("deployment", cache[k].exp) /\ cache[k].exp - clock > Safety
      BY DEF CachedTokenUsable
    <3>1. cache[k] # NoEntry BY <2>0 DEF NoEntry
    <3>2. cache[k].exp - clock > Safety BY <2>0, <2>2, <3>1, ParameterTypes
    <3>3. NotExpired(cache[k].exp) BY <2>0, <2>2, <3>1, <3>2, ParameterTypes DEF NotExpired
    <3>4. cred["deployment"].until > clock BY <2>0, <2>2, <3>1, <3>2, ParameterTypes
    <3> QED BY <2>2, <3>1, <3>2, <3>3, <3>4 DEF Accepts
  <2>4. IssuedTokenCovered
    <3> SUFFICES ASSUME NEW k \in Keys, cache[k].exp > clock
                 PROVE  cred["deployment"].until >= cache[k].exp
      BY DEF IssuedTokenCovered
    <3>1. cache[k] # NoEntry BY <2>0 DEF NoEntry
    <3> QED BY <2>2, <3>1
  <2>5. RevokedStaysOut BY DEF TokenInv, LapsedRevoked, RevokedStaysOut, Accepts
  <2> QED BY <2>1, <2>3, <2>4, <2>5 DEF TokensSound
<1> QED BY <1>1, TokenInvariant, PTL

\* WorkerExchangeAuthorizer exchanges a signed request at most once: the nonce
\* is kept for longer than the request can still pass the age check.
THEOREM ExchangedOnce == ASSUME TokenAssumption PROVE TokenSpec => []RequestExchangedOnce
<1>1. TokenInv => RequestExchangedOnce
  BY DEF TokenInv, NonceOutlives, RequestExchangedOnce
<1> QED BY <1>1, TokenInvariant, PTL

-----------------------------------------------------------------------------
(* The analysis queue is sound for every set of items and workers, every   *)
(* retry schedule and every history of proofs: an item is leased at most   *)
(* once more than there are retry delays, and analysed at most once, by    *)
(* the last lease it was granted.                                          *)
(*                                                                         *)
(* The invariant counts a lease against the attempt number of its row      *)
(* (LeasesCounted), ties the token of a lease under way to the last grant  *)
(* (LeaseIsLast), and keeps rows that can be leased again free of analyses *)
(* (OpenUnwritten).                                                        *)

\* The statuses from which a row can still be leased.
Open == {"absent", "pending", "failed_retryable"}

\* A worker that holds anything holds a known item.
HoldsKnown == \A w \in Workers : worker[w] = Nothing \/ worker[w].item \in Items

\* Every lease is paid for by an attempt, but for the one that is under way
\* or was the last.
LeasesCounted ==
    \A i \in Items :
        /\ item[i].status \in Open => granted[i] <= item[i].attempts
        /\ granted[i] <= item[i].attempts + 1
        /\ item[i].status = "absent" => item[i].attempts = 0

\* The lease of a row that is leased is the last one granted.
LeaseIsLast ==
    \A i \in Items : item[i].status = "leased" =>
        granted[i] > 0 /\ item[i].lease.token = granted[i]

\* A row that is leased, or can be, has no analysis yet.
OpenUnwritten ==
    \A i \in Items : item[i].status \in Open \cup {"leased"} => analyses[i] = <<>>

QueueInv ==
    /\ QueueTypeOK
    /\ IsFiniteSet(proofs)
    /\ HoldsKnown
    /\ LeasesCounted
    /\ LeaseIsLast
    /\ OpenUnwritten
    /\ OnlyLastLeaseWrites

-----------------------------------------------------------------------------
(* What the row operators return *)

\* A row with its status, lease and times overwritten.
Written(r, st, wait, lease, ttl) ==
    [r EXCEPT !.status = st, !.wait = wait, !.lease = lease, !.ttl = ttl]

\* Such a row keeps its column types and its attempt number.
LEMMA RowColumns ==
    ASSUME NEW r \in QueueItem, NEW wait \in Nat, NEW lease \in Lease, NEW ttl \in Int,
           NEW st \in QueueStatus
    PROVE  /\ Written(r, st, wait, lease, ttl) \in QueueItem
           /\ Written(r, st, wait, lease, ttl).status = st
           /\ Written(r, st, wait, lease, ttl).attempts = r.attempts
           /\ Written(r, st, wait, lease, ttl).lease = lease
<1> DEFINE row == Written(r, st, wait, lease, ttl)
           q1  == [r EXCEPT !.status = st]
           q2  == [q1 EXCEPT !.wait = wait]
           q3  == [q2 EXCEPT !.lease = lease]
<1>1. q1 \in QueueItem /\ q1.status = st /\ q1.attempts = r.attempts
  BY DEF QueueItem
<1>5. row = [q3 EXCEPT !.ttl = ttl] BY DEF Written
<1> HIDE DEF q1, row
<1>2. q2 \in QueueItem /\ q2.status = st /\ q2.attempts = r.attempts
  BY <1>1 DEF QueueItem
<1> HIDE DEF q2
<1>3. q3 \in QueueItem /\ q3.status = st /\ q3.attempts = r.attempts /\ q3.lease = lease
  BY <1>2 DEF QueueItem
<1> HIDE DEF q3
<1>4. row \in QueueItem /\ row.status = st /\ row.attempts = r.attempts /\ row.lease = lease
  BY <1>3, <1>5 DEF QueueItem
<1> QED BY <1>4 DEF row

\* _clear_lease keeps the attempt number and returns a well-formed row.
LEMMA ClearedRow ==
    ASSUME NEW i \in Items, item[i] \in QueueItem,
           NEW st \in {"succeeded", "failed_retryable", "failed_terminal"}, NEW wait \in Nat
    PROVE  /\ Cleared(i, st, wait) \in QueueItem
           /\ Cleared(i, st, wait).status = st
           /\ Cleared(i, st, wait).attempts = item[i].attempts
<1>1. NoLease \in Lease BY DEF NoLease, Lease
<1>2. Cleared(i, st, wait) = Written(item[i], st, wait, NoLease, 0)
  BY DEF Cleared, Written
<1>3. 0 \in Int OBVIOUS
<1>4. st \in QueueStatus BY DEF QueueStatus
<1>5. /\ Written(item[i], st, wait, NoLease, 0) \in QueueItem
      /\ Written(item[i], st, wait, NoLease, 0).status = st
      /\ Written(item[i], st, wait, NoLease, 0).attempts = item[i].attempts
  BY <1>1, <1>3, <1>4, RowColumns
<1> QED BY <1>2, <1>5

\* _schedule_retry ends the lease: another attempt while delays are left,
\* else the terminal status at the attempt number reached.
LEMMA RetryRow ==
    ASSUME QueueAssumption, NEW i \in Items, item[i] \in QueueItem, NEW elapsed \in Int
    PROVE  LET row == ScheduleRetry(i, elapsed) IN
           /\ row \in QueueItem
           /\ \/ row.status = "failed_retryable" /\ row.attempts = item[i].attempts + 1
              \/ row.status = "failed_terminal" /\ row.attempts = item[i].attempts
<1> DEFINE next == item[i].attempts + 1
           left == RetryDelays[next] - elapsed
           wait == IF left > 0 THEN left ELSE 0
<1>0. item[i].attempts \in 0 .. Len(RetryDelays) /\ Len(RetryDelays) \in Nat
  BY DEF QueueItem, QueueAssumption
<1>1. CASE item[i].attempts >= Len(RetryDelays)
  <2>1. ScheduleRetry(i, elapsed) = Cleared(i, "failed_terminal", 0)
    BY <1>1 DEF ScheduleRetry
  <2> QED BY <2>1, ClearedRow
<1>2. CASE ~(item[i].attempts >= Len(RetryDelays))
  <2>1. next \in 1 .. Len(RetryDelays) BY <1>0, <1>2
  <2>2. RetryDelays[next] \in Nat BY <2>1 DEF QueueAssumption
  <2>3. wait \in Nat BY <2>2
  <2>4. ScheduleRetry(i, elapsed) =
            [Cleared(i, "failed_retryable", wait) EXCEPT !.attempts = next]
    BY <1>2 DEF ScheduleRetry
  <2> HIDE DEF wait
  <2>5. Cleared(i, "failed_retryable", wait) \in QueueItem
        /\ Cleared(i, "failed_retryable", wait).status = "failed_retryable"
    BY <2>3, ClearedRow
  <2> QED BY <2>1, <2>4, <2>5 DEF QueueItem
<1> QED BY <1>1, <1>2

-----------------------------------------------------------------------------
(* The invariant is inductive *)

\* The invariant holds before any lease.
LEMMA QueueStart == QueueAssumption /\ QueueInit => QueueInv
<1> SUFFICES ASSUME QueueAssumption, QueueInit PROVE QueueInv OBVIOUS
<1>0. Len(RetryDelays) \in Nat BY DEF QueueAssumption
<1>1. AbsentItem \in QueueItem BY <1>0 DEF AbsentItem, QueueItem, QueueStatus, NoLease, Lease
<1>2. Nothing \in Held BY DEF Nothing, Held
<1>3. QueueTypeOK BY <1>1, <1>2 DEF QueueInit, QueueTypeOK, AbsentItem, Analysis
<1>4. IsFiniteSet(proofs) BY FS_EmptySet DEF QueueInit
<1> QED
  BY <1>3, <1>4 DEF QueueInv, QueueInit, HoldsKnown, LeasesCounted, LeaseIsLast, OpenUnwritten,
     OnlyLastLeaseWrites, AbsentItem, Open

\* A step that replaces one row, writes no analysis and grants no lease keeps
\* the invariant when the new row ends a lease or stays what the old one was.
LEMMA RowReplaced ==
    ASSUME QueueInv, NEW i \in Items, NEW row \in QueueItem,
           item' = [item EXCEPT ![i] = row],
           UNCHANGED <<analyses, proofs, granted>>,
           worker' \in [Workers -> Held],
           HoldsKnown',
           row.status # "absent",
           row.status = "leased" => item[i].status = "leased" /\ row.lease = item[i].lease,
           row.status \in Open => item[i].status \in Open \cup {"leased"},
           granted[i] <= row.attempts + 1,
           row.status \in Open => granted[i] <= row.attempts
    PROVE  QueueInv'
<1>1. item' \in [Items -> QueueItem] /\ item'[i] = row
      /\ \A k \in Items : k # i => item'[k] = item[k]
  BY DEF QueueInv, QueueTypeOK
<1>2. QueueTypeOK'
  BY <1>1 DEF QueueInv, QueueTypeOK
<1>3. LeasesCounted' BY <1>1 DEF QueueInv, LeasesCounted, Open
<1>4. LeaseIsLast' BY <1>1 DEF QueueInv, LeaseIsLast
<1>5. OpenUnwritten' BY <1>1 DEF QueueInv, OpenUnwritten, Open
<1>6. OnlyLastLeaseWrites' /\ IsFiniteSet(proofs)'
  BY DEF QueueInv, OnlyLastLeaseWrites
<1> QED BY <1>2, <1>3, <1>4, <1>5, <1>6 DEF QueueInv

\* Every step keeps the invariant.
LEMMA QueueStep ==
    ASSUME QueueAssumption, QueueInv, QueueNext PROVE QueueInv'
<1>0. Len(RetryDelays) \in Nat /\ LeaseDuration \in Nat BY DEF QueueAssumption
<1> USE DEF queueVars
<1>a. /\ item \in [Items -> QueueItem]
      /\ worker \in [Workers -> Held] /\ granted \in [Items -> Nat]
  BY DEF QueueInv, QueueTypeOK
<1>b. ASSUME NEW w \in Workers, worker[w] # Nothing
      PROVE  worker[w].item \in Items
  BY <1>b DEF QueueInv, HoldsKnown
<1>c. ASSUME NEW w \in Workers, worker' = [worker EXCEPT ![w] = Nothing]
      PROVE  worker' \in [Workers -> Held] /\ HoldsKnown'
  BY <1>a, <1>c DEF QueueInv, HoldsKnown, Held, Nothing
<1>d. ASSUME UNCHANGED worker PROVE worker' \in [Workers -> Held] /\ HoldsKnown'
  BY <1>a, <1>d DEF QueueInv, HoldsKnown
<1>1. ASSUME NEW i \in Items, Enqueue(i) PROVE QueueInv'
  <2> DEFINE row == [AbsentItem EXCEPT !.status = "pending"]
  <2>1. row \in QueueItem /\ row.status = "pending" /\ row.attempts = 0
    BY <1>0 DEF AbsentItem, QueueItem, QueueStatus, NoLease, Lease
  <2>2. granted[i] = 0 BY <1>1, <1>a DEF Enqueue, QueueInv, LeasesCounted, Open
  <2>3. item' = [item EXCEPT ![i] = row] /\ item[i].status = "absent"
        /\ UNCHANGED <<analyses, worker, proofs, granted>>
    BY <1>1 DEF Enqueue
  <2> HIDE DEF row
  <2>4. /\ row.status # "absent" /\ row.status # "leased"
        /\ row.status \in Open => item[i].status \in Open \cup {"leased"}
        /\ granted[i] <= row.attempts + 1
        /\ row.status \in Open => granted[i] <= row.attempts
    BY <2>1, <2>2, <2>3 DEF Open
  <2> QED BY <2>1, <2>3, <2>4, <1>d, RowReplaced
<1>2. ASSUME NEW i \in Items, Deny(i) PROVE QueueInv'
  <2> DEFINE row == [item[i] EXCEPT !.status = "blocked_capability"]
  <2>1. row \in QueueItem /\ row.status = "blocked_capability"
        /\ row.attempts = item[i].attempts
    <3>1. item[i] \in QueueItem /\ "blocked_capability" \in QueueStatus
      BY <1>a DEF QueueStatus
    <3> QED BY <3>1 DEF QueueItem
  <2>2. item' = [item EXCEPT ![i] = row] /\ UNCHANGED <<analyses, worker, proofs, granted>>
    BY <1>2, <1>a DEF Deny
  <2>3. granted[i] <= item[i].attempts + 1 BY DEF QueueInv, LeasesCounted
  <2> HIDE DEF row
  <2>4. /\ row.status # "absent" /\ row.status # "leased"
        /\ row.status \in Open => item[i].status \in Open \cup {"leased"}
        /\ granted[i] <= row.attempts + 1
        /\ row.status \in Open => granted[i] <= row.attempts
    BY <2>1, <2>3 DEF Open
  <2> QED BY <2>1, <2>2, <2>4, <1>d, RowReplaced
<1>3. ASSUME NEW w \in Workers, Heartbeat(w) PROVE QueueInv'
  <2> DEFINE i == worker[w].item
             row == [item[i] EXCEPT !.ttl = LeaseDuration]
  <2>0. i \in Items /\ item[i].status = "leased"
    BY <1>3, <1>b DEF Heartbeat, ActiveLease
  <2>h. item[i] \in QueueItem BY <1>a, <2>0
  <2>1. row \in QueueItem /\ row.status = "leased" /\ row.lease = item[i].lease
        /\ row.attempts = item[i].attempts
    BY <2>h, <1>0, <2>0 DEF QueueItem
  <2>2. item' = [item EXCEPT ![i] = row] /\ UNCHANGED <<analyses, worker, proofs, granted>>
    BY <1>3, <1>a, <2>0 DEF Heartbeat
  <2>3. granted[i] <= item[i].attempts + 1 BY <2>0 DEF QueueInv, LeasesCounted
  <2> HIDE DEF row, i
  <2> QED BY <2>0, <2>1, <2>2, <2>3, <1>d, RowReplaced DEF Open
<1>4. ASSUME NEW w \in Workers, AckSuccess(w) PROVE QueueInv'
  <2> DEFINE i == worker[w].item
             row == Cleared(i, "succeeded", 0)
  <2>0. /\ i \in Items /\ item[i].status = "leased"
        /\ item[i].lease.token = worker[w].token
    BY <1>4, <1>b DEF AckSuccess, ActiveLease
  <2>1. row \in QueueItem /\ row.status = "succeeded" /\ row.attempts = item[i].attempts
    BY <1>a, <2>0, ClearedRow
  <2>2. /\ item' = [item EXCEPT ![i] = row]
        /\ analyses' = [analyses EXCEPT ![i] = Append(analyses[i], worker[w].token)]
        /\ worker' = [worker EXCEPT ![w] = Nothing]
        /\ UNCHANGED <<proofs, granted>>
    BY <1>4 DEF AckSuccess, AnalysisOf
  <2>3. analyses[i] = <<>> /\ worker[w].token = granted[i]
    BY <2>0 DEF QueueInv, OpenUnwritten, LeaseIsLast, Open
  <2>4. granted[i] <= item[i].attempts + 1 BY <2>0 DEF QueueInv, LeasesCounted
  <2>5. Append(analyses[i], worker[w].token) = <<granted[i]>>
    BY <2>3
  <2>6. analyses' = [analyses EXCEPT ![i] = <<granted[i]>>] BY <2>2, <2>5
  <2> HIDE DEF row, i
  <2>7. item' \in [Items -> QueueItem] /\ item'[i] = row
        /\ \A k \in Items : k # i => item'[k] = item[k]
    BY <2>0, <2>1, <2>2, <1>a
  <2>8. /\ analyses' \in [Items -> Seq(Nat)] /\ analyses'[i] = <<granted[i]>>
        /\ \A k \in Items : k # i => analyses'[k] = analyses[k]
    <3>1. <<granted[i]>> \in Seq(Nat) BY <1>a, <2>0
    <3> QED BY <2>0, <2>6, <3>1 DEF QueueInv, QueueTypeOK, Analysis
  <2>9. QueueTypeOK'
    BY <2>1, <2>2, <2>7, <2>8, <1>c DEF QueueInv, QueueTypeOK, Analysis
  <2>10. LeasesCounted' BY <2>1, <2>2, <2>4, <2>7 DEF QueueInv, LeasesCounted, Open
  <2>11. LeaseIsLast' BY <2>1, <2>2, <2>7 DEF QueueInv, LeaseIsLast
  <2>12. OpenUnwritten' BY <2>1, <2>7, <2>8 DEF QueueInv, OpenUnwritten, Open
  <2>13. OnlyLastLeaseWrites' BY <2>2, <2>8 DEF QueueInv, OnlyLastLeaseWrites
  <2> QED
    BY <1>c, <2>2, <2>9, <2>10, <2>11, <2>12, <2>13 DEF QueueInv
<1>5. ASSUME NEW w \in Workers, AckFailure(w) PROVE QueueInv'
  <2> DEFINE i == worker[w].item
             row == ScheduleRetry(i, 0)
  <2>0. i \in Items /\ item[i].status = "leased"
    BY <1>5, <1>b DEF AckFailure, ActiveLease
  <2>1. /\ row \in QueueItem
        /\ \/ row.status = "failed_retryable" /\ row.attempts = item[i].attempts + 1
           \/ row.status = "failed_terminal" /\ row.attempts = item[i].attempts
    BY <1>a, <2>0, RetryRow
  <2>2. /\ item' = [item EXCEPT ![i] = row]
        /\ worker' = [worker EXCEPT ![w] = Nothing]
        /\ UNCHANGED <<analyses, proofs, granted>>
    BY <1>5 DEF AckFailure
  <2>3. granted[i] <= item[i].attempts + 1 /\ granted[i] \in Nat
        /\ item[i].attempts \in Nat
    BY <2>0, <1>a DEF QueueInv, LeasesCounted, QueueItem
  <2> HIDE DEF row, i
  <2>4. /\ row.status # "absent" /\ row.status # "leased"
        /\ row.status \in Open => item[i].status \in Open \cup {"leased"}
        /\ granted[i] <= row.attempts + 1
        /\ row.status \in Open => granted[i] <= row.attempts
    BY <2>0, <2>1, <2>3 DEF Open
  <2> QED BY <2>0, <2>1, <2>2, <2>4, <1>c, RowReplaced
<1>6. ASSUME NEW w \in Workers, Abandon(w) PROVE QueueInv'
  <2>1. worker' = [worker EXCEPT ![w] = Nothing]
        /\ UNCHANGED <<item, analyses, proofs, granted>>
    BY <1>6 DEF Abandon
  <2> QED
    BY <1>c, <2>1 DEF QueueInv, QueueTypeOK, LeasesCounted, LeaseIsLast, OpenUnwritten,
       OnlyLastLeaseWrites
<1>7. ASSUME NEW i \in Items, Recover(i) PROVE QueueInv'
  <2> DEFINE row == ScheduleRetry(i, -item[i].ttl)
  <2>0. item[i].status = "leased" BY <1>7 DEF Recover, Recoverable
  <2>1. /\ row \in QueueItem
        /\ \/ row.status = "failed_retryable" /\ row.attempts = item[i].attempts + 1
           \/ row.status = "failed_terminal" /\ row.attempts = item[i].attempts
    <3>1. -item[i].ttl \in Int BY <1>a DEF QueueItem
    <3> QED BY <1>a, <3>1, RetryRow
  <2>2. /\ item' = [item EXCEPT ![i] = row]
        /\ UNCHANGED <<analyses, worker, proofs, granted>>
    BY <1>7 DEF Recover
  <2>3. granted[i] <= item[i].attempts + 1 /\ granted[i] \in Nat
        /\ item[i].attempts \in Nat
    BY <1>a DEF QueueInv, LeasesCounted, QueueItem
  <2> HIDE DEF row
  <2>4. /\ row.status # "absent" /\ row.status # "leased"
        /\ row.status \in Open => item[i].status \in Open \cup {"leased"}
        /\ granted[i] <= row.attempts + 1
        /\ row.status \in Open => granted[i] <= row.attempts
    BY <2>0, <2>1, <2>3 DEF Open
  <2> QED BY <2>1, <2>2, <2>4, <1>d, RowReplaced
<1>8. ASSUME NEW w \in Workers, NEW i \in Items, Grant(w, i) PROVE QueueInv'
  <2> DEFINE token == granted[i] + 1
             lease == [token |-> token, owner |-> w]
             row == Written(item[i], "leased", item[i].wait, lease, LeaseDuration)
             held == [item |-> i, token |-> token]
  <2>0. item[i].status \in {"pending", "failed_retryable"} /\ token \in Nat
        /\ held \in Held
    BY <1>8, <1>a DEF Grant, Leaseable, Held
  <2>l. lease \in Lease /\ lease.token = token BY <2>0 DEF Lease
  <2>h. item[i] \in QueueItem BY <1>a
  <2> HIDE DEF lease
  <2>1. row \in QueueItem /\ row.status = "leased" /\ row.lease.token = token
        /\ row.attempts = item[i].attempts
    <3>1. item[i].wait \in Nat BY <2>h DEF QueueItem
    <3>2. LeaseDuration \in Int BY <1>0
    <3>3. "leased" \in QueueStatus BY DEF QueueStatus
    <3> QED BY <2>h, <2>l, <3>1, <3>2, <3>3, RowColumns
  <2>2. /\ item' = [item EXCEPT ![i] = row]
        /\ granted' = [granted EXCEPT ![i] = token]
        /\ worker' = [worker EXCEPT ![w] = held]
        /\ UNCHANGED <<analyses, proofs>>
    <3>2. row = [item[i] EXCEPT !.status = "leased", !.ttl = LeaseDuration, !.lease = lease]
      BY <2>h DEF QueueItem, Written
    <3> HIDE DEF row
    <3> QED BY <1>8, <3>2 DEF Grant, lease
  <2>3. analyses[i] = <<>> /\ granted[i] <= item[i].attempts
    BY <2>0 DEF QueueInv, OpenUnwritten, LeasesCounted, Open
  <2>4. token > 0 /\ token <= item[i].attempts + 1
    BY <2>3, <1>a DEF QueueItem
  <2>5. held.item = i OBVIOUS
  <2> HIDE DEF row, token, held
  <2>6. /\ item' \in [Items -> QueueItem] /\ item'[i] = row
        /\ \A k \in Items : k # i => item'[k] = item[k]
    BY <2>1, <2>2, <1>a
  <2>7. /\ granted' \in [Items -> Nat] /\ granted'[i] = token
        /\ \A k \in Items : k # i => granted'[k] = granted[k]
    BY <2>0, <2>2, <1>a
  <2>8. worker' \in [Workers -> Held] /\ HoldsKnown'
    BY <2>0, <2>2, <2>5, <1>a DEF QueueInv, HoldsKnown
  <2>9. row.lease # NoLease BY <2>1, <2>4 DEF NoLease
  <2>10. QueueTypeOK' BY <2>2, <2>6, <2>7, <2>8, <2>9 DEF QueueInv, QueueTypeOK
  <2>11. LeasesCounted' BY <2>1, <2>4, <2>6, <2>7 DEF QueueInv, LeasesCounted, Open
  <2>12. LeaseIsLast' BY <2>1, <2>4, <2>6, <2>7 DEF QueueInv, LeaseIsLast
  <2>13. OpenUnwritten' BY <2>2, <2>3, <2>6 DEF QueueInv, OpenUnwritten, Open
  <2>14. OnlyLastLeaseWrites'
    BY <2>2, <2>3, <2>7 DEF QueueInv, OnlyLastLeaseWrites
  <2> QED BY <2>2, <2>8, <2>10, <2>11, <2>12, <2>13, <2>14 DEF QueueInv
<1>9. ASSUME NEW q \in Requirements, NEW kind \in ProofKinds, AddProof(q, kind)
      PROVE  QueueInv'
  <2> DEFINE proof == [requirement |-> q, kind |-> kind, serial |-> Cardinality(proofs)]
  <2>1. IsFiniteSet(proofs) BY DEF QueueInv
  <2>2. Cardinality(proofs) \in Nat BY <2>1, FS_CardinalityType
  <2>3. proof \in Proof BY <2>2 DEF Proof
  <2>4. proofs' = proofs \cup {proof} /\ UNCHANGED <<item, analyses, worker, granted>>
    BY <1>9 DEF AddProof
  <2>5. IsFiniteSet(proofs') BY <2>1, <2>4, FS_AddElement
  <2> HIDE DEF proof
  <2>6. QueueTypeOK' BY <2>3, <2>4 DEF QueueInv, QueueTypeOK
  <2> QED
    BY <2>4, <2>5, <2>6 DEF QueueInv, HoldsKnown, LeasesCounted, LeaseIsLast,
       OpenUnwritten, OnlyLastLeaseWrites
<1>10. ASSUME QueueTick PROVE QueueInv'
  <2> DEFINE W(i) == IF item[i].wait > 0 THEN item[i].wait - 1 ELSE item[i].wait
             T(i) == IF item[i].status = "leased" /\ item[i].ttl > -MaxDelay
                     THEN item[i].ttl - 1 ELSE item[i].ttl
  <2>1. /\ item' = [i \in Items |-> [item[i] EXCEPT !.wait = W(i), !.ttl = T(i)]]
        /\ UNCHANGED <<analyses, worker, proofs, granted>>
    BY <1>10, <1>a DEF QueueTick, QueueItem
  <2>2. ASSUME NEW i \in Items
        PROVE  /\ item'[i] \in QueueItem /\ item'[i].status = item[i].status
               /\ item'[i].attempts = item[i].attempts /\ item'[i].lease = item[i].lease
    <3>1. item[i] \in QueueItem BY <1>a
    <3>2. W(i) \in Nat /\ T(i) \in Int BY <3>1 DEF QueueItem
    <3> HIDE DEF W, T
    <3> QED BY <2>1, <3>1, <3>2 DEF QueueItem
  <2>3. item' \in [Items -> QueueItem] BY <2>1, <2>2
  <2>4. QueueTypeOK' BY <2>1, <2>2, <2>3 DEF QueueInv, QueueTypeOK
  <2> QED
    BY <2>1, <2>2, <2>4 DEF QueueInv, HoldsKnown, LeasesCounted, LeaseIsLast,
       OpenUnwritten, OnlyLastLeaseWrites
<1> QED
  BY <1>1, <1>2, <1>3, <1>4, <1>5, <1>6, <1>7, <1>8, <1>9, <1>10 DEF QueueNext, RecoverSome

-----------------------------------------------------------------------------
(* The theorems *)

\* Rows, leases, workers and analyses agree in every state.
THEOREM QueueInvariant == ASSUME QueueAssumption PROVE QueueSpec => []QueueInv
<1>1. QueueInit => QueueInv BY QueueStart
<1>2. QueueInv /\ [QueueNext]_queueVars => QueueInv'
  <2> SUFFICES ASSUME QueueInv, [QueueNext]_queueVars PROVE QueueInv' OBVIOUS
  <2>1. CASE QueueNext BY <2>1, QueueStep
  <2>2. CASE UNCHANGED queueVars
    BY <2>2 DEF queueVars, QueueInv, QueueTypeOK, HoldsKnown, LeasesCounted, LeaseIsLast,
       OpenUnwritten, OnlyLastLeaseWrites
  <2> QED BY <2>1, <2>2
<1> QED BY <1>1, <1>2, PTL DEF QueueSpec

\* However workers die, stall and answer late, and whatever proofs come and
\* go: request_lease grants an item at most once more than RETRY_DELAYS is
\* long, and ack_success writes at most one analysis, for the last lease.
THEOREM QueueIsSound == ASSUME QueueAssumption PROVE QueueSpec => []QueueSound
<1>1. QueueInv => QueueSound
  <2> SUFFICES ASSUME QueueInv PROVE QueueSound OBVIOUS
  <2>1. ASSUME NEW i \in Items PROVE granted[i] <= Len(RetryDelays) + 1
    <3>1. item[i].attempts \in 0 .. Len(RetryDelays) /\ granted[i] \in Nat
      BY DEF QueueInv, QueueTypeOK, QueueItem
    <3>2. granted[i] <= item[i].attempts + 1 BY DEF QueueInv, LeasesCounted
    <3>3. Len(RetryDelays) \in Nat BY DEF QueueAssumption
    <3> QED BY <3>1, <3>2, <3>3
  <2> QED BY <2>1 DEF QueueInv, QueueSound, LeasesBounded
<1> QED BY <1>1, QueueInvariant, PTL
=============================================================================
