--------------------------- MODULE ServiceTokens ---------------------------
(***************************************************************************)
(* Service tokens: the web server's cached token provider, the exchanges   *)
(* of the API (web server and GitHub workflow through a registered         *)
(* principal, Windows worker through a signed one-use request) and the     *)
(* check every API call makes of the token it carries.                     *)
(*                                                                         *)
(* An exchange reads the API clock once and then runs several database     *)
(* transactions, so exchanges of one principal register out of the order   *)
(* of their clocks.  Signatures, digests and claim parsing are a verdict.  *)
(***************************************************************************)
EXTENDS Integers, FiniteSets

CONSTANTS
    Keys,          \* scope sets the web server asks for
    Callers,       \* requests of the web server that need a token
    Jobs,          \* jobs of one GitHub workflow run that exchange their token
    Requests,      \* signed bootstrap requests of a worker
    TokenTtl,      \* BFF_TOKEN_TTL_SECONDS, GITHUB_TOKEN_TTL_SECONDS in ticks
    CacheMax,      \* MAX_CACHE_MILLISECONDS
    Safety,        \* EXPIRY_SAFETY_MILLISECONDS
    Skew,          \* TOKEN_SKEW_SECONDS
    RequestMaxAge, \* WORKER_REQUEST_MAX_AGE_SECONDS
    Retention,     \* how long a worker nonce is kept
    ExchangeLimit, \* BFF_EXCHANGE_RULE: exchanges of a deployment in a window
    Window,        \* its window
    MaxClock       \* bound on the clock

\* What the model takes for granted about its parameters.
TokenAssumption ==
    /\ {TokenTtl, CacheMax, Window} \subseteq Nat \ {0}
    /\ {Safety, Skew, RequestMaxAge, Retention, ExchangeLimit, MaxClock} \subseteq Nat
    /\ RequestMaxAge + Skew < Retention
    /\ Keys \cap Jobs = {}

VARIABLES
    clock,    \* the clock of the API and the web server
    cred,     \* service_principals with its credential version, by subject
    call,     \* exchanges under way at the API, one per key or job
    cache,    \* the provider's cache: a token's expiry and cacheUntil
    caller,   \* what each caller waits for, or the token it was handed
    rate,     \* exchanges counted in the window under way, up to the limit
    nonces,   \* expires_at of consumed worker nonces
    accepted, \* how often each worker request was exchanged (history)
    lapsed    \* principals that were revoked (history)

tokenVars == <<clock, cred, call, cache, caller, rate, nonces, accepted, lapsed>>

Slots      == Keys \union Jobs
Subject(x) == IF x \in Keys THEN "deployment" ELSE "run"
Subjects   == {Subject(x) : x \in Slots}

\* A service principal with its credential version and the version's window.
Credential ==
    {c \in [state : {"active", "revoked"}, from : 0 .. MaxClock, until : 1 .. MaxClock + TokenTtl] :
        c.from < c.until}

\* An exchange under way at the API, with the clock it read there ("at") and
\* the one its caller read before ("asked").
Call ==
    [phase : {"none", "sent", "admitted", "denied", "inserting", "issued", "revoked"},
     at : 0 .. MaxClock, asked : 0 .. MaxClock]

Absent     == [state |-> "absent", from |-> 0, until |-> 0]
NoCall     == [phase |-> "none", at |-> 0, asked |-> 0]
NoEntry    == [exp |-> 0, until |-> 0]
NoCaller   == [phase |-> "idle", key |-> "none"]
SignedAt   == 1  \* the timestamp every worker request carries

-----------------------------------------------------------------------------
(* What an API call accepts *)

\* Ed25519TokenIssuer.issue: the expiry claim, from the clock the exchange read
TokenExpiry(at) == at + TokenTtl

\* Ed25519TokenVerifier.verify: the expiry, with tolerance for skewed clocks
NotExpired(exp) == exp >= clock - Skew

\* ... and the principal and its credential as they are now, without any
Accepts(p, exp) ==
    /\ NotExpired(exp)
    /\ cred[p].state = "active" /\ cred[p].from <= clock /\ cred[p].until > clock

-----------------------------------------------------------------------------
(* The provider of the web server *)

Fail(k) == [g \in Callers |->
    IF caller[g].key = k /\ caller[g].phase = "waiting"
    THEN [caller[g] EXCEPT !.phase = "failed"] ELSE caller[g]]

\* get: the cache, then the exchange under way, then an exchange of its own
Get(g, k) ==
    /\ caller[g].phase = "idle"
    /\ IF cache[k].until > clock
       THEN /\ caller' = [caller EXCEPT ![g] = [phase |-> "handed", key |-> k]]
            /\ UNCHANGED call
       ELSE /\ caller' = [caller EXCEPT ![g] = [phase |-> "waiting", key |-> k]]
            /\ call' = IF call[k].phase # "none" THEN call
                       ELSE [call EXCEPT ![k] = [NoCall EXCEPT !.phase = "sent", !.asked = clock]]
    /\ UNCHANGED <<clock, cred, cache, rate, nonces, accepted, lapsed>>

Earlier(a, b) == IF a < b THEN a ELSE b

\* cacheUntil: counted from before the exchange, and short of the expiry
CacheUntil(asked, exp) == Earlier(asked + CacheMax, exp - Safety)

\* The answer arrives: cached and handed to everyone who waited, unless the
\* exchange took so long that nothing of the cache time is left.
Receive(k) ==
    /\ call[k].phase = "issued"
    /\ LET exp   == TokenExpiry(call[k].at)
           until == CacheUntil(call[k].asked, exp) IN
       IF until <= call[k].asked THEN caller' = Fail(k) /\ UNCHANGED cache
       ELSE /\ cache' = [cache EXCEPT ![k] = [exp |-> exp, until |-> until]]
            /\ caller' = [g \in Callers |->
                   IF caller[g].key = k /\ caller[g].phase = "waiting"
                   THEN [caller[g] EXCEPT !.phase = "handed"] ELSE caller[g]]
    /\ call' = [call EXCEPT ![k] = NoCall]
    /\ UNCHANGED <<clock, cred, rate, nonces, accepted, lapsed>>

\* Mutant: the exchange stays registered after it failed.
ExchangeFailsLeaked(k) ==
    /\ call[k].phase \notin {"none", "leaked"}
    /\ call' = [call EXCEPT ![k].phase = "leaked"]
    /\ caller' = Fail(k)
    /\ UNCHANGED <<clock, cred, cache, rate, nonces, accepted, lapsed>>

\* A refusal, a lost answer or the timeout: whoever waited fails, and the
\* finally clause removes the exchange so that the next caller starts one.
ExchangeFails(k) ==
    /\ call[k].phase # "none"
    /\ call' = [call EXCEPT ![k] = NoCall]
    /\ caller' = Fail(k)
    /\ UNCHANGED <<clock, cred, cache, rate, nonces, accepted, lapsed>>

\* The caller has used its token, or has shown its error, and is free again.
Finish(g) ==
    /\ caller[g].phase \in {"handed", "failed"}
    /\ caller' = [caller EXCEPT ![g] = NoCaller]
    /\ UNCHANGED <<clock, cred, call, cache, rate, nonces, accepted, lapsed>>

-----------------------------------------------------------------------------
(* exchange_bff and exchange_github *)

StartJob(j) ==
    /\ call[j].phase = "none"
    /\ call' = [call EXCEPT ![j] = [NoCall EXCEPT !.phase = "sent"]]
    /\ UNCHANGED <<clock, cred, cache, caller, rate, nonces, accepted, lapsed>>

\* consume: the counter of the window, which stops mattering at the limit
Consumed == IF rate < ExchangeLimit THEN rate + 1 ELSE rate

\* The clock is read, then the rate limit, the scopes, the credential and a
\* fresh nonce are checked, each in a transaction of its own.
AdmitServer(k) ==
    /\ call[k].phase = "sent"
    /\ rate' = Consumed
    /\ call' = [call EXCEPT ![k].at = clock,
                   ![k].phase = IF rate < ExchangeLimit THEN "admitted" ELSE "denied"]
    /\ UNCHANGED <<clock, cred, cache, caller, nonces, accepted, lapsed>>

\* The clock is read, then the claims of the job are matched with the rules
\* for workflows and its nonce is consumed.
AdmitJob(j) ==
    /\ call[j].phase = "sent"
    /\ \E phase \in {"admitted", "denied"} :
           call' = [call EXCEPT ![j].at = clock, ![j].phase = phase]
    /\ UNCHANGED <<clock, cred, cache, caller, rate, nonces, accepted, lapsed>>

\* register finds no principal row to lock and goes on to insert one
FindNone(x) ==
    /\ call[x].phase = "admitted" /\ cred[Subject(x)].state = "absent"
    /\ call' = [call EXCEPT ![x].phase = "inserting"]
    /\ UNCHANGED <<clock, cred, cache, caller, rate, nonces, accepted, lapsed>>

\* The insert meets the unique key when another exchange was first.
Insert(x) ==
    /\ call[x].phase = "inserting"
    /\ LET p == Subject(x) IN
       IF cred[p].state = "absent"
       THEN /\ cred' = [cred EXCEPT ![p] = [state |-> "active", from |-> call[x].at,
                                            until |-> TokenExpiry(call[x].at)]]
            /\ call' = [call EXCEPT ![x].phase = "issued"]
       ELSE call' = [call EXCEPT ![x].phase = "denied"] /\ UNCHANGED cred
    /\ UNCHANGED <<clock, cache, caller, rate, nonces, accepted, lapsed>>

\* Mutant: the newest registration decides.
ExtendedToLast(p, until) == [cred EXCEPT ![p].until = until]

\* valid_until only grows
Extended(p, until) == [cred EXCEPT ![p].until = IF until > @ THEN until ELSE @]

\* Registration goes on only for a principal and a version still active.
Registrable(p) == cred[p].state = "active"

\* register finds the rows: a revoked one is refused; the credential is
\* extended, and refused all the same when it is younger than this exchange.
Register(x) ==
    /\ call[x].phase = "admitted" /\ cred[Subject(x)].state # "absent"
    /\ LET p == Subject(x) IN
       IF ~Registrable(p)
       THEN call' = [call EXCEPT ![x].phase = "revoked"] /\ UNCHANGED cred
       ELSE /\ cred' = [Extended(p, TokenExpiry(call[x].at)) EXCEPT ![p].state = "active"]
            /\ call' = [call EXCEPT ![x].phase =
                           IF cred[p].from <= call[x].at THEN "issued" ELSE "revoked"]
    /\ UNCHANGED <<clock, cache, caller, rate, nonces, accepted, lapsed>>

\* A job's exchange ends; its token is used by the collector and verifier.
EndJob(j) ==
    /\ call[j].phase \in {"issued", "denied", "revoked"}
    /\ call' = [call EXCEPT ![j] = NoCall]
    /\ UNCHANGED <<clock, cred, cache, caller, rate, nonces, accepted, lapsed>>

\* The operator revokes a principal or its credential version.
RevokePrincipal(p) ==
    /\ cred[p].state = "active"
    /\ cred' = [cred EXCEPT ![p].state = "revoked"]
    /\ lapsed' = lapsed \union {p}
    /\ UNCHANGED <<clock, call, cache, caller, rate, nonces, accepted>>

-----------------------------------------------------------------------------
(* exchange_worker *)

\* Mutant: the nonce is kept for as long as a request may be old.
RetainForAge(q) == clock + RequestMaxAge

RetainUntil(q) == clock + Retention

\* A row of one_use_nonces blocks its nonce until it expires.
NonceFree(q) == nonces[q] <= clock

\* A request arrives, maybe not for the first time: age, approval, nonce.
WorkerAuthorized(q) ==
    /\ clock - SignedAt <= RequestMaxAge /\ clock - SignedAt >= -Skew
    /\ NonceFree(q)
    /\ nonces' = [nonces EXCEPT ![q] = RetainUntil(q)]

\* The worker's token is issued; its principal is not registered.
ExchangeWorker(q) ==
    /\ WorkerAuthorized(q)
    /\ accepted' = [accepted EXCEPT ![q] = @ + 1]
    /\ UNCHANGED <<clock, cred, call, cache, caller, rate, lapsed>>

TokenTick ==
    /\ clock < MaxClock
    /\ clock' = clock + 1
    /\ rate' = IF clock' % Window = 0 THEN 0 ELSE rate
    /\ UNCHANGED <<cred, call, cache, caller, nonces, accepted, lapsed>>

-----------------------------------------------------------------------------

TokenInit ==
    /\ clock = 0 /\ rate = 0 /\ lapsed = {}
    /\ cred = [p \in Subjects |-> Absent]
    /\ call = [x \in Slots |-> NoCall]
    /\ cache = [k \in Keys |-> NoEntry]
    /\ caller = [g \in Callers |-> NoCaller]
    /\ nonces = [q \in Requests |-> 0]
    /\ accepted = [q \in Requests |-> 0]

\* exchange_bff and exchange_github after the provider's own authorization
RegisterSteps(x) == FindNone(x) \/ Insert(x) \/ Register(x)

TokenNext ==
    \/ TokenTick
    \/ \E g \in Callers : Finish(g) \/ \E k \in Keys : Get(g, k)
    \/ \E k \in Keys : AdmitServer(k) \/ Receive(k) \/ ExchangeFails(k)
    \/ \E j \in Jobs : StartJob(j) \/ AdmitJob(j) \/ EndJob(j)
    \/ \E x \in Slots : RegisterSteps(x)
    \/ \E p \in Subjects : RevokePrincipal(p)
    \/ \E q \in Requests : ExchangeWorker(q)

TokenSpec == TokenInit /\ [][TokenNext]_tokenVars

\* Every call of the provider has a timeout, so an exchange that was started
\* is answered or fails.
TokenFairSpec == TokenSpec /\ \A k \in Keys : WF_tokenVars(Receive(k) \/ ExchangeFails(k))

-----------------------------------------------------------------------------
(* Properties *)

TokenTypeOK ==
    /\ clock \in 0 .. MaxClock
    /\ cred \in [Subjects -> Credential \cup {Absent}]
    /\ call \in [Slots -> Call]
    /\ \A g \in Callers : caller[g].phase = "waiting" => call[caller[g].key].phase # "none"

\* A token taken from the cache, and a token an exchange has just brought
\* while the cache would still hold it, is accepted for the safety margin.
CachedTokenUsable ==
    \A k \in Keys :
        cache[k].until > clock /\ cred["deployment"].state = "active" =>
            Accepts("deployment", cache[k].exp) /\ cache[k].exp - clock > Safety

\* Exchanges of one principal that register in any order never shorten the
\* credential under a token: a cached token whose principal is not revoked is
\* accepted until it expires.
IssuedTokenCovered ==
    \A k \in Keys : cache[k].exp > clock /\ cred["deployment"].state = "active" =>
        cred["deployment"].until >= cache[k].exp

\* A revoked principal stays revoked: exchanges that were under way when it
\* was revoked do not bring it back.
RevokedStaysOut == \A p \in lapsed, exp \in clock .. clock + TokenTtl : ~Accepts(p, exp)

\* A worker request that is delivered again, at any time, is not exchanged
\* again: its nonce outlives the time in which the request is accepted.
RequestExchangedOnce == \A q \in Requests : accepted[q] <= 1

\* A caller that waits for a token is answered, also when the exchange it
\* waits for fails: no exchange stays registered for ever.
EveryCallerAnswered == \A g \in Callers : caller[g].phase = "waiting" ~> caller[g].phase # "waiting"

\* Whatever exchanges overlap, expire or are revoked, a token that the web
\* server still hands out is one the API still takes.
TokensSound == TokenTypeOK /\ CachedTokenUsable /\ IssuedTokenCovered /\ RevokedStaysOut

\* An exchange that ends "principal is revoked" was refused for a revocation.
RefusedOnlyIfRevoked == \A x \in Slots : call[x].phase = "revoked" => Subject(x) \in lapsed

=============================================================================
