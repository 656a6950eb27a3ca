---------------------------- MODULE SourceIngest ----------------------------
(* From a provider's feed to the post store: the DCInside, Reddit and        *)
(* Manifold adapters (preflight, listing, views, normalization, caps), the    *)
(* page request, the server's classification of a page's items and the       *)
(* versions, queue rows and observations it writes.                          *)
(*                                                                           *)
(* One source.  Posts are numbered in the order of publication, so a listing, *)
(* newest first, is a set of numbers read downwards.  A page is the set of   *)
(* its items: no two have one post, so the server's result for an item does  *)
(* not depend on the items before it.  A text stands for a title and body:   *)
(* "xr" is "x" in another encoding (line ends, Unicode form), "heavy" fits   *)
(* the body limit but not the Manifold page limit, "oversize" fits neither,  *)
(* "bad" breaks the reviewed contract.  Leases, idempotent replay and        *)
(* completion are CollectionControl's: here a process holds the lease when   *)
(* its run is the last one claimed.                                          *)
EXTENDS Naturals, FiniteSets, FiniteSetsExt

CONSTANTS
    Platforms,    \* the adapters to explore
    Posts,        \* post numbers, 1 .. n
    Served,       \* the texts a provider may serve
    PostCap,      \* MAX_ACCEPTED_PER_SOURCE_RUN, also the page size
    ReviewedCap,  \* the post cap the server claimed the run with
    PageCap,      \* reviewed_page_cap
    ByteCap,      \* MAX_MANIFOLD_PERSISTED_BYTES, in units of text weight
    Slots,        \* collector processes alive at one time
    MaxEvents,    \* bound: changes of the feed and of the approval
    MaxRuns       \* bound: runs claimed

ASSUME IngestAssumption ==
    /\ IsFiniteSet(Posts) /\ Posts = 1 .. Cardinality(Posts)
    /\ "x" \in Served /\ Served \cap {"unborn", "removed"} = {}
    /\ PostCap \in Nat \ {0} /\ MaxEvents \in Nat /\ MaxRuns \in Nat

VARIABLES
    platform,  \* whose adapter the source is bound to
    feed,      \* post -> the text served, "unborn" or "removed"
    approval,  \* the source's authorization decision, and the decisions past their expiry
    events,    \* changes so far: the clock by which pages are dated
    store,     \* versions, queue, observations and page items
    ck,        \* the source's checkpoint
    active,    \* the run that holds the lease
    procs,     \* slot -> collector process
    walk       \* post -> texts served while it stayed listed since the walk began

vars == <<platform, feed, approval, events, store, ck, active, procs, walk>>

None == 0      \* no cursor
Listed == {p \in Posts : feed[p] \notin {"unborn", "removed"}}
Newest(S, n) == {p \in S : Cardinality({q \in S : q > p}) < n}

----------------------------------------------------------------------------
(* Normalization. *)

Text(raw) == IF raw = "xr" THEN "x" ELSE raw
Weight(text) == CASE text = "heavy" -> ByteCap + 1 [] text = "y" -> 2 [] OTHER -> 1
Oversize(raw) == raw = "oversize"
Item(p) ==
    [id |-> p, kind |-> IF Oversize(feed[p]) THEN "oversize" ELSE "post",
     text |-> Text(feed[p]), at |-> events]

\* What one document becomes: an item, nothing, or the failure of the whole page.
NormalizeDcinside(p, raw) == IF raw \in {"bad", "removed"} THEN "fail" ELSE "item"
NormalizeReddit(p, raw) == IF raw = "bad" THEN "fail" ELSE "item"
NormalizeManifold(p, raw) == IF raw = "bad" THEN "skip" ELSE "item"

----------------------------------------------------------------------------
(* Adapters.  A fetch may take several requests: todo holds what is to come. *)

NewPage == [items |-> {}, next |-> None, term |-> "none"]
Ready(pg, term) == [pg EXCEPT !.term = term]
Add(pg, S) == [pg EXCEPT !.items = @ \cup {Item(p) : p \in S}]
Accepted(items) == {it \in items : it.kind = "post"}

\* Reddit: the listing below the cursor, and the cursor of the page after it.
Below(cursor) == {p \in Listed : cursor = None \/ p < cursor}
RedditListing(cursor, limit) == Newest(Below(cursor), limit)
\* Mutant: the cursor skips the first post of the next page.
RedditAfterFar(cursor, limit) ==
    IF RedditListing(cursor, limit + 1) = Below(cursor) THEN None
    ELSE Min(RedditListing(cursor, limit + 1))
RedditAfter(cursor, limit) ==
    IF RedditListing(cursor, limit) = Below(cursor) THEN None
    ELSE Min(RedditListing(cursor, limit))
RedditTermination(so, accepted, paused, after) ==
    IF so + accepted >= PostCap THEN "post_cap"
    ELSE IF paused THEN "pause"
    ELSE IF after = None THEN "exhausted"
    ELSE "continue"
RedditPage(so, cursor, paused) ==
    LET pg == Add(NewPage, RedditListing(cursor, PostCap - so))
        after == RedditAfter(cursor, PostCap - so)
    IN  [pg EXCEPT !.next = after,
                   !.term = RedditTermination(so, Cardinality(Accepted(pg.items)), paused, after)]
RedditFails(so, cursor) ==
    \E p \in RedditListing(cursor, PostCap - so) : NormalizeReddit(p, feed[p]) = "fail"

\* DCInside: one list page, then one view per listed post.
DcinsideIds(so) == Newest(Listed, PostCap - so)
DcinsideView(pg, p) == Add(pg, {p})

\* Manifold: the markets by last comment, a market standing as that comment, then
\* each market's newest comments, until a page-wide cap.
Market(p) == p % 2
ManifoldMarkets == {p \in Listed : \A q \in Listed : Market(q) = Market(p) => q <= p}
ManifoldComments(m) == Newest({p \in Listed : Market(p) = m}, PostCap)
\* The accumulator goes down the comments that are new on the page and normalize.
ManifoldFresh(pg, m) ==
    {p \in ManifoldComments(m) : /\ \A it \in pg.items : it.id # p
                                 /\ NormalizeManifold(p, feed[p]) = "item"}
Bytes(items) == MapThenSumSet(LAMBDA it : Weight(it.text), Accepted(items))
FitsBytes(pg) == Bytes(pg.items) <= ByteCap
FitsPosts(pg, limit) == Cardinality(Accepted(pg.items)) < limit
\* A comment is reached when those above it filled no cap, and kept when it fits.
ManifoldAdd(pg, S, limit) ==
    {p \in S : LET above == Add(pg, {q \in S : q > p})
               IN  FitsBytes(above) /\ FitsPosts(above, limit) /\ FitsBytes(Add(above, {p}))}
ManifoldMarketPage(pg, m, limit) ==
    LET fresh == ManifoldFresh(pg, m)
        kept == ManifoldAdd(pg, fresh, limit)
        more == Add(pg, kept)
    IN  Ready(more, IF ~FitsPosts(more, limit) THEN "post_cap"
                    ELSE IF kept # fresh THEN "byte_cap" ELSE "none")

----------------------------------------------------------------------------
(* The server's side of a page. *)

Versions(p) == {v \in store.versions : v.id = p}
Revision(p) == Cardinality(Versions(p))
Current(p) == CHOOSE v \in Versions(p) : v.rev = Revision(p)

\* Mutant: any stored revision of the post makes the item a duplicate.
DispositionAny(item) ==
    IF item.kind = "oversize" THEN "rejected"
    ELSE IF \E v \in Versions(item.id) : v.text = item.text THEN "duplicate"
    ELSE "accepted"
Disposition(item) ==
    IF item.kind = "oversize" THEN "rejected"
    ELSE IF Versions(item.id) # {} /\ Current(item.id).text = item.text THEN "duplicate"
    ELSE "accepted"
ClassifyPageItems(items, d) == {it \in items : Disposition(it) = d}
Shown(items) == items \ ClassifyPageItems(items, "rejected")

\* The server derives the page-cap marker and the client sends the adapter's.
TerminalReason(pr) ==
    IF pr.page.term \in {"exhausted", "post_cap", "byte_cap"} THEN pr.page.term
    ELSE IF pr.pages + 1 = PageCap THEN "page_cap" ELSE "none"
ValidTerminalCap(pr) ==
    TerminalReason(pr) = "post_cap" =>
        pr.so + Cardinality(ClassifyPageItems(pr.page.items, "accepted")) >= ReviewedCap

\* require_active_authorization, and the decision is the one the run was claimed on.
Valid == approval.active /\ approval.id \notin approval.lapsed
ActiveAuthorization(pr) == Valid /\ pr.auth = approval.id

\* Mutant: the lease and the checkpoint revision are not compared.
ValidNewPageCommitAny(pr) == ActiveAuthorization(pr)
ValidNewPageCommit(pr) == ActiveAuthorization(pr) /\ pr.n = active /\ pr.rev = ck.rev

\* uq_post_version_content: a post keeps each text once.
ContentUnique(items) ==
    \A it \in ClassifyPageItems(items, "accepted") : \A v \in Versions(it.id) :
        v.text # it.text

\* The revision an item is recorded under, and the rows written for an accepted one.
RevisionOf(item) == Revision(item.id) + IF Disposition(item) = "accepted" THEN 1 ELSE 0
NewVersion(item) ==
    [id |-> item.id, rev |-> RevisionOf(item), text |-> item.text, at |-> item.at]
PersistPageItems(items, n) ==
    LET kept == ClassifyPageItems(items, "accepted")
    IN  [versions |-> store.versions \cup {NewVersion(it) : it \in kept},
         queue |-> store.queue \cup {[id |-> it.id, rev |-> RevisionOf(it)] : it \in kept},
         seen |-> store.seen
            \cup {[id |-> it.id, rev |-> RevisionOf(it), run |-> n] : it \in Shown(items)},
         items |-> store.items
            \cup {[c |-> ck.rev + 1, id |-> it.id, rev |-> RevisionOf(it), text |-> it.text] :
                    it \in Shown(items)}]
AdvanceCheckpoint(items, next) ==
    [rev |-> ck.rev + 1, cursor |-> next,
     mark |-> Max({ck.mark} \cup {it.id : it \in Shown(items)})]

----------------------------------------------------------------------------
(* The provider and the approval. *)

Tick == events < MaxEvents /\ events' = events + 1

Publish(raw) ==
    /\ Tick
    /\ \E p \in Posts :
        /\ feed[p] = "unborn" /\ \A q \in Posts : q < p => feed[q] # "unborn"
        /\ feed' = [feed EXCEPT ![p] = raw]
    /\ UNCHANGED <<platform, approval, store, ck, active, procs, walk>>
Edit(p, raw) ==
    /\ Tick
    /\ p \in Listed /\ feed[p] # raw
    /\ feed' = [feed EXCEPT ![p] = raw]
    /\ walk' = [walk EXCEPT ![p] = IF @ = {} THEN {} ELSE @ \cup {raw}]
    /\ UNCHANGED <<platform, approval, store, ck, active, procs>>
TakeDown(p) ==
    /\ Tick
    /\ p \in Listed
    /\ feed' = [feed EXCEPT ![p] = "removed"]
    /\ walk' = [walk EXCEPT ![p] = {}]
    /\ UNCHANGED <<platform, approval, store, ck, active, procs>>
Revoke ==
    /\ Tick
    /\ approval.active
    /\ approval' = [approval EXCEPT !.active = FALSE]
    /\ UNCHANGED <<platform, feed, store, ck, active, procs, walk>>
Lapse ==
    /\ Tick
    /\ approval.id \notin approval.lapsed
    /\ approval' = [approval EXCEPT !.lapsed = @ \cup {approval.id}]
    /\ UNCHANGED <<platform, feed, store, ck, active, procs, walk>>
Approve ==
    /\ Tick
    /\ ~Valid
    /\ approval' = [approval EXCEPT !.id = @ + 1, !.active = TRUE]
    /\ UNCHANGED <<platform, feed, store, ck, active, procs, walk>>

----------------------------------------------------------------------------
(* A collector process. *)

Idle == [n |-> 0, pc |-> "idle", auth |-> 0, rev |-> 0, cursor |-> None, so |-> 0, pages |-> 0,
         todo |-> {}, page |-> NewPage]
Over(s) == procs[s].pc \in {"idle", "cap", "content"}
End(s, how) == procs' = [procs EXCEPT ![s] = [Idle EXCEPT !.pc = how]]

\* A claim takes the lease, also from a process that still runs.
Begin(s) ==
    /\ Over(s) /\ \A t \in Slots : t < s => ~Over(t)
    /\ active < MaxRuns
    /\ Valid
    /\ active' = active + 1
    /\ procs' = [procs EXCEPT ![s] = [Idle EXCEPT
                   !.n = active + 1, !.pc = "fetch", !.auth = approval.id,
                   !.rev = ck.rev, !.cursor = ck.cursor]]
    /\ UNCHANGED <<platform, feed, approval, events, store, ck, walk>>

\* Preflight is evaluated once, before the first request of a page, on the decision
\* the claim returned: it sees an expiry, and a revocation not until the commit.
PreflightReddit(pr) == pr.auth \notin approval.lapsed
PreflightDcinside(pr) == pr.auth \notin approval.lapsed
PreflightManifold(pr) == pr.auth \notin approval.lapsed
PreflightFinance(pr) == FALSE      \* Naver and Toss: blocked pending evidence
Preflight(pr) ==
    CASE platform = "reddit" -> PreflightReddit(pr)
      [] platform = "dcinside" -> PreflightDcinside(pr)
      [] platform = "manifold" -> PreflightManifold(pr)
      [] OTHER -> PreflightFinance(pr)
Fetched(s, pg) == [procs[s] EXCEPT !.pc = "ready", !.page = pg, !.todo = {}]
StartsWalk(s) == platform = "reddit" /\ procs[s].cursor = None /\ procs[s].n = active

\* The pages a first request completes: Reddit's, and the empty ones.
WholePage(pr) ==
    CASE platform = "reddit" -> {RedditPage(pr.so, pr.cursor, b) : b \in BOOLEAN}
      [] platform = "dcinside" /\ DcinsideIds(pr.so) = {} -> {Ready(NewPage, "exhausted")}
      [] platform = "manifold" /\ (pr.pages > 0 \/ ManifoldMarkets = {}) ->
            {Ready(NewPage, "exhausted")}
      [] OTHER -> {}
FirstRequests(pr) ==
    IF platform = "dcinside" THEN DcinsideIds(pr.so) ELSE ManifoldMarkets
FetchPage(s) ==
    LET pr == procs[s]
    IN  /\ pr.pc = "fetch"
        /\ \/ /\ Preflight(pr)
              /\ ~(platform = "reddit" /\ RedditFails(pr.so, pr.cursor))
              /\ \/ \E pg \in WholePage(pr) : procs' = [procs EXCEPT ![s] = Fetched(s, pg)]
                 \/ /\ WholePage(pr) = {}
                    /\ procs' = [procs EXCEPT
                         ![s] = [pr EXCEPT !.pc = "view", !.todo = FirstRequests(pr)]]
              /\ walk' = IF StartsWalk(s)
                         THEN [p \in Posts |-> IF p \in Listed THEN {feed[p]} ELSE {}]
                         ELSE walk
           \/ /\ ~Preflight(pr) \/ (platform = "reddit" /\ RedditFails(pr.so, pr.cursor))
              /\ End(s, "idle")
              /\ UNCHANGED walk
        /\ UNCHANGED <<platform, feed, approval, events, store, ck, active>>

\* One view, or one market's comments; a post that is gone fails the page.
Viewed(pr, x) ==
    IF platform = "dcinside" THEN DcinsideView(pr.page, x)
    ELSE ManifoldMarketPage(pr.page, Market(x), PostCap - pr.so)
View(s) ==
    LET pr == procs[s]
    IN  /\ pr.pc = "view"
        /\ \E x \in pr.todo :
            LET pg == Viewed(pr, x)
            IN  /\ \A y \in pr.todo : y <= x
                /\ IF platform = "dcinside" /\ NormalizeDcinside(x, feed[x]) = "fail"
                   THEN End(s, "idle")
                   ELSE procs' = [procs EXCEPT ![s] =
                            IF pg.term # "none" THEN Fetched(s, pg)
                            ELSE IF pr.todo = {x} THEN Fetched(s, Ready(pg, "exhausted"))
                            ELSE [pr EXCEPT !.todo = @ \ {x}, !.page = pg]]
        /\ UNCHANGED <<platform, feed, approval, events, store, ck, active, walk>>

\* A timeout, an HTTP failure, a crash: what was fetched is lost.  The outcome the
\* collector then reports is CollectorClient's.
Fail(s) ==
    /\ ~Over(s)
    /\ End(s, "idle")
    /\ UNCHANGED <<platform, feed, approval, events, store, ck, active, walk>>

\* After a commit the process goes on from the receipt it got.
NextState(pr) ==
    IF TerminalReason(pr) # "none" \/ pr.page.term = "pause" THEN Idle
    ELSE [Idle EXCEPT !.n = pr.n, !.pc = "fetch", !.auth = pr.auth, !.rev = pr.rev + 1,
                      !.cursor = pr.page.next, !.pages = pr.pages + 1,
                      !.so = pr.so + Cardinality(ClassifyPageItems(pr.page.items, "accepted"))]
CommitPage(s) ==
    LET pr == procs[s]
        items == pr.page.items
    IN  /\ pr.pc = "ready"
        /\ \/ /\ ValidNewPageCommit(pr) /\ ValidTerminalCap(pr) /\ ContentUnique(items)
              /\ store' = PersistPageItems(items, pr.n)
              /\ ck' = AdvanceCheckpoint(items, pr.page.next)
              /\ procs' = [procs EXCEPT ![s] = NextState(pr)]
           \/ /\ \/ ~ValidNewPageCommit(pr) /\ End(s, "idle")
                 \/ ValidNewPageCommit(pr) /\ ~ValidTerminalCap(pr) /\ End(s, "cap")
                 \/ /\ ValidNewPageCommit(pr) /\ ValidTerminalCap(pr)
                    /\ ~ContentUnique(items)
                    /\ End(s, "content")
              /\ UNCHANGED <<store, ck>>
        /\ UNCHANGED <<platform, feed, approval, events, active, walk>>

----------------------------------------------------------------------------
Init ==
    /\ platform \in Platforms
    /\ \E k \in {0} \cup Posts : feed = [p \in Posts |-> IF p <= k THEN "x" ELSE "unborn"]
    /\ approval = [id |-> 1, active |-> TRUE, lapsed |-> {}]
    /\ events = 0
    /\ store = [versions |-> {}, queue |-> {}, seen |-> {}, items |-> {}]
    /\ ck = [rev |-> 0, cursor |-> None, mark |-> 0]
    /\ active = 0
    /\ procs = [s \in Slots |-> Idle]
    /\ walk = [p \in Posts |-> {}]

Next ==
    \/ \E raw \in Served : Publish(raw)
    \/ \E p \in Posts, raw \in Served : Edit(p, raw)
    \/ \E p \in Posts : TakeDown(p)
    \/ Revoke
    \/ Lapse
    \/ Approve
    \/ \E s \in Slots :
        \/ Begin(s)
        \/ FetchPage(s)
        \/ View(s)
        \/ Fail(s)
        \/ CommitPage(s)

Spec == Init /\ [][Next]_vars

----------------------------------------------------------------------------
TypeOK ==
    /\ platform \in Platforms
    /\ feed \in [Posts -> Served \cup {"unborn", "removed"}]
    /\ events \in 0 .. MaxEvents /\ active \in 0 .. MaxRuns
    /\ ck.cursor \in Posts \cup {None} /\ ck.mark \in Posts \cup {0}
    /\ \A v \in store.versions : v.id \in Posts /\ v.rev \in 1 .. MaxEvents + 1
    /\ \A s \in Slots : procs[s].n \in 0 .. active /\ procs[s].so \in 0 .. PostCap

(* The rows one page transaction writes stay one record: a post's revisions   *)
(* are 1 .. n with each text once, every revision was queued for analysis     *)
(* once, every page item names a revision that holds the text the item        *)
(* carried, and the watermark is the newest post any page showed              *)
(* (classify_page_items, persist_page_items, advance_checkpoint).             *)
RowsAgree ==
    /\ TypeOK
    /\ \A p \in Posts :
        /\ {v.rev : v \in Versions(p)} = 1 .. Revision(p)
        /\ \A v, w \in Versions(p) : v.text = w.text => v = w
    /\ store.queue = {[id |-> v.id, rev |-> v.rev] : v \in store.versions}
    /\ \A it \in store.items : \E v \in store.versions :
        v.id = it.id /\ v.rev = it.rev /\ v.text = it.text
    /\ ck.mark = Max({0} \cup {it.id : it \in store.items})

(* Revisions are stored in the order the provider served them: a page that a  *)
(* superseded process fetched before an edit never becomes a revision after   *)
(* the edit was stored (validate_new_page_commit).                            *)
RevisionsInOrder ==
    \A v, w \in store.versions : v.id = w.id /\ v.rev < w.rev => v.at <= w.at

(* When a Reddit walk is over (the checkpoint's cursor is null again), each    *)
(* post that stayed listed from its first page on is stored, in a text it had  *)
(* during the walk, unless it was oversize: the walk may span several runs,    *)
(* failures, caps and rate-limit pauses, with posts published, edited and      *)
(* removed meanwhile.                                                          *)
WalkCovers ==
    [][(platform = "reddit" /\ ck'.rev # ck.rev /\ ck'.cursor = None) =>
        \A p \in Posts : walk[p] # {} /\ "oversize" \notin walk[p] =>
            \E v \in store'.versions :
                /\ v.id = p /\ v.text \in {Text(raw) : raw \in walk[p]}
                /\ \A w \in store'.versions : w.id = p => w.rev <= v.rev]_vars

(* A page an adapter completed under the lease gets its per-item result        *)
(* (phase0-execution-contracts.md: "produce an ordered per-item result").      *)
PageGetsResult == \A s \in Slots : procs[s].pc \notin {"cap", "content"}
=============================================================================
