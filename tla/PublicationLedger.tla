-------------------------- MODULE PublicationLedger --------------------------
(***************************************************************************)
(* The durable publication tables of the application database and the      *)
(* transactions the sole writer applies to them                            *)
(* (crates/server/src/domain/publication/store.rs).                        *)
(*                                                                         *)
(* Every action is one committed transaction.  A command whose guards fail *)
(* is rejected and rolled back, which changes nothing, so a rejection is   *)
(* the absence of a step.  A row's publication_id and creation_key are     *)
(* both unique; one identifier stands for the pair, and a replayed         *)
(* creation finds its own row and changes nothing.                         *)
(***************************************************************************)
EXTENDS Naturals

CONSTANTS
  Posts,       (* stable post identifiers                               *)
  Revisions,   (* post revision digests                                 *)
  Releases,    (* publication ids, one per creation key                 *)
  Operations,  (* operation ids of reschedule, cancel and retry         *)
  Routes,      (* slugs and aliases                                     *)
  RoutesOf,    (* [Posts \X Revisions -> SUBSET Routes]: slug + aliases *)
  Trees,       (* content tree digests                                  *)
  PostsOf,     (* [Trees -> SUBSET (Posts \X Revisions)]: the posts of a *)
               (* content tree that are not drafts                      *)
  Previews,    (* preview digests                                       *)
  Digests,     (* site snapshot digests                                 *)
  NoDigest,    (* a NULL digest column                                  *)
  Times,       (* the wall-clock instants commands may carry            *)
  MaxVersion   (* the largest site version a column can hold (i64)      *)

ASSUME LedgerConstants ==
  /\ RoutesOf \in [Posts \X Revisions -> SUBSET Routes]
  /\ PostsOf \in [Trees -> SUBSET (Posts \X Revisions)]
  /\ NoDigest \notin Digests
  /\ Times \subseteq Nat \ {0}
  /\ MaxVersion \in Nat

NoTime == 0  (* a NULL timestamp column *)

States == {"scheduled", "activating", "blocked", "published", "superseded", "cancelled"}

Release == [
  kind        : {"scheduled", "immediate"},
  post        : Posts,
  rev         : Revisions,
  tree        : Trees,
  preview     : Previews,
  state       : States,
  version     : Nat,
  scheduledAt : Times,
  approvedAt  : Times,
  activationAt: Times \cup {NoTime},
  candidate   : Digests \cup {NoDigest}]

Head == [digest : Digests \cup {NoDigest}, version : Nat]
NoHead == [digest |-> NoDigest, version |-> 0]

Receipt == [
  release : Releases,
  kind    : {"reschedule", "cancel", "retry"},
  version : Nat]

VARIABLES
  releases,  (* canonical_publications: release -> row                      *)
  routes,    (* publication_routes: route -> owning post and revision       *)
  sites,     (* site_revisions: retained digest -> version                  *)
  head,      (* site_state: the durable public head                         *)
  receipts,  (* release_operations: operation -> receipt                    *)
  observed   (* post_revisions that are publishable                         *)

ledgerVars == <<releases, routes, sites, head, receipts, observed>>

(* INSERT or UPDATE of one row of a table. *)
Put(table, key, row) ==
  [k \in DOMAIN table \cup {key} |-> IF k = key THEN row ELSE table[k]]

-----------------------------------------------------------------------------
(* Queries. *)

InState(S) == {r \in DOMAIN releases : releases[r].state \in S}
OfPost(p)  == {r \in DOMAIN releases : releases[r].post = p}

Pending    == InState({"scheduled", "activating", "blocked"})
Successful == InState({"published", "superseded"})

(* canonical_active_revision_idx: one row per revision unless cancelled *)
RevisionFree(p, rev) ==
  \A r \in OfPost(p) : releases[r].rev = rev => releases[r].state = "cancelled"

(* Mutant: only the routes of public posts are taken. *)
RoutesNotPublic(p, rev) ==
  \A t \in RoutesOf[<<p, rev>>] \cap DOMAIN routes :
    routes[t].post = p \/ InState({"published"}) \cap OfPost(routes[t].post) = {}

(* ensure_routes_available and the conflict arms of reserve and claim *)
RoutesAvailable(p, rev) ==
  \A t \in RoutesOf[<<p, rev>>] \cap DOMAIN routes : routes[t].post = p

(* reserve_publication_routes: a claim that exists is left as it is. *)
ReserveRoutes(p, rev) ==
  [t \in DOMAIN routes \cup RoutesOf[<<p, rev>>] |->
     IF t \in DOMAIN routes THEN routes[t] ELSE [post |-> p, rev |-> rev]]

(* Mutant: an update gives up the routes its post no longer uses. *)
ClaimOnlyRoutes(p, rev) ==
  [t \in {u \in DOMAIN routes : routes[u].post # p} \cup RoutesOf[<<p, rev>>] |->
     IF t \in DOMAIN routes /\ routes[t].post # p
       THEN routes[t] ELSE [post |-> p, rev |-> rev]]

(* advance_owned_routes, then claim_publication_routes: every route of the *)
(* post follows its newest revision.                                       *)
ClaimRoutes(p, rev) ==
  [t \in DOMAIN routes \cup RoutesOf[<<p, rev>>] |->
     IF t \in DOMAIN routes /\ routes[t].post # p
       THEN routes[t] ELSE [post |-> p, rev |-> rev]]

(* The site version at which a successful release became public. *)
SiteVersion(r) == sites[releases[r].candidate]

(* Mutant: an update moves the post to the time of its own activation. *)
PublicSinceUpdate(p) ==
  LET history == Successful \cap OfPost(p)
      last    == CHOOSE r \in history : \A s \in history : SiteVersion(s) <= SiteVersion(r)
  IN  releases[last].activationAt

(* canonical_publication_times: a post keeps the time of its first release *)
PublicSince(p) ==
  LET history == Successful \cap OfPost(p)
      first   == CHOOSE r \in history : \A s \in history : SiteVersion(r) <= SiteVersion(s)
  IN  releases[first].activationAt

-----------------------------------------------------------------------------
(* Indexing and startup. *)

(* validate_startup_command: a content tree holds one revision of a post *)
OneRevisionPerPost(batch) ==
  \A a, b \in batch : a[1] = b[1] => a = b

(* record_observed_posts; a draft revision never becomes publishable *)
IndexContentCatalog(batch) ==
  /\ OneRevisionPerPost(batch)
  /\ observed' = observed \cup batch
  /\ UNCHANGED <<releases, routes, sites, head, receipts>>

(* install_startup with a digest that is not the head: the site revision is *)
(* retained once and the head advances.                                     *)
InstallStartup(expected, candidate, batch) ==
  /\ OneRevisionPerPost(batch)
  /\ observed' = observed \cup batch
  /\ UNCHANGED <<releases, routes, receipts>>
  /\ IF head.digest = candidate
       THEN UNCHANGED <<sites, head>>
       ELSE /\ head = expected
            /\ head.version < MaxVersion
            /\ candidate \in DOMAIN sites => sites[candidate] < head.version
            /\ sites' = IF candidate \in DOMAIN sites
                          THEN sites ELSE Put(sites, candidate, head.version + 1)
            /\ head' = [digest |-> candidate, version |-> head.version + 1]

-----------------------------------------------------------------------------
(* Approval. *)

SchedulePublication(r, p, rev, tree, preview, expected, acceptedAt, at) ==
  /\ acceptedAt < at
  /\ r \notin DOMAIN releases
  /\ head # NoHead /\ head = expected
  /\ <<p, rev>> \in observed
  /\ Pending \cap OfPost(p) = {}
  /\ RevisionFree(p, rev)
  /\ RoutesAvailable(p, rev)
  /\ releases' = Put(releases, r,
       [kind |-> "scheduled", post |-> p, rev |-> rev, tree |-> tree, preview |-> preview,
        state |-> "scheduled", version |-> 1, scheduledAt |-> at, approvedAt |-> at,
        activationAt |-> NoTime, candidate |-> NoDigest])
  /\ routes' = ReserveRoutes(p, rev)
  /\ UNCHANGED <<sites, head, receipts, observed>>

BeginPublishNow(r, p, rev, tree, preview, expected, now, candidate) ==
  /\ r \notin DOMAIN releases
  /\ head # NoHead /\ head = expected
  /\ candidate # head.digest
  /\ candidate \notin DOMAIN sites
  /\ <<p, rev>> \in observed
  /\ InState({"activating"}) = {}
  /\ Pending \cap OfPost(p) = {}
  /\ RevisionFree(p, rev)
  /\ releases' = Put(releases, r,
       [kind |-> "immediate", post |-> p, rev |-> rev, tree |-> tree, preview |-> preview,
        state |-> "activating", version |-> 2, scheduledAt |-> now, approvedAt |-> now,
        activationAt |-> now, candidate |-> candidate])
  /\ UNCHANGED <<routes, sites, head, receipts, observed>>

-----------------------------------------------------------------------------
(* Activation. *)

(* Mutant: the claim does not look for another activation in flight. *)
ClaimConcurrently(r, version, expected, now, candidate) ==
  /\ releases[r].version = version
  /\ head = expected
  /\ candidate # head.digest
  /\ releases' = Put(releases, r, [releases[r] EXCEPT
       !.state = "activating", !.version = @ + 1, !.activationAt = now, !.candidate = candidate])
  /\ UNCHANGED <<routes, sites, head, observed>>

(* begin_scheduled_activation; `from` and `due` are claim_release_activation *)
ClaimActivation(r, version, expected, now, candidate) ==
  /\ releases[r].version = version
  /\ head = expected
  /\ candidate # head.digest
  /\ InState({"activating"}) \ {r} = {}
  /\ releases' = Put(releases, r, [releases[r] EXCEPT
       !.state = "activating", !.version = @ + 1, !.activationAt = now, !.candidate = candidate])
  /\ UNCHANGED <<routes, sites, head, observed>>

(* Mutant: the claim trusts that what the scheduler picked is still due. *)
BeginPickedActivation(r, version, expected, now, candidate) ==
  /\ r \in InState({"scheduled"})
  /\ ClaimActivation(r, version, expected, now, candidate)
  /\ UNCHANGED receipts

BeginDueActivation(r, version, expected, now, candidate) ==
  /\ r \in InState({"scheduled"})
  /\ releases[r].scheduledAt <= now
  /\ ClaimActivation(r, version, expected, now, candidate)
  /\ UNCHANGED receipts

BeginRetry(op, r, version, expected, now, candidate) ==
  /\ op \notin DOMAIN receipts
  /\ r \in InState({"blocked"})
  /\ ClaimActivation(r, version, expected, now, candidate)
  /\ receipts' = Put(receipts, op, [release |-> r, kind |-> "retry", version |-> version + 1])

(* Mutant: one version for the two transitions of a block. *)
BlockInOneStep(r, version, now) ==
  /\ r \in InState({"scheduled"})
  /\ releases[r].version = version
  /\ releases[r].scheduledAt <= now
  /\ releases' = Put(releases, r, [releases[r] EXCEPT
       !.state = "blocked", !.version = @ + 1, !.activationAt = now])
  /\ UNCHANGED <<routes, sites, head, receipts, observed>>

BlockScheduled(r, version, now) ==
  /\ r \in InState({"scheduled"})
  /\ releases[r].version = version
  /\ releases[r].scheduledAt <= now
  /\ releases' = Put(releases, r, [releases[r] EXCEPT
       !.state = "blocked", !.version = @ + 2, !.activationAt = now])
  /\ UNCHANGED <<routes, sites, head, receipts, observed>>

Published(p) == InState({"published"}) \cap OfPost(p)

(* Mutant: a site revision that exists is overwritten. *)
FinishCorruptHistory(r) ==
  \E i, j \in Published(releases[r].post) : i # j

(* Errors of finish_activation that mean the stored state is corrupt: they *)
(* stop the writer instead of rejecting the command.                       *)
FinishCorrupt(r) ==
  \/ releases[r].candidate \in DOMAIN sites
  \/ \E i, j \in Published(releases[r].post) : i # j

(* finish_activation: retain the site revision, supersede the current     *)
(* release, move the post's routes, publish and advance the head, all in  *)
(* one transaction.                                                       *)
FinishActivation(r, version, expected, candidate) ==
  LET p   == releases[r].post
      rev == releases[r].rev
  IN
  /\ r \in InState({"activating"})
  /\ releases[r].candidate = candidate
  /\ releases[r].version = version
  /\ head = expected /\ head.version < MaxVersion
  /\ ~FinishCorrupt(r)
  /\ RoutesAvailable(p, rev)
  /\ releases' = [s \in DOMAIN releases |->
       IF s = r THEN [releases[s] EXCEPT !.state = "published", !.version = @ + 1]
       ELSE IF s \in Published(p)
         THEN [releases[s] EXCEPT !.state = "superseded", !.version = @ + 1]
         ELSE releases[s]]
  /\ routes' = ClaimRoutes(p, rev)
  /\ sites' = Put(sites, candidate, head.version + 1)
  /\ head' = [digest |-> candidate, version |-> head.version + 1]
  /\ UNCHANGED <<receipts, observed>>

-----------------------------------------------------------------------------
(* change_release *)

ChangeRelease(op, r, version, kind, state, at) ==
  /\ op \notin DOMAIN receipts
  /\ releases[r].version = version
  /\ releases' = Put(releases, r, [releases[r] EXCEPT
       !.state = state, !.version = @ + 1, !.scheduledAt = at])
  /\ receipts' = Put(receipts, op, [release |-> r, kind |-> kind, version |-> version + 1])
  /\ UNCHANGED <<routes, sites, head, observed>>

Reschedule(op, r, version, now, at) ==
  /\ r \in InState({"scheduled"})
  /\ now < at
  /\ ChangeRelease(op, r, version, "reschedule", "scheduled", at)

(* Mutant: the receipt records the state instead of the operation. *)
CancelRecordingState(op, r, version) ==
  /\ r \in InState({"scheduled", "blocked"})
  /\ ChangeRelease(op, r, version, "cancelled", "cancelled", releases[r].scheduledAt)

(* Mutant: an activation in flight can be cancelled. *)
CancelAnything(op, r, version) ==
  /\ r \in Pending
  /\ ChangeRelease(op, r, version, "cancel", "cancelled", releases[r].scheduledAt)

Cancel(op, r, version) ==
  /\ r \in InState({"scheduled", "blocked"})
  /\ ChangeRelease(op, r, version, "cancel", "cancelled", releases[r].scheduledAt)

-----------------------------------------------------------------------------
(* The ledger alone, driven by any caller.  A command that names a stale    *)
(* row version or a stale head is rejected, so the caller names current     *)
(* ones, and an approval pins the content tree that supplied its revision;  *)
(* everything else about the command is arbitrary.                          *)

Empty == [x \in {} |-> x]

Init ==
  /\ releases = Empty /\ routes = Empty /\ sites = Empty
  /\ head = NoHead /\ receipts = Empty /\ observed = {}

Approve ==
  \E r \in Releases, p \in Posts, rev \in Revisions, tree \in Trees, preview \in Previews :
    /\ <<p, rev>> \in PostsOf[tree]
    /\ \/ \E now, at \in Times : SchedulePublication(r, p, rev, tree, preview, head, now, at)
       \/ \E now \in Times, d \in Digests :
            BeginPublishNow(r, p, rev, tree, preview, head, now, d)

Activate ==
  \E r \in DOMAIN releases :
    LET v == releases[r].version IN
    \/ \E now \in Times, d \in Digests : BeginDueActivation(r, v, head, now, d)
    \/ \E op \in Operations, now \in Times, d \in Digests : BeginRetry(op, r, v, head, now, d)
    \/ \E now \in Times : BlockScheduled(r, v, now)
    \/ FinishActivation(r, v, head, releases[r].candidate)

Change ==
  \E op \in Operations, r \in DOMAIN releases :
    LET v == releases[r].version IN
    \/ \E now, at \in Times : Reschedule(op, r, v, now, at)
    \/ Cancel(op, r, v)

Index ==
  \E tree \in Trees :
    \/ IndexContentCatalog(PostsOf[tree])
    \/ \E d \in Digests : InstallStartup(head, d, PostsOf[tree])

Next == Approve \/ Activate \/ Change \/ Index

Spec == Init /\ [][Next]_ledgerVars

-----------------------------------------------------------------------------
(* Properties. *)

TypeOK ==
  /\ DOMAIN releases \subseteq Releases /\ releases \in [DOMAIN releases -> Release]
  /\ DOMAIN routes \subseteq Routes
  /\ routes \in [DOMAIN routes -> [post : Posts, rev : Revisions]]
  /\ DOMAIN sites \subseteq Digests /\ sites \in [DOMAIN sites -> Nat]
  /\ head \in Head
  /\ DOMAIN receipts \subseteq Operations /\ receipts \in [DOMAIN receipts -> Receipt]
  /\ observed \subseteq Posts \X Revisions

(* CanonicalPublicationView::validate accepts every stored row: one row it   *)
(* refuses makes startup fail for the whole site.                           *)
MinimumVersion ==
  [scheduled |-> 1, activating |-> 2, blocked |-> 3, published |-> 3,
   superseded |-> 4, cancelled |-> 2]

RowsRehydrate ==
  \A r \in DOMAIN releases :
    LET row == releases[r] IN
    /\ row.version >= MinimumVersion[row.state]
    /\ row.activationAt = NoTime => row.state \in {"scheduled", "cancelled"}
    /\ row.state = "scheduled" => row.activationAt = NoTime
    /\ row.candidate # NoDigest <=> row.state \in {"activating", "published", "superseded"}

(* The actor, its queue and the scheduler rely on at most one activation    *)
(* being in flight over the whole site (StartupSnapshotLoadError::          *)
(* MultipleActivations refuses to start otherwise).                         *)
OneActivation ==
  \A r, s \in InState({"activating"}) : r = s

(* A post has at most one release that could still become public.           *)
OnePendingPerPost ==
  \A r, s \in Pending : releases[r].post = releases[s].post => r = s

(* canonical_publication_times loads at every restart: every post with      *)
(* public history has exactly one current release, the one with the highest *)
(* site version, and one first release, whose time the post keeps; two      *)
(* releases never share a site version.                                     *)
HistoryLoadable ==
  /\ \A r \in Successful : releases[r].candidate \in DOMAIN sites
  /\ \A r \in Successful : \E s \in Published(releases[r].post) :
        r = s \/ SiteVersion(r) < SiteVersion(s)
  /\ \A p \in Posts : \A r, s \in Published(p) : r = s
  /\ \A p \in Posts :
        LET history == Successful \cap OfPost(p) IN
        history # {} => \E r \in history : \A s \in history : SiteVersion(r) <= SiteVersion(s)
  /\ \A r, s \in Successful : SiteVersion(r) = SiteVersion(s) => r = s

(* The durable head never falls behind a retained site revision, and a      *)
(* ledger with releases always has a head to restart from.                  *)
HeadIsLatest ==
  /\ head # NoHead => head.digest \in DOMAIN sites
  /\ \A d \in DOMAIN sites : sites[d] <= head.version
  /\ DOMAIN releases # {} => head # NoHead

(* An approved or public release owns every route it will serve or serves;  *)
(* an immediate activation is the one release that still has to claim them. *)
RoutesReserved ==
  \A r \in InState({"scheduled", "blocked", "published"}) :
    \A t \in RoutesOf[<<releases[r].post, releases[r].rev>>] :
      t \in DOMAIN routes /\ routes[t].post = releases[r].post

(* "Claims belong permanently to the stable post ID": a claimed route never *)
(* moves to another post and is never freed, whatever happens to releases.  *)
ClaimsPermanent ==
  [][\A t \in DOMAIN routes : t \in DOMAIN routes' /\ routes'[t].post = routes[t].post]_ledgerVars

(* A revision that was public once is never approved again, which is why    *)
(* a candidate site never equals a retained one.                            *)
RevisionUsedOnce ==
  \A r, s \in DOMAIN releases :
    /\ releases[r].post = releases[s].post /\ releases[r].rev = releases[s].rev
    /\ "cancelled" \notin {releases[r].state, releases[s].state}
    => r = s

(* A replayed operation id answers with its receipt: what the receipt says  *)
(* happened to the release is still true of the release.                    *)
ReceiptsHold ==
  \A op \in DOMAIN receipts :
    LET row == releases[receipts[op].release] IN
    /\ receipts[op].release \in DOMAIN releases
    /\ receipts[op].version <= row.version
    /\ receipts[op].kind = "cancel" => row.state = "cancelled" /\ row.version = receipts[op].version
    /\ receipts[op].kind = "retry" => row.state \in {"activating", "published", "superseded"}

(* Which approvals can coexist: the three facts the coordinator, the        *)
(* scheduler and startup take for granted.                                  *)
Approvals == OneActivation /\ OnePendingPerPost /\ RevisionUsedOnce

(* What every restart loads before it serves anything.                      *)
History == HistoryLoadable /\ HeadIsLatest

(* What earlier transactions promised to later commands: reserved routes    *)
(* and the answers of receipts.                                             *)
Promises == RoutesReserved /\ ReceiptsHold

(* "An update retains the original publication timestamp."                  *)
PublicSincePermanent ==
  [][\A p \in Posts :
       Published(p) # {} => Published(p)' # {} /\ PublicSince(p)' = PublicSince(p)]_ledgerVars

(* Each row lives the life ReleaseLifecycle promises.                       *)
RowState(r) == IF r \in DOMAIN releases THEN releases[r].state ELSE "absent"
RowVersion(r) == IF r \in DOMAIN releases THEN releases[r].version ELSE 0

Life(r) == INSTANCE ReleaseLifecycle WITH state <- RowState(r), version <- RowVersion(r)

EveryReleaseLives ==
  /\ \A r \in Releases : Life(r)!Init
  /\ [][\A r \in Releases : [Life(r)!Next]_(Life(r)!vars)]_ledgerVars
=============================================================================
