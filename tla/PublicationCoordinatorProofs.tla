---------------------- MODULE PublicationCoordinatorProofs ----------------------
(***************************************************************************)
(* Proofs about the coordinator, for every set of posts, trees, settings   *)
(* and tips and for every bound on stops, tip changes, refused finishes    *)
(* and queued commands.                                                    *)
(*                                                                         *)
(* Every step of the coordinator is a step of the ledger or leaves it      *)
(* alone, so what was proved of the ledger holds of the tables below; the  *)
(* invariant says what the process knows of them, wherever it is.          *)
(***************************************************************************)
EXTENDS PublicationCoordinator, TLAPS

(* The ledger with what was proved about it. *)
LP == INSTANCE PublicationLedgerProofs

-----------------------------------------------------------------------------
(* The ledger's transactions are the same in both views of it. *)

LEMMA SameSchedule ==
  ASSUME NEW r, NEW p, NEW rev, NEW tree, NEW preview, NEW expected, NEW now, NEW at,
         L!SchedulePublication(r, p, rev, tree, preview, expected, now, at)
  PROVE  LP!SchedulePublication(r, p, rev, tree, preview, expected, now, at)
BY DEF L!SchedulePublication, LP!SchedulePublication, L!Pending, LP!Pending, L!InState, LP!InState,
   L!OfPost, LP!OfPost, L!RoutesAvailable, LP!RoutesAvailable, L!ReserveRoutes, LP!ReserveRoutes,
   L!Put, LP!Put, L!NoHead, LP!NoHead, L!NoTime, LP!NoTime, L!RevisionFree, LP!RevisionFree

LEMMA SamePublishNow ==
  ASSUME NEW r, NEW p, NEW rev, NEW tree, NEW preview, NEW expected, NEW now, NEW candidate,
         L!BeginPublishNow(r, p, rev, tree, preview, expected, now, candidate)
  PROVE  LP!BeginPublishNow(r, p, rev, tree, preview, expected, now, candidate)
BY DEF L!BeginPublishNow, LP!BeginPublishNow, L!Pending, LP!Pending, L!InState, LP!InState,
   L!OfPost, LP!OfPost, L!Put, LP!Put, L!NoHead, LP!NoHead, L!RevisionFree, LP!RevisionFree

LEMMA SameDue ==
  ASSUME NEW r, NEW version, NEW expected, NEW now, NEW candidate,
         L!BeginDueActivation(r, version, expected, now, candidate)
  PROVE  LP!BeginDueActivation(r, version, expected, now, candidate)
BY DEF L!BeginDueActivation, LP!BeginDueActivation, L!ClaimActivation, LP!ClaimActivation,
   L!InState, LP!InState, L!Put, LP!Put

LEMMA SameRetry ==
  ASSUME NEW op, NEW r, NEW version, NEW expected, NEW now, NEW candidate,
         L!BeginRetry(op, r, version, expected, now, candidate)
  PROVE  LP!BeginRetry(op, r, version, expected, now, candidate)
BY DEF L!BeginRetry, LP!BeginRetry, L!ClaimActivation, LP!ClaimActivation,
   L!InState, LP!InState, L!Put, LP!Put

LEMMA SameBlock ==
  ASSUME NEW r, NEW version, NEW now, L!BlockScheduled(r, version, now)
  PROVE  LP!BlockScheduled(r, version, now)
BY DEF L!BlockScheduled, LP!BlockScheduled, L!InState, LP!InState, L!Put, LP!Put

LEMMA SameFinish ==
  ASSUME NEW r, NEW version, NEW expected, NEW candidate,
         L!FinishActivation(r, version, expected, candidate)
  PROVE  LP!FinishActivation(r, version, expected, candidate)
BY DEF L!FinishActivation, LP!FinishActivation, L!FinishCorrupt, LP!FinishCorrupt,
   L!Published, LP!Published, L!InState, LP!InState, L!OfPost, LP!OfPost,
   L!RoutesAvailable, LP!RoutesAvailable, L!ClaimRoutes, LP!ClaimRoutes, L!Put, LP!Put

LEMMA SameChange ==
  ASSUME NEW op, NEW r, NEW version, NEW now, NEW at
  PROVE  /\ L!Reschedule(op, r, version, now, at) => LP!Reschedule(op, r, version, now, at)
         /\ L!Cancel(op, r, version) => LP!Cancel(op, r, version)
BY DEF L!Reschedule, LP!Reschedule, L!Cancel, LP!Cancel, L!ChangeRelease, LP!ChangeRelease,
   L!InState, LP!InState, L!Put, LP!Put

LEMMA SameIndex ==
  ASSUME NEW expected, NEW candidate, NEW batch
  PROVE  /\ L!IndexContentCatalog(batch) => LP!IndexContentCatalog(batch)
         /\ L!InstallStartup(expected, candidate, batch) => LP!InstallStartup(expected, candidate, batch)
BY DEF L!IndexContentCatalog, LP!IndexContentCatalog, L!InstallStartup, LP!InstallStartup,
   L!OneRevisionPerPost, LP!OneRevisionPerPost, L!Put, LP!Put

LEMMA SameNext == L!Next => LP!Next
<1>1. L!Approve => LP!Approve
  BY SameSchedule, SamePublishNow DEF L!Approve, LP!Approve
<1>2. L!Activate => LP!Activate
  BY SameDue, SameRetry, SameBlock, SameFinish DEF L!Activate, LP!Activate
<1>3. L!Change => LP!Change
  BY SameChange DEF L!Change, LP!Change
<1>4. L!Index => LP!Index
  BY SameIndex DEF L!Index, LP!Index
<1>. QED BY <1>1, <1>2, <1>3, <1>4 DEF L!Next, LP!Next

LEMMA SameInit == L!Init => LP!Init
BY DEF L!Init, LP!Init, L!Empty, LP!Empty, L!NoHead, LP!NoHead

LEMMA LedgerAssumed == LP!LedgerConstants
BY CoordinatorConstants DEF LP!LedgerConstants

(* What was proved of the ledger, in the names the coordinator uses. *)
LEMMA SameQueries ==
  /\ \A S : L!InState(S) = LP!InState(S)
  /\ \A p : L!OfPost(p) = LP!OfPost(p) /\ L!Published(p) = LP!Published(p)
  /\ L!Pending = LP!Pending /\ L!Successful = LP!Successful
  /\ \A r : L!SiteVersion(r) = LP!SiteVersion(r)
BY DEF L!InState, LP!InState, L!OfPost, LP!OfPost, L!Published, LP!Published, L!Pending, LP!Pending,
   L!Successful, LP!Successful, L!SiteVersion, LP!SiteVersion

SameTimes == \A p : L!PublicSince(p) = LP!PublicSince(p)

LEMMA SamePublicSince == SameTimes
BY SameQueries DEF SameTimes, L!PublicSince, LP!PublicSince

LEMMA LedgerFacts ==
  ASSUME LP!IInv
  PROVE  /\ L!TypeOK /\ L!RowsRehydrate
         /\ L!OneActivation /\ L!OnePendingPerPost /\ L!RevisionUsedOnce
         /\ L!HistoryLoadable /\ L!HeadIsLatest
<1>1. LP!TypeOK /\ LP!RowsRehydrate /\ LP!Approvals /\ LP!History
  BY DEF LP!IInv
<1>2. L!TypeOK
  BY <1>1 DEF L!TypeOK, LP!TypeOK, L!Release, LP!Release, L!Head, LP!Head, L!Receipt, LP!Receipt,
     L!States, LP!States, L!NoTime, LP!NoTime
<1>3. L!RowsRehydrate
  BY <1>1 DEF L!RowsRehydrate, LP!RowsRehydrate, L!MinimumVersion, LP!MinimumVersion,
     L!NoTime, LP!NoTime
<1>4. L!OneActivation /\ L!OnePendingPerPost /\ L!RevisionUsedOnce
  BY <1>1, SameQueries DEF LP!Approvals, L!OneActivation, LP!OneActivation, L!OnePendingPerPost,
     LP!OnePendingPerPost, L!RevisionUsedOnce, LP!RevisionUsedOnce
<1>5. LP!HistoryLoadable
  BY <1>1 DEF LP!History
<1>6. L!HistoryLoadable
  BY <1>5, SameQueries, Zenon DEF L!HistoryLoadable, LP!HistoryLoadable
<1>7. L!HeadIsLatest
  BY <1>1 DEF LP!History, L!HeadIsLatest, LP!HeadIsLatest, L!NoHead, LP!NoHead
<1>. QED BY <1>2, <1>3, <1>4, <1>6, <1>7

-----------------------------------------------------------------------------
(* What the coordinator computes, and of what type it is. *)

ScheduledTables == UNION {[D -> L!Release] : D \in SUBSET Releases}

Memory == [
  tree : Trees, revisions : SUBSET (Posts \X Revisions), candidates : SUBSET Trees,
  public : PublicPosts, site : L!Head, scheduled : ScheduledTables, tip : Tips,
  snapshot : [digest : Digests, tip : Tips]]

Inflight == [release : Releases, swapped : BOOLEAN]
Picks    == [release : Releases, now : Times]

Typed ==
  /\ retained \subseteq Trees /\ tip \in Tips /\ clock \in Times
  /\ phase \in {"down", "recovering", "ready", "draining"}
  /\ phase = "down" => memory = None
  /\ phase # "down" => memory \in Memory
  /\ inflight \in Inflight \cup {None}
  /\ picked \in Picks \cup {None}
  /\ served \in PublicPosts

(* Where an activation stands. *)
Interrupted == L!InState({"activating"})

Posted ==
  /\ phase = "down" => inflight = None /\ picked = None
  /\ inflight # None => phase # "down" /\ Interrupted = {inflight.release}
  /\ phase = "ready" /\ inflight = None => Interrupted = {}
  /\ phase = "recovering" => inflight # None

(* What the process remembers of the ledger.  A process that drains may have *)
(* left an activation behind, which is still among what it has scheduled.    *)
Coherent ==
  /\ phase # "down" =>
       /\ memory.public = LedgerProjection
       /\ memory.site = head
       /\ \A r \in L!InState({"scheduled"}) : r \in DOMAIN memory.scheduled
       /\ \A r \in DOMAIN memory.scheduled :
            \/ r \in Interrupted
            \/ r \in L!InState({"scheduled"}) /\ memory.scheduled[r] = releases[r]
  /\ phase \in {"ready", "recovering"} => memory.tip = tip /\ memory.snapshot.tip = tip

(* A claim names the site it will make, and its routes are still free once   *)
(* the activation got past the checks that precede the swap.                 *)
Claims ==
  \A r \in Interrupted :
    releases[r].candidate.posts =
      WithApproved(LedgerProjection, releases[r].post, releases[r].rev, releases[r].activationAt)

Free == inflight # None /\ (phase # "recovering" \/ inflight.swapped) => RoutesStillFree

(* A retained site shows revisions that were published; the head shows those *)
(* that are.                                                                 *)
Retains ==
  /\ \A d \in DOMAIN sites : \A p \in DOMAIN d.posts :
       \E r \in L!Successful : releases[r].post = p /\ releases[r].rev = d.posts[p].rev
  /\ head # L!NoHead => head.digest.posts = LedgerProjection

(* Readers have the public posts, or already those of a claim. *)
Shows ==
  /\ served = LedgerProjection \/ \E r \in Interrupted : served = releases[r].candidate.posts
  /\ phase \in {"ready", "draining"} => served = memory.snapshot.digest.posts
  /\ inflight # None /\ inflight.swapped =>
       memory.snapshot.digest = releases[inflight.release].candidate

(* The scheduler's time is not ahead of the clock, and what was blocked had  *)
(* come due.                                                                 *)
Punctual ==
  /\ NeverEarly
  /\ picked # None => picked.now <= clock
  /\ \A r \in L!InState({"blocked"}) : releases[r].scheduledAt <= clock

Inv == Typed /\ Posted /\ Coherent /\ Claims /\ Free /\ Retains /\ Shows

LEMMA TablesOf ==
  ASSUME NEW t \in ScheduledTables
  PROVE  /\ DOMAIN t \subseteq Releases
         /\ \A r \in DOMAIN t : t[r] \in L!Release
         /\ t = [r \in DOMAIN t |-> t[r]]
BY DEF ScheduledTables

LEMMA IsTable ==
  ASSUME NEW t, t = [r \in DOMAIN t |-> t[r]], DOMAIN t \subseteq Releases,
         \A r \in DOMAIN t : t[r] \in L!Release
  PROVE  t \in ScheduledTables
<1>1. t \in [DOMAIN t -> L!Release]
  OBVIOUS
<1>. QED BY <1>1 DEF ScheduledTables

LEMMA TypedImpliesTypeOK == Typed => TypeOK
<1>. SUFFICES ASSUME Typed, phase # "down"
              PROVE  /\ DOMAIN memory.scheduled \subseteq Releases
                     /\ \A r \in DOMAIN memory.scheduled : memory.scheduled[r] \in L!Release
  BY DEF Typed, TypeOK, Memory, Inflight, Picks
<1>1. memory.scheduled \in ScheduledTables
  BY DEF Typed, Memory
<1>. QED BY <1>1, TablesOf

LEMMA PostsTyped ==
  ASSUME NEW public \in PublicPosts
  PROVE  /\ DOMAIN public \subseteq Posts
         /\ \A p \in DOMAIN public : public[p] \in [rev : Revisions, since : Times]
         /\ public = [p \in DOMAIN public |-> public[p]]
BY DEF PublicPosts

LEMMA IsPosts ==
  ASSUME NEW P \in SUBSET Posts, NEW public \in [P -> [rev : Revisions, since : Times]]
  PROVE  public \in PublicPosts
BY DEF PublicPosts

LEMMA WithApprovedTyped ==
  ASSUME NEW public \in PublicPosts, NEW p \in Posts, NEW rev \in Revisions, NEW at \in Times
  PROVE  WithApproved(public, p, rev, at) \in PublicPosts
<1>1. DOMAIN public \cup {p} \in SUBSET Posts
  BY PostsTyped
<1>2. WithApproved(public, p, rev, at) \in [DOMAIN public \cup {p} -> [rev : Revisions, since : Times]]
  BY PostsTyped DEF WithApproved
<1>. QED BY <1>1, <1>2, IsPosts

LEMMA CandidateTyped ==
  ASSUME Typed, phase # "down", NEW tree \in Trees, NEW p \in Posts, NEW rev \in Revisions, NEW at \in Times
  PROVE  /\ Candidate(tree, p, rev, at) \in Digests
         /\ Preview(tree, memory.public, memory.tip, p, rev) \in Previews
<1>1. memory.public \in PublicPosts /\ memory.tip \in Tips /\ SettingsOf[tree] \in Settings
  BY CoordinatorConstants DEF Typed, Memory
<1>2. WithApproved(memory.public, p, rev, at) \in PublicPosts
  BY <1>1, WithApprovedTyped
<1>3. p \in DOMAIN memory.public => memory.public[p].since \in Times
  BY <1>1, PostsTyped
<1>4. Preview(tree, memory.public, memory.tip, p, rev) \in Previews
  BY <1>1, <1>3 DEF Preview, Previews
<1>. QED BY <1>1, <1>2, <1>4 DEF Candidate, Digests

-----------------------------------------------------------------------------
(* The ledger projection startup loads. *)

LEMMA ProjectionDomain == DOMAIN LedgerProjection = {releases[r].post : r \in L!InState({"published"})}
BY DEF LedgerProjection

LEMMA ProjectionAt ==
  ASSUME LP!IInv, NEW r \in L!InState({"published"})
  PROVE  /\ releases[r].post \in DOMAIN LedgerProjection
         /\ LedgerProjection[releases[r].post] =
              [rev |-> releases[r].rev, since |-> L!PublicSince(releases[r].post)]
<1>. DEFINE p == releases[r].post
            c == CHOOSE s \in L!Published(p) : TRUE
<1>1. r \in L!Published(p) /\ p \in Posts
  BY LedgerFacts DEF L!Published, L!InState, L!OfPost, L!TypeOK, L!Release
<1>2. c \in L!Published(p)
  BY <1>1
<1>3. c = r
  BY <1>1, <1>2, LedgerFacts DEF L!HistoryLoadable
<1>4. p \in DOMAIN LedgerProjection
  BY ProjectionDomain
<1>5. LedgerProjection[p] = [rev |-> releases[c].rev, since |-> L!PublicSince(p)]
  BY <1>4 DEF LedgerProjection
<1>. QED BY <1>3, <1>4, <1>5

Projects == \A r \in L!InState({"published"}) :
  /\ releases[r].post \in DOMAIN LedgerProjection
  /\ LedgerProjection[releases[r].post] =
       [rev |-> releases[r].rev, since |-> L!PublicSince(releases[r].post)]

LEMMA ProjectsRows == LP!IInv => Projects
BY ProjectionAt DEF Projects

LEMMA SinceTyped ==
  ASSUME LP!IInv, NEW r \in L!InState({"published"})
  PROVE  L!PublicSince(releases[r].post) \in Times
<1>. DEFINE p == releases[r].post
<1>1. p \in Posts /\ r \in LP!Successful \cap LP!OfPost(p)
  BY LedgerFacts DEF LP!Successful, LP!OfPost, LP!InState, L!InState, L!TypeOK, L!Release
<1>. HIDE DEF p
<1>0. LP!TypeOK /\ LP!History
  BY DEF LP!IInv
<1>2. PICK f : LP!First(p, f)
  BY <1>0, <1>1, LP!FirstExists, CoordinatorConstants
<1>3. LP!PublicSince(p) = releases[f].activationAt
  BY <1>0, <1>2, LP!FirstGivesTime, CoordinatorConstants DEF LP!FirstTimes
<1>4. f \in DOMAIN releases /\ releases[f].state \in {"published", "superseded"}
  BY <1>2 DEF LP!First, LP!Successful, LP!InState
<1>5. releases[f].activationAt \in Times
  BY <1>4, LedgerFacts DEF L!TypeOK, L!Release, L!RowsRehydrate
<1>. QED BY <1>3, <1>5, SamePublicSince DEF p, SameTimes

LEMMA ProjectionTyped ==
  ASSUME LP!IInv
  PROVE  LedgerProjection \in PublicPosts
<1>1. DOMAIN LedgerProjection \in SUBSET Posts
  BY ProjectionDomain, LedgerFacts DEF L!InState, L!TypeOK, L!Release
<1>2. ASSUME NEW p \in DOMAIN LedgerProjection
      PROVE  LedgerProjection[p] \in [rev : Revisions, since : Times]
  <2>1. PICK r \in L!InState({"published"}) : releases[r].post = p
    BY <1>2, ProjectionDomain
  <2>2. releases[r].rev \in Revisions
    BY LedgerFacts DEF L!InState, L!TypeOK, L!Release
  <2>3. L!PublicSince(p) \in Times
    BY <2>1, SinceTyped
  <2>4. LedgerProjection[p] = [rev |-> releases[r].rev, since |-> L!PublicSince(p)]
    BY <2>1, ProjectionAt
  <2>. QED BY <2>2, <2>3, <2>4
<1>3. LedgerProjection \in [DOMAIN LedgerProjection -> [rev : Revisions, since : Times]]
  BY <1>2 DEF LedgerProjection
<1>. QED BY <1>1, <1>3, IsPosts

-----------------------------------------------------------------------------
(* What a step of the ledger does to what is public. *)

(* The ledger's tables as a step leaves them. *)
LedgerKept == LP!IInv /\ LP!IInv' /\ LP!PublicKeeps

LEMMA LedgerStepKeeps ==
  ASSUME LP!IInv, [L!Next]_ledger
  PROVE  LedgerKept
<1>1. [LP!Next]_(LP!ledgerVars)
  BY SameNext DEF ledger, LP!ledgerVars
<1>. QED BY <1>1, LP!StepSafe, LP!StepKeepsPublic, LedgerAssumed, CoordinatorConstants DEF LedgerKept

LEMMA TimesKept ==
  ASSUME LedgerKept, NEW p \in DOMAIN LedgerProjection
  PROVE  L!PublicSince(p)' = L!PublicSince(p)
<1>1. p \in Posts /\ LP!Published(p) # {}
  BY ProjectionDomain, LedgerFacts DEF LedgerKept, L!InState, L!TypeOK, L!Release, LP!Published,
     LP!InState, LP!OfPost
<1>2. LP!PublicSince(p)' = LP!PublicSince(p)
  BY <1>1, LP!StepKeepsTimes, LedgerAssumed, CoordinatorConstants DEF LedgerKept
<1>3. SameTimes'
  BY SamePublicSince, PTL
<1>. QED BY <1>2, <1>3, SamePublicSince DEF SameTimes

(* Without a new success the projection is what it was. *)
LEMMA ProjectionKept ==
  ASSUME LedgerKept, L!InState({"published"})' = L!InState({"published"})
  PROVE  LedgerProjection' = LedgerProjection
<1>1. \A r \in L!InState({"published"}) :
        releases'[r].post = releases[r].post /\ releases'[r].rev = releases[r].rev
  BY DEF LedgerKept, LP!PublicKeeps, LP!Successful, LP!InState, L!InState
<1>2. DOMAIN LedgerProjection' = DOMAIN LedgerProjection
  <2>1. (DOMAIN LedgerProjection)' = {releases'[r].post : r \in L!InState({"published"})'}
    BY DEF LedgerProjection
  <2>. QED BY <1>1, <2>1, ProjectionDomain
<1>3. ASSUME NEW p \in DOMAIN LedgerProjection
      PROVE  LedgerProjection'[p] = LedgerProjection[p]
  <2>1. PICK r \in L!InState({"published"}) : releases[r].post = p
    BY ProjectionDomain
  <2>2. LedgerProjection[p] = [rev |-> releases[r].rev, since |-> L!PublicSince(p)]
    BY <2>1, ProjectionAt DEF LedgerKept
  <2>3. LedgerProjection'[p] = [rev |-> releases'[r].rev, since |-> L!PublicSince(p)']
    <3>1. LP!IInv' => Projects'
      BY ProjectsRows, PTL
    <3>2. r \in L!InState({"published"})' /\ releases'[r].post = p
      BY <1>1, <2>1
    <3>. QED BY <3>1, <3>2 DEF LedgerKept, Projects
  <2>4. L!PublicSince(p)' = L!PublicSince(p)
    BY TimesKept
  <2>. QED BY <1>1, <2>1, <2>2, <2>3, <2>4
<1>. QED BY <1>2, <1>3 DEF LedgerProjection

LEMMA FirstTimesHold == LP!TypeOK /\ LP!History => LP!FirstTimes
BY LP!FirstGivesTime, CoordinatorConstants

LEMMA SameFunction ==
  ASSUME NEW f, NEW g, f = [x \in DOMAIN f |-> f[x]], g = [x \in DOMAIN g |-> g[x]],
         DOMAIN f = DOMAIN g, \A x \in DOMAIN f : f[x] = g[x]
  PROVE  f = g
OBVIOUS

LEMMA ProjectionUnchanged ==
  ASSUME UNCHANGED <<releases, sites>>
  PROVE  LedgerProjection' = LedgerProjection
BY DEF LedgerProjection, L!InState, L!Published, L!OfPost, L!PublicSince, L!Successful, L!SiteVersion

(* A success puts its post into the projection, at the time of its own       *)
(* activation when it is the first.                                          *)
LEMMA ProjectionFinished ==
  ASSUME LedgerKept, NEW r, LP!Finished(r)
  PROVE  LedgerProjection' =
           WithApproved(LedgerProjection, releases[r].post, releases[r].rev, releases[r].activationAt)
<1>0. PICK p : p = releases[r].post
  OBVIOUS
<1>. DEFINE new == WithApproved(LedgerProjection, p, releases[r].rev, releases[r].activationAt)
<1>1. /\ r \in DOMAIN releases /\ DOMAIN releases' = DOMAIN releases
      /\ \A s \in DOMAIN releases :
           /\ releases'[s].post = releases[s].post /\ releases'[s].rev = releases[s].rev
           /\ releases'[s].activationAt = releases[s].activationAt
      /\ r \in L!InState({"published"})'
      /\ \A s \in DOMAIN releases : releases[s].post # p =>
           (s \in L!InState({"published"})' <=> s \in L!InState({"published"}))
  BY <1>0 DEF LP!Finished, L!InState
<1>2. DOMAIN LedgerProjection' = DOMAIN LedgerProjection \cup {p}
  <2>1. (DOMAIN LedgerProjection)' = {releases'[s].post : s \in L!InState({"published"})'}
    BY DEF LedgerProjection
  <2>2. L!InState({"published"})' \subseteq DOMAIN releases /\ L!InState({"published"}) \subseteq DOMAIN releases
    BY <1>1 DEF L!InState
  <2>. QED BY <1>0, <1>1, <2>1, <2>2, ProjectionDomain
<1>3. LP!IInv' => Projects'
  BY ProjectsRows, PTL
<1>4. p \in Posts
  BY <1>0, <1>1, LedgerFacts DEF LedgerKept, L!TypeOK, L!Release
<1>5. LedgerProjection'[p] = [rev |-> releases[r].rev, since |-> L!PublicSince(p)']
  BY <1>0, <1>1, <1>3 DEF LedgerKept, Projects
<1>6. p \in DOMAIN LedgerProjection => L!PublicSince(p)' = LedgerProjection[p].since
  <2>. SUFFICES ASSUME p \in DOMAIN LedgerProjection  PROVE L!PublicSince(p)' = LedgerProjection[p].since
    OBVIOUS
  <2>1. PICK s \in L!InState({"published"}) : releases[s].post = p
    BY ProjectionDomain
  <2>2. LedgerProjection[p] = [rev |-> releases[s].rev, since |-> L!PublicSince(p)]
    BY <2>1, ProjectionAt DEF LedgerKept
  <2>3. L!PublicSince(p)' = L!PublicSince(p)
    BY TimesKept
  <2>. QED BY <2>2, <2>3
<1>7. p \notin DOMAIN LedgerProjection => L!PublicSince(p)' = releases[r].activationAt
  <2>. SUFFICES ASSUME p \notin DOMAIN LedgerProjection
                PROVE  L!PublicSince(p)' = releases[r].activationAt
    OBVIOUS
  <2>1. L!Successful \cap L!OfPost(p) = {}
    <3>1. L!Published(p) = {}
      BY ProjectionDomain DEF L!Published, L!InState, L!OfPost
    <3>. QED BY <3>1, LedgerFacts DEF LedgerKept, L!HistoryLoadable, L!OfPost
  <2>2. (LP!Successful \cap LP!OfPost(p))' = {r}
    BY <1>0, <1>1, <2>1 DEF LP!Finished, LP!Successful, LP!OfPost, LP!InState, L!Successful, L!OfPost, L!InState
  <2>3. LP!First(p, r)'
    <3>1. LP!SiteVersion(r)' \in Nat
      <4>1. LP!TypeOK' /\ LP!History'
        BY DEF LedgerKept, LP!IInv
      <4>. QED BY <2>2, <4>1 DEF LP!TypeOK, LP!History, LP!HistoryLoadable, LP!SiteVersion
    <3>. QED BY <2>2, <3>1 DEF LP!First
  <2>4. LP!TypeOK' /\ LP!History' => LP!FirstTimes'
    BY FirstTimesHold, PTL
  <2>5. LP!PublicSince(p)' = releases'[r].activationAt
    BY <2>3, <2>4 DEF LedgerKept, LP!IInv, LP!FirstTimes
  <2>6. SameTimes'
    BY SamePublicSince, PTL
  <2>. QED BY <1>1, <2>5, <2>6 DEF SameTimes
<1>8. new[p] = [rev |-> releases[r].rev,
                since |-> IF p \in DOMAIN LedgerProjection THEN LedgerProjection[p].since
                          ELSE releases[r].activationAt]
  BY DEF WithApproved
<1>9. ASSUME NEW q \in DOMAIN LedgerProjection, q # p
      PROVE  LedgerProjection'[q] = new[q]
  <2>1. PICK s \in L!InState({"published"}) : releases[s].post = q
    BY ProjectionDomain
  <2>2. s \in L!InState({"published"})' /\ releases'[s].post = q /\ releases'[s].rev = releases[s].rev
    BY <1>1, <1>9, <2>1 DEF L!InState
  <2>3. LedgerProjection'[q] = [rev |-> releases[s].rev, since |-> L!PublicSince(q)']
    BY <1>3, <2>2 DEF LedgerKept, Projects
  <2>4. LedgerProjection[q] = [rev |-> releases[s].rev, since |-> L!PublicSince(q)]
    BY <2>1, ProjectionAt DEF LedgerKept
  <2>5. new[q] = LedgerProjection[q]
    BY <1>9 DEF WithApproved
  <2>. QED BY <2>3, <2>4, <2>5, TimesKept
<1>10. LedgerProjection'[p] = new[p]
  BY <1>5, <1>6, <1>7, <1>8
<1>11. DOMAIN new = DOMAIN LedgerProjection \cup {p}
  BY DEF WithApproved
<1>12. new = [q \in DOMAIN new |-> new[q]]
  BY DEF WithApproved
<1>13. LedgerProjection' = [q \in DOMAIN LedgerProjection' |-> LedgerProjection'[q]]
  BY DEF LedgerProjection
<1>. HIDE DEF new
<1>14. \A q \in DOMAIN new : LedgerProjection'[q] = new[q]
  BY <1>9, <1>10, <1>11
<1>15. LedgerProjection' = new
  BY <1>2, <1>11, <1>12, <1>13, <1>14, SameFunction
<1>. QED BY <1>0, <1>15 DEF new

-----------------------------------------------------------------------------
(* Every step of the coordinator is a ledger step or leaves the ledger alone. *)

LEMMA Alive ==
  ASSUME Typed, Accepts
  PROVE  phase \in {"ready", "draining"} /\ memory \in Memory /\ inflight = None
BY DEF Typed, Accepts

LEMMA ApprovalTyped ==
  ASSUME NEW row \in L!Release
  PROVE  row.tree \in Trees /\ row.post \in Posts /\ row.rev \in Revisions
BY DEF L!Release

LEMMA DigestsHeld ==
  ASSUME LP!IInv
  PROVE  /\ head # L!NoHead => head.digest \in Digests
         /\ \A r \in L!InState({"activating"}) :
              r \in Releases /\ releases[r] \in L!Release /\ releases[r].candidate \in Digests
                /\ releases[r].activationAt \in Times
<1>1. head # L!NoHead => head.digest \in Digests
  BY LedgerFacts DEF L!HeadIsLatest, L!TypeOK
<1>2. ASSUME NEW r \in L!InState({"activating"})
      PROVE  r \in Releases /\ releases[r] \in L!Release /\ releases[r].candidate \in Digests
                /\ releases[r].activationAt \in Times
  <2>1. r \in Releases /\ releases[r] \in L!Release /\ releases[r].state = "activating"
    BY LedgerFacts DEF L!InState, L!TypeOK
  <2>2. releases[r].candidate # NoDigest /\ releases[r].activationAt # L!NoTime
    BY <2>1, LedgerFacts DEF L!InState, L!RowsRehydrate
  <2>. QED BY <2>1, <2>2 DEF L!Release
<1>. QED BY <1>1, <1>2

LEMMA PublishNowStep ==
  ASSUME Typed, NEW r \in Releases, NEW p \in Posts, NEW rev \in Revisions, PublishNow(r, p, rev)
  PROVE  L!Next
<1>1. memory \in Memory /\ phase # "down" /\ memory.tree \in Trees
  BY Alive DEF PublishNow, Memory
<1>2. /\ <<p, rev>> \in PostsOf[memory.tree]
      /\ L!BeginPublishNow(r, p, rev, memory.tree, CurrentPreview(p, rev), memory.site, clock,
                           Candidate(memory.tree, p, rev, clock))
  BY DEF PublishNow, Publishable
<1>3. clock \in Times
  BY DEF Typed
<1>4. /\ Candidate(memory.tree, p, rev, clock) \in Digests
      /\ CurrentPreview(p, rev) \in Previews
  BY <1>1, <1>3, CandidateTyped DEF CurrentPreview
<1>5. memory.site = head
  BY <1>2 DEF L!BeginPublishNow
<1>. QED BY <1>1, <1>2, <1>3, <1>4, <1>5 DEF L!Next, L!Approve

LEMMA ScheduleStep ==
  ASSUME Typed, NEW r \in Releases, NEW p \in Posts, NEW rev \in Revisions, NEW at \in Times,
         Schedule(r, p, rev, at)
  PROVE  L!Next
<1>1. memory \in Memory /\ phase # "down" /\ memory.tree \in Trees
  BY Alive DEF Schedule, Memory
<1>2. /\ <<p, rev>> \in PostsOf[memory.tree]
      /\ L!SchedulePublication(r, p, rev, memory.tree, CurrentPreview(p, rev), memory.site, clock, at)
  BY DEF Schedule, Publishable
<1>3. clock \in Times
  BY DEF Typed
<1>4. CurrentPreview(p, rev) \in Previews
  BY <1>1, <1>3, CandidateTyped DEF CurrentPreview
<1>5. memory.site = head
  BY <1>2 DEF L!SchedulePublication
<1>. QED BY <1>1, <1>2, <1>3, <1>4, <1>5 DEF L!Next, L!Approve

LEMMA ChangeReleaseStep ==
  ASSUME Typed, NEW r \in DOMAIN releases, ChangeRelease(r)
  PROVE  L!Next
<1>1. clock \in Times
  BY DEF Typed
<1>. QED BY <1>1 DEF ChangeRelease, L!Next, L!Change

LEMMA RetryReleaseStep ==
  ASSUME LP!IInv, Typed, NEW r \in DOMAIN releases, RetryRelease(r)
  PROVE  L!Next
<1>1. memory \in Memory /\ phase # "down" /\ clock \in Times
  BY Alive DEF RetryRelease, Typed
<1>2. releases[r] \in L!Release
  BY LedgerFacts DEF L!TypeOK
<1>3. ApprovedCandidate(releases[r], clock) \in Digests
  BY <1>1, <1>2, ApprovalTyped, CandidateTyped DEF ApprovedCandidate
<1>4. PICK op \in Operations :
        L!BeginRetry(op, r, releases[r].version, memory.site, clock,
                     ApprovedCandidate(releases[r], clock))
  BY DEF RetryRelease
<1>5. memory.site = head
  BY <1>4 DEF L!BeginRetry, L!ClaimActivation
<1>. QED BY <1>1, <1>3, <1>4, <1>5 DEF L!Next, L!Activate

LEMMA ActivateScheduledStep ==
  ASSUME Typed, ActivateScheduled
  PROVE  L!Next
<1>. DEFINE r == picked.release
            approval == memory.scheduled[r]
<1>1. memory \in Memory /\ phase # "down" /\ picked \in Picks
  BY Alive DEF ActivateScheduled, Delivered, Typed
<1>2. r \in DOMAIN memory.scheduled /\ picked.now \in Times /\ memory.scheduled \in ScheduledTables
  BY <1>1 DEF ActivateScheduled, Picks, Memory
<1>3. approval \in L!Release
  BY <1>2, TablesOf
<1>4. ApprovedCandidate(approval, picked.now) \in Digests
  BY <1>1, <1>2, <1>3, ApprovalTyped, CandidateTyped DEF ApprovedCandidate
<1>5. L!BeginDueActivation(r, approval.version, memory.site, picked.now,
                          ApprovedCandidate(approval, picked.now))
  BY DEF ActivateScheduled
<1>6. memory.site = head /\ approval.version = releases[r].version /\ r \in DOMAIN releases
  BY <1>5 DEF L!BeginDueActivation, L!ClaimActivation, L!InState
<1>. QED BY <1>2, <1>4, <1>5, <1>6 DEF L!Next, L!Activate

LEMMA BlockScheduledStep ==
  ASSUME Typed, BlockScheduled
  PROVE  L!Next
<1>. DEFINE r == picked.release
            approval == memory.scheduled[r]
<1>1. picked.now \in Times
  BY DEF BlockScheduled, Delivered, Typed, Picks
<1>2. L!BlockScheduled(r, approval.version, picked.now)
  BY DEF BlockScheduled
<1>3. approval.version = releases[r].version /\ r \in DOMAIN releases
  BY <1>2 DEF L!BlockScheduled, L!InState
<1>. QED BY <1>1, <1>2, <1>3 DEF L!Next, L!Activate

LEMMA FinishStep ==
  ASSUME FinishPublication
  PROVE  L!Next
<1>. DEFINE r == inflight.release
<1>1. L!FinishActivation(r, releases[r].version, memory.site, releases[r].candidate)
  BY DEF FinishPublication
<1>2. r \in DOMAIN releases /\ head = memory.site
  BY <1>1 DEF L!FinishActivation, L!InState
<1>. QED BY <1>1, <1>2 DEF L!Next, L!Activate

LEMMA StartStep ==
  ASSUME LP!IInv, Typed, NEW tree \in Trees, Start(tree)
  PROVE  L!Next
<1>. DEFINE digest == IF head = L!NoHead
                        THEN [settings |-> SettingsOf[tree], posts |-> LedgerProjection]
                        ELSE head.digest
<1>1. digest \in Digests
  BY DigestsHeld, ProjectionTyped, CoordinatorConstants DEF Digests
<1>2. L!InstallStartup(head, digest, PostsOf[tree])
  BY DEF Start
<1>. QED BY <1>1, <1>2 DEF L!Next, L!Index

LEMMA StepOfLedger ==
  ASSUME LP!IInv, Typed, [Next]_vars
  PROVE  [L!Next]_ledger
<1>1. CASE UNCHANGED vars
  BY <1>1 DEF vars
<1>2. CASE Command
  <2>1. ASSUME NEW recipient \in Tips, ChangeTip(recipient)  PROVE UNCHANGED ledger
    BY <2>1 DEF ChangeTip
  <2>2. ASSUME NEW tree \in Trees, ApplyContentCatalog(tree)  PROVE L!Next
    BY <2>2 DEF ApplyContentCatalog, L!Next, L!Index
  <2>. QED BY <1>2, <2>1, <2>2, PublishNowStep, ScheduleStep, ChangeReleaseStep, RetryReleaseStep
           DEF Command
<1>3. CASE Deliver
  BY <1>3, ActivateScheduledStep, BlockScheduledStep DEF Deliver, DropStalePick, SchedulerFails
<1>4. CASE Activate
  BY <1>4, FinishStep DEF Activate, ActivateSnapshot, ActivationConflict, FinishRefused
<1>5. CASE Startup
  BY <1>5, StartStep DEF Startup
<1>6. CASE PickDue \/ Shutdown \/ Exit \/ Crash \/ Tick
  BY <1>6 DEF PickDue, Shutdown, Exit, Crash, Tick
<1>7. CASE \E tree \in Trees : RetainTree(tree)
  BY <1>7 DEF RetainTree
<1>. QED BY <1>1, <1>2, <1>3, <1>4, <1>5, <1>6, <1>7 DEF Next

-----------------------------------------------------------------------------
(* Types. *)

LEMMA TablesTyped == LP!IInv => L!TypeOK
BY LedgerFacts

(* A process that fails closed dies while it starts and drains otherwise. *)
LEMMA Fails ==
  ASSUME NEW queued, FailClosed(queued)
  PROVE  /\ inflight' = None /\ picked' \in {picked, None} /\ served' = served
         /\ phase = "recovering" => phase' = "down" /\ memory' = None /\ picked' = None
         /\ phase # "recovering" => phase' = "draining" /\ memory' = memory /\ picked' = picked
BY DEF FailClosed, Down

LEMMA FieldsOf ==
  ASSUME NEW m \in Memory
  PROVE  /\ m.tree \in Trees /\ m.revisions \subseteq Posts \X Revisions
         /\ m.candidates \subseteq Trees /\ m.public \in PublicPosts /\ m.site \in L!Head
         /\ m.scheduled \in ScheduledTables /\ m.tip \in Tips
         /\ m.snapshot.digest \in Digests /\ m.snapshot.tip \in Tips
BY DEF Memory

LEMMA DigestPosts ==
  ASSUME NEW d \in Digests
  PROVE  d.posts \in PublicPosts /\ d.settings \in Settings
BY DEF Digests

(* A command that only touches what is scheduled. *)
LEMMA ScheduledPut ==
  ASSUME memory \in Memory, NEW table \in ScheduledTables,
         memory' = [memory EXCEPT !.scheduled = table]
  PROVE  /\ memory' \in Memory /\ memory'.scheduled = table
         /\ memory'.tree = memory.tree /\ memory'.revisions = memory.revisions
         /\ memory'.candidates = memory.candidates /\ memory'.public = memory.public
         /\ memory'.site = memory.site /\ memory'.tip = memory.tip
         /\ memory'.snapshot = memory.snapshot
<1>1. memory' \in Memory
  BY DEF Memory
<1>. QED BY <1>1 DEF Memory

LEMMA NothingBegun == None \notin Inflight /\ None \notin Picks
BY NoCommand DEF Inflight, Picks

LEMMA BegunTyped ==
  ASSUME NEW r \in Releases, Begun(r)
  PROVE  inflight' \in Inflight /\ inflight' # None /\ inflight'.release = r /\ ~inflight'.swapped
<1>1. inflight' = [release |-> r, swapped |-> FALSE]
  BY DEF Begun
<1>2. inflight' \in Inflight
  BY <1>1 DEF Inflight
<1>. QED BY <1>1, <1>2, NothingBegun

LEMMA InflightIs ==
  ASSUME Typed, inflight # None
  PROVE  inflight.release \in Releases /\ inflight.swapped \in BOOLEAN
           /\ inflight = [release |-> inflight.release, swapped |-> inflight.swapped]
BY DEF Typed, Inflight

LEMMA PublishNowTyped ==
  ASSUME Typed, NEW r \in Releases, NEW p, NEW rev, PublishNow(r, p, rev)
  PROVE  Typed'
BY BegunTyped DEF PublishNow, Typed

(* The tables the three commands on scheduled releases write. *)
LEMMA PutTable ==
  ASSUME NEW t \in ScheduledTables, NEW r \in Releases, NEW row \in L!Release
  PROVE  /\ L!Put(t, r, row) \in ScheduledTables
         /\ DOMAIN L!Put(t, r, row) = DOMAIN t \cup {r}
         /\ L!Put(t, r, row)[r] = row
         /\ \A s \in DOMAIN t : s # r => L!Put(t, r, row)[s] = t[s]
<1>1. \A s \in DOMAIN t \cup {r} : L!Put(t, r, row)[s] \in L!Release /\ s \in Releases
  BY TablesOf DEF L!Put
<1>. QED BY <1>1, IsTable DEF L!Put

LEMMA DropTable ==
  ASSUME NEW t \in ScheduledTables, NEW r
  PROVE  [s \in DOMAIN t \ {r} |-> t[s]] \in ScheduledTables
<1>. DEFINE u == [s \in DOMAIN t \ {r} |-> t[s]]
<1>1. u = [s \in DOMAIN u |-> u[s]] /\ DOMAIN u \subseteq Releases /\ \A s \in DOMAIN u : u[s] \in L!Release
  BY TablesOf
<1>. HIDE DEF u
<1>2. u \in ScheduledTables
  BY <1>1, IsTable
<1>. QED BY <1>2 DEF u

LEMMA ScheduleTyped ==
  ASSUME Typed, LP!IInv', NEW r \in Releases, NEW p, NEW rev, NEW at, Schedule(r, p, rev, at)
  PROVE  /\ Typed'
         /\ memory' \in Memory /\ memory'.scheduled = L!Put(memory.scheduled, r, releases'[r])
         /\ memory'.public = memory.public /\ memory'.site = memory.site
         /\ memory'.tip = memory.tip /\ memory'.snapshot = memory.snapshot
         /\ memory'.tree = memory.tree /\ memory'.revisions = memory.revisions
<1>1. memory \in Memory /\ phase # "down"
  BY Alive DEF Schedule
<1>2. r \in DOMAIN releases'
  BY DEF Schedule, L!SchedulePublication, L!Put
<1>3. releases'[r] \in L!Release
  <2>1. LP!IInv' => L!TypeOK'
    BY TablesTyped, PTL
  <2>. QED BY <1>2, <2>1 DEF L!TypeOK
<1>4. L!Put(memory.scheduled, r, releases'[r]) \in ScheduledTables
  BY <1>1, <1>3, FieldsOf, PutTable
<1>5. memory' = [memory EXCEPT !.scheduled = L!Put(memory.scheduled, r, releases'[r])]
  BY <1>1 DEF Schedule, Memory
<1>6. /\ memory' \in Memory /\ memory'.scheduled = L!Put(memory.scheduled, r, releases'[r])
      /\ memory'.public = memory.public /\ memory'.site = memory.site
      /\ memory'.tip = memory.tip /\ memory'.snapshot = memory.snapshot
         /\ memory'.tree = memory.tree /\ memory'.revisions = memory.revisions
  BY <1>1, <1>4, <1>5, ScheduledPut
<1>. QED BY <1>1, <1>6 DEF Schedule, Typed

LEMMA ChangeReleaseTyped ==
  ASSUME Typed, LP!IInv', NEW r \in DOMAIN releases, r \in Releases, ChangeRelease(r)
  PROVE  /\ Typed'
         /\ memory' \in Memory
         /\ memory'.scheduled =
              [s \in (DOMAIN memory.scheduled \ {r}) \cup ({r} \cap L!InState({"scheduled"})') |->
                 IF s = r THEN releases'[r] ELSE memory.scheduled[s]]
         /\ memory'.public = memory.public /\ memory'.site = memory.site
         /\ memory'.tip = memory.tip /\ memory'.snapshot = memory.snapshot
         /\ memory'.tree = memory.tree /\ memory'.revisions = memory.revisions
<1>. DEFINE t == memory.scheduled
            u == [s \in (DOMAIN t \ {r}) \cup ({r} \cap L!InState({"scheduled"})') |->
                    IF s = r THEN releases'[r] ELSE t[s]]
<1>1. memory \in Memory /\ phase # "down" /\ t \in ScheduledTables
  BY Alive, FieldsOf DEF ChangeRelease
<1>2. LP!IInv' => L!TypeOK'
  BY TablesTyped, PTL
<1>3. r \in L!InState({"scheduled"})' => releases'[r] \in L!Release
  BY <1>2 DEF L!TypeOK, L!InState
<1>4. u \in ScheduledTables
  <2>1. DOMAIN u \subseteq Releases /\ u = [s \in DOMAIN u |-> u[s]]
    BY <1>1, TablesOf
  <2>2. \A s \in DOMAIN u : u[s] \in L!Release
    BY <1>1, <1>3, TablesOf
  <2>. HIDE DEF u
  <2>. QED BY <2>1, <2>2, IsTable
<1>5. memory' = [memory EXCEPT !.scheduled = u]
  BY <1>1 DEF ChangeRelease, Memory
<1>. HIDE DEF u
<1>6. /\ memory' \in Memory /\ memory'.scheduled = u
      /\ memory'.public = memory.public /\ memory'.site = memory.site
      /\ memory'.tip = memory.tip /\ memory'.snapshot = memory.snapshot
         /\ memory'.tree = memory.tree /\ memory'.revisions = memory.revisions
  BY <1>1, <1>4, <1>5, ScheduledPut
<1>. QED BY <1>1, <1>6 DEF ChangeRelease, Typed, u

LEMMA RetryReleaseTyped ==
  ASSUME Typed, NEW r \in Releases, RetryRelease(r)
  PROVE  Typed'
BY BegunTyped DEF RetryRelease, Activates, Typed

(* The snapshot a change of tips renders. *)
LEMMA ChangeTipTyped ==
  ASSUME Typed, NEW recipient \in Tips, ChangeTip(recipient)
  PROVE  /\ Typed'
         /\ \/ /\ memory' \in Memory /\ memory'.scheduled = memory.scheduled
               /\ memory'.public = memory.public /\ memory'.site = memory.site
               /\ memory'.tip = recipient /\ memory'.snapshot.tip = recipient
               /\ memory'.snapshot.digest.posts = memory.public
               /\ memory'.tree = memory.tree /\ memory'.revisions = memory.revisions
               /\ memory'.snapshot.digest.settings = SettingsOf[memory.tree]
               /\ memory.snapshot.digest = memory.site.digest
               /\ served' = memory.public /\ UNCHANGED <<phase, inflight, picked>>
            \/ /\ phase' = "draining" /\ UNCHANGED <<memory, picked, served>>
               /\ inflight' = None
<1>. DEFINE refreshed == Snapshot(SettingsOf[memory.tree], memory.public, recipient)
<1>1. memory \in Memory /\ phase \in {"ready", "draining"} /\ inflight = None
  BY Alive DEF ChangeTip
<1>2. CASE Renders(memory.revisions, memory.public) /\ memory.snapshot.digest = memory.site.digest
  <2>1. /\ memory' = [memory EXCEPT !.tip = recipient, !.snapshot = refreshed]
        /\ UNCHANGED <<phase, inflight, picked, retained, clock>> /\ Serve /\ tip' = recipient
    BY <1>2 DEF ChangeTip
  <2>2. /\ refreshed \in [digest : Digests, tip : Tips]
        /\ refreshed.digest.posts = memory.public /\ refreshed.tip = recipient
        /\ refreshed.digest.settings = SettingsOf[memory.tree]
    BY <1>1, FieldsOf, CoordinatorConstants DEF Snapshot, Digests
  <2>. HIDE DEF refreshed
  <2>3. /\ memory' \in Memory /\ memory'.scheduled = memory.scheduled
        /\ memory'.public = memory.public /\ memory'.site = memory.site
        /\ memory'.tip = recipient /\ memory'.snapshot = refreshed
        /\ memory'.tree = memory.tree /\ memory'.revisions = memory.revisions
    <3>1. memory' \in Memory
      BY <1>1, <2>1, <2>2 DEF Memory
    <3>. QED BY <1>1, <2>1, <3>1 DEF Memory
  <2>4. served' = memory.public
    BY <1>1, <2>1, <2>2, <2>3 DEF Serve
  <2>5. memory.public \in PublicPosts
    BY <1>1, FieldsOf
  <2>. QED BY <1>1, <1>2, <2>1, <2>2, <2>3, <2>4, <2>5 DEF Typed
<1>3. CASE ~(Renders(memory.revisions, memory.public) /\ memory.snapshot.digest = memory.site.digest)
  <2>1. FailClosed(Left) /\ UNCHANGED <<retained, clock>> /\ tip' = recipient
    BY <1>3 DEF ChangeTip
  <2>2. /\ inflight' = None /\ picked' = picked /\ served' = served
        /\ phase' = "draining" /\ memory' = memory
    BY <1>1, <2>1, Fails
  <2>. QED BY <1>1, <2>1, <2>2 DEF Typed
<1>. QED BY <1>2, <1>3

LEMMA ApplyContentCatalogTyped ==
  ASSUME Typed, NEW tree \in Trees, ApplyContentCatalog(tree)
  PROVE  /\ Typed'
         /\ memory' \in Memory /\ memory'.scheduled = memory.scheduled
         /\ memory'.public = memory.public /\ memory'.site = memory.site
         /\ memory'.tip = memory.tip /\ memory'.snapshot = memory.snapshot
         /\ memory'.tree = tree /\ memory'.revisions = PostsOf[tree] \cup RetainedPins
<1>1. memory \in Memory /\ phase # "down" /\ inflight = None
  BY Alive DEF ApplyContentCatalog
<1>2. memory' = [memory EXCEPT !.tree = tree, !.revisions = PostsOf[tree] \cup RetainedPins,
                               !.candidates = @ \cup {tree}]
  BY DEF ApplyContentCatalog
<1>3. PostsOf[tree] \cup RetainedPins \subseteq Posts \X Revisions
  <2>1. Keys(memory.public) \subseteq Posts \X Revisions
    BY <1>1, FieldsOf, PostsTyped DEF Keys
  <2>2. Pins(memory.scheduled) \subseteq Posts \X Revisions
    BY <1>1, FieldsOf, TablesOf, ApprovalTyped DEF Pins
  <2>. QED BY <2>1, <2>2, CoordinatorConstants DEF RetainedPins
<1>4. memory' \in Memory
  BY <1>1, <1>2, <1>3 DEF Memory
<1>5. /\ memory'.scheduled = memory.scheduled
      /\ memory'.public = memory.public /\ memory'.site = memory.site
      /\ memory'.tip = memory.tip /\ memory'.snapshot = memory.snapshot
         /\ memory'.tree = tree /\ memory'.revisions = PostsOf[tree] \cup RetainedPins
  BY <1>1, <1>2 DEF Memory
<1>. QED BY <1>1, <1>4, <1>5 DEF ApplyContentCatalog, Typed

LEMMA PickDueTyped ==
  ASSUME Typed, LP!IInv, PickDue
  PROVE  /\ Typed' /\ phase = "ready" /\ picked' \in Picks /\ picked'.now = clock
<1>1. PICK r \in L!InState({"scheduled"}) : picked' = [release |-> r, now |-> clock]
  BY DEF PickDue
<1>2. r \in Releases /\ clock \in Times
  BY LedgerFacts DEF L!InState, L!TypeOK, Typed
<1>3. picked' \in Picks /\ picked'.now = clock
  BY <1>1, <1>2 DEF Picks
<1>. QED BY <1>3 DEF PickDue, Typed

LEMMA ActivateScheduledTyped ==
  ASSUME Typed, ActivateScheduled
  PROVE  Typed'
<1>1. picked.release \in Releases
  BY DEF ActivateScheduled, Delivered, Typed, Picks
<1>2. Begun(picked.release)
  BY DEF ActivateScheduled, Activates
<1>3. inflight' \in Inflight
  BY <1>1, <1>2, BegunTyped
<1>4. UNCHANGED <<retained, tip, clock, served, phase, memory>> /\ picked' = None
  BY DEF ActivateScheduled, Delivered
<1>. QED BY <1>3, <1>4 DEF Typed

LEMMA BlockScheduledTyped ==
  ASSUME Typed, BlockScheduled
  PROVE  /\ Typed'
         /\ memory' \in Memory
         /\ memory'.scheduled =
              [s \in DOMAIN memory.scheduled \ {picked.release} |-> memory.scheduled[s]]
         /\ memory'.public = memory.public /\ memory'.site = memory.site
         /\ memory'.tip = memory.tip /\ memory'.snapshot = memory.snapshot
         /\ memory'.tree = memory.tree /\ memory'.revisions = memory.revisions
<1>. DEFINE t == memory.scheduled
            u == [s \in DOMAIN t \ {picked.release} |-> t[s]]
<1>1. memory \in Memory /\ phase # "down" /\ t \in ScheduledTables
  BY Alive, FieldsOf DEF BlockScheduled, Delivered
<1>2. u \in ScheduledTables
  BY <1>1, DropTable
<1>3. memory' = [memory EXCEPT !.scheduled = u]
  BY <1>1 DEF BlockScheduled, Memory
<1>. HIDE DEF u
<1>4. /\ memory' \in Memory /\ memory'.scheduled = u
      /\ memory'.public = memory.public /\ memory'.site = memory.site
      /\ memory'.tip = memory.tip /\ memory'.snapshot = memory.snapshot
         /\ memory'.tree = memory.tree /\ memory'.revisions = memory.revisions
  BY <1>1, <1>2, <1>3, ScheduledPut
<1>. QED BY <1>1, <1>4 DEF BlockScheduled, Delivered, Typed, u

LEMMA AnsweredTyped ==
  ASSUME Typed, DropStalePick \/ SchedulerFails
  PROVE  /\ Typed' /\ UNCHANGED <<ledger, clock, tip, memory, inflight, served>> /\ picked' = None
         /\ phase' \in {phase, "draining"} /\ phase \in {"ready", "draining"} /\ inflight = None
<1>1. UNCHANGED <<ledger, clock, tip, memory, inflight, served, retained>> /\ picked' = None
  BY DEF DropStalePick, SchedulerFails, Delivered
<1>2. phase' \in {phase, "draining"} /\ phase \in {"ready", "draining"} /\ inflight = None
  BY Alive DEF DropStalePick, SchedulerFails, Delivered
<1>. QED BY <1>1, <1>2 DEF Typed

(* Whatever ends a command or the process leaves the caches it found. *)
LEMMA StopTyped ==
  ASSUME Typed, Posted, ActivationConflict \/ FinishRefused \/ Exit \/ Crash
  PROVE  /\ Typed' /\ UNCHANGED <<ledger, clock, tip, served>> /\ inflight' = None
         /\ picked' \in {picked, None}
         /\ \/ phase' = "draining" /\ phase \notin {"down", "recovering"} /\ memory' = memory
            \/ phase' = "down" /\ memory' = None /\ picked' = None
<1>1. CASE ActivationConflict \/ FinishRefused
  <2>1. FailClosed(backlog) /\ UNCHANGED <<ledger, retained, tip, clock>> /\ phase # "down"
    BY <1>1 DEF ActivationConflict, FinishRefused, Typed, Posted
  <2>. QED BY <2>1, Fails DEF Typed
<1>2. CASE Exit \/ Crash
  <2>1. Down /\ UNCHANGED <<ledger, retained, tip, clock>>
    BY <1>2 DEF Exit, Crash
  <2>. QED BY <2>1 DEF Down, Typed
<1>. QED BY <1>1, <1>2

LEMMA ActivateSnapshotTyped ==
  ASSUME Typed, Posted, LP!IInv, ActivateSnapshot
  PROVE  /\ Typed' /\ UNCHANGED <<ledger, clock, tip, phase, picked>>
         /\ inflight # None /\ phase # "down"
         /\ inflight' \in Inflight /\ inflight' # None /\ inflight'.release = inflight.release
         /\ memory' \in Memory /\ memory'.scheduled = memory.scheduled
         /\ memory'.public = memory.public /\ memory'.site = memory.site
         /\ memory'.tip = memory.tip /\ memory'.snapshot.tip = memory.tip
         /\ memory'.tree = memory.tree /\ memory'.revisions = memory.revisions
         /\ memory'.snapshot.digest = releases[inflight.release].candidate
         /\ phase = "recovering" => RoutesStillFree
         /\ served' = IF phase \in {"ready", "draining"}
                        THEN releases[inflight.release].candidate.posts ELSE served
<1>0. PICK candidate : candidate = releases[inflight.release].candidate
  OBVIOUS
<1>1. /\ inflight # None /\ phase # "down" /\ memory \in Memory
      /\ inflight.release \in L!InState({"activating"})
  BY DEF ActivateSnapshot, Posted, Typed, Interrupted
<1>2. candidate \in Digests
  BY <1>0, <1>1, DigestsHeld
<1>3. /\ memory' = [memory EXCEPT !.snapshot = [digest |-> candidate, tip |-> memory.tip]]
      /\ inflight' = [inflight EXCEPT !.swapped = TRUE]
      /\ UNCHANGED <<ledger, retained, tip, clock, phase, picked>> /\ Serve
      /\ phase = "recovering" => RoutesStillFree
  BY <1>0 DEF ActivateSnapshot
<1>4. /\ inflight' \in Inflight /\ inflight'.release = inflight.release
  BY <1>1, <1>3, InflightIs DEF Inflight
<1>5. memory' \in Memory
  BY <1>1, <1>2, <1>3 DEF Memory
<1>6. /\ memory'.scheduled = memory.scheduled
      /\ memory'.public = memory.public /\ memory'.site = memory.site
      /\ memory'.tip = memory.tip /\ memory'.snapshot.tip = memory.tip
         /\ memory'.tree = memory.tree /\ memory'.revisions = memory.revisions
      /\ memory'.snapshot.digest = candidate
  BY <1>1, <1>3 DEF Memory
<1>7. served' = IF phase \in {"ready", "draining"} THEN candidate.posts ELSE served
  BY <1>3, <1>6 DEF Serve
<1>8. candidate.posts \in PublicPosts
  BY <1>2, DigestPosts
<1>9. Typed'
  BY <1>1, <1>3, <1>4, <1>5, <1>7, <1>8 DEF Typed
<1>. QED BY <1>0, <1>1, <1>3, <1>4, <1>5, <1>6, <1>7, <1>9, NothingBegun

LEMMA FinishTyped ==
  ASSUME Typed, Posted, LP!IInv, LP!IInv', FinishPublication
  PROVE  /\ Typed' /\ UNCHANGED <<clock, tip, picked>> /\ inflight' = None
         /\ phase' \in {"ready", "draining"} /\ phase # "down" /\ (phase = "draining" => phase' = "draining")
         /\ memory' \in Memory
         /\ memory'.scheduled =
              [s \in DOMAIN memory.scheduled \ {inflight.release} |-> memory.scheduled[s]]
         /\ memory'.public = releases[inflight.release].candidate.posts /\ memory'.site = head'
         /\ memory'.tip = memory.tip /\ memory'.snapshot = memory.snapshot
         /\ memory'.tree = memory.tree /\ memory'.revisions = memory.revisions
         /\ served' = memory.snapshot.digest.posts
<1>. DEFINE t == memory.scheduled
            u == [s \in DOMAIN t \ {inflight.release} |-> t[s]]
<1>0. PICK posts : posts = releases[inflight.release].candidate.posts
  OBVIOUS
<1>1. /\ inflight # None /\ phase # "down" /\ memory \in Memory
      /\ inflight.release \in L!InState({"activating"})
  BY DEF FinishPublication, Posted, Typed, Interrupted
<1>2. posts \in PublicPosts
  BY <1>0, <1>1, DigestsHeld, DigestPosts
<1>3. head' \in L!Head
  <2>1. LP!IInv' => L!TypeOK'
    BY TablesTyped, PTL
  <2>2. L!TypeOK' => head' \in L!Head
    BY DEF L!TypeOK, L!Head
  <2>. QED BY <2>1, <2>2
<1>4. t \in ScheduledTables /\ u \in ScheduledTables
  BY <1>1, FieldsOf, DropTable
<1>5. /\ memory' = [memory EXCEPT !.public = posts, !.site = head', !.scheduled = u]
      /\ phase' = IF phase = "recovering" THEN "ready" ELSE phase
      /\ inflight' = None /\ Serve
      /\ UNCHANGED <<retained, tip, clock, picked>>
  BY <1>0, <1>1 DEF FinishPublication, Memory
<1>. HIDE DEF u
<1>6. memory' \in Memory
  BY <1>1, <1>2, <1>3, <1>4, <1>5 DEF Memory
<1>7. /\ memory'.scheduled = u /\ memory'.public = posts /\ memory'.site = head'
      /\ memory'.tip = memory.tip /\ memory'.snapshot = memory.snapshot
         /\ memory'.tree = memory.tree /\ memory'.revisions = memory.revisions
  BY <1>1, <1>5 DEF Memory
<1>8. phase' \in {"ready", "draining"} /\ (phase = "draining" => phase' = "draining")
  BY <1>1, <1>5 DEF Typed
<1>9. served' = memory.snapshot.digest.posts
  BY <1>5, <1>7, <1>8 DEF Serve
<1>10. memory.snapshot.digest.posts \in PublicPosts
  BY <1>1, FieldsOf, DigestPosts
<1>11. Typed'
  BY <1>5, <1>6, <1>8, <1>9, <1>10 DEF Typed
<1>. QED BY <1>0, <1>1, <1>5, <1>6, <1>7, <1>8, <1>9, <1>11 DEF u

LEMMA StartTyped ==
  ASSUME Typed, LP!IInv, LP!IInv', NEW tree \in Trees, Start(tree)
  PROVE  /\ Typed' /\ UNCHANGED <<releases, routes, clock, tip, picked>> /\ phase = "down"
         /\ memory' \in Memory /\ memory'.scheduled = Rows({"scheduled"})
         /\ memory'.public = LedgerProjection /\ memory'.site = head'
         /\ memory'.revisions = PostsOf[tree] \cup Pinned
         /\ memory'.tip = tip /\ memory'.snapshot.tip = tip /\ memory'.tree = tree
         /\ head # L!NoHead => memory'.snapshot.digest = head.digest
         /\ head = L!NoHead => memory'.snapshot.digest.posts = LedgerProjection
                            /\ memory'.snapshot.digest.settings = SettingsOf[tree]
         /\ L!InstallStartup(head, memory'.snapshot.digest, PostsOf[tree])
         /\ retained' = retained \cup {tree}
         /\ \/ phase' = "ready" /\ inflight' = None /\ Interrupted = {}
               /\ served' = memory'.snapshot.digest.posts
            \/ /\ phase' = "recovering" /\ inflight' # None /\ inflight'.release \in Interrupted
               /\ ~inflight'.swapped /\ served' = served
<1>0. PICK digest : digest = IF head = L!NoHead
                        THEN [settings |-> SettingsOf[tree], posts |-> LedgerProjection]
                        ELSE head.digest
  OBVIOUS
<1>1. digest \in Digests
  BY <1>0, DigestsHeld, ProjectionTyped, CoordinatorConstants DEF Digests
<1>2. /\ L!InstallStartup(head, digest, PostsOf[tree]) /\ retained' = retained \cup {tree}
      /\ memory' = [tree |-> tree, revisions |-> PostsOf[tree] \cup Pinned,
                candidates |-> retained', public |-> LedgerProjection, site |-> head',
                scheduled |-> Rows({"scheduled"}), tip |-> tip,
                snapshot |-> [digest |-> digest, tip |-> tip]]
      /\ phase = "down" /\ Serve /\ UNCHANGED <<tip, clock, picked>>
  BY <1>0 DEF Start
<1>3. head' \in L!Head
  <2>1. LP!IInv' => L!TypeOK'
    BY TablesTyped, PTL
  <2>2. L!TypeOK' => head' \in L!Head
    BY DEF L!TypeOK, L!Head
  <2>. QED BY <2>1, <2>2
<1>4. Rows({"scheduled"}) \in ScheduledTables
  <2>. DEFINE t == Rows({"scheduled"})
  <2>1. t = [r \in DOMAIN t |-> t[r]] /\ DOMAIN t \subseteq Releases /\ \A r \in DOMAIN t : t[r] \in L!Release
    BY LedgerFacts DEF Rows, L!InState, L!TypeOK
  <2>. HIDE DEF t
  <2>2. t \in ScheduledTables
    BY <2>1, IsTable
  <2>. QED BY <2>2 DEF t
<1>5. PostsOf[tree] \cup Pinned \subseteq Posts \X Revisions
  <2>1. Keys(LedgerProjection) \subseteq Posts \X Revisions
    BY ProjectionTyped, PostsTyped DEF Keys
  <2>2. Pins(Rows({"scheduled", "activating"})) \subseteq Posts \X Revisions
    <3>1. \A r \in DOMAIN releases : releases[r] \in L!Release
      BY LedgerFacts DEF L!TypeOK
    <3>2. \A r \in DOMAIN releases : releases[r].post \in Posts /\ releases[r].rev \in Revisions
      BY <3>1, ApprovalTyped
    <3>3. /\ DOMAIN Rows({"scheduled", "activating"}) \subseteq DOMAIN releases
          /\ \A r \in DOMAIN Rows({"scheduled", "activating"}) :
               Rows({"scheduled", "activating"})[r] = releases[r]
      BY DEF Rows, L!InState
    <3>. QED BY <3>2, <3>3 DEF Pins
  <2>. QED BY <2>1, <2>2, CoordinatorConstants DEF Pinned
<1>6. memory' \in Memory
  BY <1>1, <1>2, <1>3, <1>4, <1>5, ProjectionTyped DEF Memory, Typed
<1>7. /\ memory'.scheduled = Rows({"scheduled"})
      /\ memory'.public = LedgerProjection /\ memory'.site = head'
      /\ memory'.tip = tip /\ memory'.snapshot.tip = tip /\ memory'.tree = tree
      /\ memory'.snapshot.digest = digest
  BY <1>2
<1>8. \/ phase' = "ready" /\ inflight' = None /\ Interrupted = {}
      \/ phase' = "recovering" /\ \E r \in Interrupted : Begun(r)
  BY DEF Start, Interrupted
<1>9. \/ phase' = "ready" /\ inflight' = None /\ Interrupted = {}
      \/ /\ phase' = "recovering" /\ inflight' # None /\ inflight'.release \in Interrupted
         /\ ~inflight'.swapped /\ inflight' \in Inflight
  <2>1. Interrupted \subseteq Releases
    BY LedgerFacts DEF Interrupted, L!InState, L!TypeOK
  <2>. QED BY <1>8, <2>1, BegunTyped
<1>10. \/ phase' = "ready" /\ served' = memory'.snapshot.digest.posts
       \/ phase' = "recovering" /\ served' = served
  BY <1>2, <1>9 DEF Serve
<1>11. digest.posts \in PublicPosts
  BY <1>1, DigestPosts
<1>12. Typed'
  BY <1>2, <1>6, <1>7, <1>9, <1>10, <1>11 DEF Typed
<1>13. UNCHANGED <<releases, routes>>
  BY <1>2 DEF L!InstallStartup
<1>. QED BY <1>0, <1>2, <1>6, <1>7, <1>9, <1>10, <1>12, <1>13

-----------------------------------------------------------------------------
(* Steps that leave the ledger alone. *)

(* What the invariant says of the ledger alone does not notice them. *)
LEMMA QuietKeeps ==
  ASSUME UNCHANGED <<releases, routes, sites, head>>
  PROVE  /\ LedgerProjection' = LedgerProjection /\ Interrupted' = Interrupted
         /\ \A S : L!InState(S)' = L!InState(S)
         /\ Claims => Claims'
         /\ Retains => Retains'
         /\ (inflight # None /\ inflight'.release = inflight.release /\ RoutesStillFree) => RoutesStillFree'
<1>1. LedgerProjection' = LedgerProjection
  BY ProjectionUnchanged
<1>2. /\ Interrupted' = Interrupted /\ \A S : L!InState(S)' = L!InState(S)
      /\ L!Successful' = L!Successful
  BY DEF Interrupted, L!InState, L!Successful
<1>3. Claims => Claims'
  BY <1>1, <1>2 DEF Claims, WithApproved
<1>4. Retains => Retains'
  BY <1>1, <1>2 DEF Retains, L!NoHead
<1>5. (inflight # None /\ inflight'.release = inflight.release /\ RoutesStillFree) => RoutesStillFree'
  BY DEF RoutesStillFree, L!RoutesAvailable
<1>. QED BY <1>1, <1>2, <1>3, <1>4, <1>5

(* Steps that write nothing of the ledger the coordinator reads, and at most *)
(* give up an activation in flight.                                          *)
LEMMA IdleKeeps ==
  ASSUME Inv, UNCHANGED <<releases, routes, sites, head>>, Typed',
         phase' # "down", phase # "down", phase' \in {phase, "draining"},
         inflight' \in {inflight, None}, phase' # "draining" => inflight' = inflight,
         phase = "recovering" => phase' = "recovering",
         memory'.scheduled = memory.scheduled, memory'.public = memory.public,
         memory'.site = memory.site,
         phase' # "draining" => memory'.tip = tip' /\ memory'.snapshot.tip = tip',
         served' \in {served, LedgerProjection},
         served = memory.snapshot.digest.posts => served' = memory'.snapshot.digest.posts,
         inflight' # None => memory'.snapshot = memory.snapshot
  PROVE  Inv'
<1>1. /\ LedgerProjection' = LedgerProjection /\ Interrupted' = Interrupted
      /\ \A S : L!InState(S)' = L!InState(S)
      /\ Claims' /\ Retains'
      /\ (inflight # None /\ inflight'.release = inflight.release /\ RoutesStillFree) => RoutesStillFree'
  BY QuietKeeps DEF Inv
<1>2. Posted'
  BY <1>1 DEF Inv, Posted, Typed
<1>3. Coherent'
  BY <1>1 DEF Inv, Coherent, Typed
<1>4. Free'
  BY <1>1 DEF Inv, Free, Typed
<1>5. Shows'
  BY <1>1 DEF Inv, Shows, Typed
<1>. QED BY <1>1, <1>2, <1>3, <1>4, <1>5 DEF Inv

LEMMA ChangeTipSafe ==
  ASSUME LP!IInv, Inv, NEW recipient \in Tips, ChangeTip(recipient)
  PROVE  Inv'
<1>1. UNCHANGED ledger /\ tip' = recipient /\ inflight = None /\ phase \in {"ready", "draining"}
  BY Alive DEF ChangeTip, Inv
<1>2. memory.public = LedgerProjection
  BY <1>1 DEF Inv, Coherent
<1>3. Typed
  BY DEF Inv
<1>. QED BY <1>1, <1>2, <1>3, ChangeTipTyped, IdleKeeps DEF ledger

LEMMA ApplyContentCatalogSafe ==
  ASSUME Inv, NEW tree \in Trees, ApplyContentCatalog(tree)
  PROVE  Inv'
<1>1. Typed /\ inflight = None /\ phase \in {"ready", "draining"}
  BY Alive DEF ApplyContentCatalog, Inv
<1>2. UNCHANGED <<releases, routes, sites, head, tip, served, phase, inflight>>
  BY DEF ApplyContentCatalog, L!IndexContentCatalog
<1>3. phase = "ready" => memory.tip = tip /\ memory.snapshot.tip = tip
  BY DEF Inv, Coherent
<1>. QED BY <1>1, <1>2, <1>3, ApplyContentCatalogTyped, IdleKeeps

LEMMA AnsweredSafe ==
  ASSUME Inv, DropStalePick \/ SchedulerFails
  PROVE  Inv'
<1>1. Typed
  BY DEF Inv
<1>2. phase = "ready" => memory.tip = tip /\ memory.snapshot.tip = tip
  BY DEF Inv, Coherent
<1>. QED BY <1>1, <1>2, AnsweredTyped, IdleKeeps DEF ledger

LEMMA PickDueSafe ==
  ASSUME LP!IInv, Inv, PickDue
  PROVE  Inv'
<1>1. Typed /\ UNCHANGED <<ledger, tip, served, phase, memory, inflight>> /\ phase = "ready"
  BY DEF Inv, PickDue
<1>2. phase = "ready" => memory.tip = tip /\ memory.snapshot.tip = tip
  BY DEF Inv, Coherent
<1>. QED BY <1>1, <1>2, PickDueTyped, IdleKeeps DEF ledger

LEMMA ShutdownSafe ==
  ASSUME Inv, Shutdown
  PROVE  Inv'
<1>1. Typed /\ UNCHANGED <<ledger, retained, tip, clock, served, memory, inflight, picked>>
        /\ phase = "ready" /\ phase' = "draining"
  BY DEF Inv, Shutdown
<1>2. Typed'
  BY <1>1 DEF Typed
<1>. QED BY <1>1, <1>2, IdleKeeps DEF ledger

(* Time and retained trees are nothing the invariant speaks of. *)
LEMMA AsideSafe ==
  ASSUME Inv, Tick \/ (\E tree \in Trees : RetainTree(tree)) \/ UNCHANGED vars
  PROVE  Inv'
<1>1. UNCHANGED <<ledger, tip, served, phase, memory, inflight, picked>>
  BY DEF Tick, RetainTree, vars, process
<1>2. Typed'
  BY <1>1 DEF Inv, Typed, Tick, RetainTree, vars
<1>3. /\ LedgerProjection' = LedgerProjection /\ Interrupted' = Interrupted
      /\ \A S : L!InState(S)' = L!InState(S)
      /\ Claims' /\ Retains'
      /\ (inflight # None /\ inflight'.release = inflight.release /\ RoutesStillFree) => RoutesStillFree'
  BY <1>1, QuietKeeps DEF Inv, ledger
<1>4. Posted' /\ Free' /\ Shows'
  BY <1>1, <1>3 DEF Inv, Posted, Free, Shows, ledger
<1>5. Coherent'
  BY <1>1, <1>3 DEF Inv, Coherent, ledger
<1>. QED BY <1>2, <1>3, <1>4, <1>5 DEF Inv

LEMMA StopSafe ==
  ASSUME Inv, ActivationConflict \/ FinishRefused \/ Exit \/ Crash
  PROVE  Inv'
<1>1. Typed /\ Posted
  BY DEF Inv
<1>2. CASE phase' = "draining" /\ phase \notin {"down", "recovering"} /\ memory' = memory
  BY <1>1, <1>2, StopTyped, IdleKeeps DEF ledger
<1>3. CASE phase' = "down" /\ memory' = None /\ picked' = None
  <2>1. /\ LedgerProjection' = LedgerProjection /\ Interrupted' = Interrupted
        /\ Claims' /\ Retains' /\ UNCHANGED <<releases, served>> /\ inflight' = None /\ Typed'
    BY <1>1, StopTyped, QuietKeeps DEF Inv, ledger
  <2>2. Posted' /\ Coherent' /\ Free' /\ Shows'
    BY <1>3, <2>1 DEF Inv, Posted, Coherent, Free, Shows
  <2>. QED BY <2>1, <2>2 DEF Inv
<1>. QED BY <1>1, <1>2, <1>3, StopTyped

(* The swap: readers get the claimed site while the process serves. *)
LEMMA ActivateSnapshotSafe ==
  ASSUME LP!IInv, Inv, ActivateSnapshot
  PROVE  Inv'
<1>0. Typed /\ Posted
  BY DEF Inv
<1>1. /\ LedgerProjection' = LedgerProjection /\ Interrupted' = Interrupted
      /\ \A S : L!InState(S)' = L!InState(S)
      /\ Claims' /\ Retains'
      /\ (inflight # None /\ inflight'.release = inflight.release /\ RoutesStillFree) => RoutesStillFree'
  BY <1>0, ActivateSnapshotTyped, QuietKeeps DEF Inv, ledger
<1>2. Typed' /\ inflight # None /\ inflight.release \in Interrupted
  BY <1>0, ActivateSnapshotTyped DEF Posted
<1>3. Posted'
  BY <1>0, <1>1, <1>2, ActivateSnapshotTyped DEF Posted
<1>4. Coherent'
  BY <1>0, <1>1, ActivateSnapshotTyped DEF Inv, Coherent, ledger
<1>5. Free'
  BY <1>0, <1>1, <1>2, ActivateSnapshotTyped DEF Inv, Free
<1>6. Shows'
  BY <1>0, <1>1, <1>2, ActivateSnapshotTyped DEF Inv, Shows, ledger
<1>. QED BY <1>1, <1>2, <1>3, <1>4, <1>5, <1>6 DEF Inv

-----------------------------------------------------------------------------
(* Steps that write one row that is not public, before or after. *)

Writes(r) ==
  /\ DOMAIN releases' = DOMAIN releases \cup {r}
  /\ \A s \in DOMAIN releases : s # r => releases'[s] = releases[s]
  /\ r \notin L!Successful /\ r \notin L!Successful'
  /\ UNCHANGED <<sites, head>>

LEMMA WriteKeeps ==
  ASSUME LedgerKept, NEW r, Writes(r), Claims, Retains, r \notin Interrupted
  PROVE  /\ LedgerProjection' = LedgerProjection /\ Retains'
         /\ \A S : \A s : s # r => (s \in L!InState(S)' <=> s \in L!InState(S))
         /\ \A s \in Interrupted : s \in Interrupted' /\ releases'[s] = releases[s]
         /\ r \notin Interrupted' => Interrupted' = Interrupted /\ Claims'
         /\ releases'[r].candidate.posts = WithApproved(LedgerProjection, releases'[r].post,
              releases'[r].rev, releases'[r].activationAt) => Claims'
<1>1. \A S : \A s : s # r => (s \in L!InState(S)' <=> s \in L!InState(S))
  BY DEF Writes, L!InState
<1>2. L!InState({"published"})' = L!InState({"published"})
  <2>1. r \notin L!InState({"published"}) /\ r \notin L!InState({"published"})'
    BY DEF Writes, L!InState, L!Successful
  <2>. QED BY <1>1, <2>1
<1>3. LedgerProjection' = LedgerProjection
  BY <1>2, ProjectionKept
<1>4. \A s \in L!Successful : s \in L!Successful' /\ releases'[s] = releases[s]
  BY DEF Writes, L!InState, L!Successful
<1>5. Retains'
  BY <1>3, <1>4 DEF Retains, Writes, L!NoHead
<1>6. \A s \in Interrupted : s \in Interrupted' /\ releases'[s] = releases[s]
  BY DEF Writes, Interrupted, L!InState
<1>7. \A s \in Interrupted' : s = r \/ s \in Interrupted
  BY <1>1 DEF Interrupted
<1>8. r \notin Interrupted' => Interrupted' = Interrupted /\ Claims'
  BY <1>3, <1>6, <1>7 DEF Claims, WithApproved
<1>9. releases'[r].candidate.posts = WithApproved(LedgerProjection, releases'[r].post,
        releases'[r].rev, releases'[r].activationAt) => Claims'
  BY <1>3, <1>6, <1>7 DEF Claims, WithApproved
<1>. QED BY <1>1, <1>3, <1>5, <1>6, <1>8, <1>9

(* A command on an approval that does not start an activation. *)
LEMMA ApprovalSafe ==
  ASSUME Inv, Typed', LedgerKept, NEW r, Writes(r), r \notin Interrupted, r \notin Interrupted',
         phase # "down", inflight = None, inflight' = None,
         UNCHANGED <<tip, served, phase>>,
         memory'.public = memory.public, memory'.site = memory.site,
         memory'.tip = memory.tip, memory'.snapshot = memory.snapshot,
         r \in L!InState({"scheduled"})' <=> r \in DOMAIN memory'.scheduled,
         r \in DOMAIN memory'.scheduled => memory'.scheduled[r] = releases'[r],
         \A s : s # r =>
           /\ s \in DOMAIN memory'.scheduled <=> s \in DOMAIN memory.scheduled
           /\ s \in DOMAIN memory.scheduled => memory'.scheduled[s] = memory.scheduled[s]
  PROVE  Inv'
<1>1. /\ LedgerProjection' = LedgerProjection /\ Retains'
      /\ \A S : \A s : s # r => (s \in L!InState(S)' <=> s \in L!InState(S))
      /\ Interrupted' = Interrupted /\ Claims'
      /\ \A s \in Interrupted : releases'[s] = releases[s]
  BY WriteKeeps DEF Inv
<1>2. Posted'
  BY <1>1 DEF Inv, Posted
<1>3. Coherent'
  <2>1. \A s \in L!InState({"scheduled"})' : s \in DOMAIN memory'.scheduled
    BY <1>1 DEF Inv, Coherent
  <2>2. ASSUME NEW s \in DOMAIN memory'.scheduled
        PROVE  \/ s \in Interrupted'
               \/ s \in L!InState({"scheduled"})' /\ memory'.scheduled[s] = releases'[s]
    <3>1. CASE s = r
      BY <3>1
    <3>2. CASE s # r
      <4>1. s \in DOMAIN memory.scheduled /\ memory'.scheduled[s] = memory.scheduled[s]
        BY <3>2
      <4>2. s \in L!InState({"scheduled"}) => releases'[s] = releases[s] /\ s \in L!InState({"scheduled"})'
        BY <1>1, <3>2 DEF Writes, L!InState
      <4>. QED BY <1>1, <4>1, <4>2 DEF Inv, Coherent
    <3>. QED BY <3>1, <3>2
  <2>. QED BY <1>1, <2>1, <2>2 DEF Inv, Coherent, Writes
<1>4. Free'
  BY DEF Free
<1>5. Shows'
  BY <1>1 DEF Inv, Shows
<1>. QED BY <1>1, <1>2, <1>3, <1>4, <1>5 DEF Inv

(* A command that claims an activation. *)
LEMMA ClaimSafe ==
  ASSUME Inv, Typed', LedgerKept, NEW r \in Releases, Writes(r), Interrupted = {}, r \in Interrupted',
         phase \in {"ready", "draining"}, inflight = None, Begun(r),
         UNCHANGED <<tip, served, phase, memory, routes>>,
         r \in L!InState({"scheduled"}) => r \in DOMAIN memory.scheduled,
         NEW tree, releases'[r].candidate =
           Candidate(tree, releases'[r].post, releases'[r].rev, releases'[r].activationAt),
         L!RoutesAvailable(releases'[r].post, releases'[r].rev)
  PROVE  Inv'
<1>0. memory.public = LedgerProjection
  BY DEF Inv, Coherent
<1>1. releases'[r].candidate.posts = WithApproved(LedgerProjection, releases'[r].post,
        releases'[r].rev, releases'[r].activationAt)
  BY <1>0 DEF Candidate
<1>2. /\ LedgerProjection' = LedgerProjection /\ Retains'
      /\ \A S : \A s : s # r => (s \in L!InState(S)' <=> s \in L!InState(S))
      /\ Claims'
  BY <1>1, WriteKeeps DEF Inv
<1>3. Interrupted' = {r}
  BY <1>2 DEF Interrupted
<1>4. inflight' # None /\ inflight'.release = r /\ ~inflight'.swapped
  BY BegunTyped
<1>5. Posted'
  BY <1>3, <1>4 DEF Posted
<1>6. Coherent'
  <2>1. \A s \in L!InState({"scheduled"})' : s \in DOMAIN memory'.scheduled
    <3>1. r \notin L!InState({"scheduled"})'
      BY DEF Interrupted, L!InState
    <3>. QED BY <1>2, <3>1 DEF Inv, Coherent
  <2>2. ASSUME NEW s \in DOMAIN memory'.scheduled
        PROVE  \/ s \in Interrupted'
               \/ s \in L!InState({"scheduled"})' /\ memory'.scheduled[s] = releases'[s]
    <3>1. CASE s # r
      <4>1. s \in L!InState({"scheduled"}) => releases'[s] = releases[s] /\ s \in L!InState({"scheduled"})'
        BY <1>2, <3>1 DEF Writes, L!InState
      <4>. QED BY <1>2, <4>1 DEF Inv, Coherent
    <3>. QED BY <3>1
  <2>. QED BY <1>2, <2>1, <2>2 DEF Inv, Coherent, Writes
<1>7. Free'
  BY <1>4 DEF Free, RoutesStillFree, L!RoutesAvailable
<1>8. Shows'
  BY <1>2, <1>4 DEF Inv, Shows
<1>. QED BY <1>2, <1>5, <1>6, <1>7, <1>8 DEF Inv

LEMMA ScheduleSafe ==
  ASSUME Inv, LedgerKept, NEW r \in Releases, NEW p, NEW rev, NEW at, Schedule(r, p, rev, at)
  PROVE  Inv'
<1>1. Typed /\ phase # "down" /\ inflight = None /\ memory \in Memory
  BY Alive DEF Schedule, Inv
<1>2. /\ UNCHANGED <<tip, served, phase, inflight>>
      /\ r \notin DOMAIN releases /\ DOMAIN releases' = DOMAIN releases \cup {r}
      /\ \A s \in DOMAIN releases : releases'[s] = releases[s]
      /\ releases'[r].state = "scheduled" /\ UNCHANGED <<sites, head>>
  BY DEF Schedule, L!SchedulePublication, L!Put
<1>3. Writes(r) /\ r \notin Interrupted /\ r \notin Interrupted' /\ r \in L!InState({"scheduled"})'
  BY <1>2 DEF Writes, Interrupted, L!InState, L!Successful
<1>4. LP!IInv'
  BY DEF LedgerKept
<1>5. /\ Typed'
      /\ memory' \in Memory /\ memory'.scheduled = L!Put(memory.scheduled, r, releases'[r])
      /\ memory'.public = memory.public /\ memory'.site = memory.site
      /\ memory'.tip = memory.tip /\ memory'.snapshot = memory.snapshot
  BY <1>1, <1>4, ScheduleTyped
<1>6. /\ r \in DOMAIN memory'.scheduled /\ memory'.scheduled[r] = releases'[r]
      /\ \A s : s # r =>
           /\ s \in DOMAIN memory'.scheduled <=> s \in DOMAIN memory.scheduled
           /\ s \in DOMAIN memory.scheduled => memory'.scheduled[s] = memory.scheduled[s]
  BY <1>5 DEF L!Put
<1>. QED BY <1>1, <1>2, <1>3, <1>5, <1>6, ApprovalSafe

LEMMA ChangeReleaseSafe ==
  ASSUME Inv, LedgerKept, NEW r \in DOMAIN releases, ChangeRelease(r)
  PROVE  Inv'
<1>1. Typed /\ phase # "down" /\ inflight = None /\ memory \in Memory
  BY Alive DEF ChangeRelease, Inv
<1>2. LP!IInv /\ LP!IInv' /\ r \in Releases /\ UNCHANGED <<tip, served, phase, inflight>>
  BY LedgerFacts DEF LedgerKept, L!TypeOK, ChangeRelease
<1>3. releases[r] \in L!Release
  BY <1>2, LedgerFacts DEF L!TypeOK
<1>4. /\ DOMAIN releases' = DOMAIN releases \cup {r}
      /\ \A s \in DOMAIN releases : s # r => releases'[s] = releases[s]
      /\ UNCHANGED <<sites, head>>
      /\ releases[r].state \in {"scheduled", "blocked"}
      /\ releases'[r].state \in {"scheduled", "cancelled"}
  <2>1. PICK op \in Operations :
          \/ \E at \in Times : L!Reschedule(op, r, releases[r].version, clock, at)
          \/ L!Cancel(op, r, releases[r].version)
    BY DEF ChangeRelease
  <2>2. CASE \E at \in Times : L!Reschedule(op, r, releases[r].version, clock, at)
    BY <1>3, <2>2 DEF L!Reschedule, L!ChangeRelease, L!Put, L!InState, L!Release
  <2>3. CASE L!Cancel(op, r, releases[r].version)
    BY <1>3, <2>3 DEF L!Cancel, L!ChangeRelease, L!Put, L!InState, L!Release
  <2>. QED BY <2>1, <2>2, <2>3
<1>5. Writes(r) /\ r \notin Interrupted /\ r \notin Interrupted'
  BY <1>4 DEF Writes, Interrupted, L!InState, L!Successful
<1>6. /\ Typed'
      /\ memory' \in Memory
      /\ memory'.scheduled =
              [s \in (DOMAIN memory.scheduled \ {r}) \cup ({r} \cap L!InState({"scheduled"})') |->
                 IF s = r THEN releases'[r] ELSE memory.scheduled[s]]
      /\ memory'.public = memory.public /\ memory'.site = memory.site
      /\ memory'.tip = memory.tip /\ memory'.snapshot = memory.snapshot
  BY <1>1, <1>2, ChangeReleaseTyped
<1>7. /\ r \in L!InState({"scheduled"})' <=> r \in DOMAIN memory'.scheduled
      /\ r \in DOMAIN memory'.scheduled => memory'.scheduled[r] = releases'[r]
      /\ \A s : s # r =>
           /\ s \in DOMAIN memory'.scheduled <=> s \in DOMAIN memory.scheduled
           /\ s \in DOMAIN memory.scheduled => memory'.scheduled[s] = memory.scheduled[s]
  BY <1>6
<1>. QED BY <1>1, <1>2, <1>5, <1>6, <1>7, ApprovalSafe

LEMMA BlockScheduledSafe ==
  ASSUME Inv, LedgerKept, BlockScheduled
  PROVE  Inv'
<1>0. PICK r : r = picked.release
  OBVIOUS
<1>1. Typed /\ phase # "down" /\ inflight = None /\ memory \in Memory
  BY Alive DEF BlockScheduled, Delivered, Inv
<1>2. /\ UNCHANGED <<tip, served, phase, inflight>>
      /\ r \in DOMAIN releases /\ DOMAIN releases' = DOMAIN releases
      /\ \A s \in DOMAIN releases : s # r => releases'[s] = releases[s]
      /\ UNCHANGED <<sites, head>> /\ releases[r].state = "scheduled"
      /\ releases'[r] = [releases[r] EXCEPT
           !.state = "blocked", !.version = @ + 2, !.activationAt = picked.now]
  BY <1>0 DEF BlockScheduled, L!BlockScheduled, L!Put, L!InState
<1>3. releases'[r].state = "blocked"
  BY <1>2, LedgerFacts DEF LedgerKept, L!TypeOK, L!Release
<1>4. Writes(r) /\ r \notin Interrupted /\ r \notin Interrupted' /\ r \notin L!InState({"scheduled"})'
  BY <1>2, <1>3 DEF Writes, Interrupted, L!InState, L!Successful
<1>5. /\ Typed'
      /\ memory' \in Memory
      /\ memory'.scheduled = [s \in DOMAIN memory.scheduled \ {r} |-> memory.scheduled[s]]
      /\ memory'.public = memory.public /\ memory'.site = memory.site
      /\ memory'.tip = memory.tip /\ memory'.snapshot = memory.snapshot
  BY <1>0, <1>1, BlockScheduledTyped
<1>6. /\ r \notin DOMAIN memory'.scheduled
      /\ \A s : s # r =>
           /\ s \in DOMAIN memory'.scheduled <=> s \in DOMAIN memory.scheduled
           /\ s \in DOMAIN memory.scheduled => memory'.scheduled[s] = memory.scheduled[s]
  BY <1>5
<1>. QED BY <1>1, <1>2, <1>4, <1>5, <1>6, ApprovalSafe

LEMMA PublishNowSafe ==
  ASSUME Inv, LedgerKept, NEW r \in Releases, NEW p, NEW rev, PublishNow(r, p, rev)
  PROVE  Inv'
<1>1. Typed /\ phase \in {"ready", "draining"} /\ inflight = None
  BY Alive DEF PublishNow, Inv
<1>2. PICK candidate : candidate = Candidate(memory.tree, p, rev, clock)
  OBVIOUS
<1>3. L!BeginPublishNow(r, p, rev, memory.tree, CurrentPreview(p, rev), memory.site, clock, candidate)
  BY <1>2 DEF PublishNow
<1>4. /\ UNCHANGED <<tip, served, phase, memory, routes, sites, head>> /\ Begun(r)
      /\ L!RoutesAvailable(p, rev) /\ Interrupted = {}
  BY <1>3 DEF PublishNow, L!BeginPublishNow, Interrupted
<1>5. /\ r \notin DOMAIN releases /\ DOMAIN releases' = DOMAIN releases \cup {r}
      /\ \A s \in DOMAIN releases : releases'[s] = releases[s]
      /\ releases'[r].state = "activating" /\ releases'[r].post = p /\ releases'[r].rev = rev
      /\ releases'[r].activationAt = clock /\ releases'[r].candidate = candidate
  BY <1>3 DEF L!BeginPublishNow, L!Put
<1>6. Writes(r) /\ r \in Interrupted' /\ r \notin L!InState({"scheduled"})
  BY <1>4, <1>5 DEF Writes, Interrupted, L!InState, L!Successful
<1>7. Typed'
  BY <1>1, PublishNowTyped
<1>. QED BY <1>1, <1>2, <1>4, <1>5, <1>6, <1>7, ClaimSafe

(* What claiming an approved release writes. *)
LEMMA ClaimWrites ==
  ASSUME LP!IInv, NEW r \in L!InState({"scheduled", "blocked"}), NEW version, NEW now, NEW candidate,
         L!ClaimActivation(r, version, memory.site, now, candidate)
  PROVE  /\ Writes(r) /\ Interrupted = {} /\ r \in Interrupted' /\ UNCHANGED routes
         /\ r \in Releases /\ releases[r] \in L!Release
         /\ releases'[r].post = releases[r].post /\ releases'[r].rev = releases[r].rev
         /\ releases'[r].activationAt = now /\ releases'[r].candidate = candidate
         /\ releases'[r].kind = releases[r].kind /\ releases'[r].scheduledAt = releases[r].scheduledAt
         /\ releases'[r].tree = releases[r].tree /\ releases'[r].preview = releases[r].preview
<1>1. r \in DOMAIN releases /\ releases[r].state \in {"scheduled", "blocked"}
  BY DEF L!InState
<1>2. r \in Releases /\ releases[r] \in L!Release
  BY <1>1, LedgerFacts DEF L!TypeOK
<1>3. /\ DOMAIN releases' = DOMAIN releases
      /\ \A s \in DOMAIN releases : s # r => releases'[s] = releases[s]
      /\ releases'[r] = [releases[r] EXCEPT
       !.state = "activating", !.version = @ + 1, !.activationAt = now, !.candidate = candidate]
      /\ UNCHANGED <<routes, sites, head>> /\ L!InState({"activating"}) \ {r} = {}
  BY <1>1 DEF L!ClaimActivation, L!Put
<1>4. /\ releases'[r].post = releases[r].post /\ releases'[r].rev = releases[r].rev
      /\ releases'[r].activationAt = now /\ releases'[r].candidate = candidate
      /\ releases'[r].kind = releases[r].kind /\ releases'[r].scheduledAt = releases[r].scheduledAt
         /\ releases'[r].tree = releases[r].tree /\ releases'[r].preview = releases[r].preview
      /\ releases'[r].state = "activating"
  BY <1>2, <1>3 DEF L!Release
<1>5. Writes(r) /\ r \in Interrupted' /\ r \notin Interrupted
  BY <1>1, <1>3, <1>4 DEF Writes, Interrupted, L!InState, L!Successful
<1>6. Interrupted = {}
  BY <1>3, <1>5 DEF Interrupted
<1>. QED BY <1>2, <1>3, <1>4, <1>5, <1>6

LEMMA RetryReleaseSafe ==
  ASSUME Inv, LedgerKept, NEW r \in DOMAIN releases, RetryRelease(r)
  PROVE  Inv'
<1>1. Typed /\ phase \in {"ready", "draining"} /\ inflight = None /\ LP!IInv
  BY Alive DEF RetryRelease, Inv, LedgerKept
<1>2. PICK candidate : candidate = ApprovedCandidate(releases[r], clock)
  OBVIOUS
<1>3. /\ L!ClaimActivation(r, releases[r].version, memory.site, clock, candidate)
      /\ r \in L!InState({"scheduled", "blocked"}) /\ r \notin L!InState({"scheduled"})
  BY <1>2 DEF RetryRelease, L!BeginRetry, L!InState
<1>4. /\ UNCHANGED <<tip, served, phase, memory>> /\ Begun(r)
      /\ L!RoutesAvailable(releases[r].post, releases[r].rev)
  BY DEF RetryRelease, Activates
<1>5. /\ Writes(r) /\ Interrupted = {} /\ r \in Interrupted' /\ UNCHANGED routes
      /\ r \in Releases
      /\ releases'[r].post = releases[r].post /\ releases'[r].rev = releases[r].rev
      /\ releases'[r].activationAt = clock /\ releases'[r].candidate = candidate
  BY <1>1, <1>3, ClaimWrites
<1>6. Typed'
  BY <1>1, <1>5, RetryReleaseTyped
<1>7. candidate = Candidate(releases[r].tree, releases'[r].post, releases'[r].rev, releases'[r].activationAt)
  BY <1>2, <1>5 DEF ApprovedCandidate
<1>8. L!RoutesAvailable(releases'[r].post, releases'[r].rev)
  BY <1>4, <1>5
<1>. QED BY <1>1, <1>3, <1>4, <1>5, <1>6, <1>7, <1>8, ClaimSafe

(* What the scheduler picked and the ledger still schedules is what the     *)
(* coordinator remembers of it.                                             *)
LEMMA PickedRow ==
  ASSUME Inv, phase # "down", NEW r \in L!InState({"scheduled"})
  PROVE  r \in DOMAIN memory.scheduled /\ memory.scheduled[r] = releases[r]
<1>1. r \notin Interrupted
  BY DEF Interrupted, L!InState
<1>. QED BY <1>1 DEF Inv, Coherent

LEMMA ActivateScheduledSafe ==
  ASSUME Inv, LedgerKept, ActivateScheduled
  PROVE  Inv'
<1>1. Typed /\ phase \in {"ready", "draining"} /\ phase # "down" /\ inflight = None /\ LP!IInv
  BY Alive DEF ActivateScheduled, Delivered, Inv, LedgerKept
<1>0. PICK r : r = picked.release
  OBVIOUS
<1>2. PICK approval : approval = memory.scheduled[r]
  OBVIOUS
<1>3. PICK candidate : candidate = ApprovedCandidate(approval, picked.now)
  OBVIOUS
<1>4. L!BeginDueActivation(r, approval.version, memory.site, picked.now, candidate)
  BY <1>0, <1>2, <1>3 DEF ActivateScheduled
<1>5. /\ r \in L!InState({"scheduled"}) /\ r \in L!InState({"scheduled", "blocked"})
      /\ L!ClaimActivation(r, approval.version, memory.site, picked.now, candidate)
  BY <1>4 DEF L!BeginDueActivation, L!InState
<1>6. approval = releases[r] /\ r \in DOMAIN memory.scheduled
  BY <1>1, <1>2, <1>5, PickedRow
<1>7. /\ UNCHANGED <<tip, served, phase, memory>> /\ Begun(r)
      /\ L!RoutesAvailable(releases[r].post, releases[r].rev)
  BY <1>0, <1>2, <1>6 DEF ActivateScheduled, Activates
<1>8. /\ Writes(r) /\ Interrupted = {} /\ r \in Interrupted' /\ UNCHANGED routes
      /\ r \in Releases
      /\ releases'[r].post = releases[r].post /\ releases'[r].rev = releases[r].rev
      /\ releases'[r].activationAt = picked.now /\ releases'[r].candidate = candidate
  BY <1>1, <1>5, ClaimWrites
<1>9. Typed'
  BY <1>1, ActivateScheduledTyped
<1>10. candidate = Candidate(releases[r].tree, releases'[r].post, releases'[r].rev, releases'[r].activationAt)
  BY <1>3, <1>6, <1>8 DEF ApprovedCandidate
<1>11. L!RoutesAvailable(releases'[r].post, releases'[r].rev)
  BY <1>7, <1>8
<1>. QED BY <1>1, <1>5, <1>6, <1>7, <1>8, <1>9, <1>10, <1>11, ClaimSafe

-----------------------------------------------------------------------------
(* The durable finish, and the start that loads what it left. *)

(* A finish makes the claimed site the ledger's projection. *)
LEMMA FinishEffect ==
  ASSUME LedgerKept, Typed, Posted, Claims, FinishPublication
  PROVE  /\ LP!Finished(inflight.release)
         /\ Interrupted = {inflight.release} /\ Interrupted' = {}
         /\ releases[inflight.release].candidate.posts = LedgerProjection'
         /\ sites' = L!Put(sites, releases[inflight.release].candidate, head.version + 1)
         /\ head'.digest = releases[inflight.release].candidate
         /\ L!InState({"scheduled"})' = L!InState({"scheduled"})
         /\ \A s \in L!InState({"scheduled"}) : releases'[s] = releases[s]
<1>0. PICK r : r = inflight.release
  OBVIOUS
<1>1. L!FinishActivation(r, releases[r].version, memory.site, releases[r].candidate)
  BY <1>0 DEF FinishPublication
<1>2. r \in DOMAIN releases /\ head = memory.site /\ Interrupted = {r} /\ r \in L!InState({"activating"})
  BY <1>0, <1>1 DEF L!FinishActivation, L!InState, Posted, FinishPublication
<1>3. LP!FinishActivation(r, releases[r].version, head, releases[r].candidate)
  BY <1>1, <1>2, SameFinish
<1>4. LP!Finished(r)
  BY <1>2, <1>3, LP!FinishRows, LedgerAssumed, CoordinatorConstants DEF LedgerKept, LP!IInv
<1>5. LedgerProjection' =
        WithApproved(LedgerProjection, releases[r].post, releases[r].rev, releases[r].activationAt)
  BY <1>4, ProjectionFinished
<1>6. releases[r].candidate.posts = LedgerProjection'
  BY <1>2, <1>5 DEF Claims
<1>7. Interrupted' = {}
  <2>1. ASSUME NEW s \in DOMAIN releases', releases'[s].state = "activating"
        PROVE  FALSE
    <3>1. s \in DOMAIN releases /\ releases[s].state = "activating"
      BY <1>4, <2>1 DEF LP!Finished
    <3>2. s = r
      BY <1>2, <3>1 DEF Interrupted, L!InState
    <3>. QED BY <1>4, <2>1, <3>1, <3>2 DEF LP!Finished
  <2>. QED BY <2>1 DEF Interrupted, L!InState
<1>8. /\ sites' = L!Put(sites, releases[r].candidate, head.version + 1)
      /\ head'.digest = releases[r].candidate
  BY <1>1 DEF L!FinishActivation
<1>9. /\ L!InState({"scheduled"})' = L!InState({"scheduled"})
      /\ \A s \in L!InState({"scheduled"}) : releases'[s] = releases[s]
  <2>1. \A s \in L!InState({"scheduled"}) :
          s \in DOMAIN releases /\ s # r /\ s \notin L!Published(releases[r].post)
    BY <1>2 DEF L!InState, L!Published
  <2>2. \A s \in L!InState({"scheduled"}) : releases'[s] = releases[s]
    BY <1>1, <2>1 DEF L!FinishActivation
  <2>3. DOMAIN releases' = DOMAIN releases
    BY <1>4 DEF LP!Finished
  <2>4. ASSUME NEW s \in L!InState({"scheduled"})'
        PROVE  s \in L!InState({"scheduled"})
    BY <1>2, <1>4, <2>3, <2>4 DEF LP!Finished, L!InState
  <2>. QED BY <2>2, <2>3, <2>4 DEF L!InState
<1>. QED BY <1>0, <1>2, <1>4, <1>6, <1>7, <1>8, <1>9

LEMMA FinishSafe ==
  ASSUME LedgerKept, Inv, FinishPublication
  PROVE  Inv'
<1>1. Typed /\ Posted /\ Claims /\ LP!IInv /\ LP!IInv'
  BY DEF Inv, LedgerKept
<1>0. PICK r : r = inflight.release
  OBVIOUS
<1>2. /\ LP!Finished(r) /\ Interrupted = {r} /\ Interrupted' = {}
      /\ releases[r].candidate.posts = LedgerProjection'
      /\ sites' = L!Put(sites, releases[r].candidate, head.version + 1)
      /\ head'.digest = releases[r].candidate
      /\ L!InState({"scheduled"})' = L!InState({"scheduled"})
      /\ \A s \in L!InState({"scheduled"}) : releases'[s] = releases[s]
  BY <1>0, <1>1, FinishEffect
<1>3. /\ Typed' /\ UNCHANGED <<clock, tip, picked>> /\ inflight' = None
      /\ phase' \in {"ready", "draining"} /\ phase # "down" /\ (phase = "draining" => phase' = "draining")
      /\ memory'.scheduled = [s \in DOMAIN memory.scheduled \ {r} |-> memory.scheduled[s]]
      /\ memory'.public = releases[r].candidate.posts /\ memory'.site = head'
      /\ memory'.tip = memory.tip /\ memory'.snapshot = memory.snapshot
      /\ served' = memory.snapshot.digest.posts
  BY <1>0, <1>1, FinishTyped
<1>4. Posted'
  BY <1>2, <1>3 DEF Posted
<1>5. Claims'
  BY <1>2 DEF Claims
<1>6. Free'
  BY <1>3 DEF Free
<1>7. Shows'
  <2>1. memory.snapshot.digest = releases[r].candidate
    BY <1>0 DEF Inv, Shows, FinishPublication
  <2>. QED BY <1>2, <1>3, <2>1 DEF Shows
<1>8. Coherent'
  <2>1. \A s \in L!InState({"scheduled"})' : s \in DOMAIN memory'.scheduled
    <3>1. r \notin L!InState({"scheduled"})
      BY <1>2 DEF Interrupted, L!InState
    <3>. QED BY <1>2, <1>3, <3>1 DEF Inv, Coherent
  <2>2. ASSUME NEW s \in DOMAIN memory'.scheduled
        PROVE  s \in L!InState({"scheduled"})' /\ memory'.scheduled[s] = releases'[s]
    <3>1. s \in DOMAIN memory.scheduled /\ s # r /\ memory'.scheduled[s] = memory.scheduled[s]
      BY <1>3
    <3>2. s \notin Interrupted
      BY <1>2, <3>1
    <3>3. s \in L!InState({"scheduled"}) /\ memory.scheduled[s] = releases[s]
      BY <1>3, <3>1, <3>2 DEF Inv, Coherent
    <3>. QED BY <1>2, <3>1, <3>3
  <2>3. phase' \in {"ready", "recovering"} => memory'.tip = tip' /\ memory'.snapshot.tip = tip'
    <3>1. phase' \in {"ready", "recovering"} => phase \in {"ready", "recovering"}
      BY <1>1, <1>3 DEF Typed
    <3>. QED BY <1>3, <3>1 DEF Inv, Coherent
  <2>. QED BY <1>2, <1>3, <2>1, <2>2, <2>3 DEF Coherent
<1>9. Retains'
  <2>1. \A s \in L!Successful \cup {r} :
          s \in L!Successful' /\ releases'[s].post = releases[s].post /\ releases'[s].rev = releases[s].rev
    BY <1>2 DEF LP!Finished, L!Successful, L!InState
  <2>2. ASSUME NEW p \in DOMAIN LedgerProjection'
        PROVE  \E s \in L!Successful' : releases'[s].post = p /\ releases'[s].rev = LedgerProjection'[p].rev
    <3>1. LP!IInv' => Projects'
      BY ProjectsRows, PTL
    <3>2. DOMAIN LedgerProjection' = {releases'[s].post : s \in L!InState({"published"})'}
      BY DEF LedgerProjection
    <3>3. PICK s \in L!InState({"published"})' : releases'[s].post = p
      BY <3>2
    <3>4. LedgerProjection'[p] = [rev |-> releases'[s].rev, since |-> L!PublicSince(p)']
      BY <1>1, <3>1, <3>3 DEF Projects
    <3>5. s \in L!Successful'
      BY <3>3 DEF L!Successful, L!InState
    <3>. QED BY <3>3, <3>4, <3>5
  <2>3. ASSUME NEW d \in DOMAIN sites', NEW p \in DOMAIN d.posts
        PROVE  \E s \in L!Successful' : releases'[s].post = p /\ releases'[s].rev = d.posts[p].rev
    <3>1. CASE d \in DOMAIN sites
      <4>1. PICK s \in L!Successful : releases[s].post = p /\ releases[s].rev = d.posts[p].rev
        BY <3>1, <2>3 DEF Inv, Retains
      <4>. QED BY <2>1, <4>1
    <3>2. CASE d = releases[r].candidate
      BY <1>2, <2>2, <2>3, <3>2
    <3>. QED BY <1>2, <3>1, <3>2 DEF L!Put
  <2>. QED BY <1>2, <2>3 DEF Retains
<1>. QED BY <1>3, <1>4, <1>5, <1>6, <1>7, <1>8, <1>9 DEF Inv

LEMMA StartSafe ==
  ASSUME LedgerKept, Inv, NEW tree \in Trees, Start(tree)
  PROVE  Inv'
<1>1. Typed /\ Posted /\ LP!IInv /\ LP!IInv'
  BY DEF Inv, LedgerKept
<1>0. PICK d : d = memory'.snapshot.digest
  OBVIOUS
<1>2. /\ Typed' /\ UNCHANGED <<releases, routes, clock, tip, picked>> /\ phase = "down"
      /\ memory'.scheduled = Rows({"scheduled"})
      /\ memory'.public = LedgerProjection /\ memory'.site = head'
      /\ memory'.tip = tip /\ memory'.snapshot.tip = tip
      /\ head # L!NoHead => d = head.digest
      /\ head = L!NoHead => d.posts = LedgerProjection
      /\ L!InstallStartup(head, d, PostsOf[tree])
      /\ \/ phase' = "ready" /\ inflight' = None /\ Interrupted = {} /\ served' = d.posts
         \/ /\ phase' = "recovering" /\ inflight' # None /\ inflight'.release \in Interrupted
            /\ ~inflight'.swapped /\ served' = served
  BY <1>0, <1>1, StartTyped
<1>3. /\ \A S : L!InState(S)' = L!InState(S)
      /\ Interrupted' = Interrupted /\ L!Successful' = L!Successful
  BY <1>2 DEF Interrupted, L!InState, L!Successful
<1>4. LedgerProjection' = LedgerProjection
  BY <1>3, ProjectionKept
<1>5. d.posts = LedgerProjection
  BY <1>2 DEF Inv, Retains
<1>6. \A r \in Interrupted : Interrupted = {r}
  BY <1>1, LedgerFacts DEF Interrupted, L!OneActivation
<1>7. Posted'
  BY <1>2, <1>3, <1>6 DEF Posted
<1>8. Coherent'
  BY <1>2, <1>3, <1>4 DEF Coherent, Rows
<1>9. Claims'
  BY <1>2, <1>3, <1>4 DEF Inv, Claims, WithApproved
<1>10. Free'
  BY <1>2 DEF Free
<1>11. Shows'
  <2>1. served' = LedgerProjection' \/ \E r \in Interrupted' : served' = releases'[r].candidate.posts
    BY <1>2, <1>3, <1>4, <1>5 DEF Inv, Shows
  <2>. QED BY <1>0, <1>2, <2>1 DEF Shows
<1>12. Retains'
  <2>1. \/ UNCHANGED <<sites, head>>
        \/ head'.digest = d /\ \A e \in DOMAIN sites' : e \in DOMAIN sites \/ e = d
    BY <1>2 DEF L!InstallStartup, L!Put
  <2>2. head' # L!NoHead => head'.digest.posts = LedgerProjection'
    BY <1>4, <1>5, <2>1 DEF Inv, Retains
  <2>3. ASSUME NEW p \in DOMAIN LedgerProjection
        PROVE  \E s \in L!Successful : releases[s].post = p /\ releases[s].rev = LedgerProjection[p].rev
    <3>1. PICK s \in L!InState({"published"}) : releases[s].post = p
      BY ProjectionDomain
    <3>2. LedgerProjection[p] = [rev |-> releases[s].rev, since |-> L!PublicSince(p)]
      BY <1>1, <3>1, ProjectionAt
    <3>. QED BY <3>1, <3>2 DEF L!Successful, L!InState
  <2>4. \A e \in DOMAIN sites' : \A p \in DOMAIN e.posts :
          \E s \in L!Successful : releases[s].post = p /\ releases[s].rev = e.posts[p].rev
    <3>. SUFFICES ASSUME NEW e \in DOMAIN sites', NEW p \in DOMAIN e.posts
                  PROVE  \E s \in L!Successful : releases[s].post = p /\ releases[s].rev = e.posts[p].rev
      OBVIOUS
    <3>1. CASE e \in DOMAIN sites
      BY <3>1 DEF Inv, Retains
    <3>2. CASE e = d
      BY <1>5, <2>3, <3>2
    <3>. QED BY <2>1, <3>1, <3>2
  <2>. QED BY <1>2, <1>3, <2>2, <2>4 DEF Retains
<1>. QED BY <1>2, <1>7, <1>8, <1>9, <1>10, <1>11, <1>12 DEF Inv

-----------------------------------------------------------------------------
(* The coordinator keeps the ledger's invariant and its own. *)

LEMMA NothingPublic == releases = L!Empty => LedgerProjection = NoPosts
<1>1. releases = L!Empty => DOMAIN releases = {}
  BY DEF L!Empty
<1>2. releases = L!Empty => L!InState({"published"}) = {}
  BY <1>1 DEF L!InState
<1>. QED BY <1>2 DEF LedgerProjection, NoPosts

LEMMA InitSafe == Init => LP!IInv /\ Inv
<1>. SUFFICES ASSUME Init  PROVE LP!IInv /\ Inv
  OBVIOUS
<1>1. LP!IInv
  BY SameInit, LP!InitIInv, LedgerAssumed, CoordinatorConstants DEF Init
<1>2. /\ releases = L!Empty /\ DOMAIN releases = {} /\ sites = L!Empty /\ DOMAIN sites = {}
      /\ head = L!NoHead
      /\ retained = {} /\ tip \in Tips /\ clock = 1 /\ served = NoPosts
      /\ phase = "down" /\ memory = None /\ inflight = None /\ picked = None
  BY DEF Init, L!Init, L!Empty
<1>3. served = LedgerProjection
  BY <1>2, NothingPublic
<1>4. Interrupted = {}
  BY <1>2 DEF Interrupted, L!InState
<1>5. Typed
  BY <1>1, <1>2, <1>3, ProjectionTyped, CoordinatorConstants DEF Typed
<1>6. Posted /\ Coherent /\ Claims /\ Free /\ Shows
  BY <1>2, <1>3, <1>4 DEF Posted, Coherent, Claims, Free, Shows
<1>7. Retains
  BY <1>2 DEF Retains
<1>. QED BY <1>1, <1>5, <1>6, <1>7 DEF Inv

LEMMA StepSafe ==
  ASSUME LP!IInv, Inv, [Next]_vars
  PROVE  LedgerKept /\ Inv'
<1>1. LedgerKept
  BY StepOfLedger, LedgerStepKeeps DEF Inv
<1>2. CASE Command
  BY <1>1, <1>2, PublishNowSafe, ScheduleSafe, ChangeReleaseSafe, RetryReleaseSafe, ChangeTipSafe,
     ApplyContentCatalogSafe DEF Command
<1>3. CASE PickDue
  BY <1>1, <1>3, PickDueSafe
<1>4. CASE Deliver
  BY <1>1, <1>4, ActivateScheduledSafe, BlockScheduledSafe, AnsweredSafe DEF Deliver
<1>5. CASE Activate
  BY <1>1, <1>5, ActivateSnapshotSafe, FinishSafe, StopSafe DEF Activate
<1>6. CASE Shutdown
  BY <1>1, <1>6, ShutdownSafe
<1>7. CASE Exit \/ Crash
  BY <1>1, <1>7, StopSafe
<1>8. CASE Startup
  BY <1>1, <1>8, StartSafe DEF Startup
<1>9. CASE (\E tree \in Trees : RetainTree(tree)) \/ Tick \/ UNCHANGED vars
  BY <1>1, <1>9, AsideSafe
<1>. QED BY <1>1, <1>2, <1>3, <1>4, <1>5, <1>6, <1>7, <1>8, <1>9 DEF Next

LEMMA InvariantHolds == Spec => [](LP!IInv /\ Inv)
<1>1. LP!IInv /\ Inv /\ [Next]_vars => (LP!IInv /\ Inv)'
  BY StepSafe DEF LedgerKept
<1>. QED BY <1>1, InitSafe, PTL DEF Spec

(* Every step of the coordinator, the scheduler, content sync and startup is *)
(* a transaction of the ledger or leaves the ledger alone, so what holds of  *)
(* the ledger under any caller holds under this one.                         *)
THEOREM CoordinatorKeepsLedger == Spec => L!Spec
<1>1. LP!IInv /\ Inv /\ [Next]_vars => [L!Next]_(L!ledgerVars)
  BY StepOfLedger DEF Inv, ledger, L!ledgerVars
<1>2. Init => L!Init
  BY DEF Init
<1>. QED BY <1>1, <1>2, InvariantHolds, PTL DEF Spec, L!Spec

(* The coordinator's fields, the interrupted command, the scheduler's pick   *)
(* and what readers get are of their types in every reachable state.         *)
THEOREM CoordinatorTypeOK == Spec => []TypeOK
<1>1. Inv => TypeOK
  BY TypedImpliesTypeOK DEF Inv
<1>. QED BY <1>1, InvariantHolds, PTL

(* Between commands the coordinator's cache of the ledger is the ledger, for *)
(* any interleaving of commands, scheduler, content sync, crashes, restarts  *)
(* and refused finishes.                                                     *)
THEOREM CoordinatorCacheCoherent == Spec => []CacheCoherent
<1>1. ASSUME Inv  PROVE CacheCoherent
  <2>. SUFFICES ASSUME Idle
                PROVE  /\ memory.public = LedgerProjection /\ memory.site = head
                       /\ memory.scheduled = Rows({"scheduled"})
                       /\ memory.tip = tip /\ memory.snapshot.tip = tip
    BY DEF CacheCoherent
  <2>1. phase = "ready" /\ phase # "down" /\ Interrupted = {} /\ memory \in Memory
    BY <1>1 DEF Idle, Inv, Posted, Typed
  <2>2. memory.scheduled = [r \in DOMAIN memory.scheduled |-> memory.scheduled[r]]
    BY <2>1, FieldsOf, TablesOf
  <2>3. /\ DOMAIN memory.scheduled = L!InState({"scheduled"})
        /\ \A r \in DOMAIN memory.scheduled : memory.scheduled[r] = releases[r]
    BY <1>1, <2>1 DEF Inv, Coherent
  <2>4. memory.scheduled = Rows({"scheduled"})
    BY <2>2, <2>3, SameFunction DEF Rows
  <2>. QED BY <1>1, <2>1, <2>4 DEF Inv, Coherent
<1>. QED BY <1>1, InvariantHolds, PTL

(* Once readers have the new snapshot the finish is never rejected: the      *)
(* claim is still there, its routes are free, the head is the expected one   *)
(* and the site it retains is a new one.                                     *)
THEOREM CoordinatorFinishAccepted == Spec => []FinishAccepted
<1>1. ASSUME LP!IInv, Inv  PROVE FinishAccepted
  <2>. SUFFICES ASSUME inflight # None, inflight.swapped
                PROVE  /\ releases[inflight.release].state = "activating"
                       /\ RoutesStillFree
                       /\ head = memory.site
                       /\ ~L!FinishCorrupt(inflight.release)
    BY DEF FinishAccepted
  <2>0. PICK r : r = inflight.release
    OBVIOUS
  <2>1. phase # "down" /\ r \in Interrupted /\ RoutesStillFree /\ head = memory.site
    BY <1>1, <2>0 DEF Inv, Posted, Free, Coherent
  <2>2. r \in DOMAIN releases /\ releases[r].state = "activating"
    BY <2>1 DEF Interrupted, L!InState
  <2>3. releases[r].post \in Posts
    BY <1>1, <2>2, LedgerFacts, ApprovalTyped DEF L!TypeOK
  <2>4. releases[r].candidate \notin DOMAIN sites
    <3>. SUFFICES ASSUME releases[r].candidate \in DOMAIN sites  PROVE FALSE
      OBVIOUS
    <3>. DEFINE posts == releases[r].candidate.posts
    <3>0. posts = WithApproved(LedgerProjection, releases[r].post, releases[r].rev, releases[r].activationAt)
      BY <1>1, <2>1 DEF Inv, Claims
    <3>1. releases[r].post \in DOMAIN posts /\ posts[releases[r].post].rev = releases[r].rev
      BY <3>0 DEF WithApproved
    <3>2. PICK s \in L!Successful :
            releases[s].post = releases[r].post /\ releases[s].rev = releases[r].rev
      BY <1>1, <3>1 DEF Inv, Retains
    <3>3. s \in DOMAIN releases /\ releases[s].state \in {"published", "superseded"}
      BY DEF L!Successful, L!InState
    <3>4. s = r
      BY <1>1, <2>2, <3>2, <3>3, LedgerFacts DEF L!RevisionUsedOnce
    <3>. QED BY <2>2, <3>3, <3>4
  <2>5. ~L!FinishCorrupt(r)
    BY <1>1, <2>3, <2>4, LedgerFacts DEF L!FinishCorrupt, L!HistoryLoadable
  <2>. QED BY <2>0, <2>1, <2>2, <2>5
<1>. QED BY <1>1, InvariantHolds, PTL

-----------------------------------------------------------------------------
(* Nothing is activated before its time. *)

OnTime(row, now) ==
  /\ row.state \in {"activating", "published", "superseded"} /\ row.kind = "scheduled"
       => row.activationAt >= row.scheduledAt
  /\ row.state = "blocked" => row.scheduledAt <= now

AllOnTime ==
  /\ \A r \in DOMAIN releases : OnTime(releases[r], clock)
  /\ picked # None => picked.now <= clock

LEMMA PunctualRows == Punctual <=> AllOnTime
BY DEF Punctual, NeverEarly, AllOnTime, OnTime, L!InState

LEMMA ClockAdvances ==
  ASSUME Typed, [Next]_vars
  PROVE  clock \in Nat /\ clock' \in Nat /\ clock <= clock'
<1>1. clock \in Nat
  BY CoordinatorConstants DEF Typed
<1>2. clock' = clock \/ clock' = clock + 1
  BY DEF Next, Command, Deliver, Activate, Startup, vars, PublishNow, Schedule, ChangeRelease,
     RetryRelease, ChangeTip, RetainTree, ApplyContentCatalog, PickDue, ActivateScheduled,
     BlockScheduled, DropStalePick, SchedulerFails, ActivateSnapshot, ActivationConflict,
     FinishPublication, FinishRefused, Shutdown, Exit, Crash, Start, Tick
<1>. QED BY <1>1, <1>2

(* A step is on time when the rows it writes are. *)
LEMMA KeepsPunctual ==
  ASSUME LP!IInv, Punctual, clock \in Nat, clock' \in Nat, clock <= clock',
         picked \in Picks \cup {None},
         picked' \in {picked, None} \/ (picked' \in Picks /\ picked'.now <= clock'),
         \A r \in DOMAIN releases' :
           \/ r \in DOMAIN releases /\ releases'[r] = releases[r]
           \/ OnTime(releases'[r], clock')
  PROVE  Punctual'
<1>1. ASSUME NEW r \in DOMAIN releases', r \in DOMAIN releases, releases'[r] = releases[r]
      PROVE  OnTime(releases'[r], clock')
  <2>1. OnTime(releases[r], clock)
    BY <1>1, PunctualRows DEF AllOnTime
  <2>2. releases[r].scheduledAt \in Nat
    BY <1>1, LedgerFacts, CoordinatorConstants DEF L!TypeOK, L!Release
  <2>. QED BY <1>1, <2>1, <2>2 DEF OnTime
<1>2. picked' # None => picked'.now <= clock'
  <2>1. CASE picked' = picked /\ picked # None
    <3>1. picked.now \in Nat /\ picked.now <= clock
      BY <2>1, PunctualRows, CoordinatorConstants DEF AllOnTime, Picks
    <3>2. picked.now <= clock'
      BY <3>1
    <3>. QED BY <2>1, <3>2
  <2>. QED BY <2>1
<1>3. Punctual' <=> AllOnTime'
  BY PunctualRows, PTL
<1>. QED BY <1>1, <1>2, <1>3 DEF AllOnTime

LEMMA CommandPunctual ==
  ASSUME LP!IInv, Inv, Punctual, clock \in Nat, clock' \in Nat, clock <= clock', Command
  PROVE  Punctual'
<1>0. picked \in Picks \cup {None} /\ Typed /\ clock \in Times
  BY DEF Inv, Typed
<1>1. ASSUME NEW r \in Releases, NEW p \in Posts, NEW rev \in Revisions, PublishNow(r, p, rev)
      PROVE  Punctual'
  <2>1. /\ DOMAIN releases' = DOMAIN releases \cup {r} /\ picked' = picked
        /\ releases'[r].kind = "immediate" /\ releases'[r].state = "activating"
        /\ \A s \in DOMAIN releases : releases'[s] = releases[s]
    BY <1>1 DEF PublishNow, L!BeginPublishNow, L!Put
  <2>2. OnTime(releases'[r], clock')
    BY <2>1 DEF OnTime
  <2>. QED BY <1>0, <2>1, <2>2, KeepsPunctual
<1>2. ASSUME NEW r \in Releases, NEW p \in Posts, NEW rev \in Revisions, NEW at \in Times,
             Schedule(r, p, rev, at)
      PROVE  Punctual'
  <2>1. /\ DOMAIN releases' = DOMAIN releases \cup {r} /\ picked' = picked
        /\ releases'[r].state = "scheduled"
        /\ \A s \in DOMAIN releases : releases'[s] = releases[s]
    BY <1>2 DEF Schedule, L!SchedulePublication, L!Put
  <2>2. OnTime(releases'[r], clock')
    BY <2>1 DEF OnTime
  <2>. QED BY <1>0, <2>1, <2>2, KeepsPunctual
<1>3. ASSUME NEW r \in DOMAIN releases, ChangeRelease(r)
      PROVE  Punctual'
  <2>1. releases[r] \in L!Release
    BY LedgerFacts DEF L!TypeOK
  <2>2. /\ DOMAIN releases' = DOMAIN releases /\ picked' = picked
        /\ releases'[r].state \in {"scheduled", "cancelled"}
        /\ \A s \in DOMAIN releases : s # r => releases'[s] = releases[s]
    <3>1. picked' = picked
      BY <1>3 DEF ChangeRelease
    <3>2. PICK op \in Operations :
            \/ \E at \in Times : L!Reschedule(op, r, releases[r].version, clock, at)
            \/ L!Cancel(op, r, releases[r].version)
      BY <1>3 DEF ChangeRelease
    <3>3. CASE \E at \in Times : L!Reschedule(op, r, releases[r].version, clock, at)
      <4>1. PICK at \in Times : releases' = L!Put(releases, r, [releases[r] EXCEPT
              !.state = "scheduled", !.version = @ + 1, !.scheduledAt = at])
        BY <3>3 DEF L!Reschedule, L!ChangeRelease
      <4>. QED BY <2>1, <3>1, <4>1 DEF L!Put, L!Release
    <3>4. CASE L!Cancel(op, r, releases[r].version)
      BY <2>1, <3>1, <3>4 DEF L!Cancel, L!ChangeRelease, L!Put, L!Release
    <3>. QED BY <3>2, <3>3, <3>4
  <2>3. OnTime(releases'[r], clock')
    BY <2>2 DEF OnTime
  <2>. QED BY <1>0, <2>2, <2>3, KeepsPunctual
<1>4. ASSUME NEW r \in DOMAIN releases, RetryRelease(r)
      PROVE  Punctual'
  <2>1. /\ r \in L!InState({"blocked"}) /\ r \in L!InState({"scheduled", "blocked"}) /\ picked' = picked
    BY <1>4 DEF RetryRelease, L!InState
  <2>2. PICK op \in Operations : L!ClaimActivation(r, releases[r].version, memory.site, clock,
                                                  ApprovedCandidate(releases[r], clock))
    BY <1>4 DEF RetryRelease, L!BeginRetry
  <2>3. /\ releases'[r].activationAt = clock /\ releases'[r].scheduledAt = releases[r].scheduledAt
        /\ Writes(r) /\ r \in Interrupted'
    BY <2>1, <2>2, ClaimWrites
  <2>4. releases[r].scheduledAt <= clock /\ releases[r].scheduledAt \in Nat
    BY <2>1, LedgerFacts, CoordinatorConstants DEF Punctual, L!TypeOK, L!Release
  <2>5. OnTime(releases'[r], clock')
    BY <2>3, <2>4 DEF OnTime, Interrupted, L!InState
  <2>6. DOMAIN releases' = DOMAIN releases /\ \A s \in DOMAIN releases : s # r => releases'[s] = releases[s]
    BY <2>3 DEF Writes
  <2>. QED BY <1>0, <2>1, <2>5, <2>6, KeepsPunctual
<1>5. ASSUME UNCHANGED <<releases, picked>>  PROVE Punctual'
  BY <1>0, <1>5, KeepsPunctual
<1>6. ASSUME NEW tree \in Trees, ApplyContentCatalog(tree)  PROVE UNCHANGED <<releases, picked>>
  BY <1>6 DEF ApplyContentCatalog, L!IndexContentCatalog
<1>7. ASSUME NEW recipient \in Tips, ChangeTip(recipient)  PROVE UNCHANGED <<releases, picked>>
  <2>1. phase \in {"ready", "draining"}
    BY <1>0, <1>7, Alive DEF ChangeTip
  <2>. QED BY <1>7, <2>1 DEF ChangeTip, FailClosed, ledger
<1>. QED BY <1>1, <1>2, <1>3, <1>4, <1>5, <1>6, <1>7 DEF Command

LEMMA DeliverPunctual ==
  ASSUME LP!IInv, Inv, Punctual, clock \in Nat, clock' \in Nat, clock <= clock', Deliver
  PROVE  Punctual'
<1>0. picked \in Picks \cup {None} /\ Typed /\ clock \in Times
  BY DEF Inv, Typed
<1>1. CASE ActivateScheduled
  <2>0. PICK r : r = picked.release
    OBVIOUS
  <2>1. /\ picked' = None
        /\ r \in L!InState({"scheduled", "blocked"})
        /\ releases[r].scheduledAt <= picked.now
        /\ \E version, candidate : L!ClaimActivation(r, version, memory.site, picked.now, candidate)
    BY <1>1, <2>0 DEF ActivateScheduled, Delivered, L!BeginDueActivation, L!InState
  <2>2. /\ releases'[r].activationAt = picked.now /\ releases'[r].scheduledAt = releases[r].scheduledAt
        /\ Writes(r) /\ r \in Interrupted'
    BY <2>1, ClaimWrites
  <2>3. picked.now \in Nat /\ releases[r].scheduledAt \in Nat
    <3>1. picked \in Picks
      BY <1>0, <1>1 DEF ActivateScheduled, Delivered
    <3>. QED BY <2>1, <3>1, LedgerFacts, CoordinatorConstants DEF Picks, L!InState, L!TypeOK, L!Release
  <2>4. OnTime(releases'[r], clock')
    BY <2>1, <2>2, <2>3 DEF OnTime, Interrupted, L!InState
  <2>5. DOMAIN releases' = DOMAIN releases /\ \A s \in DOMAIN releases : s # r => releases'[s] = releases[s]
    BY <2>1, <2>2 DEF Writes, L!InState
  <2>. QED BY <1>0, <2>1, <2>4, <2>5, KeepsPunctual
<1>2. CASE BlockScheduled
  <2>0. PICK r : r = picked.release
    OBVIOUS
  <2>1. /\ picked' = None /\ picked # None
        /\ r \in DOMAIN releases /\ DOMAIN releases' = DOMAIN releases
        /\ \A s \in DOMAIN releases : s # r => releases'[s] = releases[s]
        /\ releases[r].scheduledAt <= picked.now
        /\ releases'[r] = [releases[r] EXCEPT
             !.state = "blocked", !.version = @ + 2, !.activationAt = picked.now]
    BY <1>2, <2>0 DEF BlockScheduled, Delivered, L!BlockScheduled, L!Put, L!InState
  <2>2. releases'[r].state = "blocked" /\ releases'[r].scheduledAt = releases[r].scheduledAt
    BY <2>1, LedgerFacts DEF L!TypeOK, L!Release
  <2>3. picked.now <= clock /\ picked.now \in Nat /\ releases[r].scheduledAt \in Nat
    <3>1. picked.now <= clock
      BY <2>1 DEF Punctual
    <3>2. picked \in Picks
      BY <1>0, <2>1
    <3>. QED BY <2>1, <3>1, <3>2, LedgerFacts, CoordinatorConstants DEF Picks, L!TypeOK, L!Release
  <2>4. OnTime(releases'[r], clock')
    <3>1. releases[r].scheduledAt <= clock'
      BY <2>1, <2>3
    <3>. QED BY <2>2, <3>1 DEF OnTime
  <2>. QED BY <1>0, <2>1, <2>4, KeepsPunctual
<1>3. CASE DropStalePick \/ SchedulerFails
  <2>1. UNCHANGED releases /\ picked' = None
    BY <1>0, <1>3, AnsweredTyped DEF ledger
  <2>. QED BY <1>0, <2>1, KeepsPunctual
<1>. QED BY <1>1, <1>2, <1>3 DEF Deliver

LEMMA FinishPunctual ==
  ASSUME LP!IInv, Inv, Punctual, clock \in Nat, clock' \in Nat, clock <= clock', FinishPublication
  PROVE  Punctual'
<1>0. PICK r : r = inflight.release
  OBVIOUS
<1>1. /\ L!FinishActivation(r, releases[r].version, memory.site, releases[r].candidate)
      /\ picked' = picked /\ picked \in Picks \cup {None}
  BY <1>0 DEF FinishPublication, Inv, Typed
<1>2. DOMAIN releases' = DOMAIN releases
  BY <1>1 DEF L!FinishActivation
<1>3. ASSUME NEW s \in DOMAIN releases, releases'[s] # releases[s]
      PROVE  OnTime(releases'[s], clock')
  <2>1. releases[s] \in L!Release
    BY LedgerFacts DEF L!TypeOK
  <2>2. releases[s].state \in {"activating", "published"}
    BY <1>1, <1>3 DEF L!FinishActivation, L!InState, L!Published
  <2>3. /\ releases'[s].kind = releases[s].kind /\ releases'[s].activationAt = releases[s].activationAt
        /\ releases'[s].scheduledAt = releases[s].scheduledAt
        /\ releases'[s].state \in {"published", "superseded"}
    BY <1>1, <1>3, <2>1 DEF L!FinishActivation, L!InState, L!Published, L!Release
  <2>4. OnTime(releases[s], clock)
    BY PunctualRows DEF AllOnTime
  <2>. QED BY <2>2, <2>3, <2>4 DEF OnTime
<1>. QED BY <1>1, <1>2, <1>3, KeepsPunctual

LEMMA StepPunctual ==
  ASSUME LP!IInv, Inv, Punctual, [Next]_vars
  PROVE  Punctual'
<1>0. Typed /\ Posted /\ picked \in Picks \cup {None} /\ clock \in Times
  BY DEF Inv, Typed
<1>1. clock \in Nat /\ clock' \in Nat /\ clock <= clock'
  BY <1>0, ClockAdvances
<1>2. ASSUME UNCHANGED releases, picked' \in {picked, None}  PROVE Punctual'
  BY <1>0, <1>1, <1>2, KeepsPunctual
<1>3. CASE PickDue
  <2>1. UNCHANGED <<releases, clock>> /\ picked' \in Picks /\ picked'.now = clock
    BY <1>0, <1>3, PickDueTyped DEF PickDue, ledger
  <2>. QED BY <1>0, <1>1, <2>1, KeepsPunctual
<1>4. CASE ActivationConflict \/ FinishRefused \/ Exit \/ Crash
  BY <1>0, <1>2, <1>4, StopTyped DEF ledger
<1>5. CASE ActivateSnapshot \/ Shutdown \/ Tick \/ UNCHANGED vars \/ \E tree \in Trees : RetainTree(tree)
  BY <1>2, <1>5 DEF ActivateSnapshot, Shutdown, Tick, vars, RetainTree, ledger, process
<1>6. CASE Startup
  BY <1>2, <1>6 DEF Startup, Start, L!InstallStartup
<1>. QED BY <1>1, <1>3, <1>4, <1>5, <1>6, CommandPunctual, DeliverPunctual, FinishPunctual DEF Next, Activate

LEMMA PunctualHolds == Spec => []Punctual
<1>1. Init => Punctual
  BY DEF Init, L!Init, L!Empty, Punctual, NeverEarly, L!InState
<1>2. LP!IInv /\ Inv /\ Punctual /\ [Next]_vars => Punctual'
  BY StepPunctual
<1>. QED BY <1>1, <1>2, InvariantHolds, PTL DEF Spec

(* A scheduled release is never activated before its time, whatever was      *)
(* rescheduled, blocked, retried or recovered after the scheduler read it.   *)
THEOREM CoordinatorNeverEarly == Spec => []NeverEarly
<1>1. Punctual => NeverEarly
  BY DEF Punctual
<1>. QED BY <1>1, PunctualHolds, PTL

-----------------------------------------------------------------------------
(* What readers get implements PublicSite. *)

Approved == Pins(Rows({"scheduled", "activating", "blocked"}))

(* The approvals in force are those of the pending releases. *)
ApprovedArePending == Approved = {<<releases[r].post, releases[r].rev>> : r \in L!Pending}

LEMMA ApprovedAre == ApprovedArePending
<1>. DEFINE rows == Rows({"scheduled", "activating", "blocked"})
<1>1. DOMAIN rows = L!Pending /\ \A r \in DOMAIN rows : rows[r] = releases[r]
  BY DEF Rows, L!Pending
<1>. HIDE DEF rows
<1>2. Pins(rows) = {<<releases[r].post, releases[r].rev>> : r \in L!Pending}
  BY <1>1 DEF Pins
<1>. QED BY <1>2 DEF ApprovedArePending, Approved, rows

LEMMA SiteStep ==
  /\ Site!vars = <<served, Approved>>
  /\ \A p, rev : Site!Approve(p, rev) <=>
       Approved' = Approved \cup {<<p, rev>>} /\ served' = served
  /\ \A p, rev : Site!Shown(p, rev) <=> p \in DOMAIN served /\ served[p].rev = rev
  /\ \A p, rev : Site!Withdraw(p, rev) <=>
       ~Site!Shown(p, rev) /\ Approved' = Approved \ {<<p, rev>>} /\ served' = served
  /\ \A p, rev : Site!Settle(p, rev) <=>
       Site!Shown(p, rev) /\ Approved' = Approved \ {<<p, rev>>} /\ served' = served
  /\ \A p, rev, at : Site!Reveal(p, rev, at) <=>
       /\ <<p, rev>> \in Approved
       /\ served' = WithApproved(served, p, rev, at)
       /\ Approved' \in {Approved, Approved \ {<<p, rev>>}}
<1>1. Site!vars = <<served, Approved>>
  BY DEF Site!vars, Approved
<1>2. \A p, rev : Site!Approve(p, rev) <=>
       Approved' = Approved \cup {<<p, rev>>} /\ served' = served
  BY DEF Site!Approve, Approved
<1>3. \A p, rev : Site!Shown(p, rev) <=> p \in DOMAIN served /\ served[p].rev = rev
  BY DEF Site!Shown
<1>4. \A p, rev : Site!Withdraw(p, rev) <=>
       ~Site!Shown(p, rev) /\ Approved' = Approved \ {<<p, rev>>} /\ served' = served
  BY DEF Site!Withdraw, Approved
<1>5. \A p, rev : Site!Settle(p, rev) <=>
       Site!Shown(p, rev) /\ Approved' = Approved \ {<<p, rev>>} /\ served' = served
  BY DEF Site!Settle, Approved
<1>6. \A p, rev, at : Site!Reveal(p, rev, at) <=>
       /\ <<p, rev>> \in Approved
       /\ served' = WithApproved(served, p, rev, at)
       /\ Approved' \in {Approved, Approved \ {<<p, rev>>}}
  BY DEF Site!Reveal, Approved, WithApproved
<1>. QED BY <1>1, <1>2, <1>3, <1>4, <1>5, <1>6

LEMMA SiteStill ==
  ASSUME served' = served, Approved' = Approved
  PROVE  UNCHANGED Site!vars
BY DEF Site!vars, Approved

(* Pending releases that keep their post and revision keep the approvals. *)
LEMMA ApprovedKept ==
  ASSUME L!Pending' = L!Pending,
         \A r \in L!Pending : releases'[r].post = releases[r].post /\ releases'[r].rev = releases[r].rev
  PROVE  Approved' = Approved
<1>1. ApprovedArePending /\ ApprovedArePending'
  BY ApprovedAre, PTL
<1>. QED BY <1>1 DEF ApprovedArePending

(* An approval in force ends with the only pending release of its post. *)
LEMMA ApprovedEnds ==
  ASSUME LP!IInv, NEW r \in L!Pending, L!Pending' = L!Pending \ {r},
         \A s \in L!Pending : releases'[s].post = releases[s].post /\ releases'[s].rev = releases[s].rev
  PROVE  Approved' = Approved \ {<<releases[r].post, releases[r].rev>>}
<1>1. ApprovedArePending /\ ApprovedArePending'
  BY ApprovedAre, PTL
<1>2. \A s \in L!Pending : releases[s].post = releases[r].post => s = r
  BY LedgerFacts DEF L!OnePendingPerPost
<1>. QED BY <1>1, <1>2 DEF ApprovedArePending

LEMMA ApprovedAdded ==
  ASSUME NEW r, NEW p, NEW rev, L!Pending' = L!Pending \cup {r}, r \notin L!Pending,
         releases'[r].post = p, releases'[r].rev = rev,
         \A s \in L!Pending : releases'[s].post = releases[s].post /\ releases'[s].rev = releases[s].rev
  PROVE  Approved' = Approved \cup {<<p, rev>>}
<1>1. ApprovedArePending /\ ApprovedArePending'
  BY ApprovedAre, PTL
<1>. QED BY <1>1 DEF ApprovedArePending

(* What is scheduled or blocked has not been shown to anybody. *)
LEMMA NotShown ==
  ASSUME LP!IInv, Inv, NEW r \in L!InState({"scheduled", "blocked"})
  PROVE  ~Site!Shown(releases[r].post, releases[r].rev)
<1>. SUFFICES ASSUME releases[r].post \in DOMAIN served,
                     served[releases[r].post].rev = releases[r].rev
              PROVE  FALSE
  BY SiteStep
<1>0. PICK p : p = releases[r].post
  OBVIOUS
<1>1. r \in DOMAIN releases /\ releases[r].state \in {"scheduled", "blocked"}
  BY DEF L!InState
<1>2. ASSUME p \in DOMAIN LedgerProjection, LedgerProjection[p].rev = releases[r].rev  PROVE FALSE
  <2>1. PICK s \in L!InState({"published"}) : releases[s].post = p
    BY <1>2, ProjectionDomain
  <2>2. LedgerProjection[p] = [rev |-> releases[s].rev, since |-> L!PublicSince(p)]
    BY <2>1, ProjectionAt
  <2>3. s \in DOMAIN releases /\ releases[s].state = "published"
    BY DEF L!InState
  <2>4. s = r
    BY <1>0, <1>1, <1>2, <2>1, <2>2, <2>3, LedgerFacts DEF L!RevisionUsedOnce
  <2>. QED BY <1>1, <2>3, <2>4
<1>3. ASSUME NEW s \in Interrupted, served = releases[s].candidate.posts  PROVE FALSE
  <2>1. served = WithApproved(LedgerProjection, releases[s].post, releases[s].rev, releases[s].activationAt)
    BY <1>3 DEF Inv, Claims
  <2>2. s \in DOMAIN releases /\ releases[s].state = "activating"
    BY DEF Interrupted, L!InState
  <2>3. CASE p = releases[s].post
    <3>1. served[p].rev = releases[s].rev
      BY <2>1, <2>3 DEF WithApproved
    <3>2. s = r
      BY <1>0, <1>1, <2>2, <2>3, <3>1, LedgerFacts DEF L!RevisionUsedOnce
    <3>. QED BY <1>1, <2>2, <3>2
  <2>4. CASE p # releases[s].post
    <3>1. p \in DOMAIN LedgerProjection /\ served[p] = LedgerProjection[p]
      BY <1>0, <2>1, <2>4 DEF WithApproved
    <3>. QED BY <1>0, <1>2, <3>1
  <2>. QED BY <2>3, <2>4
<1>. QED BY <1>0, <1>2, <1>3 DEF Inv, Shows

(* While the snapshot is the site the head names, readers have the ledger's  *)
(* public posts.                                                             *)
LEMMA ServedIsLedger ==
  ASSUME Inv, phase \in {"ready", "draining"}, memory.snapshot.digest = memory.site.digest
  PROVE  served = LedgerProjection
<1>1. memory \in Memory /\ memory.site = head /\ served = memory.snapshot.digest.posts
  BY DEF Inv, Typed, Coherent, Shows
<1>2. head.digest \in Digests
  BY <1>1, FieldsOf
<1>3. head # L!NoHead
  BY <1>2, CoordinatorConstants DEF L!NoHead
<1>. QED BY <1>1, <1>3 DEF Inv, Retains

LEMMA ApproveImplements ==
  ASSUME NEW r \in Releases, NEW p \in Posts, NEW rev \in Revisions,
         PublishNow(r, p, rev) \/ \E at \in Times : Schedule(r, p, rev, at)
  PROVE  Site!Next
<1>1. /\ r \notin DOMAIN releases /\ DOMAIN releases' = DOMAIN releases \cup {r} /\ served' = served
      /\ \A s \in DOMAIN releases : releases'[s] = releases[s]
      /\ releases'[r].state \in {"scheduled", "activating"}
      /\ releases'[r].post = p /\ releases'[r].rev = rev
  <2>1. CASE PublishNow(r, p, rev)
    BY <2>1 DEF PublishNow, L!BeginPublishNow, L!Put
  <2>2. CASE \E at \in Times : Schedule(r, p, rev, at)
    BY <2>2 DEF Schedule, L!SchedulePublication, L!Put
  <2>. QED BY <2>1, <2>2
<1>2. L!Pending' = L!Pending \cup {r} /\ r \notin L!Pending
  BY <1>1 DEF L!Pending, L!InState
<1>3. \A s \in L!Pending : releases'[s].post = releases[s].post /\ releases'[s].rev = releases[s].rev
  BY <1>1 DEF L!Pending, L!InState
<1>4. Approved' = Approved \cup {<<p, rev>>}
  BY <1>1, <1>2, <1>3, ApprovedAdded
<1>. QED BY <1>1, <1>4, SiteStep DEF Site!Next

LEMMA ChangeImplements ==
  ASSUME LP!IInv, Inv, NEW r \in DOMAIN releases, ChangeRelease(r)
  PROVE  [Site!Next]_(Site!vars)
<1>1. releases[r] \in L!Release /\ served' = served
  BY LedgerFacts DEF L!TypeOK, ChangeRelease
<1>2. PICK op \in Operations :
        \/ \E at \in Times : L!Reschedule(op, r, releases[r].version, clock, at)
        \/ L!Cancel(op, r, releases[r].version)
  BY DEF ChangeRelease
<1>3. CASE \E at \in Times : L!Reschedule(op, r, releases[r].version, clock, at)
  <2>1. PICK at \in Times :
          /\ releases[r].state = "scheduled"
          /\ releases' = L!Put(releases, r, [releases[r] EXCEPT
               !.state = "scheduled", !.version = @ + 1, !.scheduledAt = at])
    BY <1>3 DEF L!Reschedule, L!ChangeRelease, L!InState
  <2>2. /\ DOMAIN releases' = DOMAIN releases
        /\ \A s \in DOMAIN releases : releases'[s].state = releases[s].state
             /\ releases'[s].post = releases[s].post /\ releases'[s].rev = releases[s].rev
    BY <1>1, <2>1 DEF L!Put, L!Release
  <2>3. Approved' = Approved
    BY <2>2, ApprovedKept DEF L!Pending, L!InState
  <2>. QED BY <1>1, <2>3, SiteStill
<1>4. CASE L!Cancel(op, r, releases[r].version)
  <2>1. /\ releases[r].state \in {"scheduled", "blocked"}
        /\ releases' = L!Put(releases, r, [releases[r] EXCEPT
             !.state = "cancelled", !.version = @ + 1, !.scheduledAt = releases[r].scheduledAt])
    BY <1>4 DEF L!Cancel, L!ChangeRelease, L!InState
  <2>2. /\ DOMAIN releases' = DOMAIN releases
        /\ \A s \in DOMAIN releases :
             releases'[s].post = releases[s].post /\ releases'[s].rev = releases[s].rev
        /\ \A s \in DOMAIN releases : s # r => releases'[s].state = releases[s].state
        /\ releases'[r].state = "cancelled"
    BY <1>1, <2>1 DEF L!Put, L!Release
  <2>3. r \in L!Pending /\ L!Pending' = L!Pending \ {r}
    BY <2>1, <2>2 DEF L!Pending, L!InState
  <2>4. Approved' = Approved \ {<<releases[r].post, releases[r].rev>>}
    <3>1. L!Pending \subseteq DOMAIN releases
      BY DEF L!Pending, L!InState
    <3>. QED BY <2>2, <2>3, <3>1, ApprovedEnds
  <2>5. ~Site!Shown(releases[r].post, releases[r].rev)
    <3>1. r \in L!InState({"scheduled", "blocked"})
      BY <2>1 DEF L!InState
    <3>. QED BY <3>1, NotShown
  <2>6. releases[r].post \in Posts /\ releases[r].rev \in Revisions
    BY <1>1, ApprovalTyped
  <2>. QED BY <1>1, <2>4, <2>5, <2>6, SiteStep DEF Site!Next
<1>. QED BY <1>2, <1>3, <1>4

(* Claims and blocks move a pending release on and show nobody anything. *)
LEMMA PendingImplements ==
  ASSUME LP!IInv, Inv,
         (\E r \in DOMAIN releases : RetryRelease(r)) \/ ActivateScheduled \/ BlockScheduled
  PROVE  UNCHANGED Site!vars
<1>1. ASSUME NEW r \in DOMAIN releases, r \in L!Pending, DOMAIN releases' = DOMAIN releases,
             \A s \in DOMAIN releases : s # r => releases'[s] = releases[s],
             releases'[r].state \in {"activating", "blocked"}, served' = served,
             releases'[r].post = releases[r].post, releases'[r].rev = releases[r].rev
      PROVE  UNCHANGED Site!vars
  <2>1. L!Pending' = L!Pending
    BY <1>1 DEF L!Pending, L!InState
  <2>2. \A s \in L!Pending : releases'[s].post = releases[s].post /\ releases'[s].rev = releases[s].rev
    BY <1>1 DEF L!Pending, L!InState
  <2>. QED BY <1>1, <2>1, <2>2, ApprovedKept, SiteStill
<1>2. ASSUME NEW r \in L!InState({"scheduled", "blocked"}), served' = served,
             \E version, now, candidate : L!ClaimActivation(r, version, memory.site, now, candidate)
      PROVE  UNCHANGED Site!vars
  <2>1. /\ Writes(r) /\ r \in Interrupted'
        /\ releases'[r].post = releases[r].post /\ releases'[r].rev = releases[r].rev
    BY <1>2, ClaimWrites
  <2>2. r \in DOMAIN releases /\ r \in L!Pending
    BY DEF L!InState, L!Pending
  <2>3. releases'[r].state = "activating"
    BY <2>1 DEF Interrupted, L!InState
  <2>4. DOMAIN releases' = DOMAIN releases /\ \A s \in DOMAIN releases : s # r => releases'[s] = releases[s]
    BY <2>1, <2>2 DEF Writes
  <2>. QED BY <1>1, <1>2, <2>1, <2>2, <2>3, <2>4
<1>3. ASSUME NEW r \in DOMAIN releases, RetryRelease(r)  PROVE UNCHANGED Site!vars
  BY <1>2, <1>3 DEF RetryRelease, L!BeginRetry, L!InState
<1>4. CASE ActivateScheduled
  <2>1. PICK r : r = picked.release
    OBVIOUS
  <2>2. /\ r \in L!InState({"scheduled", "blocked"}) /\ served' = served
        /\ \E version, now, candidate : L!ClaimActivation(r, version, memory.site, now, candidate)
    BY <1>4, <2>1 DEF ActivateScheduled, L!BeginDueActivation, L!InState
  <2>. QED BY <1>2, <2>2
<1>5. CASE BlockScheduled
  <2>1. PICK r : r = picked.release
    OBVIOUS
  <2>2. /\ r \in DOMAIN releases /\ DOMAIN releases' = DOMAIN releases /\ served' = served
        /\ \A s \in DOMAIN releases : s # r => releases'[s] = releases[s]
        /\ releases[r].state = "scheduled"
        /\ releases'[r] = [releases[r] EXCEPT
             !.state = "blocked", !.version = @ + 2, !.activationAt = picked.now]
    BY <1>5, <2>1 DEF BlockScheduled, L!BlockScheduled, L!Put, L!InState
  <2>3. /\ releases'[r].state = "blocked"
        /\ releases'[r].post = releases[r].post /\ releases'[r].rev = releases[r].rev
    BY <2>2, LedgerFacts DEF L!TypeOK, L!Release
  <2>4. r \in L!Pending
    BY <2>2 DEF L!Pending, L!InState
  <2>. QED BY <1>1, <2>2, <2>3, <2>4
<1>. QED BY <1>3, <1>4, <1>5

(* The swap reveals an approved revision while the process serves. *)
LEMMA ActivateImplements ==
  ASSUME LP!IInv, Inv, ActivateSnapshot
  PROVE  [Site!Next]_(Site!vars)
<1>0. PICK r : r = inflight.release
  OBVIOUS
<1>1. /\ Typed /\ Posted /\ memory.snapshot.digest = memory.site.digest
  BY DEF Inv, ActivateSnapshot
<1>2. /\ UNCHANGED releases /\ inflight # None
      /\ served' = IF phase \in {"ready", "draining"} THEN releases[r].candidate.posts ELSE served
  BY <1>0, <1>1, ActivateSnapshotTyped DEF ledger
<1>3. r \in Interrupted /\ r \in L!Pending /\ r \in L!InState({"activating"})
  BY <1>0, <1>1, <1>2 DEF Posted, Interrupted, L!Pending, L!InState
<1>4. Approved' = Approved
  BY <1>2 DEF Approved, Pins, Rows, L!InState
<1>5. CASE phase \in {"ready", "draining"}
  <2>1. served' = WithApproved(served, releases[r].post, releases[r].rev, releases[r].activationAt)
    BY <1>1, <1>2, <1>3, <1>5, ServedIsLedger DEF Inv, Claims
  <2>2. <<releases[r].post, releases[r].rev>> \in Approved
    BY <1>3, ApprovedAre DEF ApprovedArePending
  <2>3. releases[r].post \in Posts /\ releases[r].rev \in Revisions /\ releases[r].activationAt \in Times
    BY <1>3, DigestsHeld, ApprovalTyped
  <2>4. Site!Reveal(releases[r].post, releases[r].rev, releases[r].activationAt)
    BY <1>4, <2>1, <2>2, SiteStep
  <2>. QED BY <2>3, <2>4 DEF Site!Next
<1>6. CASE phase \notin {"ready", "draining"}
  BY <1>2, <1>4, <1>6, SiteStill
<1>. QED BY <1>5, <1>6

(* The finish settles what was revealed, or reveals what recovery restored. *)
LEMMA FinishImplements ==
  ASSUME LedgerKept, Inv, FinishPublication
  PROVE  [Site!Next]_(Site!vars)
<1>0. PICK r : r = inflight.release
  OBVIOUS
<1>1. Typed /\ Posted /\ Claims /\ LP!IInv /\ LP!IInv' /\ inflight # None /\ inflight.swapped
  BY DEF Inv, LedgerKept, FinishPublication
<1>2. LP!Finished(r) /\ Interrupted = {r}
  BY <1>0, <1>1, FinishEffect
<1>3. /\ served' = releases[r].candidate.posts /\ phase # "down"
      /\ phase \in {"ready", "draining"} => served = releases[r].candidate.posts
  BY <1>0, <1>1, FinishTyped DEF Inv, Shows
<1>4. r \in L!Pending /\ r \in L!InState({"activating"})
  BY <1>2 DEF Interrupted, L!Pending, L!InState
<1>5. /\ L!Pending' = L!Pending \ {r}
      /\ \A s \in L!Pending : releases'[s].post = releases[s].post /\ releases'[s].rev = releases[s].rev
  <2>1. ASSUME NEW s \in DOMAIN releases
        PROVE  s \in L!Pending' <=> s \in L!Pending /\ s # r
    BY <1>2, <2>1 DEF LP!Finished, L!Pending, L!InState
  <2>2. DOMAIN releases' = DOMAIN releases
    BY <1>2 DEF LP!Finished
  <2>3. L!Pending' = L!Pending \ {r}
    BY <2>1, <2>2 DEF L!Pending, L!InState
  <2>4. \A s \in L!Pending : releases'[s].post = releases[s].post /\ releases'[s].rev = releases[s].rev
    BY <1>2 DEF LP!Finished, L!Pending, L!InState
  <2>. QED BY <2>3, <2>4
<1>6. Approved' = Approved \ {<<releases[r].post, releases[r].rev>>}
  BY <1>1, <1>4, <1>5, ApprovedEnds
<1>7. releases[r].post \in Posts /\ releases[r].rev \in Revisions /\ releases[r].activationAt \in Times
  BY <1>1, <1>4, DigestsHeld, ApprovalTyped
<1>8. releases[r].candidate.posts =
        WithApproved(LedgerProjection, releases[r].post, releases[r].rev, releases[r].activationAt)
  BY <1>1, <1>2 DEF Claims
<1>9. CASE served = releases[r].candidate.posts
  <2>0. releases[r].post \in DOMAIN served /\ served[releases[r].post].rev = releases[r].rev
    BY <1>8, <1>9 DEF WithApproved
  <2>1. Site!Shown(releases[r].post, releases[r].rev)
    BY <2>0, SiteStep
  <2>2. Site!Settle(releases[r].post, releases[r].rev)
    BY <1>3, <1>6, <1>9, <2>1, SiteStep
  <2>. QED BY <1>7, <2>2 DEF Site!Next
<1>10. CASE served = LedgerProjection
  <2>1. <<releases[r].post, releases[r].rev>> \in Approved
    BY <1>4, ApprovedAre DEF ApprovedArePending
  <2>2. Site!Reveal(releases[r].post, releases[r].rev, releases[r].activationAt)
    BY <1>3, <1>6, <1>8, <1>10, <2>1, SiteStep
  <2>. QED BY <1>7, <2>2 DEF Site!Next
<1>. QED BY <1>2, <1>9, <1>10 DEF Inv, Shows

(* Everything else leaves readers and approvals alone: a change of tips and  *)
(* a start show again what is public.                                        *)
LEMMA StartImplements ==
  ASSUME LP!IInv, LP!IInv', Inv, NEW tree \in Trees, Start(tree)
  PROVE  UNCHANGED Site!vars
<1>1. Typed /\ Retains
  BY DEF Inv
<1>2. /\ UNCHANGED releases
      /\ memory'.snapshot.digest.posts = LedgerProjection
      /\ \/ Interrupted = {} /\ served' = memory'.snapshot.digest.posts
         \/ served' = served
  BY <1>1, StartTyped DEF Retains
<1>3. Approved' = Approved
  BY <1>2 DEF Approved, Pins, Rows, L!InState
<1>4. served' = served
  BY <1>2 DEF Inv, Shows
<1>. QED BY <1>3, <1>4, SiteStill

LEMMA TipImplements ==
  ASSUME Inv, NEW recipient \in Tips, ChangeTip(recipient)
  PROVE  UNCHANGED Site!vars
<1>1. Typed /\ phase \in {"ready", "draining"} /\ UNCHANGED releases
  BY Alive DEF Inv, ChangeTip, ledger
<1>2. memory.public = LedgerProjection
  BY <1>1 DEF Inv, Coherent
<1>3. served' = served
  BY <1>1, <1>2, ChangeTipTyped, ServedIsLedger
<1>4. Approved' = Approved
  BY <1>1 DEF Approved, Pins, Rows, L!InState
<1>. QED BY <1>3, <1>4, SiteStill

LEMMA QuietImplements == ASSUME UNCHANGED <<releases, served>> PROVE UNCHANGED Site!vars
<1>1. Approved' = Approved
  BY DEF Approved, Pins, Rows, L!InState
<1>. QED BY <1>1, SiteStill

LEMMA StepImplements ==
  ASSUME LP!IInv, Inv, [Next]_vars
  PROVE  [Site!Next]_(Site!vars)
<1>1. LedgerKept /\ LP!IInv' /\ Typed /\ Posted
  BY StepSafe DEF LedgerKept, Inv
<1>2. CASE Command
  <2>1. ASSUME NEW tree \in Trees, ApplyContentCatalog(tree)  PROVE UNCHANGED <<releases, served>>
    BY <2>1 DEF ApplyContentCatalog, L!IndexContentCatalog
  <2>. QED BY <1>2, <2>1, ApproveImplements, ChangeImplements, PendingImplements, TipImplements,
           QuietImplements DEF Command
<1>3. CASE Deliver
  <2>1. DropStalePick \/ SchedulerFails => UNCHANGED <<releases, served>>
    BY <1>1, AnsweredTyped DEF ledger
  <2>. QED BY <1>3, <2>1, PendingImplements, QuietImplements DEF Deliver
<1>4. CASE Activate
  <2>1. ActivationConflict \/ FinishRefused => UNCHANGED <<releases, served>>
    BY <1>1, StopTyped DEF ledger
  <2>. QED BY <1>1, <1>4, <2>1, ActivateImplements, FinishImplements, QuietImplements DEF Activate
<1>5. CASE Startup
  BY <1>1, <1>5, StartImplements DEF Startup
<1>6. CASE PickDue \/ Shutdown \/ Exit \/ Crash \/ Tick \/ UNCHANGED vars
           \/ (\E tree \in Trees : RetainTree(tree))
  <2>1. Exit \/ Crash => UNCHANGED <<releases, served>>
    BY <1>1, StopTyped DEF ledger
  <2>2. PickDue \/ Shutdown \/ Tick \/ UNCHANGED vars \/ (\E tree \in Trees : RetainTree(tree))
          => UNCHANGED <<releases, served>>
    BY DEF PickDue, Shutdown, Tick, vars, RetainTree, ledger
  <2>. QED BY <1>6, <2>1, <2>2, QuietImplements
<1>. QED BY <1>2, <1>3, <1>4, <1>5, <1>6 DEF Next

(* Readers: a post, once public, stays public, keeps the time it was first   *)
(* published and moves only to a revision somebody approved and has not      *)
(* withdrawn, through crashes, refused finishes and restarts.                *)
THEOREM CoordinatorImplementsSite == Spec => ImplementsSite
<1>1. Init => Site!Init
  <2>. SUFFICES ASSUME Init  PROVE Site!Init
    OBVIOUS
  <2>1. releases = L!Empty /\ served = NoPosts /\ DOMAIN releases = {}
    BY DEF Init, L!Init, L!Empty
  <2>2. L!InState({"scheduled", "activating", "blocked"}) = {}
    BY <2>1 DEF L!InState
  <2>3. Approved = {}
    BY <2>2 DEF Approved, Pins, Rows
  <2>. QED BY <2>1, <2>3 DEF Site!Init, Approved, NoPosts
<1>2. LP!IInv /\ Inv /\ [Next]_vars => [Site!Next]_(Site!vars)
  BY StepImplements
<1>. QED BY <1>1, <1>2, InvariantHolds, PTL DEF Spec, ImplementsSite, Site!Spec

-----------------------------------------------------------------------------
(* What a start finds. *)

(* The approved revision comes from a retained tree, and so do the settings  *)
(* of the site a claim will make.                                            *)
RowRooted(row, trees) ==
  /\ row.tree \in trees /\ <<row.post, row.rev>> \in PostsOf[row.tree]
  /\ row.state = "activating" => row.candidate.settings = SettingsOf[row.tree]

DigestRooted(d, trees) == \E t \in trees : d.settings = SettingsOf[t]

Rooted ==
  /\ \A r \in DOMAIN releases : RowRooted(releases[r], retained)
  /\ head # L!NoHead => DigestRooted(head.digest, retained)
  /\ phase # "down" =>
       /\ head # L!NoHead /\ memory.tree \in retained
       /\ DigestRooted(memory.snapshot.digest, retained)

LEMMA RetainedGrows ==
  ASSUME [Next]_vars
  PROVE  retained \subseteq retained'
BY DEF Next, Command, Deliver, Activate, Startup, vars, PublishNow, Schedule, ChangeRelease,
   RetryRelease, ChangeTip, RetainTree, ApplyContentCatalog, PickDue, ActivateScheduled,
   BlockScheduled, DropStalePick, SchedulerFails, ActivateSnapshot, ActivationConflict,
   FinishPublication, FinishRefused, Shutdown, Exit, Crash, Start, Tick

LEMMA KeepsRooted ==
  ASSUME Rooted, retained \subseteq retained',
         \A r \in DOMAIN releases' :
           \/ r \in DOMAIN releases /\ releases'[r] = releases[r]
           \/ RowRooted(releases'[r], retained'),
         head' = head \/ DigestRooted(head'.digest, retained'),
         phase' # "down" =>
           /\ head' # L!NoHead /\ memory'.tree \in retained'
           /\ DigestRooted(memory'.snapshot.digest, retained')
  PROVE  Rooted'
<1>1. \A r \in DOMAIN releases' : RowRooted(releases'[r], retained')
  BY DEF Rooted, RowRooted
<1>2. head' # L!NoHead => DigestRooted(head'.digest, retained')
  BY DEF Rooted, DigestRooted
<1>. QED BY <1>1, <1>2 DEF Rooted, L!NoHead

(* A step that keeps the process, its tree and its snapshot. *)
LEMMA KeepsRows ==
  ASSUME Rooted, retained \subseteq retained', head' = head,
         \A r \in DOMAIN releases' :
           \/ r \in DOMAIN releases /\ releases'[r] = releases[r]
           \/ RowRooted(releases'[r], retained'),
         phase' # "down" => phase # "down" /\ memory'.tree = memory.tree
                            /\ memory'.snapshot.digest = memory.snapshot.digest
  PROVE  Rooted'
<1>1. phase' # "down" =>
           /\ head' # L!NoHead /\ memory'.tree \in retained'
           /\ DigestRooted(memory'.snapshot.digest, retained')
  BY DEF Rooted, DigestRooted
<1>. QED BY <1>1, KeepsRooted

LEMMA CommandRooted ==
  ASSUME LedgerKept, Inv, Rooted, retained \subseteq retained', Command
  PROVE  Rooted'
<1>0. Typed /\ LP!IInv /\ LP!IInv'
  BY DEF Inv, LedgerKept
<1>1. ASSUME NEW r \in Releases, NEW p \in Posts, NEW rev \in Revisions, PublishNow(r, p, rev)
      PROVE  Rooted'
  <2>1. /\ DOMAIN releases' = DOMAIN releases \cup {r} /\ UNCHANGED <<head, phase, memory>>
        /\ releases'[r].tree = memory.tree /\ releases'[r].post = p /\ releases'[r].rev = rev
        /\ releases'[r].candidate = Candidate(memory.tree, p, rev, clock)
        /\ \A s \in DOMAIN releases : releases'[s] = releases[s]
        /\ <<p, rev>> \in PostsOf[memory.tree]
    BY <1>1 DEF PublishNow, Publishable, L!BeginPublishNow, L!Put
  <2>2. phase # "down"
    BY <1>0, <1>1, Alive DEF PublishNow
  <2>3. RowRooted(releases'[r], retained')
    BY <2>1, <2>2 DEF RowRooted, Candidate, Rooted
  <2>. QED BY <2>1, <2>2, <2>3, KeepsRows
<1>2. ASSUME NEW r \in Releases, NEW p \in Posts, NEW rev \in Revisions, NEW at \in Times,
             Schedule(r, p, rev, at)
      PROVE  Rooted'
  <2>1. /\ DOMAIN releases' = DOMAIN releases \cup {r} /\ UNCHANGED <<head, phase>>
        /\ releases'[r].tree = memory.tree /\ releases'[r].post = p /\ releases'[r].rev = rev
        /\ releases'[r].state = "scheduled"
        /\ \A s \in DOMAIN releases : releases'[s] = releases[s]
        /\ <<p, rev>> \in PostsOf[memory.tree]
    BY <1>2 DEF Schedule, Publishable, L!SchedulePublication, L!Put
  <2>2. phase # "down"
    BY <1>0, <1>2, Alive DEF Schedule
  <2>3. RowRooted(releases'[r], retained')
    BY <2>1, <2>2 DEF RowRooted, Rooted
  <2>4. memory'.tree = memory.tree /\ memory'.snapshot = memory.snapshot
    BY <1>0, <1>2, ScheduleTyped
  <2>. QED BY <2>1, <2>2, <2>3, <2>4, KeepsRows
<1>3. ASSUME NEW r \in DOMAIN releases, ChangeRelease(r)
      PROVE  Rooted'
  <2>1. releases[r] \in L!Release /\ r \in Releases /\ UNCHANGED <<phase>>
    BY <1>0, <1>3, LedgerFacts DEF L!TypeOK, ChangeRelease
  <2>2. \E version, at, state : /\ state \in {"scheduled", "cancelled"} /\ head' = head
          /\ releases' = L!Put(releases, r, [releases[r] EXCEPT
               !.state = state, !.version = version, !.scheduledAt = at])
    <3>1. PICK op \in Operations :
            \/ \E at \in Times : L!Reschedule(op, r, releases[r].version, clock, at)
            \/ L!Cancel(op, r, releases[r].version)
      BY <1>3 DEF ChangeRelease
    <3>. QED BY <3>1 DEF L!Reschedule, L!Cancel, L!ChangeRelease
  <2>3. /\ DOMAIN releases' = DOMAIN releases /\ head' = head
        /\ releases'[r].tree = releases[r].tree /\ releases'[r].post = releases[r].post
        /\ releases'[r].rev = releases[r].rev /\ releases'[r].state \in {"scheduled", "cancelled"}
        /\ \A s \in DOMAIN releases : s # r => releases'[s] = releases[s]
    BY <2>1, <2>2 DEF L!Put, L!Release
  <2>4. RowRooted(releases'[r], retained')
    BY <2>3 DEF RowRooted, Rooted
  <2>5. memory'.tree = memory.tree /\ memory'.snapshot = memory.snapshot
    BY <1>0, <1>3, <2>1, ChangeReleaseTyped
  <2>. QED BY <2>1, <2>3, <2>4, <2>5, KeepsRows
<1>4. ASSUME NEW r \in DOMAIN releases, RetryRelease(r)
      PROVE  Rooted'
  <2>1. r \in L!InState({"scheduled", "blocked"}) /\ UNCHANGED <<phase, memory>>
    BY <1>4 DEF RetryRelease, L!InState
  <2>2. PICK op \in Operations : L!ClaimActivation(r, releases[r].version, memory.site, clock,
                                                  ApprovedCandidate(releases[r], clock))
    BY <1>4 DEF RetryRelease, L!BeginRetry
  <2>3. /\ Writes(r) /\ releases'[r].tree = releases[r].tree /\ releases'[r].post = releases[r].post
        /\ releases'[r].rev = releases[r].rev
        /\ releases'[r].candidate = ApprovedCandidate(releases[r], clock)
    BY <1>0, <2>1, <2>2, ClaimWrites
  <2>4. RowRooted(releases'[r], retained')
    BY <2>3 DEF RowRooted, Rooted, ApprovedCandidate, Candidate
  <2>5. DOMAIN releases' = DOMAIN releases /\ head' = head
        /\ \A s \in DOMAIN releases : s # r => releases'[s] = releases[s]
    BY <2>3 DEF Writes
  <2>. QED BY <2>1, <2>4, <2>5, KeepsRows
<1>5. ASSUME NEW recipient \in Tips, ChangeTip(recipient)
      PROVE  Rooted'
  <2>1. UNCHANGED <<releases, head>> /\ phase # "down"
    BY <1>0, <1>5, Alive DEF ChangeTip, ledger
  <2>2. CASE /\ memory'.tree = memory.tree /\ UNCHANGED phase
             /\ memory'.snapshot.digest.settings = SettingsOf[memory.tree]
    <3>1. DigestRooted(memory'.snapshot.digest, retained')
      BY <2>1, <2>2 DEF Rooted, DigestRooted
    <3>2. head' # L!NoHead /\ memory'.tree \in retained'
      BY <2>1, <2>2 DEF Rooted
    <3>. QED BY <2>1, <3>1, <3>2, KeepsRooted
  <2>3. CASE UNCHANGED memory
    BY <2>1, <2>3, KeepsRows
  <2>. QED BY <1>0, <1>5, <2>2, <2>3, ChangeTipTyped
<1>6. ASSUME NEW tree \in Trees, ApplyContentCatalog(tree)
      PROVE  Rooted'
  <2>1. UNCHANGED <<releases, head>> /\ phase # "down" /\ tree \in retained
    BY <1>0, <1>6, Alive DEF ApplyContentCatalog, L!IndexContentCatalog
  <2>2. memory'.tree = tree /\ memory'.snapshot = memory.snapshot
    BY <1>0, <1>6, ApplyContentCatalogTyped
  <2>3. DigestRooted(memory'.snapshot.digest, retained') /\ head' # L!NoHead /\ memory'.tree \in retained'
    BY <2>1, <2>2 DEF Rooted, DigestRooted
  <2>. QED BY <2>1, <2>3, KeepsRooted
<1>. QED BY <1>1, <1>2, <1>3, <1>4, <1>5, <1>6 DEF Command

LEMMA DeliverRooted ==
  ASSUME LedgerKept, Inv, Rooted, retained \subseteq retained', Deliver
  PROVE  Rooted'
<1>0. Typed /\ LP!IInv
  BY DEF Inv, LedgerKept
<1>1. CASE ActivateScheduled
  <2>0. PICK r : r = picked.release
    OBVIOUS
  <2>1. /\ r \in L!InState({"scheduled", "blocked"}) /\ r \in L!InState({"scheduled"})
        /\ UNCHANGED <<phase, memory>>
        /\ \E version : L!ClaimActivation(r, version, memory.site, picked.now,
                                          ApprovedCandidate(memory.scheduled[r], picked.now))
    BY <1>1, <2>0 DEF ActivateScheduled, Delivered, L!BeginDueActivation, L!InState
  <2>2. memory.scheduled[r] = releases[r]
    <3>1. phase # "down"
      BY <1>0, <1>1, Alive DEF ActivateScheduled, Delivered
    <3>. QED BY <2>1, <3>1, PickedRow
  <2>3. /\ Writes(r) /\ releases'[r].tree = releases[r].tree /\ releases'[r].post = releases[r].post
        /\ releases'[r].rev = releases[r].rev
        /\ releases'[r].candidate = ApprovedCandidate(releases[r], picked.now)
    BY <1>0, <2>1, <2>2, ClaimWrites
  <2>4. r \in DOMAIN releases
    BY <2>1 DEF L!InState
  <2>5. RowRooted(releases'[r], retained')
    BY <2>3, <2>4 DEF RowRooted, Rooted, ApprovedCandidate, Candidate
  <2>6. DOMAIN releases' = DOMAIN releases /\ head' = head
        /\ \A s \in DOMAIN releases : s # r => releases'[s] = releases[s]
    BY <2>3, <2>4 DEF Writes
  <2>. QED BY <2>1, <2>5, <2>6, KeepsRows
<1>2. CASE BlockScheduled
  <2>0. PICK r : r = picked.release
    OBVIOUS
  <2>1. /\ r \in DOMAIN releases /\ DOMAIN releases' = DOMAIN releases /\ UNCHANGED <<head, phase>>
        /\ \A s \in DOMAIN releases : s # r => releases'[s] = releases[s]
        /\ releases'[r] = [releases[r] EXCEPT
             !.state = "blocked", !.version = @ + 2, !.activationAt = picked.now]
    BY <1>2, <2>0 DEF BlockScheduled, L!BlockScheduled, L!Put, L!InState
  <2>2. /\ releases'[r].state = "blocked" /\ releases'[r].tree = releases[r].tree
        /\ releases'[r].post = releases[r].post /\ releases'[r].rev = releases[r].rev
    BY <1>0, <2>1, LedgerFacts DEF L!TypeOK, L!Release
  <2>3. RowRooted(releases'[r], retained')
    BY <2>1, <2>2 DEF RowRooted, Rooted
  <2>4. memory'.tree = memory.tree /\ memory'.snapshot = memory.snapshot
    BY <1>0, <1>2, BlockScheduledTyped
  <2>. QED BY <2>1, <2>3, <2>4, KeepsRows
<1>3. CASE DropStalePick \/ SchedulerFails
  <2>1. UNCHANGED <<releases, head, memory>> /\ phase # "down"
    BY <1>0, <1>3, AnsweredTyped DEF ledger
  <2>. QED BY <2>1, KeepsRows
<1>. QED BY <1>1, <1>2, <1>3 DEF Deliver

LEMMA ActivateRooted ==
  ASSUME LedgerKept, Inv, Rooted, retained \subseteq retained', Activate
  PROVE  Rooted'
<1>0. Typed /\ Posted /\ Claims /\ LP!IInv /\ LP!IInv'
  BY DEF Inv, LedgerKept
<1>1. ASSUME ActivateSnapshot \/ FinishPublication
      PROVE  /\ inflight # None /\ phase # "down" /\ memory.tree \in retained'
             /\ DigestRooted(releases[inflight.release].candidate, retained')
             /\ releases[inflight.release].candidate \in Digests
  <2>1. inflight # None /\ phase # "down" /\ inflight.release \in Interrupted
    BY <1>0, <1>1 DEF ActivateSnapshot, FinishPublication, Posted
  <2>2. inflight.release \in DOMAIN releases /\ releases[inflight.release].state = "activating"
    BY <2>1 DEF Interrupted, L!InState
  <2>3. RowRooted(releases[inflight.release], retained)
    BY <2>2 DEF Rooted
  <2>4. releases[inflight.release].candidate \in Digests
    BY <1>0, <2>1, DigestsHeld DEF Interrupted
  <2>. QED BY <2>1, <2>2, <2>3, <2>4 DEF Rooted, RowRooted, DigestRooted
<1>2. CASE ActivateSnapshot
  <2>1. /\ UNCHANGED <<releases, head, phase>> /\ memory'.tree = memory.tree
        /\ memory'.snapshot.digest = releases[inflight.release].candidate
    BY <1>0, <1>2, ActivateSnapshotTyped DEF ledger
  <2>2. DigestRooted(memory'.snapshot.digest, retained') /\ head' # L!NoHead /\ memory'.tree \in retained'
    BY <1>1, <1>2, <2>1 DEF Rooted
  <2>. QED BY <2>1, <2>2, KeepsRooted
<1>3. CASE FinishPublication
  <2>0. PICK r : r = inflight.release
    OBVIOUS
  <2>1. /\ head'.digest = releases[r].candidate /\ head'.digest \in Digests
        /\ DigestRooted(head'.digest, retained') /\ memory'.tree \in retained' /\ phase # "down"
        /\ memory'.snapshot = memory.snapshot
    BY <1>0, <1>1, <1>3, <2>0, FinishEffect, FinishTyped
  <2>2. head' # L!NoHead
    BY <2>1, CoordinatorConstants DEF L!NoHead
  <2>3. L!FinishActivation(r, releases[r].version, memory.site, releases[r].candidate)
    BY <1>3, <2>0 DEF FinishPublication
  <2>4. DOMAIN releases' = DOMAIN releases
    BY <2>3 DEF L!FinishActivation
  <2>5. ASSUME NEW s \in DOMAIN releases, releases'[s] # releases[s]
        PROVE  RowRooted(releases'[s], retained')
    <3>1. releases[s] \in L!Release
      BY <1>0, LedgerFacts DEF L!TypeOK
    <3>2. /\ releases'[s].tree = releases[s].tree /\ releases'[s].post = releases[s].post
          /\ releases'[s].rev = releases[s].rev /\ releases'[s].state \in {"published", "superseded"}
      BY <2>3, <2>5, <3>1 DEF L!FinishActivation, L!Release
    <3>. QED BY <3>2 DEF Rooted, RowRooted
  <2>6. DigestRooted(memory'.snapshot.digest, retained')
    BY <2>1 DEF Rooted, DigestRooted
  <2>. QED BY <2>1, <2>2, <2>4, <2>5, <2>6, KeepsRooted
<1>4. CASE ActivationConflict \/ FinishRefused
  <2>1. /\ UNCHANGED <<releases, head>>
        /\ phase' # "down" => phase # "down" /\ memory' = memory
    BY <1>0, <1>4, StopTyped DEF ledger
  <2>. QED BY <2>1, KeepsRows
<1>. QED BY <1>2, <1>3, <1>4 DEF Activate

LEMMA StartRooted ==
  ASSUME LedgerKept, Inv, Rooted, retained \subseteq retained', NEW tree \in Trees, Start(tree)
  PROVE  Rooted'
<1>0. Typed /\ LP!IInv /\ LP!IInv'
  BY DEF Inv, LedgerKept
<1>1. PICK d : d = memory'.snapshot.digest
  OBVIOUS
<1>2. /\ UNCHANGED releases /\ retained' = retained \cup {tree} /\ memory'.tree = tree
      /\ memory' \in Memory
      /\ head # L!NoHead => d = head.digest
      /\ head = L!NoHead => d.settings = SettingsOf[tree]
      /\ L!InstallStartup(head, d, PostsOf[tree])
  BY <1>0, <1>1, StartTyped
<1>3. d \in Digests
  BY <1>1, <1>2, FieldsOf
<1>4. DigestRooted(d, retained')
  BY <1>2 DEF Rooted, DigestRooted
<1>5. head'.digest = d
  BY <1>2 DEF L!InstallStartup
<1>6. head' # L!NoHead
  BY <1>3, <1>5, CoordinatorConstants DEF L!NoHead
<1>. QED BY <1>1, <1>2, <1>4, <1>5, <1>6, KeepsRooted

LEMMA StepRooted ==
  ASSUME LP!IInv, Inv, Rooted, [Next]_vars
  PROVE  Rooted'
<1>1. LedgerKept /\ Typed /\ Posted /\ retained \subseteq retained'
  BY StepSafe, RetainedGrows DEF Inv
<1>2. CASE PickDue \/ Shutdown \/ Tick \/ UNCHANGED vars \/ (\E tree \in Trees : RetainTree(tree))
  <2>1. UNCHANGED <<releases, head, memory>> /\ (phase' # "down" => phase # "down")
    BY <1>2 DEF PickDue, Shutdown, Tick, vars, RetainTree, ledger, process
  <2>. QED BY <1>1, <2>1, KeepsRows
<1>3. CASE Exit \/ Crash
  <2>1. /\ UNCHANGED <<releases, head>>
        /\ phase' # "down" => phase # "down" /\ memory' = memory
    BY <1>1, <1>3, StopTyped DEF ledger
  <2>. QED BY <1>1, <2>1, KeepsRows
<1>. QED BY <1>1, <1>2, <1>3, CommandRooted, DeliverRooted, ActivateRooted, StartRooted DEF Next, Startup

LEMMA RootedHolds == Spec => []Rooted
<1>1. Init => Rooted
  BY DEF Init, L!Init, L!Empty, Rooted
<1>2. LP!IInv /\ Inv /\ Rooted /\ [Next]_vars => Rooted'
  BY StepRooted
<1>. QED BY <1>1, <1>2, InvariantHolds, PTL DEF Spec

(* As long as all content trees have the same settings, the snapshot readers *)
(* get is the one the durable head names: only a reload that changes         *)
(* settings, followed by a change of tips, can separate the two.             *)
THEOREM CoordinatorMatchesHead ==
  ASSUME \A t, u \in Trees : SettingsOf[t] = SettingsOf[u]
  PROVE  Spec => []PublicMatchesHead
<1>1. ASSUME LP!IInv, Inv, Rooted  PROVE PublicMatchesHead
  <2>. SUFFICES ASSUME Idle  PROVE memory.snapshot.digest = head.digest
    BY DEF PublicMatchesHead
  <2>1. /\ phase = "ready" /\ phase # "down" /\ Interrupted = {} /\ memory \in Memory
        /\ memory.site = head /\ retained \subseteq Trees
    BY <1>1 DEF Idle, Inv, Posted, Coherent, Typed
  <2>2. head # L!NoHead /\ DigestRooted(head.digest, retained)
        /\ DigestRooted(memory.snapshot.digest, retained)
    BY <1>1, <2>1 DEF Rooted
  <2>3. head.digest.settings = memory.snapshot.digest.settings
    BY <2>1, <2>2 DEF DigestRooted
  <2>4. head.digest.posts = LedgerProjection
    BY <1>1, <2>2 DEF Inv, Retains
  <2>5. memory.snapshot.digest.posts = LedgerProjection
    BY <1>1, <2>1 DEF Inv, Shows
  <2>6. memory.snapshot.digest \in Digests /\ head.digest \in Digests
    BY <1>1, <2>1, <2>2, FieldsOf, DigestsHeld
  <2>. QED BY <2>3, <2>4, <2>5, <2>6 DEF Digests
<1>. QED BY <1>1, InvariantHolds, RootedHolds, PTL

(* While nothing is executed once the process is cancelled, an interrupted   *)
(* release stays what its approver accepted and can still take its routes.   *)
Reproduces ==
  /\ backlog = 0
  /\ \A r \in Interrupted :
       /\ releases[r].preview =
            Preview(releases[r].tree, LedgerProjection, tip, releases[r].post, releases[r].rev)
       /\ L!RoutesAvailable(releases[r].post, releases[r].rev)

(* Then commands run only while nothing is interrupted. *)
LEMMA AcceptsReady ==
  ASSUME Inv, backlog = 0, Accepts
  PROVE  /\ phase = "ready" /\ inflight = None /\ Interrupted = {} /\ Left = 0
         /\ memory.public = LedgerProjection /\ memory.tip = tip
<1>1. phase = "ready" /\ phase # "down" /\ inflight = None
  BY DEF Accepts
<1>. QED BY <1>1 DEF Inv, Posted, Coherent, Left

LEMMA FailsEmpty ==
  ASSUME MaxBacklog = 0, NEW queued, queued = 0, FailClosed(queued)
  PROVE  backlog' = 0
BY DEF FailClosed, Down

LEMMA KeepsReproduces ==
  ASSUME Reproduces, backlog' = 0, UNCHANGED <<releases, routes, sites, tip>>
  PROVE  Reproduces'
<1>1. LedgerProjection' = LedgerProjection /\ Interrupted' = Interrupted
  BY ProjectionUnchanged DEF Interrupted, L!InState
<1>. QED BY <1>1 DEF Reproduces, Preview, L!RoutesAvailable

(* What a claim of an idle process has just been compared with. *)
LEMMA ClaimReproduces ==
  ASSUME Inv, LedgerKept, NEW r, Writes(r), r \notin Interrupted, Interrupted = {},
         backlog' = 0, UNCHANGED <<routes, tip>>,
         releases'[r].preview = Preview(releases'[r].tree, LedgerProjection, tip,
                                        releases'[r].post, releases'[r].rev),
         L!RoutesAvailable(releases'[r].post, releases'[r].rev)
  PROVE  Reproduces'
<1>1. /\ LedgerProjection' = LedgerProjection
      /\ \A S : \A s : s # r => (s \in L!InState(S)' <=> s \in L!InState(S))
  BY WriteKeeps DEF Inv
<1>2. \A s \in Interrupted' : s = r
  BY <1>1 DEF Interrupted
<1>. QED BY <1>1, <1>2 DEF Reproduces, Preview, L!RoutesAvailable

LEMMA CommandReproduces ==
  ASSUME MaxBacklog = 0, LedgerKept, Inv, Reproduces, Command
  PROVE  Reproduces'
<1>0. Typed /\ LP!IInv /\ backlog = 0
  BY DEF Inv, LedgerKept, Reproduces
<1>1. ASSUME NEW r \in Releases, NEW p \in Posts, NEW rev \in Revisions, PublishNow(r, p, rev)
      PROVE  Reproduces'
  <2>1. Interrupted = {} /\ Left = 0 /\ memory.public = LedgerProjection /\ memory.tip = tip
    BY <1>0, <1>1, AcceptsReady DEF PublishNow
  <2>2. /\ backlog' = 0 /\ UNCHANGED <<routes, tip, sites, head>>
        /\ r \notin DOMAIN releases /\ DOMAIN releases' = DOMAIN releases \cup {r}
        /\ \A s \in DOMAIN releases : releases'[s] = releases[s]
        /\ releases'[r].state = "activating" /\ releases'[r].post = p /\ releases'[r].rev = rev
        /\ releases'[r].tree = memory.tree /\ releases'[r].preview = CurrentPreview(p, rev)
        /\ L!RoutesAvailable(p, rev)
    BY <1>1, <2>1 DEF PublishNow, Taken, L!BeginPublishNow, L!Put
  <2>3. Writes(r)
    BY <2>2 DEF Writes, L!Successful, L!InState
  <2>4. releases'[r].preview = Preview(releases'[r].tree, LedgerProjection, tip,
                                       releases'[r].post, releases'[r].rev)
    BY <2>1, <2>2 DEF CurrentPreview
  <2>. QED BY <2>1, <2>2, <2>3, <2>4, ClaimReproduces
<1>2. ASSUME NEW r \in DOMAIN releases, RetryRelease(r)
      PROVE  Reproduces'
  <2>1. Interrupted = {} /\ Left = 0 /\ memory.public = LedgerProjection /\ memory.tip = tip
    BY <1>0, <1>2, AcceptsReady DEF RetryRelease
  <2>2. /\ backlog' = 0 /\ UNCHANGED tip /\ r \in L!InState({"scheduled", "blocked"})
        /\ releases[r].preview = Preview(releases[r].tree, memory.public, memory.tip,
                                         releases[r].post, releases[r].rev)
        /\ L!RoutesAvailable(releases[r].post, releases[r].rev)
    BY <1>2, <2>1 DEF RetryRelease, Activates, Taken, L!InState
  <2>3. PICK op \in Operations : L!ClaimActivation(r, releases[r].version, memory.site, clock,
                                                  ApprovedCandidate(releases[r], clock))
    BY <1>2 DEF RetryRelease, L!BeginRetry
  <2>4. /\ Writes(r) /\ releases'[r].tree = releases[r].tree /\ releases'[r].post = releases[r].post
        /\ releases'[r].rev = releases[r].rev /\ releases'[r].preview = releases[r].preview
        /\ UNCHANGED routes
    BY <1>0, <2>2, <2>3, ClaimWrites
  <2>. QED BY <2>1, <2>2, <2>4, ClaimReproduces
<1>3. ASSUME NEW r \in Releases, NEW p \in Posts, NEW rev \in Revisions, NEW at \in Times,
             Schedule(r, p, rev, at)
      PROVE  Reproduces'
  <2>1. Interrupted = {} /\ Left = 0
    BY <1>0, <1>3, AcceptsReady DEF Schedule
  <2>2. /\ backlog' = 0 /\ DOMAIN releases' = DOMAIN releases \cup {r}
        /\ \A s \in DOMAIN releases : releases'[s] = releases[s]
        /\ releases'[r].state = "scheduled"
    BY <1>3, <2>1 DEF Schedule, Taken, L!SchedulePublication, L!Put
  <2>3. Interrupted' = {}
    BY <2>1, <2>2 DEF Interrupted, L!InState
  <2>. QED BY <2>2, <2>3 DEF Reproduces
<1>4. ASSUME NEW r \in DOMAIN releases, ChangeRelease(r)
      PROVE  Reproduces'
  <2>1. Interrupted = {} /\ Left = 0
    BY <1>0, <1>4, AcceptsReady DEF ChangeRelease
  <2>2. releases[r] \in L!Release
    BY <1>0, LedgerFacts DEF L!TypeOK
  <2>3. \E version, at, state : /\ state \in {"scheduled", "cancelled"}
          /\ releases' = L!Put(releases, r, [releases[r] EXCEPT
               !.state = state, !.version = version, !.scheduledAt = at])
    <3>1. PICK op \in Operations :
            \/ \E at \in Times : L!Reschedule(op, r, releases[r].version, clock, at)
            \/ L!Cancel(op, r, releases[r].version)
      BY <1>4 DEF ChangeRelease
    <3>. QED BY <3>1 DEF L!Reschedule, L!Cancel, L!ChangeRelease
  <2>4. /\ DOMAIN releases' = DOMAIN releases /\ releases'[r].state \in {"scheduled", "cancelled"}
        /\ \A s \in DOMAIN releases : s # r => releases'[s] = releases[s]
    BY <2>2, <2>3 DEF L!Put, L!Release
  <2>5. Interrupted' = {}
    BY <2>1, <2>4 DEF Interrupted, L!InState
  <2>6. backlog' = 0
    BY <1>4, <2>1 DEF ChangeRelease, Taken
  <2>. QED BY <2>5, <2>6 DEF Reproduces
<1>5. ASSUME NEW recipient \in Tips, ChangeTip(recipient)
      PROVE  Reproduces'
  <2>1. Interrupted = {} /\ Left = 0
    BY <1>0, <1>5, AcceptsReady DEF ChangeTip
  <2>2. backlog' = 0
    BY <1>5, <2>1, FailsEmpty DEF ChangeTip, Taken
  <2>3. Interrupted' = {}
    BY <1>5, <2>1 DEF ChangeTip, Interrupted, L!InState, ledger
  <2>. QED BY <2>2, <2>3 DEF Reproduces
<1>6. ASSUME NEW tree \in Trees, ApplyContentCatalog(tree)
      PROVE  Reproduces'
  <2>1. Left = 0
    BY <1>0, <1>6, AcceptsReady DEF ApplyContentCatalog
  <2>2. backlog' = 0 /\ UNCHANGED <<releases, routes, sites, tip>>
    BY <1>6, <2>1 DEF ApplyContentCatalog, Taken, L!IndexContentCatalog
  <2>. QED BY <2>2, KeepsReproduces
<1>. QED BY <1>1, <1>2, <1>3, <1>4, <1>5, <1>6 DEF Command

LEMMA DeliverReproduces ==
  ASSUME MaxBacklog = 0, LedgerKept, Inv, Reproduces, Deliver
  PROVE  Reproduces'
<1>0. Typed /\ LP!IInv /\ backlog = 0
  BY DEF Inv, LedgerKept, Reproduces
<1>a. Interrupted = {} /\ Left = 0 /\ memory.public = LedgerProjection /\ memory.tip = tip /\ phase = "ready"
  BY <1>0, AcceptsReady DEF Deliver, ActivateScheduled, BlockScheduled, DropStalePick, SchedulerFails,
     Delivered
<1>1. CASE ActivateScheduled
  <2>0. PICK r : r = picked.release
    OBVIOUS
  <2>1. /\ r \in L!InState({"scheduled", "blocked"}) /\ r \in L!InState({"scheduled"})
        /\ backlog' = 0 /\ UNCHANGED tip
        /\ \E version : L!ClaimActivation(r, version, memory.site, picked.now,
                                          ApprovedCandidate(memory.scheduled[r], picked.now))
    BY <1>1, <1>a, <2>0 DEF ActivateScheduled, Delivered, Taken, L!BeginDueActivation, L!InState
  <2>2. memory.scheduled[r] = releases[r]
    <3>1. phase # "down"
      BY <1>a
    <3>. QED BY <2>1, <3>1, PickedRow
  <2>3. /\ Writes(r) /\ releases'[r].tree = releases[r].tree /\ releases'[r].post = releases[r].post
        /\ releases'[r].rev = releases[r].rev /\ releases'[r].preview = releases[r].preview
        /\ UNCHANGED routes
    BY <1>0, <2>1, <2>2, ClaimWrites
  <2>4. /\ releases[r].preview = Preview(releases[r].tree, memory.public, memory.tip,
                                         releases[r].post, releases[r].rev)
        /\ L!RoutesAvailable(releases[r].post, releases[r].rev)
    BY <1>1, <2>0, <2>2 DEF ActivateScheduled, Activates
  <2>. QED BY <1>a, <2>1, <2>3, <2>4, ClaimReproduces
<1>2. CASE BlockScheduled
  <2>0. PICK r : r = picked.release
    OBVIOUS
  <2>1. /\ r \in DOMAIN releases /\ DOMAIN releases' = DOMAIN releases /\ backlog' = 0
        /\ \A s \in DOMAIN releases : s # r => releases'[s] = releases[s]
        /\ releases'[r] = [releases[r] EXCEPT
             !.state = "blocked", !.version = @ + 2, !.activationAt = picked.now]
    BY <1>2, <1>a, <2>0 DEF BlockScheduled, Taken, L!BlockScheduled, L!Put, L!InState
  <2>2. releases'[r].state = "blocked"
    BY <1>0, <2>1, LedgerFacts DEF L!TypeOK, L!Release
  <2>3. Interrupted' = {}
    BY <1>a, <2>1, <2>2 DEF Interrupted, L!InState
  <2>. QED BY <2>1, <2>3 DEF Reproduces
<1>3. CASE DropStalePick \/ SchedulerFails
  <2>1. backlog' = 0
    BY <1>3, <1>a DEF DropStalePick, SchedulerFails, Taken
  <2>2. UNCHANGED <<releases, routes, sites, tip>>
    BY <1>0, <1>3, AnsweredTyped DEF ledger
  <2>. QED BY <2>1, <2>2, KeepsReproduces
<1>. QED BY <1>1, <1>2, <1>3 DEF Deliver

LEMMA StepReproduces ==
  ASSUME MaxBacklog = 0, LP!IInv, Inv, Reproduces, [Next]_vars
  PROVE  Reproduces'
<1>1. LedgerKept /\ Typed /\ Posted /\ Claims /\ backlog = 0
  BY StepSafe DEF Inv, Reproduces
<1>2. CASE PickDue \/ Shutdown \/ Tick \/ UNCHANGED vars \/ (\E tree \in Trees : RetainTree(tree))
           \/ ActivateSnapshot
  <2>1. UNCHANGED <<releases, routes, sites, tip>> /\ backlog' = 0
    BY <1>1, <1>2 DEF PickDue, Shutdown, Tick, vars, RetainTree, ActivateSnapshot, ledger, process
  <2>. QED BY <2>1, KeepsReproduces
<1>3. CASE Exit \/ Crash \/ ActivationConflict \/ FinishRefused
  <2>1. backlog' = 0
    BY <1>1, <1>3, FailsEmpty DEF Exit, Crash, Down, ActivationConflict, FinishRefused
  <2>2. UNCHANGED <<releases, routes, sites, tip>>
    BY <1>1, <1>3, StopTyped DEF ledger
  <2>. QED BY <2>1, <2>2, KeepsReproduces
<1>4. CASE FinishPublication
  <2>1. Interrupted' = {} /\ backlog' = 0
    BY <1>1, <1>4, FinishEffect DEF FinishPublication
  <2>. QED BY <2>1 DEF Reproduces
<1>5. CASE Startup
  <2>1. PICK tree \in Trees : Start(tree)
    BY <1>5 DEF Startup
  <2>2. UNCHANGED <<releases, routes, tip>> /\ backlog' = 0
    BY <1>1, <2>1 DEF Start, L!InstallStartup
  <2>3. Interrupted' = Interrupted /\ L!InState({"published"})' = L!InState({"published"})
    BY <2>2 DEF Interrupted, L!InState
  <2>4. LedgerProjection' = LedgerProjection
    BY <1>1, <2>3, ProjectionKept
  <2>. QED BY <2>2, <2>3, <2>4 DEF Reproduces, Preview, L!RoutesAvailable
<1>. QED BY <1>1, <1>2, <1>3, <1>4, <1>5, CommandReproduces, DeliverReproduces DEF Next, Activate

(* Whatever stopped the process and whatever content tree is on disk, the    *)
(* next start succeeds and can finish what was begun, for any settings, tip  *)
(* changes and refused finishes, if no command that was still queued is      *)
(* executed after the process was cancelled.                                 *)
THEOREM CoordinatorRestartable ==
  ASSUME MaxBacklog = 0
  PROVE  Spec => []Restartable
<1>1. ASSUME LP!IInv, Inv, Rooted, Reproduces  PROVE Restartable
  <2>. SUFFICES ASSUME NEW tree \in Trees  PROVE CanStart(tree)
    BY <1>1 DEF Restartable, Reproduces, Interrupted
  <2>. DEFINE trees == retained \cup {tree}
  <2>0. \A r \in DOMAIN releases : RowRooted(releases[r], retained)
    BY <1>1 DEF Rooted
  <2>1. Pinned \subseteq UNION {PostsOf[t] : t \in trees}
    <3>1. \A r \in DOMAIN releases :
            <<releases[r].post, releases[r].rev>> \in UNION {PostsOf[t] : t \in trees}
      BY <2>0 DEF RowRooted
    <3>2. ASSUME NEW p \in DOMAIN LedgerProjection
          PROVE  <<p, LedgerProjection[p].rev>> \in UNION {PostsOf[t] : t \in trees}
      <4>1. PICK r \in L!InState({"published"}) : releases[r].post = p
        BY ProjectionDomain
      <4>2. LedgerProjection[p] = [rev |-> releases[r].rev, since |-> L!PublicSince(p)]
        BY <1>1, <4>1, ProjectionAt
      <4>3. LedgerProjection[p].rev = releases[r].rev
        BY <4>2
      <4>4. r \in DOMAIN releases
        BY DEF L!InState
      <4>. QED BY <3>1, <4>1, <4>3, <4>4
    <3>3. /\ DOMAIN Rows({"scheduled", "activating"}) \subseteq DOMAIN releases
          /\ \A r \in DOMAIN Rows({"scheduled", "activating"}) :
               Rows({"scheduled", "activating"})[r] = releases[r]
      BY DEF Rows, L!InState
    <3>4. Keys(LedgerProjection) \subseteq UNION {PostsOf[t] : t \in trees}
      BY <3>2 DEF Keys
    <3>5. Pins(Rows({"scheduled", "activating"})) \subseteq UNION {PostsOf[t] : t \in trees}
      BY <3>1, <3>3 DEF Pins
    <3>. QED BY <3>4, <3>5 DEF Pinned
  <2>2. ASSUME NEW r \in L!InState({"activating"})
        PROVE  Recoverable(r, trees)
    <3>1. r \in DOMAIN releases /\ releases[r].state = "activating" /\ r \in Interrupted
      BY DEF L!InState, Interrupted
    <3>2. RowRooted(releases[r], retained) /\ releases[r].candidate \in Digests
      BY <1>1, <2>0, <3>1, DigestsHeld
    <3>3. /\ releases[r].candidate.settings = SettingsOf[releases[r].tree]
          /\ releases[r].candidate.posts =
               WithApproved(LedgerProjection, releases[r].post, releases[r].rev, releases[r].activationAt)
      BY <1>1, <3>1, <3>2 DEF Inv, Claims, RowRooted
    <3>4. releases[r].candidate = [settings |-> releases[r].candidate.settings,
                                   posts |-> releases[r].candidate.posts]
      BY <3>2 DEF Digests
    <3>5. releases[r].preview =
            Preview(releases[r].tree, LedgerProjection, tip, releases[r].post, releases[r].rev)
      BY <1>1, <3>1 DEF Reproduces
    <3>6. releases[r].tree \in trees
      BY <3>2 DEF RowRooted
    <3>. QED BY <3>3, <3>4, <3>5, <3>6 DEF Recoverable
  <2>3. ASSUME head # L!NoHead
        PROVE  \E t \in trees : head.digest = [settings |-> SettingsOf[t], posts |-> LedgerProjection]
    <3>1. PICK t \in retained : head.digest.settings = SettingsOf[t]
      BY <1>1, <2>3 DEF Rooted, DigestRooted
    <3>2. head.digest.posts = LedgerProjection /\ head.digest \in Digests
      BY <1>1, <2>3, DigestsHeld DEF Inv, Retains
    <3>3. head.digest = [settings |-> SettingsOf[t], posts |-> LedgerProjection]
      BY <3>1, <3>2 DEF Digests
    <3>. QED BY <3>1, <3>3
  <2>. QED BY <2>1, <2>2, <2>3 DEF CanStart
<1>2. Init => Reproduces
  BY DEF Init, L!Init, L!Empty, Reproduces, Interrupted, L!InState
<1>3. LP!IInv /\ Inv /\ Reproduces /\ [Next]_vars => Reproduces'
  BY StepReproduces
<1>4. Spec => []Reproduces
  BY <1>2, <1>3, InvariantHolds, PTL DEF Spec
<1>. QED BY <1>1, <1>4, InvariantHolds, RootedHolds, PTL

-----------------------------------------------------------------------------
(* What the private catalog holds. *)

(* Retrying a blocked release is the one command that does not look whether  *)
(* the catalog still holds the revision; this says that it does.             *)
RetriesHeldRevision ==
  \A r \in DOMAIN releases :
    RetryRelease(r) => <<releases[r].post, releases[r].rev>> \in memory.revisions

HeldRow(row) ==
  row.state \in {"scheduled", "activating"} => <<row.post, row.rev>> \in memory.revisions

(* While a process serves or recovers its catalog holds what is public, what *)
(* is approved and not blocked, and everything of its content tree.          *)
Covers ==
  phase \in {"ready", "recovering"} =>
    /\ Keys(memory.public) \subseteq memory.revisions
    /\ PostsOf[memory.tree] \subseteq memory.revisions
    /\ \A r \in DOMAIN releases : HeldRow(releases[r])

(* A step that keeps the catalog and the public posts, and approves only     *)
(* what the catalog holds.                                                   *)
LEMMA KeepsCatalog ==
  ASSUME Covers,
         phase' \in {"ready", "recovering"} =>
           /\ phase \in {"ready", "recovering"}
           /\ memory'.public = memory.public /\ memory'.tree = memory.tree
           /\ memory'.revisions = memory.revisions
           /\ \A r \in DOMAIN releases' :
                \/ r \in DOMAIN releases /\ releases'[r] = releases[r]
                \/ HeldRow(releases'[r])
  PROVE  Covers'
<1>. SUFFICES ASSUME phase' \in {"ready", "recovering"}
              PROVE  /\ Keys(memory'.public) \subseteq memory'.revisions
                     /\ PostsOf[memory'.tree] \subseteq memory'.revisions
                     /\ \A r \in DOMAIN releases' : HeldRow(releases[r])'
  BY DEF Covers, Keys
<1>1. \A r \in DOMAIN releases' : HeldRow(releases'[r])
  BY DEF Covers
<1>2. \A r \in DOMAIN releases' : HeldRow(releases[r])'
  BY <1>1 DEF HeldRow
<1>. QED BY <1>2 DEF Covers

LEMMA CommandCovers ==
  ASSUME LedgerKept, Inv, Covers, RetriesHeldRevision, Command
  PROVE  Covers'
<1>0. Typed /\ LP!IInv /\ LP!IInv'
  BY DEF Inv, LedgerKept
<1>1. ASSUME NEW r \in Releases, NEW p \in Posts, NEW rev \in Revisions, PublishNow(r, p, rev)
      PROVE  Covers'
  <2>1. /\ DOMAIN releases' = DOMAIN releases \cup {r} /\ UNCHANGED <<phase, memory>>
        /\ releases'[r].post = p /\ releases'[r].rev = rev
        /\ \A s \in DOMAIN releases : releases'[s] = releases[s]
        /\ <<p, rev>> \in PostsOf[memory.tree]
    BY <1>1 DEF PublishNow, Publishable, L!BeginPublishNow, L!Put
  <2>. QED BY <2>1, KeepsCatalog DEF Covers, HeldRow
<1>2. ASSUME NEW r \in Releases, NEW p \in Posts, NEW rev \in Revisions, NEW at \in Times,
             Schedule(r, p, rev, at)
      PROVE  Covers'
  <2>1. /\ DOMAIN releases' = DOMAIN releases \cup {r} /\ UNCHANGED phase
        /\ releases'[r].post = p /\ releases'[r].rev = rev
        /\ \A s \in DOMAIN releases : releases'[s] = releases[s]
        /\ <<p, rev>> \in PostsOf[memory.tree]
    BY <1>2 DEF Schedule, Publishable, L!SchedulePublication, L!Put
  <2>2. /\ memory'.public = memory.public /\ memory'.tree = memory.tree
        /\ memory'.revisions = memory.revisions
    BY <1>0, <1>2, ScheduleTyped
  <2>. QED BY <2>1, <2>2, KeepsCatalog DEF Covers, HeldRow
<1>3. ASSUME NEW r \in DOMAIN releases, ChangeRelease(r)
      PROVE  Covers'
  <2>1. releases[r] \in L!Release /\ r \in Releases /\ UNCHANGED phase
    BY <1>0, <1>3, LedgerFacts DEF L!TypeOK, ChangeRelease
  <2>2. \E version, at, state :
          /\ state \in {"scheduled", "cancelled"}
          /\ state = "scheduled" => releases[r].state = "scheduled"
          /\ releases' = L!Put(releases, r, [releases[r] EXCEPT
               !.state = state, !.version = version, !.scheduledAt = at])
    <3>1. PICK op \in Operations :
            \/ \E at \in Times : L!Reschedule(op, r, releases[r].version, clock, at)
            \/ L!Cancel(op, r, releases[r].version)
      BY <1>3 DEF ChangeRelease
    <3>. QED BY <3>1 DEF L!Reschedule, L!Cancel, L!ChangeRelease, L!InState
  <2>3. /\ DOMAIN releases' = DOMAIN releases
        /\ releases'[r].post = releases[r].post /\ releases'[r].rev = releases[r].rev
        /\ releases'[r].state \in {"scheduled", "cancelled"}
        /\ releases'[r].state = "scheduled" => releases[r].state = "scheduled"
        /\ \A s \in DOMAIN releases : s # r => releases'[s] = releases[s]
    <3>1. PICK version, at, state :
            /\ state \in {"scheduled", "cancelled"}
            /\ state = "scheduled" => releases[r].state = "scheduled"
            /\ releases' = L!Put(releases, r, [releases[r] EXCEPT
                 !.state = state, !.version = version, !.scheduledAt = at])
      BY <2>2
    <3>2. DOMAIN releases' = DOMAIN releases
          /\ \A s \in DOMAIN releases : s # r => releases'[s] = releases[s]
      BY <3>1 DEF L!Put
    <3>3. releases'[r] = [releases[r] EXCEPT
            !.state = state, !.version = version, !.scheduledAt = at]
      BY <3>1 DEF L!Put
    <3>4. /\ releases'[r].post = releases[r].post /\ releases'[r].rev = releases[r].rev
          /\ releases'[r].state = state
      BY <2>1, <3>3 DEF L!Release
    <3>. QED BY <3>1, <3>2, <3>4
  <2>4. /\ memory'.public = memory.public /\ memory'.tree = memory.tree
        /\ memory'.revisions = memory.revisions
    BY <1>0, <1>3, <2>1, ChangeReleaseTyped
  <2>. QED BY <2>1, <2>3, <2>4, KeepsCatalog DEF Covers, HeldRow
<1>4. ASSUME NEW r \in DOMAIN releases, RetryRelease(r)
      PROVE  Covers'
  <2>1. r \in L!InState({"scheduled", "blocked"}) /\ UNCHANGED <<phase, memory>>
    BY <1>4 DEF RetryRelease, L!InState
  <2>2. PICK op \in Operations : L!ClaimActivation(r, releases[r].version, memory.site, clock,
                                                  ApprovedCandidate(releases[r], clock))
    BY <1>4 DEF RetryRelease, L!BeginRetry
  <2>3. Writes(r) /\ releases'[r].post = releases[r].post /\ releases'[r].rev = releases[r].rev
    BY <1>0, <2>1, <2>2, ClaimWrites
  <2>4. <<releases[r].post, releases[r].rev>> \in memory.revisions
    BY <1>4 DEF RetriesHeldRevision
  <2>5. DOMAIN releases' = DOMAIN releases
        /\ \A s \in DOMAIN releases : s # r => releases'[s] = releases[s]
    BY <2>3 DEF Writes
  <2>. QED BY <2>1, <2>3, <2>4, <2>5, KeepsCatalog DEF Covers, HeldRow
<1>5. ASSUME NEW recipient \in Tips, ChangeTip(recipient)
      PROVE  Covers'
  <2>1. UNCHANGED releases
    BY <1>5 DEF ChangeTip, ledger
  <2>2. \/ /\ UNCHANGED phase /\ memory'.public = memory.public /\ memory'.tree = memory.tree
           /\ memory'.revisions = memory.revisions
        \/ phase' = "draining"
    BY <1>0, <1>5, ChangeTipTyped
  <2>. QED BY <2>1, <2>2, KeepsCatalog
<1>6. ASSUME NEW tree \in Trees, ApplyContentCatalog(tree)
      PROVE  Covers'
  <2>. SUFFICES ASSUME phase' \in {"ready", "recovering"}  PROVE Covers'
    BY DEF Covers
  <2>1. UNCHANGED <<releases, phase>> /\ Accepts
    BY <1>6 DEF ApplyContentCatalog, L!IndexContentCatalog
  <2>2. /\ memory'.tree = tree /\ memory'.revisions = PostsOf[tree] \cup RetainedPins
        /\ memory'.public = memory.public
    BY <1>0, <1>6, ApplyContentCatalogTyped
  <2>3. phase = "ready" /\ inflight = None /\ Interrupted = {}
    BY <2>1 DEF Accepts, Inv, Posted
  <2>4. ASSUME NEW r \in DOMAIN releases, releases[r].state \in {"scheduled", "activating"}
        PROVE  <<releases[r].post, releases[r].rev>> \in Pins(memory.scheduled)
    <3>1. r \in L!InState({"scheduled"})
      BY <2>3, <2>4 DEF Interrupted, L!InState
    <3>2. r \in DOMAIN memory.scheduled /\ memory.scheduled[r] = releases[r]
      BY <2>3, <3>1, PickedRow
    <3>. QED BY <3>2 DEF Pins
  <2>5. \A r \in DOMAIN releases' : HeldRow(releases[r])'
    BY <2>1, <2>2, <2>4 DEF HeldRow, RetainedPins
  <2>. QED BY <2>2, <2>5 DEF Covers, RetainedPins, Keys
<1>. QED BY <1>1, <1>2, <1>3, <1>4, <1>5, <1>6 DEF Command

LEMMA DeliverCovers ==
  ASSUME LedgerKept, Inv, Covers, Deliver
  PROVE  Covers'
<1>0. Typed /\ LP!IInv
  BY DEF Inv, LedgerKept
<1>1. CASE ActivateScheduled
  <2>0. PICK r : r = picked.release
    OBVIOUS
  <2>1. /\ r \in L!InState({"scheduled", "blocked"}) /\ r \in L!InState({"scheduled"})
        /\ UNCHANGED <<phase, memory>>
        /\ \E version : L!ClaimActivation(r, version, memory.site, picked.now,
                                          ApprovedCandidate(memory.scheduled[r], picked.now))
    BY <1>1, <2>0 DEF ActivateScheduled, Delivered, L!BeginDueActivation, L!InState
  <2>2. Writes(r) /\ releases'[r].post = releases[r].post /\ releases'[r].rev = releases[r].rev
    BY <1>0, <2>1, ClaimWrites
  <2>3. /\ r \in DOMAIN releases /\ releases[r].state = "scheduled"
        /\ DOMAIN releases' = DOMAIN releases
        /\ \A s \in DOMAIN releases : s # r => releases'[s] = releases[s]
    BY <2>1, <2>2 DEF Writes, L!InState
  <2>. QED BY <2>1, <2>2, <2>3, KeepsCatalog DEF Covers, HeldRow
<1>2. CASE BlockScheduled
  <2>0. PICK r : r = picked.release
    OBVIOUS
  <2>1. /\ r \in DOMAIN releases /\ DOMAIN releases' = DOMAIN releases /\ UNCHANGED phase
        /\ \A s \in DOMAIN releases : s # r => releases'[s] = releases[s]
        /\ releases'[r] = [releases[r] EXCEPT
             !.state = "blocked", !.version = @ + 2, !.activationAt = picked.now]
    BY <1>2, <2>0 DEF BlockScheduled, L!BlockScheduled, L!Put, L!InState
  <2>2. releases'[r].state = "blocked"
    BY <1>0, <2>1, LedgerFacts DEF L!TypeOK, L!Release
  <2>3. /\ memory'.public = memory.public /\ memory'.tree = memory.tree
        /\ memory'.revisions = memory.revisions
    BY <1>0, <1>2, BlockScheduledTyped
  <2>. QED BY <2>1, <2>2, <2>3, KeepsCatalog DEF HeldRow
<1>3. CASE DropStalePick \/ SchedulerFails
  <2>1. UNCHANGED <<releases, memory>> /\ phase' \in {phase, "draining"}
    BY <1>0, <1>3, AnsweredTyped DEF ledger
  <2>. QED BY <2>1, KeepsCatalog
<1>. QED BY <1>1, <1>2, <1>3 DEF Deliver

LEMMA ActivateCovers ==
  ASSUME LedgerKept, Inv, Covers, Activate
  PROVE  Covers'
<1>0. Typed /\ Posted /\ Claims /\ LP!IInv /\ LP!IInv'
  BY DEF Inv, LedgerKept
<1>1. CASE ActivateSnapshot
  <2>1. /\ UNCHANGED <<releases, phase>> /\ memory'.tree = memory.tree
        /\ memory'.public = memory.public /\ memory'.revisions = memory.revisions
    BY <1>0, <1>1, ActivateSnapshotTyped DEF ledger
  <2>. QED BY <2>1, KeepsCatalog
<1>2. CASE FinishPublication
  <2>. SUFFICES ASSUME phase' \in {"ready", "recovering"}  PROVE Covers'
    BY DEF Covers
  <2>0. PICK r : r = inflight.release
    OBVIOUS
  <2>1. /\ phase # "down" /\ phase # "draining"
        /\ memory'.tree = memory.tree /\ memory'.revisions = memory.revisions
        /\ memory'.public = releases[r].candidate.posts
    BY <1>0, <1>2, <2>0, FinishTyped
  <2>2. phase \in {"ready", "recovering"}
    BY <1>0, <2>1 DEF Typed
  <2>3. r \in DOMAIN releases /\ releases[r].state = "activating" /\ r \in Interrupted
    BY <1>0, <1>2, <2>0 DEF Posted, Interrupted, L!InState, FinishPublication
  <2>4. releases[r].candidate.posts =
          WithApproved(memory.public, releases[r].post, releases[r].rev, releases[r].activationAt)
    BY <1>0, <2>1, <2>3 DEF Claims, Inv, Coherent
  <2>5. <<releases[r].post, releases[r].rev>> \in memory.revisions
    BY <2>2, <2>3 DEF Covers, HeldRow
  <2>6. Keys(memory'.public) \subseteq Keys(memory.public) \cup {<<releases[r].post, releases[r].rev>>}
    BY <2>1, <2>4 DEF Keys, WithApproved
  <2>7. L!FinishActivation(r, releases[r].version, memory.site, releases[r].candidate)
    BY <1>2, <2>0 DEF FinishPublication
  <2>8. DOMAIN releases' = DOMAIN releases
    BY <2>7 DEF L!FinishActivation
  <2>9. ASSUME NEW s \in DOMAIN releases, releases'[s] # releases[s]
        PROVE  releases'[s].state \in {"published", "superseded"}
    <3>1. releases[s] \in L!Release
      BY <1>0, LedgerFacts DEF L!TypeOK
    <3>. QED BY <2>7, <2>9, <3>1 DEF L!FinishActivation, L!Release
  <2>10. \A s \in DOMAIN releases' : HeldRow(releases[s])'
    BY <2>1, <2>2, <2>8, <2>9 DEF Covers, HeldRow
  <2>11. Keys(memory'.public) \subseteq memory.revisions /\ PostsOf[memory.tree] \subseteq memory.revisions
    BY <2>2, <2>5, <2>6 DEF Covers
  <2>. QED BY <2>1, <2>10, <2>11 DEF Covers, Keys
<1>3. CASE ActivationConflict \/ FinishRefused
  <2>1. phase' \in {"draining", "down"}
    BY <1>0, <1>3, StopTyped
  <2>. QED BY <2>1 DEF Covers
<1>. QED BY <1>1, <1>2, <1>3 DEF Activate

LEMMA StartCovers ==
  ASSUME LedgerKept, Inv, NEW tree \in Trees, Start(tree)
  PROVE  Covers'
<1>1. /\ UNCHANGED releases /\ memory'.revisions = PostsOf[tree] \cup Pinned
      /\ memory'.public = LedgerProjection /\ memory'.tree = tree
  BY StartTyped DEF Inv, LedgerKept
<1>2. ASSUME NEW r \in DOMAIN releases, releases[r].state \in {"scheduled", "activating"}
      PROVE  <<releases[r].post, releases[r].rev>> \in Pins(Rows({"scheduled", "activating"}))
  <2>1. /\ r \in DOMAIN Rows({"scheduled", "activating"})
        /\ Rows({"scheduled", "activating"})[r] = releases[r]
    BY <1>2 DEF Rows, L!InState
  <2>. QED BY <2>1 DEF Pins
<1>3. \A r \in DOMAIN releases' : HeldRow(releases[r])'
  BY <1>1, <1>2 DEF HeldRow, Pinned
<1>4. Keys(memory'.public) \subseteq memory'.revisions
  BY <1>1 DEF Pinned
<1>. QED BY <1>1, <1>3, <1>4 DEF Covers, Keys

LEMMA StepCovers ==
  ASSUME LP!IInv, Inv, Covers, [Next]_vars, [RetriesHeldRevision]_vars
  PROVE  Covers'
<1>1. LedgerKept /\ Typed /\ Posted
  BY StepSafe DEF Inv
<1>2. CASE PickDue \/ Shutdown \/ Tick \/ UNCHANGED vars \/ (\E tree \in Trees : RetainTree(tree))
  <2>1. UNCHANGED <<releases, memory>> /\ phase' \in {phase, "draining"}
    BY <1>2 DEF PickDue, Shutdown, Tick, vars, RetainTree, ledger, process
  <2>. QED BY <2>1, KeepsCatalog
<1>3. CASE Exit \/ Crash
  <2>1. phase' \in {"draining", "down"}
    BY <1>1, <1>3, StopTyped
  <2>. QED BY <2>1 DEF Covers
<1>4. CASE Command /\ RetriesHeldRevision
  BY <1>1, <1>4, CommandCovers
<1>. QED BY <1>1, <1>2, <1>3, <1>4, DeliverCovers, ActivateCovers, StartCovers DEF Next, Startup

(* The catalog of a serving process holds every public revision, through     *)
(* reloads, activations and restarts, as long as no blocked release is       *)
(* retried whose revision a reload has dropped: those are the only approvals *)
(* that retain_pinned_revisions leaves out.                                  *)
THEOREM CoordinatorCatalogCovers ==
  Spec /\ [][RetriesHeldRevision]_vars => []CatalogCoversLedger
<1>1. Init => Covers
  BY DEF Init, Covers
<1>2. LP!IInv /\ Inv /\ Covers /\ [Next]_vars /\ [RetriesHeldRevision]_vars => Covers'
  BY StepCovers
<1>3. Covers => CatalogCoversLedger
  BY DEF Covers, CatalogCoversLedger
<1>. QED BY <1>1, <1>2, <1>3, InvariantHolds, PTL DEF Spec
=============================================================================
