------------------------ MODULE PublicationCoordinator ------------------------
(***************************************************************************)
(* The publication coordinator, its actor, the scheduler and content sync  *)
(* over the durable ledger: crates/server/src/domain/publication           *)
(* (activation.rs, scheduler.rs), content_sync.rs, startup.rs and          *)
(* render/site.rs.                                                         *)
(*                                                                         *)
(* One actor executes one command at a time against a cache of the ledger, *)
(* and a publication takes three steps: claim the release durably, swap    *)
(* the snapshot readers get, finish durably.  The process can die between  *)
(* any two steps; startup rebuilds everything from the ledger and the      *)
(* retained content trees.                                                 *)
(*                                                                         *)
(* A site snapshot digest is a function of what it identifies, the site    *)
(* settings and the public posts with their publication times, so it is    *)
(* modelled as that; likewise an accepted preview.                         *)
(***************************************************************************)
EXTENDS Naturals

CONSTANTS
  Posts, Revisions, Releases, Operations, Routes, RoutesOf, Trees, PostsOf,
  NoDigest, Times, MaxVersion,
  Settings,      (* publication settings and site assets           *)
  SettingsOf,    (* [Trees -> Settings]                            *)
  Tips,          (* effective tip recipients                       *)
  None,          (* no command in progress, no release picked      *)
  MaxStops,      (* bound: crashes and shutdowns                   *)
  MaxTipChanges, (* bound: profile, user status and tip commands   *)
  MaxRefusals,   (* bound: finishes refused by a full writer queue *)
  MaxBacklog     (* bound: commands accepted before a fail-closed  *)

PublicPosts == UNION {[P -> [rev : Revisions, since : Times]] : P \in SUBSET Posts}
Digests  == [settings : Settings, posts : PublicPosts]
Previews == [settings : Settings, post : Posts, rev : Revisions, tip : Tips,
             since : Times \cup {0}]

(* What the ledger assumes of its constants, and the coordinator of its own. *)
ASSUME CoordinatorConstants ==
  /\ RoutesOf \in [Posts \X Revisions -> SUBSET Routes]
  /\ PostsOf \in [Trees -> SUBSET (Posts \X Revisions)]
  /\ NoDigest \notin Digests
  /\ Times \subseteq Nat \ {0} /\ 1 \in Times
  /\ MaxVersion \in Nat
  /\ SettingsOf \in [Trees -> Settings]
  /\ MaxStops \in Nat /\ MaxTipChanges \in Nat /\ MaxRefusals \in Nat /\ MaxBacklog \in Nat

(* Nothing in progress is not a release in progress. *)
ASSUME NoCommand ==
  None \notin [release : Releases, swapped : BOOLEAN] \cup [release : Releases, now : Times]

VARIABLES
  releases, routes, sites, head, receipts, observed,  (* the durable ledger *)
  retained,   (* durable: content trees in the candidate store              *)
  tip,        (* durable: the effective tip recipient                       *)
  clock,      (* wall-clock time                                            *)
  served,     (* the posts of the snapshot readers were given last          *)
  phase,      (* "down", "recovering", "ready" or "draining"                *)
  memory,     (* PublicationCoordinator's fields, None when there is none   *)
  inflight,   (* the release being activated, and whether it was swapped in *)
  picked,     (* the release and the time the scheduler sent to the actor   *)
  backlog,    (* commands still queued once admission has closed            *)
  budget      (* what is left of the bounds                                 *)

ledger  == <<releases, routes, sites, head, receipts, observed>>
process == <<phase, memory, inflight, picked, backlog>>
vars    == <<ledger, retained, tip, clock, served, process, budget>>

L == INSTANCE PublicationLedger

NoPosts == [p \in {} |-> p]
(* Mutant: a refresh dates every post to the time of the refresh. *)
SnapshotRedated(settings, public, recipient) ==
  [digest |-> [settings |-> settings,
               posts |-> [p \in DOMAIN public |-> [public[p] EXCEPT !.since = clock]]],
   tip |-> recipient]

Snapshot(settings, public, recipient) ==
  [digest |-> [settings |-> settings, posts |-> public], tip |-> recipient]

-----------------------------------------------------------------------------
(* What the coordinator computes. *)

(* canonical_publication_times and the ledger projection startup loads *)
LedgerProjection ==
  [p \in {releases[r].post : r \in L!InState({"published"})} |->
     [rev |-> releases[CHOOSE r \in L!Published(p) : TRUE].rev, since |-> L!PublicSince(p)]]

Keys(public) == {<<p, public[p].rev>> : p \in DOMAIN public}
Pins(rows)   == {<<rows[r].post, rows[r].rev>> : r \in DOMAIN rows}
Rows(S)      == [r \in L!InState(S) |-> releases[r]]

(* Mutant: an update moves the post to the time of its own activation. *)
WithUpdateTime(public, p, rev, at) ==
  [q \in DOMAIN public \cup {p} |-> IF q # p THEN public[q] ELSE [rev |-> rev, since |-> at]]

(* with_approved: an update keeps the time of the first publication *)
WithApproved(public, p, rev, at) ==
  [q \in DOMAIN public \cup {p} |->
     IF q # p THEN public[q]
     ELSE [rev |-> rev, since |-> IF p \in DOMAIN public THEN public[p].since ELSE at]]

(* build_candidate from the catalog of a content tree *)
Candidate(tree, p, rev, at) ==
  [settings |-> SettingsOf[tree], posts |-> WithApproved(memory.public, p, rev, at)]

(* reproduce_preview_digest *)
Preview(tree, public, recipient, p, rev) ==
  [settings |-> SettingsOf[tree], post |-> p, rev |-> rev, tip |-> recipient,
   since |-> IF p \in DOMAIN public THEN public[p].since ELSE 0]

(* select_public_posts renders only from revisions the catalog holds *)
Renders(revisions, public) == Keys(public) \subseteq revisions

(* catalog_for_content_digest: a retained candidate plus the public revisions *)
(* that the private catalog still holds                                       *)
Reconstructs(tree) ==
  /\ tree \in memory.candidates
  /\ Keys(memory.public) \subseteq PostsOf[tree] \cup memory.revisions

-----------------------------------------------------------------------------
(* The actor. *)

(* Mutant: commands are served while an activation is in flight. *)
AcceptsAnytime == phase = "ready" \/ (phase = "draining" /\ backlog > 0)

(* A command runs when the actor is idle: while serving, or from the queue  *)
(* that is drained once the process has been cancelled.                     *)
Accepts ==
  /\ inflight = None
  /\ phase = "ready" \/ (phase = "draining" /\ backlog > 0)

Left  == IF phase = "draining" THEN backlog - 1 ELSE backlog
Taken == backlog' = Left

(* Mutant: the cache outlives the process. *)
DownRemembering ==
  /\ phase' = "down" /\ inflight' = None /\ picked' = None /\ backlog' = 0
  /\ UNCHANGED <<memory, served>>

(* The process is gone, and with it everything but the durable state. *)
Down ==
  /\ phase' = "down" /\ memory' = None /\ inflight' = None /\ picked' = None /\ backlog' = 0
  /\ UNCHANGED served

(* FailClosedGuard dropped while armed, or a critical task that ended: the  *)
(* process is cancelled with whatever was already queued, or does not start. *)
FailClosed(queued) ==
  IF phase = "recovering" THEN Down ELSE
    /\ phase' = "draining" /\ inflight' = None
    /\ backlog' \in IF phase = "ready" THEN 0..MaxBacklog ELSE {queued}
    /\ UNCHANGED <<memory, picked, served>>

Spend(what) ==
  /\ budget[what] > 0
  /\ budget' = [budget EXCEPT ![what] = @ - 1]

(* Readers get the active snapshot whenever the listeners are bound. *)
Serve == served' = IF phase' \in {"ready", "draining"} THEN memory'.snapshot.digest.posts ELSE served

Begun(r) == inflight' = [release |-> r, swapped |-> FALSE]

(* require_publication_review, select_post, require_update_precondition and *)
(* require_accepted_preview: a command whose review or preview is stale is  *)
(* refused, so the approved preview is the current one.                     *)
Publishable(p, rev) ==
  /\ <<p, rev>> \in PostsOf[memory.tree]
  /\ p \in DOMAIN memory.public => memory.public[p].rev # rev

CurrentPreview(p, rev) == Preview(memory.tree, memory.public, memory.tip, p, rev)

PublishNow(r, p, rev) ==
  LET candidate == Candidate(memory.tree, p, rev, clock) IN
  /\ Accepts /\ Taken
  /\ Publishable(p, rev)
  /\ Renders(memory.revisions, candidate.posts)
  /\ L!RoutesAvailable(p, rev)
  /\ L!BeginPublishNow(r, p, rev, memory.tree, CurrentPreview(p, rev), memory.site, clock, candidate)
  /\ Begun(r)
  /\ UNCHANGED <<retained, tip, clock, served, phase, memory, picked, budget>>

Schedule(r, p, rev, at) ==
  /\ Accepts /\ Taken
  /\ Publishable(p, rev)
  /\ L!SchedulePublication(r, p, rev, memory.tree, CurrentPreview(p, rev), memory.site, clock, at)
  /\ memory' = [memory EXCEPT !.scheduled = L!Put(@, r, releases'[r])]
  /\ UNCHANGED <<retained, tip, clock, served, phase, inflight, picked, budget>>

(* Mutant: the cache keeps the release as the scheduler first saw it. *)
ChangeReleaseOnly(r) ==
  /\ Accepts /\ Taken
  /\ \E op \in Operations :
       LET version == releases[r].version IN
       \/ \E at \in Times : L!Reschedule(op, r, version, clock, at)
       \/ L!Cancel(op, r, version)
  /\ UNCHANGED <<retained, tip, clock, served, phase, memory, inflight, picked, budget>>

(* change_release reconciles the cache with the committed row *)
ChangeRelease(r) ==
  /\ Accepts /\ Taken
  /\ \E op \in Operations :
       LET version == releases[r].version IN
       \/ \E at \in Times : L!Reschedule(op, r, version, clock, at)
       \/ L!Cancel(op, r, version)
  /\ memory' = [memory EXCEPT !.scheduled =
       [s \in (DOMAIN @ \ {r}) \cup ({r} \cap L!InState({"scheduled"})') |->
          IF s = r THEN releases'[r] ELSE @[s]]]
  /\ UNCHANGED <<retained, tip, clock, served, phase, inflight, picked, budget>>

(* activate_approval up to the durable claim *)
Activates(r, approval) ==
  /\ Reconstructs(approval.tree)
  /\ approval.preview =
       Preview(approval.tree, memory.public, memory.tip, approval.post, approval.rev)
  /\ L!RoutesAvailable(approval.post, approval.rev)
  /\ Begun(r)

ApprovedCandidate(approval, at) == Candidate(approval.tree, approval.post, approval.rev, at)

RetryRelease(r) ==
  /\ Accepts /\ Taken
  /\ r \in L!InState({"blocked"})
  /\ Activates(r, releases[r])
  /\ \E op \in Operations :
       L!BeginRetry(op, r, releases[r].version, memory.site, clock,
                    ApprovedCandidate(releases[r], clock))
  /\ UNCHANGED <<retained, tip, clock, served, phase, memory, picked, budget>>

(* refresh_tip_presentation renders the private catalog, not the one the     *)
(* public snapshot was approved from.  The row is committed first.           *)
ChangeTip(recipient) ==
  LET refreshed == Snapshot(SettingsOf[memory.tree], memory.public, recipient) IN
  /\ Accepts /\ Spend("tips")
  /\ tip' = recipient
  /\ IF Renders(memory.revisions, memory.public) /\ memory.snapshot.digest = memory.site.digest
       THEN /\ memory' = [memory EXCEPT !.tip = recipient, !.snapshot = refreshed]
            /\ Taken /\ UNCHANGED <<phase, inflight, picked>>
            /\ Serve
       ELSE FailClosed(Left)
  /\ UNCHANGED <<ledger, retained, clock>>

(* content_sync: the candidate is retained before the actor is asked *)
RetainTree(tree) ==
  /\ phase = "ready"
  /\ tree \notin retained
  /\ retained' = retained \cup {tree}
  /\ UNCHANGED <<ledger, tip, clock, served, process, budget>>

(* Mutant: a reload keeps what is scheduled and forgets what is public. *)
ScheduledPins == Pins(memory.scheduled)

(* retain_pinned_revisions: what a reload may not lose *)
RetainedPins == Keys(memory.public) \cup Pins(memory.scheduled)

(* apply_content_catalog, rejected when a pinned revision is not retained *)
ApplyContentCatalog(tree) ==
  /\ Accepts /\ Taken
  /\ tree \in retained \ {memory.tree}
  /\ RetainedPins \subseteq PostsOf[tree] \cup memory.revisions
  /\ L!IndexContentCatalog(PostsOf[tree])
  /\ memory' = [memory EXCEPT !.tree = tree, !.revisions = PostsOf[tree] \cup RetainedPins,
                              !.candidates = @ \cup {tree}]
  /\ UNCHANGED <<retained, tip, clock, served, phase, inflight, picked, budget>>

-----------------------------------------------------------------------------
(* The scheduler. *)

(* run_iteration reads the earliest row outside the actor *)
PickDue ==
  LET due == L!InState({"scheduled"}) IN
  /\ phase = "ready" /\ picked = None
  /\ \E r \in due :
       /\ \A s \in due : releases[r].scheduledAt <= releases[s].scheduledAt
       /\ releases[r].scheduledAt <= clock
       /\ picked' = [release |-> r, now |-> clock]
  /\ UNCHANGED <<ledger, retained, tip, clock, served, phase, memory, inflight, backlog, budget>>

(* Mutant: the scheduler asks again for the release it was answered about. *)
DeliveredAgain == Accepts /\ picked # None /\ UNCHANGED picked

Delivered == Accepts /\ picked # None /\ picked' = None

ActivateScheduled ==
  LET r        == picked.release
      approval == memory.scheduled[r]
  IN
  /\ Delivered /\ Taken
  /\ r \in DOMAIN memory.scheduled
  /\ Activates(r, approval)
  /\ L!BeginDueActivation(r, approval.version, memory.site, picked.now,
                          ApprovedCandidate(approval, picked.now))
  /\ UNCHANGED <<retained, tip, clock, served, phase, memory, budget>>

(* ApprovedRevisionUnavailable and StalePreview *)
BlockScheduled ==
  LET r        == picked.release
      approval == memory.scheduled[r]
  IN
  /\ Delivered /\ Taken
  /\ r \in DOMAIN memory.scheduled
  /\ \/ approval.tree \notin memory.candidates
     \/ /\ Reconstructs(approval.tree)
        /\ approval.preview #
             Preview(approval.tree, memory.public, memory.tip, approval.post, approval.rev)
  /\ L!BlockScheduled(r, approval.version, picked.now)
  /\ memory' = [memory EXCEPT !.scheduled = [s \in DOMAIN @ \ {r} |-> @[s]]]
  /\ UNCHANGED <<retained, tip, clock, served, phase, inflight, budget>>

(* Rejected: the release changed after the scheduler read it *)
DropStalePick ==
  /\ Delivered /\ Taken
  /\ IF picked.release \in DOMAIN memory.scheduled
       THEN memory.scheduled[picked.release].scheduledAt > picked.now
       ELSE picked.release \notin L!InState({"scheduled"})
  /\ UNCHANGED <<ledger, retained, tip, clock, served, phase, memory, inflight, budget>>

(* DurableStateMismatch ends the scheduler, a critical task *)
SchedulerFails ==
  /\ Accepts /\ picked # None
  /\ picked.release \in DOMAIN memory.scheduled
  /\ LET approval == memory.scheduled[picked.release] IN
       approval.tree \in memory.candidates /\ ~Reconstructs(approval.tree)
  /\ phase' = "draining" /\ picked' = None
  /\ backlog' \in IF phase = "ready" THEN 0..MaxBacklog ELSE {Left}
  /\ UNCHANGED <<ledger, retained, tip, clock, served, memory, inflight, budget>>

-----------------------------------------------------------------------------
(* activate_and_finish, for a command and for recovery at startup. *)

RoutesStillFree ==
  LET row == releases[inflight.release] IN L!RoutesAvailable(row.post, row.rev)

ActivateSnapshot ==
  LET candidate == releases[inflight.release].candidate IN
  /\ inflight # None /\ ~inflight.swapped
  /\ memory.snapshot.digest = memory.site.digest
  /\ phase = "recovering" => RoutesStillFree
  /\ memory' = [memory EXCEPT !.snapshot = [digest |-> candidate, tip |-> memory.tip]]
  /\ inflight' = [inflight EXCEPT !.swapped = TRUE]
  /\ phase' = phase /\ Serve
  /\ UNCHANGED <<ledger, retained, tip, clock, picked, backlog, budget>>

(* SnapshotActivationConflict, or recovery that lost its routes *)
ActivationConflict ==
  /\ inflight # None /\ ~inflight.swapped
  /\ \/ memory.snapshot.digest # memory.site.digest
     \/ phase = "recovering" /\ ~RoutesStillFree
  /\ FailClosed(backlog)
  /\ UNCHANGED <<ledger, retained, tip, clock, budget>>

FinishPublication ==
  LET r   == inflight.release
      row == releases[r]
  IN
  /\ inflight # None /\ inflight.swapped
  /\ L!FinishActivation(r, row.version, memory.site, row.candidate)
  /\ memory' = [memory EXCEPT !.public = row.candidate.posts, !.site = head',
                              !.scheduled = [s \in DOMAIN @ \ {r} |-> @[s]]]
  /\ phase' = IF phase = "recovering" THEN "ready" ELSE phase
  /\ inflight' = None /\ Serve
  /\ UNCHANGED <<retained, tip, clock, picked, backlog, budget>>

(* Admission(QueueFull) after the claim and the swap *)
FinishRefused ==
  /\ inflight # None /\ inflight.swapped
  /\ Spend("refusals")
  /\ FailClosed(backlog)
  /\ UNCHANGED <<ledger, retained, tip, clock>>

-----------------------------------------------------------------------------
(* The process. *)

Shutdown ==
  /\ phase = "ready" /\ Spend("stops")
  /\ phase' = "draining" /\ backlog' \in 0..MaxBacklog
  /\ UNCHANGED <<ledger, retained, tip, clock, served, memory, inflight, picked>>

(* Commands still queued are those that were refused. *)
Exit ==
  /\ phase = "draining" /\ inflight = None
  /\ Down
  /\ UNCHANGED <<ledger, retained, tip, clock, budget>>

Crash ==
  /\ phase # "down" /\ Spend("stops")
  /\ Down
  /\ UNCHANGED <<ledger, retained, tip, clock>>

(* Mutant: recovery dates the publication to the restart. *)
RecoverableToday(r, trees) ==
  LET row    == releases[r]
      public == LedgerProjection
  IN
  /\ row.tree \in trees
  /\ row.preview = Preview(row.tree, public, tip, row.post, row.rev)
  /\ row.candidate = [settings |-> SettingsOf[row.tree],
                      posts |-> WithApproved(public, row.post, row.rev, clock)]

(* rebuild_activating_publication: the interrupted release reproduces the    *)
(* preview its approver accepted and the digest it claimed.                  *)
Recoverable(r, trees) ==
  LET row    == releases[r]
      public == LedgerProjection
  IN
  /\ row.tree \in trees
  /\ row.preview = Preview(row.tree, public, tip, row.post, row.rev)
  /\ row.candidate = [settings |-> SettingsOf[row.tree],
                      posts |-> WithApproved(public, row.post, row.rev, row.activationAt)]

Pinned == Keys(LedgerProjection) \cup Pins(Rows({"scheduled", "activating"}))

(* prepare_serving_state up to the listeners, from the content tree on disk: *)
(* hydrate_catalog, rebuild_activating_publication and                       *)
(* find_retained_public_snapshot all have to succeed.                        *)
CanStart(tree) ==
  LET trees == retained \cup {tree} IN
  /\ Pinned \subseteq UNION {PostsOf[t] : t \in trees}
  /\ \A r \in L!InState({"activating"}) : Recoverable(r, trees)
  /\ head # L!NoHead => \E t \in trees :
       head.digest = [settings |-> SettingsOf[t], posts |-> LedgerProjection]

Start(tree) ==
  LET public  == LedgerProjection
      digest  == IF head = L!NoHead
                   THEN [settings |-> SettingsOf[tree], posts |-> public] ELSE head.digest
      interrupted == L!InState({"activating"})
  IN
  /\ phase = "down" /\ CanStart(tree)
  /\ retained' = retained \cup {tree}
  /\ L!InstallStartup(head, digest, PostsOf[tree])
  /\ memory' = [tree |-> tree, revisions |-> PostsOf[tree] \cup Pinned,
                candidates |-> retained', public |-> public, site |-> head',
                scheduled |-> Rows({"scheduled"}), tip |-> tip,
                snapshot |-> [digest |-> digest, tip |-> tip]]
  /\ IF interrupted = {}
       THEN phase' = "ready" /\ inflight' = None
       ELSE phase' = "recovering" /\ \E r \in interrupted : Begun(r)
  /\ Serve
  /\ UNCHANGED <<tip, clock, picked, backlog, budget>>

Tick ==
  /\ clock + 1 \in Times
  /\ clock' = clock + 1
  /\ UNCHANGED <<ledger, retained, tip, served, process, budget>>

-----------------------------------------------------------------------------
Init ==
  /\ L!Init
  /\ retained = {} /\ tip \in Tips /\ clock = 1 /\ served = NoPosts
  /\ phase = "down" /\ memory = None /\ inflight = None /\ picked = None /\ backlog = 0
  /\ budget = [stops |-> MaxStops, tips |-> MaxTipChanges, refusals |-> MaxRefusals]

Command ==
  \/ \E r \in Releases, p \in Posts, rev \in Revisions :
       PublishNow(r, p, rev) \/ \E at \in Times : Schedule(r, p, rev, at)
  \/ \E r \in DOMAIN releases : ChangeRelease(r) \/ RetryRelease(r)
  \/ \E recipient \in Tips : ChangeTip(recipient)
  \/ \E tree \in Trees : ApplyContentCatalog(tree)

Deliver  == ActivateScheduled \/ BlockScheduled \/ DropStalePick \/ SchedulerFails
Activate == ActivateSnapshot \/ ActivationConflict \/ FinishPublication \/ FinishRefused
Startup  == \E tree \in Trees : Start(tree)

Next ==
  \/ Command \/ PickDue \/ Deliver \/ Activate
  \/ \E tree \in Trees : RetainTree(tree)
  \/ Shutdown \/ Exit \/ Crash \/ Startup \/ Tick

Spec == Init /\ [][Next]_vars

(* A live process runs its tasks: the scheduler re-reads, the actor serves   *)
(* its queue and finishes what it began, a cancelled process exits, and the  *)
(* service manager restarts a process that failed (nix/modules/maincopy.nix, *)
(* Restart=on-failure).  It does not restart one that was asked to stop, so  *)
(* the runs that use this leave MaxStops at 0.  Nothing obliges anybody to   *)
(* send a command.                                                           *)
Fairness ==
  /\ WF_vars(PickDue) /\ WF_vars(Deliver) /\ WF_vars(Activate)
  /\ WF_vars(Exit) /\ WF_vars(Startup)

FairSpec == Spec /\ Fairness

-----------------------------------------------------------------------------
(* Properties. *)

TypeOK ==
  /\ retained \subseteq Trees /\ tip \in Tips /\ clock \in Times
  /\ phase \in {"down", "recovering", "ready", "draining"}
  /\ phase = "down" => memory = None
  /\ phase # "down" =>
       /\ memory.tree \in Trees             (* content_digest                      *)
       /\ memory.revisions \subseteq Posts \X Revisions (* current and retained    *)
       /\ memory.candidates \subseteq Trees
       /\ memory.public \in PublicPosts     (* the public ledger projection        *)
       /\ memory.site \in L!Head
       /\ DOMAIN memory.scheduled \subseteq Releases
       /\ \A r \in DOMAIN memory.scheduled : memory.scheduled[r] \in L!Release
       /\ memory.tip \in Tips
       /\ memory.snapshot \in [digest : Digests, tip : Tips]
  /\ inflight \in [release : Releases, swapped : BOOLEAN] \cup {None}
  /\ picked \in [release : Releases, now : Times] \cup {None}
  /\ served \in PublicPosts

Idle == phase = "ready" /\ inflight = None

(* Between commands the coordinator's cache is the ledger: no interleaving   *)
(* of commands, scheduler and restarts leaves it deciding on stale state.    *)
CacheCoherent ==
  Idle => /\ memory.public = LedgerProjection /\ memory.site = head
          /\ memory.scheduled = Rows({"scheduled"})
          /\ memory.tip = tip /\ memory.snapshot.tip = tip

(* The active snapshot is the one the durable site head names.  Activation  *)
(* compares against it before every swap and fails closed otherwise.        *)
PublicMatchesHead == Idle => memory.snapshot.digest = head.digest

(* "A successful ownership read therefore remains valid until this command  *)
(* claims the same routes in finish_publication": once readers have the new *)
(* snapshot the finish is never rejected, only refused or lost.             *)
FinishAccepted ==
  inflight # None /\ inflight.swapped =>
    /\ releases[inflight.release].state = "activating"
    /\ RoutesStillFree
    /\ head = memory.site
    /\ ~L!FinishCorrupt(inflight.release)

(* Whenever the process is down, whatever it was doing and whatever content *)
(* tree is on disk, the next start succeeds and finishes what was begun.    *)
Restartable ==
  phase = "down" =>
    /\ \A tree \in Trees : CanStart(tree)
    /\ \A r \in L!InState({"activating"}) : L!RoutesAvailable(releases[r].post, releases[r].rev)

(* The private catalog holds every public revision: rendering, reloading    *)
(* and activating anything else depend on it.                               *)
CatalogCoversLedger == phase = "ready" => Keys(memory.public) \subseteq memory.revisions

(* A scheduled release is never activated before its time, even when it is  *)
(* rescheduled after the scheduler read it.                                 *)
NeverEarly ==
  \A r \in L!InState({"activating", "published", "superseded"}) :
    releases[r].kind = "scheduled" => releases[r].activationAt >= releases[r].scheduledAt

(* A scheduled release that has come due does not stay undecided: it is     *)
(* activated or blocked, unless it is rescheduled or cancelled first, even  *)
(* when deciding about another release stops the process.                   *)
DueIsDecided ==
  \A r \in Releases :
    (r \in L!InState({"scheduled"}) /\ releases[r].scheduledAt <= clock)
      ~> ~(r \in L!InState({"scheduled"}) /\ releases[r].scheduledAt <= clock)

(* What was claimed durably becomes public durably, across stops and restarts. *)
BegunIsFinished ==
  \A r \in Releases : (r \in L!InState({"activating"})) ~> (r \in L!InState({"published", "superseded"}))

(* The site comes back after every stop. *)
ServesAgain == (phase = "down") ~> (phase = "ready")

(* Readers: what is served implements PublicSite through crashes, refused    *)
(* finishes and restarts.                                                    *)
Site == INSTANCE PublicSite WITH page <- served, approved <- Pins(Rows({"scheduled", "activating", "blocked"}))
ImplementsSite == Site!Spec
=============================================================================
