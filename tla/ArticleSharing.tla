--------------------------- MODULE ArticleSharing ---------------------------
(***************************************************************************)
(* The teaser of a newly published article, the one channel it is sent to  *)
(* and the worker that sends it (domain/sharing/store.rs, worker.rs and    *)
(* substack.rs, with the sharing part of database/restore.rs).             *)
(*                                                                         *)
(* A delivery is claimed in one transaction, sent in up to two requests    *)
(* and finished in another transaction.  The provider is an environment    *)
(* that may accept a request and lose or garble the answer.  Receipts of   *)
(* retried commands change nothing and are left out, and the clock is a    *)
(* choice: a queued delivery either waits or no longer does.               *)
(***************************************************************************)
EXTENDS Integers, Sequences, FiniteSets

CONSTANTS
  Posts,        (* articles                                       *)
  None,
  MaxAttempts,  (* MAX_ATTEMPTS                                   *)
  MaxOrders,    (* bound: commands of the Owner                   *)
  MaxEvents     (* bound: crashes, copies and restores            *)

NoDraft  == 0
Modes    == {"enabled", "paused"}
Failures == {"interrupted", "refused", "unexpected_response", "retries_exhausted"}
Answers  == {"posted", "retry", "credentials_rejected", "refused", "unexpected_response"}

Drafts   == Nat
Rows     == [state : {"queued", "sending", "posted", "failed"}, attempts : Nat, waits : BOOLEAN,
             draft : Drafts, failure : Failures \cup {None}]
Channels == [version : Nat, mode : Modes, rejected : BOOLEAN]

ASSUME SharingConstants ==
  /\ MaxAttempts \in Nat \ {0} /\ MaxOrders \in Nat /\ MaxEvents \in Nat
  /\ None \notin Posts /\ None \notin Rows

VARIABLES
  settings,   (* the channel: version, mode, whether its credentials were refused *)
  teased,     (* posts with a recorded teaser                                     *)
  rows,       (* the delivery of a post                                           *)
  line,       (* posts with a delivery, longest untouched first (updated_at)      *)
  backup,     (* an earlier copy of these four                                    *)
  up,         (* the process runs                                                 *)
  worker,     (* where the worker is, and what it carries                         *)
  created,    (* at the provider: drafts created for a post                       *)
  public,     (* at the provider: drafts of a post that were published            *)
  allowed,    (* history: how often the Owner's commands queued a post            *)
  budget

tables == <<settings, teased, rows, line>>
remote == <<created, public>>
vars   == <<settings, teased, rows, line, backup, up, worker, created, public, allowed, budget>>

Idle == [pc |-> "idle", post |-> None, version |-> 0, draft |-> NoDraft, answer |-> "none"]

Init ==
  /\ settings = None /\ teased = {} /\ rows = [p \in Posts |-> None] /\ line = <<>>
  /\ backup = None /\ up = FALSE /\ worker = Idle
  /\ created = [p \in Posts |-> 0] /\ public = [p \in Posts |-> {}]
  /\ allowed = [p \in Posts |-> 0]
  /\ budget = [orders |-> MaxOrders, events |-> MaxEvents]

Spend(what) == budget[what] > 0 /\ budget' = [budget EXCEPT ![what] = @ - 1]

------------------------------------------------------------------------------
(* The Owner. *)

Touch(p) == Append(SelectSeq(line, LAMBDA q : q # p), p)

(* insert_delivery *)
NewRow == [state |-> "queued", attempts |-> 0, waits |-> FALSE, draft |-> NoDraft, failure |-> None]

UpdateSubstack(mode, session) ==
  /\ up /\ Spend("orders")
  /\ settings = None => session
  /\ settings' = [version  |-> IF settings = None THEN 1 ELSE settings.version + 1,
                  mode     |-> mode,
                  rejected |-> ~session /\ settings.rejected]
  /\ UNCHANGED <<teased, rows, line, backup, up, worker, remote, allowed>>

(* share: a teaser the channel missed, or once more after a failure *)
Share(p) ==
  /\ up /\ Spend("orders")
  /\ p \in teased
  /\ rows[p] # None => rows[p].state = "failed"
  /\ rows' = [rows EXCEPT ![p] =
       IF @ = None THEN NewRow ELSE [NewRow EXCEPT !.draft = rows[p].draft]]
  /\ line' = Touch(p)
  /\ allowed' = [allowed EXCEPT ![p] = @ + 1]
  /\ UNCHANGED <<settings, teased, backup, up, worker, remote>>

(* queue_teaser, in the transaction that publishes an article first *)
PublishArticle(p) ==
  /\ up /\ Spend("orders")
  /\ p \notin teased
  /\ teased' = teased \cup {p}
  /\ IF settings # None /\ settings.mode = "enabled"
     THEN /\ rows' = [rows EXCEPT ![p] = NewRow] /\ line' = Touch(p)
          /\ allowed' = [allowed EXCEPT ![p] = @ + 1]
     ELSE UNCHANGED <<rows, line, allowed>>
  /\ UNCHANGED <<settings, backup, up, worker, remote>>

------------------------------------------------------------------------------
(* The worker. *)

Sendable == settings # None /\ settings.mode = "enabled" /\ ~settings.rejected
IsDue(p) == rows[p] # None /\ rows[p].state = "queued" /\ ~rows[p].waits

(* due: the row least recently updated goes first. *)
LongestWaiting(p) ==
  \E i \in DOMAIN line :
    /\ line[i] = p /\ IsDue(p)
    /\ \A j \in 1..(i - 1) : ~IsDue(line[j])

(* The pass reads the settings and the delivery that waits longest. *)
Load(p) ==
  /\ up /\ worker.pc = "idle"
  /\ Sendable /\ LongestWaiting(p)
  /\ worker' = [Idle EXCEPT !.pc = "claim", !.post = p, !.version = settings.version,
                            !.draft = rows[p].draft]
  /\ UNCHANGED <<tables, backup, up, remote, allowed, budget>>

Claim ==
  /\ up /\ worker.pc = "claim"
  /\ IF Sendable /\ settings.version = worker.version /\ IsDue(worker.post)
     THEN /\ rows' = [rows EXCEPT ![worker.post].state = "sending", ![worker.post].attempts = @ + 1]
          /\ line' = Touch(worker.post)
          /\ worker' = [worker EXCEPT !.pc = IF worker.draft = NoDraft THEN "create" ELSE "publish"]
     ELSE worker' = Idle /\ UNCHANGED <<rows, line>>
  /\ UNCHANGED <<settings, teased, backup, up, remote, allowed, budget>>

(* The writer's queue is full: nothing was claimed. *)
ClaimRefused ==
  /\ Spend("events")
  /\ up /\ worker.pc = "claim"
  /\ worker' = Idle
  /\ UNCHANGED <<tables, backup, up, remote, allowed>>

Answered(answer) == worker' = [worker EXCEPT !.pc = "finish", !.answer = answer]

(* create_draft: a draft nobody learns the number of is never published. *)
CreateDraft ==
  /\ up /\ worker.pc = "create"
  /\ \/ /\ created' = [created EXCEPT ![worker.post] = @ + 1]
        /\ worker' = [worker EXCEPT !.pc = "publish", !.draft = created[worker.post] + 1]
     \/ /\ \E answer \in Answers \ {"posted"} : Answered(answer)
        /\ UNCHANGED created
  /\ UNCHANGED <<tables, backup, up, public, allowed, budget>>

(* publish: once more for a published draft changes nothing.  A post that   *)
(* went out may be answered by nothing or by something unreadable.          *)
Publish ==
  /\ up /\ worker.pc = "publish"
  /\ \/ /\ public' = [public EXCEPT ![worker.post] = @ \cup {worker.draft}]
        /\ \E answer \in {"posted", "retry", "unexpected_response"} : Answered(answer)
     \/ /\ \E answer \in Answers \ {"posted"} : Answered(answer)
        /\ UNCHANGED public
  /\ UNCHANGED <<tables, backup, up, created, allowed, budget>>

(* COALESCE(?, draft) *)
Kept(row) == IF worker.draft = NoDraft THEN row.draft ELSE worker.draft

Finished(row) ==
  CASE worker.answer = "posted" -> [row EXCEPT !.state = "posted"]
    [] worker.answer = "retry" /\ row.attempts < MaxAttempts ->
         [row EXCEPT !.state = "queued", !.waits = TRUE, !.draft = Kept(row)]
    [] worker.answer = "retry" /\ row.attempts >= MaxAttempts ->
         [row EXCEPT !.state = "failed", !.failure = "retries_exhausted"]
    [] worker.answer = "credentials_rejected" ->
         [row EXCEPT !.state = "queued", !.attempts = IF @ > 0 THEN @ - 1 ELSE 0, !.draft = Kept(row)]
    [] worker.answer \in Failures -> [row EXCEPT !.state = "failed", !.failure = worker.answer]

(* Mutant: refused credentials are used again. *)
Unmarked == settings

(* A newer save keeps its fresh credentials. *)
Marked ==
  IF worker.answer = "credentials_rejected" /\ settings.version = worker.version
  THEN [settings EXCEPT !.rejected = TRUE] ELSE settings

FinishDelivery ==
  /\ up /\ worker.pc = "finish"
  /\ rows[worker.post].state = "sending"
  /\ rows' = [rows EXCEPT ![worker.post] = Finished(@)]
  /\ line' = Touch(worker.post)
  /\ settings' = Marked
  /\ worker' = Idle
  /\ UNCHANGED <<teased, backup, up, remote, allowed, budget>>

(* The retry time passes. *)
Elapse(p) ==
  /\ rows[p] # None /\ rows[p].state = "queued" /\ rows[p].waits
  /\ rows' = [rows EXCEPT ![p].waits = FALSE]
  /\ UNCHANGED <<settings, teased, line, backup, up, worker, remote, allowed, budget>>

------------------------------------------------------------------------------
(* The process and the offline restore. *)

Fail(row) == [row EXCEPT !.state = "failed", !.failure = "interrupted"]

Start ==
  /\ ~up /\ up' = TRUE
  /\ worker' = [Idle EXCEPT !.pc = "start"]
  /\ UNCHANGED <<tables, backup, remote, allowed, budget>>

(* fail_interrupted, before the first pass *)
FailInterrupted ==
  /\ up /\ worker.pc = "start"
  /\ rows' = [p \in Posts |-> IF rows[p] # None /\ rows[p].state = "sending" THEN Fail(rows[p]) ELSE rows[p]]
  /\ line' = SelectSeq(line, LAMBDA p : rows[p].state # "sending")
             \o SelectSeq(line, LAMBDA p : rows[p].state = "sending")
  /\ worker' = Idle
  /\ UNCHANGED <<settings, teased, backup, up, remote, allowed, budget>>

(* Also what an outcome that cannot be recorded ends in. *)
Crash ==
  /\ Spend("events")
  /\ up /\ up' = FALSE /\ worker' = Idle
  /\ UNCHANGED <<tables, backup, remote, allowed>>

(* external: replication keeps a copy of the database; one is kept here. *)
Replicate ==
  /\ Spend("events")
  /\ up /\ backup = None
  /\ backup' = [settings |-> settings, teased |-> teased, rows |-> rows, line |-> line]
  /\ UNCHANGED <<tables, up, worker, remote, allowed>>

(* Mutant: only what was being sent is held. *)
HeldSending(copy) ==
  [p \in Posts |-> IF copy[p] # None /\ copy[p].state = "sending" THEN Fail(copy[p]) ELSE copy[p]]

(* hold_restored_sharing *)
Held(copy) ==
  [p \in Posts |-> IF copy[p] # None /\ copy[p].state \in {"queued", "sending"}
                   THEN Fail(copy[p]) ELSE copy[p]]

AcceptRestore ==
  /\ Spend("events")
  /\ ~up /\ backup # None
  /\ settings' = IF backup.settings = None THEN None ELSE [backup.settings EXCEPT !.mode = "paused"]
  /\ teased' = backup.teased /\ rows' = Held(backup.rows) /\ line' = backup.line
  /\ UNCHANGED <<backup, up, worker, remote, allowed>>

------------------------------------------------------------------------------
Owner ==
  \/ \E mode \in Modes, session \in BOOLEAN : UpdateSubstack(mode, session)
  \/ \E p \in Posts : Share(p) \/ PublishArticle(p)

Work ==
  \/ FailInterrupted \/ (\E p \in Posts : Load(p))
  \/ Claim \/ CreateDraft \/ Publish \/ FinishDelivery

Next ==
  \/ Owner \/ Work \/ ClaimRefused
  \/ \E p \in Posts : Elapse(p)
  \/ Start \/ Crash \/ Replicate \/ AcceptRestore

(* The worker keeps making its passes, every 30 seconds; requests end, by   *)
(* their timeout; retry times pass.                                         *)
Spec ==
  /\ Init /\ [][Next]_vars
  /\ WF_vars(Work) /\ \A p \in Posts : WF_vars(Elapse(p))

------------------------------------------------------------------------------
(* The types of the variables. *)
TypeOK ==
  /\ settings \in Channels \cup {None}
  /\ teased \subseteq Posts
  /\ rows \in [Posts -> Rows \cup {None}]
  /\ line \in Seq(Posts)
  /\ backup \in [settings : Channels \cup {None}, teased : SUBSET Posts,
                 rows : [Posts -> Rows \cup {None}], line : Seq(Posts)] \cup {None}
  /\ up \in BOOLEAN
  /\ worker \in [pc : {"start", "idle", "claim", "create", "publish", "finish"},
                 post : Posts \cup {None}, version : Nat, draft : Drafts,
                 answer : Answers \cup {"none"}]
  /\ created \in [Posts -> Nat] /\ public \in [Posts -> SUBSET Nat]
  /\ allowed \in [Posts -> Nat]
  /\ budget \in [orders : 0..MaxOrders, events : 0..MaxEvents]

(* "Maincopy never sends a teaser again on its own after an uncertain       *)
(* outcome" (docs/sharing.md): there are never more posts of an article     *)
(* than times the Owner had it queued, through lost and unreadable answers, *)
(* refused credentials, new settings, crashes and restores.                 *)
NeverTwiceOnItsOwn == \A p \in Posts : Cardinality(public[p]) <= allowed[p]

(* A delivery that may be sent does not stay queued or sending for ever:    *)
(* it is posted or fails, the channel is paused, its credentials turn out   *)
(* refused, or the process is down.                                         *)
DeliveriesEnd ==
  \A p \in Posts :
    []<>(~up \/ ~Sendable \/ rows[p] = None \/ rows[p].state \in {"posted", "failed"})
=============================================================================
