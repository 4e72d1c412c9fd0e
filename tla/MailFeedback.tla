---------------------------- MODULE MailFeedback ----------------------------
(***************************************************************************)
(* The feedback consumer: one task polls a queue of the provider for       *)
(* bounces and complaints, has each event applied, and tells the writer    *)
(* how far its observation of the queue is continuous (domain/mail/        *)
(* feedback/worker.rs, queue.rs; the continuity row of domain/mail/        *)
(* subscriber/store.rs).                                                   *)
(*                                                                         *)
(* Sending is admitted only while feedback is fresh.  A request to receive *)
(* outlives the process that made it: as long as its signature is valid it *)
(* may still take a message and hide it, unseen, for a while.  The counts  *)
(* of the queue are approximate, and clocks may go back.                   *)
(***************************************************************************)
EXTENDS Naturals, FiniteSets, FiniteSetsExt

CONSTANTS
  Messages,       (* events the provider may report                          *)
  Queues,         (* queues a deployment may name                            *)
  Bindings,       (* configuration bindings of the settings                  *)
  None,
  Validity,       (* time for which a signed request may still be executed,  *)
                  (* its long poll included: 900 s, 20 s and 2 s of precision *)
  Visibility,     (* time for which a received message is hidden: 120 s      *)
  QuietWindow,    (* RECOVERY_QUIET_SECONDS                                  *)
  Retention,      (* of the queue                                            *)
  MaxTime,        (* bound: the clock                                        *)
  MaxEvents       (* bound: crashes and shutdowns, failures of a call,       *)
                  (* broken readings, poison, changes of settings            *)

ASSUME FeedbackConstants ==
  /\ Queues # {} /\ None \notin Queues /\ Bindings # {} /\ None \notin Bindings
  /\ Validity \in Nat /\ Visibility \in Nat \ {0} /\ QuietWindow \in Nat
  /\ Retention \in Nat \ {0} /\ MaxTime \in Nat \ {0} /\ MaxEvents \in Nat

Lease == Validity + Visibility         (* RECEIVE_RECOVERY_SECONDS            *)
Times == 0..(MaxTime + 1 + Lease)      (* 0 stands for NULL, as for no queue  *)

VARIABLES
  control,   (* mail_control_state: the continuity columns                   *)
  retained,  (* whether enrollments or attempts are retained                 *)
  worker,    (* FeedbackWorker and its ConsumerRun; pc "down": no process    *)
  queue,     (* external: messages, by the queue they are in                 *)
  requests,  (* external: requests whose answer nobody waits for             *)
  clock,     (* external: the provider's time                                *)
  budget

external == <<queue, requests, clock>>
vars     == <<control, retained, worker, external, budget>>

Spend == budget > 0 /\ budget' = budget - 1

Observed(time, drained) == [kind |-> "observed", time |-> time, drained |-> drained]
Checked(time)           == [kind |-> "checked", time |-> time, drained |-> FALSE]
Unavailable             == [kind |-> "unavailable", time |-> 0, drained |-> FALSE]
Reconcile               == [kind |-> "reconcile", time |-> 0, drained |-> FALSE]

Stopped(source) ==
  [pc |-> "down", source |-> source, binding |-> None, now |-> 0, drained |-> FALSE,
   recover |-> 0, gap |-> FALSE, say |-> Unavailable, uncertain |-> FALSE,
   signed |-> 0, leased |-> TRUE, message |-> None, next |-> "cycle"]

Gone(state, applied) ==
  [state |-> state, in |-> None, since |-> 0, hidden |-> 0, leased |-> TRUE, applied |-> applied]

Init ==
  /\ \E q \in Queues, b \in Bindings :
       /\ worker = Stopped(q)
       /\ control = [binding |-> b, run |-> FALSE, source |-> None, observed |-> 0,
                     gap |-> FALSE, provider |-> 0, regressed |-> FALSE, poll |-> 0,
                     recover |-> 0, quiet |-> 0, ok |-> FALSE]
  /\ retained = FALSE
  /\ queue = [m \in Messages |-> Gone("none", FALSE)]
  /\ requests = {}
  /\ clock = 1
  /\ budget = MaxEvents

-----------------------------------------------------------------------------
(* The queues and the provider's clock (external).                          *)

Queued(m)  == queue[m].state = "queued"
VisibleIn(m, q) == Queued(m) /\ queue[m].in = q /\ queue[m].hidden <= clock
Visible(m) == VisibleIn(m, worker.source)
Dead       == {m \in Messages : queue[m].state = "dead" /\ queue[m].in = worker.source}

(* A reading of the clock; a broken one is older than those before. *)
Reading(time) == time = clock \/ time < worker.now \/ time < control.provider

(* A request is executed within the validity of its signature, in its queue.*)
(* It is leased unless consent was reset since, and a message that such a   *)
(* request ever hid is no longer under a lease.                             *)
Executable(signed) == clock <= signed + Validity
Abandoned == [signed |-> worker.signed, in |-> worker.source, leased |-> worker.leased]

Hide(m, leased) ==
  queue' = [queue EXCEPT ![m].hidden = clock + Visibility, ![m].leased = @ /\ leased]

(* An event of a message that was mailed while sending was admitted: it is  *)
(* reported to the queue that was being observed.                           *)
Arrive(m) ==
  /\ retained /\ queue[m].state = "none"
  /\ queue' = [queue EXCEPT ![m] = [@ EXCEPT !.state = "queued", !.in = control.source,
                                             !.since = clock]]
  /\ UNCHANGED <<control, retained, worker, requests, clock, budget>>

(* A request whose answer nobody will see takes a message. *)
Strays(m, r) ==
  /\ r \in requests /\ Executable(r.signed) /\ VisibleIn(m, r.in)
  /\ Hide(m, r.leased)
  /\ requests' = requests \ {r}
  /\ UNCHANGED <<control, retained, worker, clock, budget>>

Expired(m) == Queued(m) /\ queue[m].since + Retention <= clock
Expire(m) ==
  /\ Expired(m)
  /\ queue' = [queue EXCEPT ![m] = Gone("lost", @.applied \/ ~@.leased)]
  /\ UNCHANGED <<control, retained, worker, requests, clock, budget>>

(* The redrive policy moves what was received too often. *)
DeadLetter(m) ==
  /\ Visible(m) /\ queue[m].hidden > 0 /\ Spend
  /\ queue' = [queue EXCEPT ![m] = [Gone("dead", @.applied) EXCEPT !.in = queue[m].in]]
  /\ UNCHANGED <<control, retained, worker, requests, clock>>

(* What is due to be dropped is dropped, and an empty answer is published   *)
(* before an event as old as it expires: no retention is under an hour.     *)
Tick ==
  /\ clock < MaxTime /\ \A m \in Messages : ~Expired(m)
  /\ worker.say.drained => clock + 1 < worker.say.time + Retention
  /\ clock' = clock + 1
  /\ requests' = {r \in requests : clock' <= r.signed + Validity}
  /\ UNCHANGED <<control, retained, worker, queue, budget>>

-----------------------------------------------------------------------------
(* The writer's transactions.                                               *)

Ours == control.binding = worker.binding
Held == Ours /\ control.run              (* the run that this process began  *)

Later(s, t) == IF s < t THEN t ELSE s

(* feedback_gap *)
Lapsed(time) ==
  \/ control.source # worker.source
  \/ control.observed = 0
  \/ time >= control.observed + Retention

(* Mutant: a lease does not survive the run that took it. *)
BegunAfresh(time) ==
  [control EXCEPT
     !.run = TRUE, !.source = worker.source, !.gap = @ \/ (retained /\ Lapsed(time)),
     !.ok = FALSE, !.poll = 0, !.quiet = 0, !.recover = 0,
     !.provider = Later(@, time), !.regressed = time < control.provider]
(* Mutant: the poll of the run before stays recorded. *)
BegunOverPoll(time) ==
  [control EXCEPT
     !.run = TRUE, !.source = worker.source, !.gap = @ \/ (retained /\ Lapsed(time)),
     !.ok = FALSE, !.quiet = 0,
     !.recover = IF control.poll = 0 THEN @ ELSE Later(@, control.poll + Lease),
     !.provider = Later(@, time), !.regressed = time < control.provider]
(* begin_feedback_run *)
Begun(time) ==
  [control EXCEPT
     !.run = TRUE, !.source = worker.source, !.gap = @ \/ (retained /\ Lapsed(time)),
     !.ok = FALSE, !.poll = 0, !.quiet = 0,
     !.recover = IF control.poll = 0 THEN @ ELSE Later(@, control.poll + Lease),
     !.provider = Later(@, time), !.regressed = time < control.provider]

Advancing(o) == o.time > 0 /\ o.time >= control.provider
GapAfter(o)  == control.gap \/ o.kind = "reconcile" \/ (retained /\ Advancing(o) /\ Lapsed(o.time))
Same         == control.source = worker.source

(* readiness: only the provider's time ends an uncertain receive, and then  *)
(* the queue must stay drained for the quiet window.                        *)
Quiet(o)     == Advancing(o) /\ o.time >= control.recover /\ o.drained /\ ~GapAfter(o)
Since(o)     == IF control.quiet = 0 THEN o.time ELSE control.quiet
Recovered(o) == control.recover # 0 /\ Quiet(o) /\ o.time >= Since(o) + QuietWindow
Ready(o) ==
  /\ o.drained /\ Advancing(o) /\ ~GapAfter(o)
  /\ control.recover = 0 \/ Recovered(o)
QuietAfter(o) ==
  CASE control.recover # 0 /\ Quiet(o) -> IF Recovered(o) THEN 0 ELSE Since(o)
    [] control.recover # 0 /\ ~Quiet(o) /\ o.kind = "checked" /\ Advancing(o)
         /\ ~GapAfter(o) /\ Same -> control.quiet
    [] OTHER -> 0
(* Mutant: a preflight preserves freshness whatever it found. *)
PreservesAnyway(o) == o.kind = "checked" /\ Advancing(o) /\ control.recover = 0 /\ Same
Preserves(o) == o.kind = "checked" /\ Advancing(o) /\ ~GapAfter(o) /\ control.recover = 0 /\ Same

(* record_feedback_observation *)
Recorded(o) ==
  [control EXCEPT
     !.source = worker.source, !.gap = GapAfter(o),
     !.ok = IF Preserves(o) THEN @ ELSE Ready(o),
     !.observed = IF Ready(o) THEN o.time ELSE @,
     !.provider = IF Advancing(o) THEN o.time ELSE @,
     !.recover = IF Recovered(o) THEN 0 ELSE @,
     !.quiet = QuietAfter(o),
     !.regressed = IF o.time > 0 THEN ~Advancing(o) ELSE @]

(* defer_feedback_poll *)
Deferred == [control EXCEPT !.recover = Later(@, control.poll + Lease), !.poll = 0,
                            !.quiet = 0, !.ok = FALSE]

-----------------------------------------------------------------------------
(* The worker.                                                              *)

At(pc)   == worker.pc = pc
Goto(pc) == worker' = [worker EXCEPT !.pc = pc]

(* preserve_reconciliation: what must be reconciled stays so in this run *)
Say(w, o) == LET gap == w.gap \/ o.kind = "reconcile"
             IN  [w EXCEPT !.pc = "publish", !.gap = gap,
                           !.say = IF gap THEN Reconcile ELSE o]

(* Obsolete: the settings are read again and a new run begins. *)
Reload == worker' = [Stopped(worker.source) EXCEPT !.pc = "start", !.binding = control.binding]

(* startup pauses sending, which ends freshness, before it starts the task *)
Start(q) ==
  /\ At("down")
  /\ q = worker.source \/ (budget > 0)
  /\ budget' = IF q = worker.source THEN budget ELSE budget - 1
  /\ control' = [control EXCEPT !.ok = FALSE]
  /\ worker' = [Stopped(q) EXCEPT !.pc = "start", !.binding = control.binding]
  /\ UNCHANGED <<retained, external>>

(* record_feedback_health(Unavailable) *)
Disclaim ==
  /\ At("start")
  /\ IF Ours THEN /\ control' = [control EXCEPT !.ok = FALSE] /\ Goto("preflight")
             ELSE Reload /\ UNCHANGED control
  /\ UNCHANGED <<retained, external, budget>>

Preflight(time) ==
  /\ At("preflight") /\ Reading(time)
  /\ IF time = clock THEN UNCHANGED budget ELSE Spend
  /\ worker' = [worker EXCEPT !.pc = "begin", !.now = time, !.gap = Dead # {}]
  /\ UNCHANGED <<control, retained, external>>

BeginRun ==
  /\ At("begin")
  /\ IF Ours
     THEN /\ control' = Begun(worker.now)
          /\ worker' = Say([worker EXCEPT !.recover = control'.recover,
                                          !.gap = @ \/ control'.gap],
                           Observed(worker.now, FALSE))
     ELSE Reload /\ UNCHANGED control
  /\ UNCHANGED <<retained, external, budget>>

(* publish_health *)
Publish ==
  /\ At("publish")
  /\ IF Held
     THEN /\ control' = Recorded(worker.say)
          /\ worker' = [worker EXCEPT !.pc = worker.next, !.next = "cycle",
                                       !.say = Unavailable]
     ELSE Reload /\ UNCHANGED control
  /\ UNCHANGED <<retained, external, budget>>

(* The preflight of a cycle, due every minute.  The counts of the queue are *)
(* approximate, those of its dead letters are not.                          *)
CyclePreflight(time, drained) ==
  /\ At("cycle") /\ Reading(time)
  /\ IF time = clock THEN UNCHANGED budget ELSE Spend
  /\ worker' =
       IF time < worker.now
       THEN Say([worker EXCEPT !.drained = FALSE], Unavailable)
       ELSE Say([worker EXCEPT !.now = time, !.drained = drained /\ Dead = {},
                               !.gap = @ \/ Dead # {}, !.next = "poll"],
                IF drained /\ Dead = {} THEN Checked(time) ELSE Observed(time, FALSE))
  /\ UNCHANGED <<control, retained, external>>

(* A failed preflight; a broken contract of the queue is a gap for whoever  *)
(* has subscribers (record_feedback_integrity_failure).                     *)
PreflightFails(broken) ==
  /\ At("cycle") \/ At("preflight")
  /\ Spend
  /\ IF broken /\ ~Ours THEN Reload ELSE
     worker' = IF At("preflight") THEN [worker EXCEPT !.pc = "start"]
               ELSE Say([worker EXCEPT !.drained = FALSE],
                        IF broken /\ (control.gap \/ retained) THEN Reconcile ELSE Unavailable)
  /\ control' = IF broken /\ Ours
                THEN [control EXCEPT !.ok = FALSE, !.gap = @ \/ retained] ELSE control
  /\ UNCHANGED <<retained, external>>

(* A poll waits for the worker's own deadline first. *)
GoPoll ==
  /\ At("cycle") \/ At("poll")
  /\ worker' = IF worker.now < worker.recover THEN Say(worker, Unavailable)
               ELSE [worker EXCEPT !.pc = "admit"]
  /\ UNCHANGED <<control, retained, external, budget>>

(* begin_feedback_poll: the signature's date, by a clock that may differ by *)
(* a little, is durable before the request is made.                         *)
AdmitPoll(signed) ==
  /\ At("admit")
  /\ signed \in {clock, clock + 1}
  /\ \/ /\ ~Held /\ Reload /\ UNCHANGED control
     \/ /\ Held /\ control.poll # 0                          (* AttemptConflict *)
        /\ worker' = Say(worker, Reconcile) /\ UNCHANGED control
     \/ /\ Held /\ control.poll = 0
        /\ control.regressed \/ (control.recover # 0 /\ control.provider < control.recover)
        /\ worker' = Say(worker, Unavailable) /\ UNCHANGED control
     \/ /\ Held /\ control.poll = 0 /\ ~control.regressed
        /\ control.recover = 0 \/ control.provider >= control.recover
        /\ control' = [control EXCEPT !.poll = signed]
        /\ worker' = [worker EXCEPT !.pc = "receive", !.signed = signed, !.leased = TRUE]
  /\ UNCHANGED <<retained, external, budget>>

(* receive: the long poll asks every server, so that an empty answer means  *)
(* that nothing was visible.                                                *)
Receive(m) ==
  /\ At("receive") /\ Executable(worker.signed) /\ Visible(m)
  /\ Hide(m, worker.leased)
  /\ worker' = [worker EXCEPT !.pc = "apply", !.message = m, !.drained = FALSE]
  /\ UNCHANGED <<control, retained, requests, clock, budget>>

Answered(w, o) == [w EXCEPT !.pc = "settle", !.uncertain = FALSE, !.say = o]

ReceiveNothing(time) ==
  /\ At("receive") /\ Executable(worker.signed)
  /\ \A m \in Messages : ~Visible(m)
  /\ Reading(time)
  /\ IF time = clock THEN UNCHANGED budget ELSE Spend
  /\ worker' = IF time < worker.now THEN Answered(worker, Unavailable)
               ELSE Answered([worker EXCEPT !.now = time], Observed(time, worker.drained))
  /\ UNCHANGED <<control, retained, external>>

(* Refused for certain: nothing was received. *)
ReceiveRefused ==
  /\ At("receive") /\ Spend
  /\ worker' = Answered(worker, Unavailable)
  /\ UNCHANGED <<control, retained, external>>

(* No answer: the request may still be executed. *)
ReceiveLost ==
  /\ At("receive") /\ Spend
  /\ requests' = requests \cup {Abandoned}
  /\ worker' = [worker EXCEPT !.pc = "settle", !.uncertain = TRUE, !.say = Unavailable,
                              !.recover = worker.signed + Lease]
  /\ UNCHANGED <<control, retained, queue, clock>>

(* commit_event; an event of a retired consent epoch changes nothing *)
Apply ==
  /\ At("apply")
  /\ IF Ours THEN /\ queue' = [queue EXCEPT ![worker.message].applied = TRUE]
                  /\ Goto("acknowledge")
             ELSE Reload /\ UNCHANGED queue
  /\ UNCHANGED <<control, retained, requests, clock, budget>>

(* Unreadable, or in conflict with what is recorded: reported at once. *)
ApplyPoison ==
  /\ At("apply") /\ ~queue[worker.message].applied /\ Spend
  /\ worker' = [worker EXCEPT !.pc = "publish", !.next = "settle", !.uncertain = TRUE,
                              !.gap = TRUE, !.say = Reconcile]
  /\ UNCHANGED <<control, retained, external>>

(* A lost acknowledgement leaves a duplicate of what was applied. *)
Acknowledge(time) ==
  /\ At("acknowledge") /\ Reading(time)
  /\ IF time = clock THEN UNCHANGED budget ELSE Spend
  /\ queue' = [queue EXCEPT ![worker.message] = Gone("deleted", TRUE)]
  /\ worker' = IF time < worker.now THEN Answered(worker, Unavailable)
               ELSE Answered([worker EXCEPT !.now = time], Observed(time, FALSE))
  /\ UNCHANGED <<control, retained, requests, clock>>

AcknowledgementLost ==
  /\ At("acknowledge") /\ Spend
  /\ worker' = Answered(worker, Unavailable)
  /\ UNCHANGED <<control, retained, external>>

(* settle_poll: complete_feedback_poll or defer_feedback_poll *)
Settle ==
  /\ At("settle")
  /\ IF Held /\ control.poll # 0
     THEN /\ control' = IF worker.uncertain THEN Deferred ELSE [control EXCEPT !.poll = 0]
          /\ worker' = Say([worker EXCEPT !.message = None, !.signed = 0], worker.say)
     ELSE Reload /\ UNCHANGED control
  /\ UNCHANGED <<retained, external, budget>>

(* Shutdown is noticed between two steps, and drains those under way. *)
Shutdown ==
  /\ worker.pc \in {"start", "preflight", "cycle", "poll"} /\ Spend
  /\ worker' = IF At("cycle") \/ At("poll") THEN [worker EXCEPT !.pc = "finish"]
               ELSE Stopped(worker.source)
  /\ UNCHANGED <<control, retained, external>>

(* finish_feedback_run *)
FinishRun ==
  /\ At("finish")
  /\ control' = IF Held /\ control.poll = 0
                THEN [control EXCEPT !.run = FALSE, !.ok = FALSE] ELSE control
  /\ worker' = Stopped(worker.source)
  /\ UNCHANGED <<retained, external, budget>>

Crash ==
  /\ ~At("down") /\ Spend
  /\ worker' = Stopped(worker.source)
  /\ requests' = IF At("receive") THEN requests \cup {Abandoned} ELSE requests
  /\ UNCHANGED <<control, retained, queue, clock>>

-----------------------------------------------------------------------------
(* Subscribers and the Owner. *)

(* Enrollment and sending are admitted while feedback is fresh. *)
Subscribe ==
  /\ control.ok /\ ~retained
  /\ retained' = TRUE
  /\ UNCHANGED <<control, worker, external, budget>>

(* Freshness ends with time. *)
GoStale ==
  /\ control.ok
  /\ control' = [control EXCEPT !.ok = FALSE]
  /\ UNCHANGED <<retained, worker, external, budget>>

(* set_policy *)
UpdateSettings(b) ==
  /\ Spend /\ b # control.binding
  /\ control' = [control EXCEPT !.binding = b, !.ok = FALSE]
  /\ UNCHANGED <<retained, worker, external>>

(* reset_consent forgets the leases with all that they protected: what was  *)
(* mailed under the old epoch no longer matters.                            *)
ResetConsent ==
  /\ control.gap
  /\ control' = [control EXCEPT
       !.run = FALSE, !.source = None, !.observed = 0, !.gap = FALSE, !.provider = 0,
       !.regressed = FALSE, !.poll = 0, !.recover = 0, !.quiet = 0, !.ok = FALSE]
  /\ retained' = FALSE
  /\ queue' = [m \in Messages |-> [queue[m] EXCEPT !.applied = @ \/ queue[m].state # "none"]]
  /\ worker' = [worker EXCEPT !.leased = FALSE]
  /\ requests' = {[r EXCEPT !.leased = FALSE] : r \in requests}
  /\ UNCHANGED <<clock, budget>>

-----------------------------------------------------------------------------
Worker ==
  \/ \E q \in Queues : Start(q)
  \/ \E t \in {1, clock} : Preflight(t) \/ ReceiveNothing(t) \/ Acknowledge(t)
  \/ \E t \in {1, clock}, drained \in BOOLEAN : CyclePreflight(t, drained)
  \/ \E t \in {clock, clock + 1} : AdmitPoll(t)
  \/ \E broken \in BOOLEAN : PreflightFails(broken)
  \/ \E m \in Messages : Receive(m)
  \/ Disclaim \/ BeginRun \/ Publish \/ GoPoll \/ ReceiveRefused \/ ReceiveLost
  \/ Apply \/ ApplyPoison \/ AcknowledgementLost \/ Settle \/ Shutdown \/ FinishRun \/ Crash

Provider ==
  \/ \E m \in Messages : Arrive(m) \/ Expire(m) \/ DeadLetter(m) \/ \E r \in requests : Strays(m, r)
  \/ Tick

Others == Subscribe \/ GoStale \/ ResetConsent \/ \E b \in Bindings : UpdateSettings(b)

Next == Worker \/ Provider \/ Others

Spec == Init /\ [][Next]_vars

-----------------------------------------------------------------------------
(* Properties.                                                              *)

(* The row that a restart reads is one FeedbackContinuity accepts, and a    *)
(* gap is never recorded beside fresh feedback, whoever wrote last.         *)
ContinuityLoads ==
  /\ control.gap => ~control.ok
  /\ control.run => control.source # None
  /\ control.observed # 0 => control.source # None
  /\ control.poll # 0 => control.run
  /\ control.quiet # 0 => control.recover # 0
  /\ control.source \in Queues \cup {None} /\ control.binding \in Bindings
  /\ {control.observed, control.provider, control.poll, control.recover, control.quiet}
       \subseteq Times

(* No transaction of the worker is refused as a conflict, which would latch *)
(* a gap or end the process: through crashes, changes of settings and       *)
(* resets, the poll on record is the one the worker is about to settle.     *)
NeverConflicts == Held =>
  /\ worker.pc \in {"admit", "finish"} => control.poll = 0
  /\ At("publish") /\ worker.say.drained => control.poll = 0
  /\ worker.pc \in {"receive", "apply", "acknowledge", "settle"} =>
       control.poll = worker.signed

(* When feedback is declared fresh, every event that was in the queue has   *)
(* been applied or can be received now: none was dropped unread, and no     *)
(* request of an earlier poll, run or process hides one or still may.       *)
(* Requests older than the last consent reset are excepted: it ends their   *)
(* lease.                                                                   *)
Unseen(m) == /\ ~queue[m].applied
             /\ \/ queue[m].state = "lost"
                \/ Queued(m) /\ queue[m].in # control.source
                \/ Queued(m) /\ queue[m].hidden > clock /\ queue[m].leased
Settled == /\ \A m \in Messages : ~Unseen(m)
           /\ \A r \in requests : r.leased => ~Executable(r.signed)
ReadyMeansSeen ==
  [][At("publish") /\ worker.say.kind = "observed" /\ worker'.pc = worker.next /\ control'.ok
       => Settled']_vars
=============================================================================
