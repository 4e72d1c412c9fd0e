---------------------------- MODULE MailDelivery ----------------------------
(***************************************************************************)
(* The newsletter: enrollments and consent, campaigns, and the dispatcher  *)
(* that mails them one recipient at a time (domain/mail/store.rs,          *)
(* domain/mail/subscriber/store.rs, domain/mail/dispatch.rs).              *)
(*                                                                         *)
(* Every row is written by the sole database writer, one transaction per   *)
(* action below.  The dispatcher reads, asks the writer to admit one       *)
(* recipient, talks to the provider and records the answer in separate     *)
(* steps; visitors, the Owner, feedback, retention and a crash come        *)
(* between any two of them, and a request to the provider outlives the     *)
(* process that made it.                                                   *)
(***************************************************************************)
EXTENDS Naturals, FiniteSets

CONSTANTS
  Mailboxes,
  Campaigns,       (* campaign ids                                           *)
  Publication,     (* those queued by a first publication, not by the Owner  *)
  Bindings,        (* configuration bindings: sender identity and wording    *)
  Confirmation,    (* the kind of attempt that belongs to no campaign        *)
  None,
  MaxEnrollments,  (* bound: enrollments ever requested                      *)
  MaxEvents        (* bound: crashes, lapsed leases, explicit throttles,     *)
                   (* feedback that stops, edits of settings and campaigns,  *)
                   (* rows that expire                                       *)

ASSUME MailConstants ==
  /\ Publication \subseteq Campaigns
  /\ Confirmation \notin Campaigns /\ None \notin Mailboxes \cup Campaigns
  /\ IsFiniteSet(Campaigns) /\ Bindings # {}
  /\ MaxEnrollments \in Nat
  /\ MaxEvents \in Nat

Enrollments == 1..MaxEnrollments
Kinds       == Campaigns \cup {Confirmation}
Keys        == Enrollments \X Kinds     (* one attempt row per pair           *)
Letters     == Keys \X Nat              (* the n-th transmission of an attempt *)

Outcomes == {"absent", "queued", "admitted", "accepted", "rejected", "unknown", "cancelled"}
Open     == {"queued", "claimed", "cancelling"}
Active   == Open \cup {"draft"}
States   == Active \cup {"absent", "marked", "completed", "cancelled", "unknown", "quarantined"}

Enrollment == [
  state    : {"none", "pending", "active", "removed", "reset"},
             (* "reset": deleted with the consent epoch it belonged to       *)
  mailbox  : Mailboxes \cup {None},  (* erased from a removed row; kept here *)
             (* to say whom the letters went to                              *)
  binding  : Bindings \cup {None},   (* of the queued confirmation           *)
  sequence : Nat]                    (* confirmed_sequence                   *)

Campaign == [
  state    : States,                 (* "marked": published while disabled   *)
  row      : Nat,
  cutoff   : Nat,                    (* audience_cutoff of the approval      *)
  binding  : Bindings \cup {None},
  trusted  : BOOLEAN,                (* the approving Owner is still enabled *)
  lapsed   : BOOLEAN,                (* the claim's lease has expired        *)
  accepted : Nat,                    (* final totals                         *)
  unknown  : Nat,
  counted  : BOOLEAN,                (* whether campaign_counts gave them    *)
  intent   : {"none", "complete", "cancel"}]   (* mail_campaign_finishes     *)

VARIABLES
  enroll,      (* mail_enrollments, by order of request                      *)
  attempts,    (* mail_attempts: outcome and number of admissions (fence)    *)
  suppressed,  (* mail_suppressions                                          *)
  sequence,    (* mail_control_state.enrollment_sequence                     *)
  policy,      (* mail_control_state: binding, mode, fresh feedback, gap     *)
  campaigns,   (* mail_campaigns                                             *)
  wire,        (* external: letters the provider may still accept            *)
  delivered,   (* external: letters the provider accepted                    *)
  disp,        (* the dispatcher                                             *)
  phase,       (* "up", "down", "restarting"                                 *)
  budget       (* what is left of MaxEvents                                  *)

consent  == <<enroll, suppressed, sequence>>
tables   == <<consent, attempts, policy, campaigns>>
provider == <<wire, delivered>>
vars     == <<tables, provider, disp, phase, budget>>

Configured == CHOOSE b \in Bindings : TRUE     (* the binding sending starts with *)

Idle == [pc |-> "idle", claim |-> None, binding |-> None, enabled |-> FALSE,
         key |-> None, intent |-> None, turn |-> "confirmation"]

Init ==
  /\ enroll = [i \in Enrollments |->
       [state |-> "none", mailbox |-> None, binding |-> None, sequence |-> 0]]
  /\ attempts = [k \in Keys |-> [outcome |-> "absent", tries |-> 0]]
  /\ suppressed = {}
  /\ sequence = 0
  /\ policy = [binding |-> Configured, enabled |-> TRUE, ok |-> FALSE, gap |-> FALSE]
  /\ campaigns = [c \in Campaigns |->
       [state |-> "absent", row |-> 0, cutoff |-> 0, binding |-> None, trusted |-> TRUE,
        lapsed |-> FALSE, accepted |-> 0, unknown |-> 0, counted |-> FALSE, intent |-> "none"]]
  /\ wire = {} /\ delivered = {}
  /\ disp = Idle
  /\ phase = "up"
  /\ budget = MaxEvents

Spend == budget > 0 /\ budget' = budget - 1

-----------------------------------------------------------------------------
(* What transactions read and do.                                           *)

Live(i)       == enroll[i].state \in {"pending", "active"}
Addressed(m)  == {i \in Enrollments : Live(i) /\ enroll[i].mailbox = m}

(* require_enabled *)
Sending(binding) == policy.binding = binding /\ policy.enabled /\ policy.ok

(* remove_enrollment, for the enrollments of S *)
RemovedIn(S) == [i \in Enrollments |->
  IF i \in S THEN [enroll[i] EXCEPT !.state = "removed"] ELSE enroll[i]]
CancelledIn(S) == [k \in Keys |->
  IF k[1] \in S /\ attempts[k].outcome = "queued"
  THEN [attempts[k] EXCEPT !.outcome = "cancelled"] ELSE attempts[k]]

Remove(S) ==
  /\ enroll' = RemovedIn(S)
  /\ attempts' = CancelledIn(S)

Tally(c, outcomes) == Cardinality({i \in Enrollments : attempts[<<i, c>>].outcome \in outcomes})
(* Mutant: the totals of a campaign forget the attempt that is under way. *)
CountedSettled(c, state) ==
  [campaigns[c] EXCEPT !.state = state, !.counted = TRUE,
     !.accepted = Tally(c, {"accepted"}), !.unknown = Tally(c, {"unknown"})]
(* campaign_counts: an admitted attempt counts as unknown *)
Counted(c, state) ==
  [campaigns[c] EXCEPT !.state = state, !.counted = TRUE,
     !.accepted = Tally(c, {"accepted"}), !.unknown = Tally(c, {"unknown", "admitted"})]

(* quarantine_one(Interrupted): a notification is queued again over its     *)
(* recorded attempts, anything else is final.                               *)
Requeues(c) == c \in Publication /\ campaigns[c].state = "claimed"
(* Mutant: what was admitted before the interruption is sent again. *)
InterruptedResends(S) ==
  /\ campaigns' = [c \in Campaigns |->
       IF c \notin S THEN campaigns[c]
       ELSE IF Requeues(c) THEN [campaigns[c] EXCEPT !.state = "queued", !.lapsed = FALSE]
       ELSE Counted(c, "quarantined")]
  /\ attempts' = [k \in Keys |->
       IF k[2] \in S /\ Requeues(k[2]) /\ attempts[k].outcome = "admitted"
       THEN [attempts[k] EXCEPT !.outcome = "queued"] ELSE attempts[k]]
Interrupted(S) ==
  /\ campaigns' = [c \in Campaigns |->
       IF c \notin S THEN campaigns[c]
       ELSE IF Requeues(c) THEN [campaigns[c] EXCEPT !.state = "queued", !.lapsed = FALSE]
       ELSE Counted(c, "quarantined")]
  /\ attempts' = [k \in Keys |->
       IF k[2] \in S /\ Requeues(k[2]) /\ attempts[k].outcome = "admitted"
       THEN [attempts[k] EXCEPT !.outcome = "unknown"] ELSE attempts[k]]

InState(states) == {c \in Campaigns : campaigns[c].state \in states}
Earliest(S) == {c \in S : \A d \in S : campaigns[c].row <= campaigns[d].row}
(* Mutant: only what is queued is claimed, never what was abandoned. *)
HeadOfQueue == Earliest(InState({"queued"}))
(* the order of active_campaign and claim_campaign *)
Head == LET held == InState({"claimed", "cancelling"})
        IN  Earliest(IF held # {} THEN held ELSE InState({"queued"}))

NextRow == 1 + Cardinality(Campaigns \ InState({"absent", "marked"}))

(* recipients, and is_campaign_recipient *)
InAudience(i, c) == enroll[i].state = "active" /\ enroll[i].sequence <= campaigns[c].cutoff
Recipients(c) ==
  {i \in Enrollments : InAudience(i, c) /\ attempts[<<i, c>>].outcome \in {"absent", "queued"}}

(* queued_confirmations, oldest first *)
QueuedConfirmations(binding) ==
  LET all == {i \in Enrollments : /\ attempts[<<i, Confirmation>>].outcome = "queued"
                                  /\ enroll[i].state = "pending"
                                  /\ enroll[i].binding = binding}
  IN  {i \in all : \A j \in all : i <= j}

Retired(k) == enroll[k[1]].state = "reset"      (* retired_epoch *)
Letter(k)  == <<k, attempts[k].tries>>

-----------------------------------------------------------------------------
(* Visitors.  A link is only known to who received the letter it was in.    *)

LettersTo(i) == {l \in delivered : l[1][1] = i}

(* Mutant: a new request leaves the pending one beside it. *)
RequestBeside(m, i) ==
  /\ phase = "up" /\ Sending(policy.binding)
  /\ m \notin suppressed
  /\ \A j \in Addressed(m) : enroll[j].state = "pending"
  /\ enroll[i].state = "none"
  /\ \A j \in Enrollments : j < i => enroll[j].state # "none"
  /\ enroll' = [enroll EXCEPT ![i] =
       [state |-> "pending", mailbox |-> m, binding |-> policy.binding, sequence |-> 0]]
  /\ attempts' = [attempts EXCEPT ![<<i, Confirmation>>] = [outcome |-> "queued", tries |-> 0]]
  /\ UNCHANGED <<suppressed, sequence, policy, campaigns, provider, disp, phase, budget>>

RequestEnrollment(m, i) ==
  /\ phase = "up" /\ Sending(policy.binding)
  /\ m \notin suppressed
  /\ \A j \in Addressed(m) : enroll[j].state = "pending"       (* cooldown over *)
  /\ enroll[i].state = "none"
  /\ \A j \in Enrollments : j < i => enroll[j].state # "none"
  /\ enroll' = [RemovedIn(Addressed(m)) EXCEPT ![i] =
       [state |-> "pending", mailbox |-> m, binding |-> policy.binding, sequence |-> 0]]
  /\ attempts' = [CancelledIn(Addressed(m)) EXCEPT
       ![<<i, Confirmation>>] = [outcome |-> "queued", tries |-> 0]]
  /\ UNCHANGED <<suppressed, sequence, policy, campaigns, provider, disp, phase, budget>>

(* The nonce of the row is the one of the last admission. *)
ConfirmEnrollment(i) ==
  /\ phase = "up"
  /\ enroll[i].state = "pending"
  /\ Letter(<<i, Confirmation>>) \in delivered
  /\ enroll[i].mailbox \notin suppressed
  /\ sequence' = sequence + 1
  /\ enroll' = [enroll EXCEPT ![i].state = "active", ![i].sequence = sequence + 1]
  /\ UNCHANGED <<attempts, suppressed, policy, campaigns, provider, disp, phase, budget>>

RemoveEnrollment(i) ==
  /\ phase = "up"
  /\ Live(i) /\ LettersTo(i) # {}
  /\ Remove({i})
  /\ UNCHANGED <<suppressed, sequence, policy, campaigns, provider, disp, phase, budget>>

-----------------------------------------------------------------------------
(* Retention: a pending request expires, an attempt or a suppression        *)
(* reaches its date.  Campaigns close before their recipients' rows go.     *)

ExpirePending(i) ==
  /\ phase = "up" /\ Spend
  /\ enroll[i].state = "pending"
  /\ Remove({i})
  /\ UNCHANGED <<suppressed, sequence, policy, campaigns, provider, disp, phase>>

RetireAttempt(k) ==
  /\ phase = "up" /\ Spend
  /\ attempts[k].outcome # "absent"
  /\ enroll[k[1]].state # "pending"         (* pending requests expire sooner *)
  /\ campaigns' = IF k[2] \in InState(Open)
                  THEN [campaigns EXCEPT ![k[2]] = Counted(k[2], "quarantined")]
                  ELSE campaigns
  /\ attempts' = [attempts EXCEPT ![k].outcome = "absent"]
  /\ UNCHANGED <<consent, policy, provider, disp, phase>>

ExpireSuppression(m) ==
  /\ phase = "up" /\ Spend
  /\ m \in suppressed
  /\ suppressed' = suppressed \ {m}
  /\ UNCHANGED <<enroll, sequence, attempts, policy, campaigns, provider, disp, phase>>

-----------------------------------------------------------------------------
(* The Owner, and publications.                                             *)

(* queue_article_notification: the first publication of an article queues   *)
(* its campaign, or marks the article forever while sending is off.         *)
PublishArticle(c) ==
  /\ phase = "up"
  /\ c \in Publication /\ campaigns[c].state = "absent"
  /\ campaigns' = [campaigns EXCEPT ![c] =
       IF policy.enabled
       THEN [@ EXCEPT !.state = "queued", !.row = NextRow, !.cutoff = sequence,
                      !.binding = policy.binding]
       ELSE [@ EXCEPT !.state = "marked"]]
  /\ UNCHANGED <<consent, attempts, policy, provider, disp, phase, budget>>

CreateCampaign(c) ==
  /\ phase = "up"
  /\ c \notin Publication /\ campaigns[c].state = "absent"
  /\ InState(Active) = {}
  /\ campaigns' = [campaigns EXCEPT ![c].state = "draft", ![c].row = NextRow,
                                    ![c].binding = policy.binding]
  /\ UNCHANGED <<consent, attempts, policy, provider, disp, phase, budget>>

ApproveCampaign(c) ==
  /\ phase = "up"
  /\ campaigns[c].state = "draft" /\ Sending(campaigns[c].binding)
  /\ campaigns' = [campaigns EXCEPT ![c].state = "queued", ![c].cutoff = sequence]
  /\ UNCHANGED <<consent, attempts, policy, provider, disp, phase, budget>>

(* The totals of a campaign cancelled in the queue are the default ones. *)
CancelCampaign(c) ==
  /\ phase = "up" /\ Spend
  /\ campaigns[c].state \in {"draft", "queued", "claimed"}
  /\ campaigns' = [campaigns EXCEPT ![c].state =
                     IF @ = "claimed" THEN "cancelling" ELSE "cancelled"]
  /\ UNCHANGED <<consent, attempts, policy, provider, disp, phase>>

(* The Owner who approved is disabled or loses the role. *)
RevokeOwner ==
  /\ phase = "up" /\ Spend
  /\ InState({"queued", "claimed"}) \ Publication # {}
  /\ campaigns' = [c \in Campaigns |->
       IF c \in InState({"queued", "claimed"}) \ Publication
       THEN [campaigns[c] EXCEPT !.trusted = FALSE] ELSE campaigns[c]]
  /\ UNCHANGED <<consent, attempts, policy, provider, disp, phase>>

(* set_policy: requests queued under another binding are dropped. *)
Obsolete(b) == {i \in Enrollments : /\ attempts[<<i, Confirmation>>].outcome = "queued"
                                    /\ enroll[i].binding # b}
UpdateSettings(b, enabled) ==
  /\ phase = "up" /\ Spend
  /\ policy' = [policy EXCEPT !.binding = b, !.enabled = enabled, !.ok = FALSE]
  /\ Remove(Obsolete(b))
  /\ UNCHANGED <<suppressed, sequence, campaigns, provider, disp, phase>>

(* reset_consent: the consent epoch ends with everything recorded under it; *)
(* suppressions, and the totals of closed campaigns, stay.                  *)
ResetClosed(c) ==
  CASE campaigns[c].state \in {"draft", "queued", "unknown"} ->
         [campaigns[c] EXCEPT !.state = "quarantined"]
    [] campaigns[c].state \in {"claimed", "cancelling"} -> Counted(c, "quarantined")
    [] OTHER -> campaigns[c]

ResetConsent ==
  /\ phase = "up" /\ policy.gap
  /\ campaigns' = [c \in Campaigns |-> ResetClosed(c)]
  /\ enroll' = [i \in Enrollments |->
       IF enroll[i].state = "none" THEN enroll[i] ELSE [enroll[i] EXCEPT !.state = "reset"]]
  /\ attempts' = [k \in Keys |-> [attempts[k] EXCEPT !.outcome = "absent"]]
  /\ policy' = [policy EXCEPT !.enabled = FALSE, !.ok = FALSE, !.gap = FALSE]
  /\ UNCHANGED <<suppressed, sequence, provider, disp, phase, budget>>

-----------------------------------------------------------------------------
(* Feedback.  Its consumer is MailFeedback; here it becomes fresh, stops    *)
(* being so, finds a gap, or carries one event of a delivered letter, in    *)
(* any order and any number of times.                                       *)

FeedbackHealthy ==
  /\ phase = "up" /\ ~policy.gap /\ ~policy.ok
  /\ policy' = [policy EXCEPT !.ok = TRUE]
  /\ UNCHANGED <<consent, attempts, campaigns, provider, disp, phase, budget>>

FeedbackStops(gap) ==
  /\ phase = "up" /\ Spend
  /\ policy' = [policy EXCEPT !.ok = FALSE, !.gap = @ \/ gap]
  /\ UNCHANGED <<consent, attempts, campaigns, provider, disp, phase>>

(* Mutant: final totals take any acceptance. *)
AlwaysReconcilable(c) == campaigns[c].state \in States

(* reconcile_campaign_acceptance *)
Reconcilable(c) ==
  \/ campaigns[c].state \in Open
  \/ campaigns[c].state \in {"unknown", "quarantined"} /\ campaigns[c].unknown > 0
Reconciled(c) ==
  IF campaigns[c].state \in Open THEN campaigns[c]
  ELSE [campaigns[c] EXCEPT
          !.unknown = @ - 1, !.accepted = @ + 1,
          !.state = IF @ = "unknown" /\ campaigns[c].unknown = 1
                    THEN IF campaigns[c].intent = "cancel" THEN "cancelled" ELSE "completed"
                    ELSE @]

Unsettled(k) == attempts[k].outcome \in {"admitted", "unknown"}
Answers(k)   == phase = "up" /\ (\E l \in delivered : l[1] = k) /\ ~Retired(k)

(* suppress_feedback_enrollment, for a hard bounce or a complaint *)
ApplyFeedback(k, suppress) ==
  LET i       == k[1]
      removes == IF suppress /\ Live(i) THEN {i} ELSE {}
      counts  == Unsettled(k) /\ k[2] # Confirmation
  IN  /\ Answers(k)
      /\ attempts[k].outcome = "accepted" \/ Unsettled(k)
      /\ counts => Reconcilable(k[2])
      /\ removes # {} \/ Unsettled(k)
      /\ campaigns' = IF counts THEN [campaigns EXCEPT ![k[2]] = Reconciled(k[2])] ELSE campaigns
      /\ attempts' = [CancelledIn(removes) EXCEPT ![k].outcome = "accepted"]
      /\ enroll' = RemovedIn(removes)
      /\ suppressed' = suppressed \cup {enroll[j].mailbox : j \in removes}
      /\ UNCHANGED <<sequence, policy, provider, disp, phase, budget>>

(* An event no attempt can explain is evidence that feedback was lost. *)
ConflictingFeedback(k) ==
  /\ Answers(k) /\ ~policy.gap
  /\ attempts[k].outcome \in {"absent", "queued", "cancelled", "rejected"}
  /\ policy' = [policy EXCEPT !.ok = FALSE, !.gap = TRUE]
  /\ UNCHANGED <<consent, attempts, campaigns, provider, disp, phase, budget>>

Stop ==
  /\ phase' = "down"
  /\ disp' = Idle

(* CorruptStoredState: the transaction is undone and the process ends. *)
CorruptFeedback(k) ==
  /\ Answers(k)
  /\ Unsettled(k) /\ k[2] # Confirmation /\ ~Reconcilable(k[2])
  /\ Stop
  /\ UNCHANGED <<tables, provider, budget>>

-----------------------------------------------------------------------------
(* The dispatcher.  A tick refreshes the settings and the campaign it holds,*)
(* then mails at most one confirmation or one recipient.                    *)

Held == campaigns[disp.claim]
Goto(pc) == disp' = [disp EXCEPT !.pc = pc]
Sleep(claim, turn) == disp' = [Idle EXCEPT !.claim = claim, !.turn = turn]
EndTick == Sleep(disp.claim, disp.turn)

(* campaign_recipient, in the tick d *)
SelectRecipient(d) ==
  \/ /\ Recipients(d.claim) = {}
     /\ disp' = [d EXCEPT !.pc = "finishing", !.intent = "complete", !.turn = "confirmation"]
  \/ \E i \in Recipients(d.claim) :
       disp' = [d EXCEPT !.pc = "admitting", !.key = <<i, d.claim>>, !.turn = "confirmation"]

(* Signups and articles take turns. *)
SelectDelivery(d) ==
  LET queued  == QueuedConfirmations(d.binding)
      article == d.claim # None /\ (d.turn = "article" \/ queued = {})
  IN  \/ /\ ~d.enabled \/ (~article /\ queued = {})
         /\ Sleep(d.claim, d.turn)
      \/ /\ d.enabled /\ article
         /\ SelectRecipient(d)
      \/ /\ d.enabled /\ ~article
         /\ \E i \in queued : disp' = [d EXCEPT !.pc = "admitting", !.key = <<i, Confirmation>>]

(* tick and current_campaign: the reads before the first write.  A lease    *)
(* close to its end is renewed.                                             *)
Tick ==
  /\ disp.pc = "idle"
  /\ LET loaded == [disp EXCEPT !.binding = policy.binding, !.enabled = policy.enabled]
         due    == policy.enabled
                   /\ \E c \in Head : campaigns[c].state = "queued" \/ campaigns[c].lapsed
     IN  \/ /\ disp.claim = None /\ due
            /\ disp' = [loaded EXCEPT !.pc = "claiming"]
         \/ /\ disp.claim = None /\ ~due
            /\ SelectDelivery(loaded)
         \/ /\ disp.claim # None /\ Held.state = "cancelling"
            /\ disp' = [loaded EXCEPT !.pc = "finishing", !.intent = "cancel"]
         \/ /\ disp.claim # None /\ Held.state = "claimed"
            /\ disp' = [loaded EXCEPT !.pc = "renewing"] \/ SelectDelivery(loaded)
         \/ /\ disp.claim # None /\ Held.state \notin {"claimed", "cancelling"}
            /\ SelectDelivery([loaded EXCEPT !.claim = None])
  /\ UNCHANGED <<tables, provider, phase, budget>>

Claimable(c) == c \in Publication \/ campaigns[c].binding = disp.binding

ClaimCampaign ==
  /\ disp.pc = "claiming"
  /\ \/ /\ \A c \in Head : campaigns[c].state # "queued" /\ ~campaigns[c].lapsed
        /\ Goto("choosing") /\ UNCHANGED <<campaigns, attempts>>
     \/ \E c \in Head :
          /\ campaigns[c].state # "queued" /\ campaigns[c].lapsed
          /\ Interrupted({c}) /\ Goto("choosing")
     \/ \E c \in Head :
          /\ campaigns[c].state = "queued" /\ ~Claimable(c)    (* ConfigurationChanged *)
          /\ EndTick /\ UNCHANGED <<campaigns, attempts>>
     \/ \E c \in Head :
          /\ campaigns[c].state = "queued" /\ Claimable(c)
          /\ campaigns' = [campaigns EXCEPT ![c].state = "claimed", ![c].binding = disp.binding]
          /\ disp' = [disp EXCEPT !.pc = "choosing", !.claim = c]
          /\ UNCHANGED attempts
  /\ UNCHANGED <<consent, policy, provider, phase, budget>>

(* retain_cancelling_claim *)
Retained == IF Held.state = "cancelling" THEN disp.claim ELSE None
Valid(c) == campaigns[c].state = "claimed" /\ ~campaigns[c].lapsed /\ Claimable(c)

RenewClaim ==
  /\ disp.pc = "renewing"
  /\ IF Valid(disp.claim) THEN Goto("choosing") ELSE Sleep(Retained, disp.turn)
  /\ UNCHANGED <<tables, provider, phase, budget>>

(* The rest of a tick whose campaign had to be claimed or renewed, *)
Choose ==
  /\ disp.pc = "choosing"
  /\ SelectDelivery(disp)
  /\ UNCHANGED <<tables, provider, phase, budget>>

(* or whose confirmation was not available. *)
ChooseArticle ==
  /\ disp.pc = "article"
  /\ SelectRecipient(disp)
  /\ UNCHANGED <<tables, provider, phase, budget>>

Admitted(k) == [attempts EXCEPT ![k] = [outcome |-> "admitted", tries |-> @.tries + 1]]

(* claim_confirmation; an unavailable one gives its turn to the article *)
AdmitConfirmation ==
  /\ disp.pc = "admitting" /\ disp.key[2] = Confirmation
  /\ LET i == disp.key[1]
         queued == /\ attempts[disp.key].outcome = "queued"
                   /\ enroll[i].state = "pending" /\ enroll[i].mailbox \notin suppressed
     IN  \/ /\ ~Sending(disp.binding)
            /\ EndTick /\ UNCHANGED attempts
         \/ /\ Sending(disp.binding) /\ ~queued
            /\ IF disp.claim = None THEN EndTick
               ELSE disp' = [disp EXCEPT !.pc = "article", !.key = None]
            /\ UNCHANGED attempts
         \/ /\ Sending(disp.binding) /\ queued
            /\ attempts' = Admitted(disp.key)
            /\ Goto("sending")
  /\ UNCHANGED <<consent, policy, campaigns, provider, phase, budget>>

(* admit_campaign_recipient checks consent and the claim where it records   *)
(* the attempt.                                                             *)
AdmitRecipient ==
  /\ disp.pc = "admitting" /\ disp.key[2] # Confirmation
  /\ LET i == disp.key[1]
         c == disp.key[2]
         granted == Valid(c) /\ campaigns[c].trusted
         eligible == i \in Recipients(c) /\ enroll[i].mailbox \notin suppressed
     IN  \/ /\ ~Sending(disp.binding)
            /\ EndTick /\ UNCHANGED attempts
         \/ /\ Sending(disp.binding) /\ ~granted                (* CampaignUnavailable *)
            /\ Sleep(Retained, disp.turn)
            /\ UNCHANGED attempts
         \/ /\ Sending(disp.binding) /\ granted /\ ~eligible
            /\ EndTick /\ UNCHANGED attempts
         \/ /\ Sending(disp.binding) /\ granted /\ eligible
            /\ attempts' = Admitted(disp.key)
            /\ Goto("sending")
  /\ UNCHANGED <<consent, policy, campaigns, provider, phase, budget>>

(* finish_attempt records the first answer only.  An attempt that is gone   *)
(* is a conflict no dispatcher continues after.                             *)
FinishAttempt(outcome) ==
  \/ /\ attempts[disp.key].outcome # "absent" \/ Retired(disp.key)
     /\ attempts' = IF attempts[disp.key].outcome = "admitted"
                    THEN [attempts EXCEPT ![disp.key].outcome = outcome] ELSE attempts
     /\ Sleep(disp.claim, IF disp.key[2] = Confirmation THEN "article" ELSE disp.turn)
     /\ UNCHANGED phase
  \/ /\ attempts[disp.key].outcome = "absent" /\ ~Retired(disp.key)
     /\ Stop /\ UNCHANGED attempts

(* submit: the permit is used at once, or refused as too old or at shutdown *)
Submit ==
  /\ disp.pc = "sending"
  /\ \/ /\ wire' = wire \cup {Letter(disp.key)}
        /\ Goto("waiting") /\ UNCHANGED <<attempts, phase>>
     \/ FinishAttempt("rejected") /\ UNCHANGED wire
  /\ UNCHANGED <<consent, policy, campaigns, delivered, budget>>

(* A request on the wire is accepted at any later time, or never. *)
ProviderAccepts(l) ==
  /\ l \in wire
  /\ wire' = wire \ {l}
  /\ delivered' = delivered \cup {l}
  /\ UNCHANGED <<tables, disp, phase, budget>>

(* A refusal or an explicit throttle answers a request that was not and will*)
(* not be accepted.  Whatever else goes wrong with the exchange is unknown. *)
Answer(outcome) ==
  /\ disp.pc = "waiting"
  /\ CASE outcome = "accepted" -> Letter(disp.key) \in delivered /\ UNCHANGED wire
       [] outcome = "unknown" -> UNCHANGED wire
       [] OTHER -> /\ Letter(disp.key) \in wire
                   /\ wire' = wire \ {Letter(disp.key)}
  /\ IF outcome = "queued" THEN Spend ELSE UNCHANGED budget
  /\ FinishAttempt(outcome)
  /\ UNCHANGED <<consent, policy, campaigns, delivered>>

AnswerArrives == \E outcome \in {"accepted", "rejected", "queued", "unknown"} : Answer(outcome)

(* finish_campaign; an intent that no longer applies is tried again later *)
FinishCampaign ==
  LET expected == IF disp.intent = "cancel" THEN "cancelling" ELSE "claimed"
      final    == IF disp.intent = "cancel" THEN "cancelled" ELSE "completed"
      unknown  == Tally(disp.claim, {"unknown", "admitted"}) > 0
  IN  /\ disp.pc = "finishing"
      /\ \/ /\ Held.state # expected
            /\ EndTick /\ UNCHANGED campaigns
         \/ /\ Held.state = expected
            /\ campaigns' = [campaigns EXCEPT ![disp.claim] =
                 [Counted(disp.claim, IF unknown THEN "unknown" ELSE final)
                    EXCEPT !.intent = disp.intent]]
            /\ Sleep(None, disp.turn)
      /\ UNCHANGED <<consent, attempts, policy, provider, phase, budget>>

-----------------------------------------------------------------------------
(* Time, crashes and restarts.                                              *)

(* A lease expires because the dispatcher let go of it or was suspended. *)
LapseLease(c) ==
  /\ campaigns[c].state \in {"claimed", "cancelling"} /\ ~campaigns[c].lapsed
  /\ IF disp.claim = c THEN Spend ELSE UNCHANGED budget
  /\ campaigns' = [campaigns EXCEPT ![c].lapsed = TRUE]
  /\ UNCHANGED <<consent, attempts, policy, provider, disp, phase>>

Crash ==
  /\ phase # "down" /\ Spend
  /\ Stop
  /\ UNCHANGED <<tables, provider>>

(* startup: first the campaigns, in a transaction of their own ...          *)
RestartCampaigns ==
  /\ phase = "down"
  /\ Interrupted(InState({"claimed", "cancelling"}))
  /\ phase' = "restarting"
  /\ UNCHANGED <<consent, policy, provider, disp, budget>>

(* ... then, with the settings of the table again, the attempts.            *)
RestartAttempts ==
  /\ phase = "restarting"
  /\ attempts' = [k \in Keys |-> IF attempts[k].outcome = "admitted"
                                 THEN [attempts[k] EXCEPT !.outcome = "unknown"] ELSE attempts[k]]
  /\ policy' = [policy EXCEPT !.ok = FALSE]
  /\ phase' = "up"
  /\ UNCHANGED <<consent, campaigns, provider, disp, budget>>

-----------------------------------------------------------------------------
Dispatcher ==
  /\ phase = "up"
  /\ \/ Tick \/ ClaimCampaign \/ RenewClaim \/ Choose \/ ChooseArticle
     \/ AdmitConfirmation \/ AdmitRecipient \/ Submit \/ AnswerArrives \/ FinishCampaign

Restart == RestartCampaigns \/ RestartAttempts

Next ==
  \/ \E i \in Enrollments : \/ \E m \in Mailboxes : RequestEnrollment(m, i)
                            \/ ConfirmEnrollment(i) \/ RemoveEnrollment(i) \/ ExpirePending(i)
  \/ \E k \in Keys : \/ RetireAttempt(k) \/ ConflictingFeedback(k) \/ CorruptFeedback(k)
                     \/ \E s \in BOOLEAN : ApplyFeedback(k, s)
  \/ \E m \in Mailboxes : ExpireSuppression(m)
  \/ \E c \in Campaigns : \/ PublishArticle(c) \/ CreateCampaign(c) \/ ApproveCampaign(c)
                          \/ CancelCampaign(c) \/ LapseLease(c)
  \/ \E b \in Bindings, e \in BOOLEAN : UpdateSettings(b, e)
  \/ \E gap \in BOOLEAN : FeedbackStops(gap)
  \/ RevokeOwner \/ ResetConsent \/ FeedbackHealthy
  \/ \E l \in wire : ProviderAccepts(l)
  \/ Dispatcher \/ Crash \/ Restart

(* The dispatcher is a task of its own with a ticking clock and a bounded   *)
(* HTTP exchange; a supervisor restarts the process; leases are a matter of *)
(* time; the feedback consumer polls as long as its source works.           *)
Fairness ==
  /\ WF_vars(Dispatcher)
  /\ WF_vars(Restart)
  /\ WF_vars(FeedbackHealthy)
  /\ \A c \in Campaigns : WF_vars(disp.claim # c /\ LapseLease(c))

Spec == Init /\ [][Next]_vars /\ Fairness

-----------------------------------------------------------------------------
(* Properties.                                                              *)

(* The tables hold what their columns may; a held claim and permit are of   *)
(* known rows.                                                              *)
TypeOK ==
  /\ enroll \in [Enrollments -> Enrollment]
  /\ attempts \in [Keys -> [outcome : Outcomes, tries : Nat]]
  /\ suppressed \subseteq Mailboxes
  /\ sequence \in Nat
  /\ policy \in [binding : Bindings, enabled : BOOLEAN, ok : BOOLEAN, gap : BOOLEAN]
  /\ campaigns \in [Campaigns -> Campaign]
  /\ wire \subseteq Letters /\ delivered \subseteq Letters
  /\ disp.claim \in Campaigns \cup {None}
  /\ disp.key \in Keys \cup {None}
  /\ phase \in {"up", "down", "restarting"}

(* One mailbox has one enrollment that may become or be active, a           *)
(* suppressed mailbox has none, and enrollments are confirmed in an order   *)
(* that no approved audience reaches past: requests, old links, complaints, *)
(* expiry and resets all race for the same rows.                            *)
LiveConsent ==
  /\ \A m \in Mailboxes : \A i, j \in Addressed(m) : i = j
  /\ \A m \in suppressed : Addressed(m) = {}
  /\ \A i, j \in Enrollments :
       enroll[i].state = "active" /\ enroll[j].state = "active" /\ i # j
         => enroll[i].sequence # enroll[j].sequence
  /\ \A c \in Campaigns : campaigns[c].cutoff <= sequence

(* The totals of a closed campaign, once counted, stand for every letter    *)
(* the provider accepted, and an attempt whose answer may still come has    *)
(* its place in them: an answer never finds totals that cannot take it.     *)
LettersOf(c) == {l \in delivered : l[1][2] = c}
TotalsHold ==
  \A c \in Campaigns : campaigns[c].counted =>
    /\ Cardinality(LettersOf(c)) <= campaigns[c].accepted + campaigns[c].unknown
    /\ Tally(c, {"unknown"}) <= campaigns[c].unknown

(* Readers get what NewsletterPromise says: whatever retries, restarts,     *)
(* lapsed leases, returning subscribers and retention do, no article goes   *)
(* to one mailbox twice, nor to one that had not consented.                 *)
Mailed(m, c) == {k \in Keys : k[2] = c /\ enroll[k[1]].mailbox = m}
Pending == {l[1] : l \in wire} \cup (IF disp.pc = "sending" THEN {disp.key} ELSE {})
Promise == INSTANCE NewsletterPromise WITH
  Articles  <- Campaigns,
  consent   <- {m \in Mailboxes : \E i \in Addressed(m) : enroll[i].state = "active"},
  committed <- {x \in Campaigns \X Mailboxes : Mailed(x[2], x[1]) \cap Pending # {}},
  received  <- [x \in Campaigns \X Mailboxes |->
                 Cardinality({l \in delivered : l[1] \in Mailed(x[2], x[1])})]
KeepsPromise == Promise!Spec

(* A notification that was queued is settled, unless sending is switched    *)
(* off or waits for the Owner to reset consent: no lost answer, lapsed      *)
(* lease, restart or busy confirmation queue keeps it from its end.         *)
Settles == \A c \in Publication :
  campaigns[c].state \in Open ~> campaigns[c].state \notin Open \/ ~policy.enabled \/ policy.gap

(* docs/email-delivery.md: "Cancellation drains admitted work before        *)
(* finalizing totals."                                                      *)
CancellationDrains == \A c \in Campaigns :
  campaigns[c].state = "cancelled" => Tally(c, {"admitted", "unknown"}) = 0

=============================================================================
