-------------------------- MODULE MailDeliveryProofs --------------------------
(***************************************************************************)
(* Theorems about the newsletter, for any mailboxes, campaigns, bindings   *)
(* and bounds: the tables stay typed, consent stays unambiguous, and what  *)
(* readers get is what NewsletterPromise says.                             *)
(*                                                                         *)
(* Most steps only take away from the consent, the attempts and the        *)
(* letters under way: they are `Calm'.  Three things are not: a request, a *)
(* confirmation, and a letter on its way from its admission to a mailbox.  *)
(***************************************************************************)
EXTENDS MailDelivery, FiniteSetTheorems, TLAPS

Pcs == {"idle", "claiming", "renewing", "choosing", "article", "admitting", "sending",
        "waiting", "finishing"}

Dispatch == [
  pc : Pcs, claim : Campaigns \cup {None}, binding : Bindings \cup {None}, enabled : BOOLEAN,
  key : Keys \cup {None}, intent : {None, "complete", "cancel"},
  turn : {"confirmation", "article"}]

(* A dispatcher knows its recipient and its campaign where it needs them. *)
Dispatchers == {d \in Dispatch :
  /\ d.pc \in {"admitting", "sending", "waiting"} => d.key \in Keys
  /\ d.pc \in {"renewing", "finishing", "article"} => d.claim \in Campaigns
  /\ d.pc = "finishing" => d.intent \in {"complete", "cancel"}}

Typed ==
  /\ TypeOK
  /\ disp \in Dispatchers
  /\ \A i \in Enrollments : Live(i) => enroll[i].mailbox \in Mailboxes

Consented ==
  /\ LiveConsent
  /\ \A i \in Enrollments : enroll[i].state = "active" => enroll[i].sequence <= sequence

(* The permit to send a letter, and the letters that exist. *)
Permit  == IF disp.pc = "sending" THEN {disp.key} ELSE {}
Flying  == wire \cup delivered
Sent(k) == k \in Permit \/ \E l \in Flying : l[1] = k

Fresh == {"absent", "marked", "draft"}        (* campaigns that were never mailed *)
Tried == {"admitted", "accepted", "unknown"}  (* attempts that are not repeated   *)

Same(i, j) == enroll[i].mailbox = enroll[j].mailbox

(* A letter of an article, or the permit for it, is the only one for the    *)
(* mailbox; its attempt says so while the campaign may still be mailed, and *)
(* who enrolls the mailbox anew is confirmed too late for the campaign.     *)
Once ==
  /\ \A i \in Enrollments, c \in Campaigns : Sent(<<i, c>>) =>
       /\ enroll[i].state # "none"
       /\ campaigns[c].state \notin Fresh
       /\ campaigns[c].state \in Open => attempts[<<i, c>>].outcome \in Tried
       /\ \A j \in Enrollments : enroll[j].state = "active" /\ j # i /\ Same(i, j)
            => enroll[j].sequence > campaigns[c].cutoff
  /\ \A i, j \in Enrollments, c \in Campaigns :
       Sent(<<i, c>>) /\ Sent(<<j, c>>) /\ Same(i, j) => i = j
  /\ \A l, n \in Flying : l[1][2] \in Campaigns /\ l[1] = n[1] => l = n
  /\ \A l \in wire \cap delivered : l[1][2] \notin Campaigns
  /\ \A l \in Flying : l[1] \in Permit => l[1][2] \notin Campaigns

-----------------------------------------------------------------------------
(* Calm steps.                                                              *)

EnrollCalm ==
  /\ \A i \in Enrollments : enroll[i].state # "none" =>
       enroll'[i].state # "none" /\ enroll'[i].mailbox = enroll[i].mailbox
  /\ \A i \in Enrollments : enroll'[i].state \in {"pending", "active"} => enroll'[i] = enroll[i]

SuppressCalm == \A m \in suppressed' : m \in suppressed \/ Addressed(m)' = {}

CampaignCalm ==
  \A c \in Campaigns :
    /\ campaigns'[c].cutoff \in {campaigns[c].cutoff, sequence}
    /\ campaigns[c].state \notin Fresh =>
         /\ campaigns'[c].state \notin Fresh
         /\ campaigns'[c].cutoff = campaigns[c].cutoff
         /\ campaigns'[c].state \in Open => campaigns[c].state \in Open

(* An attempt is given up only with its letters or with its campaign. *)
AttemptCalm ==
  \A i \in Enrollments, c \in Campaigns :
    Sent(<<i, c>>)' /\ campaigns'[c].state \in Open /\ attempts[<<i, c>>].outcome \in Tried
      => attempts'[<<i, c>>].outcome \in Tried

LettersCalm == wire' \subseteq wire /\ delivered' = delivered /\ Permit' \subseteq Permit

Calm == /\ EnrollCalm /\ SuppressCalm /\ CampaignCalm /\ AttemptCalm /\ LettersCalm
        /\ sequence' = sequence

LEMMA SentTyped ==
  ASSUME Typed, NEW k, Sent(k)
  PROVE  k \in Keys
BY DEF Typed, TypeOK, Dispatchers, Dispatch, Sent, Permit, Flying, Letters

LEMMA CalmKeepsConsented ==
  ASSUME Typed, Typed', Consented, Calm
  PROVE  Consented'
<1>1. \A i \in Enrollments : Live(i)' => Live(i) /\ enroll'[i] = enroll[i]
  BY DEF Calm, EnrollCalm, Live
<1>2. \A m : Addressed(m)' \subseteq Addressed(m)
  BY <1>1 DEF Addressed
<1>3. \A c \in Campaigns : campaigns'[c].cutoff <= sequence'
  <2>. SUFFICES ASSUME NEW c \in Campaigns PROVE campaigns'[c].cutoff <= sequence'
    OBVIOUS
  <2>1. campaigns[c].cutoff <= sequence /\ sequence \in Nat
    BY DEF Consented, LiveConsent, Typed, TypeOK
  <2>2. campaigns'[c].cutoff \in {campaigns[c].cutoff, sequence} /\ sequence' = sequence
    BY DEF Calm, CampaignCalm
  <2>. QED BY <2>1, <2>2
<1>4. \A i \in Enrollments : enroll'[i].state = "active" => enroll'[i] = enroll[i]
  BY DEF Calm, EnrollCalm
<1>5. \A m \in Mailboxes : \A i, j \in Addressed(m)' : i = j
  BY <1>2 DEF Consented, LiveConsent
<1>6. \A m \in suppressed' : Addressed(m)' = {}
  BY <1>2 DEF Calm, SuppressCalm, Consented, LiveConsent
<1>. QED BY <1>3, <1>4, <1>5, <1>6 DEF Consented, LiveConsent, Calm

LEMMA CalmKeepsOnce ==
  ASSUME Typed, Typed', Consented, Once, Calm
  PROVE  Once'
<1>1. \A k : Sent(k)' => Sent(k)
  BY DEF Calm, LettersCalm, Sent, Flying
<1>2. Flying' \subseteq Flying /\ Permit' \subseteq Permit /\ wire' \cap delivered' \subseteq wire \cap delivered
  BY DEF Calm, LettersCalm, Flying
<1>3. ASSUME NEW i \in Enrollments, NEW c \in Campaigns, Sent(<<i, c>>)'
      PROVE  /\ enroll'[i].state # "none"
             /\ enroll'[i].mailbox = enroll[i].mailbox
             /\ campaigns'[c].state \notin Fresh
             /\ campaigns'[c].state \in Open => attempts'[<<i, c>>].outcome \in Tried
             /\ \A j \in Enrollments : enroll'[j].state = "active" /\ j # i /\ Same(i, j)'
                  => enroll'[j].sequence > campaigns'[c].cutoff
  <2>1. Sent(<<i, c>>)
    BY <1>1, <1>3
  <2>2. enroll[i].state # "none" /\ campaigns[c].state \notin Fresh
    BY <2>1 DEF Once
  <2>3. /\ enroll'[i].state # "none" /\ enroll'[i].mailbox = enroll[i].mailbox
        /\ campaigns'[c].state \notin Fresh /\ campaigns'[c].cutoff = campaigns[c].cutoff
        /\ campaigns'[c].state \in Open => campaigns[c].state \in Open
    BY <2>2 DEF Calm, EnrollCalm, CampaignCalm
  <2>4. campaigns'[c].state \in Open => attempts'[<<i, c>>].outcome \in Tried
    BY <1>3, <2>1, <2>3 DEF Once, Calm, AttemptCalm
  <2>5. ASSUME NEW j \in Enrollments, enroll'[j].state = "active", j # i, Same(i, j)'
        PROVE  enroll'[j].sequence > campaigns'[c].cutoff
    <3>1. enroll'[j] = enroll[j]
      BY <2>5 DEF Calm, EnrollCalm
    <3>2. enroll[j].state = "active" /\ Same(i, j)
      BY <2>3, <2>5, <3>1 DEF Same
    <3>. QED BY <2>1, <2>3, <2>5, <3>1, <3>2 DEF Once
  <2>. QED BY <2>3, <2>4, <2>5
<1>4. ASSUME NEW i \in Enrollments, NEW j \in Enrollments, NEW c \in Campaigns,
             Sent(<<i, c>>)', Sent(<<j, c>>)', Same(i, j)'
      PROVE  i = j
  BY <1>1, <1>3, <1>4 DEF Once, Same
<1>5. \A l, n \in Flying' : l[1][2] \in Campaigns /\ l[1] = n[1] => l = n
  BY <1>2 DEF Once
<1>6. \A l \in wire' \cap delivered' : l[1][2] \notin Campaigns
  BY <1>2 DEF Once
<1>7. \A l \in Flying' : l[1] \in Permit' => l[1][2] \notin Campaigns
  BY <1>2 DEF Once
<1>. QED BY <1>3, <1>4, <1>5, <1>6, <1>7 DEF Once

-----------------------------------------------------------------------------
(* What the rows become.                                                    *)

LEMMA RowsTyped ==
  ASSUME Typed
  PROVE  /\ \A i \in Enrollments : enroll[i] \in Enrollment
         /\ \A k \in Keys : attempts[k] \in [outcome : Outcomes, tries : Nat]
         /\ \A c \in Campaigns : campaigns[c] \in Campaign
         /\ disp \in Dispatchers
BY DEF Typed, TypeOK

LEMMA TallyTyped ==
  ASSUME MailConstants, NEW c \in Campaigns, NEW S
  PROVE  Tally(c, S) \in Nat /\ IsFiniteSet({i \in Enrollments : attempts[<<i, c>>].outcome \in S})
<1>1. IsFiniteSet(Enrollments)
  BY FS_Interval DEF MailConstants, Enrollments
<1>2. IsFiniteSet({i \in Enrollments : attempts[<<i, c>>].outcome \in S})
  BY <1>1, FS_Subset
<1>. QED BY <1>2, FS_CardinalityType DEF Tally

LEMMA CountedTyped ==
  ASSUME MailConstants, Typed, NEW c \in Campaigns, NEW s \in States
  PROVE  /\ Counted(c, s) \in Campaign
         /\ Counted(c, s).state = s /\ Counted(c, s).cutoff = campaigns[c].cutoff
         /\ Counted(c, s).counted /\ Counted(c, s).binding = campaigns[c].binding
         /\ Counted(c, s).accepted = Tally(c, {"accepted"})
         /\ Counted(c, s).unknown = Tally(c, {"unknown", "admitted"})
<1>1. Tally(c, {"accepted"}) \in Nat /\ Tally(c, {"unknown", "admitted"}) \in Nat
  BY TallyTyped
<1>2. campaigns[c] \in Campaign
  BY RowsTyped
<1>. QED BY <1>1, <1>2 DEF Counted, Campaign

LEMMA NextRowTyped ==
  ASSUME MailConstants
  PROVE  NextRow \in Nat
<1>1. IsFiniteSet(Campaigns \ InState({"absent", "marked"}))
  BY FS_Difference DEF MailConstants
<1>2. Cardinality(Campaigns \ InState({"absent", "marked"})) \in Nat
  BY <1>1, FS_CardinalityType
<1>. QED BY <1>2 DEF NextRow

(* remove_enrollment takes away, and cancels only what is queued. *)
LEMMA RemoveCalm ==
  ASSUME Typed, NEW S \in SUBSET Enrollments
  PROVE  /\ RemovedIn(S) \in [Enrollments -> Enrollment]
         /\ CancelledIn(S) \in [Keys -> [outcome : Outcomes, tries : Nat]]
         /\ \A i \in Enrollments :
              RemovedIn(S)[i] = IF i \in S THEN [enroll[i] EXCEPT !.state = "removed"]
                                ELSE enroll[i]
         /\ \A i \in Enrollments : RemovedIn(S)[i].mailbox = enroll[i].mailbox
         /\ \A k \in Keys : \/ CancelledIn(S)[k] = attempts[k]
                            \/ /\ attempts[k].outcome = "queued"
                               /\ CancelledIn(S)[k].outcome = "cancelled"
<1>1. \A i \in Enrollments : [enroll[i] EXCEPT !.state = "removed"] \in Enrollment
  BY RowsTyped DEF Enrollment
<1>2. \A k \in Keys : /\ [attempts[k] EXCEPT !.outcome = "cancelled"] \in [outcome : Outcomes, tries : Nat]
                      /\ [attempts[k] EXCEPT !.outcome = "cancelled"].outcome = "cancelled"
  BY RowsTyped DEF Outcomes
<1>3. \A i \in Enrollments : [enroll[i] EXCEPT !.state = "removed"].mailbox = enroll[i].mailbox
  BY RowsTyped DEF Enrollment
<1>4. \A k \in Keys : k[1] \in Enrollments
  BY DEF Keys
<1>5. RemovedIn(S) \in [Enrollments -> Enrollment]
  BY <1>1, RowsTyped DEF RemovedIn
<1>6. CancelledIn(S) \in [Keys -> [outcome : Outcomes, tries : Nat]]
  BY <1>2, RowsTyped DEF CancelledIn
<1>. QED BY <1>1, <1>2, <1>3, <1>5, <1>6 DEF RemovedIn, CancelledIn

LEMMA RemovalCalm ==
  ASSUME Typed, NEW S \in SUBSET Enrollments, enroll' = RemovedIn(S)
  PROVE  /\ EnrollCalm
         /\ enroll' \in [Enrollments -> Enrollment]
         /\ \A i \in Enrollments : Live(i)' => enroll'[i].mailbox \in Mailboxes
<1>1. ASSUME NEW i \in Enrollments
      PROVE  /\ enroll'[i] = enroll[i] \/ (i \in S /\ enroll'[i].state = "removed")
             /\ enroll'[i].mailbox = enroll[i].mailbox
  <2>1. enroll[i] \in Enrollment
    BY RowsTyped
  <2>2. /\ enroll'[i] = IF i \in S THEN [enroll[i] EXCEPT !.state = "removed"] ELSE enroll[i]
        /\ enroll'[i].mailbox = enroll[i].mailbox
    BY RemoveCalm
  <2>. QED BY <2>1, <2>2 DEF Enrollment
<1>2. EnrollCalm
  BY <1>1 DEF EnrollCalm
<1>3. \A i \in Enrollments : Live(i)' => Live(i) /\ enroll'[i].mailbox = enroll[i].mailbox
  BY <1>1 DEF Live
<1>. QED BY <1>2, <1>3, RemoveCalm DEF Typed

(* Attempts of which only queued ones change are calm. *)
LEMMA QueuedOnlyCalm ==
  ASSUME \A k \in Keys : attempts[k].outcome \in Tried => attempts'[k].outcome \in Tried
  PROVE  AttemptCalm
BY DEF AttemptCalm, Keys, Kinds

LEMMA SameLettersCalm ==
  ASSUME UNCHANGED provider, UNCHANGED disp \/ disp'.pc # "sending"
  PROVE  LettersCalm
BY DEF LettersCalm, Permit, provider

LEMMA SameConsentCalm ==
  ASSUME UNCHANGED enroll
  PROVE  EnrollCalm /\ (suppressed' \subseteq suppressed => SuppressCalm)
BY DEF EnrollCalm, SuppressCalm

LEMMA SameCampaignsCalm ==
  ASSUME UNCHANGED campaigns
  PROVE  CampaignCalm
BY DEF CampaignCalm

(* The dispatcher stops with the process. *)
LEMMA StopCalm ==
  ASSUME Stop
  PROVE  disp' \in Dispatchers /\ disp'.pc = "idle" /\ phase' = "down" /\ Permit' = {}
BY DEF Stop, Idle, Dispatchers, Dispatch, Pcs, Permit

-----------------------------------------------------------------------------
(* Visitors, retention and the Owner.                                       *)

LEMMA LeavesCalm ==
  ASSUME Typed, NEW i \in Enrollments, RemoveEnrollment(i) \/ ExpirePending(i)
  PROVE  Typed' /\ Calm
<1>1. /\ enroll' = RemovedIn({i}) /\ attempts' = CancelledIn({i})
      /\ UNCHANGED <<suppressed, sequence, policy, campaigns, provider, disp, phase>>
  BY DEF RemoveEnrollment, ExpirePending, Remove
<1>2. EnrollCalm /\ enroll' \in [Enrollments -> Enrollment]
      /\ \A j \in Enrollments : Live(j)' => enroll'[j].mailbox \in Mailboxes
  BY <1>1, RemovalCalm
<1>3. /\ attempts' \in [Keys -> [outcome : Outcomes, tries : Nat]]
      /\ AttemptCalm
  BY <1>1, RemoveCalm, QueuedOnlyCalm DEF Tried
<1>. QED BY <1>1, <1>2, <1>3, SameLettersCalm, SameCampaignsCalm
         DEF Typed, TypeOK, Calm, provider, SuppressCalm

LEMMA RetireAttemptCalm ==
  ASSUME MailConstants, Typed, NEW k \in Keys, RetireAttempt(k)
  PROVE  Typed' /\ Calm
<1>1. /\ UNCHANGED <<enroll, suppressed, sequence, policy, provider, disp, phase>>
      /\ attempts' = [attempts EXCEPT ![k].outcome = "absent"]
      /\ campaigns' = IF k[2] \in InState(Open)
                      THEN [campaigns EXCEPT ![k[2]] = Counted(k[2], "quarantined")]
                      ELSE campaigns
  BY DEF RetireAttempt, consent
<1>2. /\ attempts' \in [Keys -> [outcome : Outcomes, tries : Nat]]
      /\ \A q \in Keys : q # k => attempts'[q] = attempts[q]
  BY <1>1, RowsTyped DEF Outcomes, Typed, TypeOK
<1>3. ASSUME NEW c \in Campaigns
      PROVE  /\ campaigns'[c] \in Campaign /\ campaigns'[c].cutoff = campaigns[c].cutoff
             /\ \/ campaigns'[c] = campaigns[c] /\ (c = k[2] => campaigns[c].state \notin Open)
                \/ campaigns'[c].state = "quarantined"
  <2>1. Counted(c, "quarantined") \in Campaign /\ Counted(c, "quarantined").state = "quarantined"
        /\ Counted(c, "quarantined").cutoff = campaigns[c].cutoff
    BY CountedTyped DEF States
  <2>2. campaigns[c] \in Campaign
    BY RowsTyped
  <2>3. campaigns'[c] = IF c = k[2] /\ campaigns[c].state \in Open
                        THEN Counted(c, "quarantined") ELSE campaigns[c]
    BY <1>1 DEF InState, Typed, TypeOK
  <2>. QED BY <2>1, <2>2, <2>3
<1>4. campaigns' \in [Campaigns -> Campaign]
  BY <1>1, <1>3 DEF Typed, TypeOK, InState
<1>5. CampaignCalm
  BY <1>3 DEF CampaignCalm, Open, Fresh
<1>6. AttemptCalm
  BY <1>2, <1>3 DEF AttemptCalm, Keys, Kinds, Open
<1>. QED BY <1>1, <1>2, <1>4, <1>5, <1>6, SameLettersCalm, SameConsentCalm
         DEF Typed, TypeOK, Calm, provider, Live

(* Steps that edit a campaign and nothing else. *)
EditsCampaigns ==
  UNCHANGED <<enroll, suppressed, sequence, attempts, policy, provider, disp, phase>>

LEMMA EditCalm ==
  ASSUME Typed, EditsCampaigns, campaigns' \in [Campaigns -> Campaign], CampaignCalm
  PROVE  Typed' /\ Calm
BY SameLettersCalm, SameConsentCalm, QueuedOnlyCalm
   DEF EditsCampaigns, Typed, TypeOK, Calm, provider, Live

LEMMA EditsCalm ==
  ASSUME MailConstants, Typed, NEW c \in Campaigns,
         \/ PublishArticle(c) \/ CreateCampaign(c) \/ ApproveCampaign(c)
         \/ CancelCampaign(c) \/ LapseLease(c) \/ RevokeOwner
  PROVE  Typed' /\ Calm
<1>1. EditsCampaigns
  BY DEF PublishArticle, CreateCampaign, ApproveCampaign, CancelCampaign, LapseLease, RevokeOwner,
         EditsCampaigns, consent
<1>2. /\ campaigns[c] \in Campaign /\ sequence \in Nat /\ policy.binding \in Bindings
      /\ campaigns \in [Campaigns -> Campaign] /\ policy.enabled \in BOOLEAN
  BY RowsTyped DEF Typed, TypeOK
<1>3. NextRow \in Nat
  BY NextRowTyped
<1>4. CASE PublishArticle(c)
  <2>1. campaigns' \in [Campaigns -> Campaign]
    BY <1>2, <1>3, <1>4 DEF PublishArticle, Campaign, States, Active, Open
  <2>2. CampaignCalm
    BY <1>2, <1>4 DEF PublishArticle, CampaignCalm, Campaign, Fresh
  <2>. QED BY <1>1, <2>1, <2>2, EditCalm
<1>5. CASE CreateCampaign(c)
  <2>1. campaigns' \in [Campaigns -> Campaign]
    BY <1>2, <1>3, <1>5 DEF CreateCampaign, Campaign, States, Active, Open
  <2>2. CampaignCalm
    BY <1>2, <1>5 DEF CreateCampaign, CampaignCalm, Campaign, Fresh
  <2>. QED BY <1>1, <2>1, <2>2, EditCalm
<1>6. CASE ApproveCampaign(c)
  <2>1. campaigns' \in [Campaigns -> Campaign]
    BY <1>2, <1>6 DEF ApproveCampaign, Campaign, States, Active, Open
  <2>2. CampaignCalm
    BY <1>2, <1>6 DEF ApproveCampaign, CampaignCalm, Campaign, Fresh
  <2>. QED BY <1>1, <2>1, <2>2, EditCalm
<1>7. CASE CancelCampaign(c)
  <2>1. campaigns' \in [Campaigns -> Campaign]
    BY <1>2, <1>7 DEF CancelCampaign, Campaign, States, Active, Open
  <2>2. CampaignCalm
    BY <1>2, <1>7 DEF CancelCampaign, CampaignCalm, Campaign, Fresh, Open
  <2>. QED BY <1>1, <2>1, <2>2, EditCalm
<1>8. CASE LapseLease(c)
  <2>1. campaigns' \in [Campaigns -> Campaign]
    BY <1>2, <1>8 DEF LapseLease, Campaign
  <2>2. CampaignCalm
    BY <1>2, <1>8 DEF LapseLease, CampaignCalm, Campaign
  <2>. QED BY <1>1, <2>1, <2>2, EditCalm
<1>9. CASE RevokeOwner
  <2>1. campaigns' \in [Campaigns -> Campaign]
    BY <1>2, <1>9 DEF RevokeOwner, Campaign
  <2>2. CampaignCalm
    BY <1>2, <1>9 DEF RevokeOwner, CampaignCalm, Campaign
  <2>. QED BY <1>1, <2>1, <2>2, EditCalm
<1>. QED BY <1>4, <1>5, <1>6, <1>7, <1>8, <1>9

LEMMA SettingsCalm ==
  ASSUME Typed, NEW b \in Bindings, NEW e \in BOOLEAN, UpdateSettings(b, e)
  PROVE  Typed' /\ Calm
<1>1. /\ enroll' = RemovedIn(Obsolete(b)) /\ attempts' = CancelledIn(Obsolete(b))
      /\ policy' = [policy EXCEPT !.binding = b, !.enabled = e, !.ok = FALSE]
      /\ UNCHANGED <<suppressed, sequence, campaigns, provider, disp, phase>>
  BY DEF UpdateSettings, Remove
<1>0. Obsolete(b) \in SUBSET Enrollments
  BY DEF Obsolete
<1>2. EnrollCalm /\ enroll' \in [Enrollments -> Enrollment]
      /\ \A j \in Enrollments : Live(j)' => enroll'[j].mailbox \in Mailboxes
  BY <1>0, <1>1, RemovalCalm
<1>3. /\ attempts' \in [Keys -> [outcome : Outcomes, tries : Nat]]
      /\ AttemptCalm
  BY <1>0, <1>1, RemoveCalm, QueuedOnlyCalm DEF Tried
<1>4. policy' \in [binding : Bindings, enabled : BOOLEAN, ok : BOOLEAN, gap : BOOLEAN]
  BY <1>1 DEF Typed, TypeOK
<1>. QED BY <1>1, <1>2, <1>3, <1>4, SameLettersCalm, SameCampaignsCalm
         DEF Typed, TypeOK, Calm, provider, SuppressCalm

LEMMA ResetCalm ==
  ASSUME MailConstants, Typed, ResetConsent
  PROVE  Typed' /\ Calm
<1>1. UNCHANGED <<suppressed, sequence, provider, disp, phase>>
  BY DEF ResetConsent
<1>2. ASSUME NEW c \in Campaigns
      PROVE  /\ ResetClosed(c) \in Campaign /\ ResetClosed(c).cutoff = campaigns[c].cutoff
             /\ ResetClosed(c).state \notin Open
             /\ campaigns[c].state \notin Fresh => ResetClosed(c).state \notin Fresh
  <2>1. campaigns[c] \in Campaign
    BY RowsTyped
  <2>2. /\ Counted(c, "quarantined") \in Campaign /\ Counted(c, "quarantined").state = "quarantined"
        /\ Counted(c, "quarantined").cutoff = campaigns[c].cutoff
    BY CountedTyped DEF States
  <2>3. CASE campaigns[c].state \in {"draft", "queued", "unknown"}
    <3>1. ResetClosed(c) = [campaigns[c] EXCEPT !.state = "quarantined"]
      BY <2>3 DEF ResetClosed
    <3>. QED BY <2>1, <3>1 DEF Campaign, States, Open, Fresh
  <2>4. CASE campaigns[c].state \in {"claimed", "cancelling"}
    <3>1. ResetClosed(c) = Counted(c, "quarantined")
      BY <2>4 DEF ResetClosed
    <3>. QED BY <2>2, <3>1 DEF Open, Fresh
  <2>5. CASE campaigns[c].state \notin {"draft", "queued", "unknown", "claimed", "cancelling"}
    <3>1. ResetClosed(c) = campaigns[c]
      BY <2>5 DEF ResetClosed
    <3>. QED BY <2>1, <2>5, <3>1 DEF Open, Fresh
  <2>. QED BY <2>3, <2>4, <2>5
<1>3. /\ campaigns' \in [Campaigns -> Campaign]
      /\ \A c \in Campaigns : campaigns'[c] = ResetClosed(c)
  BY <1>2 DEF ResetConsent
<1>4. CampaignCalm /\ AttemptCalm
  BY <1>2, <1>3 DEF CampaignCalm, AttemptCalm
<1>5. ASSUME NEW i \in Enrollments
      PROVE  /\ enroll'[i] \in Enrollment /\ ~Live(i)'
             /\ enroll[i].state # "none" =>
                  enroll'[i].state # "none" /\ enroll'[i].mailbox = enroll[i].mailbox
  <2>1. enroll[i] \in Enrollment
    BY RowsTyped
  <2>2. enroll'[i] = IF enroll[i].state = "none" THEN enroll[i]
                     ELSE [enroll[i] EXCEPT !.state = "reset"]
    BY DEF ResetConsent
  <2>. QED BY <2>1, <2>2 DEF Enrollment, Live
<1>6. enroll' \in [Enrollments -> Enrollment]
  BY <1>5 DEF ResetConsent
<1>7. EnrollCalm
  BY <1>5 DEF EnrollCalm, Live
<1>8. attempts' \in [Keys -> [outcome : Outcomes, tries : Nat]]
  BY RowsTyped DEF ResetConsent, Outcomes
<1>9. policy' \in [binding : Bindings, enabled : BOOLEAN, ok : BOOLEAN, gap : BOOLEAN]
  BY DEF ResetConsent, Typed, TypeOK
<1>. QED BY <1>1, <1>3, <1>4, <1>5, <1>6, <1>7, <1>8, <1>9, SameLettersCalm
         DEF Typed, TypeOK, Calm, provider, SuppressCalm

(* Steps of the settings and of the suppressions alone. *)
LEMMA PolicyCalm ==
  ASSUME Typed,
         UNCHANGED <<enroll, attempts, campaigns, sequence, provider, phase>>,
         UNCHANGED disp \/ (disp' \in Dispatchers /\ disp'.pc # "sending"),
         suppressed' \subseteq suppressed,
         policy' \in [binding : Bindings, enabled : BOOLEAN, ok : BOOLEAN, gap : BOOLEAN]
  PROVE  Typed' /\ Calm
<1>1. EnrollCalm /\ SuppressCalm /\ CampaignCalm /\ AttemptCalm /\ LettersCalm
  BY SameLettersCalm, SameConsentCalm, SameCampaignsCalm, QueuedOnlyCalm
<1>2. disp' \in Dispatchers
  BY DEF Typed
<1>3. disp'.claim \in Campaigns \cup {None} /\ disp'.key \in Keys \cup {None}
  BY <1>2 DEF Dispatchers, Dispatch
<1>. QED BY <1>1, <1>2, <1>3 DEF Typed, TypeOK, Calm, provider, Live

(* The process ends with its dispatcher and the permit it held. *)
LEMMA StopsCalm ==
  ASSUME Typed, (\E k \in Keys : CorruptFeedback(k)) \/ Crash
  PROVE  Typed' /\ Calm
<1>1. UNCHANGED <<tables, provider>> /\ Stop
  BY DEF CorruptFeedback, Crash
<1>2. UNCHANGED <<enroll, suppressed, sequence, attempts, policy, campaigns, provider>>
  BY <1>1 DEF tables, consent
<1>3. EnrollCalm /\ SuppressCalm /\ CampaignCalm /\ AttemptCalm /\ LettersCalm
  BY <1>1, <1>2, StopCalm, SameLettersCalm, SameConsentCalm, SameCampaignsCalm, QueuedOnlyCalm
<1>4. disp'.claim \in Campaigns \cup {None} /\ disp'.key \in Keys \cup {None}
  BY <1>1, StopCalm DEF Dispatchers, Dispatch
<1>. QED BY <1>1, <1>2, <1>3, <1>4, StopCalm DEF Typed, TypeOK, Calm, provider, Live

(* suppress_feedback_enrollment: who complains or bounces is the one live   *)
(* enrollment of the mailbox.                                               *)
LEMMA FeedbackCalm ==
  ASSUME Typed, Consented, NEW k \in Keys, NEW s \in BOOLEAN, ApplyFeedback(k, s)
  PROVE  Typed' /\ Calm
<1>. DEFINE i == k[1]
            S == IF s /\ Live(i) THEN {i} ELSE {}
            counts == Unsettled(k) /\ k[2] # Confirmation
<1>1. /\ enroll' = RemovedIn(S)
      /\ attempts' = [CancelledIn(S) EXCEPT ![k].outcome = "accepted"]
      /\ suppressed' = suppressed \cup {enroll[j].mailbox : j \in S}
      /\ campaigns' = IF counts THEN [campaigns EXCEPT ![k[2]] = Reconciled(k[2])] ELSE campaigns
      /\ counts => Reconcilable(k[2])
      /\ UNCHANGED <<sequence, policy, provider, disp, phase>>
  BY DEF ApplyFeedback
<1>2. i \in Enrollments /\ S \in SUBSET Enrollments /\ k[2] \in Kinds
  BY DEF Keys
<1>3. EnrollCalm /\ enroll' \in [Enrollments -> Enrollment]
      /\ \A j \in Enrollments : Live(j)' => enroll'[j].mailbox \in Mailboxes
  BY <1>1, <1>2, RemovalCalm
<1>4. /\ attempts' \in [Keys -> [outcome : Outcomes, tries : Nat]]
      /\ AttemptCalm
  <2>. DEFINE table == CancelledIn(S)
  <2>1. /\ table \in [Keys -> [outcome : Outcomes, tries : Nat]]
        /\ \A q \in Keys : \/ table[q] = attempts[q]
                           \/ attempts[q].outcome = "queued" /\ table[q].outcome = "cancelled"
    BY <1>2, RemoveCalm
  <2>2. attempts' = [table EXCEPT ![k].outcome = "accepted"]
    BY <1>1
  <2>. HIDE DEF table
  <2>3. attempts' \in [Keys -> [outcome : Outcomes, tries : Nat]]
    BY <2>1, <2>2 DEF Outcomes
  <2>4. \A q \in Keys : attempts[q].outcome \in Tried => attempts'[q].outcome \in Tried
    BY <2>1, <2>2 DEF Tried
  <2>. QED BY <2>3, <2>4, QueuedOnlyCalm
<1>5. ASSUME counts
      PROVE  /\ k[2] \in Campaigns
             /\ Reconciled(k[2]) \in Campaign
             /\ Reconciled(k[2]).cutoff = campaigns[k[2]].cutoff
             /\ \/ Reconciled(k[2]) = campaigns[k[2]]
                \/ /\ campaigns[k[2]].state \notin Open \cup Fresh
                   /\ Reconciled(k[2]).state \notin Open \cup Fresh
  <2>0. k[2] \in Campaigns
    BY <1>2, <1>5 DEF Kinds
  <2>. DEFINE row == campaigns[k[2]]
              st == IF row.state = "unknown" /\ row.unknown = 1
                    THEN IF row.intent = "cancel" THEN "cancelled" ELSE "completed"
                    ELSE row.state
  <2>1. row \in Campaign
    BY <2>0, RowsTyped
  <2>2. CASE row.state \in Open
    BY <2>0, <2>1, <2>2 DEF Reconciled
  <2>3. CASE row.state \notin Open
    <3>1. row.state \in {"unknown", "quarantined"} /\ row.unknown > 0
      BY <1>1, <1>5, <2>3 DEF Reconcilable
    <3>2. row.unknown - 1 \in Nat /\ row.accepted + 1 \in Nat
      BY <2>1, <3>1 DEF Campaign
    <3>3. st \in {"unknown", "quarantined", "cancelled", "completed"}
      BY <3>1
    <3>4. Reconciled(k[2]) = [row EXCEPT !.unknown = row.unknown - 1, !.accepted = row.accepted + 1,
                                         !.state = st]
      BY <2>1, <2>3, Zenon DEF Reconciled, Campaign
    <3>. HIDE DEF st
    <3>5. st \in States /\ st \notin Open \cup Fresh
      BY <3>3 DEF States, Active, Open, Fresh
    <3>6. Reconciled(k[2]) \in Campaign /\ Reconciled(k[2]).cutoff = row.cutoff
          /\ Reconciled(k[2]).state = st
      BY <2>1, <3>2, <3>4, <3>5 DEF Campaign
    <3>. QED BY <2>0, <3>1, <3>5, <3>6 DEF Open, Fresh
  <2>. QED BY <2>2, <2>3
<1>6. campaigns' \in [Campaigns -> Campaign] /\ CampaignCalm
  <2>1. CASE counts
    <3>1. campaigns' = [campaigns EXCEPT ![k[2]] = Reconciled(k[2])]
      BY <1>1, <2>1
    <3>2. campaigns' \in [Campaigns -> Campaign]
      BY <1>5, <2>1, <3>1 DEF Typed, TypeOK
    <3>. HIDE DEF counts
    <3>3. \A c \in Campaigns : campaigns'[c] = IF c = k[2] THEN Reconciled(c) ELSE campaigns[c]
      BY <3>1 DEF Typed, TypeOK
    <3>. QED BY <1>5, <2>1, <3>2, <3>3 DEF CampaignCalm
  <2>2. CASE ~counts
    BY <1>1, <2>2, SameCampaignsCalm DEF Typed, TypeOK
  <2>. QED BY <2>1, <2>2
<1>7. SuppressCalm /\ suppressed' \subseteq Mailboxes
  <2>1. ASSUME NEW m \in suppressed', m \notin suppressed
        PROVE  m \in Mailboxes /\ Addressed(m)' = {}
    <3>1. i \in S /\ Live(i) /\ m = enroll[i].mailbox /\ S = {i}
      BY <1>1, <2>1
    <3>2. m \in Mailboxes
      BY <1>2, <3>1 DEF Typed
    <3>3. ASSUME NEW j \in Addressed(m)'  PROVE FALSE
      <4>1. j \in Enrollments /\ Live(j)' /\ enroll'[j] = enroll[j] /\ enroll'[j].mailbox = m
        BY <1>3, <3>3 DEF Addressed, EnrollCalm, Live
      <4>2. j \in Addressed(m) /\ i \in Addressed(m)
        BY <1>2, <3>1, <4>1 DEF Addressed, Live
      <4>3. j = i
        BY <3>2, <4>2 DEF Consented, LiveConsent
      <4>4. enroll'[i] = [enroll[i] EXCEPT !.state = "removed"]
        BY <1>1, <1>2, <3>1 DEF RemovedIn
      <4>5. enroll'[i].state = "removed"
        BY <1>2, <4>4, RowsTyped DEF Enrollment
      <4>. QED BY <4>1, <4>3, <4>5 DEF Live
    <3>. QED BY <3>2, <3>3
  <2>. QED BY <2>1 DEF SuppressCalm, Typed, TypeOK
<1>. QED BY <1>1, <1>3, <1>4, <1>6, <1>7, SameLettersCalm DEF Typed, TypeOK, Calm, provider

-----------------------------------------------------------------------------
(* The dispatcher.                                                          *)

(* Steps of the dispatcher's memory alone. *)
LEMMA MovesCalm ==
  ASSUME Typed, UNCHANGED <<tables, provider, phase>>,
         disp' \in Dispatchers, disp'.pc # "sending"
  PROVE  Typed' /\ Calm
<1>1. UNCHANGED <<enroll, suppressed, sequence, attempts, policy, campaigns, provider, phase>>
  BY DEF tables, consent
<1>2. policy \in [binding : Bindings, enabled : BOOLEAN, ok : BOOLEAN, gap : BOOLEAN]
  BY DEF Typed, TypeOK
<1>. QED BY <1>1, <1>2, PolicyCalm

LEMMA SleepTyped ==
  ASSUME NEW c \in Campaigns \cup {None}, NEW t \in {"confirmation", "article"}, Sleep(c, t)
  PROVE  disp' \in Dispatchers /\ disp'.pc = "idle"
BY DEF Sleep, Idle, Dispatchers, Dispatch, Pcs

LEMMA GotoTyped ==
  ASSUME Typed, NEW pc \in Pcs, Goto(pc),
         pc \in {"admitting", "sending", "waiting"} => disp.key \in Keys,
         pc \in {"renewing", "finishing", "article"} => disp.claim \in Campaigns,
         pc # "finishing"
  PROVE  disp' \in Dispatchers /\ disp'.pc = pc /\ disp'.key = disp.key /\ disp'.claim = disp.claim
BY DEF Goto, Typed, Dispatchers, Dispatch

LEMMA SelectRecipientTyped ==
  ASSUME NEW d \in Dispatch, d.claim \in Campaigns, SelectRecipient(d)
  PROVE  disp' \in Dispatchers /\ disp'.pc \in {"finishing", "admitting"}
<1>1. CASE disp' = [d EXCEPT !.pc = "finishing", !.intent = "complete", !.turn = "confirmation"]
  BY <1>1 DEF Dispatch, Dispatchers, Pcs
<1>2. CASE \E i \in Recipients(d.claim) :
         disp' = [d EXCEPT !.pc = "admitting", !.key = <<i, d.claim>>, !.turn = "confirmation"]
  <2>1. PICK i \in Recipients(d.claim) :
          disp' = [d EXCEPT !.pc = "admitting", !.key = <<i, d.claim>>, !.turn = "confirmation"]
    BY <1>2
  <2>2. <<i, d.claim>> \in Keys
    BY DEF Recipients, Keys, Kinds
  <2>. QED BY <2>1, <2>2 DEF Dispatch, Dispatchers, Pcs
<1>. QED BY <1>1, <1>2 DEF SelectRecipient

LEMMA SelectDeliveryTyped ==
  ASSUME MailConstants, NEW d \in Dispatch, SelectDelivery(d)
  PROVE  disp' \in Dispatchers /\ disp'.pc # "sending"
<1>0. d.claim \in Campaigns \cup {None} /\ d.turn \in {"confirmation", "article"}
  BY DEF Dispatch
<1>1. CASE Sleep(d.claim, d.turn)
  BY <1>0, <1>1, SleepTyped
<1>2. CASE d.claim # None /\ SelectRecipient(d)
  BY <1>0, <1>2, SelectRecipientTyped
<1>3. CASE \E i \in QueuedConfirmations(d.binding) :
             disp' = [d EXCEPT !.pc = "admitting", !.key = <<i, Confirmation>>]
  <2>1. PICK i \in QueuedConfirmations(d.binding) :
          disp' = [d EXCEPT !.pc = "admitting", !.key = <<i, Confirmation>>]
    BY <1>3
  <2>2. <<i, Confirmation>> \in Keys
    BY DEF QueuedConfirmations, Keys, Kinds
  <2>. QED BY <2>1, <2>2 DEF Dispatch, Dispatchers, Pcs
<1>. QED BY <1>1, <1>2, <1>3 DEF SelectDelivery

LEMMA ReadsCalm ==
  ASSUME MailConstants, Typed, Tick \/ RenewClaim \/ Choose \/ ChooseArticle
  PROVE  Typed' /\ Calm
<1>0. /\ disp \in Dispatch /\ policy.binding \in Bindings /\ policy.enabled \in BOOLEAN
      /\ disp.claim \in Campaigns \cup {None} /\ disp.turn \in {"confirmation", "article"}
  BY DEF Typed, TypeOK, Dispatchers, Dispatch
<1>1. UNCHANGED <<tables, provider, phase>>
  BY DEF Tick, RenewClaim, Choose, ChooseArticle
<1>2. CASE Tick
  <2>. DEFINE loaded == [disp EXCEPT !.binding = policy.binding, !.enabled = policy.enabled]
  <2>1. loaded \in Dispatch /\ loaded.claim = disp.claim /\ [loaded EXCEPT !.claim = None] \in Dispatch
    BY <1>0 DEF Dispatch
  <2>2. \/ disp' = [loaded EXCEPT !.pc = "claiming"]
        \/ SelectDelivery(loaded)
        \/ disp.claim # None /\ disp' = [loaded EXCEPT !.pc = "finishing", !.intent = "cancel"]
        \/ disp.claim # None /\ disp' = [loaded EXCEPT !.pc = "renewing"]
        \/ SelectDelivery([loaded EXCEPT !.claim = None])
    BY <1>2 DEF Tick
  <2>. HIDE DEF loaded
  <2>3. disp' \in Dispatchers /\ disp'.pc # "sending"
    <3>1. CASE disp' = [loaded EXCEPT !.pc = "claiming"]
      BY <2>1, <3>1 DEF Dispatch, Dispatchers, Pcs
    <3>2. CASE disp.claim # None /\ disp' = [loaded EXCEPT !.pc = "finishing", !.intent = "cancel"]
      BY <1>0, <2>1, <3>2 DEF Dispatch, Dispatchers, Pcs
    <3>3. CASE disp.claim # None /\ disp' = [loaded EXCEPT !.pc = "renewing"]
      BY <1>0, <2>1, <3>3 DEF Dispatch, Dispatchers, Pcs
    <3>. QED BY <2>1, <2>2, <3>1, <3>2, <3>3, SelectDeliveryTyped
  <2>. QED BY <1>1, <2>3, MovesCalm
<1>3. CASE RenewClaim
  <2>1. CASE Goto("choosing")
    BY <1>1, <2>1, GotoTyped, MovesCalm DEF Pcs
  <2>2. CASE Sleep(Retained, disp.turn)
    <3>1. Retained \in Campaigns \cup {None}
      BY <1>0 DEF Retained
    <3>. QED BY <1>0, <1>1, <2>2, <3>1, SleepTyped, MovesCalm
  <2>. QED BY <1>3, <2>1, <2>2 DEF RenewClaim
<1>4. CASE Choose
  BY <1>0, <1>1, <1>4, SelectDeliveryTyped, MovesCalm DEF Choose
<1>5. CASE ChooseArticle
  <2>1. disp.claim \in Campaigns
    BY <1>5 DEF ChooseArticle, Typed, Dispatchers
  <2>. QED BY <1>0, <1>1, <1>5, <2>1, SelectRecipientTyped, MovesCalm DEF ChooseArticle
<1>. QED BY <1>2, <1>3, <1>4, <1>5

(* An interruption closes campaigns or queues them over settled attempts. *)
LEMMA InterruptedCalm ==
  ASSUME MailConstants, Typed, NEW S, Interrupted(S),
         \A c \in Campaigns \cap S : campaigns[c].state \in Open
  PROVE  /\ campaigns' \in [Campaigns -> Campaign] /\ CampaignCalm
         /\ attempts' \in [Keys -> [outcome : Outcomes, tries : Nat]] /\ AttemptCalm
<1>1. ASSUME NEW c \in Campaigns
      PROVE  /\ campaigns'[c] \in Campaign /\ campaigns'[c].cutoff = campaigns[c].cutoff
             /\ \/ campaigns'[c] = campaigns[c]
                \/ campaigns[c].state \in Open /\ campaigns'[c].state \in {"queued", "quarantined"}
  <2>1. campaigns[c] \in Campaign
    BY RowsTyped
  <2>2. /\ Counted(c, "quarantined") \in Campaign /\ Counted(c, "quarantined").state = "quarantined"
        /\ Counted(c, "quarantined").cutoff = campaigns[c].cutoff
    BY CountedTyped DEF States
  <2>3. campaigns'[c] \in {campaigns[c], [campaigns[c] EXCEPT !.state = "queued", !.lapsed = FALSE],
                           Counted(c, "quarantined")}
        /\ (c \notin S => campaigns'[c] = campaigns[c])
    BY DEF Interrupted
  <2>4. LET row == [campaigns[c] EXCEPT !.state = "queued", !.lapsed = FALSE]
        IN  row \in Campaign /\ row.state = "queued" /\ row.cutoff = campaigns[c].cutoff
    BY <2>1 DEF Campaign, States, Active, Open
  <2>. QED BY <2>1, <2>2, <2>3, <2>4
<1>2. campaigns' \in [Campaigns -> Campaign]
  BY <1>1 DEF Interrupted
<1>3. CampaignCalm
  BY <1>1 DEF CampaignCalm, Fresh, Open
<1>4. ASSUME NEW k \in Keys
      PROVE  /\ attempts'[k] \in [outcome : Outcomes, tries : Nat]
             /\ attempts[k].outcome \in Tried => attempts'[k].outcome \in Tried
  <2>1. attempts[k] \in [outcome : Outcomes, tries : Nat]
    BY RowsTyped
  <2>2. attempts'[k] \in {attempts[k], [attempts[k] EXCEPT !.outcome = "unknown"]}
    BY DEF Interrupted
  <2>. QED BY <2>1, <2>2 DEF Outcomes, Tried
<1>. QED BY <1>2, <1>3, <1>4, QueuedOnlyCalm DEF Interrupted

LEMMA HeadOpen ==
  ASSUME NEW c \in Head
  PROVE  c \in Campaigns /\ campaigns[c].state \in {"claimed", "cancelling", "queued"}
BY DEF Head, Earliest, InState

(* Steps on campaigns, attempts and the dispatcher. *)
LEMMA WorkCalm ==
  ASSUME Typed, UNCHANGED <<consent, policy, provider>>, phase' \in {"up", "down", "restarting"},
         disp' \in Dispatchers, disp'.pc # "sending",
         campaigns' \in [Campaigns -> Campaign], CampaignCalm,
         attempts' \in [Keys -> [outcome : Outcomes, tries : Nat]], AttemptCalm
  PROVE  Typed' /\ Calm
<1>1. UNCHANGED <<enroll, suppressed, sequence>>
  BY DEF consent
<1>2. EnrollCalm /\ SuppressCalm /\ LettersCalm
  BY <1>1, SameLettersCalm, SameConsentCalm
<1>3. disp'.claim \in Campaigns \cup {None} /\ disp'.key \in Keys \cup {None}
  BY DEF Dispatchers, Dispatch
<1>. QED BY <1>1, <1>2, <1>3 DEF Typed, TypeOK, Calm, provider, Live

LEMMA ClaimCalm ==
  ASSUME MailConstants, Typed, ClaimCampaign
  PROVE  Typed' /\ Calm
<1>0. /\ UNCHANGED <<consent, policy, provider>> /\ phase' \in {"up", "down", "restarting"}
      /\ disp \in Dispatch /\ disp.claim \in Campaigns \cup {None}
      /\ disp.turn \in {"confirmation", "article"} /\ disp.binding \in Bindings \cup {None}
  BY DEF ClaimCampaign, Typed, TypeOK, Dispatchers, Dispatch
<1>1. CASE Goto("choosing") /\ UNCHANGED <<campaigns, attempts>>
  <2>1. disp' \in Dispatchers /\ disp'.pc = "choosing"
    BY <1>1, GotoTyped DEF Pcs
  <2>. QED BY <1>0, <1>1, <2>1, WorkCalm, SameCampaignsCalm, QueuedOnlyCalm DEF Typed, TypeOK
<1>2. CASE \E c \in Head : Interrupted({c}) /\ Goto("choosing")
  <2>1. PICK c \in Head : Interrupted({c}) /\ Goto("choosing")
    BY <1>2
  <2>2. \A x \in Campaigns \cap {c} : campaigns[x].state \in Open
    BY <2>1, HeadOpen DEF Open
  <2>3. disp' \in Dispatchers /\ disp'.pc = "choosing"
    BY <2>1, GotoTyped DEF Pcs
  <2>4. /\ campaigns' \in [Campaigns -> Campaign] /\ CampaignCalm
        /\ attempts' \in [Keys -> [outcome : Outcomes, tries : Nat]] /\ AttemptCalm
    BY <2>1, <2>2, InterruptedCalm
  <2>. QED BY <1>0, <2>3, <2>4, WorkCalm
<1>3. CASE EndTick /\ UNCHANGED <<campaigns, attempts>>
  <2>1. disp' \in Dispatchers /\ disp'.pc = "idle"
    BY <1>0, <1>3, SleepTyped DEF EndTick
  <2>. QED BY <1>0, <1>3, <2>1, WorkCalm, SameCampaignsCalm, QueuedOnlyCalm DEF Typed, TypeOK
<1>4. CASE \E c \in Head :
          /\ campaigns[c].state = "queued"
          /\ campaigns' = [campaigns EXCEPT ![c].state = "claimed", ![c].binding = disp.binding]
          /\ disp' = [disp EXCEPT !.pc = "choosing", !.claim = c]
          /\ UNCHANGED attempts
  <2>1. PICK c \in Head :
          /\ campaigns[c].state = "queued"
          /\ campaigns' = [campaigns EXCEPT ![c].state = "claimed", ![c].binding = disp.binding]
          /\ disp' = [disp EXCEPT !.pc = "choosing", !.claim = c]
          /\ UNCHANGED attempts
    BY <1>4
  <2>2. c \in Campaigns
    BY HeadOpen
  <2>3. disp' \in Dispatchers /\ disp'.pc = "choosing"
    BY <1>0, <2>1, <2>2 DEF Dispatch, Dispatchers, Pcs
  <2>4. \A x \in Campaigns : campaigns[x] \in Campaign
    BY RowsTyped
  <2>5. campaigns' \in [Campaigns -> Campaign]
    <3>1. [campaigns[c] EXCEPT !.state = "claimed", !.binding = disp.binding] \in Campaign
      BY <1>0, <2>2, <2>4 DEF Campaign, States, Active, Open
    <3>2. campaigns' = [campaigns EXCEPT ![c] =
                          [campaigns[c] EXCEPT !.state = "claimed", !.binding = disp.binding]]
      BY <2>1, <2>2 DEF Typed, TypeOK
    <3>. QED BY <2>2, <3>1, <3>2 DEF Typed, TypeOK
  <2>6. CampaignCalm
    BY <1>0, <2>1, <2>2, <2>4 DEF CampaignCalm, Campaign, Open, Fresh, Typed, TypeOK
  <2>. QED BY <1>0, <2>1, <2>3, <2>5, <2>6, WorkCalm, QueuedOnlyCalm DEF Typed, TypeOK
<1>. QED BY <1>1, <1>2, <1>3, <1>4 DEF ClaimCampaign

LEMMA FinishCampaignCalm ==
  ASSUME MailConstants, Typed, FinishCampaign
  PROVE  Typed' /\ Calm
<1>0. /\ UNCHANGED <<consent, policy, provider>> /\ phase' \in {"up", "down", "restarting"}
      /\ UNCHANGED attempts
      /\ disp \in Dispatch /\ disp.claim \in Campaigns
      /\ disp.turn \in {"confirmation", "article"} /\ disp.intent \in {None, "complete", "cancel"}
  BY DEF FinishCampaign, Typed, TypeOK, Dispatchers, Dispatch
<1>1. disp' \in Dispatchers /\ disp'.pc = "idle"
  BY <1>0, SleepTyped DEF FinishCampaign, EndTick
<1>2. CASE UNCHANGED campaigns
  BY <1>0, <1>1, <1>2, WorkCalm, SameCampaignsCalm, QueuedOnlyCalm DEF Typed, TypeOK
<1>3. CASE /\ Held.state = IF disp.intent = "cancel" THEN "cancelling" ELSE "claimed"
           /\ campaigns' = [campaigns EXCEPT ![disp.claim] =
                [Counted(disp.claim, IF Tally(disp.claim, {"unknown", "admitted"}) > 0 THEN "unknown"
                                     ELSE IF disp.intent = "cancel" THEN "cancelled" ELSE "completed")
                   EXCEPT !.intent = disp.intent]]
  <2>. DEFINE c == disp.claim
              s == IF Tally(c, {"unknown", "admitted"}) > 0 THEN "unknown"
                   ELSE IF disp.intent = "cancel" THEN "cancelled" ELSE "completed"
              row == [Counted(c, s) EXCEPT !.intent = disp.intent]
  <2>1. s \in {"unknown", "cancelled", "completed"} /\ s \in States
    BY DEF States
  <2>. HIDE DEF s
  <2>2. /\ Counted(c, s) \in Campaign /\ Counted(c, s).state = s
        /\ Counted(c, s).cutoff = campaigns[c].cutoff
    BY <1>0, <2>1, CountedTyped
  <2>3. row \in Campaign /\ row.state = s /\ row.cutoff = campaigns[c].cutoff
    <3>1. disp.intent \in {"none", "complete", "cancel"}
      BY DEF FinishCampaign, Typed, Dispatchers
    <3>. QED BY <2>2, <3>1 DEF Campaign
  <2>4. campaigns' = [campaigns EXCEPT ![c] = row]
    BY <1>3 DEF s
  <2>5. campaigns[c].state \in Open
    BY <1>3 DEF Held, Open
  <2>. HIDE DEF row
  <2>6. campaigns' \in [Campaigns -> Campaign]
    BY <2>3, <2>4 DEF Typed, TypeOK
  <2>7. \A x \in Campaigns : campaigns'[x] = IF x = c THEN row ELSE campaigns[x]
    BY <2>4 DEF Typed, TypeOK
  <2>8. CampaignCalm
    BY <2>1, <2>3, <2>5, <2>7 DEF CampaignCalm, Fresh, Open
  <2>. QED BY <1>0, <1>1, <2>6, <2>8, WorkCalm, QueuedOnlyCalm DEF Typed, TypeOK
<1>. QED BY <1>2, <1>3 DEF FinishCampaign

LEMMA RestartsCalm ==
  ASSUME MailConstants, Typed, Restart
  PROVE  Typed' /\ Calm
<1>0. disp \in Dispatchers
  BY DEF Typed
<1>1. CASE RestartCampaigns
  <2>1. /\ UNCHANGED <<consent, policy, provider, disp>> /\ phase' \in {"up", "down", "restarting"}
        /\ Interrupted(InState({"claimed", "cancelling"}))
    BY <1>1 DEF RestartCampaigns
  <2>2. \A c \in Campaigns \cap InState({"claimed", "cancelling"}) : campaigns[c].state \in Open
    BY DEF InState, Open
  <2>3. /\ campaigns' \in [Campaigns -> Campaign] /\ CampaignCalm
        /\ attempts' \in [Keys -> [outcome : Outcomes, tries : Nat]] /\ AttemptCalm
    BY <2>1, <2>2, InterruptedCalm
  <2>4. EnrollCalm /\ SuppressCalm /\ LettersCalm /\ UNCHANGED <<enroll, suppressed, sequence>>
    BY <2>1, SameLettersCalm, SameConsentCalm DEF consent
  <2>. QED BY <2>1, <2>3, <2>4 DEF Typed, TypeOK, Calm, provider, Live
<1>2. CASE RestartAttempts
  <2>1. /\ UNCHANGED <<consent, campaigns, provider, disp>> /\ phase' \in {"up", "down", "restarting"}
        /\ policy' = [policy EXCEPT !.ok = FALSE]
    BY <1>2 DEF RestartAttempts
  <2>2. ASSUME NEW k \in Keys
        PROVE  /\ attempts'[k] \in [outcome : Outcomes, tries : Nat]
               /\ attempts[k].outcome \in Tried => attempts'[k].outcome \in Tried
    <3>1. attempts[k] \in [outcome : Outcomes, tries : Nat]
      BY RowsTyped
    <3>2. attempts'[k] \in {attempts[k], [attempts[k] EXCEPT !.outcome = "unknown"]}
      BY <1>2 DEF RestartAttempts
    <3>. QED BY <3>1, <3>2 DEF Outcomes, Tried
  <2>3. attempts' \in [Keys -> [outcome : Outcomes, tries : Nat]] /\ AttemptCalm
    BY <1>2, <2>2, QueuedOnlyCalm DEF RestartAttempts
  <2>4. /\ EnrollCalm /\ SuppressCalm /\ LettersCalm /\ CampaignCalm
        /\ UNCHANGED <<enroll, suppressed, sequence>>
    BY <2>1, SameLettersCalm, SameConsentCalm, SameCampaignsCalm DEF consent
  <2>. QED BY <2>1, <2>3, <2>4 DEF Typed, TypeOK, Calm, provider, Live
<1>. QED BY <1>1, <1>2 DEF Restart

-----------------------------------------------------------------------------
(* A letter that ends before it could arrive: its attempt is closed or      *)
(* queued again, which is safe because it was the only one.                 *)

LEMMA FinishAttemptTyped ==
  ASSUME Typed, disp.key \in Keys, NEW o \in Outcomes, FinishAttempt(o)
  PROVE  /\ disp' \in Dispatchers /\ disp'.pc = "idle" /\ phase' \in {"up", "down", "restarting"}
         /\ attempts' \in [Keys -> [outcome : Outcomes, tries : Nat]]
         /\ \A k \in Keys : \/ attempts'[k] = attempts[k]
                            \/ /\ k = disp.key /\ attempts[k].outcome = "admitted"
                               /\ attempts'[k].outcome = o
<1>0. disp \in Dispatch /\ disp.claim \in Campaigns \cup {None}
      /\ disp.turn \in {"confirmation", "article"}
  BY DEF Typed, Dispatchers, Dispatch
<1>1. disp' \in Dispatchers /\ disp'.pc = "idle" /\ phase' \in {"up", "down", "restarting"}
  BY <1>0, StopCalm, SleepTyped DEF FinishAttempt, Typed, TypeOK
<1>2. /\ attempts' \in [Keys -> [outcome : Outcomes, tries : Nat]]
      /\ \A k \in Keys : \/ attempts'[k] = attempts[k]
                         \/ /\ k = disp.key /\ attempts[k].outcome = "admitted"
                            /\ attempts'[k].outcome = o
  <2>1. CASE attempts' = attempts
    BY <2>1 DEF Typed, TypeOK
  <2>2. CASE attempts[disp.key].outcome = "admitted"
             /\ attempts' = [attempts EXCEPT ![disp.key].outcome = o]
    <3>1. \A k \in Keys : attempts[k] \in [outcome : Outcomes, tries : Nat]
      BY RowsTyped
    <3>. QED BY <2>2, <3>1 DEF Typed, TypeOK
  <2>. QED BY <2>1, <2>2 DEF FinishAttempt
<1>. QED BY <1>1, <1>2

LEMMA RefusedCalm ==
  ASSUME Typed, Once, disp.pc = "sending", FinishAttempt("rejected"),
         UNCHANGED <<consent, policy, campaigns, provider>>
  PROVE  Typed' /\ Calm
<1>0. disp.key \in Keys /\ "rejected" \in Outcomes
  BY DEF Typed, Dispatchers, Outcomes
<1>1. /\ disp' \in Dispatchers /\ disp'.pc = "idle" /\ phase' \in {"up", "down", "restarting"}
      /\ attempts' \in [Keys -> [outcome : Outcomes, tries : Nat]]
      /\ \A k \in Keys : k # disp.key => attempts'[k] = attempts[k]
  BY <1>0, FinishAttemptTyped
<1>2. AttemptCalm
  <2>. SUFFICES ASSUME NEW i \in Enrollments, NEW c \in Campaigns, Sent(<<i, c>>)',
                       attempts[<<i, c>>].outcome \in Tried
                PROVE  attempts'[<<i, c>>].outcome \in Tried
    BY DEF AttemptCalm
  <2>1. PICK l \in Flying : l[1] = <<i, c>>
    BY <1>1 DEF Sent, Permit, Flying, provider
  <2>2. disp.key \in Permit
    BY DEF Permit
  <2>3. <<i, c>> # disp.key
    BY <2>1, <2>2 DEF Once
  <2>4. <<i, c>> \in Keys
    BY DEF Keys, Kinds
  <2>. QED BY <1>1, <2>3, <2>4
<1>. QED BY <1>1, <1>2, WorkCalm, SameCampaignsCalm DEF Typed, TypeOK

LEMMA AnswerCalm ==
  ASSUME Typed, Once, NEW o \in {"accepted", "rejected", "queued", "unknown"}, Answer(o)
  PROVE  Typed' /\ Calm
<1>0. /\ disp.key \in Keys /\ o \in Outcomes /\ FinishAttempt(o)
      /\ UNCHANGED <<consent, policy, campaigns, delivered>>
      /\ disp.pc = "waiting"
  BY DEF Answer, Typed, Dispatchers, Outcomes
<1>1. /\ disp' \in Dispatchers /\ disp'.pc = "idle" /\ phase' \in {"up", "down", "restarting"}
      /\ attempts' \in [Keys -> [outcome : Outcomes, tries : Nat]]
      /\ \A k \in Keys : \/ attempts'[k] = attempts[k]
                         \/ k = disp.key /\ attempts'[k].outcome = o
  BY <1>0, FinishAttemptTyped
<1>2. \/ o \in Tried /\ wire' = wire
      \/ Letter(disp.key) \in wire /\ wire' = wire \ {Letter(disp.key)}
  BY DEF Answer, Tried
<1>3. LettersCalm
  BY <1>0, <1>1, <1>2 DEF LettersCalm, Permit
<1>4. AttemptCalm
  <2>. SUFFICES ASSUME NEW i \in Enrollments, NEW c \in Campaigns, Sent(<<i, c>>)',
                       attempts[<<i, c>>].outcome \in Tried
                PROVE  attempts'[<<i, c>>].outcome \in Tried
    BY DEF AttemptCalm
  <2>0. <<i, c>> \in Keys
    BY DEF Keys, Kinds
  <2>1. CASE o \in Tried
    BY <1>1, <2>0, <2>1
  <2>2. CASE Letter(disp.key) \in wire /\ wire' = wire \ {Letter(disp.key)}
    <3>1. PICK l \in wire' \cup delivered' : l[1] = <<i, c>>
      BY <1>1 DEF Sent, Permit, Flying
    <3>2. l \in Flying /\ (l = Letter(disp.key) => l \in wire \cap delivered)
      BY <1>0, <2>2, <3>1 DEF Flying
    <3>3. l # Letter(disp.key)
      BY <3>1, <3>2 DEF Once
    <3>4. Letter(disp.key) \in Flying /\ Letter(disp.key)[1] = disp.key
      BY <2>2 DEF Flying, Letter
    <3>5. <<i, c>> # disp.key
      BY <3>1, <3>2, <3>3, <3>4 DEF Once
    <3>. QED BY <1>1, <2>0, <3>5
  <2>. QED BY <1>2, <2>1, <2>2
<1>5. EnrollCalm /\ SuppressCalm /\ CampaignCalm /\ UNCHANGED <<enroll, suppressed, sequence>>
  BY <1>0, SameConsentCalm, SameCampaignsCalm DEF consent
<1>6. disp'.claim \in Campaigns \cup {None} /\ disp'.key \in Keys \cup {None}
  BY <1>1 DEF Dispatchers, Dispatch
<1>7. wire' \subseteq Letters
  BY <1>2 DEF Typed, TypeOK
<1>. QED BY <1>0, <1>1, <1>3, <1>4, <1>5, <1>6, <1>7 DEF Typed, TypeOK, Calm, Live

-----------------------------------------------------------------------------
(* The steps that are not calm: a request makes the mailbox's enrollment,   *)
(* which has no letters yet; ...                                            *)

LEMMA RequestKeeps ==
  ASSUME MailConstants, Typed, Consented, Once, NEW m \in Mailboxes, NEW i \in Enrollments,
         RequestEnrollment(m, i)
  PROVE  Typed' /\ Consented' /\ Once'
<1>. DEFINE S == Addressed(m)
            new == [state |-> "pending", mailbox |-> m, binding |-> policy.binding, sequence |-> 0]
            key == <<i, Confirmation>>
<1>0. /\ m \notin suppressed /\ enroll[i].state = "none"
      /\ enroll' = [RemovedIn(S) EXCEPT ![i] = new]
      /\ attempts' = [CancelledIn(S) EXCEPT ![key] = [outcome |-> "queued", tries |-> 0]]
      /\ UNCHANGED <<suppressed, sequence, policy, campaigns, provider, disp, phase>>
  BY DEF RequestEnrollment
<1>1. S \in SUBSET Enrollments /\ key \in Keys /\ new \in Enrollment /\ i \notin S
  BY <1>0 DEF Addressed, Live, Keys, Kinds, Enrollment, Typed, TypeOK
<1>2. /\ RemovedIn(S) \in [Enrollments -> Enrollment]
      /\ CancelledIn(S) \in [Keys -> [outcome : Outcomes, tries : Nat]]
      /\ \A j \in Enrollments :
           RemovedIn(S)[j] = IF j \in S THEN [enroll[j] EXCEPT !.state = "removed"] ELSE enroll[j]
      /\ \A k \in Keys : \/ CancelledIn(S)[k] = attempts[k]
                         \/ attempts[k].outcome = "queued" /\ CancelledIn(S)[k].outcome = "cancelled"
  BY <1>1, RemoveCalm
<1>. HIDE DEF new, key, S
<1>3. ASSUME NEW j \in Enrollments, j # i
      PROVE  /\ enroll'[j] = IF j \in S THEN [enroll[j] EXCEPT !.state = "removed"] ELSE enroll[j]
             /\ enroll'[j].mailbox = enroll[j].mailbox
             /\ enroll'[j].state = IF j \in S THEN "removed" ELSE enroll[j].state
             /\ j \notin S => enroll'[j] = enroll[j]
  <2>1. enroll'[j] = IF j \in S THEN [enroll[j] EXCEPT !.state = "removed"] ELSE enroll[j]
    BY <1>0, <1>2, <1>3
  <2>. QED BY <2>1, RowsTyped DEF Enrollment
<1>4. enroll'[i] = new /\ enroll' \in [Enrollments -> Enrollment]
  BY <1>0, <1>1, <1>2
<1>5. /\ attempts' \in [Keys -> [outcome : Outcomes, tries : Nat]]
      /\ \A j \in Enrollments, c \in Campaigns :
           attempts[<<j, c>>].outcome \in Tried => attempts'[<<j, c>>].outcome \in Tried
  <2>1. attempts' \in [Keys -> [outcome : Outcomes, tries : Nat]]
    BY <1>0, <1>1, <1>2 DEF Outcomes
  <2>2. ASSUME NEW j \in Enrollments, NEW c \in Campaigns, attempts[<<j, c>>].outcome \in Tried
        PROVE  attempts'[<<j, c>>].outcome \in Tried
    <3>1. <<j, c>> \in Keys
      BY DEF Keys, Kinds
    <3>2. CASE <<j, c>> = key
      BY <1>0, <1>1, <1>2, <2>2, <3>2 DEF key
    <3>3. CASE <<j, c>> # key
      <4>1. attempts'[<<j, c>>] = CancelledIn(S)[<<j, c>>]
        BY <1>0, <1>2, <3>1, <3>3
      <4>. QED BY <1>2, <2>2, <3>1, <4>1 DEF Tried
    <3>. QED BY <3>2, <3>3
  <2>. QED BY <2>1, <2>2
<1>6. Live(i)' /\ enroll'[i].mailbox = m /\ enroll'[i].state = "pending"
  BY <1>4 DEF new, Live
<1>7. ASSUME NEW j \in Enrollments, j # i, Live(j)'
      PROVE  Live(j) /\ enroll'[j] = enroll[j] /\ enroll[j].mailbox # m
  BY <1>3, <1>7 DEF Live, Addressed, S
<1>8. Typed'
  <2>1. \A j \in Enrollments : Live(j)' => enroll'[j].mailbox \in Mailboxes
    BY <1>6, <1>7 DEF Typed
  <2>. QED BY <1>0, <1>4, <1>5, <2>1 DEF Typed, TypeOK, provider
<1>9. Consented'
  <2>1. ASSUME NEW x \in Mailboxes, NEW j \in Addressed(x)', NEW h \in Addressed(x)'
        PROVE  j = h
    <3>1. /\ j \in Enrollments /\ Live(j)' /\ enroll'[j].mailbox = x
          /\ h \in Enrollments /\ Live(h)' /\ enroll'[h].mailbox = x
      BY DEF Addressed, Live
    <3>2. CASE j = i \/ h = i
      BY <1>6, <1>7, <3>1, <3>2
    <3>3. CASE j # i /\ h # i
      <4>1. j \in Addressed(x) /\ h \in Addressed(x)
        BY <1>7, <3>1, <3>3 DEF Addressed
      <4>. QED BY <4>1 DEF Consented, LiveConsent
    <3>. QED BY <3>2, <3>3
  <2>2. ASSUME NEW x \in suppressed'  PROVE Addressed(x)' = {}
    <3>1. x \in suppressed /\ x # m /\ Addressed(x) = {}
      BY <1>0 DEF Consented, LiveConsent
    <3>2. ASSUME NEW j \in Addressed(x)'  PROVE FALSE
      <4>1. j \in Enrollments /\ Live(j)' /\ enroll'[j].mailbox = x
        BY DEF Addressed, Live
      <4>. QED BY <1>6, <1>7, <3>1, <4>1 DEF Addressed
    <3>. QED BY <3>2
  <2>3. \A j \in Enrollments : enroll'[j].state = "active" => j # i /\ enroll'[j] = enroll[j]
    BY <1>6, <1>7 DEF Live
  <2>4. \A j, h \in Enrollments :
          enroll'[j].state = "active" /\ enroll'[h].state = "active" /\ j # h
            => enroll'[j].sequence # enroll'[h].sequence
    BY <2>3 DEF Consented, LiveConsent
  <2>5. \A j \in Enrollments : enroll'[j].state = "active" => enroll'[j].sequence <= sequence'
    BY <1>0, <2>3 DEF Consented
  <2>6. \A c \in Campaigns : campaigns'[c].cutoff <= sequence'
    BY <1>0 DEF Consented, LiveConsent
  <2>. QED BY <2>1, <2>2, <2>4, <2>5, <2>6 DEF Consented, LiveConsent
<1>10. Once'
  <2>1. wire' = wire /\ delivered' = delivered /\ Permit' = Permit /\ Flying' = Flying
    BY <1>0 DEF provider, Permit, Flying
  <2>2. \A k : Sent(k)' <=> Sent(k)
    BY <2>1 DEF Sent
  <2>3. \A c \in Campaigns : ~Sent(<<i, c>>)
    BY <1>0 DEF Once
  <2>4. ASSUME NEW j \in Enrollments, NEW c \in Campaigns, Sent(<<j, c>>)
        PROVE  /\ j # i /\ enroll'[j].state # "none" /\ enroll'[j].mailbox = enroll[j].mailbox
               /\ campaigns'[c].state \notin Fresh
               /\ campaigns'[c].state \in Open => attempts'[<<j, c>>].outcome \in Tried
               /\ \A h \in Enrollments : enroll'[h].state = "active" /\ h # j /\ Same(j, h)'
                    => enroll'[h].sequence > campaigns'[c].cutoff
    <3>1. j # i
      BY <2>3, <2>4
    <3>2. /\ enroll[j].state # "none" /\ campaigns[c].state \notin Fresh
          /\ campaigns[c].state \in Open => attempts[<<j, c>>].outcome \in Tried
      BY <2>4 DEF Once
    <3>3. enroll'[j].state # "none" /\ enroll'[j].mailbox = enroll[j].mailbox
      BY <1>3, <3>1, <3>2
    <3>4. ASSUME NEW h \in Enrollments, enroll'[h].state = "active", h # j, Same(j, h)'
          PROVE  enroll'[h].sequence > campaigns'[c].cutoff
      <4>1. h # i /\ enroll'[h] = enroll[h]
        BY <1>6, <1>7, <3>4 DEF Live
      <4>. QED BY <1>0, <2>4, <3>3, <3>4, <4>1 DEF Once, Same
    <3>. QED BY <1>0, <1>5, <3>1, <3>2, <3>3, <3>4
  <2>5. ASSUME NEW j \in Enrollments, NEW h \in Enrollments, NEW c \in Campaigns,
               Sent(<<j, c>>), Sent(<<h, c>>), Same(j, h)'
        PROVE  j = h
    BY <2>4, <2>5 DEF Once, Same
  <2>. QED BY <2>1, <2>2, <2>4, <2>5 DEF Once
<1>. QED BY <1>8, <1>9, <1>10

(* ... a confirmation comes after every audience approved so far; ...       *)
LEMMA ConfirmKeeps ==
  ASSUME Typed, Consented, Once, NEW i \in Enrollments, ConfirmEnrollment(i)
  PROVE  Typed' /\ Consented' /\ Once'
<1>0. /\ enroll[i].state = "pending" /\ enroll[i].mailbox \notin suppressed
      /\ sequence' = sequence + 1
      /\ enroll' = [enroll EXCEPT ![i].state = "active", ![i].sequence = sequence + 1]
      /\ UNCHANGED <<attempts, suppressed, policy, campaigns, provider, disp, phase>>
  BY DEF ConfirmEnrollment
<1>1. sequence \in Nat /\ enroll[i] \in Enrollment /\ enroll \in [Enrollments -> Enrollment]
  BY DEF Typed, TypeOK
<1>2. /\ enroll' \in [Enrollments -> Enrollment]
      /\ enroll'[i].state = "active" /\ enroll'[i].sequence = sequence + 1
      /\ enroll'[i].mailbox = enroll[i].mailbox
      /\ \A j \in Enrollments : j # i => enroll'[j] = enroll[j]
  <2>. DEFINE row == [enroll[i] EXCEPT !.state = "active", !.sequence = sequence + 1]
  <2>0. sequence + 1 \in Nat
    BY <1>1
  <2>1. /\ row \in Enrollment /\ row.state = "active" /\ row.sequence = sequence + 1
        /\ row.mailbox = enroll[i].mailbox
    BY <1>1, <2>0 DEF Enrollment
  <2>2. enroll' = [enroll EXCEPT ![i] = row]
    BY <1>0, <1>1
  <2>. HIDE DEF row
  <2>. QED BY <1>1, <2>1, <2>2
<1>3. \A j \in Enrollments : Live(j)' <=> Live(j)
  BY <1>0, <1>2 DEF Live
<1>4. \A j \in Enrollments : enroll'[j].mailbox = enroll[j].mailbox
  BY <1>2
<1>5. \A x : Addressed(x)' = Addressed(x)
  BY <1>3, <1>4 DEF Addressed
<1>6. Typed'
  <2>1. \A j \in Enrollments : Live(j)' => enroll'[j].mailbox \in Mailboxes
    BY <1>3, <1>4 DEF Typed
  <2>. QED BY <1>0, <1>1, <1>2, <2>1 DEF Typed, TypeOK, provider
<1>7. \A c \in Campaigns : campaigns[c].cutoff \in Nat /\ campaigns[c].cutoff <= sequence
  BY RowsTyped DEF Consented, LiveConsent, Campaign
<1>8. Consented'
  <2>1. \A j \in Enrollments : j # i /\ enroll'[j].state = "active" =>
          enroll'[j].sequence \in Nat /\ enroll'[j].sequence <= sequence
    BY <1>2, RowsTyped DEF Consented, Enrollment
  <2>2. \A j, h \in Enrollments :
          enroll'[j].state = "active" /\ enroll'[h].state = "active" /\ j # h
            => enroll'[j].sequence # enroll'[h].sequence
    <3>1. \A j, h \in Enrollments : j # i /\ h # i /\
          enroll'[j].state = "active" /\ enroll'[h].state = "active" /\ j # h
            => enroll'[j].sequence # enroll'[h].sequence
      BY <1>2 DEF Consented, LiveConsent
    <3>. QED BY <1>1, <1>2, <2>1, <3>1
  <2>3. \A j \in Enrollments : enroll'[j].state = "active" => enroll'[j].sequence <= sequence'
    BY <1>0, <1>1, <1>2, <2>1
  <2>4. \A c \in Campaigns : campaigns'[c].cutoff <= sequence'
    BY <1>0, <1>1, <1>7
  <2>5. \A x \in Mailboxes : \A j, h \in Addressed(x)' : j = h
    BY <1>5 DEF Consented, LiveConsent
  <2>6. \A x \in suppressed' : Addressed(x)' = {}
    BY <1>0, <1>5 DEF Consented, LiveConsent
  <2>. QED BY <2>2, <2>3, <2>4, <2>5, <2>6 DEF Consented, LiveConsent
<1>9. Once'
  <2>1. wire' = wire /\ delivered' = delivered /\ Permit' = Permit /\ Flying' = Flying
    BY <1>0 DEF provider, Permit, Flying
  <2>2. \A k : Sent(k)' <=> Sent(k)
    BY <2>1 DEF Sent
  <2>3. \A j, h \in Enrollments : Same(j, h)' <=> Same(j, h)
    BY <1>4 DEF Same
  <2>4. ASSUME NEW j \in Enrollments, NEW c \in Campaigns, Sent(<<j, c>>)
        PROVE  /\ enroll'[j].state # "none"
               /\ campaigns'[c].state \notin Fresh
               /\ campaigns'[c].state \in Open => attempts'[<<j, c>>].outcome \in Tried
               /\ \A h \in Enrollments : enroll'[h].state = "active" /\ h # j /\ Same(j, h)'
                    => enroll'[h].sequence > campaigns'[c].cutoff
    <3>1. /\ enroll[j].state # "none" /\ campaigns[c].state \notin Fresh
          /\ campaigns[c].state \in Open => attempts[<<j, c>>].outcome \in Tried
      BY <2>4 DEF Once
    <3>2. ASSUME NEW h \in Enrollments, enroll'[h].state = "active", h # j, Same(j, h)'
          PROVE  enroll'[h].sequence > campaigns'[c].cutoff
      <4>1. CASE h = i
        BY <1>0, <1>1, <1>2, <1>7, <4>1
      <4>2. CASE h # i
        BY <1>0, <1>2, <2>3, <2>4, <3>2, <4>2 DEF Once
      <4>. QED BY <4>1, <4>2
    <3>. QED BY <1>0, <1>2, <3>1, <3>2
  <2>5. \A j, h \in Enrollments, c \in Campaigns :
          Sent(<<j, c>>) /\ Sent(<<h, c>>) /\ Same(j, h)' => j = h
    BY <2>3 DEF Once
  <2>. QED BY <2>1, <2>2, <2>4, <2>5 DEF Once
<1>. QED BY <1>6, <1>8, <1>9

(* ... and a letter goes from its admission to the provider and from there  *)
(* to the mailbox.                                                          *)

Dispatching == UNCHANGED <<consent, policy, campaigns, phase>>

LEMMA DispatchingKeepsConsented ==
  ASSUME Consented, UNCHANGED <<consent, campaigns>>
  PROVE  Consented'
BY DEF Consented, LiveConsent, consent, Addressed, Live

LEMMA AdmittedTyped ==
  ASSUME Typed, NEW k \in Keys, attempts' = Admitted(k)
  PROVE  /\ attempts' \in [Keys -> [outcome : Outcomes, tries : Nat]]
         /\ attempts'[k].outcome = "admitted"
         /\ \A q \in Keys : q # k => attempts'[q] = attempts[q]
<1>1. attempts[k].tries + 1 \in Nat
  BY RowsTyped
<1>. QED BY <1>1 DEF Admitted, Typed, TypeOK, Outcomes

LEMMA AdmitConfirmationKeeps ==
  ASSUME MailConstants, Typed, Consented, Once, AdmitConfirmation
  PROVE  Typed' /\ Consented' /\ Once'
<1>0. /\ UNCHANGED <<consent, policy, campaigns, provider, phase>>
      /\ disp.key \in Keys /\ disp \in Dispatch /\ disp.key[2] = Confirmation
      /\ disp.claim \in Campaigns \cup {None} /\ disp.turn \in {"confirmation", "article"}
      /\ disp.pc = "admitting" /\ phase \in {"up", "down", "restarting"}
  BY DEF AdmitConfirmation, Typed, TypeOK, Dispatchers, Dispatch
<1>1. CASE UNCHANGED attempts
  <2>1. disp' \in Dispatchers /\ disp'.pc # "sending"
    <3>1. CASE EndTick
      BY <1>0, <3>1, SleepTyped DEF EndTick
    <3>2. CASE disp.claim # None /\ disp' = [disp EXCEPT !.pc = "article", !.key = None]
      BY <1>0, <3>2 DEF Dispatchers, Dispatch, Pcs
    <3>3. CASE attempts' = Admitted(disp.key) /\ attempts[disp.key].outcome = "queued"
      <4>1. attempts'[disp.key].outcome = "admitted"
        BY <1>0, <3>3, AdmittedTyped
      <4>. QED BY <1>1, <3>3, <4>1
    <3>. QED BY <3>1, <3>2, <3>3 DEF AdmitConfirmation
  <2>2. Typed' /\ Calm
    BY <1>0, <1>1, <2>1, WorkCalm, SameCampaignsCalm, QueuedOnlyCalm DEF Typed, TypeOK
  <2>. QED BY <2>2, CalmKeepsConsented, CalmKeepsOnce
<1>2. CASE attempts' = Admitted(disp.key) /\ Goto("sending") /\ attempts[disp.key].outcome = "queued"
  <2>1. /\ disp' \in Dispatchers /\ disp'.pc = "sending" /\ disp'.key = disp.key
        /\ disp'.claim \in Campaigns \cup {None}
    BY <1>0, <1>2, GotoTyped DEF Pcs
  <2>2. /\ attempts' \in [Keys -> [outcome : Outcomes, tries : Nat]]
        /\ \A q \in Keys : q # disp.key => attempts'[q] = attempts[q]
    BY <1>0, <1>2, AdmittedTyped
  <2>3. Typed'
    BY <1>0, <2>1, <2>2 DEF Typed, TypeOK, consent, provider, Live
  <2>4. \A i \in Enrollments, c \in Campaigns :
          /\ <<i, c>> \in Keys /\ <<i, c>> # disp.key /\ <<i, c>> \notin Permit
          /\ <<i, c>> \notin Permit'
    BY <1>0, <2>1 DEF Keys, Kinds, Permit, MailConstants
  <2>5. \A i \in Enrollments, c \in Campaigns : Sent(<<i, c>>)' <=> Sent(<<i, c>>)
    BY <1>0, <2>4 DEF Sent, Flying, provider
  <2>6. Flying' = Flying /\ wire' = wire /\ delivered' = delivered
        /\ \A l \in Flying : l[1] \in Permit' => l[1][2] \notin Campaigns
    BY <1>0, <2>1 DEF Flying, provider, Permit, MailConstants
  <2>7. enroll' = enroll /\ campaigns' = campaigns
    BY <1>0 DEF consent
  <2>8. Once'
    BY <2>2, <2>4, <2>5, <2>6, <2>7 DEF Once, Same
  <2>. QED BY <1>0, <2>3, <2>8, DispatchingKeepsConsented
<1>. QED BY <1>1, <1>2 DEF AdmitConfirmation

(* admit_campaign_recipient: nobody else has or had the mailbox's letter of *)
(* this campaign.                                                           *)
LEMMA AdmitAlone ==
  ASSUME Typed, Consented, Once, NEW i \in Enrollments, NEW c \in Campaigns,
         i \in Recipients(c), campaigns[c].state = "claimed"
  PROVE  \A j \in Enrollments : Same(i, j) => ~Sent(<<j, c>>)
<1>0. /\ enroll[i].state = "active" /\ enroll[i].sequence <= campaigns[c].cutoff
      /\ attempts[<<i, c>>].outcome \in {"absent", "queued"}
      /\ enroll[i].sequence \in Nat /\ campaigns[c].cutoff \in Nat
  BY RowsTyped DEF Recipients, InAudience, Enrollment, Campaign
<1>1. SUFFICES ASSUME NEW j \in Enrollments, Same(i, j), Sent(<<j, c>>)
               PROVE  FALSE
  OBVIOUS
<1>2. CASE j = i
  BY <1>0, <1>1, <1>2 DEF Once, Open, Tried
<1>3. CASE j # i
  <2>1. enroll[i].sequence > campaigns[c].cutoff
    BY <1>0, <1>1, <1>3 DEF Once, Same
  <2>. QED BY <1>0, <2>1
<1>. QED BY <1>2, <1>3

LEMMA AdmitRecipientKeeps ==
  ASSUME MailConstants, Typed, Consented, Once, AdmitRecipient
  PROVE  Typed' /\ Consented' /\ Once'
<1>0. /\ UNCHANGED <<consent, policy, campaigns, provider, phase>>
      /\ disp.key \in Keys /\ disp \in Dispatch /\ disp.key[2] # Confirmation
      /\ disp.claim \in Campaigns \cup {None} /\ disp.turn \in {"confirmation", "article"}
      /\ disp.pc = "admitting" /\ phase \in {"up", "down", "restarting"}
  BY DEF AdmitRecipient, Typed, TypeOK, Dispatchers, Dispatch
<1>. DEFINE i == disp.key[1]
            c == disp.key[2]
<1>1. i \in Enrollments /\ c \in Campaigns /\ disp.key = <<i, c>>
  BY <1>0 DEF Keys, Kinds
<1>2. CASE UNCHANGED attempts /\ (EndTick \/ Sleep(Retained, disp.turn))
  <2>0. Retained \in Campaigns \cup {None}
    BY <1>0 DEF Retained
  <2>1. disp' \in Dispatchers /\ disp'.pc # "sending"
    BY <1>0, <1>2, <2>0, SleepTyped DEF EndTick
  <2>2. Typed' /\ Calm
    BY <1>0, <1>2, <2>1, WorkCalm, SameCampaignsCalm, QueuedOnlyCalm DEF Typed, TypeOK
  <2>. QED BY <2>2, CalmKeepsConsented, CalmKeepsOnce
<1>3. CASE /\ attempts' = Admitted(disp.key) /\ Goto("sending")
           /\ i \in Recipients(c) /\ campaigns[c].state = "claimed"
  <2>1. /\ disp' \in Dispatchers /\ disp'.pc = "sending" /\ disp'.key = disp.key
        /\ disp'.claim \in Campaigns \cup {None}
    BY <1>0, <1>3, GotoTyped DEF Pcs
  <2>2. /\ attempts' \in [Keys -> [outcome : Outcomes, tries : Nat]]
        /\ attempts'[disp.key].outcome = "admitted"
        /\ \A q \in Keys : q # disp.key => attempts'[q] = attempts[q]
    BY <1>0, <1>3, AdmittedTyped
  <2>3. Typed'
    BY <1>0, <2>1, <2>2 DEF Typed, TypeOK, consent, provider, Live
  <2>4. \A j \in Enrollments : Same(i, j) => ~Sent(<<j, c>>)
    BY <1>1, <1>3, AdmitAlone
  <2>5. /\ Permit = {} /\ Permit' = {disp.key} /\ Flying' = Flying
        /\ wire' = wire /\ delivered' = delivered /\ enroll' = enroll /\ campaigns' = campaigns
    BY <1>0, <2>1 DEF Permit, Flying, provider, consent
  <2>6. \A k : Sent(k)' <=> Sent(k) \/ k = disp.key
    BY <2>5 DEF Sent
  <2>7. ~Sent(disp.key)
    BY <1>1, <2>4 DEF Same
  <2>. HIDE DEF i, c
  <2>8. ASSUME NEW j \in Enrollments, NEW x \in Campaigns, Sent(<<j, x>>)'
        PROVE  /\ enroll[j].state # "none"
               /\ campaigns[x].state \notin Fresh
               /\ campaigns[x].state \in Open => attempts'[<<j, x>>].outcome \in Tried
               /\ \A h \in Enrollments : enroll[h].state = "active" /\ h # j /\ Same(j, h)
                    => enroll[h].sequence > campaigns[x].cutoff
    <3>1. CASE Sent(<<j, x>>)
      <4>1. <<j, x>> # disp.key /\ <<j, x>> \in Keys
        BY <2>7, <3>1 DEF Keys, Kinds
      <4>2. attempts'[<<j, x>>] = attempts[<<j, x>>]
        BY <2>2, <4>1
      <4>. QED BY <3>1, <4>2 DEF Once
    <3>2. CASE <<j, x>> = disp.key
      <4>1. j = i /\ x = c
        BY <1>1, <3>2
      <4>2. enroll[i].state = "active" /\ enroll[i].mailbox \in Mailboxes
        BY <1>1, <1>3 DEF Recipients, InAudience, Typed, Live
      <4>3. ASSUME NEW h \in Enrollments, enroll[h].state = "active", h # i, Same(i, h)
            PROVE  FALSE
        <5>1. i \in Addressed(enroll[i].mailbox) /\ h \in Addressed(enroll[i].mailbox)
          BY <1>1, <4>2, <4>3 DEF Addressed, Live, Same
        <5>. QED BY <4>2, <4>3, <5>1 DEF Consented, LiveConsent
      <4>. QED BY <1>3, <2>2, <3>2, <4>1, <4>2, <4>3 DEF Fresh, Tried
    <3>. QED BY <2>6, <2>8, <3>1, <3>2
  <2>9. ASSUME NEW j \in Enrollments, NEW h \in Enrollments, NEW x \in Campaigns,
               Sent(<<j, x>>)', Sent(<<h, x>>)', Same(j, h)
        PROVE  j = h
    <3>1. CASE Sent(<<j, x>>) /\ Sent(<<h, x>>)
      BY <2>9, <3>1 DEF Once
    <3>2. CASE <<j, x>> = disp.key
      BY <1>1, <2>4, <2>6, <2>9, <3>2
    <3>3. CASE <<h, x>> = disp.key
      BY <1>1, <2>4, <2>6, <2>9, <3>3 DEF Same
    <3>. QED BY <2>6, <2>9, <3>1, <3>2, <3>3
  <2>10. \A l \in Flying : l[1] # disp.key
    BY <2>7 DEF Sent
  <2>11. Once'
    BY <2>5, <2>8, <2>9, <2>10 DEF Once, Same
  <2>. QED BY <1>0, <2>3, <2>11, DispatchingKeepsConsented
<1>. QED BY <1>2, <1>3 DEF AdmitRecipient, Valid

LEMMA SubmitKeeps ==
  ASSUME MailConstants, Typed, Consented, Once, Submit
  PROVE  Typed' /\ Consented' /\ Once'
<1>0. /\ UNCHANGED <<consent, policy, campaigns, delivered, budget>>
      /\ disp.pc = "sending" /\ disp.key \in Keys /\ disp \in Dispatch
      /\ disp.claim \in Campaigns \cup {None} /\ phase \in {"up", "down", "restarting"}
  BY DEF Submit, Typed, TypeOK, Dispatchers, Dispatch
<1>1. CASE FinishAttempt("rejected") /\ UNCHANGED wire
  <2>1. Typed' /\ Calm
    BY <1>0, <1>1, RefusedCalm DEF provider
  <2>. QED BY <2>1, CalmKeepsConsented, CalmKeepsOnce
<1>2. CASE /\ wire' = wire \cup {Letter(disp.key)}
           /\ Goto("waiting") /\ UNCHANGED <<attempts, phase>>
  <2>1. /\ disp' \in Dispatchers /\ disp'.pc = "waiting"
        /\ disp'.claim \in Campaigns \cup {None} /\ disp'.key \in Keys \cup {None}
    BY <1>0, <1>2, GotoTyped DEF Pcs
  <2>2. Letter(disp.key) \in Letters /\ Letter(disp.key)[1] = disp.key
    BY <1>0, RowsTyped DEF Letter, Letters
  <2>3. Typed'
    BY <1>0, <1>2, <2>1, <2>2 DEF Typed, TypeOK, consent, Live
  <2>4. /\ Permit = {disp.key} /\ Permit' = {} /\ Flying' = Flying \cup {Letter(disp.key)}
        /\ delivered' = delivered /\ enroll' = enroll /\ campaigns' = campaigns
    BY <1>0, <1>2, <2>1 DEF Permit, Flying, consent
  <2>5. \A k : Sent(k)' <=> Sent(k)
    BY <2>2, <2>4 DEF Sent
  <2>6. \A l \in Flying : l[1] = disp.key => l[1][2] \notin Campaigns
    BY <2>4 DEF Once
  <2>7. \A l, n \in Flying' : l[1][2] \in Campaigns /\ l[1] = n[1] => l = n
    BY <2>2, <2>4, <2>6 DEF Once
  <2>8. \A l \in wire' \cap delivered' : l[1][2] \notin Campaigns
    BY <1>2, <2>2, <2>4, <2>6 DEF Once, Flying
  <2>9. Once'
    BY <1>2, <2>4, <2>5, <2>7, <2>8 DEF Once, Same
  <2>. QED BY <1>0, <2>3, <2>9, DispatchingKeepsConsented
<1>. QED BY <1>1, <1>2 DEF Submit

LEMMA AcceptKeeps ==
  ASSUME Typed, Consented, Once, NEW l \in wire, ProviderAccepts(l)
  PROVE  Typed' /\ Consented' /\ Once'
<1>0. /\ wire' = wire \ {l} /\ delivered' = delivered \cup {l}
      /\ UNCHANGED <<consent, attempts, policy, campaigns, disp, phase>>
  BY DEF ProviderAccepts, tables
<1>1. /\ Flying' = Flying /\ Permit' = Permit /\ enroll' = enroll /\ campaigns' = campaigns
      /\ attempts' = attempts
  BY <1>0 DEF Flying, Permit, consent
<1>2. \A k : Sent(k)' <=> Sent(k)
  BY <1>1 DEF Sent
<1>3. Typed'
  BY <1>0 DEF Typed, TypeOK, consent, Live
<1>4. \A n \in wire' \cap delivered' : n[1][2] \notin Campaigns
  BY <1>0 DEF Once
<1>5. Once'
  BY <1>1, <1>2, <1>4 DEF Once, Same
<1>. QED BY <1>0, <1>3, <1>5, DispatchingKeepsConsented

-----------------------------------------------------------------------------
Inv == Typed /\ Consented /\ Once

LEMMA InitInv == MailConstants /\ Init => Inv
<1>. SUFFICES ASSUME MailConstants, Init PROVE Inv
  OBVIOUS
<1>1. Typed
  <2>1. Idle \in Dispatchers /\ Idle.claim = None /\ Idle.key = None
    BY DEF Idle, Dispatchers, Dispatch, Pcs
  <2>2. Configured \in Bindings
    BY DEF Configured, MailConstants
  <2>3. enroll \in [Enrollments -> Enrollment] /\ \A i \in Enrollments : ~Live(i)
    BY DEF Init, Enrollment, Live
  <2>4. attempts \in [Keys -> [outcome : Outcomes, tries : Nat]]
    BY DEF Init, Outcomes
  <2>5. campaigns \in [Campaigns -> Campaign]
    BY DEF Init, Campaign, States
  <2>. QED BY <2>1, <2>2, <2>3, <2>4, <2>5 DEF Init, Typed, TypeOK
<1>2. Consented
  BY DEF Init, Consented, LiveConsent, Addressed, Live
<1>3. Once
  BY DEF Init, Once, Sent, Permit, Flying, Idle
<1>. QED BY <1>1, <1>2, <1>3 DEF Inv

(* Every step is calm, or one of the five that make consent and letters.    *)
LEMMA StepIsCalm ==
  ASSUME MailConstants, Inv, Next
  PROVE  \/ Typed' /\ Calm
         \/ \E m \in Mailboxes, i \in Enrollments : RequestEnrollment(m, i)
         \/ \E i \in Enrollments : ConfirmEnrollment(i)
         \/ AdmitConfirmation \/ AdmitRecipient \/ Submit
         \/ \E l \in wire : ProviderAccepts(l)
<1>0. Typed /\ Consented /\ Once
  BY DEF Inv
<1>1. CASE \E i \in Enrollments : \/ \E m \in Mailboxes : RequestEnrollment(m, i)
                                  \/ ConfirmEnrollment(i) \/ RemoveEnrollment(i) \/ ExpirePending(i)
  BY <1>0, <1>1, LeavesCalm
<1>2. CASE \E k \in Keys : \/ RetireAttempt(k) \/ ConflictingFeedback(k) \/ CorruptFeedback(k)
                           \/ \E s \in BOOLEAN : ApplyFeedback(k, s)
  <2>1. PICK k \in Keys : \/ RetireAttempt(k) \/ ConflictingFeedback(k) \/ CorruptFeedback(k)
                         \/ \E s \in BOOLEAN : ApplyFeedback(k, s)
    BY <1>2
  <2>2. CASE ConflictingFeedback(k)
    <3>1. PICK i \in Enrollments : TRUE
      BY DEF Keys
    <3>2. policy' \in [binding : Bindings, enabled : BOOLEAN, ok : BOOLEAN, gap : BOOLEAN]
      BY <1>0, <2>2 DEF ConflictingFeedback, Typed, TypeOK
    <3>. QED BY <1>0, <2>2, <3>2, PolicyCalm DEF ConflictingFeedback, consent
  <2>. QED BY <1>0, <2>1, <2>2, RetireAttemptCalm, StopsCalm, FeedbackCalm
<1>3. CASE \E m \in Mailboxes : ExpireSuppression(m)
  <2>1. PICK m \in Mailboxes : ExpireSuppression(m)
    BY <1>3
  <2>. QED BY <1>0, <2>1, PolicyCalm DEF ExpireSuppression, Typed, TypeOK
<1>4. CASE \E c \in Campaigns : \/ PublishArticle(c) \/ CreateCampaign(c) \/ ApproveCampaign(c)
                                \/ CancelCampaign(c) \/ LapseLease(c)
  BY <1>0, <1>4, EditsCalm
<1>5. CASE \E b \in Bindings, e \in BOOLEAN : UpdateSettings(b, e)
  BY <1>0, <1>5, SettingsCalm
<1>6. CASE \E gap \in BOOLEAN : FeedbackStops(gap)
  BY <1>0, <1>6, PolicyCalm DEF FeedbackStops, consent, Typed, TypeOK
<1>7. CASE RevokeOwner
  <2>1. PICK c \in Campaigns : TRUE
    BY <1>7 DEF RevokeOwner, InState
  <2>. QED BY <1>0, <1>7, <2>1, EditsCalm
<1>8. CASE ResetConsent
  BY <1>0, <1>8, ResetCalm
<1>9. CASE FeedbackHealthy
  BY <1>0, <1>9, PolicyCalm DEF FeedbackHealthy, consent, Typed, TypeOK
<1>10. CASE \E l \in wire : ProviderAccepts(l)
  BY <1>10
<1>11. CASE Dispatcher
  <2>1. CASE AnswerArrives
    BY <1>0, <2>1, AnswerCalm DEF AnswerArrives
  <2>. QED BY <1>0, <1>11, <2>1, ReadsCalm, ClaimCalm, FinishCampaignCalm DEF Dispatcher
<1>12. CASE Crash
  BY <1>0, <1>12, StopsCalm
<1>13. CASE Restart
  BY <1>0, <1>13, RestartsCalm
<1>. QED BY <1>1, <1>2, <1>3, <1>4, <1>5, <1>6, <1>7, <1>8, <1>9, <1>10, <1>11, <1>12, <1>13 DEF Next

LEMMA StepKeepsInv == MailConstants /\ Inv /\ [Next]_vars => Inv'
<1>. SUFFICES ASSUME MailConstants, Inv, [Next]_vars PROVE Inv'
  OBVIOUS
<1>0. Typed /\ Consented /\ Once
  BY DEF Inv
<1>1. CASE Next
  BY <1>0, <1>1, StepIsCalm, CalmKeepsConsented, CalmKeepsOnce, RequestKeeps, ConfirmKeeps,
     AdmitConfirmationKeeps, AdmitRecipientKeeps, SubmitKeeps, AcceptKeeps DEF Inv
<1>2. CASE UNCHANGED vars
  <2>1. UNCHANGED <<enroll, attempts, suppressed, sequence, policy, campaigns, wire, delivered,
                    disp, phase>>
    BY <1>2 DEF vars, tables, consent, provider
  <2>2. Typed'
    BY <1>0, <2>1 DEF Typed, TypeOK, Live
  <2>3. Calm
    BY <2>1 DEF Calm, EnrollCalm, SuppressCalm, CampaignCalm, AttemptCalm, LettersCalm, Permit
  <2>. QED BY <1>0, <2>2, <2>3, CalmKeepsConsented, CalmKeepsOnce DEF Inv
<1>. QED BY <1>1, <1>2

(* The tables, the claim and the permit always are of known rows.           *)
THEOREM MailTypeOK == Spec => []TypeOK
<1>1. Inv => TypeOK
  BY DEF Inv, Typed
<1>. QED BY <1>1, MailConstants, InitInv, StepKeepsInv, PTL DEF Spec

(* One mailbox never has two enrollments that are or may become active, a   *)
(* suppressed one has none, and audiences are cut off between confirmations.*)
THEOREM MailLiveConsent == Spec => []LiveConsent
<1>1. Inv => LiveConsent
  BY DEF Inv, Consented
<1>. QED BY <1>1, MailConstants, InitInv, StepKeepsInv, PTL DEF Spec
-----------------------------------------------------------------------------
(* What readers get: the newsletter's steps are steps of NewsletterPromise. *)

Consenting == {m \in Mailboxes : \E i \in Addressed(m) : enroll[i].state = "active"}
Committed  == {x \in Campaigns \X Mailboxes : Mailed(x[2], x[1]) \cap Pending # {}}
Arrived(x) == {l \in delivered : l[1] \in Mailed(x[2], x[1])}
Received   == [x \in Campaigns \X Mailboxes |-> Cardinality(Arrived(x))]

(* The steps of the promise, in these terms. *)
LEMMA PromiseLeave ==
  ASSUME Consenting' \subseteq Consenting, Committed' = Committed, Received' = Received
  PROVE  Promise!Next
BY DEF Promise!Next, Promise!Leave, Consenting, Committed, Received, Arrived

LEMMA PromiseJoin ==
  ASSUME NEW m \in Mailboxes, m \notin Consenting, Consenting' = Consenting \cup {m},
         Committed' = Committed, Received' = Received
  PROVE  Promise!Next
BY DEF Promise!Next, Promise!Join, Consenting, Committed, Received, Arrived

LEMMA PromiseCommit ==
  ASSUME NEW x \in Campaigns \X Mailboxes, x[2] \in Consenting, x \notin Committed,
         Received[x] = 0, Committed' = Committed \cup {x}, Consenting' = Consenting,
         Received' = Received
  PROVE  Promise!Next
<1>1. Promise!Commit(x)
  BY DEF Promise!Commit, Consenting, Committed, Received, Arrived
<1>. QED BY <1>1 DEF Promise!Next, Promise!Messages

LEMMA PromiseWithdraw ==
  ASSUME NEW x \in Campaigns \X Mailboxes, x \in Committed, Committed' = Committed \ {x},
         Consenting' = Consenting, Received' = Received
  PROVE  Promise!Next
<1>1. Promise!Withdraw(x)
  BY DEF Promise!Withdraw, Consenting, Committed, Received, Arrived
<1>. QED BY <1>1 DEF Promise!Next, Promise!Messages

LEMMA PromiseReceive ==
  ASSUME NEW x \in Campaigns \X Mailboxes, x \in Committed, Committed' = Committed \ {x},
         Received' = [Received EXCEPT ![x] = @ + 1], Consenting' = Consenting
  PROVE  Promise!Next
<1>1. Promise!Receive(x)
  BY DEF Promise!Receive, Consenting, Committed, Received, Arrived
<1>. QED BY <1>1 DEF Promise!Next, Promise!Messages

LEMMA PendingSent ==
  ASSUME Typed, NEW k, k \in Pending
  PROVE  Sent(k) /\ k \in Keys
<1>1. Sent(k)
  BY DEF Pending, Sent, Permit, Flying
<1>. QED BY <1>1, SentTyped

(* Whose letters a campaign sent does not change while mailboxes stay. *)
LEMMA SameLetters ==
  ASSUME Typed, NEW x \in Campaigns \X Mailboxes,
         \A i \in Enrollments, c \in Campaigns :
           Sent(<<i, c>>) => enroll'[i].mailbox = enroll[i].mailbox,
         NEW k, Sent(k)
  PROVE  k \in Mailed(x[2], x[1])' <=> k \in Mailed(x[2], x[1])
<1>1. k \in Keys
  BY SentTyped
<1>2. CASE k[2] = x[1]
  <2>1. k = <<k[1], x[1]>> /\ k[1] \in Enrollments /\ x[1] \in Campaigns
    BY <1>1, <1>2 DEF Keys
  <2>2. enroll'[k[1]].mailbox = enroll[k[1]].mailbox
    BY <2>1
  <2>. QED BY <2>2 DEF Mailed
<1>3. CASE k[2] # x[1]
  BY <1>3 DEF Mailed
<1>. QED BY <1>2, <1>3

LEMMA SameArrived ==
  ASSUME Typed, delivered' = delivered,
         \A i \in Enrollments, c \in Campaigns :
           Sent(<<i, c>>) => enroll'[i].mailbox = enroll[i].mailbox
  PROVE  Received' = Received
<1>1. ASSUME NEW x \in Campaigns \X Mailboxes  PROVE Arrived(x)' = Arrived(x)
  <2>1. ASSUME NEW l \in delivered
        PROVE  l[1] \in Mailed(x[2], x[1])' <=> l[1] \in Mailed(x[2], x[1])
    <3>1. Sent(l[1])
      BY DEF Sent, Flying
    <3>. QED BY <3>1, SameLetters
  <2>. QED BY <2>1 DEF Arrived
<1>. QED BY <1>1 DEF Received

(* Nobody joins, nothing is sent or withdrawn. *)
LEMMA QuietPromise ==
  ASSUME Typed, Pending' = Pending, delivered' = delivered,
         \A i \in Enrollments, c \in Campaigns :
           Sent(<<i, c>>) => enroll'[i].mailbox = enroll[i].mailbox,
         \A i \in Enrollments : enroll'[i].state = "active" => enroll'[i] = enroll[i]
  PROVE  Promise!Next
<1>1. Received' = Received
  BY SameArrived
<1>2. Committed' = Committed
  <2>1. ASSUME NEW x \in Campaigns \X Mailboxes
        PROVE  Mailed(x[2], x[1])' \cap Pending = Mailed(x[2], x[1]) \cap Pending
    <3>1. ASSUME NEW k \in Pending
          PROVE  k \in Mailed(x[2], x[1])' <=> k \in Mailed(x[2], x[1])
      BY PendingSent, SameLetters
    <3>. QED BY <3>1
  <2>. QED BY <2>1 DEF Committed
<1>3. Consenting' \subseteq Consenting
  BY DEF Consenting, Addressed, Live
<1>. QED BY <1>1, <1>2, <1>3, PromiseLeave

(* A calm step may withdraw the one message the dispatcher was about.       *)
Withdraws == \/ Pending' = Pending
             \/ enroll' = enroll /\ \A k \in Pending \ Pending' : k = disp.key

LEMMA CalmPromise ==
  ASSUME Typed, Once, Calm, Withdraws
  PROVE  Promise!Next
<1>1. \A i \in Enrollments, c \in Campaigns :
        Sent(<<i, c>>) => enroll'[i].mailbox = enroll[i].mailbox
  BY DEF Calm, EnrollCalm, Once
<1>2. \A i \in Enrollments : enroll'[i].state = "active" => enroll'[i] = enroll[i]
  BY DEF Calm, EnrollCalm
<1>3. delivered' = delivered /\ wire' \subseteq wire /\ Permit' \subseteq Permit
  BY DEF Calm, LettersCalm
<1>4. CASE Pending' = Pending
  BY <1>1, <1>2, <1>3, <1>4, QuietPromise
<1>5. CASE enroll' = enroll /\ \A k \in Pending \ Pending' : k = disp.key
  <2>1. Received' = Received
    BY <1>1, <1>3, SameArrived
  <2>2. Consenting' = Consenting /\ \A x : Mailed(x[2], x[1])' = Mailed(x[2], x[1])
    BY <1>5 DEF Consenting, Addressed, Live, Mailed
  <2>3. Pending' \subseteq Pending
    BY <1>3 DEF Pending, Permit
  <2>4. Committed' \subseteq Committed
    BY <2>2, <2>3 DEF Committed
  <2>5. ASSUME NEW x \in Committed \ Committed'
        PROVE  x = <<disp.key[2], enroll[disp.key[1]].mailbox>>
    <3>1. PICK k \in Pending : k \in Mailed(x[2], x[1])
      BY <2>5 DEF Committed
    <3>2. k \notin Pending'
      BY <2>2, <2>5, <3>1 DEF Committed
    <3>3. k = disp.key
      BY <1>5, <3>1, <3>2
    <3>4. x \in Campaigns \X Mailboxes
      BY <2>5 DEF Committed
    <3>. QED BY <3>1, <3>3, <3>4 DEF Mailed
  <2>6. CASE Committed' = Committed
    BY <2>1, <2>2, <2>6, PromiseLeave
  <2>7. CASE Committed' # Committed
    <3>1. PICK x \in Committed : x \notin Committed'
      BY <2>4, <2>7
    <3>2. Committed' = Committed \ {x}
      BY <2>4, <2>5, <3>1
    <3>3. x \in Campaigns \X Mailboxes
      BY <3>1 DEF Committed
    <3>. QED BY <2>1, <2>2, <3>1, <3>2, <3>3, PromiseWithdraw
  <2>. QED BY <2>6, <2>7
<1>. QED BY <1>4, <1>5 DEF Withdraws

(* Only an answer takes a letter off the wire, only the dispatcher and the  *)
(* end of its process give up a permit, and neither touches an enrollment.  *)
LEMMA StepWithdraws ==
  ASSUME Typed, Calm, Next, \A l \in wire : ~ProviderAccepts(l)
  PROVE  Withdraws
<1>1. CASE UNCHANGED <<provider, disp>>
  BY <1>1 DEF Withdraws, Pending, provider
<1>2. CASE UNCHANGED enroll /\ wire' = wire
  <2>1. \A k \in Pending \ Pending' : k = disp.key
    BY <1>2 DEF Pending
  <2>. QED BY <1>2, <2>1 DEF Withdraws
<1>3. CASE AnswerArrives
  <2>1. /\ UNCHANGED enroll /\ disp.pc = "waiting"
        /\ wire' = wire \/ wire' = wire \ {Letter(disp.key)}
    BY <1>3 DEF AnswerArrives, Answer, consent
  <2>2. \A k \in Pending \ Pending' : k = disp.key
    BY <2>1 DEF Pending, Letter
  <2>. QED BY <2>1, <2>2 DEF Withdraws
<1>4. CASE Submit
  <2>1. UNCHANGED enroll /\ (wire' = wire \/ wire' = wire \cup {Letter(disp.key)})
    BY <1>4 DEF Submit, consent
  <2>2. \A k \in Pending \ Pending' : k = disp.key
    BY <2>1 DEF Pending
  <2>. QED BY <2>1, <2>2 DEF Withdraws
<1>5. CASE Dispatcher
  <2>1. \/ UNCHANGED enroll /\ wire' = wire
        \/ AnswerArrives \/ Submit
    BY <1>5 DEF Dispatcher, Tick, ClaimCampaign, RenewClaim, Choose, ChooseArticle,
                AdmitConfirmation, AdmitRecipient, FinishCampaign, tables, consent, provider
  <2>. QED BY <1>2, <1>3, <1>4, <2>1
<1>6. CASE Crash \/ \E k \in Keys : CorruptFeedback(k)
  <2>1. UNCHANGED enroll /\ wire' = wire
    BY <1>6 DEF Crash, CorruptFeedback, tables, consent, provider
  <2>. QED BY <1>2, <2>1
<1>7. CASE ~Dispatcher /\ ~Crash /\ ~\E k \in Keys : CorruptFeedback(k)
  <2>1. UNCHANGED <<provider, disp>>
    BY <1>7 DEF Next, RequestEnrollment, ConfirmEnrollment, RemoveEnrollment, ExpirePending,
       RetireAttempt, ConflictingFeedback, ApplyFeedback, ExpireSuppression, PublishArticle,
       CreateCampaign, ApproveCampaign, CancelCampaign, LapseLease, UpdateSettings, FeedbackStops,
       RevokeOwner, ResetConsent, FeedbackHealthy, Restart, RestartCampaigns, RestartAttempts
  <2>. QED BY <1>1, <2>1
<1>. QED BY <1>5, <1>6, <1>7

(* A request drops what the mailbox had pending, and makes it pending anew. *)
LEMMA RequestPromise ==
  ASSUME Typed, Once, NEW m \in Mailboxes, NEW i \in Enrollments, RequestEnrollment(m, i)
  PROVE  Promise!Next
<1>0. /\ enroll[i].state = "none" /\ Addressed(m) \in SUBSET Enrollments
      /\ enroll' = [RemovedIn(Addressed(m)) EXCEPT ![i] =
           [state |-> "pending", mailbox |-> m, binding |-> policy.binding, sequence |-> 0]]
      /\ UNCHANGED <<provider, disp>>
  BY DEF RequestEnrollment, Addressed
<1>1. enroll'[i].state = "pending"
  BY <1>0 DEF RemovedIn
<1>2. ASSUME NEW j \in Enrollments, j # i
      PROVE  /\ enroll'[j].mailbox = enroll[j].mailbox
             /\ enroll'[j].state = "active" => enroll'[j] = enroll[j]
  <2>1. enroll'[j] = RemovedIn(Addressed(m))[j]
    BY <1>0, <1>2 DEF RemovedIn
  <2>2. /\ enroll'[j].mailbox = enroll[j].mailbox
        /\ enroll'[j] = IF j \in Addressed(m) THEN [enroll[j] EXCEPT !.state = "removed"]
                        ELSE enroll[j]
    BY <1>0, <2>1, RemoveCalm
  <2>. QED BY <2>2, RowsTyped DEF Enrollment
<1>3. \A j \in Enrollments, c \in Campaigns :
        Sent(<<j, c>>) => enroll'[j].mailbox = enroll[j].mailbox
  BY <1>0, <1>2 DEF Once
<1>4. \A j \in Enrollments : enroll'[j].state = "active" => enroll'[j] = enroll[j]
  BY <1>1, <1>2
<1>5. Pending' = Pending /\ delivered' = delivered
  BY <1>0 DEF Pending, provider
<1>. QED BY <1>3, <1>4, <1>5, QuietPromise

(* A confirmation is how a mailbox joins. *)
LEMMA ConfirmPromise ==
  ASSUME Typed, Consented, Once, NEW i \in Enrollments, ConfirmEnrollment(i)
  PROVE  Promise!Next
<1>0. /\ enroll[i].state = "pending" /\ UNCHANGED <<provider, disp>>
      /\ enroll' = [enroll EXCEPT ![i].state = "active", ![i].sequence = sequence + 1]
  BY DEF ConfirmEnrollment
<1>1. /\ enroll'[i].state = "active" /\ enroll'[i].mailbox = enroll[i].mailbox
      /\ \A j \in Enrollments : j # i => enroll'[j] = enroll[j]
  <2>1. enroll \in [Enrollments -> Enrollment] /\ enroll[i] \in Enrollment
    BY DEF Typed, TypeOK
  <2>. QED BY <1>0, <2>1 DEF Enrollment
<1>. DEFINE m == enroll[i].mailbox
<1>2. m \in Mailboxes /\ i \in Addressed(m)
  BY <1>0 DEF Typed, Live, Addressed
<1>3. m \notin Consenting
  BY <1>0, <1>2 DEF Consenting, Consented, LiveConsent
<1>4. \A x : Addressed(x)' = Addressed(x)
  BY <1>0, <1>1 DEF Addressed, Live
<1>5. Consenting' = Consenting \cup {m}
  <2>1. m \in Consenting'
    BY <1>1, <1>2, <1>4 DEF Consenting
  <2>2. ASSUME NEW x \in Mailboxes, x # m  PROVE x \in Consenting' <=> x \in Consenting
    <3>1. i \notin Addressed(x)
      BY <2>2 DEF Addressed
    <3>2. \A j \in Addressed(x) : enroll'[j] = enroll[j]
      BY <1>1, <3>1 DEF Addressed
    <3>. QED BY <1>4, <3>2 DEF Consenting
  <2>. QED BY <2>1, <2>2 DEF Consenting
<1>6. \A j \in Enrollments : enroll'[j].mailbox = enroll[j].mailbox
  BY <1>1
<1>7. Pending' = Pending /\ delivered' = delivered
  BY <1>0 DEF Pending, provider
<1>8. Received' = Received
  BY <1>6, <1>7, SameArrived
<1>9. \A x, c : Mailed(x, c)' = Mailed(x, c)
  BY <1>6 DEF Mailed, Keys
<1>10. Committed' = Committed
  BY <1>7, <1>9 DEF Committed
<1>. QED BY <1>2, <1>3, <1>5, <1>8, <1>10, PromiseJoin

(* Steps that leave enrollments and deliveries alone. *)
LEMMA SameEnrollments ==
  ASSUME UNCHANGED enroll
  PROVE  /\ Consenting' = Consenting /\ \A x, c : Mailed(x, c)' = Mailed(x, c)
         /\ UNCHANGED delivered => Received' = Received
<1>1. Consenting' = Consenting
  BY DEF Consenting, Addressed, Live
<1>2. \A x, c : Mailed(x, c)' = Mailed(x, c)
  BY DEF Mailed
<1>3. ASSUME UNCHANGED delivered  PROVE Received' = Received
  <2>1. \A x : Arrived(x)' = Arrived(x)
    BY <1>2, <1>3 DEF Arrived
  <2>. QED BY <2>1 DEF Received
<1>. QED BY <1>1, <1>2, <1>3

(* Confirmations are no article's letters. *)
LEMMA AdmitConfirmationPromise ==
  ASSUME MailConstants, Typed, AdmitConfirmation
  PROVE  Promise!Next
<1>1. /\ UNCHANGED <<enroll, wire, delivered>> /\ disp.pc = "admitting"
      /\ disp.key[2] = Confirmation
      /\ disp'.pc = "sending" => disp'.key = disp.key
  BY DEF AdmitConfirmation, consent, provider, Goto, EndTick, Sleep, Idle, Typed, Dispatchers, Dispatch
<1>2. \A x \in Campaigns \X Mailboxes :
        Mailed(x[2], x[1]) \cap Pending' = Mailed(x[2], x[1]) \cap Pending
  BY <1>1 DEF Mailed, Pending, MailConstants
<1>3. Committed' = Committed
  BY <1>1, <1>2, SameEnrollments DEF Committed
<1>. QED BY <1>1, <1>3, SameEnrollments, PromiseLeave

(* The dispatcher commits itself to the one message of a mailbox that has   *)
(* consented.                                                               *)
LEMMA AdmitRecipientPromise ==
  ASSUME MailConstants, Typed, Consented, Once, AdmitRecipient
  PROVE  Promise!Next
<1>. DEFINE i == disp.key[1]
            c == disp.key[2]
            x == <<c, enroll[i].mailbox>>
<1>1. /\ UNCHANGED <<enroll, wire, delivered>> /\ disp.pc = "admitting" /\ disp.key \in Keys
      /\ i \in Enrollments /\ c \in Campaigns /\ disp.key = <<i, c>>
  BY DEF AdmitRecipient, consent, provider, Typed, Dispatchers, Keys, Kinds
<1>2. /\ Consenting' = Consenting /\ Received' = Received
      /\ \A m, d : Mailed(m, d)' = Mailed(m, d)
  BY <1>1, SameEnrollments
<1>3. CASE EndTick \/ Sleep(Retained, disp.turn)
  <2>1. Pending' = Pending
    BY <1>1, <1>3 DEF Pending, EndTick, Sleep, Idle
  <2>. QED BY <1>2, <2>1, PromiseLeave DEF Committed
<1>4. CASE Goto("sending") /\ i \in Recipients(c) /\ campaigns[c].state = "claimed"
  <2>1. Pending' = Pending \cup {disp.key}
    BY <1>1, <1>4 DEF Pending, Goto, Typed, Dispatchers, Dispatch
  <2>2. \A j \in Enrollments : Same(i, j) => ~Sent(<<j, c>>)
    BY <1>1, <1>4, AdmitAlone
  <2>3. /\ enroll[i].state = "active" /\ i \in Addressed(enroll[i].mailbox)
        /\ enroll[i].mailbox \in Mailboxes
    BY <1>1, <1>4 DEF Recipients, InAudience, Typed, Live, Addressed
  <2>4. x \in Campaigns \X Mailboxes /\ x[1] = c /\ x[2] = enroll[i].mailbox
    BY <1>1, <2>3
  <2>5. x[2] \in Consenting
    BY <2>3, <2>4 DEF Consenting
  <2>6. \A k \in Mailed(x[2], x[1]) : ~Sent(k)
    <3>1. ASSUME NEW k \in Mailed(x[2], x[1])  PROVE ~Sent(k)
      <4>1. k = <<k[1], c>> /\ k[1] \in Enrollments /\ Same(i, k[1])
        BY <2>4 DEF Mailed, Same, Keys
      <4>. QED BY <2>2, <4>1
    <3>. QED BY <3>1
  <2>7. x \notin Committed
    BY <2>6, PendingSent DEF Committed
  <2>8. Received[x] = 0
    <3>1. Arrived(x) = {}
      BY <2>6 DEF Arrived, Sent, Flying
    <3>. QED BY <2>4, <3>1, FS_EmptySet DEF Received
  <2>9. disp.key \in Mailed(x[2], x[1])
    BY <1>1, <2>4 DEF Mailed
  <2>10. \A y \in Campaigns \X Mailboxes : disp.key \in Mailed(y[2], y[1]) => y = x
    BY <1>1, <2>4 DEF Mailed
  <2>11. Committed' = Committed \cup {x}
    <3>1. x \in Committed'
      BY <1>2, <2>1, <2>4, <2>9 DEF Committed
    <3>2. ASSUME NEW y \in Campaigns \X Mailboxes, y # x  PROVE y \in Committed' <=> y \in Committed
      BY <1>2, <2>1, <2>10, <3>2 DEF Committed
    <3>. QED BY <2>4, <3>1, <3>2 DEF Committed
  <2>. HIDE DEF x
  <2>. QED BY <1>2, <2>4, <2>5, <2>7, <2>8, <2>11, PromiseCommit
<1>. QED BY <1>3, <1>4 DEF AdmitRecipient, Valid

(* A permit becomes a letter of the same attempt. *)
LEMMA SendPromise ==
  ASSUME Typed, Submit, wire' = wire \cup {Letter(disp.key)}, Goto("waiting")
  PROVE  Promise!Next
<1>1. UNCHANGED <<enroll, delivered>> /\ disp.pc = "sending"
  BY DEF Submit, consent
<1>2. Pending' = Pending
  <2>1. disp'.pc = "waiting" /\ Letter(disp.key)[1] = disp.key
    BY DEF Goto, Letter, Typed, Dispatchers, Dispatch
  <2>. QED BY <1>1, <2>1 DEF Pending
<1>3. Committed' = Committed
  BY <1>1, <1>2, SameEnrollments DEF Committed
<1>. QED BY <1>1, <1>3, SameEnrollments, PromiseLeave

(* What the provider accepts was committed, and nothing else of the kind is *)
(* still to come.                                                           *)
LEMMA AcceptPromise ==
  ASSUME Typed, Once, IsFiniteSet(delivered), NEW l \in wire, ProviderAccepts(l)
  PROVE  Promise!Next
<1>. DEFINE i == l[1][1]
            c == l[1][2]
            x == <<c, enroll[i].mailbox>>
<1>1. /\ UNCHANGED <<enroll, disp>> /\ wire' = wire \ {l} /\ delivered' = delivered \cup {l}
      /\ l[1] \in Keys /\ i \in Enrollments /\ l[1] = <<i, c>>
  BY DEF ProviderAccepts, tables, consent, Typed, TypeOK, Letters, Keys
<1>2. /\ Consenting' = Consenting /\ \A m, d : Mailed(m, d)' = Mailed(m, d)
  BY <1>1, SameEnrollments
<1>3. \A y \in Campaigns \X Mailboxes : l[1] \in Mailed(y[2], y[1]) <=> y = x
  BY <1>1 DEF Mailed
<1>4. \A y \in Campaigns \X Mailboxes :
        y # x => Mailed(y[2], y[1]) \cap Pending' = Mailed(y[2], y[1]) \cap Pending
  BY <1>1, <1>3 DEF Pending
<1>5. \A y \in Campaigns \X Mailboxes : y # x => Arrived(y)' = Arrived(y)
  BY <1>1, <1>2, <1>3 DEF Arrived
<1>6. CASE x \notin Campaigns \X Mailboxes
  <2>1. Committed' = Committed
    BY <1>2, <1>4, <1>6 DEF Committed
  <2>2. Received' = Received
    BY <1>5, <1>6 DEF Received
  <2>. QED BY <1>2, <2>1, <2>2, PromiseLeave
<1>7. CASE x \in Campaigns \X Mailboxes
  <2>0. c \in Campaigns /\ x[1] = c /\ x[2] = enroll[i].mailbox
    BY <1>7
  <2>1. x \in Committed
    <3>1. l[1] \in Pending /\ l[1] \in Mailed(x[2], x[1])
      BY <1>3, <1>7 DEF Pending
    <3>. QED BY <1>7, <3>1 DEF Committed
  <2>2. ASSUME NEW k \in Mailed(x[2], x[1]), k \in Pending'  PROVE FALSE
    <3>1. k = <<k[1], c>> /\ k[1] \in Enrollments /\ Same(i, k[1])
      BY <2>0, <2>2 DEF Mailed, Same, Keys
    <3>2. k \in Pending
      BY <1>1, <2>2 DEF Pending
    <3>3. Sent(k) /\ Sent(<<i, c>>)
      BY <1>1, <3>2, PendingSent DEF Sent, Flying
    <3>4. k = l[1]
      BY <1>1, <2>0, <3>1, <3>3 DEF Once
    <3>5. CASE disp.pc = "sending" /\ k = disp.key
      BY <2>0, <3>4, <3>5 DEF Once, Flying, Permit
    <3>6. CASE \E n \in wire' : n[1] = k
      BY <1>1, <2>0, <3>4, <3>6 DEF Once, Flying
    <3>. QED BY <1>1, <2>2, <3>5, <3>6 DEF Pending
  <2>3. Committed' = Committed \ {x}
    <3>1. x \notin Committed'
      BY <1>2, <2>2 DEF Committed
    <3>2. ASSUME NEW y \in Campaigns \X Mailboxes, y # x  PROVE y \in Committed' <=> y \in Committed
      BY <1>2, <1>4, <3>2 DEF Committed
    <3>. QED BY <3>1, <3>2 DEF Committed
  <2>4. Received' = [Received EXCEPT ![x] = @ + 1]
    <3>1. l \notin delivered
      BY <2>0 DEF Once
    <3>2. \A y \in Campaigns \X Mailboxes :
            Cardinality(Arrived(y)') = IF y = x THEN Cardinality(Arrived(x)) + 1
                                       ELSE Cardinality(Arrived(y))
      <4>. SUFFICES ASSUME NEW y \in Campaigns \X Mailboxes
                    PROVE  Cardinality(Arrived(y)') = IF y = x THEN Cardinality(Arrived(x)) + 1
                                                      ELSE Cardinality(Arrived(y))
        OBVIOUS
      <4>1. CASE y = x
        <5>1. l \notin Arrived(y) /\ Arrived(y)' = Arrived(y) \cup {l}
          BY <1>1, <1>2, <1>3, <3>1, <4>1 DEF Arrived
        <5>2. IsFiniteSet(Arrived(y))
          BY FS_Subset DEF Arrived
        <5>3. Cardinality(Arrived(y)') = Cardinality(Arrived(y)) + 1
          BY <5>1, <5>2, FS_AddElement
        <5>. QED BY <4>1, <5>3
      <4>2. CASE y # x
        <5>1. Arrived(y)' = Arrived(y)
          BY <1>5, <4>2
        <5>. QED BY <4>2, <5>1
      <4>. QED BY <4>1, <4>2
    <3>3. Received' = [y \in Campaigns \X Mailboxes |-> Cardinality(Arrived(y)')]
      BY DEF Received
    <3>4. Received[x] = Cardinality(Arrived(x))
      BY <1>7 DEF Received
    <3>. HIDE DEF x
    <3>. QED BY <1>7, <3>2, <3>3, <3>4 DEF Received
  <2>. HIDE DEF x
  <2>. QED BY <1>2, <1>7, <2>1, <2>3, <2>4, PromiseReceive
<1>. QED BY <1>6, <1>7

LEMMA StepKeepsPromise ==
  ASSUME MailConstants, Inv, IsFiniteSet(delivered), [Next]_vars
  PROVE  [Promise!Next]_(Promise!vars)
<1>0. Typed /\ Consented /\ Once
  BY DEF Inv
<1>1. CASE UNCHANGED vars
  <2>1. UNCHANGED <<enroll, wire, delivered, disp>>
    BY <1>1 DEF vars, tables, consent, provider
  <2>2. Consenting' = Consenting /\ Received' = Received
    BY <2>1, SameEnrollments
  <2>3. Committed' = Committed
    BY <2>1, SameEnrollments DEF Committed, Pending
  <2>. QED BY <2>2, <2>3, PromiseLeave
<1>2. CASE \E l \in wire : ProviderAccepts(l)
  BY <1>0, <1>2, AcceptPromise
<1>3. CASE Next /\ \A l \in wire : ~ProviderAccepts(l)
  <2>1. CASE Typed' /\ Calm
    BY <1>0, <1>3, <2>1, StepWithdraws, CalmPromise
  <2>2. CASE Submit
    <3>1. CASE FinishAttempt("rejected") /\ UNCHANGED wire
      <4>1. UNCHANGED <<consent, policy, campaigns, provider>> /\ disp.pc = "sending"
        BY <2>2, <3>1 DEF Submit, provider
      <4>2. Calm
        BY <1>0, <3>1, <4>1, RefusedCalm
      <4>. QED BY <1>0, <1>3, <4>2, StepWithdraws, CalmPromise
    <3>. QED BY <1>0, <2>2, <3>1, SendPromise DEF Submit
  <2>. QED BY <1>0, <1>3, <2>1, <2>2, StepIsCalm, RequestPromise, ConfirmPromise,
              AdmitConfirmationPromise, AdmitRecipientPromise
<1>. QED BY <1>1, <1>2, <1>3

(* Only the provider's acceptance, one at a time, adds to what it accepted. *)
LEMMA StepFinite ==
  ASSUME Inv, IsFiniteSet(delivered), [Next]_vars
  PROVE  IsFiniteSet(delivered')
<1>0. Typed /\ Consented /\ Once
  BY DEF Inv
<1>1. CASE UNCHANGED vars
  BY <1>1 DEF vars, provider
<1>2. CASE \E l \in wire : ProviderAccepts(l)
  BY <1>2, FS_AddElement DEF ProviderAccepts
<1>3. CASE Next /\ \A l \in wire : ~ProviderAccepts(l)
  <2>1. CASE Typed' /\ Calm
    BY <2>1 DEF Calm, LettersCalm
  <2>2. CASE \/ \E m \in Mailboxes, i \in Enrollments : RequestEnrollment(m, i)
             \/ \E i \in Enrollments : ConfirmEnrollment(i)
             \/ AdmitConfirmation \/ AdmitRecipient \/ Submit
    BY <2>2 DEF RequestEnrollment, ConfirmEnrollment, AdmitConfirmation, AdmitRecipient, Submit,
                provider
  <2>. QED BY <1>3, <2>1, <2>2, MailConstants, StepIsCalm
<1>. QED BY <1>1, <1>2, <1>3

(* The newsletter implements NewsletterPromise: whatever retries, restarts, *)
(* lapsed leases, returning subscribers and retention do, no article goes   *)
(* to one mailbox twice, nor to one that had not consented when the message *)
(* was committed to.                                                        *)
THEOREM MailKeepsPromise == Spec => KeepsPromise
<1>1. Init => Inv /\ IsFiniteSet(delivered)
  BY MailConstants, InitInv, FS_EmptySet DEF Init
<1>2. Inv /\ IsFiniteSet(delivered) /\ [Next]_vars => (Inv /\ IsFiniteSet(delivered))'
  BY MailConstants, StepKeepsInv, StepFinite
<1>3. Init => Promise!Init
  <2>. SUFFICES ASSUME Init PROVE Promise!Init
    OBVIOUS
  <2>1. Consenting = {} /\ Pending = {} /\ delivered = {}
    BY DEF Init, Consenting, Addressed, Live, Pending, Idle
  <2>2. Committed = {} /\ \A x : Arrived(x) = {}
    BY <2>1 DEF Committed, Arrived
  <2>3. Received = [x \in Campaigns \X Mailboxes |-> 0]
    BY <2>2, FS_EmptySet DEF Received
  <2>. QED BY <2>1, <2>2, <2>3 DEF Promise!Init, Promise!Messages, Consenting, Committed,
                                   Received, Arrived
<1>4. Inv /\ IsFiniteSet(delivered) /\ [Next]_vars => [Promise!Next]_(Promise!vars)
  BY MailConstants, StepKeepsPromise
<1>. QED BY <1>1, <1>2, <1>3, <1>4, PTL DEF Spec, KeepsPromise, Promise!Spec

-----------------------------------------------------------------------------
(* The totals of closed campaigns.                                          *)

Unsure    == {"unknown", "admitted"}
SentIn(c) == {i \in Enrollments : Sent(<<i, c>>)}
ClosedOut == States \ (Open \cup Fresh)

(* Totals are counted once, when a campaign closes; they have room for      *)
(* every letter that was or may still be accepted, and an attempt that is   *)
(* not settled has its place among the unknown ones.                        *)
TotalsInv == \A c \in Campaigns : campaigns[c].counted =>
  /\ campaigns[c].state \in ClosedOut
  /\ Cardinality(SentIn(c)) <= campaigns[c].accepted + campaigns[c].unknown
  /\ Tally(c, Unsure) <= campaigns[c].unknown
  /\ campaigns[c].unknown > 0 => campaigns[c].state \in {"unknown", "quarantined"}

(* What a step does to the totals of a campaign, and to its attempts. *)
SameTotals(c) ==
  /\ campaigns'[c].counted = campaigns[c].counted
  /\ campaigns'[c].accepted = campaigns[c].accepted
  /\ campaigns'[c].unknown = campaigns[c].unknown
  /\ campaigns[c].counted => campaigns'[c].state \in {campaigns[c].state, "quarantined"}

CountsNow(c) ==
  /\ campaigns[c].state \in Open
  /\ campaigns'[c].state \in ClosedOut
  /\ campaigns'[c].accepted = Tally(c, {"accepted"})
  /\ campaigns'[c].unknown = Tally(c, Unsure)
  /\ campaigns'[c].unknown > 0 => campaigns'[c].state \in {"unknown", "quarantined"}

CountsAnswer(c) ==
  /\ campaigns'[c].counted = campaigns[c].counted
  /\ campaigns'[c].accepted = campaigns[c].accepted + 1
  /\ campaigns'[c].unknown = campaigns[c].unknown - 1
  /\ campaigns'[c].state \in ClosedOut
  /\ campaigns'[c].unknown > 0 => campaigns'[c].state \in {"unknown", "quarantined"}
  /\ \E i \in Enrollments : /\ attempts[<<i, c>>].outcome \in Unsure
                            /\ attempts'[<<i, c>>].outcome = "accepted"

(* Nothing is sent, or tried, of a campaign whose totals are counted. *)
SettlesOnly == \A i \in Enrollments, c \in Campaigns : campaigns'[c].counted =>
  (attempts'[<<i, c>>].outcome \in Unsure => attempts[<<i, c>>].outcome \in Unsure)

SendsNothing == \A i \in Enrollments, c \in Campaigns : campaigns'[c].counted =>
  (Sent(<<i, c>>)' => Sent(<<i, c>>))

LEMMA EnrollmentsFinite ==
  ASSUME MailConstants, NEW S \in SUBSET Enrollments
  PROVE  IsFiniteSet(S) /\ Cardinality(S) \in Nat
<1>1. IsFiniteSet(Enrollments)
  BY FS_Interval DEF MailConstants, Enrollments
<1>2. IsFiniteSet(S)
  BY <1>1, FS_Subset
<1>. QED BY <1>2, FS_CardinalityType

LEMMA FewerEnrollments ==
  ASSUME MailConstants, NEW S \in SUBSET Enrollments, NEW T \in SUBSET S
  PROVE  Cardinality(T) <= Cardinality(S)
BY EnrollmentsFinite, FS_Subset

(* While a campaign may be mailed its attempts account for its letters. *)
LEMMA OpenAccounts ==
  ASSUME MailConstants, Typed, Once, NEW c \in Campaigns, campaigns[c].state \in Open
  PROVE  Cardinality(SentIn(c)) <= Tally(c, {"accepted"}) + Tally(c, Unsure)
<1>. DEFINE A == {i \in Enrollments : attempts[<<i, c>>].outcome \in {"accepted"}}
            U == {i \in Enrollments : attempts[<<i, c>>].outcome \in Unsure}
<1>1. SentIn(c) \subseteq A \cup U
  BY DEF SentIn, Once, Tried, Unsure
<1>2. /\ A \in SUBSET Enrollments /\ U \in SUBSET Enrollments /\ A \cup U \in SUBSET Enrollments
      /\ SentIn(c) \in SUBSET (A \cup U) /\ A \cap U \in SUBSET Enrollments
  BY <1>1
<1>3. Tally(c, {"accepted"}) = Cardinality(A) /\ Tally(c, Unsure) = Cardinality(U)
  BY DEF Tally
<1>. HIDE DEF A, U
<1>4. /\ IsFiniteSet(A) /\ IsFiniteSet(U) /\ Cardinality(A) \in Nat /\ Cardinality(U) \in Nat
      /\ Cardinality(A \cap U) \in Nat /\ Cardinality(A \cup U) \in Nat
      /\ Cardinality(SentIn(c)) \in Nat
  <2>1. SentIn(c) \in SUBSET Enrollments
    BY <1>2
  <2>. QED BY <1>2, <2>1, EnrollmentsFinite
<1>5. Cardinality(A \cup U) = Cardinality(A) + Cardinality(U) - Cardinality(A \cap U)
  BY <1>4, FS_Union
<1>6. Cardinality(SentIn(c)) <= Cardinality(A \cup U)
  BY <1>2, FewerEnrollments
<1>. QED BY <1>3, <1>4, <1>5, <1>6

LEMMA TotalsStep ==
  ASSUME MailConstants, Typed, Typed', Once, TotalsInv, SettlesOnly, SendsNothing,
         \A c \in Campaigns : SameTotals(c) \/ CountsNow(c) \/ CountsAnswer(c)
  PROVE  TotalsInv'
<1>. SUFFICES ASSUME NEW c \in Campaigns, campaigns'[c].counted
              PROVE  /\ campaigns'[c].state \in ClosedOut
                     /\ Cardinality(SentIn(c)') <= campaigns'[c].accepted + campaigns'[c].unknown
                     /\ Tally(c, Unsure)' <= campaigns'[c].unknown
                     /\ campaigns'[c].unknown > 0 => campaigns'[c].state \in {"unknown", "quarantined"}
  BY DEF TotalsInv
<1>. DEFINE U  == {i \in Enrollments : attempts[<<i, c>>].outcome \in Unsure}
            Up == {i \in Enrollments : attempts'[<<i, c>>].outcome \in Unsure}
<1>1. /\ Tally(c, Unsure) = Cardinality(U) /\ Tally(c, Unsure)' = Cardinality(Up)
      /\ U \in SUBSET Enrollments /\ Up \in SUBSET U
  BY DEF Tally, SettlesOnly
<1>2. /\ SentIn(c) \in SUBSET Enrollments /\ SentIn(c)' \in SUBSET SentIn(c)
  BY DEF SentIn, SendsNothing
<1>3. /\ Cardinality(U) \in Nat /\ Cardinality(Up) \in Nat /\ IsFiniteSet(U)
      /\ Cardinality(SentIn(c)) \in Nat /\ Cardinality(SentIn(c)') \in Nat
  <2>1. Up \in SUBSET Enrollments /\ SentIn(c)' \in SUBSET Enrollments
    BY <1>1, <1>2
  <2>. QED BY <1>1, <1>2, <2>1, EnrollmentsFinite
<1>4. Cardinality(Up) <= Cardinality(U) /\ Cardinality(SentIn(c)') <= Cardinality(SentIn(c))
  BY <1>1, <1>2, FewerEnrollments
<1>5. /\ campaigns[c].accepted \in Nat /\ campaigns[c].unknown \in Nat
      /\ campaigns'[c].accepted \in Nat /\ campaigns'[c].unknown \in Nat
  BY DEF Typed, TypeOK, Campaign
<1>. HIDE DEF U, Up
<1>6. CASE SameTotals(c)
  <2>1. /\ campaigns[c].state \in ClosedOut
        /\ Cardinality(SentIn(c)) <= campaigns[c].accepted + campaigns[c].unknown
        /\ Cardinality(U) <= campaigns[c].unknown
        /\ campaigns[c].unknown > 0 => campaigns[c].state \in {"unknown", "quarantined"}
    BY <1>1, <1>6 DEF SameTotals, TotalsInv
  <2>2. campaigns'[c].state \in {campaigns[c].state, "quarantined"} /\ "quarantined" \in ClosedOut
    BY <1>6 DEF SameTotals, ClosedOut, States, Open, Fresh
  <2>. QED BY <1>1, <1>3, <1>4, <1>5, <1>6, <2>1, <2>2 DEF SameTotals
<1>7. CASE CountsNow(c)
  <2>1. Cardinality(SentIn(c)) <= Tally(c, {"accepted"}) + Tally(c, Unsure)
    BY <1>7, OpenAccounts DEF CountsNow
  <2>. QED BY <1>1, <1>3, <1>4, <1>5, <1>7, <2>1 DEF CountsNow
<1>8. CASE CountsAnswer(c)
  <2>1. /\ Cardinality(SentIn(c)) <= campaigns[c].accepted + campaigns[c].unknown
        /\ Cardinality(U) <= campaigns[c].unknown
    BY <1>1, <1>8 DEF CountsAnswer, TotalsInv
  <2>2. PICK i \in Enrollments : /\ attempts[<<i, c>>].outcome \in Unsure
                                 /\ attempts'[<<i, c>>].outcome = "accepted"
    BY <1>8 DEF CountsAnswer
  <2>3. i \in U /\ Up \in SUBSET (U \ {i})
    BY <1>1, <2>2 DEF U, Up, Unsure
  <2>4. Cardinality(U \ {i}) = Cardinality(U) - 1
    BY <1>3, <2>3, FS_RemoveElement
  <2>5. Cardinality(Up) <= Cardinality(U \ {i})
    <3>1. (U \ {i}) \in SUBSET Enrollments
      BY <1>1
    <3>. QED BY <2>3, <3>1, FewerEnrollments
  <2>. QED BY <1>1, <1>3, <1>4, <1>5, <1>8, <2>1, <2>4, <2>5 DEF CountsAnswer
<1>. QED BY <1>6, <1>7, <1>8

TotalsMove == /\ SettlesOnly
              /\ \A c \in Campaigns : SameTotals(c) \/ CountsNow(c) \/ CountsAnswer(c)

LEMMA SameCampaignTotals ==
  ASSUME UNCHANGED campaigns, SettlesOnly
  PROVE  TotalsMove
BY DEF TotalsMove, SameTotals

LEMMA SettlesByKey ==
  ASSUME \A k \in Keys : attempts'[k].outcome \in Unsure => attempts[k].outcome \in Unsure
  PROVE  SettlesOnly
BY DEF SettlesOnly, Keys, Kinds

(* Enrollments that go cancel what is queued; a new one has no letters. *)
LEMMA EnrollmentTotals ==
  ASSUME MailConstants, Typed, NEW S \in SUBSET Enrollments, UNCHANGED campaigns,
         \A k \in Keys : k[2] # Confirmation => attempts'[k] = CancelledIn(S)[k]
  PROVE  TotalsMove
<1>1. ASSUME NEW i \in Enrollments, NEW c \in Campaigns, attempts'[<<i, c>>].outcome \in Unsure
      PROVE  attempts[<<i, c>>].outcome \in Unsure
  <2>1. <<i, c>> \in Keys /\ c # Confirmation
    BY DEF Keys, Kinds, MailConstants
  <2>2. attempts'[<<i, c>>] = CancelledIn(S)[<<i, c>>]
    BY <2>1
  <2>3. \/ CancelledIn(S)[<<i, c>>] = attempts[<<i, c>>]
        \/ CancelledIn(S)[<<i, c>>].outcome = "cancelled"
    BY <2>1, RemoveCalm
  <2>. QED BY <1>1, <2>2, <2>3 DEF Unsure
<1>. QED BY <1>1, SameCampaignTotals DEF SettlesOnly

LEMMA VisitorTotals ==
  ASSUME MailConstants, Typed, NEW i \in Enrollments,
         \/ \E m \in Mailboxes : RequestEnrollment(m, i)
         \/ ConfirmEnrollment(i) \/ RemoveEnrollment(i) \/ ExpirePending(i)
  PROVE  TotalsMove
<1>1. CASE \E m \in Mailboxes : RequestEnrollment(m, i)
  <2>1. PICK m \in Mailboxes : RequestEnrollment(m, i)
    BY <1>1
  <2>2. /\ attempts' = [CancelledIn(Addressed(m)) EXCEPT
             ![<<i, Confirmation>>] = [outcome |-> "queued", tries |-> 0]]
        /\ UNCHANGED campaigns /\ Addressed(m) \in SUBSET Enrollments
    BY <2>1 DEF RequestEnrollment, Addressed
  <2>3. \A k \in Keys : k[2] # Confirmation => attempts'[k] = CancelledIn(Addressed(m))[k]
    BY <2>2 DEF CancelledIn
  <2>. QED BY <2>2, <2>3, EnrollmentTotals
<1>2. CASE ConfirmEnrollment(i)
  BY <1>2, SameCampaignTotals DEF ConfirmEnrollment, SettlesOnly
<1>3. CASE RemoveEnrollment(i) \/ ExpirePending(i)
  <2>1. attempts' = CancelledIn({i}) /\ UNCHANGED campaigns
    BY <1>3 DEF RemoveEnrollment, ExpirePending, Remove
  <2>. QED BY <2>1, EnrollmentTotals
<1>. QED BY <1>1, <1>2, <1>3

LEMMA SettingsTotals ==
  ASSUME MailConstants, Typed, NEW b \in Bindings, NEW e \in BOOLEAN, UpdateSettings(b, e)
  PROVE  TotalsMove
<1>1. /\ attempts' = CancelledIn(Obsolete(b)) /\ UNCHANGED campaigns
      /\ Obsolete(b) \in SUBSET Enrollments
  BY DEF UpdateSettings, Remove, Obsolete
<1>. QED BY <1>1, EnrollmentTotals

(* Campaigns that are edited are not closed ones. *)
LEMMA EditTotals ==
  ASSUME Typed, TotalsInv, NEW c \in Campaigns,
         \/ PublishArticle(c) \/ CreateCampaign(c) \/ ApproveCampaign(c)
         \/ CancelCampaign(c) \/ LapseLease(c) \/ RevokeOwner
  PROVE  TotalsMove
<1>1. UNCHANGED attempts
  BY DEF PublishArticle, CreateCampaign, ApproveCampaign, CancelCampaign, LapseLease, RevokeOwner
<1>2. ASSUME NEW d \in Campaigns  PROVE SameTotals(d)
  <2>1. campaigns \in [Campaigns -> Campaign] /\ campaigns[d] \in Campaign
    BY DEF Typed, TypeOK
  <2>2. campaigns[d].counted => campaigns[d].state \notin {"absent", "marked", "draft", "queued",
                                                           "claimed", "cancelling"}
    BY DEF TotalsInv, ClosedOut, Open, Fresh
  <2>3. CASE PublishArticle(c)
    BY <2>1, <2>2, <2>3 DEF PublishArticle, SameTotals, Campaign
  <2>4. CASE CreateCampaign(c) \/ ApproveCampaign(c)
    BY <2>1, <2>2, <2>4 DEF CreateCampaign, ApproveCampaign, SameTotals, Campaign
  <2>5. CASE CancelCampaign(c)
    BY <2>1, <2>2, <2>5 DEF CancelCampaign, SameTotals, Campaign
  <2>6. CASE LapseLease(c)
    BY <2>1, <2>2, <2>6 DEF LapseLease, SameTotals, Campaign
  <2>7. CASE RevokeOwner
    BY <2>1, <2>7 DEF RevokeOwner, SameTotals, Campaign
  <2>. QED BY <2>3, <2>4, <2>5, <2>6, <2>7
<1>. QED BY <1>1, <1>2 DEF TotalsMove, SettlesOnly

LEMMA CountedNow ==
  ASSUME MailConstants, Typed, NEW c \in Campaigns, campaigns[c].state \in Open,
         campaigns'[c] = Counted(c, "quarantined")
  PROVE  CountsNow(c)
<1>1. "quarantined" \in States /\ "quarantined" \in ClosedOut
  BY DEF ClosedOut, States, Open, Fresh
<1>2. /\ campaigns'[c].state = "quarantined"
      /\ campaigns'[c].accepted = Tally(c, {"accepted"})
      /\ campaigns'[c].unknown = Tally(c, {"unknown", "admitted"})
  BY <1>1, CountedTyped
<1>. QED BY <1>1, <1>2 DEF CountsNow, Unsure

LEMMA RetireTotals ==
  ASSUME MailConstants, Typed, NEW k \in Keys, RetireAttempt(k)
  PROVE  TotalsMove
<1>1. /\ attempts' = [attempts EXCEPT ![k].outcome = "absent"]
      /\ campaigns' = IF k[2] \in InState(Open)
                      THEN [campaigns EXCEPT ![k[2]] = Counted(k[2], "quarantined")]
                      ELSE campaigns
      /\ campaigns \in [Campaigns -> Campaign]
      /\ attempts \in [Keys -> [outcome : Outcomes, tries : Nat]]
  BY DEF RetireAttempt, Typed, TypeOK
<1>2. SettlesOnly
  <2>1. \A q \in Keys : q # k => attempts'[q] = attempts[q]
    BY <1>1
  <2>2. attempts'[k].outcome = "absent"
    BY <1>1
  <2>. QED BY <2>1, <2>2, SettlesByKey DEF Unsure
<1>3. ASSUME NEW c \in Campaigns  PROVE SameTotals(c) \/ CountsNow(c)
  <2>1. \/ campaigns'[c] = campaigns[c]
        \/ campaigns[c].state \in Open /\ campaigns'[c] = Counted(c, "quarantined")
    BY <1>1 DEF InState
  <2>. QED BY <2>1, CountedNow DEF SameTotals
<1>. QED BY <1>2, <1>3 DEF TotalsMove

LEMMA ResetTotals ==
  ASSUME MailConstants, Typed, ResetConsent
  PROVE  TotalsMove
<1>1. SettlesOnly
  <2>1. ASSUME NEW k \in Keys  PROVE attempts'[k].outcome = "absent"
    <3>1. attempts'[k] = [attempts[k] EXCEPT !.outcome = "absent"]
      BY DEF ResetConsent
    <3>. QED BY <3>1, RowsTyped
  <2>. QED BY <2>1, SettlesByKey DEF Unsure
<1>2. ASSUME NEW c \in Campaigns  PROVE SameTotals(c) \/ CountsNow(c)
  <2>0. campaigns'[c] = ResetClosed(c) /\ campaigns[c] \in Campaign
    BY RowsTyped DEF ResetConsent
  <2>1. CASE campaigns[c].state \in {"draft", "queued", "unknown"}
    <3>1. campaigns'[c] = [campaigns[c] EXCEPT !.state = "quarantined"]
      BY <2>0, <2>1 DEF ResetClosed
    <3>. QED BY <2>0, <3>1 DEF SameTotals, Campaign
  <2>2. CASE campaigns[c].state \in {"claimed", "cancelling"}
    <3>1. campaigns'[c] = Counted(c, "quarantined")
      BY <2>0, <2>2 DEF ResetClosed
    <3>. QED BY <2>2, <3>1, CountedNow DEF Open
  <2>3. CASE campaigns[c].state \notin {"draft", "queued", "unknown", "claimed", "cancelling"}
    <3>1. campaigns'[c] = campaigns[c]
      BY <2>0, <2>3 DEF ResetClosed
    <3>. QED BY <3>1 DEF SameTotals
  <2>. QED BY <2>1, <2>2, <2>3
<1>. QED BY <1>1, <1>2 DEF TotalsMove

(* Feedback settles one attempt, and moves it among the totals. *)
LEMMA FeedbackTotals ==
  ASSUME MailConstants, Typed, NEW k \in Keys, NEW s \in BOOLEAN, ApplyFeedback(k, s)
  PROVE  TotalsMove
<1>. DEFINE S == IF s /\ Live(k[1]) THEN {k[1]} ELSE {}
            counts == Unsettled(k) /\ k[2] # Confirmation
<1>1. /\ attempts' = [CancelledIn(S) EXCEPT ![k].outcome = "accepted"]
      /\ campaigns' = IF counts THEN [campaigns EXCEPT ![k[2]] = Reconciled(k[2])] ELSE campaigns
      /\ counts => Reconcilable(k[2])
  BY DEF ApplyFeedback
<1>2. k[1] \in Enrollments /\ S \in SUBSET Enrollments /\ k[2] \in Kinds /\ k = <<k[1], k[2]>>
  BY DEF Keys
<1>3. /\ attempts'[k].outcome = "accepted"
      /\ \A q \in Keys : attempts'[q].outcome \in Unsure => attempts[q].outcome \in Unsure
  <2>. DEFINE table == CancelledIn(S)
  <2>1. /\ table \in [Keys -> [outcome : Outcomes, tries : Nat]]
        /\ \A q \in Keys : table[q] = attempts[q] \/ table[q].outcome = "cancelled"
    BY <1>2, RemoveCalm
  <2>2. attempts' = [table EXCEPT ![k].outcome = "accepted"]
    BY <1>1
  <2>. HIDE DEF table
  <2>. QED BY <2>1, <2>2 DEF Unsure
<1>4. CASE ~counts
  BY <1>1, <1>3, <1>4, SettlesByKey, SameCampaignTotals
<1>5. CASE counts
  <2>1. /\ campaigns' = [campaigns EXCEPT ![k[2]] = Reconciled(k[2])] /\ k[2] \in Campaigns
        /\ attempts[k].outcome \in Unsure /\ Reconcilable(k[2])
    BY <1>1, <1>2, <1>5 DEF Kinds, Unsettled, Unsure
  <2>. DEFINE c == k[2]
              row == campaigns[c]
  <2>2. /\ campaigns'[c] = Reconciled(c) /\ row \in Campaign
        /\ \A d \in Campaigns : d # c => campaigns'[d] = campaigns[d]
    BY <2>1 DEF Typed, TypeOK
  <2>3. SameTotals(c) \/ CountsAnswer(c)
    <3>1. CASE row.state \in Open
      BY <2>2, <3>1 DEF Reconciled, SameTotals
    <3>2. CASE row.state \notin Open
      <4>. DEFINE st == IF row.state = "unknown" /\ row.unknown = 1
                        THEN IF row.intent = "cancel" THEN "cancelled" ELSE "completed"
                        ELSE row.state
      <4>1. row.state \in {"unknown", "quarantined"} /\ row.unknown > 0
        BY <2>1, <3>2 DEF Reconcilable
      <4>2. Reconciled(c) = [row EXCEPT !.unknown = row.unknown - 1, !.accepted = row.accepted + 1,
                                        !.state = st]
        BY <2>2, <3>2, Zenon DEF Reconciled, Campaign
      <4>3. /\ st \in {"unknown", "quarantined", "cancelled", "completed"}
            /\ row.unknown # 1 => st \in {"unknown", "quarantined"}
            /\ row.state = "quarantined" => st = "quarantined"
        BY <4>1
      <4>. HIDE DEF st
      <4>4. /\ campaigns'[c].counted = row.counted /\ campaigns'[c].accepted = row.accepted + 1
            /\ campaigns'[c].unknown = row.unknown - 1 /\ campaigns'[c].state = st
        BY <2>2, <4>2 DEF Campaign
      <4>5. st \in ClosedOut
        BY <4>3 DEF ClosedOut, States, Active, Open, Fresh
      <4>6. row.unknown \in Nat
        BY <2>2 DEF Campaign
      <4>7. campaigns'[c].unknown > 0 => campaigns'[c].state \in {"unknown", "quarantined"}
        BY <4>1, <4>3, <4>4, <4>6
      <4>8. \E i \in Enrollments : /\ attempts[<<i, c>>].outcome \in Unsure
                                   /\ attempts'[<<i, c>>].outcome = "accepted"
        BY <1>2, <1>3, <2>1
      <4>. QED BY <4>4, <4>5, <4>7, <4>8 DEF CountsAnswer
    <3>. QED BY <3>1, <3>2
  <2>4. \A d \in Campaigns : d # c => SameTotals(d)
    BY <2>2 DEF SameTotals
  <2>. QED BY <1>3, <2>3, <2>4, SettlesByKey DEF TotalsMove
<1>. QED BY <1>4, <1>5

LEMMA InterruptedTotals ==
  ASSUME MailConstants, Typed, NEW S, Interrupted(S),
         \A c \in Campaigns \cap S : campaigns[c].state \in Open, TotalsInv
  PROVE  TotalsMove
<1>1. ASSUME NEW c \in Campaigns  PROVE SameTotals(c) \/ CountsNow(c)
  <2>1. campaigns[c] \in Campaign
    BY RowsTyped
  <2>2. campaigns'[c] = IF c \notin S THEN campaigns[c]
                        ELSE IF Requeues(c)
                        THEN [campaigns[c] EXCEPT !.state = "queued", !.lapsed = FALSE]
                        ELSE Counted(c, "quarantined")
    BY DEF Interrupted
  <2>3. CASE c \notin S
    BY <2>2, <2>3 DEF SameTotals
  <2>4. CASE c \in S /\ Requeues(c)
    <3>1. ~campaigns[c].counted
      BY <2>4 DEF Requeues, TotalsInv, ClosedOut, Open
    <3>2. campaigns'[c] = [campaigns[c] EXCEPT !.state = "queued", !.lapsed = FALSE]
      BY <2>2, <2>4
    <3>. QED BY <2>1, <3>1, <3>2 DEF SameTotals, Campaign
  <2>5. CASE c \in S /\ ~Requeues(c)
    BY <2>2, <2>5, CountedNow
  <2>. QED BY <2>3, <2>4, <2>5
<1>2. ASSUME NEW k \in Keys, attempts'[k].outcome \in Unsure  PROVE attempts[k].outcome \in Unsure
  <2>1. \/ attempts'[k] = attempts[k]
        \/ attempts[k].outcome = "admitted"
    BY DEF Interrupted
  <2>. QED BY <1>2, <2>1 DEF Unsure
<1>. QED BY <1>1, <1>2, SettlesByKey DEF TotalsMove

LEMMA FinishTotals ==
  ASSUME MailConstants, Typed, FinishCampaign
  PROVE  TotalsMove
<1>0. UNCHANGED attempts /\ disp.claim \in Campaigns /\ disp.intent \in {"complete", "cancel"}
  BY DEF FinishCampaign, Typed, Dispatchers
<1>1. SettlesOnly
  BY <1>0 DEF SettlesOnly
<1>2. CASE UNCHANGED campaigns
  BY <1>1, <1>2, SameCampaignTotals
<1>3. CASE /\ Held.state = IF disp.intent = "cancel" THEN "cancelling" ELSE "claimed"
           /\ campaigns' = [campaigns EXCEPT ![disp.claim] =
                [Counted(disp.claim, IF Tally(disp.claim, {"unknown", "admitted"}) > 0 THEN "unknown"
                                     ELSE IF disp.intent = "cancel" THEN "cancelled" ELSE "completed")
                   EXCEPT !.intent = disp.intent]]
  <2>. DEFINE c == disp.claim
              s == IF Tally(c, {"unknown", "admitted"}) > 0 THEN "unknown"
                   ELSE IF disp.intent = "cancel" THEN "cancelled" ELSE "completed"
              row == [Counted(c, s) EXCEPT !.intent = disp.intent]
  <2>1. /\ s \in {"unknown", "cancelled", "completed"} /\ s \in States /\ s \in ClosedOut
        /\ Tally(c, {"unknown", "admitted"}) > 0 => s = "unknown"
    BY DEF States, Active, ClosedOut, Open, Fresh
  <2>2. campaigns' = [campaigns EXCEPT ![c] = row]
    BY <1>3
  <2>. HIDE DEF s
  <2>3. /\ Counted(c, s) \in Campaign /\ Counted(c, s).state = s
        /\ Counted(c, s).accepted = Tally(c, {"accepted"})
        /\ Counted(c, s).unknown = Tally(c, {"unknown", "admitted"})
    BY <1>0, <2>1, CountedTyped
  <2>4. /\ row.state = s /\ row.accepted = Tally(c, {"accepted"})
        /\ row.unknown = Tally(c, {"unknown", "admitted"})
    BY <2>3 DEF Campaign
  <2>. HIDE DEF row
  <2>5. campaigns'[c] = row /\ \A d \in Campaigns : d # c => campaigns'[d] = campaigns[d]
    BY <1>0, <2>2 DEF Typed, TypeOK
  <2>6. campaigns[c].state \in Open
    BY <1>3 DEF Held, Open
  <2>7. CountsNow(c)
    BY <2>1, <2>4, <2>5, <2>6 DEF CountsNow, Unsure
  <2>. QED BY <1>1, <2>5, <2>7 DEF TotalsMove, SameTotals
<1>. QED BY <1>2, <1>3 DEF FinishCampaign

LEMMA UncountedTotals ==
  ASSUME Typed, TotalsInv, NEW c \in Campaigns, campaigns[c].state \in Open
  PROVE  ~campaigns[c].counted
BY DEF TotalsInv, ClosedOut

LEMMA ClaimTotals ==
  ASSUME MailConstants, Typed, TotalsInv, ClaimCampaign
  PROVE  TotalsMove
<1>1. CASE UNCHANGED <<campaigns, attempts>>
  BY <1>1, SameCampaignTotals DEF SettlesOnly
<1>2. CASE \E c \in Head : Interrupted({c})
  <2>1. PICK c \in Head : Interrupted({c})
    BY <1>2
  <2>2. \A x \in Campaigns \cap {c} : campaigns[x].state \in Open
    BY HeadOpen DEF Open
  <2>. QED BY <2>1, <2>2, InterruptedTotals
<1>3. CASE \E c \in Head :
          /\ campaigns[c].state = "queued"
          /\ campaigns' = [campaigns EXCEPT ![c].state = "claimed", ![c].binding = disp.binding]
          /\ UNCHANGED attempts
  <2>1. PICK c \in Head :
          /\ campaigns[c].state = "queued"
          /\ campaigns' = [campaigns EXCEPT ![c].state = "claimed", ![c].binding = disp.binding]
          /\ UNCHANGED attempts
    BY <1>3
  <2>2. c \in Campaigns /\ ~campaigns[c].counted
    BY <2>1, HeadOpen, UncountedTotals DEF Open
  <2>3. \A d \in Campaigns : SameTotals(d)
    BY <2>1, <2>2 DEF SameTotals, Typed, TypeOK, Campaign
  <2>. QED BY <2>1, <2>3 DEF TotalsMove, SettlesOnly
<1>. QED BY <1>1, <1>2, <1>3 DEF ClaimCampaign

LEMMA AdmitTotals ==
  ASSUME MailConstants, Typed, TotalsInv, AdmitConfirmation \/ AdmitRecipient
  PROVE  TotalsMove /\ SendsNothing
<1>0. /\ UNCHANGED <<campaigns, wire, delivered>> /\ disp.key \in Keys /\ disp.pc = "admitting"
      /\ disp'.pc = "sending" => disp'.key = disp.key
      /\ UNCHANGED attempts \/ attempts' = Admitted(disp.key)
  BY DEF AdmitConfirmation, AdmitRecipient, provider, Typed, Dispatchers, Dispatch,
         Goto, EndTick, Sleep, Idle
<1>1. \/ UNCHANGED attempts /\ disp'.pc # "sending"
      \/ disp.key[2] = Confirmation
      \/ campaigns[disp.key[2]].state = "claimed"
  BY <1>0 DEF AdmitConfirmation, AdmitRecipient, Valid, EndTick, Sleep, Idle
<1>2. ASSUME NEW i \in Enrollments, NEW c \in Campaigns, campaigns'[c].counted,
             <<i, c>> = disp.key
      PROVE  UNCHANGED attempts /\ disp'.pc # "sending"
  <2>1. campaigns[c].counted /\ disp.key[2] = c /\ c # Confirmation
    BY <1>0, <1>2 DEF MailConstants
  <2>. QED BY <1>1, <2>1, UncountedTotals DEF Open
<1>3. \A q \in Keys : q # disp.key => attempts'[q] = attempts[q]
  BY <1>0, AdmittedTyped
<1>4. SettlesOnly
  BY <1>2, <1>3 DEF SettlesOnly, Keys, Kinds
<1>5. SendsNothing
  BY <1>0, <1>2 DEF SendsNothing, Sent, Permit, Flying
<1>. QED BY <1>0, <1>4, <1>5, SameCampaignTotals

LEMMA SettleTotals ==
  ASSUME Typed, UNCHANGED campaigns, disp.key \in Keys, NEW o \in Outcomes, FinishAttempt(o)
  PROVE  TotalsMove
<1>1. \A k \in Keys : attempts'[k] = attempts[k] \/ attempts[k].outcome = "admitted"
  BY FinishAttemptTyped
<1>2. SettlesOnly
  BY <1>1, SettlesByKey DEF Unsure
<1>. QED BY <1>2, SameCampaignTotals

LEMMA DispatcherTotals ==
  ASSUME MailConstants, Typed, TotalsInv, Dispatcher
  PROVE  TotalsMove
<1>1. CASE Tick \/ RenewClaim \/ Choose \/ ChooseArticle
  <2>1. UNCHANGED <<attempts, campaigns>>
    BY <1>1 DEF Tick, RenewClaim, Choose, ChooseArticle, tables
  <2>. QED BY <2>1, SameCampaignTotals DEF SettlesOnly
<1>2. CASE Submit
  <2>1. UNCHANGED campaigns /\ disp.key \in Keys
    BY <1>2 DEF Submit, Typed, Dispatchers
  <2>2. CASE UNCHANGED attempts
    BY <2>1, <2>2, SameCampaignTotals DEF SettlesOnly
  <2>3. CASE FinishAttempt("rejected")
    BY <2>1, <2>3, SettleTotals DEF Outcomes
  <2>. QED BY <1>2, <2>2, <2>3 DEF Submit
<1>3. CASE AnswerArrives
  <2>1. PICK o \in {"accepted", "rejected", "queued", "unknown"} : Answer(o)
    BY <1>3 DEF AnswerArrives
  <2>2. UNCHANGED campaigns /\ disp.key \in Keys /\ FinishAttempt(o) /\ o \in Outcomes
    BY <2>1 DEF Answer, Typed, Dispatchers, Outcomes
  <2>. QED BY <2>2, SettleTotals
<1>. QED BY <1>1, <1>2, <1>3, ClaimTotals, AdmitTotals, FinishTotals DEF Dispatcher

LEMMA RestartTotals ==
  ASSUME MailConstants, Typed, TotalsInv, Restart
  PROVE  TotalsMove
<1>1. CASE RestartCampaigns
  <2>1. \A c \in Campaigns \cap InState({"claimed", "cancelling"}) : campaigns[c].state \in Open
    BY DEF InState, Open
  <2>. QED BY <1>1, <2>1, InterruptedTotals DEF RestartCampaigns
<1>2. CASE RestartAttempts
  <2>1. \A k \in Keys : attempts'[k] = attempts[k] \/ attempts[k].outcome = "admitted"
    BY <1>2 DEF RestartAttempts
  <2>2. SettlesOnly
    BY <2>1, SettlesByKey DEF Unsure
  <2>. QED BY <1>2, <2>2, SameCampaignTotals DEF RestartAttempts
<1>. QED BY <1>1, <1>2 DEF Restart

LEMMA StepTotals ==
  ASSUME MailConstants, Inv, TotalsInv, Next
  PROVE  TotalsMove
<1>0. Typed /\ Consented /\ Once
  BY DEF Inv
<1>1. CASE \E i \in Enrollments : \/ \E m \in Mailboxes : RequestEnrollment(m, i)
                                  \/ ConfirmEnrollment(i) \/ RemoveEnrollment(i) \/ ExpirePending(i)
  BY <1>0, <1>1, VisitorTotals
<1>2. CASE \E k \in Keys : \/ RetireAttempt(k) \/ ConflictingFeedback(k) \/ CorruptFeedback(k)
                           \/ \E s \in BOOLEAN : ApplyFeedback(k, s)
  <2>1. PICK k \in Keys : \/ RetireAttempt(k) \/ ConflictingFeedback(k) \/ CorruptFeedback(k)
                         \/ \E s \in BOOLEAN : ApplyFeedback(k, s)
    BY <1>2
  <2>2. CASE ConflictingFeedback(k) \/ CorruptFeedback(k)
    BY <2>2, SameCampaignTotals DEF ConflictingFeedback, CorruptFeedback, SettlesOnly, tables
  <2>. QED BY <1>0, <2>1, <2>2, RetireTotals, FeedbackTotals
<1>3. CASE \E c \in Campaigns : \/ PublishArticle(c) \/ CreateCampaign(c) \/ ApproveCampaign(c)
                                \/ CancelCampaign(c) \/ LapseLease(c)
  BY <1>0, <1>3, EditTotals
<1>4. CASE RevokeOwner
  <2>1. PICK c \in Campaigns : TRUE
    BY <1>4 DEF RevokeOwner, InState
  <2>. QED BY <1>0, <1>4, <2>1, EditTotals
<1>5. CASE \E b \in Bindings, e \in BOOLEAN : UpdateSettings(b, e)
  BY <1>0, <1>5, SettingsTotals
<1>6. CASE ResetConsent
  BY <1>0, <1>6, ResetTotals
<1>7. CASE \/ \E m \in Mailboxes : ExpireSuppression(m)
           \/ \E gap \in BOOLEAN : FeedbackStops(gap)
           \/ FeedbackHealthy \/ Crash
           \/ \E l \in wire : ProviderAccepts(l)
  <2>1. UNCHANGED <<attempts, campaigns>>
    BY <1>7 DEF ExpireSuppression, FeedbackStops, FeedbackHealthy, Crash, ProviderAccepts, tables
  <2>. QED BY <2>1, SameCampaignTotals DEF SettlesOnly
<1>8. CASE Dispatcher
  BY <1>0, <1>8, DispatcherTotals
<1>9. CASE Restart
  BY <1>0, <1>9, RestartTotals
<1>. QED BY <1>1, <1>2, <1>3, <1>4, <1>5, <1>6, <1>7, <1>8, <1>9 DEF Next

LEMMA StepSendsNothing ==
  ASSUME MailConstants, Inv, TotalsInv, Next
  PROVE  SendsNothing
<1>0. Typed /\ Consented /\ Once
  BY DEF Inv
<1>1. CASE Calm
  BY <1>1 DEF Calm, LettersCalm, SendsNothing, Sent, Flying
<1>2. CASE \/ \E m \in Mailboxes, i \in Enrollments : RequestEnrollment(m, i)
           \/ \E i \in Enrollments : ConfirmEnrollment(i)
  <2>1. UNCHANGED <<wire, delivered, disp>>
    BY <1>2 DEF RequestEnrollment, ConfirmEnrollment, provider
  <2>. QED BY <2>1 DEF SendsNothing, Sent, Permit, Flying
<1>3. CASE Submit
  <2>1. CASE FinishAttempt("rejected") /\ UNCHANGED wire
    <3>1. UNCHANGED <<consent, policy, campaigns, provider>> /\ disp.pc = "sending"
      BY <1>3, <2>1 DEF Submit, provider
    <3>. QED BY <1>0, <1>1, <2>1, <3>1, RefusedCalm
  <2>2. CASE wire' = wire \cup {Letter(disp.key)} /\ Goto("waiting")
    <3>1. /\ disp'.pc = "waiting" /\ disp.pc = "sending" /\ Letter(disp.key)[1] = disp.key
          /\ delivered' = delivered
      BY <1>0, <1>3, <2>2 DEF Submit, Goto, Letter, Typed, Dispatchers, Dispatch
    <3>. QED BY <2>2, <3>1 DEF SendsNothing, Sent, Permit, Flying
  <2>. QED BY <1>3, <2>1, <2>2 DEF Submit
<1>4. CASE \E l \in wire : ProviderAccepts(l)
  <2>1. Flying' = Flying /\ Permit' = Permit
    BY <1>4 DEF ProviderAccepts, Flying, Permit
  <2>. QED BY <2>1 DEF SendsNothing, Sent
<1>. QED BY <1>0, <1>1, <1>2, <1>3, <1>4, StepIsCalm, AdmitTotals

LEMMA StepKeepsTotals == MailConstants /\ Inv /\ TotalsInv /\ [Next]_vars => TotalsInv'
<1>. SUFFICES ASSUME MailConstants, Inv, TotalsInv, [Next]_vars PROVE TotalsInv'
  OBVIOUS
<1>0. Typed /\ Once /\ Typed'
  BY StepKeepsInv DEF Inv
<1>1. CASE Next
  BY <1>0, <1>1, StepTotals, StepSendsNothing, TotalsStep DEF TotalsMove
<1>2. CASE UNCHANGED vars
  <2>1. UNCHANGED <<attempts, campaigns, wire, delivered, disp>>
    BY <1>2 DEF vars, tables, provider
  <2>2. SettlesOnly /\ SendsNothing
    BY <2>1 DEF SettlesOnly, SendsNothing, Sent, Permit, Flying
  <2>. QED BY <1>0, <2>1, <2>2, SameCampaignTotals, TotalsStep DEF TotalsMove
<1>. QED BY <1>1, <1>2

(* The letters of a campaign are counted by their attempts. *)
LEMMA LettersCounted ==
  ASSUME MailConstants, Inv, NEW c \in Campaigns
  PROVE  Cardinality(LettersOf(c)) \in Nat /\ Cardinality(LettersOf(c)) <= Cardinality(SentIn(c))
<1>0. Typed /\ Once
  BY DEF Inv
<1>. DEFINE f == [l \in LettersOf(c) |-> l[1][1]]
<1>1. ASSUME NEW l \in LettersOf(c)
      PROVE  l \in Flying /\ l[1] = <<l[1][1], c>> /\ l[1][1] \in SentIn(c)
  <2>1. l \in Flying /\ l[1] \in Keys /\ l[1][2] = c
    BY <1>0 DEF LettersOf, Flying, Typed, TypeOK, Letters
  <2>2. l[1] = <<l[1][1], c>> /\ l[1][1] \in Enrollments
    BY <2>1 DEF Keys
  <2>. QED BY <2>1, <2>2 DEF SentIn, Sent
<1>2. \A l, n \in LettersOf(c) : l[1][1] = n[1][1] => l = n
  BY <1>0, <1>1 DEF Once
<1>3. f \in Injection(LettersOf(c), SentIn(c))
  BY <1>1, <1>2 DEF Injection, IsInjective
<1>4. SentIn(c) \in SUBSET Enrollments
  BY DEF SentIn
<1>5. IsFiniteSet(SentIn(c))
  BY <1>4, EnrollmentsFinite
<1>6. IsFiniteSet(LettersOf(c)) /\ Cardinality(LettersOf(c)) <= Cardinality(SentIn(c))
  BY <1>3, <1>5, FS_Injection
<1>. QED BY <1>6, FS_CardinalityType

LEMMA TotalsFollow ==
  ASSUME MailConstants, Inv, TotalsInv
  PROVE  /\ TotalsHold
         /\ \A k \in Keys : k[2] \in Campaigns /\ campaigns[k[2]].counted /\ Unsettled(k)
              => Reconcilable(k[2])
<1>1. ASSUME NEW c \in Campaigns, campaigns[c].counted
      PROVE  /\ Cardinality(LettersOf(c)) <= campaigns[c].accepted + campaigns[c].unknown
             /\ Tally(c, {"unknown"}) <= campaigns[c].unknown
  <2>1. /\ Cardinality(SentIn(c)) <= campaigns[c].accepted + campaigns[c].unknown
        /\ Tally(c, Unsure) <= campaigns[c].unknown
        /\ campaigns[c].accepted \in Nat /\ campaigns[c].unknown \in Nat
    BY <1>1 DEF TotalsInv, Inv, Typed, TypeOK, Campaign
  <2>2. SentIn(c) \in SUBSET Enrollments
    BY DEF SentIn
  <2>3. Cardinality(SentIn(c)) \in Nat
    BY <2>2, EnrollmentsFinite
  <2>. DEFINE T == {i \in Enrollments : attempts[<<i, c>>].outcome \in {"unknown"}}
              U == {i \in Enrollments : attempts[<<i, c>>].outcome \in Unsure}
  <2>4. /\ U \in SUBSET Enrollments /\ T \in SUBSET U /\ T \in SUBSET Enrollments
        /\ Tally(c, {"unknown"}) = Cardinality(T) /\ Tally(c, Unsure) = Cardinality(U)
    BY DEF Unsure, Tally
  <2>. HIDE DEF T, U
  <2>5. Cardinality(T) <= Cardinality(U) /\ Cardinality(T) \in Nat /\ Cardinality(U) \in Nat
    BY <2>4, FewerEnrollments, EnrollmentsFinite
  <2>. QED BY <2>1, <2>3, <2>4, <2>5, LettersCounted
<1>2. ASSUME NEW k \in Keys, k[2] \in Campaigns, campaigns[k[2]].counted, Unsettled(k)
      PROVE  Reconcilable(k[2])
  <2>. DEFINE c == k[2]
              U == {i \in Enrollments : attempts[<<i, c>>].outcome \in Unsure}
  <2>1. k[1] \in U /\ U \in SUBSET Enrollments
    BY <1>2 DEF Unsettled, Unsure, Keys
  <2>2. Cardinality(U) # 0 /\ Cardinality(U) \in Nat
    BY <2>1, EnrollmentsFinite, FS_EmptySet
  <2>3. /\ Cardinality(U) <= campaigns[c].unknown /\ campaigns[c].unknown \in Nat
        /\ campaigns[c].unknown > 0 => campaigns[c].state \in {"unknown", "quarantined"}
    BY <1>2 DEF TotalsInv, Tally, Inv, Typed, TypeOK, Campaign
  <2>. QED BY <2>2, <2>3 DEF Reconcilable
<1>. QED BY <1>1, <1>2 DEF TotalsHold

LEMMA TotalsAlways == Spec => [](Inv /\ TotalsInv)
<1>1. Init => Inv /\ TotalsInv
  BY MailConstants, InitInv DEF Init, TotalsInv
<1>2. Inv /\ TotalsInv /\ [Next]_vars => (Inv /\ TotalsInv)'
  BY MailConstants, StepKeepsInv, StepKeepsTotals
<1>. QED BY <1>1, <1>2, PTL DEF Spec

(* The totals of a closed campaign, once counted, stand for every letter    *)
(* the provider accepted, whatever answers, feedback and retention do later.*)
THEOREM MailTotalsHold == Spec => []TotalsHold
BY TotalsAlways, MailConstants, TotalsFollow, PTL

(* An attempt that is still unsettled has its place in the totals. *)
CountedReconcile == \A k \in Keys :
  k[2] \in Campaigns /\ campaigns[k[2]].counted /\ Unsettled(k) => Reconcilable(k[2])

(* An answer or an event for an attempt of a counted campaign is never the  *)
(* corrupt state reconcile_campaign_acceptance ends the process for.        *)
THEOREM MailCountedReconcile == Spec => []CountedReconcile
<1>1. MailConstants /\ Inv /\ TotalsInv => CountedReconcile
  BY TotalsFollow DEF CountedReconcile
<1>. QED BY <1>1, TotalsAlways, MailConstants, PTL
=============================================================================
