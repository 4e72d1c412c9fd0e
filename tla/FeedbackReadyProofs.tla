------------------------- MODULE FeedbackReadyProofs -------------------------
(***************************************************************************)
(* The theorem that feedback is declared fresh only when every event was   *)
(* seen, for any messages, queues, windows and bounds.  Its invariant says *)
(* what the row's lease covers, what its last observation still promises,  *)
(* and what an empty answer is worth until it is published.                *)
(***************************************************************************)
EXTENDS MailFeedbackProofs

Events ==
  [state : {"none", "queued", "dead", "deleted", "lost"}, in : Queues \cup {None},
   since : Nat, hidden : Nat, leased : BOOLEAN, applied : BOOLEAN]

Waiting(m) == queue[m].state = "queued" /\ ~queue[m].applied
Awaited(m) == Waiting(m) /\ queue[m].leased
Missed(m)  == queue[m].state = "lost" /\ ~queue[m].applied

(* A poll is the worker's until it is settled; while it is live, nothing it *)
(* did is left to a request that nobody waits for.                          *)
Polled == worker.pc \in {"receive", "apply", "acknowledge", "settle"}
            \/ (worker.pc = "publish" /\ worker.next = "settle")
Live   == worker.pc \in {"receive", "apply", "acknowledge"}
            \/ (worker.pc = "settle" /\ ~worker.uncertain)
InRun  == worker.pc \notin {"down", "start", "preflight", "begin"}

(* The row waits until t before anything is declared fresh again. *)
Covers(t) == control.recover >= t \/ (control.poll # 0 /\ ~Live /\ control.poll + Lease >= t)

Rests ==
  /\ queue \in [Messages -> Events]
  /\ requests \subseteq [signed : 0..(MaxTime + 1), in : Queues, leased : BOOLEAN]
  /\ \A m \in Messages : queue[m].state = "none" => queue[m].hidden = 0
Remembers == \A m \in Messages : queue[m].state = "none" \/ queue[m].applied \/ retained
Places ==
  /\ control.run /\ InRun => control.source = worker.source
  /\ \A m \in Messages : Waiting(m) /\ queue[m].in # control.source => control.gap
Past == control.observed <= clock /\ worker.say.time <= clock /\ worker.now <= clock
Polls ==
  /\ Polled => worker.signed # 0 /\ (worker.leased => control.run)
  /\ worker.pc = "publish" /\ worker.next = "settle" => worker.uncertain
Leases ==
  /\ \A r \in requests : r.leased /\ Executable(r.signed) => Covers(r.signed + Lease)
  /\ \A m \in Messages : Awaited(m) /\ queue[m].hidden > clock =>
       \/ Covers(queue[m].hidden)
       \/ /\ worker.pc = "apply" /\ worker.message = m /\ worker.leased
          /\ queue[m].hidden <= worker.signed + Lease
Keeps ==
  /\ \A m \in Messages : Awaited(m) => control.gap \/ queue[m].since >= control.observed
  /\ \A m \in Messages : Missed(m) => control.gap \/ clock >= control.observed + Retention

(* What an empty answer is worth: an event that it did not show is younger, *)
(* and one that expired before shows as a lapse.                            *)
Sound ==
  /\ clock < worker.say.time + Retention
  /\ \A m \in Messages : Awaited(m) => queue[m].since >= worker.say.time
  /\ \A m \in Messages : Missed(m) => worker.say.time >= control.observed + Retention
Said == worker.say.drained =>
  /\ worker.pc \in {"settle", "publish"}
  /\ worker.pc = "settle" => ~worker.uncertain
  /\ \/ ~control.run \/ control.gap
     \/ worker.say.time < control.provider \/ control.recover > worker.say.time
     \/ Sound

Strong == Rests /\ Remembers /\ Places /\ Past /\ Polls /\ Leases /\ Keeps /\ Said

-----------------------------------------------------------------------------
LEMMA InitStrong == Init => Strong
<1>. SUFFICES ASSUME Init PROVE Strong
  OBVIOUS
<1>1. PICK q \in Queues, b \in Bindings :
        /\ worker = Stopped(q)
        /\ control = [binding |-> b, run |-> FALSE, source |-> None, observed |-> 0,
                      gap |-> FALSE, provider |-> 0, regressed |-> FALSE, poll |-> 0,
                      recover |-> 0, quiet |-> 0, ok |-> FALSE]
  BY DEF Init
<1>2. /\ queue = [m \in Messages |-> Gone("none", FALSE)] /\ requests = {} /\ clock = 1
  BY DEF Init
<1>3. /\ worker.pc = "down" /\ ~worker.say.drained /\ worker.say.time = 0 /\ worker.now = 0
  BY <1>1 DEF Stopped, Unavailable
<1>4. \A m \in Messages : queue[m].state = "none" /\ queue[m].hidden = 0
  BY <1>2 DEF Gone
<1>5. Rests
  BY <1>2, <1>4 DEF Rests, Events, Gone
<1>6. ~control.run /\ control.observed = 0
  BY <1>1
<1>7. Remembers /\ Polls
  BY <1>3, <1>4 DEF Remembers, Polls, Polled
<1>10. Past
  BY <1>2, <1>3, <1>6 DEF Past
<1>9. Places
  BY <1>4, <1>6 DEF Places, Waiting
<1>8. Leases /\ Keeps /\ Said
  BY <1>2, <1>3, <1>4 DEF Leases, Keeps, Said, Waiting, Awaited, Missed
<1>. QED BY <1>5, <1>7, <1>8, <1>9, <1>10 DEF Strong

(* Types that the leaves need, gathered. *)
LEMMA Numbers ==
  ASSUME Inv
  PROVE  /\ clock \in Nat /\ clock >= 1 /\ control.observed \in Nat /\ control.provider \in Nat
         /\ control.poll \in Nat /\ control.recover \in Nat
         /\ worker.now \in Nat /\ worker.signed \in Nat /\ worker.say.time \in Nat
         /\ Lease = Validity + Visibility /\ Validity \in Nat /\ Visibility \in Nat /\ Visibility > 0
         /\ Retention \in Nat /\ Retention > 0
<1>1. /\ clock \in 1..MaxTime /\ control.observed \in 0..MaxTime /\ control.provider \in 0..MaxTime
      /\ control.poll \in 0..(MaxTime + 1) /\ control.recover \in Times
      /\ worker.now \in 0..MaxTime /\ worker.signed \in 0..(MaxTime + 1)
      /\ worker.say.time \in 0..MaxTime
  BY DEF Inv, Typed, Controls, Workers, Says
<1>2. Lease \in Nat /\ MaxTime \in Nat
  BY FeedbackConstants DEF Lease
<1>. QED BY <1>1, <1>2, FeedbackConstants DEF Times, Lease

-----------------------------------------------------------------------------
(* Frames. *)

(* The row forgets nothing, and the queue and the clock stand still. *)
Steady ==
  /\ UNCHANGED <<queue, clock>> /\ control'.source = control.source
  /\ control'.observed = control.observed /\ control'.provider = control.provider
  /\ control.gap => control'.gap
  /\ retained => retained'

LEMMA SteadyKeeps ==
  ASSUME Inv, Strong, Steady
  PROVE  /\ Remembers' /\ Keeps' /\ queue' \in [Messages -> Events]
         /\ \A m \in Messages : queue'[m].state = "none" => queue'[m].hidden = 0
         /\ \A m \in Messages : Waiting(m)' /\ queue'[m].in # control'.source => control'.gap
         /\ control'.observed <= clock'
<1>1. Remembers'
  BY DEF Strong, Steady, Remembers
<1>2. Keeps'
  BY DEF Strong, Steady, Keeps, Awaited, Missed, Waiting
<1>. QED BY <1>1, <1>2 DEF Strong, Steady, Rests, Places, Past, Waiting

(* A poll that is no longer live is covered as long as the row keeps it.    *)
LEMMA CoversStay ==
  ASSUME Inv, NEW t \in Nat, Covers(t), control'.recover \in Nat,
         control'.recover >= control.recover, control'.poll = control.poll, Live' => Live
  PROVE  Covers(t)'
BY Numbers DEF Covers

(* The worker's own poll, when it stops being live. *)
LEMMA OwnCovered ==
  ASSUME Inv, Strong, Polled, worker.leased, worker.next # "settle",
         control'.poll = control.poll, ~Live', NEW t \in Nat, t <= worker.signed + Lease
  PROVE  Covers(t)'
<1>1. control.poll = worker.signed /\ worker.signed # 0
  BY DEF Inv, Course, Strong, Polls, Polled
<1>2. control'.poll # 0 /\ control'.poll + Lease >= t
  BY <1>1, Numbers
<1>. QED BY <1>2 DEF Covers

(* Steps after which the worker has no live poll and no empty answer. *)
LEMMA AwayKeeps ==
  ASSUME Inv, Inv', Strong, Steady,
         ~Live', ~worker'.say.drained, worker'.say.time <= clock, worker'.now <= clock,
         control'.recover >= control.recover, control'.poll = control.poll,
         \/ requests' = requests
         \/ worker.pc = "receive" /\ requests' = requests \cup {Abandoned},
         control'.run /\ InRun' => control.run /\ InRun /\ worker'.source = worker.source,
         Polled' => /\ Polled /\ worker'.signed = worker.signed /\ worker'.leased = worker.leased
                    /\ control'.run = control.run /\ worker'.uncertain
  PROVE  Strong'
<1>1. Rests'
  <2>1. Abandoned \in [signed : 0..(MaxTime + 1), in : Queues, leased : BOOLEAN]
    BY DEF Abandoned, Inv, Typed, Workers
  <2>. QED BY <2>1, SteadyKeeps DEF Rests, Strong
<1>2. Places'
  BY SteadyKeeps DEF Places, Strong, Steady
<1>3. Past'
  BY SteadyKeeps DEF Past, Steady
<1>4. Polls'
  BY DEF Polls, Strong, Polled
<1>5. Leases'
  <2>0. control'.recover \in Nat
    BY Windows DEF Inv, Typed, Controls, Times
  <2>1. ASSUME NEW r \in requests', r.leased, Executable(r.signed)'
        PROVE  Covers(r.signed + Lease)'
    <3>1. CASE r \in requests
      <4>1. r.signed + Lease \in Nat
        BY <3>1, Numbers, FeedbackConstants DEF Strong, Rests
      <4>2. Covers(r.signed + Lease)
        BY <2>1, <3>1 DEF Strong, Leases, Steady, Executable
      <4>. QED BY <4>1, <4>2, <2>0, CoversStay
    <3>2. CASE r \notin requests
      <4>1. worker.pc = "receive" /\ r = Abandoned
        BY <2>1, <3>2
      <4>2. worker.leased /\ r.signed = worker.signed /\ Polled /\ worker.next # "settle"
        BY <2>1, <4>1 DEF Abandoned, Polled, Inv, Course
      <4>3. r.signed + Lease \in Nat /\ r.signed + Lease <= worker.signed + Lease
        BY <4>2, Numbers
      <4>. QED BY <4>2, <4>3, OwnCovered
    <3>. QED BY <3>1, <3>2
  <2>2. ASSUME NEW m \in Messages, Awaited(m)', queue'[m].hidden > clock',
               NEW t \in Nat, t = queue[m].hidden
        PROVE  Covers(t)'
    <3>1. Awaited(m) /\ queue[m].hidden > clock
      BY <2>2 DEF Awaited, Waiting, Steady
    <3>2. CASE Covers(queue[m].hidden)
      <4>1. Covers(t)
        BY <2>2, <3>2
      <4>. QED BY <2>0, <4>1, CoversStay
    <3>3. CASE /\ worker.pc = "apply" /\ worker.leased
               /\ queue[m].hidden <= worker.signed + Lease
      BY <2>2, <3>3, OwnCovered DEF Polled, Inv, Course
    <3>. QED BY <3>1, <3>2, <3>3 DEF Strong, Leases
  <2>3. \A m \in Messages : queue'[m].hidden = queue[m].hidden /\ queue[m].hidden \in Nat
    BY DEF Steady, Strong, Rests, Events
  <2>4. ASSUME NEW m \in Messages, Awaited(m)', queue'[m].hidden > clock'
        PROVE  Covers(queue[m].hidden)'
    BY <2>2, <2>3, <2>4
  <2>. QED BY <2>1, <2>4 DEF Leases
<1>. QED BY <1>1, <1>2, <1>3, <1>4, <1>5, SteadyKeeps DEF Strong, Said

(* What a publication is about to say. *)
LEMMA SaySaid ==
  ASSUME NEW w \in Workers, NEW o \in Says
  PROVE  LET s == Say(w, o)
         IN  /\ s.source = w.source /\ s.now = w.now /\ s.uncertain = w.uncertain
             /\ s.leased = w.leased
             /\ s.say = o \/ (~s.say.drained /\ s.say.time = 0)
BY DEF Say, Workers, Reconcile

LEMMA ReloadAway ==
  ASSUME Inv, Reload
  PROVE  /\ worker'.pc = "start" /\ ~worker'.say.drained /\ worker'.say.time = 0
         /\ worker'.now = 0
BY DEF Reload, Stopped, Unavailable

LEMMA ReloadKeepsStrong ==
  ASSUME Inv, Inv', Strong, Reload, UNCHANGED <<control, retained, external>>
  PROVE  Strong'
<1>1. Steady
  BY DEF Steady, external
<1>2. ~Live' /\ ~Polled' /\ ~InRun' /\ ~worker'.say.drained
  BY ReloadAway DEF Live, Polled, InRun
<1>3. worker'.say.time <= clock /\ worker'.now <= clock
  BY ReloadAway, Numbers
<1>4. control'.recover >= control.recover /\ control'.poll = control.poll /\ requests' = requests
  BY Numbers DEF external
<1>. QED BY <1>1, <1>2, <1>3, <1>4, AwayKeeps

(* The row as it is, but for freshness, the binding, and a gap or an end    *)
(* of the run.                                                              *)
SameRow ==
  /\ UNCHANGED <<queue, clock, retained>>
  /\ control'.source = control.source /\ control'.observed = control.observed
  /\ control'.provider = control.provider /\ control'.recover = control.recover
  /\ control'.poll = control.poll
  /\ control.gap => control'.gap
  /\ control'.run => control.run

LEMMA SameRowSteady ==
  ASSUME Inv, SameRow
  PROVE  Steady /\ control'.recover >= control.recover /\ control'.poll = control.poll
BY Numbers DEF SameRow, Steady

(* The worker says something other than an empty answer, outside a poll.    *)
LEMMA SayingKeepsStrong ==
  ASSUME Inv, Inv', Strong, SameRow, requests' = requests, worker.pc \in {"cycle", "poll", "admit"},
         NEW w \in Workers, NEW o \in Says, worker' = Say(w, o), ~o.drained, o.time <= clock,
         w.source = worker.source, w.now <= clock, w.next # "settle"
  PROVE  Strong'
<1>1. /\ worker'.pc = "publish" /\ worker'.next # "settle" /\ worker'.source = worker.source
      /\ worker'.now = w.now /\ ~worker'.say.drained
      /\ worker'.say.time = o.time \/ worker'.say.time = 0
  BY SayTyped, SaySaid
<1>2. ~Live' /\ ~Polled' /\ InRun
  BY <1>1 DEF Live, Polled, InRun
<1>3. worker'.say.time <= clock /\ worker'.now <= clock
  BY <1>1, Numbers
<1>4. control'.run => control.run
  BY DEF SameRow
<1>. QED BY <1>1, <1>2, <1>3, <1>4, SameRowSteady, AwayKeeps

-----------------------------------------------------------------------------
(* Outside of a poll. *)
LEMMA StoppedKeepsStrong ==
  ASSUME Inv, Inv', Strong, SameRow, worker'.pc \in {"down", "start", "preflight", "begin", "finish"},
         worker'.pc = "finish" => worker.pc \in {"cycle", "poll"} /\ worker'.source = worker.source,
         ~worker'.say.drained, worker'.say.time <= clock, worker'.now <= clock,
         \/ requests' = requests
         \/ worker.pc = "receive" /\ requests' = requests \cup {Abandoned}
  PROVE  Strong'
<1>1. ~Live' /\ ~Polled'
  BY DEF Live, Polled
<1>2. control'.run /\ InRun' => control.run /\ InRun /\ worker'.source = worker.source
  BY DEF InRun, SameRow
<1>. QED BY <1>1, <1>2, SameRowSteady, AwayKeeps

LEMMA UndrainedAway ==
  ASSUME Strong, worker.pc \notin {"settle", "publish"}
  PROVE  ~worker.say.drained
BY DEF Strong, Said

LEMMA StartsKeepStrong ==
  ASSUME Inv, Inv', Strong, (\E q \in Queues : Start(q)) \/ Disclaim
                              \/ (\E t \in {1, clock} : Preflight(t))
  PROVE  Strong'
<1>1. CASE \E q \in Queues : Start(q)
  <2>1. PICK q \in Queues : Start(q)
    BY <1>1
  <2>2. SameRow /\ requests' = requests
    BY <2>1 DEF Start, SameRow, external, Inv, Typed, Controls
  <2>3. worker'.pc = "start" /\ ~worker'.say.drained /\ worker'.say.time = 0 /\ worker'.now = 0
    BY <2>1 DEF Start, Stopped, Unavailable
  <2>. QED BY <2>2, <2>3, Numbers, StoppedKeepsStrong
<1>2. CASE Disclaim
  <2>1. CASE Ours
    <3>1. SameRow /\ requests' = requests
      BY <1>2, <2>1 DEF Disclaim, SameRow, external, Inv, Typed, Controls
    <3>2. worker.pc = "start" /\ worker' = [worker EXCEPT !.pc = "preflight"]
      BY <1>2, <2>1 DEF Disclaim, Goto, At
    <3>3. worker'.pc = "preflight" /\ worker'.say = worker.say /\ worker'.now = worker.now
      BY <3>2 DEF Inv, Typed, Workers
    <3>. QED BY <3>1, <3>2, <3>3, UndrainedAway, StoppedKeepsStrong DEF Strong, Past
  <2>2. CASE ~Ours
    BY <1>2, <2>2, ReloadKeepsStrong DEF Disclaim
  <2>. QED BY <2>1, <2>2
<1>3. CASE \E t \in {1, clock} : Preflight(t)
  <2>1. PICK t \in {1, clock} : Preflight(t)
    BY <1>3
  <2>2. SameRow /\ requests' = requests
    BY <2>1 DEF Preflight, SameRow, external
  <2>3. worker.pc = "preflight"
        /\ worker' = [worker EXCEPT !.pc = "begin", !.now = t, !.gap = Dead # {}]
    BY <2>1 DEF Preflight, At
  <2>4. worker'.pc = "begin" /\ worker'.say = worker.say /\ worker'.now = t
    BY <2>3 DEF Inv, Typed, Workers
  <2>5. t <= clock
    BY Numbers
  <2>. QED BY <2>2, <2>3, <2>4, <2>5, UndrainedAway, StoppedKeepsStrong DEF Strong, Past
<1>. QED BY <1>1, <1>2, <1>3

LEMMA EndsKeepStrong ==
  ASSUME Inv, Inv', Strong, Shutdown \/ FinishRun \/ Crash
  PROVE  Strong'
<1>1. SameRow
  BY DEF Shutdown, FinishRun, Crash, SameRow, external, Inv, Typed, Controls
<1>2. \/ requests' = requests
      \/ worker.pc = "receive" /\ requests' = requests \cup {Abandoned}
  BY DEF Shutdown, FinishRun, Crash, external, At
<1>3. CASE worker' = Stopped(worker.source)
  <2>1. worker'.pc = "down" /\ ~worker'.say.drained /\ worker'.say.time = 0 /\ worker'.now = 0
    BY <1>3 DEF Stopped, Unavailable
  <2>. QED BY <1>1, <1>2, <2>1, Numbers, StoppedKeepsStrong
<1>4. CASE worker.pc \in {"cycle", "poll"} /\ worker' = [worker EXCEPT !.pc = "finish"]
  <2>1. worker'.pc = "finish" /\ worker'.say = worker.say /\ worker'.now = worker.now
        /\ worker'.source = worker.source
    BY <1>4 DEF Inv, Typed, Workers
  <2>. QED BY <1>1, <1>2, <1>4, <2>1, UndrainedAway, StoppedKeepsStrong DEF Strong, Past
<1>. QED BY <1>3, <1>4 DEF Shutdown, FinishRun, Crash, At

LEMMA CyclePreflightKeepsStrong ==
  ASSUME Inv, Inv', Strong, NEW t \in {1, clock}, NEW drained \in BOOLEAN,
         CyclePreflight(t, drained)
  PROVE  Strong'
<1>0. /\ SameRow /\ requests' = requests /\ worker.pc = "cycle" /\ worker \in Workers
      /\ worker.next = "cycle" /\ t \in 0..MaxTime /\ t <= clock /\ worker.now <= clock
  BY ReadingTyped, Numbers
     DEF CyclePreflight, SameRow, external, At, Inv, Typed, Course, Strong, Past
<1>1. CASE t < worker.now
  <2>. DEFINE w == [worker EXCEPT !.drained = FALSE]
  <2>1. worker' = Say(w, Unavailable)
    BY <1>1 DEF CyclePreflight
  <2>2. /\ w \in Workers /\ w.source = worker.source /\ w.now = worker.now /\ w.next = "cycle"
    BY <1>0 DEF Workers
  <2>3. Unavailable \in Says /\ ~Unavailable.drained /\ Unavailable.time <= clock
    BY StoppedTyped, Numbers, FeedbackConstants DEF Unavailable
  <2>. HIDE DEF w
  <2>. QED BY <1>0, <2>1, <2>2, <2>3, SayingKeepsStrong
<1>2. CASE ~(t < worker.now)
  <2>. DEFINE d == drained /\ Dead = {}
              g == worker.gap \/ Dead # {}
              w == [worker EXCEPT !.now = t, !.drained = d, !.gap = g, !.next = "poll"]
              o == IF d THEN Checked(t) ELSE Observed(t, FALSE)
  <2>1. worker' = Say(w, o)
    BY <1>2 DEF CyclePreflight
  <2>2. d \in BOOLEAN /\ g \in BOOLEAN
    OBVIOUS
  <2>3. o \in Says /\ ~o.drained /\ o.time = t
    BY <1>0 DEF Checked, Observed, Says
  <2>. HIDE DEF d, g, o
  <2>4. w \in Workers /\ w.source = worker.source /\ w.now = t /\ w.next = "poll"
    BY <1>0, <2>2 DEF Workers
  <2>. HIDE DEF w
  <2>. QED BY <1>0, <2>1, <2>3, <2>4, SayingKeepsStrong
<1>. QED BY <1>1, <1>2

LEMMA SmallSays ==
  ASSUME Inv, NEW o \in {Reconcile, Unavailable}
  PROVE  o \in Says /\ ~o.drained /\ o.time <= clock
<1>1. o \in Says
  BY StoppedTyped, FeedbackConstants
<1>2. ~o.drained /\ o.time = 0
  BY DEF Unavailable, Reconcile
<1>. QED BY <1>1, <1>2, Numbers

LEMMA PreflightFailsKeepsStrong ==
  ASSUME Inv, Inv', Strong, NEW broken \in BOOLEAN, PreflightFails(broken)
  PROVE  Strong'
<1>0. /\ SameRow /\ requests' = requests /\ worker.pc \in {"cycle", "preflight"}
      /\ worker \in Workers /\ worker.next = "cycle" /\ worker.now <= clock
      /\ UNCHANGED <<retained, external>>
  <2>1. SameRow
    <3>1. CASE broken /\ Ours
      BY <3>1 DEF PreflightFails, SameRow, external, Inv, Typed, Controls
    <3>2. CASE ~(broken /\ Ours)
      BY <3>2 DEF PreflightFails, SameRow, external
    <3>. QED BY <3>1, <3>2
  <2>. QED BY <2>1 DEF PreflightFails, external, At, Inv, Typed, Course, Strong, Past
<1>1. CASE broken /\ ~Ours
  BY <1>0, <1>1, ReloadKeepsStrong DEF PreflightFails
<1>2. CASE worker.pc = "preflight" /\ worker' = [worker EXCEPT !.pc = "start"]
  <2>1. worker'.pc = "start" /\ worker'.say = worker.say /\ worker'.now = worker.now
    BY <1>0, <1>2 DEF Workers
  <2>. QED BY <1>0, <1>2, <2>1, UndrainedAway, StoppedKeepsStrong DEF Strong, Past
<1>3. CASE worker.pc = "cycle" /\ \E o \in {Reconcile, Unavailable} :
             worker' = Say([worker EXCEPT !.drained = FALSE], o)
  <2>. DEFINE w == [worker EXCEPT !.drained = FALSE]
  <2>1. /\ w \in Workers /\ w.source = worker.source /\ w.now = worker.now /\ w.next = "cycle"
    BY <1>0 DEF Workers
  <2>2. PICK o \in {Reconcile, Unavailable} : worker' = Say(w, o)
    BY <1>3
  <2>. HIDE DEF w
  <2>. QED BY <1>0, <1>3, <2>1, <2>2, SmallSays, SayingKeepsStrong
<1>. QED BY <1>0, <1>1, <1>2, <1>3 DEF PreflightFails, At

LEMMA GoPollKeepsStrong ==
  ASSUME Inv, Inv', Strong, GoPoll
  PROVE  Strong'
<1>0. /\ SameRow /\ requests' = requests /\ worker.pc \in {"cycle", "poll"}
      /\ worker \in Workers /\ worker.next = "cycle" /\ worker.now <= clock
      /\ worker.say.time <= clock
  BY DEF GoPoll, SameRow, external, At, Inv, Typed, Course, Strong, Past
<1>1. CASE worker' = Say(worker, Unavailable)
  BY <1>0, <1>1, SmallSays, SayingKeepsStrong
<1>2. CASE worker' = [worker EXCEPT !.pc = "admit"]
  <2>1. /\ worker'.pc = "admit" /\ worker'.say = worker.say /\ worker'.now = worker.now
        /\ worker'.source = worker.source
    BY <1>0, <1>2 DEF Workers
  <2>2. ~Live' /\ ~Polled' /\ InRun
    BY <1>0, <2>1 DEF Live, Polled, InRun
  <2>3. control'.run => control.run
    BY <1>0 DEF SameRow
  <2>4. ~worker.say.drained
    BY <1>0, UndrainedAway
  <2>. QED BY <1>0, <2>1, <2>2, <2>3, <2>4, SameRowSteady, AwayKeeps
<1>. QED BY <1>1, <1>2 DEF GoPoll

(* The poll that is put on record begins live, with nothing on record       *)
(* before it.                                                               *)
LEMMA AdmitPollKeepsStrong ==
  ASSUME Inv, Inv', Strong, NEW t \in {clock, clock + 1}, AdmitPoll(t)
  PROVE  Strong'
<1>0. /\ UNCHANGED <<retained, external>> /\ worker.pc = "admit" /\ worker \in Workers
      /\ worker.next = "cycle" /\ worker.now <= clock
  BY DEF AdmitPoll, external, At, Inv, Typed, Course, Strong, Past
<1>1. CASE Reload /\ UNCHANGED control
  BY <1>0, <1>1, ReloadKeepsStrong
<1>2. CASE UNCHANGED control /\ \E o \in {Reconcile, Unavailable} : worker' = Say(worker, o)
  <2>1. SameRow /\ requests' = requests
    BY <1>0, <1>2 DEF SameRow, external
  <2>. QED BY <1>0, <1>2, <2>1, SmallSays, SayingKeepsStrong
<1>3. CASE /\ Held /\ control.poll = 0 /\ control' = [control EXCEPT !.poll = t]
           /\ worker' = [worker EXCEPT !.pc = "receive", !.signed = t, !.leased = TRUE]
  <2>1. /\ control'.poll = t /\ control'.run = control.run /\ control.run
        /\ control'.gap = control.gap /\ control'.provider = control.provider
        /\ control'.source = control.source /\ control'.observed = control.observed
        /\ control'.recover = control.recover
    BY <1>3 DEF Inv, Typed, Controls, Held
  <2>2. /\ worker'.pc = "receive" /\ worker'.signed = t /\ worker'.source = worker.source
        /\ worker'.say = worker.say /\ worker'.now = worker.now
    BY <1>0, <1>3 DEF Workers
  <2>3. Steady /\ requests' = requests /\ UNCHANGED <<queue, clock>>
    BY <1>0, <2>1 DEF Steady, external
  <2>4. InRun /\ ~worker.say.drained
    BY <1>0, UndrainedAway DEF InRun
  <2>5. Rests' /\ Places' /\ Past'
    BY <2>1, <2>2, <2>3, <2>4, SteadyKeeps DEF Strong, Rests, Places, Past
  <2>6. Polls'
    BY <2>1, <2>2, Numbers DEF Polls
  <2>7. Leases'
    <3>1. ASSUME NEW u, Covers(u) PROVE Covers(u)'
      BY <1>3, <2>1, <3>1 DEF Covers
    <3>2. \A m \in Messages : Awaited(m)' => Awaited(m) /\ queue'[m] = queue[m]
      BY <2>3 DEF Awaited, Waiting
    <3>3. \A r \in requests : Executable(r.signed)' => Executable(r.signed)
      BY <2>3 DEF Executable
    <3>4. ASSUME NEW m \in Messages, Awaited(m)', queue'[m].hidden > clock'
          PROVE  Covers(queue[m].hidden)'
      <4>1. Covers(queue[m].hidden)
        BY <1>0, <2>3, <3>2, <3>4 DEF Strong, Leases
      <4>2. control.recover >= queue[m].hidden /\ queue'[m].hidden = queue[m].hidden
        BY <1>3, <2>3, <4>1 DEF Covers
      <4>. QED BY <2>1, <4>2 DEF Covers
    <3>. QED BY <2>3, <3>1, <3>3, <3>4 DEF Strong, Leases
  <2>. QED BY <2>2, <2>3, <2>4, <2>5, <2>6, <2>7, SteadyKeeps DEF Strong, Said
<1>. QED BY <1>1, <1>2, <1>3 DEF AdmitPoll

-----------------------------------------------------------------------------
(* The transactions of a run. *)

(* What was waiting when a run begins elsewhere, or too late, is a gap; the *)
(* lease of a poll that was left on record is kept.                         *)
LEMMA BeginRunKeepsStrong ==
  ASSUME Inv, Inv', Strong, BeginRun
  PROVE  Strong'
<1>0. /\ UNCHANGED <<retained, external>> /\ worker.pc = "begin" /\ worker \in Workers
      /\ worker.next = "cycle" /\ worker.now <= clock /\ worker.now \in 0..MaxTime
  BY DEF BeginRun, external, At, Inv, Typed, Course, Strong, Past, Workers
<1>1. CASE Ours
  <2>. DEFINE w == [worker EXCEPT !.recover = control'.recover, !.gap = @ \/ control'.gap]
              o == Observed(worker.now, FALSE)
  <2>1. control' = Begun(worker.now) /\ worker' = Say(w, o)
    BY <1>1 DEF BeginRun
  <2>2. control' \in Controls
    BY DEF Inv, Typed
  <2>3. /\ w \in Workers /\ w.source = worker.source /\ w.now = worker.now /\ w.next = "cycle"
    BY <1>0, <2>2 DEF Workers, Controls
  <2>4. o \in Says /\ ~o.drained /\ o.time = worker.now
    BY <1>0 DEF Observed, Says
  <2>5. /\ worker'.pc = "publish" /\ worker'.next = "cycle" /\ worker'.source = worker.source
        /\ worker'.now = worker.now /\ ~worker'.say.drained
        /\ worker'.say.time = worker.now \/ worker'.say.time = 0
    <3>. HIDE DEF w, o
    <3>. QED BY <2>1, <2>3, <2>4, SayTyped, SaySaid
  <2>6. /\ control'.source = worker.source /\ control'.observed = control.observed
        /\ control'.gap = (control.gap \/ (retained /\ Lapsed(worker.now)))
        /\ control'.recover = IF control.poll = 0 THEN control.recover
                              ELSE Later(control.recover, control.poll + Lease)
    BY <2>1 DEF Begun, Inv, Typed, Controls
  <2>7. UNCHANGED <<queue, requests, clock, retained>>
    BY <1>0 DEF external
  <2>8. ~Polled' /\ ~Live'
    BY <2>5 DEF Polled, Live
  <2>9. Rests' /\ Remembers' /\ Polls' /\ Past'
    <3>1. control'.observed <= clock /\ worker'.say.time <= clock /\ worker'.now <= clock
      BY <1>0, <2>5, <2>6, Numbers DEF Strong, Past
    <3>2. Rests' /\ Remembers'
      BY <2>7 DEF Strong, Rests, Remembers
    <3>3. Polls'
      BY <2>5, <2>8 DEF Polls
    <3>. QED BY <2>7, <3>1, <3>2, <3>3 DEF Past
  <2>10. Places'
    <3>1. ASSUME NEW m \in Messages, Waiting(m), queue[m].in # worker.source
          PROVE  control'.gap
      <4>1. retained
        BY <3>1 DEF Strong, Remembers, Waiting
      <4>2. control.gap \/ control.source # worker.source
        BY <3>1 DEF Strong, Places
      <4>. QED BY <2>6, <4>1, <4>2 DEF Lapsed
    <3>. QED BY <2>5, <2>6, <2>7, <3>1 DEF Places, Waiting
  <2>11. Keeps'
    BY <2>6, <2>7 DEF Strong, Keeps, Awaited, Waiting, Missed
  <2>12. Leases'
    <3>1. ASSUME NEW u \in Nat, Covers(u) PROVE Covers(u)'
      <4>1. control.recover >= u \/ (control.poll # 0 /\ control.poll + Lease >= u)
        BY <3>1 DEF Covers
      <4>2. control'.recover >= u
        BY <2>6, <4>1, Numbers DEF Later
      <4>. QED BY <4>2 DEF Covers
    <3>2. \A r \in requests : r.signed + Lease \in Nat
      BY Numbers DEF Strong, Rests
    <3>3. \A m \in Messages : queue[m].hidden \in Nat
      BY DEF Strong, Rests, Events
    <3>4. ASSUME NEW r \in requests, r.leased, Executable(r.signed)'
          PROVE  Covers(r.signed + Lease)'
      BY <2>7, <3>1, <3>2, <3>4 DEF Strong, Leases, Executable
    <3>5. ASSUME NEW m \in Messages, Awaited(m)', queue'[m].hidden > clock', NEW u, u = queue[m].hidden
          PROVE  Covers(u)'
      <4>1. Covers(u)
        BY <1>0, <2>7, <3>5 DEF Strong, Leases, Awaited, Waiting
      <4>. QED BY <3>1, <3>3, <3>5, <4>1
    <3>. QED BY <2>7, <3>4, <3>5 DEF Leases
  <2>. QED BY <2>5, <2>9, <2>10, <2>11, <2>12 DEF Strong, Said
<1>2. CASE ~Ours
  BY <1>0, <1>2, ReloadKeepsStrong DEF BeginRun
<1>. QED BY <1>1, <1>2

(* Freshness is declared by an empty answer that still holds, when nothing  *)
(* is hidden and nothing was missed.                                        *)
LEMMA ReadyIsQuiet ==
  ASSUME Inv, Strong, Held, worker.pc = "publish", Ready(worker.say)
  PROVE  /\ ~control.gap /\ Sound /\ control.source = worker.source /\ control.poll = 0
         /\ control.recover <= worker.say.time /\ worker.say.time <= clock
         /\ \A m \in Messages : ~Missed(m)
<1>. DEFINE o == worker.say
<1>1. /\ o.drained /\ ~control.gap /\ control.run /\ o.time >= control.provider
      /\ ~(retained /\ Lapsed(o.time)) /\ o.time > 0
  BY DEF Ready, GapAfter, Advancing, Held
<1>2. control.recover <= o.time
  BY Numbers DEF Ready, Recovered, Quiet
<1>3. Sound
  BY <1>1, <1>2, Numbers DEF Strong, Said
<1>4. control.source = worker.source
  BY <1>1 DEF Strong, Places, InRun
<1>5. control.poll = 0
  BY <1>1 DEF Inv, Course
<1>6. ASSUME NEW m \in Messages, Missed(m) PROVE FALSE
  <2>1. retained
    BY <1>6 DEF Strong, Remembers, Missed
  <2>2. Lapsed(o.time)
    BY <1>3, <1>6 DEF Sound, Lapsed
  <2>. QED BY <1>1, <2>1, <2>2
<1>. QED BY <1>1, <1>2, <1>3, <1>4, <1>5, <1>6 DEF Strong, Past

(* Once the row's lease and the poll are over, nothing leased is left. *)
LEMMA NothingLeased ==
  ASSUME Inv, Strong, worker.pc = "publish", control.poll = 0, control.recover <= clock
  PROVE  /\ \A r \in requests : r.leased => ~Executable(r.signed)
         /\ \A m \in Messages : Awaited(m) => queue[m].hidden <= clock
<1>1. ASSUME NEW r \in requests, r.leased, Executable(r.signed) PROVE FALSE
  <2>1. control.recover >= r.signed + Lease
    BY <1>1 DEF Strong, Leases, Covers
  <2>2. r.signed \in Nat /\ clock <= r.signed + Validity
    BY <1>1 DEF Strong, Rests, Executable
  <2>. QED BY <2>1, <2>2, Numbers
<1>2. ASSUME NEW m \in Messages, Awaited(m), ~(queue[m].hidden <= clock) PROVE FALSE
  <2>1. queue[m].hidden \in Nat
    BY DEF Strong, Rests, Events
  <2>2. control.recover >= queue[m].hidden
    BY <1>2, <2>1, Numbers DEF Strong, Leases, Covers
  <2>. QED BY <1>2, <2>1, <2>2, Numbers
<1>. QED BY <1>1, <1>2

LEMMA PublishKeepsStrong ==
  ASSUME Inv, Inv', Strong, Publish
  PROVE  Strong'
<1>0. /\ UNCHANGED <<retained, external>> /\ worker.pc = "publish" /\ worker \in Workers
      /\ worker.say \in Says
  BY DEF Publish, external, At, Inv, Typed, Workers
<1>1. CASE Held
  <2>. DEFINE o == worker.say
  <2>1. /\ control' = Recorded(o)
        /\ worker' = [worker EXCEPT !.pc = worker.next, !.next = "cycle", !.say = Unavailable]
    BY <1>1 DEF Publish
  <2>2. /\ control'.run = control.run /\ control.run /\ control'.source = worker.source
        /\ control'.gap = GapAfter(o) /\ control'.poll = control.poll
        /\ control'.observed = IF Ready(o) THEN o.time ELSE control.observed
        /\ control'.recover = IF Recovered(o) THEN 0 ELSE control.recover
    <3>1. control \in Controls /\ control.run
      BY <1>1 DEF Inv, Typed, Held
    <3>2. control'.run = control.run /\ control'.source = worker.source
      BY <2>1, <3>1 DEF Recorded, Controls
    <3>3. control'.gap = GapAfter(o)
      BY <2>1, <3>1 DEF Recorded, Controls
    <3>4. control'.poll = control.poll
      BY <2>1, <3>1 DEF Recorded, Controls
    <3>5. control'.observed = IF Ready(o) THEN o.time ELSE control.observed
      BY <2>1, <3>1 DEF Recorded, Controls
    <3>6. control'.recover = IF Recovered(o) THEN 0 ELSE control.recover
      BY <2>1, <3>1 DEF Recorded, Controls
    <3>. QED BY <3>1, <3>2, <3>3, <3>4, <3>5, <3>6
  <2>3. /\ worker'.pc = worker.next /\ worker'.source = worker.source /\ worker'.now = worker.now
        /\ worker'.say = Unavailable /\ worker'.uncertain = worker.uncertain
        /\ worker'.signed = worker.signed /\ worker'.leased = worker.leased
        /\ worker.next \in {"cycle", "poll", "settle"}
    BY <1>0, <2>1 DEF Workers
  <2>4. UNCHANGED <<queue, requests, clock, retained>>
    BY <1>0 DEF external
  <2>5. control.source = worker.source /\ InRun
    BY <1>0, <2>2 DEF Strong, Places, InRun
  <2>6. ~Live' /\ ~worker'.say.drained /\ worker'.say.time = 0
    BY <1>0, <2>3 DEF Live, Strong, Polls, Unavailable
  <2>7. Rests' /\ Remembers'
    BY <2>4 DEF Strong, Rests, Remembers
  <2>8. Places'
    BY <2>2, <2>3, <2>4, <2>5 DEF Strong, Places, Waiting, GapAfter
  <2>9. Past'
    <3>1. control'.observed <= clock
      BY <2>2 DEF Strong, Past
    <3>. QED BY <2>3, <2>4, <2>6, <3>1, Numbers DEF Strong, Past
  <2>10. Polls'
    BY <1>0, <2>2, <2>3 DEF Strong, Polls, Polled
  <2>11. Leases'
    <3>1. CASE Recovered(o)
      <4>1. control.poll = 0
        BY <1>0, <2>2, <3>1 DEF Recovered, Quiet, Inv, Course
      <4>2. control.recover <= clock
        BY <3>1, Numbers DEF Recovered, Quiet, Strong, Past
      <4>3. \A r \in requests' : r.leased => ~Executable(r.signed)'
        BY <1>0, <2>4, <4>1, <4>2, NothingLeased DEF Executable
      <4>4. \A m \in Messages : Awaited(m)' => ~(queue'[m].hidden > clock')
        <5>1. \A m \in Messages : Awaited(m)' => Awaited(m)
          BY <2>4 DEF Awaited, Waiting
        <5>2. \A m \in Messages : queue[m].hidden \in Nat
          BY DEF Strong, Rests, Events
        <5>. QED BY <1>0, <2>4, <4>1, <4>2, <5>1, <5>2, NothingLeased, Numbers
      <4>. QED BY <4>3, <4>4 DEF Leases
    <3>2. CASE ~Recovered(o)
      <4>1. control'.recover = control.recover /\ control.recover \in Nat
        BY <2>2, <3>2, Numbers
      <4>2. ASSUME NEW u \in Nat, Covers(u) PROVE Covers(u)'
        BY <2>2, <2>6, <4>1, <4>2, CoversStay
      <4>3. \A r \in requests : r.signed + Lease \in Nat
        BY Numbers DEF Strong, Rests
      <4>4. ASSUME NEW r \in requests, r.leased, Executable(r.signed)'
            PROVE  Covers(r.signed + Lease)'
        BY <2>4, <4>2, <4>3, <4>4 DEF Strong, Leases, Executable
      <4>5. ASSUME NEW m \in Messages, Awaited(m)', queue'[m].hidden > clock',
                   NEW u, u = queue[m].hidden
            PROVE  Covers(u)'
        <5>1. Covers(u)
          BY <1>0, <2>4, <4>5 DEF Strong, Leases, Awaited, Waiting
        <5>2. u \in Nat
          BY <4>5 DEF Strong, Rests, Events
        <5>. QED BY <4>2, <5>1, <5>2
      <4>. QED BY <2>4, <4>4, <4>5 DEF Leases
    <3>. QED BY <3>1, <3>2
  <2>12. Keeps'
    <3>1. \A m \in Messages : /\ Awaited(m)' => Awaited(m) /\ queue'[m] = queue[m]
                              /\ Missed(m)' => Missed(m)
      BY <2>4 DEF Awaited, Waiting, Missed
    <3>2. CASE Ready(o)
      BY <1>0, <1>1, <2>2, <2>4, <3>1, <3>2, ReadyIsQuiet DEF Keeps, Sound
    <3>3. CASE ~Ready(o)
      BY <2>2, <2>4, <3>1, <3>3 DEF Keeps, Strong, GapAfter
    <3>. QED BY <3>2, <3>3
  <2>. QED BY <2>6, <2>7, <2>8, <2>9, <2>10, <2>11, <2>12 DEF Strong, Said
<1>2. CASE ~Held
  BY <1>0, <1>2, ReloadKeepsStrong DEF Publish
<1>. QED BY <1>1, <1>2

(* A settled poll is folded into the lease when its end is unknown; a known *)
(* end leaves nothing to wait for, and its empty answer is what it was.     *)
LEMMA SettleKeepsStrong ==
  ASSUME Inv, Inv', Strong, Settle
  PROVE  Strong'
<1>0. /\ UNCHANGED <<retained, external>> /\ worker.pc = "settle" /\ worker \in Workers
      /\ worker.next = "cycle" /\ worker.say \in Says
  BY DEF Settle, external, At, Inv, Typed, Course, Workers
<1>1. CASE Held /\ control.poll # 0
  <2>. DEFINE w == [worker EXCEPT !.message = None, !.signed = 0]
  <2>1. /\ control' = IF worker.uncertain THEN Deferred ELSE [control EXCEPT !.poll = 0]
        /\ worker' = Say(w, worker.say)
    BY <1>1 DEF Settle
  <2>2. /\ w \in Workers /\ w.source = worker.source /\ w.now = worker.now /\ w.next = "cycle"
    BY <1>0, Zeros DEF Workers
  <2>3. /\ worker'.pc = "publish" /\ worker'.next = "cycle" /\ worker'.source = worker.source
        /\ worker'.now = worker.now
        /\ worker'.say = worker.say \/ (~worker'.say.drained /\ worker'.say.time = 0)
    <3>. HIDE DEF w
    <3>. QED BY <1>0, <2>1, <2>2, SayTyped, SaySaid
  <2>4. /\ control'.source = control.source /\ control'.observed = control.observed
        /\ control'.gap = control.gap /\ control'.provider = control.provider
        /\ control'.run = control.run
        /\ control'.recover = IF worker.uncertain THEN Later(control.recover, control.poll + Lease)
                              ELSE control.recover
    BY <2>1 DEF Deferred, Inv, Typed, Controls
  <2>5. Steady /\ requests' = requests
    BY <1>0, <2>4 DEF Steady, external
  <2>6. ~Polled' /\ InRun
    BY <1>0, <2>3 DEF Polled, InRun
  <2>7. Rests' /\ Places'
    BY <2>3, <2>4, <2>5, <2>6, SteadyKeeps DEF Strong, Rests, Places
  <2>8. Past'
    <3>1. worker'.say.time <= clock
      BY <2>3, Numbers DEF Strong, Past
    <3>. QED BY <2>3, <2>5, <3>1, SteadyKeeps DEF Strong, Past, Steady
  <2>9. Polls'
    BY <2>3, <2>6 DEF Polls
  <2>10. Leases'
    <3>1. ASSUME NEW u \in Nat, Covers(u) PROVE Covers(u)'
      <4>1. control'.recover >= u
        BY <1>0, <2>4, <3>1, Numbers DEF Covers, Live, Later
      <4>. QED BY <4>1 DEF Covers
    <3>2. ASSUME NEW r \in requests, r.leased, Executable(r.signed)'
          PROVE  Covers(r.signed + Lease)'
      <4>1. r.signed + Lease \in Nat
        BY Numbers DEF Strong, Rests
      <4>. QED BY <2>5, <3>1, <3>2, <4>1 DEF Strong, Leases, Executable, Steady
    <3>3. ASSUME NEW m \in Messages, Awaited(m)', queue'[m].hidden > clock',
                 NEW u, u = queue[m].hidden
          PROVE  Covers(u)'
      <4>1. Covers(u)
        BY <1>0, <2>5, <3>3 DEF Strong, Leases, Awaited, Waiting, Steady
      <4>2. u \in Nat
        BY <3>3 DEF Strong, Rests, Events
      <4>. QED BY <3>1, <4>1, <4>2
    <3>. QED BY <2>5, <3>2, <3>3 DEF Leases, Steady
  <2>11. Said'
    <3>1. SUFFICES ASSUME worker'.say.drained
                   PROVE  \/ ~control'.run \/ control'.gap
                          \/ worker'.say.time < control'.provider
                          \/ control'.recover > worker'.say.time
                          \/ Sound'
      BY <2>3 DEF Said
    <3>2. worker'.say = worker.say /\ worker.say.drained
      BY <2>3, <3>1
    <3>3. ~worker.uncertain
      BY <1>0, <3>2 DEF Strong, Said
    <3>4. Sound => Sound'
      BY <2>4, <2>5, <3>2 DEF Sound, Awaited, Waiting, Missed, Steady
    <3>. QED BY <2>4, <3>2, <3>3, <3>4 DEF Strong, Said
  <2>. QED BY <2>5, <2>7, <2>8, <2>9, <2>10, <2>11, SteadyKeeps DEF Strong
<1>2. CASE ~(Held /\ control.poll # 0)
  BY <1>0, <1>2, ReloadKeepsStrong DEF Settle
<1>. QED BY <1>1, <1>2

-----------------------------------------------------------------------------
(* A poll.                                                                  *)

(* What can happen to the messages while nothing arrives or is dropped. *)
Abates ==
  /\ queue' \in [Messages -> Events]
  /\ \A m \in Messages :
       /\ queue'[m].state = "none" => queue'[m].hidden = 0
       /\ queue'[m].state = "none" \/ queue'[m].applied \/ retained
       /\ Missed(m)' => Missed(m)
       /\ Waiting(m)' => /\ Waiting(m) /\ queue'[m].in = queue[m].in
                         /\ queue'[m].since = queue[m].since
                         /\ queue'[m].leased => queue[m].leased

LEMMA AbatesKeeps ==
  ASSUME Inv, Strong, Abates, UNCHANGED <<control, clock, retained>>
  PROVE  /\ Remembers' /\ Keeps' /\ queue' \in [Messages -> Events]
         /\ \A m \in Messages : queue'[m].state = "none" => queue'[m].hidden = 0
         /\ \A m \in Messages : Waiting(m)' /\ queue'[m].in # control'.source => control'.gap
         /\ \A m \in Messages : Awaited(m)' => Awaited(m)
<1>1. \A m \in Messages : Awaited(m)' => Awaited(m)
  BY DEF Abates, Awaited
<1>2. Remembers'
  BY DEF Abates, Remembers
<1>3. Keeps'
  BY <1>1 DEF Strong, Keeps, Abates, Awaited
<1>4. \A m \in Messages : Waiting(m)' /\ queue'[m].in # control'.source => control'.gap
  BY DEF Strong, Places, Abates
<1>. QED BY <1>1, <1>2, <1>3, <1>4 DEF Abates

(* A step of a poll that stays live. *)
LEMMA LiveKeeps ==
  ASSUME Inv, Inv', Strong, Abates, UNCHANGED <<control, clock, retained, requests>>,
         Live, Live', worker'.next = worker.next, worker'.signed = worker.signed,
         worker'.leased = worker.leased, worker'.source = worker.source,
         worker'.say.time <= clock, worker'.now <= clock,
         \A m \in Messages : Awaited(m)' /\ queue'[m].hidden > clock =>
           \/ /\ queue'[m].hidden = queue[m].hidden
              /\ ~(worker.pc = "apply" /\ worker.message = m)
           \/ /\ worker'.pc = "apply" /\ worker'.message = m /\ worker'.leased
              /\ queue'[m].hidden <= worker'.signed + Lease,
         Said'
  PROVE  Strong'
<1>1. Rests' /\ Past'
  BY AbatesKeeps DEF Strong, Rests, Past
<1>2. Places'
  BY AbatesKeeps DEF Strong, Places, Live, InRun
<1>3. Polls'
  BY DEF Strong, Polls, Polled, Live
<1>4. Leases'
  <2>1. ASSUME NEW u, Covers(u) PROVE Covers(u)'
    BY <2>1 DEF Covers
  <2>2. \A r \in requests : Executable(r.signed)' => Executable(r.signed)
    BY DEF Executable
  <2>3. ASSUME NEW m \in Messages, Awaited(m)', queue'[m].hidden > clock',
               NEW u, u = queue'[m].hidden, u = queue[m].hidden,
               ~(worker.pc = "apply" /\ worker.message = m)
        PROVE  Covers(u)'
    <3>1. Covers(u)
      BY <2>3, AbatesKeeps DEF Strong, Leases
    <3>. QED BY <2>1, <3>1
  <2>. QED BY <2>1, <2>2, <2>3 DEF Strong, Leases
<1>. QED BY <1>1, <1>2, <1>3, <1>4, AbatesKeeps DEF Strong

LEMMA SameQueueAbates ==
  ASSUME Strong, UNCHANGED <<queue, retained>>
  PROVE  Abates
BY DEF Strong, Abates, Rests, Remembers, Waiting, Missed

(* A message that is done with, one way or the other. *)
LEMMA DoneAbates ==
  ASSUME Strong, UNCHANGED retained, queue' \in [Messages -> Events],
         \A m \in Messages : \/ queue'[m] = queue[m]
                             \/ /\ queue'[m].applied
                                /\ queue'[m].state = "none" => queue'[m].hidden = 0
  PROVE  Abates
BY DEF Strong, Abates, Rests, Remembers, Waiting, Missed

LEMMA ReceiveKeepsStrong ==
  ASSUME Inv, Inv', Strong, NEW m \in Messages, Receive(m)
  PROVE  Strong'
<1>0. /\ UNCHANGED <<control, retained, requests, clock>> /\ worker.pc = "receive"
      /\ worker \in Workers /\ Executable(worker.signed) /\ Queued(m)
      /\ worker' = [worker EXCEPT !.pc = "apply", !.message = m, !.drained = FALSE]
      /\ queue' = [queue EXCEPT ![m].hidden = clock + Visibility,
                                ![m].leased = @ /\ worker.leased]
  BY DEF Receive, At, Inv, Typed, Visible, VisibleIn, Hide
<1>1. /\ worker'.pc = "apply" /\ worker'.message = m /\ worker'.next = worker.next
      /\ worker'.signed = worker.signed /\ worker'.leased = worker.leased
      /\ worker'.source = worker.source /\ worker'.say = worker.say /\ worker'.now = worker.now
  BY <1>0 DEF Workers
<1>2. queue[m] \in Events /\ queue \in [Messages -> Events] /\ worker.leased \in BOOLEAN
  BY DEF Strong, Rests, Inv, Typed, Workers
<1>3. /\ queue'[m].hidden = clock + Visibility /\ queue'[m].state = "queued"
      /\ queue'[m].leased = (queue[m].leased /\ worker.leased)
      /\ queue'[m].applied = queue[m].applied /\ queue'[m].in = queue[m].in
      /\ queue'[m].since = queue[m].since
      /\ \A n \in Messages : n # m => queue'[n] = queue[n]
  BY <1>0, <1>2 DEF Events, Queued
<1>4. queue' \in [Messages -> Events]
  <2>. DEFINE h == clock + Visibility
              l == queue[m].leased /\ worker.leased
              e == [[queue[m] EXCEPT !.hidden = h] EXCEPT !.leased = l]
  <2>1. h \in Nat
    BY Numbers
  <2>2. queue' = [queue EXCEPT ![m] = e]
    BY <1>0, <1>2 DEF Events
  <2>3. l \in BOOLEAN
    BY <1>2 DEF Events
  <2>. HIDE DEF h, l
  <2>4. e \in Events
    BY <1>2, <2>1, <2>3 DEF Events
  <2>. HIDE DEF e
  <2>. QED BY <1>2, <2>2, <2>4
<1>5. Abates
  <2>1. \A n \in Messages : n # m => queue'[n] = queue[n]
    BY <1>3
  <2>2. queue[m].state = "queued"
    BY <1>0 DEF Queued
  <2>. QED BY <1>3, <1>4, <2>1, <2>2, <1>0 DEF Strong, Abates, Rests, Remembers, Waiting, Missed
<1>6. clock + Visibility <= worker.signed + Lease
  BY <1>0, Numbers DEF Executable
<1>7. Live /\ Live' /\ ~worker.say.drained
  BY <1>0, <1>1, UndrainedAway DEF Live
<1>8. Said'
  BY <1>1, <1>7 DEF Said
<1>9. \A n \in Messages : Awaited(n)' /\ queue'[n].hidden > clock =>
        \/ queue'[n].hidden = queue[n].hidden /\ ~(worker.pc = "apply" /\ worker.message = n)
        \/ /\ worker'.pc = "apply" /\ worker'.message = n /\ worker'.leased
           /\ queue'[n].hidden <= worker'.signed + Lease
  <2>1. Awaited(m)' => worker.leased
    BY <1>3 DEF Awaited
  <2>. QED BY <1>0, <1>1, <1>3, <1>6, <2>1
<1>10. worker'.say.time <= clock /\ worker'.now <= clock
  BY <1>1 DEF Strong, Past
<1>. QED BY <1>0, <1>1, <1>5, <1>7, <1>8, <1>9, <1>10, LiveKeeps

(* The worker hears of its poll, and settles it. *)
LEMMA AnswersKeepStrong ==
  ASSUME Inv, Inv', Strong, Abates, UNCHANGED <<control, clock, retained, requests>>,
         worker.pc \in {"receive", "acknowledge"},
         \A m \in Messages : queue'[m].hidden = queue[m].hidden \/ ~Awaited(m)',
         NEW o \in Says, NEW n \in 0..MaxTime, o.time <= clock, n <= clock,
         worker' = Answered(worker, o) \/ worker' = Answered([worker EXCEPT !.now = n], o),
         o.drained => \/ ~control.run \/ control.gap
                      \/ o.time < control.provider \/ control.recover > o.time
                      \/ /\ o.time = clock
                         /\ \A m \in Messages : ~Awaited(m)'
  PROVE  Strong'
<1>1. /\ worker'.pc = "settle" /\ ~worker'.uncertain /\ worker'.say = o
      /\ worker'.signed = worker.signed /\ worker'.next = worker.next
      /\ worker'.leased = worker.leased /\ worker'.source = worker.source
      /\ worker'.now = worker.now \/ worker'.now = n
  BY DEF Answered, Inv, Typed, Workers
<1>2. Live /\ Live'
  BY <1>1 DEF Live
<1>3. worker'.say.time <= clock /\ worker'.now <= clock
  BY <1>1 DEF Strong, Past
<1>4. Said'
  <2>1. ASSUME o.drained, ~control.gap, o.time = clock, \A m \in Messages : ~Awaited(m)'
        PROVE  Sound'
    <3>1. clock' < worker'.say.time + Retention
      BY <1>1, <2>1, Numbers
    <3>2. \A m \in Messages : Missed(m)' => worker'.say.time >= control'.observed + Retention
      BY <1>1, <2>1 DEF Strong, Keeps, Abates
    <3>. QED BY <2>1, <3>1, <3>2 DEF Sound
  <2>. QED BY <1>1, <2>1 DEF Said
<1>5. \A m \in Messages : Awaited(m)' /\ queue'[m].hidden > clock =>
        queue'[m].hidden = queue[m].hidden /\ ~(worker.pc = "apply" /\ worker.message = m)
  OBVIOUS
<1>. QED BY <1>1, <1>2, <1>3, <1>4, <1>5, LiveKeeps

(* Nothing visible: what is still awaited is hidden by someone, for whom    *)
(* the row waits.                                                           *)
LEMMA ReceiveNothingKeepsStrong ==
  ASSUME Inv, Inv', Strong, NEW t \in {1, clock}, ReceiveNothing(t)
  PROVE  Strong'
<1>0. /\ UNCHANGED <<control, retained, requests, clock, queue>> /\ worker.pc = "receive"
      /\ t \in 0..MaxTime /\ t <= clock /\ worker.drained \in BOOLEAN
      /\ \A m \in Messages : ~Visible(m)
      /\ Reading(t)
  BY ReadingTyped, Numbers DEF ReceiveNothing, At, external, Inv, Typed, Workers
<1>1. Abates
  BY <1>0, SameQueueAbates
<1>2. CASE t < worker.now
  <2>1. worker' = Answered(worker, Unavailable)
    BY <1>2 DEF ReceiveNothing
  <2>. QED BY <1>0, <1>1, <2>1, SmallSays, AnswersKeepStrong
<1>3. CASE ~(t < worker.now)
  <2>. DEFINE o == Observed(t, worker.drained)
  <2>1. worker' = Answered([worker EXCEPT !.now = t], o)
    BY <1>3 DEF ReceiveNothing
  <2>2. o \in Says /\ o.time = t
    BY <1>0 DEF Observed, Says
  <2>3. t = clock \/ t < control.provider
    BY <1>0, <1>3 DEF Reading
  <2>4. ASSUME control.run, ~control.gap, t = clock, ~(control.recover > t),
               NEW m \in Messages, Awaited(m)
        PROVE  FALSE
    <3>1. queue[m].in = worker.source
      BY <1>0, <2>4 DEF Strong, Places, Awaited, InRun
    <3>2. ~(queue[m].hidden <= clock) /\ queue[m].hidden \in Nat
      BY <1>0, <2>4, <3>1 DEF Visible, VisibleIn, Queued, Awaited, Waiting, Strong, Rests, Events
    <3>3. Covers(queue[m].hidden)
      BY <1>0, <2>4, <3>2, Numbers DEF Strong, Leases
    <3>4. control.recover >= queue[m].hidden
      BY <1>0, <3>3 DEF Covers, Live
    <3>. QED BY <2>4, <3>2, <3>4, Numbers
  <2>5. \A m \in Messages : Awaited(m)' => Awaited(m)
    BY <1>0 DEF Awaited, Waiting
  <2>6. o.drained => \/ ~control.run \/ control.gap
                     \/ o.time < control.provider \/ control.recover > o.time
                     \/ /\ o.time = clock
                        /\ \A m \in Messages : ~Awaited(m)'
    BY <2>2, <2>3, <2>4, <2>5
  <2>7. \A m \in Messages : queue'[m].hidden = queue[m].hidden
    BY <1>0
  <2>. HIDE DEF o
  <2>. QED BY <1>0, <1>1, <2>1, <2>2, <2>6, <2>7, AnswersKeepStrong
<1>. QED BY <1>2, <1>3

LEMMA AnsweredKeepsStrong ==
  ASSUME Inv, Inv', Strong, NEW t \in {1, clock},
         Acknowledge(t) \/ ReceiveRefused \/ AcknowledgementLost
  PROVE  Strong'
<1>0. /\ UNCHANGED <<control, retained, requests, clock>>
      /\ worker.pc \in {"receive", "acknowledge"} /\ t \in 0..MaxTime /\ t <= clock
  <2>1. t \in 0..MaxTime /\ t <= clock
    BY ReadingTyped, Numbers
  <2>2. /\ UNCHANGED <<control, retained, requests, clock>>
        /\ worker.pc \in {"receive", "acknowledge"}
    BY DEF Acknowledge, ReceiveRefused, AcknowledgementLost, At, external
  <2>. QED BY <2>1, <2>2
<1>1. \/ UNCHANGED queue
      \/ queue' = [queue EXCEPT ![worker.message] = Gone("deleted", TRUE)]
  BY DEF Acknowledge, ReceiveRefused, AcknowledgementLost, external
<1>2. Gone("deleted", TRUE) \in Events /\ Gone("deleted", TRUE).applied
      /\ Gone("deleted", TRUE).state = "deleted"
  BY DEF Gone, Events
<1>3. /\ queue' \in [Messages -> Events]
      /\ \A m \in Messages : queue'[m] = queue[m] \/ queue'[m] = Gone("deleted", TRUE)
  BY <1>1, <1>2 DEF Strong, Rests
<1>4. Abates
  BY <1>0, <1>2, <1>3, DoneAbates
<1>5. \A m \in Messages : queue'[m].hidden = queue[m].hidden \/ ~Awaited(m)'
  BY <1>2, <1>3 DEF Awaited, Waiting
<1>6. PICK o \in {Unavailable, Observed(t, FALSE)} :
        worker' = Answered(worker, o) \/ worker' = Answered([worker EXCEPT !.now = t], o)
  BY DEF Acknowledge, ReceiveRefused, AcknowledgementLost
<1>7. o \in Says /\ ~o.drained /\ o.time <= clock
  <2>1. Observed(t, FALSE) \in Says /\ ~Observed(t, FALSE).drained /\ Observed(t, FALSE).time = t
    BY <1>0 DEF Observed, Says
  <2>. QED BY <1>0, <2>1, SmallSays
<1>. QED BY <1>0, <1>4, <1>5, <1>6, <1>7, AnswersKeepStrong

LEMMA ReceiveLostKeepsStrong ==
  ASSUME Inv, Inv', Strong, ReceiveLost
  PROVE  Strong'
<1>0. /\ UNCHANGED <<control, retained, queue, clock>> /\ worker.pc = "receive"
      /\ worker \in Workers /\ requests' = requests \cup {Abandoned}
      /\ worker' = [worker EXCEPT !.pc = "settle", !.uncertain = TRUE, !.say = Unavailable,
                                  !.recover = worker.signed + Lease]
  BY DEF ReceiveLost, At, Inv, Typed
<1>1. /\ worker'.pc = "settle" /\ worker'.uncertain /\ worker'.say = Unavailable
      /\ worker'.signed = worker.signed /\ worker'.leased = worker.leased
      /\ worker'.source = worker.source /\ worker'.now = worker.now
  BY <1>0 DEF Workers
<1>2. SameRow
  BY <1>0 DEF SameRow
<1>3. Polled /\ InRun /\ ~Live'
  BY <1>0, <1>1 DEF Polled, InRun, Live
<1>4. ~worker'.say.drained /\ worker'.say.time <= clock /\ worker'.now <= clock
  BY <1>1, SmallSays DEF Strong, Past
<1>. QED BY <1>0, <1>1, <1>2, <1>3, <1>4, SameRowSteady, AwayKeeps

LEMMA ApplyKeepsStrong ==
  ASSUME Inv, Inv', Strong, Apply \/ ApplyPoison
  PROVE  Strong'
<1>0. /\ UNCHANGED <<control, retained, requests, clock>> /\ worker.pc = "apply"
      /\ worker \in Workers /\ worker.next = "cycle"
      /\ worker.say.time <= clock /\ worker.now <= clock
  BY DEF Apply, ApplyPoison, At, external, Inv, Typed, Course, Strong, Past
<1>1. CASE /\ queue' = [queue EXCEPT ![worker.message].applied = TRUE]
           /\ worker' = [worker EXCEPT !.pc = "acknowledge"]
  <2>1. /\ worker'.pc = "acknowledge" /\ worker'.next = worker.next
        /\ worker'.signed = worker.signed /\ worker'.leased = worker.leased
        /\ worker'.source = worker.source /\ worker'.now = worker.now /\ worker'.say = worker.say
    BY <1>0, <1>1 DEF Workers
  <2>2. /\ queue' \in [Messages -> Events]
        /\ \A m \in Messages : IF m = worker.message
                               THEN /\ queue'[m].applied /\ queue'[m].state = queue[m].state
                                    /\ queue'[m].hidden = queue[m].hidden
                               ELSE queue'[m] = queue[m]
    BY <1>1 DEF Strong, Rests, Events
  <2>3. Abates
    BY <1>0, <2>2, DoneAbates DEF Strong, Rests
  <2>4. \A m \in Messages : Awaited(m)' => m # worker.message /\ queue'[m].hidden = queue[m].hidden
    BY <2>2 DEF Awaited, Waiting
  <2>5. Live /\ Live' /\ Said'
    BY <1>0, <2>1, UndrainedAway DEF Live, Said
  <2>. QED BY <1>0, <2>1, <2>3, <2>4, <2>5, LiveKeeps
<1>2. CASE Reload /\ UNCHANGED queue
  BY <1>0, <1>2, ReloadKeepsStrong DEF external
<1>3. CASE /\ worker' = [worker EXCEPT !.pc = "publish", !.next = "settle", !.uncertain = TRUE,
                                       !.gap = TRUE, !.say = Reconcile]
           /\ UNCHANGED queue
  <2>1. /\ worker'.pc = "publish" /\ worker'.uncertain /\ worker'.say = Reconcile
        /\ worker'.signed = worker.signed /\ worker'.leased = worker.leased
        /\ worker'.source = worker.source /\ worker'.now = worker.now
    BY <1>0, <1>3 DEF Workers
  <2>2. SameRow
    BY <1>0, <1>3 DEF SameRow
  <2>3. Polled /\ InRun /\ ~Live'
    BY <1>0, <2>1 DEF Polled, InRun, Live
  <2>4. ~worker'.say.drained /\ worker'.say.time <= clock /\ worker'.now <= clock
    BY <1>0, <2>1, SmallSays
  <2>. QED BY <1>0, <2>1, <2>2, <2>3, <2>4, SameRowSteady, AwayKeeps
<1>. QED BY <1>1, <1>2, <1>3 DEF Apply, ApplyPoison, Goto, external

-----------------------------------------------------------------------------
(* The provider.                                                            *)

(* The worker and the row stand still, and so does the clock.  What an      *)
(* empty answer is worth must be shown of the messages.                     *)
LEMMA QueueMoves ==
  ASSUME Inv, Strong, UNCHANGED <<control, worker, retained, clock>>,
         queue' \in [Messages -> Events], requests' \subseteq requests,
         \A m \in Messages :
           /\ queue'[m].state = "none" => queue'[m].hidden = 0
           /\ queue'[m].state = "none" \/ queue'[m].applied \/ retained
           /\ Waiting(m)' => \/ Waiting(m) /\ queue'[m].in = queue[m].in
                             \/ queue'[m].in = control.source
           /\ Awaited(m)' => \/ Awaited(m) /\ queue'[m].since = queue[m].since
                             \/ queue'[m].since = clock
           /\ Missed(m)' => \/ Missed(m)
                            \/ Awaited(m) /\ queue[m].since + Retention <= clock
           /\ Awaited(m)' /\ queue'[m].hidden > clock =>
                \/ Awaited(m) /\ queue'[m].hidden = queue[m].hidden
                \/ Covers(queue'[m].hidden)
  PROVE  Strong'
<1>1. Rests' /\ Remembers' /\ Past' /\ Polls' /\ Places'
  <2>1. Rests' /\ Remembers'
    BY DEF Strong, Rests, Remembers
  <2>2. Past' /\ Polls'
    BY DEF Strong, Past, Polls, Polled
  <2>3. Places'
    BY DEF Strong, Places, InRun
  <2>. QED BY <2>1, <2>2, <2>3
<1>2. Leases'
  <2>1. \A r \in requests' : Executable(r.signed)' => Executable(r.signed)
    BY DEF Executable
  <2>2. ASSUME NEW u, Covers(u) PROVE Covers(u)'
    BY <2>2 DEF Covers, Live
  <2>3. ASSUME NEW m \in Messages, Awaited(m)', queue'[m].hidden > clock', NEW u, u = queue'[m].hidden
        PROVE  \/ Covers(u)'
               \/ /\ worker'.pc = "apply" /\ worker'.message = m /\ worker'.leased
                  /\ queue'[m].hidden <= worker'.signed + Lease
    <3>1. CASE Awaited(m) /\ queue'[m].hidden = queue[m].hidden
      <4>1. \/ Covers(u)
            \/ /\ worker.pc = "apply" /\ worker.message = m /\ worker.leased
               /\ queue[m].hidden <= worker.signed + Lease
        BY <2>3, <3>1 DEF Strong, Leases
      <4>. QED BY <2>2, <3>1, <4>1
    <3>2. CASE Covers(queue'[m].hidden)
      BY <2>2, <2>3, <3>2
    <3>. QED BY <2>3, <3>1, <3>2
  <2>. QED BY <2>1, <2>2, <2>3 DEF Strong, Leases
<1>3. Keeps'
  <2>1. ASSUME NEW m \in Messages, Awaited(m)'
        PROVE  control.gap \/ queue'[m].since >= control.observed
    BY <2>1 DEF Strong, Keeps, Past
  <2>2. ASSUME NEW m \in Messages, Missed(m)'
        PROVE  control.gap \/ clock >= control.observed + Retention
    <3>1. CASE Missed(m)
      BY <3>1 DEF Strong, Keeps
    <3>2. CASE Awaited(m) /\ queue[m].since + Retention <= clock
      <4>1. queue[m].since \in Nat
        BY DEF Strong, Rests, Events
      <4>. QED BY <3>2, <4>1, Numbers DEF Strong, Keeps
    <3>. QED BY <2>2, <3>1, <3>2
  <2>. QED BY <2>1, <2>2 DEF Keeps
<1>4. Said'
  <2>1. ASSUME Sound PROVE Sound'
    <3>1. \A m \in Messages : Awaited(m)' => queue'[m].since >= worker.say.time
      BY <2>1 DEF Sound, Strong, Past
    <3>2. ASSUME NEW m \in Messages, Awaited(m), queue[m].since + Retention <= clock
          PROVE  FALSE
      <4>1. queue[m].since \in Nat
        BY DEF Strong, Rests, Events
      <4>. QED BY <2>1, <3>2, <4>1, Numbers DEF Sound
    <3>. QED BY <2>1, <3>1, <3>2 DEF Sound
  <2>. QED BY <2>1 DEF Strong, Said
<1>. QED BY <1>1, <1>2, <1>3, <1>4 DEF Strong

LEMMA ArriveKeepsStrong ==
  ASSUME Inv, Strong, NEW m \in Messages, Arrive(m)
  PROVE  Strong'
<1>0. /\ UNCHANGED <<control, worker, retained, clock, requests>> /\ retained
      /\ queue[m].state = "none"
  BY DEF Arrive
<1>1. queue[m] \in Events /\ queue \in [Messages -> Events] /\ control.source \in Queues \cup {None}
      /\ clock \in Nat
  BY Numbers DEF Strong, Rests, Inv, Typed, Controls
<1>. DEFINE e == [[[queue[m] EXCEPT !.state = "queued"] EXCEPT !.in = control.source]
                    EXCEPT !.since = clock]
<1>2. queue' = [queue EXCEPT ![m] = e]
  BY <1>1 DEF Arrive, Events
<1>3. e \in Events /\ e.state = "queued" /\ e.in = control.source /\ e.since = clock
      /\ e.hidden = queue[m].hidden
  BY <1>1 DEF Events
<1>4. e.hidden = 0
  BY <1>0, <1>3 DEF Strong, Rests
<1>. HIDE DEF e
<1>5. /\ queue' \in [Messages -> Events] /\ queue'[m] = e
      /\ \A n \in Messages : n # m => queue'[n] = queue[n]
  BY <1>1, <1>2, <1>3
<1>6. ~(queue'[m].hidden > clock)
  BY <1>4, <1>5, Numbers
<1>. QED BY <1>0, <1>3, <1>5, <1>6, QueueMoves DEF Strong, Rests, Remembers, Waiting, Awaited, Missed

LEMMA StraysKeepsStrong ==
  ASSUME Inv, Strong, NEW m \in Messages, NEW r \in requests, Strays(m, r)
  PROVE  Strong'
<1>0. /\ UNCHANGED <<control, worker, retained, clock>> /\ requests' \subseteq requests
      /\ Executable(r.signed) /\ queue[m].state = "queued"
      /\ queue' = [queue EXCEPT ![m].hidden = clock + Visibility, ![m].leased = @ /\ r.leased]
  BY DEF Strays, VisibleIn, Queued, Hide
<1>1. queue[m] \in Events /\ queue \in [Messages -> Events] /\ r.leased \in BOOLEAN
      /\ r.signed \in Nat
  BY DEF Strong, Rests
<1>. DEFINE h == clock + Visibility
            l == queue[m].leased /\ r.leased
            e == [[queue[m] EXCEPT !.hidden = h] EXCEPT !.leased = l]
<1>2. queue' = [queue EXCEPT ![m] = e]
  BY <1>0, <1>1 DEF Events
<1>3. h \in Nat
  BY Numbers
<1>4. l \in BOOLEAN
  BY <1>1 DEF Events
<1>5. l => queue[m].leased /\ Covers(h)
  <2>1. ASSUME l PROVE Covers(h)
    <3>1. Covers(r.signed + Lease)
      BY <1>0, <2>1 DEF Strong, Leases
    <3>2. h <= r.signed + Lease
      BY <1>0, <1>1, Numbers DEF Executable
    <3>. QED BY <1>1, <1>3, <3>1, <3>2, Numbers DEF Covers
  <2>. QED BY <2>1
<1>. HIDE DEF h, l
<1>6. e \in Events /\ e.state = queue[m].state /\ e.in = queue[m].in /\ e.since = queue[m].since
      /\ e.hidden = h /\ e.leased = l /\ e.applied = queue[m].applied
  BY <1>1, <1>3, <1>4 DEF Events
<1>. HIDE DEF e
<1>7. /\ queue' \in [Messages -> Events] /\ queue'[m] = e
      /\ \A n \in Messages : n # m => queue'[n] = queue[n]
  BY <1>1, <1>2, <1>6
<1>. QED BY <1>0, <1>5, <1>6, <1>7, QueueMoves
     DEF Strong, Rests, Remembers, Waiting, Awaited, Missed

LEMMA DropsKeepStrong ==
  ASSUME Inv, Strong, NEW m \in Messages, Expire(m) \/ DeadLetter(m)
  PROVE  Strong'
<1>0. /\ UNCHANGED <<control, worker, retained, clock, requests>> /\ queue[m].state = "queued"
  BY DEF Expire, DeadLetter, Expired, Visible, VisibleIn, Queued
<1>1. queue[m] \in Events /\ queue \in [Messages -> Events]
  BY DEF Strong, Rests
<1>2. PICK e \in Events :
        /\ queue' = [queue EXCEPT ![m] = e] /\ e.state \in {"lost", "dead"}
        /\ queue[m].applied => e.applied
        /\ e.state = "lost" /\ ~e.applied => /\ queue[m].leased
                                             /\ queue[m].since + Retention <= clock
  <2>1. CASE Expire(m)
    <3>. DEFINE a == queue[m].applied \/ ~queue[m].leased
    <3>1. queue' = [queue EXCEPT ![m] = Gone("lost", a)] /\ queue[m].since + Retention <= clock
      BY <1>1, <2>1 DEF Expire, Expired
    <3>2. a \in BOOLEAN
      BY <1>1 DEF Events
    <3>3. Gone("lost", a) \in Events /\ Gone("lost", a).state = "lost" /\ Gone("lost", a).applied = a
      <4>. HIDE DEF a
      <4>. QED BY <3>2 DEF Gone, Events
    <3>. QED BY <3>1, <3>3
  <2>2. CASE DeadLetter(m)
    <3>. DEFINE e == [Gone("dead", queue[m].applied) EXCEPT !.in = queue[m].in]
    <3>1. queue' = [queue EXCEPT ![m] = e]
      BY <1>1, <2>2 DEF DeadLetter
    <3>2. e \in Events /\ e.state = "dead" /\ e.applied = queue[m].applied
      BY <1>1 DEF Gone, Events
    <3>. QED BY <3>1, <3>2
  <2>. QED BY <2>1, <2>2
<1>3. /\ queue' \in [Messages -> Events] /\ queue'[m] = e
      /\ \A n \in Messages : n # m => queue'[n] = queue[n]
  BY <1>1, <1>2
<1>. QED BY <1>0, <1>2, <1>3, QueueMoves DEF Strong, Rests, Remembers, Waiting, Awaited, Missed

(* Time passes: leases and validities end, and an empty answer that is not  *)
(* yet published is published before what it missed would expire.           *)
LEMMA TickKeepsStrong ==
  ASSUME Inv, Inv', Strong, Tick
  PROVE  Strong'
<1>0. /\ UNCHANGED <<control, worker, retained, queue>> /\ clock' = clock + 1
      /\ requests' \subseteq requests
      /\ worker.say.drained => clock + 1 < worker.say.time + Retention
  BY DEF Tick
<1>1. Rests' /\ Remembers' /\ Places' /\ Polls'
  BY <1>0 DEF Strong, Rests, Remembers, Places, Polls, Polled, InRun, Waiting
<1>2. Past' /\ Keeps'
  <2>1. \A m \in Messages : (Awaited(m)' => Awaited(m)) /\ (Missed(m)' => Missed(m))
    BY <1>0 DEF Awaited, Waiting, Missed
  <2>2. Past'
    BY <1>0, Numbers DEF Strong, Past
  <2>3. Keeps'
    BY <1>0, <2>1, Numbers DEF Strong, Keeps
  <2>. QED BY <2>2, <2>3
<1>3. Leases'
  <2>1. ASSUME NEW r \in requests', Executable(r.signed)' PROVE Executable(r.signed)
    <3>1. r.signed \in Nat
      BY <1>0 DEF Strong, Rests
    <3>. QED BY <1>0, <2>1, <3>1, Numbers DEF Executable
  <2>2. ASSUME NEW m \in Messages, queue'[m].hidden > clock' PROVE queue[m].hidden > clock
    <3>1. queue[m].hidden \in Nat
      BY DEF Strong, Rests, Events
    <3>. QED BY <1>0, <2>2, <3>1, Numbers
  <2>3. ASSUME NEW u, Covers(u) PROVE Covers(u)'
    BY <1>0, <2>3 DEF Covers, Live
  <2>4. \A r \in requests' : r.leased /\ Executable(r.signed)' => Covers(r.signed + Lease)'
    BY <1>0, <2>1, <2>3 DEF Strong, Leases
  <2>5. ASSUME NEW m \in Messages, Awaited(m)', queue'[m].hidden > clock', NEW u, u = queue'[m].hidden
        PROVE  \/ Covers(u)'
               \/ /\ worker'.pc = "apply" /\ worker'.message = m /\ worker'.leased
                  /\ queue'[m].hidden <= worker'.signed + Lease
    <3>1. Awaited(m) /\ u = queue[m].hidden
      BY <1>0, <2>5 DEF Awaited, Waiting
    <3>2. \/ Covers(u)
          \/ /\ worker.pc = "apply" /\ worker.message = m /\ worker.leased
             /\ queue[m].hidden <= worker.signed + Lease
      BY <2>2, <2>5, <3>1 DEF Strong, Leases
    <3>. QED BY <1>0, <2>3, <3>2
  <2>. QED BY <2>4, <2>5 DEF Leases
<1>4. Said'
  <2>1. ASSUME Sound, worker.say.drained PROVE Sound'
    BY <1>0, <2>1 DEF Sound, Awaited, Waiting, Missed
  <2>. QED BY <1>0, <2>1 DEF Strong, Said
<1>. QED BY <1>1, <1>2, <1>3, <1>4 DEF Strong

-----------------------------------------------------------------------------
(* Subscribers and the Owner.                                               *)
LEMMA OthersKeepStrong ==
  ASSUME Inv, Inv', Strong, Others
  PROVE  Strong'
<1>1. CASE Subscribe \/ GoStale \/ \E b \in Bindings : UpdateSettings(b)
  <2>1. /\ UNCHANGED <<worker, queue, requests, clock>> /\ Steady
        /\ control'.recover = control.recover /\ control'.poll = control.poll
        /\ control'.run = control.run /\ control'.gap = control.gap
    <3>1. CASE Subscribe
      BY <3>1 DEF Subscribe, Steady, external
    <3>2. CASE GoStale
      BY <3>2 DEF GoStale, Steady, external, Inv, Typed, Controls
    <3>3. CASE \E b \in Bindings : UpdateSettings(b)
      BY <3>3 DEF UpdateSettings, Steady, external, Inv, Typed, Controls
    <3>. QED BY <1>1, <3>1, <3>2, <3>3
  <2>2. Rests' /\ Places'
    BY <2>1, SteadyKeeps DEF Strong, Rests, Places, Steady, InRun
  <2>3. Past' /\ Polls'
    BY <2>1, SteadyKeeps DEF Strong, Past, Polls, Polled, Steady
  <2>4. Leases'
    <3>1. ASSUME NEW u, Covers(u) PROVE Covers(u)'
      BY <2>1, <3>1 DEF Covers, Live
    <3>2. \A r \in requests : r.leased /\ Executable(r.signed)' => Covers(r.signed + Lease)'
      BY <2>1, <3>1 DEF Strong, Leases, Executable
    <3>3. ASSUME NEW m \in Messages, Awaited(m)', queue'[m].hidden > clock', NEW u, u = queue[m].hidden
          PROVE  \/ Covers(u)'
                 \/ /\ worker'.pc = "apply" /\ worker'.message = m /\ worker'.leased
                    /\ queue'[m].hidden <= worker'.signed + Lease
      <4>1. \/ Covers(u)
            \/ /\ worker.pc = "apply" /\ worker.message = m /\ worker.leased
               /\ queue[m].hidden <= worker.signed + Lease
        BY <2>1, <3>3 DEF Strong, Leases, Awaited, Waiting
      <4>. QED BY <2>1, <3>1, <4>1
    <3>. QED BY <2>1, <3>2, <3>3 DEF Leases
  <2>5. Said'
    BY <2>1 DEF Strong, Said, Sound, Awaited, Waiting, Missed, Steady
  <2>. QED BY <2>1, <2>2, <2>3, <2>4, <2>5, SteadyKeeps DEF Strong
<1>2. CASE ResetConsent
  <2>1. /\ UNCHANGED clock
        /\ worker' = [worker EXCEPT !.leased = FALSE]
        /\ queue' = [m \in Messages |-> [queue[m] EXCEPT !.applied = @ \/ queue[m].state # "none"]]
        /\ requests' = {[r EXCEPT !.leased = FALSE] : r \in requests}
    BY <1>2 DEF ResetConsent
  <2>2. ~control'.run /\ control'.observed = 0
    BY <1>2 DEF ResetConsent, Inv, Typed, Controls
  <2>3. /\ worker'.pc = worker.pc /\ worker'.say = worker.say /\ worker'.now = worker.now
        /\ worker'.next = worker.next /\ worker'.signed = worker.signed /\ ~worker'.leased
        /\ worker'.uncertain = worker.uncertain
    BY <2>1 DEF Inv, Typed, Workers
  <2>4. \A m \in Messages :
          /\ queue'[m] \in Events /\ queue'[m].state = queue[m].state
          /\ queue'[m].hidden = queue[m].hidden
          /\ queue'[m].state = "none" \/ queue'[m].applied
    <3>1. ASSUME NEW m \in Messages
          PROVE  /\ queue'[m] \in Events /\ queue'[m].state = queue[m].state
                 /\ queue'[m].hidden = queue[m].hidden
                 /\ queue'[m].state = "none" \/ queue'[m].applied
      <4>. DEFINE a == queue[m].applied \/ queue[m].state # "none"
      <4>1. queue[m] \in Events /\ queue'[m] = [queue[m] EXCEPT !.applied = a]
        BY <2>1 DEF Strong, Rests, Events
      <4>2. a \in BOOLEAN
        BY <4>1 DEF Events
      <4>3. queue[m].state # "none" => a
        OBVIOUS
      <4>. HIDE DEF a
      <4>. QED BY <4>1, <4>2, <4>3 DEF Events
    <3>. QED BY <3>1
  <2>5. Rests'
    <3>1. queue' \in [Messages -> Events]
      BY <2>1, <2>4
    <3>2. requests' \subseteq [signed : 0..(MaxTime + 1), in : Queues, leased : BOOLEAN]
      BY <2>1 DEF Strong, Rests
    <3>. QED BY <2>4, <3>1, <3>2 DEF Strong, Rests
  <2>6. \A m \in Messages : ~Waiting(m)' /\ ~Missed(m)'
    BY <2>4 DEF Waiting, Missed
  <2>7. \A r \in requests' : ~r.leased
    BY <2>1 DEF Strong, Rests
  <2>8. Remembers' /\ Places' /\ Leases' /\ Keeps'
    BY <2>2, <2>4, <2>6, <2>7 DEF Remembers, Places, Leases, Keeps, Awaited
  <2>9. Past'
    BY <2>1, <2>2, <2>3, Numbers DEF Strong, Past
  <2>10. Polls' /\ Said'
    BY <2>2, <2>3 DEF Strong, Polls, Polled, Said
  <2>. QED BY <2>5, <2>8, <2>9, <2>10 DEF Strong
<1>. QED BY <1>1, <1>2 DEF Others

-----------------------------------------------------------------------------
LEMMA StepKeepsStrong == Inv /\ Inv' /\ Strong /\ [Next]_vars => Strong'
<1>. SUFFICES ASSUME Inv, Inv', Strong, [Next]_vars PROVE Strong'
  OBVIOUS
<1>1. CASE Worker
  BY <1>1, StartsKeepStrong, EndsKeepStrong, CyclePreflightKeepsStrong, AnsweredKeepsStrong,
     PreflightFailsKeepsStrong, GoPollKeepsStrong, AdmitPollKeepsStrong, BeginRunKeepsStrong,
     PublishKeepsStrong, SettleKeepsStrong, ReceiveKeepsStrong, ReceiveNothingKeepsStrong,
     ReceiveLostKeepsStrong, ApplyKeepsStrong DEF Worker
<1>2. CASE Provider
  BY <1>2, ArriveKeepsStrong, StraysKeepsStrong, DropsKeepStrong, TickKeepsStrong DEF Provider
<1>3. CASE Others
  BY <1>3, OthersKeepStrong
<1>4. CASE UNCHANGED vars
  <2>1. UNCHANGED <<control, worker, retained, clock, requests, queue>>
    BY <1>4 DEF vars, external
  <2>2. requests' \subseteq requests /\ queue' \in [Messages -> Events]
    BY <2>1 DEF Strong, Rests
  <2>. QED BY <2>1, <2>2, QueueMoves DEF Strong, Rests, Remembers, Waiting, Awaited, Missed
<1>. QED BY <1>1, <1>2, <1>3, <1>4 DEF Next

(* A publication that declares freshness leaves nothing unseen. *)
LEMMA FreshMeansSettled ==
  ASSUME Inv, Strong, Publish, worker.say.kind = "observed", worker'.pc = worker.next, control'.ok
  PROVE  Settled'
<1>0. /\ UNCHANGED <<retained, external>> /\ worker.pc = "publish" /\ worker \in Workers
      /\ control \in Controls
  BY DEF Publish, external, At, Inv, Typed
<1>1. Held
  <2>1. ASSUME Reload PROVE FALSE
    BY <1>0, <2>1, ReloadAway DEF Workers
  <2>. QED BY <2>1 DEF Publish
<1>2. control' = Recorded(worker.say)
  BY <1>1 DEF Publish
<1>3. control'.ok = Ready(worker.say) /\ control'.source = worker.source
  BY <1>0, <1>2 DEF Recorded, Preserves, Controls
<1>4. /\ ~control.gap /\ control.source = worker.source /\ control.poll = 0
      /\ control.recover <= worker.say.time /\ worker.say.time <= clock
      /\ \A m \in Messages : ~Missed(m)
  BY <1>0, <1>1, <1>3, ReadyIsQuiet
<1>5. control.recover <= clock
  BY <1>4, Numbers
<1>6. UNCHANGED <<queue, requests, clock>>
  BY <1>0 DEF external
<1>7. \A r \in requests' : r.leased => ~Executable(r.signed)'
  BY <1>0, <1>4, <1>5, <1>6, NothingLeased DEF Executable
<1>8. ASSUME NEW m \in Messages, Unseen(m)' PROVE FALSE
  <2>0. queue[m] \in Events /\ ~queue[m].applied
    BY <1>6, <1>8 DEF Unseen, Strong, Rests
  <2>1. queue[m].state # "lost"
    BY <1>4, <2>0 DEF Missed
  <2>2. queue[m].state = "queued"
    BY <1>6, <1>8, <2>1 DEF Unseen, Queued
  <2>3. queue[m].in = control'.source
    BY <1>3, <1>4, <2>0, <2>2 DEF Strong, Places, Waiting
  <2>4. queue[m].hidden > clock /\ queue[m].leased
    BY <1>6, <1>8, <2>1, <2>3 DEF Unseen
  <2>5. queue[m].hidden <= clock
    BY <1>0, <1>4, <1>5, <2>0, <2>2, <2>4, NothingLeased DEF Awaited, Waiting
  <2>. QED BY <2>0, <2>4, <2>5, Numbers DEF Events
<1>. QED BY <1>7, <1>8 DEF Settled

(* When the worker's observation makes feedback fresh, every event of the   *)
(* epoch was applied or can be received: none was dropped unread, and no    *)
(* request of an earlier poll, run or process hides one or still may.       *)
THEOREM FeedbackReadyMeansSeen == Spec => ReadyMeansSeen
<1>1. Inv /\ Strong /\ [Next]_vars =>
        [At("publish") /\ worker.say.kind = "observed" /\ worker'.pc = worker.next /\ control'.ok
           => Settled']_vars
  <2>. SUFFICES ASSUME Inv, Strong, Next, worker.pc = "publish", worker.say.kind = "observed",
                       worker'.pc = worker.next, control'.ok
                PROVE  Settled'
    BY DEF At
  <2>0. worker.next \in {"cycle", "poll", "settle"} /\ worker \in Workers
    BY DEF Inv, Typed, Workers
  <2>1. Publish
    <3>1. worker' # worker
      BY <2>0
    <3>2. ~Provider /\ ~Others
      <4>1. ASSUME Provider PROVE FALSE
        BY <3>1, <4>1 DEF Provider, Arrive, Expire, DeadLetter, Strays, Tick
      <4>2. ASSUME Others PROVE FALSE
        BY <2>0, <3>1, <4>2 DEF Others, Subscribe, GoStale, UpdateSettings, ResetConsent, Workers
      <4>. QED BY <4>1, <4>2
    <3>3. ~Crash
      BY <2>0 DEF Crash, Stopped
    <3>4. Worker
      BY <3>2 DEF Next
    <3>. QED BY <3>3, <3>4
         DEF Worker, At, Start, Preflight, ReceiveNothing, Acknowledge, CyclePreflight, AdmitPoll,
             PreflightFails, Receive, Disclaim, BeginRun, GoPoll, ReceiveRefused, ReceiveLost,
             Apply, ApplyPoison, AcknowledgementLost, Settle, Shutdown, FinishRun
  <2>. QED BY <2>1, FreshMeansSettled
<1>2. Init => Inv /\ Strong
  BY InitInv, InitStrong
<1>3. Inv /\ Strong /\ [Next]_vars => (Inv /\ Strong)'
  BY StepKeepsInv, StepKeepsStrong
<1>. QED BY <1>1, <1>2, <1>3, PTL DEF Spec, ReadyMeansSeen
=============================================================================
