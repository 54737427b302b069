------------------- MODULE DisplayPreviewContract_proofs -------------------
(***************************************************************************)
(* DisplayPreview implements PreviewContract, for any number of outputs,   *)
(* any candidates, and any number of troubles and of frames in flight.     *)
(*                                                                         *)
(* That what is offered is seen, and what is reported as reverted too, is  *)
(* shown in DisplayPreviewSteps_proofs.  Here: what was offered is still   *)
(* seen when it is kept; the lease takes only the steps of the contract;   *)
(* and what becomes of the files is decided once.                          *)
(***************************************************************************)
EXTENDS DisplayPreviewSteps_proofs

-----------------------------------------------------------------------------
(***************************************************************************)
(* The invariant.                                                          *)
(***************************************************************************)
\* As long as the candidate is on offer, no lit screen waits for a frame.
PresentedInv(s) ==
  s.lease.state = "previewing" =>
    \A o \in Outputs : Enabled(s.lease.after[o]) => s.lease.items[o].presented

\* The screen shows the state c, and no frame on its way changes that.
Settles(out, c) ==
  /\ out.shown.state = c
  /\ \A i \in DOMAIN out.flight : out.flight[i].picture.state = c

\* While the helper may save the candidate, the screens show it.
HeldInv(s) ==
  s.lease.state = "commit_authorized" =>
    \A o \in Outputs : Enabled(s.lease.after[o]) => Settles(s.outputs[o], s.lease.after[o])

Held(s) == PresentedInv(s) /\ HeldInv(s)

\* A decision ends the saving, and there is a journal only after the helper
\* was authorised.
FilesInv ==
  /\ files.decision # "none" =>
       files.journal = "none" /\ files.helper \in {"decided", "gone"}
  /\ files.journal # "none" => files.helper # "idle"

-----------------------------------------------------------------------------
(***************************************************************************)
(* The steps of the lease.                                                 *)
(***************************************************************************)
Ended == {"waiting_session", "reverting", "invalidated", "failed"}

\* How the functions of the preview move the lease from state a to state b.
Along(a, b) ==
  \/ b = a
  \/ a = "applying" /\ b = "previewing"
  \/ a = "previewing" /\ b = "applying"
  \/ a \in ActiveStates /\ b \in Ended
  \/ a \in {"waiting_session", "reverting"} /\ b = "reverted"

Keeps ==
  /\ lease.state = "commit_authorized" /\ lease'.state = "kept"
  /\ outputs' = outputs /\ lease'.after = lease.after

PathStep ==
  \/ Along(lease.state, lease'.state)
  \/ lease.state = "none" /\ lease'.state = "applying"
  \/ Keeps
  \/ HelperAuthorizes /\ lease.state = "previewing" /\ lease'.state = "commit_authorized"

LEMMA SameHeld ==
  ASSUME NEW s, NEW t, Held(s), SameWitness(s, t)
  PROVE  Held(t)
<1>1. PresentedInv(t) BY DEF Held, PresentedInv, SameWitness
<1>2. HeldInv(t) BY DEF Held, HeldInv, Settles, SameWitness
<1> QED BY <1>1, <1>2 DEF Held

LEMMA LeftHeld ==
  ASSUME NEW t, t.lease.state \notin {"previewing", "commit_authorized"}
  PROVE  Held(t)
BY DEF Held, PresentedInv, HeldInv

LEMMA GivenUpHeld ==
  ASSUME NEW t, GivenUp(t)
  PROVE  Held(t) /\ t.lease.state \in Ended
BY LeftHeld DEF GivenUp, Ended

\* What is on offer is shown, and on its way are frames of it only.
LEMMA OfferSettles ==
  ASSUME NEW s \in SType, NEW away, Witnessed(s, away), Held(s),
         s.lease.state = "previewing", NEW o \in Outputs, Enabled(s.lease.after[o])
  PROVE  Settles(s.outputs[o], s.lease.after[o])
<1> DEFINE P == Expected(s, o, away)
<1>1. s.lease.items[o].presented /\ s.outputs[o].connected
      /\ s.outputs[o].scheduled = s.lease.after[o]
  BY DEF Held, PresentedInv, Witnessed, Submitted, CandidateInv, Trying
<1>2. Faithful(s.outputs[o], s.lease.items[o], P)
  BY <1>1 DEF Witnessed, Submitted, FramesInv, Watched, Trying, Connected, Counting
<1>3. s.outputs[o].scheduled \in States BY SFields, OutputFields
<1>4. \A p \in P : p.state = s.lease.after[o]
  BY <1>1, <1>3, LitFacts DEF Expected
<1> HIDE DEF P
<1> QED BY <1>1, <1>2, <1>4 DEF Faithful, Settles

\* The lease looks at its items: what it offers was presented.
LEMMA AppliedHeld ==
  ASSUME NEW s, Sound(s), NEW away, Witnessed(s, away), Held(s), NEW test
  PROVE  LET t == Applied(s, test) IN
         /\ Held(t) /\ Along(s.lease.state, t.lease.state)
         /\ GivenUp(s) => t.lease.state # "reverted"
<1> DEFINE t == Applied(s, test)
           late == {o \in Outputs : ~Arrived(s, o, s.lease.after[o])}
<1>1. CASE s.lease.state = "reverting"
  <2>1. t = RolledBack(s) BY <1>1 DEF Applied
  <2>2. /\ t.lease.state \in {"reverting", "reverted", "invalidated", "failed"}
        /\ t.lease.state = "reverted" => ~GivenUp(s)
    BY <1>1, <2>1, RolledBackWitnessed
  <2> HIDE DEF t
  <2>3. Held(t) BY <2>2, LeftHeld
  <2> QED BY <1>1, <2>2, <2>3 DEF t, Along, ActiveStates, Ended
<1>2. CASE s.lease.state \notin {"applying", "previewing", "reverting"}
  <2>1. t = s BY <1>2 DEF Applied
  <2> QED BY <2>1 DEF Along, GivenUp
<1>3. CASE s.lease.state \in {"applying", "previewing"} /\ late # {}
  <2> DEFINE why == Obstacle(s, First(late))
  <2>1. t = IF why = "" THEN s ELSE Revert(s, why, NoOutput, test)
    BY <1>3 DEF Applied
  <2>2. why \in Withdrawals \cup {""} BY ObstacleType
  <2>3. CASE why = ""
    <3>1. t = s BY <2>1, <2>3
    <3> QED BY <1>3, <3>1 DEF Along
  <2>4. CASE why # ""
    <3>1. t = Revert(s, why, NoOutput, test) BY <2>1, <2>4
    <3>2. Safe(s) /\ why \in Withdrawals /\ s.lease.state \in Revocable
      BY <1>3, <2>2, <2>4 DEF Sound, Revocable
    <3> HIDE DEF t, why
    <3>3. GivenUp(Revert(s, why, NoOutput, test)) BY <3>2, RevertKeeps
    <3>4. Held(t) /\ t.lease.state \in Ended BY <3>1, <3>3, GivenUpHeld
    <3> QED BY <1>3, <3>4 DEF t, Along, ActiveStates, Revocable, Ended
  <2> QED BY <2>3, <2>4
<1>4. CASE s.lease.state \in {"applying", "previewing"} /\ late = {}
  <2> DEFINE l == [s.lease EXCEPT
              !.state = "previewing",
              !.due = IF s.lease.reason = "adaptive_sync_changed" THEN @ ELSE FALSE,
              !.reason = "confirmation_required",
              !.moved = FALSE]
  <2>1. s \in SType /\ s.lease \in LeaseType BY SFields DEF Sound, Safe
  <2>2. t = IF s.lease.state = "applying" THEN [s EXCEPT !.lease = l] ELSE s
    BY <1>4, <2>1 DEF Applied, SType
  <2>3. l.after = s.lease.after /\ l.items = s.lease.items /\ l.state = "previewing"
    BY <2>1 DEF LeaseType
  <2>4. [s EXCEPT !.lease = l].lease = l BY <2>1 DEF SType
  <2>5. \A o \in Outputs : Enabled(s.lease.after[o]) => s.lease.items[o].presented
    BY <1>4 DEF Arrived
  <2> HIDE DEF l, t
  <2>6. CASE s.lease.state = "applying"
    <3>1. t.lease = l BY <2>2, <2>4, <2>6
    <3>2. Held(t) BY <2>3, <2>5, <3>1 DEF Held, PresentedInv, HeldInv
    <3> QED BY <2>3, <2>6, <3>1, <3>2 DEF t, Along
  <2>7. CASE s.lease.state = "previewing"
    <3>1. t = s BY <2>2, <2>7
    <3> QED BY <2>7, <3>1 DEF t, Along
  <2> QED BY <1>4, <2>6, <2>7
<1> QED BY <1>1, <1>2, <1>3, <1>4

LEMMA ExpireHeld ==
  ASSUME NEW s, Sound(s), NEW away, Witnessed(s, away), NEW test
  PROVE  LET t == Expire(s, test) IN
         t = s \/ (GivenUp(t) /\ s.lease.state \in ActiveStates)
<1> DEFINE t == Expire(s, test)
<1>1. t = s \/ GivenUp(t) BY ExpireWitnessed
<1>2. ~Active(s) => t = s BY DEF Expire
<1> HIDE DEF t
<1> QED BY <1>1, <1>2 DEF t, Active

\* Whoever gives the preview up leaves it ended or ending.
LEMMA WayGiven ==
  ASSUME GivesWay, lease.state \in ActiveStates
  PROVE  Held(Here') /\ PathStep
<1> DEFINE t == Here'
<1>1. t.lease = lease' BY DEF Here
<1> HIDE DEF t
<1>2. Held(t) BY <1>1, LeftHeld DEF GivesWay
<1>3. PathStep BY DEF GivesWay, PathStep, Along, Ended
<1> QED BY <1>2, <1>3 DEF t

LEMMA SameStays ==
  ASSUME Held(Here), SameWitness(Here, Here')
  PROVE  Held(Here') /\ PathStep
<1> DEFINE t == Here'
<1>1. t.lease = lease' /\ Here.lease = lease BY DEF Here
<1> HIDE DEF t
<1>2. Held(t) BY SameHeld DEF t
<1>3. t.lease.state = lease.state BY <1>1 DEF SameWitness, t
<1>4. PathStep BY <1>1, <1>3 DEF PathStep, Along
<1> QED BY <1>2, <1>4 DEF t

\* Submitting doubts the offer, or finds every item as it was.
LEMMA SubmittingHeld ==
  ASSUME NEW s \in SType, NEW away, Submitted(s, away), Held(s)
  PROVE  Held(Submitting(s))
<1> DEFINE u == Submitting(s)
<1>1. CASE s.lease.state \notin Watched
  <2>1. u = s BY <1>1 DEF Submitting, Watched, Trying
  <2> QED BY <2>1
<1>2. CASE s.lease.state \in Watched
  <2>1. /\ u.lease.state = s.lease.state \/ u.lease.state = "applying"
        /\ SameWitness(s, u) \/ Rearmed(s, u) \/ NotReady(s, u)
    BY <1>2, SubmittingIs
  <2> HIDE DEF u
  <2>2. CASE SameWitness(s, u) BY <2>2, SameHeld DEF u
  <2>3. CASE Rearmed(s, u) \/ NotReady(s, u)
    <3>1. u.lease.state \notin {"previewing", "commit_authorized"}
      BY <1>2, <2>1, <2>3 DEF Rearmed, NotReady, Watched, Trying
    <3> QED BY SMTT(30), <3>1, LeftHeld DEF u
  <2> QED BY <2>1, <2>2, <2>3
<1> QED BY <1>1, <1>2

\* The candidate of an authorised lease is committed again: the hardware is
\* in it already, and so is the frame that is presented at once.
LEMMA ScreenedHeld ==
  ASSUME NEW s \in SType, Held(s), NEW early, Sound(Screened(s, early))
  PROVE  Held(Screened(s, early))
<1> DEFINE p == Powered(s)
<1>1. /\ p \in SType /\ p.lease = s.lease /\ Connected(p) = Connected(s)
      /\ \A o \in Connected(s) : p.outputs[o] = Committed(s.outputs[o])
      /\ \A o \in Outputs \ Connected(s) : p.outputs[o] = s.outputs[o]
  BY PoweredIs
<1> HIDE DEF p
<1>2. ASSUME NEW o \in Outputs
      PROVE  p.outputs[o].flight = s.outputs[o].flight /\ p.outputs[o].shown = s.outputs[o].shown
  <2>1. s.outputs[o] \in OutputType BY SFields
  <2>2. CASE o \in Connected(s) BY <1>1, <2>1, <2>2 DEF Committed, OutputType
  <2> QED BY <1>1, <2>2
<1>3. Held(p) BY <1>1, <1>2 DEF Held, PresentedInv, HeldInv, Settles
<1>4. CASE ~early BY <1>3, <1>4 DEF Screened, p
<1>5. CASE early
  <2> DEFINE t == PresentedEarly(p)
             lit == {o \in Connected(p) : Enabled(p.outputs[o].hw)}
  <2>1. /\ t.lease.state = p.lease.state /\ t.lease.after = p.lease.after
        /\ \A o \in Outputs : /\ t.outputs[o].hw = p.outputs[o].hw
                              /\ t.outputs[o].flight = p.outputs[o].flight
        /\ \A o \in lit : /\ t.lease.items[o] = Observe(p.lease.items[o], TRUE)
                          /\ t.outputs[o].shown = Picturing(p.outputs[o])
        /\ \A o \in Outputs \ lit : /\ t.lease.items[o] = p.lease.items[o]
                                    /\ t.outputs[o].shown = p.outputs[o].shown
    BY <1>1, PresentedEarlyIs
  <2>2. t = Screened(s, early) BY <1>5 DEF Screened, p
  <2> HIDE DEF t, lit
  <2>3. PresentedInv(t)
    <3> SUFFICES ASSUME t.lease.state = "previewing", NEW o \in Outputs,
                        Enabled(t.lease.after[o])
                 PROVE  t.lease.items[o].presented
      BY DEF PresentedInv
    <3>1. p.lease.items[o].presented BY <1>3, <2>1 DEF Held, PresentedInv
    <3>2. p.lease.items[o] \in ItemType BY <1>1, SFields, LeaseFields
    <3>3. Observe(p.lease.items[o], TRUE).presented BY <3>1, <3>2 DEF Observe, ItemType
    <3> QED BY <2>1, <3>1, <3>3
  <2>4. HeldInv(t)
    <3> SUFFICES ASSUME t.lease.state = "commit_authorized", NEW o \in Outputs,
                        Enabled(t.lease.after[o])
                 PROVE  Settles(t.outputs[o], t.lease.after[o])
      BY DEF HeldInv
    <3>1. Settles(p.outputs[o], t.lease.after[o]) BY <1>3, <2>1 DEF Held, HeldInv
    <3>2. p.outputs[o].hw = t.lease.after[o] BY <2>1, <2>2 DEF Sound, Candidates
    <3>3. t.outputs[o].shown.state = t.lease.after[o]
      <4>1. Picturing(p.outputs[o]).state = t.lease.after[o] BY <3>2 DEF Picturing
      <4>2. p.outputs[o].shown.state = t.lease.after[o] BY <3>1 DEF Settles
      <4>3. CASE o \in lit BY <2>1, <4>1, <4>3
      <4>4. CASE o \notin lit BY <2>1, <4>2, <4>4
      <4> QED BY <4>3, <4>4
    <3> QED BY <2>1, <3>1, <3>3 DEF Settles
  <2> QED BY <2>2, <2>3, <2>4 DEF Held
<1> QED BY <1>4, <1>5

-----------------------------------------------------------------------------
(***************************************************************************)
(* Every action.                                                           *)
(***************************************************************************)
LEMMA InitHeld == Init => Held(Here) /\ FilesInv
<1> SUFFICES ASSUME Init PROVE Held(Here) /\ FilesInv OBVIOUS
<1>1. Here.lease.state = "none" BY DEF Init, Here
<1>2. Held(Here) BY <1>1, LeftHeld
<1>3. FilesInv BY DEF Init, FilesInv
<1> QED BY <1>2, <1>3

LEMMA BeginHeld ==
  ASSUME IInv, NEW plan \in Plans, Begin(plan)
  PROVE  Held(Here') /\ PathStep
<1> DEFINE t == Here'
<1>1. t.lease = lease' BY DEF Here
<1>2. lease.state = "none" /\ lease'.state = "applying" BY HereFields DEF Begin, LeaseType
<1> HIDE DEF t
<1>3. Held(t) BY <1>1, <1>2, LeftHeld
<1> QED BY <1>2, <1>3 DEF t, PathStep

\* The frames and what is shown stay as they are.
LEMMA ManageStartHeld ==
  ASSUME IInv, Held(Here), ManageStart
  PROVE  Held(Here') /\ PathStep
<1> DEFINE s == Here
           t == Here'
<1>1. lease' = lease BY DEF ManageStart
<1>2. /\ t.lease = lease /\ t.outputs = outputs'
      /\ s.lease = lease /\ s.outputs = outputs /\ Held(s)
  BY <1>1 DEF Here
<1> HIDE DEF s, t
<1>3. \A o \in Outputs : /\ outputs'[o].flight = outputs[o].flight
                         /\ outputs'[o].shown = outputs[o].shown
  BY ManageStartIs
<1>4. Held(t) BY <1>2, <1>3 DEF Held, PresentedInv, HeldInv, Settles
<1> QED BY <1>1, <1>4 DEF t, PathStep, Along

LEMMA FrameHeld ==
  ASSUME IInv, Held(Here), NEW o \in Outputs, Frame(o)
  PROVE  Held(Here') /\ PathStep
<1> DEFINE s == Here
           t == Here'
<1>1. lease' = lease /\ lease.state # "commit_authorized" BY DEF Frame
<1>2. t.lease = lease /\ s.lease = lease /\ Held(s) BY <1>1 DEF Here
<1> HIDE DEF s, t
<1>3. Held(t) BY <1>1, <1>2 DEF Held, PresentedInv, HeldInv
<1> QED BY <1>1, <1>3 DEF t, PathStep, Along

\* The frames that still arrive for an authorised lease are of the candidate.
LEMMA PresentHeld ==
  ASSUME IInv, Held(Here), NEW o \in Outputs, NEW success \in BOOLEAN, Present(o, success)
  PROVE  Held(Here') /\ PathStep
<1> DEFINE flight == outputs[o].flight
           frame == Head(flight)
           rest == Tail(flight)
           shown == IF success THEN frame.picture ELSE outputs[o].shown
           out == [outputs[o] EXCEPT !.flight = rest, !.shown = shown]
           l == [lease EXCEPT !.items[o] = Observe(@, success)]
           s == Here
           t == Here'
<1>1. /\ outputs \in [Outputs -> OutputType] /\ outputs[o] \in OutputType
      /\ lease \in LeaseType /\ lease.items \in [Outputs -> ItemType]
      /\ lease.items[o] \in ItemType
  BY HereFields, LeaseFields
<1>2. /\ DOMAIN flight = 1 .. Len(flight) /\ Len(flight) \in Nat \ {0} /\ frame = flight[1]
      /\ DOMAIN rest = 1 .. Len(flight) - 1
      /\ \A i \in DOMAIN rest : rest[i] = flight[i + 1]
  <2>1. flight \in Seq(FrameType) /\ Len(flight) \in Nat /\ DOMAIN flight = 1 .. Len(flight)
        /\ flight # <<>>
    BY <1>1, OutputFields, FlightElements DEF Present
  <2> HIDE DEF flight
  <2> QED BY <2>1
<1>3. out.flight = rest /\ out.shown = shown
  <2> HIDE DEF rest, shown
  <2> QED BY <1>1 DEF OutputType
<1>4. outputs' = [outputs EXCEPT ![o] = out] BY <1>1 DEF Present
<1>5. /\ lease'.state = lease.state /\ lease'.after = lease.after
      /\ \A p \in Outputs : lease.items[p].presented => lease'.items[p].presented
  <2>1. lease' = l \/ lease' = lease BY DEF Present
  <2>2. /\ l.state = lease.state /\ l.after = lease.after
        /\ l.items = [lease.items EXCEPT ![o] = Observe(lease.items[o], success)]
    BY <1>1 DEF LeaseType
  <2>3. lease.items[o].presented => Observe(lease.items[o], success).presented
    BY <1>1 DEF Observe, ItemType
  <2> HIDE DEF l
  <2>4. \A p \in Outputs : lease.items[p].presented => l.items[p].presented
    BY <1>1, <2>2, <2>3
  <2> QED BY <2>1, <2>2, <2>4
<1>6. /\ t.lease = lease' /\ t.outputs = outputs'
      /\ s.lease = lease /\ s.outputs = outputs /\ Held(s)
  BY DEF Here
<1>7. ASSUME NEW c, Settles(outputs[o], c) PROVE Settles(out, c)
  <2>1. 1 \in DOMAIN flight /\ \A i \in DOMAIN rest : i + 1 \in DOMAIN flight BY <1>2
  <2>2. \A i \in DOMAIN flight : flight[i].picture.state = c BY <1>7 DEF Settles
  <2>3. shown.state = c
    <3>1. frame.picture.state = c BY <1>2, <2>1, <2>2
    <3>2. outputs[o].shown.state = c BY <1>7 DEF Settles
    <3> HIDE DEF frame
    <3> QED BY <3>1, <3>2
  <2>4. \A i \in DOMAIN rest : rest[i].picture.state = c BY <1>2, <2>1, <2>2
  <2> HIDE DEF out, rest, shown
  <2> QED BY <1>3, <2>3, <2>4 DEF Settles
<1> HIDE DEF out, s, t
<1>8. \A p \in Outputs : outputs'[p] = IF p = o THEN out ELSE outputs[p] BY <1>1, <1>4
<1>9. PresentedInv(t) BY <1>5, <1>6 DEF Held, PresentedInv
<1>10. HeldInv(t)
  <2> SUFFICES ASSUME t.lease.state = "commit_authorized", NEW p \in Outputs,
                      Enabled(t.lease.after[p])
               PROVE  Settles(t.outputs[p], t.lease.after[p])
    BY DEF HeldInv
  <2>1. Settles(outputs[p], t.lease.after[p]) BY <1>5, <1>6 DEF Held, HeldInv
  <2>2. CASE p = o BY <1>6, <1>7, <1>8, <2>1, <2>2
  <2>3. CASE p # o BY <1>6, <1>8, <2>1, <2>3
  <2> QED BY <2>2, <2>3
<1> QED BY <1>5, <1>9, <1>10 DEF Held, t, PathStep, Along

\* A lease of which nothing is said: kept, or lost.
LEMMA OverHeld ==
  ASSUME lease'.state \notin {"previewing", "commit_authorized"}
  PROVE  Held(Here')
<1> DEFINE t == Here'
<1>1. t.lease = lease' BY DEF Here
<1> HIDE DEF t
<1>2. Held(t) BY <1>1, LeftHeld
<1> QED BY <1>2 DEF t

\* What was on offer is what the helper may save.
LEMMA AuthorizesHeld ==
  ASSUME IInv, SeenInv, Held(Here), HelperAuthorizes \/ TickConflict
  PROVE  Held(Here') /\ PathStep
<1>1. CASE HelperAuthorizes
  <2> DEFINE s == Here
             t == Here'
  <2>1. /\ lease.state = "previewing" /\ lease'.state = "commit_authorized"
        /\ lease'.after = lease.after /\ outputs' = outputs
    BY <1>1, HereFields DEF HelperAuthorizes, Authorized, LeaseType
  <2>2. /\ t.lease = lease' /\ t.outputs = outputs
        /\ s.lease = lease /\ s.outputs = outputs /\ s \in SType
        /\ Held(s) /\ Witnessed(s, session.away)
    BY <2>1, HereFields DEF Here, SeenInv
  <2> HIDE DEF s, t
  <2>3. \A o \in Outputs : Enabled(lease.after[o]) => Settles(outputs[o], lease.after[o])
    BY <2>1, <2>2, OfferSettles
  <2>4. Held(t) BY <2>1, <2>2, <2>3 DEF Held, PresentedInv, HeldInv
  <2> QED BY <1>1, <2>1, <2>4 DEF t, PathStep
<1>2. CASE TickConflict
  <2>1. lease.state = "commit_authorized" /\ lease'.state = "failed"
    BY <1>2, HereFields DEF TickConflict, LeaseType
  <2>2. PathStep BY <2>1 DEF PathStep, Along, ActiveStates, Revocable, Ended
  <2> QED BY <2>1, <2>2, OverHeld
<1> QED BY <1>1, <1>2

LEMMA KeptHeld ==
  ASSUME IInv, lease.state = "commit_authorized", Leave(Kept(Here))
  PROVE  Held(Here') /\ PathStep
<1> DEFINE t == Kept(Here)
<1>1. t.outputs = outputs /\ t.lease.after = lease.after /\ t.lease.state = "kept"
  BY KeptSound
<1>2. outputs' = t.outputs /\ lease' = t.lease BY DEF Leave
<1> HIDE DEF t
<1>3. Keeps BY <1>1, <1>2 DEF Keeps
<1>4. Held(Here') BY <1>1, <1>2, OverHeld
<1> QED BY <1>3, <1>4 DEF PathStep

LEMMA FinalizesHeld ==
  ASSUME IInv, Held(Here), HelperFinalizes
  PROVE  Held(Here') /\ PathStep
<1>1. CASE lease.state = "commit_authorized" /\ ~session.locked
  <2>1. Leave(Kept(Here)) BY <1>1 DEF HelperFinalizes
  <2> QED BY <1>1, <2>1, KeptHeld
<1>2. CASE ~(lease.state = "commit_authorized" /\ ~session.locked)
  <2>1. outputs' = outputs /\ lease' = lease
    BY <1>2, HereFields DEF HelperFinalizes, Leave
  <2> QED BY <2>1, SameHere, SameStays
<1> QED BY <1>1, <1>2

LEMMA ReconcilesHeld ==
  ASSUME IInv, SeenInv, NEW test, TickReconciles(test)
  PROVE  Held(Here') /\ PathStep
<1>1. lease.state = "commit_authorized" /\ UNCHANGED session BY DEF TickReconciles
<1>2. CASE files'.decision = "saved"
  <2>1. Leave(Kept(Here)) BY <1>2 DEF TickReconciles
  <2> QED BY <1>1, <2>1, KeptHeld
<1>3. CASE files'.decision # "saved"
  <2>1. Leave(Revert(Here, "commit_deadline", NoOutput, test)) BY <1>3 DEF TickReconciles
  <2>2. Safe(Here) /\ Here.lease = lease /\ lease.state \in Revocable
    BY <1>1, HereFields DEF IInv, Sound, Revocable
  <2>3. GivesWay BY <1>1, <2>1, <2>2, GivenUpSeen DEF Withdrawals
  <2> QED BY <2>2, <2>3, WayGiven DEF ActiveStates
<1> QED BY <1>2, <1>3

\* A tick: the lease is given up, or looked at; and then for the time.
LEMMA TickHeld ==
  ASSUME IInv, SeenInv, Held(Here), NEW test, Tick(test)
  PROVE  Held(Here') /\ PathStep
<1>1. PICK s : /\ Inspect(Here, test) = Applied(s, test)
               /\ Sound(s) /\ Moves(Here, s)
               /\ s = Here \/ GivenUp(s)
  BY InspectIs DEF IInv
<1> DEFINE t == Applied(s, test)
           u == Expire(t, test)
<1>2. Here.lease = lease /\ lease.state \in ActiveStates
  BY HereFields DEF Tick, Active
<1>3. Witnessed(s, session.away) /\ Held(s)
  BY <1>1, GivenUpWitnessed, GivenUpHeld DEF SeenInv
<1>4. /\ Sound(t) /\ Witnessed(t, session.away)
      /\ Held(t) /\ Along(s.lease.state, t.lease.state)
      /\ GivenUp(s) => t.lease.state # "reverted"
  BY <1>1, <1>3, AppliedKeeps, AppliedWitnessed, AppliedHeld
<1>5. Leave(u) BY <1>1 DEF Tick
<1> HIDE DEF t
<1>6. Sound(u) /\ (u = t \/ GivenUp(u)) BY <1>4, ExpireKeeps, ExpireWitnessed
<1> HIDE DEF u
<1>7. Here' = u /\ lease' = u.lease BY <1>5, <1>6, LeaveIs DEF IInv, Sound, Safe
<1>8. Held(u) BY <1>4, <1>6, GivenUpHeld
<1>9. CASE GivenUp(u)
  <2>1. u.lease.state \in Ended BY <1>9, GivenUpHeld
  <2> QED BY <1>2, <1>7, <1>8, <2>1 DEF PathStep, Along
<1>10. CASE u = t /\ s = Here
  BY <1>2, <1>4, <1>7, <1>8, <1>10 DEF PathStep
<1>11. CASE u = t /\ GivenUp(s)
  <2>1. t.lease.state \in Ended
    BY <1>4, <1>11 DEF GivenUp, Along, Ended
  <2> QED BY <1>2, <1>7, <1>8, <1>11, <2>1 DEF PathStep, Along
<1> QED BY <1>1, <1>6, <1>9, <1>10, <1>11

LEMMA CommitHeld ==
  ASSUME IInv, SeenInv, Held(Here), NEW early \in BOOLEAN, NEW test,
         CommitOutputState(early, test)
  PROVE  Held(Here') /\ PathStep
<1>1. PICK moved \in BOOLEAN :
        LET s == Submitting(Here)
            p == Noticed(Arrives(Screened(s, early)), moved) IN
        /\ Sound(s) /\ Sound(Screened(s, early)) /\ Sound(Arrives(Screened(s, early)))
        /\ Sound(p) /\ Moves(Here, p) /\ Witnessed(p, session.away)
        /\ p.lease.state = s.lease.state
        /\ \/ s.lease.state = lease.state
           \/ s.lease.state = "applying" /\ lease.state = "previewing"
        /\ outputs' = Applied(p, test).outputs /\ lease' = Applied(p, test).lease
        /\ wm'.dirty = Applied(p, test).dirty
  BY CommitWitnessed
<1> DEFINE s == Submitting(Here)
           shown == Screened(s, early)
           arrived == Arrives(shown)
           p == Noticed(arrived, moved)
           t == Applied(p, test)
<1>2. Held(s)
  BY HereFields, SubmittingHeld DEF SeenInv, Witnessed
<1>3. /\ Sound(s) /\ Sound(shown) /\ Sound(arrived) /\ Sound(p)
      /\ Witnessed(p, session.away) /\ p.lease.state = s.lease.state
      /\ \/ s.lease.state = lease.state
         \/ s.lease.state = "applying" /\ lease.state = "previewing"
      /\ outputs' = t.outputs /\ lease' = t.lease /\ wm'.dirty = t.dirty
  BY <1>1
<1> HIDE DEF t, s
<1>4. Held(shown) BY <1>2, <1>3, ScreenedHeld DEF Sound, Safe
<1> HIDE DEF shown
<1>5. SameWitness(shown, arrived) BY <1>3, ArrivesIs DEF SameWitness, Sound, Safe
<1> HIDE DEF arrived
<1>6. SameWitness(arrived, p) BY <1>3, NoticedKeeps DEF SameWitness, Moves
<1> HIDE DEF p
<1>7. Held(p) BY <1>4, <1>5, <1>6, SameHeld
<1>8. Sound(t) /\ Held(t) /\ Along(p.lease.state, t.lease.state)
  BY <1>3, <1>7, AppliedKeeps, AppliedHeld DEF t
<1>9. Here' = t BY <1>3, <1>8, SFields DEF Here, Sound, Safe
<1>10. lease.state \in ActiveStates
  BY HereFields DEF CommitOutputState, Active
<1>11. Along(lease.state, t.lease.state)
  BY <1>3, <1>8, <1>10 DEF Along, ActiveStates, Revocable, Ended
<1> QED BY <1>3, <1>8, <1>9, <1>11 DEF PathStep

\* Those who give the preview up.
LEMMA WithdrawalsHeld ==
  ASSUME IInv, SeenInv,
         \/ \E test \in Tests : RequestRevert(test) \/ OwnerGone(test) \/ PlugIn(test)
         \/ \E partly \in SUBSET Outputs, test \in Tests : ModesetFailed(partly, test)
         \/ \E o \in Outputs, test \in Tests :
              Unplug(o, test) \/ (\E on \in BOOLEAN : SetPower(o, on, test))
  PROVE  Held(Here') /\ PathStep
<1>1. lease.state \in ActiveStates
  <2>1. \A test : RequestRevert(test) \/ OwnerGone(test) \/ PlugIn(test) =>
          lease.state \in ActiveStates
    BY DEF RequestRevert, OwnerGone, PlugIn, ActiveStates
  <2>2. Active(Here) => lease.state \in ActiveStates BY HereFields DEF Active
  <2>3. \A partly, test : ModesetFailed(partly, test) => Active(Here) BY ZenonT(60) DEF ModesetFailed
  <2>4. \A o, test : Unplug(o, test) => Active(Here) BY ZenonT(60) DEF Unplug
  <2>5. \A o, on, test : SetPower(o, on, test) => Active(Here) BY DEF SetPower
  <2> QED BY <2>1, <2>2, <2>3, <2>4, <2>5
<1>2. GivesWay BY RequestSeen, ModesetFailedSeen, UnplugSeen, SetPowerSeen
<1> QED BY <1>1, <1>2, WayGiven

LEMMA HeldStep ==
  IInv /\ SeenInv /\ Held(Here) /\ [Next]_vars => Held(Here') /\ (PathStep \/ UNCHANGED vars)
<1> SUFFICES ASSUME IInv, SeenInv, Held(Here), [Next]_vars
             PROVE  Held(Here') /\ (PathStep \/ UNCHANGED vars)
  OBVIOUS
<1>1. CASE \E plan \in Plans : Begin(plan) BY <1>1, BeginHeld
<1>2. CASE ManageStart BY <1>2, ManageStartHeld
<1>3. CASE \E early \in BOOLEAN, test \in Tests : CommitOutputState(early, test)
  BY <1>3, CommitHeld
<1>4. CASE \E o \in Outputs : Frame(o) \/ (\E success \in BOOLEAN : Present(o, success))
  BY <1>4, FrameHeld, PresentHeld
<1>5. CASE \/ \E test \in Tests : RequestRevert(test) \/ OwnerGone(test) \/ PlugIn(test)
           \/ \E partly \in SUBSET Outputs, test \in Tests : ModesetFailed(partly, test)
           \/ \E o \in Outputs, test \in Tests :
                Unplug(o, test) \/ (\E on \in BOOLEAN : SetPower(o, on, test))
  BY <1>5, WithdrawalsHeld
<1>6. CASE HelperStep \/ HelperCrashes \/ OtherRecovers
  BY <1>6, QuietSame, SameStays, AuthorizesHeld, FinalizesHeld DEF HelperStep
<1>7. CASE Elapse \/ Timer
  BY <1>7, QuietSame, SameStays, TickHeld, ReconcilesHeld, AuthorizesHeld DEF Timer
<1>8. CASE \E o \in Outputs : Fullscreen(o) BY <1>8, FullscreenSame, SameStays
<1>9. CASE SwitchSession \/ LockSession BY <1>9, QuietSame, SameStays
<1>10. CASE UNCHANGED vars
  <2>1. Here' = Here BY <1>10 DEF vars, Here
  <2>2. Held(Here') BY <2>1
  <2> QED BY <1>10, <2>2
<1> QED
  BY <1>1, <1>2, <1>3, <1>4, <1>5, <1>6, <1>7, <1>8, <1>9, <1>10 DEF Next

-----------------------------------------------------------------------------
(***************************************************************************)
(* The files: one authorisation, one decision.                             *)
(***************************************************************************)
Granted == files.helper # "idle"

DecideStep ==
  /\ Granted' = Granted \/ (HelperAuthorizes /\ ~Granted /\ Granted')
  /\ files'.decision # files.decision =>
       Granted /\ files.decision = "none" /\ files'.decision \in {"failed", "saved"}

\* The helper, and whoever recovers what it left.
LEMMA HelperDecisions ==
  ASSUME IInv, FilesInv, HelperStep \/ HelperCrashes \/ OtherRecovers
  PROVE  FilesInv' /\ DecideStep
<1>1. files \in [ helper : HelperHolds \cup {"idle", "gone"},
                  journal : {"none", "prepared", "committed"},
                  decision : {"none", "failed", "saved"} ]
  BY DEF IInv, TypeOK
<1>2. CASE HelperStep \/ HelperCrashes
  <2>1. CASE HelperAuthorizes \/ HelperDeclines \/ HelperFinalizes \/ HelperCrashes
    BY <1>1, <2>1
    DEF FilesInv, DecideStep, Granted, HelperAuthorizes, HelperDeclines, HelperFinalizes,
        HelperCrashes, HelperHolds
  <2>2. CASE HelperPrepares BY <1>1, <2>2 DEF FilesInv, DecideStep, Granted, HelperPrepares
  <2>3. CASE HelperCommits BY <1>1, <2>3 DEF FilesInv, DecideStep, Granted, HelperCommits
  <2>4. CASE HelperExpires \/ HelperDecides
    BY <1>1, <2>4 DEF FilesInv, DecideStep, Granted, HelperExpires, HelperDecides
  <2> QED BY <1>2, <2>1, <2>2, <2>3, <2>4 DEF HelperStep
<1>3. CASE OtherRecovers
  BY <1>1, <1>3 DEF FilesInv, DecideStep, Granted, OtherRecovers, Recovered
<1> QED BY <1>2, <1>3

LEMMA DecisionStep ==
  IInv /\ FilesInv /\ [Next]_vars => FilesInv' /\ DecideStep
<1> SUFFICES ASSUME IInv, FilesInv, [Next]_vars PROVE FilesInv' /\ DecideStep
  OBVIOUS
<1>1. CASE HelperStep \/ HelperCrashes \/ OtherRecovers BY <1>1, HelperDecisions
<1>2. CASE \E test \in Tests : TickReconciles(test)
  <2>1. files \in [ helper : HelperHolds \cup {"idle", "gone"},
                    journal : {"none", "prepared", "committed"},
                    decision : {"none", "failed", "saved"} ]
    BY DEF IInv, TypeOK
  <2>2. files' = Recovered(files) /\ files.helper \notin HelperHolds
    BY <1>2 DEF TickReconciles, WriterBusy
  <2> QED BY <2>1, <2>2 DEF FilesInv, DecideStep, Granted, Recovered, HelperHolds
<1>3. CASE UNCHANGED files BY <1>3 DEF FilesInv, DecideStep, Granted
<1>4. HelperStep \/ HelperCrashes \/ OtherRecovers
        \/ (\E test \in Tests : TickReconciles(test)) \/ UNCHANGED files
  BY ZenonT(60) DEF Next, vars, Begin, ManageStart, CommitOutputState, ModesetFailed, Frame, Present,
         RequestRevert, OwnerGone, Elapse, Timer, Tick, TickWaits, TickConflict, Unplug,
         SetPower, PlugIn, Fullscreen, SwitchSession, LockSession
<1> QED BY <1>1, <1>2, <1>3, <1>4

-----------------------------------------------------------------------------
(***************************************************************************)
(* The refinement.                                                         *)
(***************************************************************************)
\* All screens are in the configuration c, and show it.
ShowsAll(c) ==
  \A o \in Outputs : /\ outputs[o].connected
                     /\ outputs[o].hw = c[o]
                     /\ Shows(o, c[o])

LEMMA ViewIs ==
  /\ "after" \in View <=> ShowsAll(lease.after)
  /\ "before" \in View <=> ShowsAll(lease.before)
  /\ View \subseteq {"before", "after"}
BY DEF View, ShowsAll

LEMMA PhaseIs ==
  ASSUME IInv
  PROVE  /\ lease.state \in {"waiting_session", "reverting"} => Phase = "withdrawn"
         /\ lease.state \in {"invalidated", "failed"} => Phase = "lost"
         /\ lease.state \in {"none", "applying", "previewing", "commit_authorized",
                             "kept", "reverted"} => Phase = lease.state
         /\ lease.state \in {"none", "applying", "previewing", "commit_authorized",
                             "waiting_session", "reverting", "kept", "reverted",
                             "invalidated", "failed"}
<1>1. lease.state \in ActiveStates \cup {"none", "kept", "reverted", "invalidated", "failed"}
  BY HereFields, LeaseFields
<1> QED BY <1>1 DEF Phase, ActiveStates, Revocable

\* The same, of the state after a step.
LEMMA ViewNext ==
  /\ "after" \in View' <=> ShowsAll(lease.after)'
  /\ "before" \in View' <=> ShowsAll(lease.before)'
  /\ View' \subseteq {"before", "after"}
BY DEF View, ShowsAll

LEMMA PhaseNext ==
  ASSUME IInv'
  PROVE  /\ lease'.state \in {"waiting_session", "reverting"} => Phase' = "withdrawn"
         /\ lease'.state \in {"invalidated", "failed"} => Phase' = "lost"
         /\ lease'.state \in {"none", "applying", "previewing", "commit_authorized",
                              "kept", "reverted"} => Phase' = lease'.state
<1>1. lease'.state \in ActiveStates \cup {"none", "kept", "reverted", "invalidated", "failed"}
  BY DEF IInv, TypeOK, LeaseType
<1> QED BY <1>1 DEF Phase, ActiveStates, Revocable

\* What is offered, kept and restored is seen.
LEMMA StepShows ==
  ASSUME IInv, SeenInv, Held(Here), [Next]_vars
  PROVE  /\ lease.state # "previewing" /\ lease'.state = "previewing" => "after" \in View'
         /\ lease.state # "kept" /\ lease'.state = "kept" =>
              "after" \in View' /\ files'.decision = "saved"
         /\ lease.state # "reverted" /\ lease'.state = "reverted" => "before" \in View'
<1>1. /\ "after" \in View' <=> ShowsAll(lease.after)'
      /\ "before" \in View' <=> ShowsAll(lease.before)'
  BY ViewNext
<1>2. CASE UNCHANGED vars BY <1>2 DEF vars
<1>3. CASE ~UNCHANGED vars
  <2>1. OfferStep /\ RestoreStep BY <1>3, SeenStep
  <2>2. KeptStep BY <1>3, NextStep
  <2>3. ASSUME lease.state # "previewing", lease'.state = "previewing"
        PROVE  ShowsAll(lease.after)'
    <3>1. Offers(Here', session'.away) BY <2>1, <2>3 DEF OfferStep
    <3> QED BY <3>1 DEF Offers, Here, ShowsAll, Shows
  <2>4. ASSUME lease.state # "reverted", lease'.state = "reverted"
        PROVE  ShowsAll(lease.before)'
    <3>1. Restores(Here') BY <2>1, <2>4 DEF RestoreStep
    <3> QED BY <3>1 DEF Restores, Here, ShowsAll, Shows
  <2>5. ASSUME lease.state # "kept", lease'.state = "kept"
        PROVE  ShowsAll(lease.after)' /\ files'.decision = "saved"
    <3>1. PathStep BY <1>3, HeldStep
    <3>2. Keeps BY <2>5, <3>1 DEF PathStep, Along, Ended, ActiveStates, Revocable
    <3>3. \A o \in Outputs : Enabled(lease.after[o]) => outputs[o].shown.state = lease.after[o]
      BY <3>2, HereFields DEF Held, HeldInv, Settles, Keeps
    <3>4. /\ files'.decision = "saved"
          /\ \A o \in Outputs : outputs'[o].connected /\ outputs'[o].hw = lease.after[o]
      BY <2>2, <2>5 DEF KeptStep
    <3> QED BY <3>2, <3>3, <3>4 DEF Keeps, ShowsAll, Shows
  <2> QED BY <1>1, <2>3, <2>4, <2>5
<1> QED BY <1>2, <1>3

\* Every step is a step of the contract or leaves what it speaks of unchanged.
LEMMA ContractStep ==
  ASSUME IInv, IInv', SeenInv, Held(Here), FilesInv, [Next]_vars
  PROVE  [Contract!Next]_(Contract!vars)
<1>1. CASE UNCHANGED vars
  BY <1>1 DEF vars, Contract!vars, Phase, View, Shows
<1>2. CASE ~UNCHANGED vars
  <2>1. PathStep /\ DecideStep BY <1>2, HeldStep, DecisionStep
  <2>2. Contract!Look
    <3>1. View' \in SUBSET Contract!Configurations BY ViewNext DEF Contract!Configurations
    <3> QED BY <2>1, <3>1 DEF Contract!Look, DecideStep, Granted
  <2>3. CASE HelperAuthorizes /\ lease.state = "previewing" /\ lease'.state = "commit_authorized"
    <3>1. Phase = "previewing" /\ Phase' = "commit_authorized"
      BY <2>3, PhaseIs, PhaseNext
    <3>2. ~Granted /\ Granted' BY <2>3 DEF HelperAuthorizes, Granted
    <3>3. Contract!Authorize BY <3>1, <3>2 DEF Contract!Authorize, Granted
    <3> QED BY <2>2, <3>3 DEF Contract!Next
  <2>4. CASE ~(HelperAuthorizes /\ lease.state = "previewing"
                 /\ lease'.state = "commit_authorized")
    <3>1. Granted' = Granted
      <4>1. ~HelperAuthorizes
        BY <2>4, HereFields DEF HelperAuthorizes, Authorized, LeaseType
      <4> QED BY <2>1, <4>1 DEF DecideStep
    <3>2. \/ Along(lease.state, lease'.state)
          \/ lease.state = "none" /\ lease'.state = "applying"
          \/ Keeps
      BY <2>1, <2>4 DEF PathStep
    <3>3. /\ lease.state # "previewing" /\ lease'.state = "previewing" => "after" \in View'
          /\ lease.state # "kept" /\ lease'.state = "kept" =>
               "after" \in View' /\ files'.decision = "saved"
          /\ lease.state # "reverted" /\ lease'.state = "reverted" => "before" \in View'
      BY StepShows
    <3>4. CASE lease.state = "none" /\ lease'.state = "applying"
      <4>1. Phase = "none" /\ Phase' = "applying" BY <3>4, PhaseIs, PhaseNext
      <4> QED BY <2>2, <3>1, <4>1 DEF Contract!Next, Contract!Begin, Granted
    <3>5. CASE Keeps
      <4>1. Phase = "commit_authorized" /\ Phase' = "kept" BY <3>5, PhaseIs, PhaseNext DEF Keeps
      <4> QED BY <2>2, <3>1, <3>3, <3>5, <4>1 DEF Contract!Next, Contract!Keep, Granted, Keeps
    <3>6. CASE lease'.state = lease.state
      <4>1. Phase' = Phase BY <3>6 DEF Phase
      <4> QED BY <2>2, <3>1, <4>1 DEF Contract!Next, Granted
    <3>7. CASE lease.state = "applying" /\ lease'.state = "previewing"
      <4>1. Phase = "applying" /\ Phase' = "previewing" BY <3>7, PhaseIs, PhaseNext
      <4> QED BY <2>2, <3>1, <3>3, <3>7, <4>1 DEF Contract!Next, Contract!Offer, Granted
    <3>8. CASE lease.state = "previewing" /\ lease'.state = "applying"
      <4>1. Phase = "previewing" /\ Phase' = "applying" BY <3>8, PhaseIs, PhaseNext
      <4> QED BY <2>2, <3>1, <4>1 DEF Contract!Next, Contract!Doubt, Granted
    <3>9. CASE lease.state \in {"waiting_session", "reverting"} /\ lease'.state = "reverted"
      <4>1. Phase = "withdrawn" /\ Phase' = "reverted" BY <3>9, PhaseIs, PhaseNext
      <4> QED BY <2>2, <3>1, <3>3, <3>9, <4>1 DEF Contract!Next, Contract!Restore, Granted
    <3>10. CASE lease.state \in ActiveStates /\ lease'.state \in Ended
      <4>1. Phase \in Contract!Standing \cup {"withdrawn"} /\ Phase' \in {"withdrawn", "lost"}
        BY <3>10, PhaseIs, PhaseNext DEF ActiveStates, Revocable, Ended, Contract!Standing
      <4> QED
        BY <2>2, <3>1, <4>1 DEF Contract!Next, Contract!Withdraw, Contract!Lose, Granted
    <3> QED BY <3>2, <3>4, <3>5, <3>6, <3>7, <3>8, <3>9, <3>10 DEF Along
  <2> QED BY <2>3, <2>4
<1> QED BY <1>1, <1>2

\* What the theorem below says of the states.
OfferInv == Held(Here) /\ FilesInv

\* As long as a candidate is on offer, and while the helper may save it, every
\* lit screen shows it and no frame on its way changes that (applied, authorize).
THEOREM OffersHold == Spec => []OfferInv
<1>1. Init => OfferInv BY InitHeld DEF OfferInv
<1>2. IInv /\ SeenInv /\ OfferInv /\ [Next]_vars => OfferInv'
  <2> SUFFICES ASSUME IInv, SeenInv, OfferInv, [Next]_vars PROVE OfferInv'
    OBVIOUS
  <2>1. Held(Here') BY HeldStep DEF OfferInv
  <2>2. FilesInv' BY DecisionStep DEF OfferInv
  <2> QED BY <2>1, <2>2 DEF OfferInv
<1> QED BY <1>1, <1>2, Invariance, FramesWitnessed, PTL DEF Spec

\* DisplayPreview implements the contract of a display preview.
THEOREM Refinement == Spec => ImplementsPreviewContract
<1>1. Init => Contract!Init
  <2> SUFFICES ASSUME Init PROVE Contract!Init OBVIOUS
  <2>1. IInv BY InitIInv
  <2>2. Phase = "none" BY <2>1, PhaseIs DEF Init
  <2>3. View \in SUBSET Contract!Configurations BY ViewIs DEF Contract!Configurations
  <2> QED BY <2>2, <2>3 DEF Init, Contract!Init
<1>2. IInv /\ IInv' /\ SeenInv /\ OfferInv /\ [Next]_vars =>
        [Contract!Next]_(Contract!vars)
  BY ContractStep DEF OfferInv
<1> QED
  BY <1>1, <1>2, Invariance, FramesWitnessed, OffersHold, PTL
  DEF Spec, ImplementsPreviewContract, Contract!Spec
=============================================================================
