--------------------- MODULE DisplayPreviewSteps_proofs ---------------------
(***************************************************************************)
(* What a screen shows when a preview is offered, and when it is reported  *)
(* as reverted: proofs for any number of outputs, any candidates, and any  *)
(* number of troubles and of frames in flight.                             *)
(*                                                                         *)
(* Presentations arrive later than the commits they belong to, and those   *)
(* of three configurations arrive in one stream.  The invariant says of    *)
(* every output which frames of the stream may be counted for its item,    *)
(* and what they are pictures of.  It is stated of the s that the          *)
(* functions of the preview work on, as in DisplayPreview_proofs.          *)
(***************************************************************************)
EXTENDS DisplayPreview_proofs

-----------------------------------------------------------------------------
(***************************************************************************)
(* The invariant.                                                          *)
(***************************************************************************)
Trying == {"applying", "previewing"}
Watched == Trying \cup {"reverting"}

\* The state c with its screen lit.
Lit(c) == IF c < 0 THEN -c ELSE c

\* What a frame that counts for the item of o is a picture of.  (Of adaptive
\* sync nothing is expected once the session has been away.)
Expected(s, o, away) ==
  {p \in Picture :
     /\ p.state = Lit(s.outputs[o].scheduled)
     /\ s.lease.state \in Trying /\ ~away => p.sync = s.lease.items[o].target}

\* Frames are presented in order: whatever follows a frame that counts is as
\* expected too, and so is everything once the item was presented.
Faithful(out, item, P) ==
  /\ \A i, j \in DOMAIN out.flight :
       i <= j /\ out.flight[i].fresh => out.flight[j].picture \in P
  /\ item.presented =>
       out.shown \in P /\ \A j \in DOMAIN out.flight : out.flight[j].picture \in P

FramesInv(s, away) ==
  s.lease.state \in Watched =>
    \A o \in Connected(s) : Counting(s.lease.items[o]) =>
      /\ Lit(s.outputs[o].sent) = Lit(s.outputs[o].scheduled)
      /\ Faithful(s.outputs[o], s.lease.items[o], Expected(s, o, away))

\* The hardware is in the state that frames are expected to be pictures of.
HardwareInv(s, away) ==
  s.lease.state \in Watched =>
    \A o \in Connected(s) : Counting(s.lease.items[o]) =>
      /\ Lit(s.outputs[o].hw) = Lit(s.outputs[o].scheduled)
      /\ s.lease.state \in Trying /\ ~away =>
           s.outputs[o].sync = s.lease.items[o].target

\* Until it is given up, the candidate is what every output is to become.
CandidateInv(s) ==
  s.lease.state \in Trying =>
    /\ \A o \in Outputs : /\ s.outputs[o].connected
                          /\ s.outputs[o].scheduled = s.lease.after[o]
                          /\ s.lease.items[o].presented => s.lease.items[o].submitted
    /\ (\E o \in Outputs : s.lease.items[o].submitted) =>
         \A o \in Outputs : s.outputs[o].sent = s.lease.after[o]

\* Before the lease every output is there, and nothing counts.
FirstInv(s) ==
  s.lease.state = "none" =>
    \A o \in Outputs : s.outputs[o].connected /\ ~Counting(s.lease.items[o])

Submitted(s, away) == FramesInv(s, away) /\ CandidateInv(s) /\ FirstInv(s)
Witnessed(s, away) == Submitted(s, away) /\ HardwareInv(s, away)

AwayInv == session.away \/ session.active

SeenInv == Witnessed(Here, session.away) /\ AwayInv

-----------------------------------------------------------------------------
(***************************************************************************)
(* The operators.                                                          *)
(***************************************************************************)
\* The invariant is about these fields only.
SameWitness(s, t) ==
  /\ t.lease.state = s.lease.state /\ t.lease.after = s.lease.after
  /\ t.lease.items = s.lease.items
  /\ \A o \in Outputs : /\ t.outputs[o].connected = s.outputs[o].connected
                        /\ t.outputs[o].scheduled = s.outputs[o].scheduled
                        /\ t.outputs[o].sent = s.outputs[o].sent
                        /\ t.outputs[o].hw = s.outputs[o].hw
                        /\ t.outputs[o].sync = s.outputs[o].sync
                        /\ t.outputs[o].flight = s.outputs[o].flight
                        /\ t.outputs[o].shown = s.outputs[o].shown

LEMMA SameWitnessed ==
  ASSUME NEW s, NEW t, NEW away, Witnessed(s, away), SameWitness(s, t)
  PROVE  Witnessed(t, away)
<1>1. Connected(t) = Connected(s) /\ Connected(s) \subseteq Outputs
  BY DEF SameWitness, Connected
<1>2. \A o \in Outputs : Expected(t, o, away) = Expected(s, o, away)
  BY DEF SameWitness, Expected
<1>3. \A o \in Outputs : \A item :
        Faithful(t.outputs[o], item, Expected(t, o, away))
          <=> Faithful(s.outputs[o], item, Expected(s, o, away))
  BY <1>2 DEF SameWitness, Faithful
<1>4. FramesInv(t, away)
  BY <1>1, <1>3 DEF Witnessed, Submitted, FramesInv, SameWitness
<1>5. HardwareInv(t, away)
  BY <1>1 DEF Witnessed, HardwareInv, SameWitness
<1>6. CandidateInv(t) /\ FirstInv(t)
  BY DEF Witnessed, Submitted, CandidateInv, FirstInv, SameWitness
<1> QED BY <1>4, <1>5, <1>6 DEF Witnessed, Submitted

\* A lease that is over, waits for the session or is authorised expects nothing.
LEMMA UnwatchedWitnessed ==
  ASSUME NEW t, NEW away, t.lease.state \notin Watched \cup {"none"}
  PROVE  Witnessed(t, away)
BY DEF Witnessed, Submitted, FramesInv, HardwareInv, CandidateInv, FirstInv, Watched, Trying

\* Nothing that was presented before counts for a rollback.
LEMMA GivenUpWitnessed ==
  ASSUME NEW t, NEW away, GivenUp(t)
  PROVE  Witnessed(t, away)
BY DEF GivenUp, Witnessed, Submitted, FramesInv, HardwareInv, CandidateInv, FirstInv,
       Watched, Trying

\* Frames in flight, once they count no more.
LEMMA StaleFrames ==
  ASSUME NEW flight \in FlightType
  PROVE  /\ Stale(flight) \in FlightType /\ DOMAIN Stale(flight) = DOMAIN flight
         /\ \A i \in DOMAIN flight : ~Stale(flight)[i].fresh
<1>1. \A i \in DOMAIN flight : flight[i] \in FrameType
  BY DEF FlightType
<1>2. \A i \in DOMAIN flight : ~[flight[i] EXCEPT !.fresh = FALSE].fresh
  BY <1>1 DEF FrameType
<1> QED BY <1>2, StaleType DEF Stale

LEMMA LitFacts ==
  ASSUME NEW c \in States
  PROVE  /\ Lit(c) \in States /\ Lit(-c) = Lit(c)
         /\ c >= 0 => Lit(c) = c
         /\ Enabled(c) => Lit(c) = c
BY DEF Lit, States, Enabled

-----------------------------------------------------------------------------
(***************************************************************************)
(* submitting: which items are armed, and for what.                        *)
(***************************************************************************)
LEMMA RetargetIs ==
  ASSUME NEW s \in SType, s.lease.state \in Watched
  PROVE  LET t == Retarget(s) IN
         /\ t \in SType /\ t.outputs = s.outputs /\ t.lease.after = s.lease.after
         /\ t.lease.state = IF s.lease.state = "previewing" /\ Retargeted(s) # {}
                              THEN "applying" ELSE s.lease.state
         /\ \A o \in Retargeted(s) :
              /\ t.lease.items[o].target = Target(s.outputs[o], Goal(s, o))
              /\ ~t.lease.items[o].submitted
              /\ t.lease.items[o].presented = s.lease.items[o].presented
         /\ \A o \in Outputs \ Retargeted(s) : t.lease.items[o] = s.lease.items[o]
<1> DEFINE changed == Retargeted(s)
           again == s.lease.state = "previewing" /\ changed # {}
           item(o) == [s.lease.items[o] EXCEPT !.target = Target(s.outputs[o], Goal(s, o)),
                                               !.submitted = FALSE]
           new == [o \in changed |-> item(o)]
           items == Updated(s.lease.items, new)
           l == [s.lease EXCEPT
                   !.items = items,
                   !.state = IF again THEN "applying" ELSE @,
                   !.reason = IF again THEN "adaptive_sync_changed" ELSE @]
<1>1. s.lease \in LeaseType /\ s.lease.items \in [Outputs -> ItemType]
  BY SFields, LeaseFields
<1>2. changed \in SUBSET Outputs
  BY DEF Retargeted, Connected
<1>3. ASSUME NEW o \in changed
      PROVE  /\ item(o) \in ItemType /\ ~item(o).submitted
             /\ item(o).target = Target(s.outputs[o], Goal(s, o))
             /\ item(o).presented = s.lease.items[o].presented
  <2>1. s.lease.items[o] \in ItemType BY <1>1, <1>2
  <2> QED BY <2>1, TargetType DEF ItemType
<1>4. Retarget(s) = [s EXCEPT !.lease = l]
  BY <1>1 DEF Retarget, SType
<1> HIDE DEF item
<1>5. new \in [changed -> ItemType] /\ \A o \in changed : new[o] = item(o)
  BY <1>3
<1> HIDE DEF new, changed
<1>6. /\ items \in [Outputs -> ItemType]
      /\ \A o \in changed : items[o] = new[o]
      /\ \A o \in Outputs \ changed : items[o] = s.lease.items[o]
  <2>1. items \in [Outputs -> ItemType] BY <1>1, <1>2, <1>5, UpdatedItems
  <2>2. /\ \A o \in changed : items[o] = new[o]
        /\ \A o \in Outputs \ changed : items[o] = s.lease.items[o]
    BY <1>1, <1>2, <1>5 DEF Updated
  <2> QED BY <2>1, <2>2
<1> HIDE DEF items, again
<1>7. /\ l \in LeaseType /\ l.after = s.lease.after /\ l.items = items
      /\ l.state = IF again THEN "applying" ELSE s.lease.state
  BY <1>1, <1>6 DEF LeaseType, ItemType, ActiveStates, Revocable, Reasons
<1> HIDE DEF l
<1>8. LET t == [s EXCEPT !.lease = l] IN t \in SType /\ t.outputs = s.outputs /\ t.lease = l
  BY <1>7, SParts DEF SType
<1> QED BY <1>3, <1>4, <1>5, <1>6, <1>7, <1>8 DEF again, changed

LEMMA ArmIs ==
  ASSUME NEW s \in SType
  PROVE  LET t == Arm(s)
             armed == {o \in Connected(s) : ~s.lease.items[o].submitted} IN
         /\ t \in SType /\ t.lease.after = s.lease.after /\ t.lease.state = s.lease.state
         /\ \A o \in armed :
              /\ t.lease.items[o].submitted /\ ~t.lease.items[o].presented
              /\ t.lease.items[o].target = s.lease.items[o].target
              /\ t.outputs[o] = [s.outputs[o] EXCEPT !.flight = Stale(@)]
         /\ \A o \in Outputs \ armed :
              t.lease.items[o] = s.lease.items[o] /\ t.outputs[o] = s.outputs[o]
<1> DEFINE armed == {o \in Connected(s) : ~s.lease.items[o].submitted}
           item(o) == [ResetItem(s.lease.items[o]) EXCEPT !.submitted = TRUE]
           new == [o \in armed |-> item(o)]
           out(o) == [s.outputs[o] EXCEPT !.flight = Stale(@)]
           stale == [o \in armed |-> out(o)]
           items == Updated(s.lease.items, new)
           os == Updated(s.outputs, stale)
           l == [s.lease EXCEPT !.items = items]
<1>1. /\ s.lease \in LeaseType /\ s.lease.items \in [Outputs -> ItemType]
      /\ s.outputs \in [Outputs -> OutputType] /\ armed \in SUBSET Outputs
  BY SFields, LeaseFields
<1>2. ASSUME NEW o \in armed
      PROVE  /\ item(o) \in ItemType /\ item(o).submitted /\ ~item(o).presented
             /\ item(o).target = s.lease.items[o].target
             /\ out(o) \in OutputType
  <2>1. s.lease.items[o] \in ItemType /\ s.outputs[o] \in OutputType BY <1>1
  <2>2. Stale(s.outputs[o].flight) \in FlightType BY <2>1, OutputFields, StaleType
  <2>3. out(o) \in OutputType BY <2>1, <2>2 DEF OutputType, FlightType, FrameType
  <2> HIDE DEF out
  <2> QED BY <2>1, <2>3 DEF ResetItem, NewItem, ItemType
<1>3. Arm(s) = [[s EXCEPT !.lease = l] EXCEPT !.outputs = os]
  BY <1>1 DEF Arm, SType
<1>4. \A o \in armed : out(o) = [s.outputs[o] EXCEPT !.flight = Stale(@)] OBVIOUS
<1> HIDE DEF item, out
<1>5. /\ new \in [armed -> ItemType] /\ \A o \in armed : new[o] = item(o)
      /\ stale \in [armed -> OutputType] /\ \A o \in armed : stale[o] = out(o)
  BY <1>2
<1>p. \A o \in Outputs \ armed : o \in Outputs \ armed OBVIOUS
<1> HIDE DEF new, stale, armed
<1>6. /\ items \in [Outputs -> ItemType]
      /\ \A o \in armed : items[o] = item(o)
      /\ \A o \in Outputs \ armed : items[o] = s.lease.items[o]
  <2>1. items \in [Outputs -> ItemType] BY <1>1, <1>5, UpdatedItems
  <2>2. /\ \A o \in armed : items[o] = new[o]
        /\ \A o \in Outputs \ armed : items[o] = s.lease.items[o]
    BY <1>1, <1>5 DEF Updated
  <2> QED BY <1>5, <2>1, <2>2
<1>7. /\ os \in [Outputs -> OutputType]
      /\ \A o \in armed : os[o] = out(o)
      /\ \A o \in Outputs \ armed : os[o] = s.outputs[o]
  BY <1>1, <1>5, UpdatedOutputs
<1> HIDE DEF items, os
<1>8. l \in LeaseType /\ l.after = s.lease.after /\ l.items = items /\ l.state = s.lease.state
  BY <1>1, <1>6 DEF LeaseType, ItemType
<1> HIDE DEF l
<1>9. LET t == [[s EXCEPT !.lease = l] EXCEPT !.outputs = os] IN
      t \in SType /\ t.outputs = os /\ t.lease = l
  BY <1>7, <1>8 DEF SType
<1>10. /\ Arm(s) \in SType /\ Arm(s).outputs = os /\ Arm(s).lease = l
  BY <1>3, <1>9
<1> HIDE <1>3, <1>9
<1>11. \A o \in armed :
         /\ Arm(s).lease.items[o].submitted /\ ~Arm(s).lease.items[o].presented
         /\ Arm(s).lease.items[o].target = s.lease.items[o].target
         /\ Arm(s).outputs[o] = [s.outputs[o] EXCEPT !.flight = Stale(@)]
  BY <1>2, <1>4, <1>6, <1>7, <1>8, <1>10
<1>12. \A o \in Outputs \ armed :
         Arm(s).lease.items[o] = s.lease.items[o] /\ Arm(s).outputs[o] = s.outputs[o]
  BY <1>6, <1>7, <1>8, <1>10
<1> QED BY <1>8, <1>10, <1>11, <1>12 DEF armed

\* Every item is after the adaptive sync its output is to have.
Aimed(s) ==
  s.lease.state \in Watched =>
    \A o \in Connected(s) : s.lease.items[o].target = Target(s.outputs[o], Goal(s, o))

\* An output but for its frames in flight.
SameOutput(p, q) ==
  /\ p.connected = q.connected /\ p.scheduled = q.scheduled /\ p.sent = q.sent
  /\ p.hw = q.hw /\ p.sync = q.sync /\ p.shown = q.shown /\ p.fullscreen = q.fullscreen
  /\ DOMAIN p.flight = DOMAIN q.flight

\* The items after submitting: armed now, or as they were; or nothing counts.
Rearmed(s, u) ==
  /\ Ready(s) /\ u.lease.state # "previewing"
  /\ \A o \in Connected(s) :
       /\ u.lease.items[o].submitted
       /\ \/ /\ ~u.lease.items[o].presented
             /\ \A i \in DOMAIN u.outputs[o].flight : ~u.outputs[o].flight[i].fresh
          \/ u.lease.items[o] = s.lease.items[o] /\ u.outputs[o] = s.outputs[o]
NotReady(s, u) ==
  /\ ~Ready(s) /\ u.outputs = s.outputs /\ u.lease.state # "previewing"
  /\ \A o \in Outputs :
       /\ u.lease.items[o].presented = s.lease.items[o].presented
       /\ u.lease.items[o].submitted => s.lease.items[o].submitted

LEMMA SubmittingIs ==
  ASSUME NEW s \in SType, s.lease.state \in Watched
  PROVE  LET u == Submitting(s) IN
         /\ u \in SType /\ u.lease.after = s.lease.after
         /\ \/ u.lease.state = s.lease.state
            \/ u.lease.state = "applying" /\ s.lease.state = "previewing"
         /\ \A o \in Outputs : SameOutput(u.outputs[o], s.outputs[o])
         /\ Aimed(u)
         /\ \/ SameWitness(s, u)
            \/ Rearmed(s, u)
            \/ NotReady(s, u)
<1> DEFINE t == Retarget(s)
           u == Submitting(s)
           a == Arm(t)
           armed == {o \in Connected(t) : ~t.lease.items[o].submitted}
<1>1. /\ t \in SType /\ t.outputs = s.outputs /\ t.lease.after = s.lease.after
      /\ t.lease.state = IF s.lease.state = "previewing" /\ Retargeted(s) # {}
                           THEN "applying" ELSE s.lease.state
      /\ \A o \in Retargeted(s) :
           /\ t.lease.items[o].target = Target(s.outputs[o], Goal(s, o))
           /\ ~t.lease.items[o].submitted
           /\ t.lease.items[o].presented = s.lease.items[o].presented
      /\ \A o \in Outputs \ Retargeted(s) : t.lease.items[o] = s.lease.items[o]
  BY RetargetIs
<1>2. u = IF t.lease.state # "previewing" /\ Ready(t) THEN a ELSE t
  BY DEF Submitting, Watched, Trying
<1> HIDE DEF t, u
<1>3. /\ Connected(t) = Connected(s) /\ Connected(s) \subseteq Outputs
      /\ Retargeted(s) \subseteq Connected(s)
  BY <1>1 DEF Connected, Retargeted
<1>4. (t.lease.state = "reverting") <=> (s.lease.state = "reverting")
  BY <1>1
<1>5. \A o \in Outputs : Goal(t, o) = Goal(s, o)
  BY <1>1, <1>4 DEF Goal
<1>6. Ready(t) <=> Ready(s)
  BY <1>1, <1>4, <1>5 DEF Ready
<1>7. \A o \in Connected(s) : t.lease.items[o].target = Target(t.outputs[o], Goal(t, o))
  BY <1>1, <1>3, <1>5 DEF Retargeted
<1>8. \A o \in Outputs : SameOutput(t.outputs[o], s.outputs[o])
  BY <1>1 DEF SameOutput
<1>9. CASE u = t
  <2>1. Aimed(u) BY <1>3, <1>7, <1>9 DEF Aimed
  <2>2. CASE t.lease.state = "previewing"
    <3>1. Retargeted(s) = {} /\ s.lease.state = "previewing" BY <1>1, <2>2
    <3>2. s.lease.items \in [Outputs -> ItemType] /\ t.lease.items \in [Outputs -> ItemType]
      BY <1>1, SFields, LeaseFields
    <3>3. t.lease.items = s.lease.items
      BY <1>1, <3>1, <3>2
    <3>4. SameWitness(s, u) BY <1>1, <1>9, <2>2, <3>1, <3>3 DEF SameWitness
    <3> QED BY <1>1, <1>8, <1>9, <2>1, <3>4 DEF u
  <2>3. CASE t.lease.state # "previewing" /\ Ready(s)
    <3>1. u = a BY <1>2, <1>6, <2>3
    <3>2. \A o \in Connected(s) \ armed : t.lease.items[o].submitted BY <1>3
    <3>3. armed = {}
      <4> SUFFICES ASSUME NEW o \in armed PROVE FALSE OBVIOUS
      <4>1. a.lease.items[o].submitted /\ ~t.lease.items[o].submitted BY <1>1, ArmIs
      <4> QED BY <3>1, <1>9, <4>1
    <3>4. \A o \in Connected(s) : o \notin Retargeted(s) /\ t.lease.items[o].submitted
      BY <1>1, <3>2, <3>3
    <3>5. Rearmed(s, u)
      BY <1>1, <1>3, <1>9, <2>3, <3>4 DEF Rearmed
    <3> QED BY <1>1, <1>8, <1>9, <2>1, <3>5 DEF u
  <2>4. CASE t.lease.state # "previewing" /\ ~Ready(s)
    <3>1. NotReady(s, u)
      BY <1>1, <1>3, <1>9, <2>4 DEF NotReady
    <3> QED BY <1>1, <1>8, <1>9, <2>1, <3>1 DEF u
  <2> QED BY <2>2, <2>3, <2>4
<1>10. CASE u # t
  <2>1. u = a /\ t.lease.state # "previewing" /\ Ready(s) BY <1>2, <1>6, <1>10
  <2>2. /\ a \in SType /\ a.lease.after = t.lease.after /\ a.lease.state = t.lease.state
        /\ \A o \in armed :
             /\ a.lease.items[o].submitted /\ ~a.lease.items[o].presented
             /\ a.lease.items[o].target = t.lease.items[o].target
             /\ a.outputs[o] = [t.outputs[o] EXCEPT !.flight = Stale(@)]
        /\ \A o \in Outputs \ armed :
             a.lease.items[o] = t.lease.items[o] /\ a.outputs[o] = t.outputs[o]
    BY <1>1, ArmIs
  <2> HIDE DEF a
  <2>3. ASSUME NEW o \in armed
        PROVE  /\ SameOutput(a.outputs[o], t.outputs[o])
               /\ \A i \in DOMAIN a.outputs[o].flight : ~a.outputs[o].flight[i].fresh
    <3>1. t.outputs[o] \in OutputType BY <1>1, <1>3, SFields
    <3>2. t.outputs[o].flight \in FlightType BY <3>1, OutputFields
    <3>3. a.outputs[o].flight = Stale(t.outputs[o].flight) BY <2>2, <3>1 DEF OutputType
    <3>4. SameOutput(a.outputs[o], t.outputs[o])
      <4>1. DOMAIN a.outputs[o].flight = DOMAIN t.outputs[o].flight BY <3>2, <3>3, StaleFrames
      <4> QED BY <4>1, <2>2, <3>1 DEF SameOutput, OutputType
    <3>5. \A i \in DOMAIN t.outputs[o].flight : ~Stale(t.outputs[o].flight)[i].fresh
      BY <3>2, StaleFrames
    <3>6. DOMAIN Stale(t.outputs[o].flight) = DOMAIN t.outputs[o].flight BY <3>2, StaleFrames
    <3> QED BY <3>3, <3>4, <3>5, <3>6
  <2>4. \A o \in Outputs : SameOutput(a.outputs[o], s.outputs[o])
    BY <1>1, <2>2, <2>3 DEF SameOutput
  <2>5. Connected(a) = Connected(s) BY <2>4 DEF SameOutput, Connected
  <2>6. \A o \in Outputs : Goal(a, o) = Goal(t, o)
    BY <2>2, <2>4, <1>1 DEF Goal, SameOutput
  <2>7. \A o \in Outputs : \A c : Target(a.outputs[o], c) = Target(t.outputs[o], c)
    BY <2>4, <1>1 DEF Target, SameOutput
  <2>8. \A o \in Outputs : a.lease.items[o].target = t.lease.items[o].target
    BY <2>2
  <2>9. Aimed(a)
    BY <2>5, <2>6, <2>7, <2>8, <1>3, <1>7 DEF Aimed
  <2>10. ASSUME NEW o \in Connected(s)
         PROVE  /\ a.lease.items[o].submitted
                /\ \/ /\ ~a.lease.items[o].presented
                      /\ \A i \in DOMAIN a.outputs[o].flight : ~a.outputs[o].flight[i].fresh
                   \/ a.lease.items[o] = s.lease.items[o] /\ a.outputs[o] = s.outputs[o]
    <3>1. CASE o \in armed BY <2>2, <2>3, <3>1
    <3>2. CASE o \notin armed
      <4>1. t.lease.items[o].submitted BY <3>2, <1>3
      <4>2. o \in Outputs \ Retargeted(s) BY <4>1, <1>1, <1>3
      <4> QED BY <3>2, <4>1, <4>2, <2>2, <1>1
    <3> QED BY <3>1, <3>2
  <2>11. Rearmed(s, a) BY <2>1, <2>2, <2>10 DEF Rearmed
  <2> QED BY <2>1, <2>2, <2>4, <2>9, <2>11, <1>1 DEF u
<1> QED BY <1>9, <1>10

\* Whatever submitting arms, it arms for the candidate or for the rollback, and
\* counts no frame that was committed before.
LEMMA SubmittingWitnessed ==
  ASSUME NEW s \in SType, NEW away, Submitted(s, away)
  PROVE  LET u == Submitting(s) IN
         /\ Submitted(u, away) /\ Aimed(u)
         /\ \/ u.lease.state = s.lease.state
            \/ u.lease.state = "applying" /\ s.lease.state = "previewing"
         /\ \A o \in Outputs : SameOutput(u.outputs[o], s.outputs[o])
<1> DEFINE u == Submitting(s)
<1>1. CASE s.lease.state \notin Watched
  <2>1. u = s BY <1>1 DEF Submitting, Watched, Trying
  <2> QED BY <1>1, <2>1 DEF Aimed, SameOutput
<1>2. CASE s.lease.state \in Watched
  <2>1. /\ u \in SType /\ u.lease.after = s.lease.after
        /\ \/ u.lease.state = s.lease.state
           \/ u.lease.state = "applying" /\ s.lease.state = "previewing"
        /\ \A o \in Outputs : SameOutput(u.outputs[o], s.outputs[o])
        /\ Aimed(u)
        /\ \/ SameWitness(s, u)
           \/ Rearmed(s, u)
           \/ NotReady(s, u)
    BY <1>2, SubmittingIs
  <2> HIDE DEF u
  <2>2. /\ u.lease.state \in Trying <=> s.lease.state \in Trying
        /\ u.lease.state \in Watched
    BY <1>2, <2>1 DEF Watched, Trying
  <2>3. Connected(u) = Connected(s) /\ Connected(s) \subseteq Outputs
    BY <2>1 DEF Connected, SameOutput
  <2>4. FramesInv(s, away) /\ CandidateInv(s) BY DEF Submitted
  <2>5. FirstInv(u) BY <2>2 DEF FirstInv, Watched, Trying
  <2>6. CASE SameWitness(s, u)
    <3>1. \A o \in Outputs : Expected(u, o, away) = Expected(s, o, away)
      BY <2>6 DEF SameWitness, Expected
    <3>2. \A o \in Outputs : \A item :
            Faithful(u.outputs[o], item, Expected(u, o, away))
              <=> Faithful(s.outputs[o], item, Expected(s, o, away))
      BY <2>6, <3>1 DEF SameWitness, Faithful
    <3>3. FramesInv(u, away) BY <2>3, <2>4, <2>6, <3>2 DEF FramesInv, SameWitness
    <3>4. CandidateInv(u) BY <2>4, <2>6 DEF CandidateInv, SameWitness
    <3> QED BY <2>1, <2>5, <3>3, <3>4 DEF Submitted, u
  <2>7. ASSUME s.lease.state \in Trying, Ready(s)
        PROVE  \A o \in Outputs : /\ u.outputs[o].connected
                                  /\ u.outputs[o].sent = s.lease.after[o]
                                  /\ u.outputs[o].scheduled = s.lease.after[o]
    BY <2>1, <2>4, <2>7 DEF CandidateInv, SameOutput, Ready, Goal, Trying
  <2>8. ASSUME s.lease.state = "reverting", Ready(s), NEW o \in Connected(s)
        PROVE  u.outputs[o].sent = u.outputs[o].scheduled
    BY <2>1, <2>3, <2>8 DEF SameOutput, Ready, Goal, Connected
  <2>9. CASE Rearmed(s, u)
    <3>1. ASSUME NEW o \in Connected(s), Counting(u.lease.items[o])
          PROVE  /\ Lit(u.outputs[o].sent) = Lit(u.outputs[o].scheduled)
                 /\ Faithful(u.outputs[o], u.lease.items[o], Expected(u, o, away))
      <4>1. u.outputs[o].sent = u.outputs[o].scheduled
        BY <1>2, <2>3, <2>7, <2>8, <2>9 DEF Watched, Rearmed
      <4>2. CASE /\ ~u.lease.items[o].presented
                 /\ \A i \in DOMAIN u.outputs[o].flight : ~u.outputs[o].flight[i].fresh
        BY <4>1, <4>2 DEF Faithful
      <4>3. CASE u.lease.items[o] = s.lease.items[o] /\ u.outputs[o] = s.outputs[o]
        <5>1. Expected(u, o, away) = Expected(s, o, away)
          BY <4>3, <2>2 DEF Expected
        <5>2. Faithful(s.outputs[o], s.lease.items[o], Expected(s, o, away))
          BY <1>2, <2>4, <3>1, <4>3 DEF FramesInv
        <5> QED BY <4>1, <4>3, <5>1, <5>2
      <4> QED BY <2>9, <4>2, <4>3 DEF Rearmed
    <3>2. FramesInv(u, away) BY <2>3, <3>1 DEF FramesInv
    <3>3. \A o \in Connected(s) : u.lease.items[o].submitted
      BY <2>9 DEF Rearmed
    <3>4. CandidateInv(u)
      <4> SUFFICES ASSUME s.lease.state \in Trying PROVE CandidateInv(u)
        BY <2>2 DEF CandidateInv
      <4>1. \A o \in Outputs : /\ u.outputs[o].connected
                               /\ u.outputs[o].sent = s.lease.after[o]
                               /\ u.outputs[o].scheduled = s.lease.after[o]
        BY <2>7, <2>9 DEF Rearmed
      <4>2. \A o \in Outputs : u.lease.items[o].submitted
        BY <2>3, <3>3, <4>1 DEF Connected
      <4> QED BY <2>1, <4>1, <4>2 DEF CandidateInv
    <3> QED BY <2>1, <2>5, <3>2, <3>4 DEF Submitted, u
  <2>10. CASE NotReady(s, u) /\ s.lease.state \in Trying
    <3>1. \A o \in Outputs : s.outputs[o].connected BY <2>4, <2>10 DEF CandidateInv
    <3>2. ~\A o \in Outputs : s.outputs[o].sent = s.lease.after[o]
      BY <2>10, <3>1 DEF NotReady, Ready, Goal, Trying
    <3>3. \A o \in Outputs : ~s.lease.items[o].submitted /\ ~s.lease.items[o].presented
      BY <2>4, <2>10, <3>2 DEF CandidateInv
    <3>4. \A o \in Outputs : ~u.lease.items[o].submitted /\ ~u.lease.items[o].presented
      BY <2>10, <3>3 DEF NotReady
    <3>5. FramesInv(u, away) BY <2>3, <3>4 DEF FramesInv, Counting
    <3>6. CandidateInv(u)
      BY <2>1, <2>4, <2>10, <3>4 DEF CandidateInv, NotReady
    <3> QED BY <2>1, <2>5, <3>5, <3>6 DEF Submitted, u
  <2>11. CASE NotReady(s, u) /\ s.lease.state = "reverting"
    <3>1. ASSUME NEW o \in Connected(s), Counting(u.lease.items[o])
          PROVE  /\ Lit(u.outputs[o].sent) = Lit(u.outputs[o].scheduled)
                 /\ Faithful(u.outputs[o], u.lease.items[o], Expected(u, o, away))
      <4>1. /\ u.outputs[o] = s.outputs[o]
            /\ u.lease.items[o].presented = s.lease.items[o].presented
            /\ Counting(s.lease.items[o])
        BY <2>3, <2>11, <3>1 DEF NotReady, Counting
      <4>2. Expected(u, o, away) = Expected(s, o, away)
        BY <4>1, <2>2, <2>11 DEF Expected, Trying
      <4>3. /\ Lit(s.outputs[o].sent) = Lit(s.outputs[o].scheduled)
            /\ Faithful(s.outputs[o], s.lease.items[o], Expected(s, o, away))
        BY <1>2, <2>4, <4>1 DEF FramesInv
      <4> QED BY <4>1, <4>2, <4>3 DEF Faithful
    <3>2. FramesInv(u, away) BY <2>3, <3>1 DEF FramesInv
    <3>3. CandidateInv(u) BY <2>2, <2>11 DEF CandidateInv, Trying
    <3> QED BY <2>1, <2>5, <3>2, <3>3 DEF Submitted, u
  <2> QED BY <1>2, <2>1, <2>6, <2>9, <2>10, <2>11 DEF Watched
<1> QED BY <1>1, <1>2

-----------------------------------------------------------------------------
(***************************************************************************)
(* The set takes effect.                                                   *)
(***************************************************************************)
LEMMA PoweredWitnessed ==
  ASSUME NEW s \in SType, NEW away, Submitted(s, away), Aimed(s), away \/ session.active
  PROVE  /\ Witnessed(Powered(s), away)
         /\ \A o \in Outputs : Powered(s).outputs[o].flight = s.outputs[o].flight
<1> DEFINE t == Powered(s)
<1>1. /\ t \in SType /\ t.lease = s.lease /\ Connected(t) = Connected(s)
      /\ \A o \in Connected(s) : t.outputs[o] = Committed(s.outputs[o])
      /\ \A o \in Outputs \ Connected(s) : t.outputs[o] = s.outputs[o]
  BY PoweredIs
<1>2. s.outputs \in [Outputs -> OutputType] /\ Connected(s) \subseteq Outputs
  BY SFields
<1>3. ASSUME NEW o \in Connected(s)
      PROVE  /\ t.outputs[o].hw = s.outputs[o].sent
             /\ t.outputs[o].sync = IF ~Enabled(s.outputs[o].sent) THEN "off"
                                    ELSE IF session.active
                                      THEN Target(s.outputs[o], s.outputs[o].sent)
                                    ELSE s.outputs[o].sync
  <2>1. s.outputs[o] \in OutputType BY <1>2
  <2> QED BY <1>1, <2>1 DEF Committed, OutputType
<1>4. ASSUME NEW o \in Outputs
      PROVE  /\ t.outputs[o].connected = s.outputs[o].connected
             /\ t.outputs[o].scheduled = s.outputs[o].scheduled
             /\ t.outputs[o].sent = s.outputs[o].sent
             /\ t.outputs[o].shown = s.outputs[o].shown
             /\ t.outputs[o].flight = s.outputs[o].flight
  <2>1. s.outputs[o] \in OutputType BY <1>2
  <2>2. CASE o \in Connected(s) BY <1>1, <2>1, <2>2 DEF Committed, OutputType
  <2> QED BY <1>1, <2>2
<1> HIDE DEF t
<1>5. \A o \in Outputs : Expected(t, o, away) = Expected(s, o, away)
  BY <1>1, <1>4 DEF Expected
<1>6. \A o \in Outputs : \A item :
        Faithful(t.outputs[o], item, Expected(t, o, away))
          <=> Faithful(s.outputs[o], item, Expected(s, o, away))
  BY <1>4, <1>5 DEF Faithful
<1>7. FramesInv(s, away) /\ CandidateInv(s) /\ FirstInv(s) BY DEF Submitted
<1>8. FramesInv(t, away) BY <1>1, <1>2, <1>4, <1>6, <1>7 DEF FramesInv
<1>9. CandidateInv(t) /\ FirstInv(t) BY <1>1, <1>4, <1>7 DEF CandidateInv, FirstInv
<1>10. ASSUME s.lease.state \in Watched, NEW o \in Connected(s), Counting(s.lease.items[o])
       PROVE  /\ Lit(t.outputs[o].hw) = Lit(t.outputs[o].scheduled)
              /\ s.lease.state \in Trying /\ ~away =>
                   t.outputs[o].sync = s.lease.items[o].target
  <2>1. Lit(t.outputs[o].hw) = Lit(t.outputs[o].scheduled)
    BY <1>2, <1>3, <1>4, <1>7, <1>10 DEF FramesInv
  <2>2. ASSUME s.lease.state \in Trying, ~away
        PROVE  t.outputs[o].sync = s.lease.items[o].target
    <3>1. s.lease.items[o].target = Target(s.outputs[o], s.lease.after[o])
      BY <1>10, <2>2 DEF Aimed, Goal, Trying
    <3>2. s.outputs[o].sent = s.lease.after[o]
      BY <1>2, <1>7, <1>10, <2>2 DEF CandidateInv, Counting
    <3>3. ~Enabled(s.outputs[o].sent) => Target(s.outputs[o], s.outputs[o].sent) = "off"
      BY DEF Target
    <3> QED BY <1>3, <2>2, <3>1, <3>2, <3>3
  <2> QED BY <2>1, <2>2
<1>11. HardwareInv(t, away) BY <1>1, <1>10 DEF HardwareInv
<1> QED BY <1>4, <1>8, <1>9, <1>11 DEF Witnessed, Submitted, t

LEMMA PresentedEarlyIs ==
  ASSUME NEW s \in SType
  PROVE  LET t == PresentedEarly(s)
             early == {o \in Connected(s) : Enabled(s.outputs[o].hw)} IN
         /\ t.lease.state = s.lease.state /\ t.lease.after = s.lease.after
         /\ \A o \in Outputs : /\ t.outputs[o].connected = s.outputs[o].connected
                               /\ t.outputs[o].scheduled = s.outputs[o].scheduled
                               /\ t.outputs[o].sent = s.outputs[o].sent
                               /\ t.outputs[o].hw = s.outputs[o].hw
                               /\ t.outputs[o].sync = s.outputs[o].sync
                               /\ t.outputs[o].flight = s.outputs[o].flight
         /\ \A o \in early : /\ t.lease.items[o] = Observe(s.lease.items[o], TRUE)
                             /\ t.outputs[o].shown = Picturing(s.outputs[o])
         /\ \A o \in Outputs \ early : /\ t.lease.items[o] = s.lease.items[o]
                                       /\ t.outputs[o].shown = s.outputs[o].shown
<1> DEFINE early == {o \in Connected(s) : Enabled(s.outputs[o].hw)}
           item(o) == Observe(s.lease.items[o], TRUE)
           out(o) == [s.outputs[o] EXCEPT !.shown = Picturing(s.outputs[o])]
           new == [o \in early |-> item(o)]
           lit == [o \in early |-> out(o)]
           items == Updated(s.lease.items, new)
           os == Updated(s.outputs, lit)
           l == [s.lease EXCEPT !.items = items]
           t == PresentedEarly(s)
<1>1. /\ s.lease \in LeaseType /\ s.lease.items \in [Outputs -> ItemType]
      /\ s.outputs \in [Outputs -> OutputType] /\ early \in SUBSET Outputs
  BY SFields, LeaseFields
<1>2. t = [[s EXCEPT !.outputs = os] EXCEPT !.lease = l]
  BY <1>1 DEF PresentedEarly, SType
<1> HIDE DEF t
<1>3. ASSUME NEW o \in early
      PROVE  /\ item(o) \in ItemType /\ out(o) \in OutputType
             /\ out(o).shown = Picturing(s.outputs[o])
             /\ out(o).connected = s.outputs[o].connected
             /\ out(o).scheduled = s.outputs[o].scheduled
             /\ out(o).sent = s.outputs[o].sent
             /\ out(o).hw = s.outputs[o].hw
             /\ out(o).sync = s.outputs[o].sync
             /\ out(o).flight = s.outputs[o].flight
  <2>1. s.lease.items[o] \in ItemType /\ s.outputs[o] \in OutputType BY <1>1
  <2>2. Picturing(s.outputs[o]) \in Picture BY <2>1, OutputFields DEF Picturing, Picture
  <2>3. item(o) \in ItemType BY <2>1, ObserveType
  <2> QED BY <2>1, <2>2, <2>3 DEF OutputType
<1>i. \A o \in early : item(o) = Observe(s.lease.items[o], TRUE) OBVIOUS
<1>e. \A o \in Outputs \ early : o \in Outputs \ early OBVIOUS
<1> HIDE DEF item, out
<1>4. /\ new \in [early -> ItemType] /\ \A o \in early : new[o] = item(o)
      /\ lit \in [early -> OutputType] /\ \A o \in early : lit[o] = out(o)
  BY <1>3
<1> HIDE DEF new, lit, early
<1>5. /\ \A o \in early : items[o] = item(o)
      /\ \A o \in Outputs \ early : items[o] = s.lease.items[o]
  BY <1>1, <1>4 DEF Updated
<1>6. /\ \A o \in early : os[o] = out(o)
      /\ \A o \in Outputs \ early : os[o] = s.outputs[o]
  BY <1>1, <1>4 DEF Updated
<1> HIDE DEF items, os
<1>7. l.state = s.lease.state /\ l.after = s.lease.after /\ l.items = items
  BY <1>1 DEF LeaseType
<1> HIDE DEF l
<1>8. t.outputs = os /\ t.lease = l
  BY <1>2 DEF SType
<1> HIDE <1>2
<1>9. \A o \in Outputs : /\ t.outputs[o].connected = s.outputs[o].connected
                         /\ t.outputs[o].scheduled = s.outputs[o].scheduled
                         /\ t.outputs[o].sent = s.outputs[o].sent
                         /\ t.outputs[o].hw = s.outputs[o].hw
                         /\ t.outputs[o].sync = s.outputs[o].sync
                         /\ t.outputs[o].flight = s.outputs[o].flight
  BY <1>3, <1>6, <1>8
<1>10. \A o \in early : /\ t.lease.items[o] = Observe(s.lease.items[o], TRUE)
                        /\ t.outputs[o].shown = Picturing(s.outputs[o])
  BY <1>3, <1>5, <1>6, <1>7, <1>8, <1>i
<1>11. \A o \in Outputs \ early : /\ t.lease.items[o] = s.lease.items[o]
                                  /\ t.outputs[o].shown = s.outputs[o].shown
  BY <1>5, <1>6, <1>7, <1>8
<1> QED BY <1>7, <1>8, <1>9, <1>10, <1>11 DEF early, t

\* A frame presented at once is one of the state that was just committed.
LEMMA PresentedEarlyWitnessed ==
  ASSUME NEW s \in SType, NEW away, Witnessed(s, away),
         \A o \in Outputs : DOMAIN s.outputs[o].flight = {}
  PROVE  Witnessed(PresentedEarly(s), away)
<1> DEFINE t == PresentedEarly(s)
           early == {o \in Connected(s) : Enabled(s.outputs[o].hw)}
<1>1. /\ t.lease.state = s.lease.state /\ t.lease.after = s.lease.after
      /\ \A o \in Outputs : /\ t.outputs[o].connected = s.outputs[o].connected
                            /\ t.outputs[o].scheduled = s.outputs[o].scheduled
                            /\ t.outputs[o].sent = s.outputs[o].sent
                            /\ t.outputs[o].hw = s.outputs[o].hw
                            /\ t.outputs[o].sync = s.outputs[o].sync
                            /\ t.outputs[o].flight = s.outputs[o].flight
      /\ \A o \in early : /\ t.lease.items[o] = Observe(s.lease.items[o], TRUE)
                          /\ t.outputs[o].shown = Picturing(s.outputs[o])
      /\ \A o \in Outputs \ early : /\ t.lease.items[o] = s.lease.items[o]
                                    /\ t.outputs[o].shown = s.outputs[o].shown
  BY PresentedEarlyIs
<1> HIDE DEF t
<1>2. /\ Connected(t) = Connected(s) /\ Connected(s) \subseteq Outputs
      /\ s.lease.items \in [Outputs -> ItemType] /\ s.outputs \in [Outputs -> OutputType]
  BY <1>1, SFields, LeaseFields DEF Connected
<1>3. ASSUME NEW o \in Outputs
      PROVE  /\ t.lease.items[o].target = s.lease.items[o].target
             /\ t.lease.items[o].submitted = s.lease.items[o].submitted
             /\ Counting(t.lease.items[o]) <=> Counting(s.lease.items[o])
             /\ ~s.lease.items[o].submitted => t.lease.items[o] = s.lease.items[o]
  <2>1. s.lease.items[o] \in ItemType BY <1>2
  <2>2. CASE o \in early
    <3>1. t.lease.items[o] = Observe(s.lease.items[o], TRUE) BY <1>1, <2>2
    <3> QED BY <2>1, <3>1 DEF Observe, ItemType, Counting
  <2>3. CASE o \notin early
    <3>1. t.lease.items[o] = s.lease.items[o] BY <1>1, <2>3
    <3> QED BY <3>1
  <2> QED BY <2>2, <2>3
<1>4. \A o \in Outputs : Expected(t, o, away) = Expected(s, o, away)
  BY <1>1, <1>3 DEF Expected
<1>5. FramesInv(s, away) /\ CandidateInv(s) /\ FirstInv(s) /\ HardwareInv(s, away)
  BY DEF Witnessed, Submitted
<1>6. ASSUME s.lease.state \in Watched, NEW o \in Connected(s), Counting(s.lease.items[o])
      PROVE  Faithful(t.outputs[o], t.lease.items[o], Expected(t, o, away))
  <2>1. DOMAIN t.outputs[o].flight = {} BY <1>1, <1>2
  <2>2. CASE o \in early
    <3>1. s.outputs[o] \in OutputType BY <1>2
    <3>2. /\ Lit(s.outputs[o].hw) = Lit(s.outputs[o].scheduled)
          /\ s.lease.state \in Trying /\ ~away =>
               s.outputs[o].sync = s.lease.items[o].target
      BY <1>5, <1>6 DEF HardwareInv
    <3>3. Lit(s.outputs[o].hw) = s.outputs[o].hw
      BY <2>2, <3>1, OutputFields, LitFacts
    <3>4. Picturing(s.outputs[o]) \in Picture BY <3>1, OutputFields DEF Picturing, Picture
    <3>5. Picturing(s.outputs[o]) \in Expected(s, o, away)
      BY <3>2, <3>3, <3>4 DEF Expected, Picturing
    <3>6. t.outputs[o].shown \in Expected(t, o, away)
      BY <1>1, <1>2, <1>4, <2>2, <3>5
    <3> QED BY <2>1, <3>6 DEF Faithful
  <2>3. CASE o \notin early
    <3>1. t.lease.items[o] = s.lease.items[o] /\ t.outputs[o].shown = s.outputs[o].shown
      BY <1>1, <1>2, <2>3
    <3>2. Faithful(s.outputs[o], s.lease.items[o], Expected(s, o, away))
      BY <1>5, <1>6 DEF FramesInv
    <3>3. Expected(t, o, away) = Expected(s, o, away) BY <1>2, <1>4
    <3> QED BY <2>1, <3>1, <3>2, <3>3 DEF Faithful
  <2> QED BY <2>2, <2>3
<1>7. FramesInv(t, away) BY <1>1, <1>2, <1>3, <1>5, <1>6 DEF FramesInv
<1>8. HardwareInv(t, away) BY <1>1, <1>2, <1>3, <1>5 DEF HardwareInv
<1>9. CandidateInv(t)
  <2>1. \A o \in Outputs : s.lease.state \in Trying /\ t.lease.items[o].presented =>
          t.lease.items[o].submitted
    BY <1>3, <1>5 DEF CandidateInv
  <2> QED BY <1>1, <1>3, <1>5, <2>1 DEF CandidateInv
<1>10. FirstInv(t) BY <1>1, <1>3, <1>5 DEF FirstInv
<1> QED BY <1>7, <1>8, <1>9, <1>10 DEF Witnessed, Submitted, t

LEMMA ArrivesWitnessed ==
  ASSUME NEW s \in SType, NEW away, Witnessed(s, away)
  PROVE  Witnessed(Arrives(s), away)
<1>1. SameWitness(s, Arrives(s)) BY ArrivesIs DEF SameWitness
<1> QED BY <1>1, SameWitnessed

LEMMA NoticedWitnessed ==
  ASSUME NEW s, Sound(s), NEW away, Witnessed(s, away), NEW moved \in BOOLEAN
  PROVE  Witnessed(Noticed(s, moved), away)
<1>1. SameWitness(s, Noticed(s, moved)) BY NoticedKeeps DEF SameWitness, Moves
<1> QED BY <1>1, SameWitnessed

-----------------------------------------------------------------------------
(***************************************************************************)
(* The lease looks at its items.                                           *)
(***************************************************************************)
\* What is seen when the candidate is offered.
Offers(t, away) ==
  \A o \in Outputs :
    /\ t.outputs[o].connected
    /\ t.outputs[o].hw = t.lease.after[o]
    /\ Enabled(t.lease.after[o]) => t.outputs[o].shown.state = t.lease.after[o]
    /\ Enabled(t.outputs[o].hw) /\ ~away => t.outputs[o].shown.sync = t.outputs[o].sync

\* What is seen when the old configuration is reported to be back.
Restores(t) ==
  \A o \in Outputs :
    /\ t.outputs[o].connected
    /\ t.outputs[o].hw = t.lease.before[o]
    /\ t.outputs[o].scheduled = t.lease.before[o]
    /\ Enabled(t.lease.before[o]) => t.outputs[o].shown.state = t.lease.before[o]

LEMMA RolledBackWitnessed ==
  ASSUME NEW s, Sound(s), NEW away, Witnessed(s, away), s.lease.state = "reverting"
  PROVE  LET t == RolledBack(s) IN
         /\ Witnessed(t, away)
         /\ t.lease.state \in {"reverting", "reverted", "invalidated", "failed"}
         /\ t.lease.state = "reverted" => Restores(t) /\ ~GivenUp(s)
<1>1. s \in SType /\ s.lease \in LeaseType /\ s.outputs \in [Outputs -> OutputType]
  BY SMTT(30), SFields DEF Sound, Safe
<1>2. PICK partial \in BOOLEAN, st \in Reached, why \in Reasons :
        /\ RolledBack(s) = [s EXCEPT !.lease =
             [s.lease EXCEPT !.partial = partial, !.state = st, !.reason = why]]
        /\ \/ st = "failed" /\ why = "rollback_presentation_failed"
           \/ st \in {"reverting", "invalidated"} /\ why = s.lease.reason
           \/ /\ st = "reverted" /\ why = s.lease.reason /\ why # "commit_deadline"
              /\ \A o \in Outputs : /\ s.outputs[o].connected
                                    /\ s.outputs[o].current = s.lease.before[o]
                                    /\ Arrived(s, o, s.outputs[o].scheduled)
  BY <1>1, RolledBackIs
<1> DEFINE l == [s.lease EXCEPT !.partial = partial, !.state = st, !.reason = why]
           t == RolledBack(s)
<1>3. /\ l.state = st /\ l.items = s.lease.items
      /\ l.after = s.lease.after /\ l.before = s.lease.before
  BY <1>1 DEF LeaseType
<1>4. t.lease = l /\ t.outputs = s.outputs
  <2> HIDE DEF l
  <2> QED BY <1>1, <1>2 DEF SType, l
<1>5. /\ t.lease.state \in {"failed", "reverting", "invalidated", "reverted"}
      /\ t.lease.state = "reverted" =>
           \A o \in Outputs : /\ s.outputs[o].connected
                              /\ s.outputs[o].current = s.lease.before[o]
                              /\ Arrived(s, o, s.outputs[o].scheduled)
  <2> HIDE DEF l, t
  <2> QED BY <1>2, <1>3, <1>4
<1> HIDE DEF l, t
<1> HIDE <1>2
<1>6. Witnessed(t, away)
  <2>1. CASE t.lease.state = "reverting"
    <3>1. SameWitness(s, t) BY <1>3, <1>4, <2>1 DEF SameWitness
    <3> QED BY <3>1, SameWitnessed
  <2>2. CASE t.lease.state # "reverting"
    <3>1. t.lease.state \notin Watched \cup {"none"} BY <1>5, <2>2 DEF Watched, Trying
    <3> QED BY <3>1, UnwatchedWitnessed
  <2> QED BY <2>1, <2>2
<1>7. ASSUME t.lease.state = "reverted" PROVE Restores(t)
  <2> SUFFICES ASSUME NEW o \in Outputs
               PROVE  /\ s.outputs[o].connected
                      /\ s.outputs[o].hw = s.lease.before[o]
                      /\ s.outputs[o].scheduled = s.lease.before[o]
                      /\ Enabled(s.lease.before[o]) =>
                           s.outputs[o].shown.state = s.lease.before[o]
    BY <1>3, <1>4 DEF Restores
  <2>1. /\ s.outputs[o].connected /\ s.outputs[o].current = s.lease.before[o]
        /\ Arrived(s, o, s.outputs[o].scheduled)
    BY <1>5, <1>7
  <2>2. s.outputs[o].scheduled = s.lease.before[o] /\ s.outputs[o].hw = s.lease.before[o]
    BY <2>1 DEF Arrived, HardwareMatches
  <2>3. ASSUME Enabled(s.lease.before[o])
        PROVE  s.outputs[o].shown.state = s.lease.before[o]
    <3>1. s.lease.items[o].presented BY <2>1, <2>2, <2>3 DEF Arrived
    <3>2. Faithful(s.outputs[o], s.lease.items[o], Expected(s, o, away))
      BY SMTT(30), <2>1, <3>1 DEF Witnessed, Submitted, FramesInv, Watched, Connected, Counting
    <3>3. s.outputs[o].shown.state = Lit(s.outputs[o].scheduled)
      BY <3>1, <3>2 DEF Faithful, Expected
    <3>4. s.outputs[o].scheduled \in States BY <1>1, OutputFields
    <3> QED BY <2>2, <2>3, <3>3, <3>4, LitFacts
  <2> QED BY <2>1, <2>2, <2>3
<1>8. ASSUME t.lease.state = "reverted", GivenUp(s) PROVE FALSE
  <2>1. PICK o \in Connected(s) : Enabled(s.outputs[o].scheduled) BY <1>8 DEF GivenUp
  <2>2. ~s.lease.items[o].presented /\ o \in Outputs
    BY <1>8 DEF GivenUp, Counting, Connected
  <2> QED BY <1>5, <1>8, <2>1, <2>2 DEF Arrived
<1> QED BY <1>5, <1>6, <1>7, <1>8 DEF t

LEMMA OfferedWitnessed ==
  ASSUME NEW s, Sound(s), NEW away, Witnessed(s, away), s.lease.state \in Trying,
         \A o \in Outputs : Arrived(s, o, s.lease.after[o]),
         NEW l \in LeaseType, l.state = "previewing", l.items = s.lease.items,
         l.after = s.lease.after
  PROVE  LET t == [s EXCEPT !.lease = l] IN Witnessed(t, away) /\ Offers(t, away)
<1> DEFINE t == [s EXCEPT !.lease = l]
<1>1. s \in SType /\ s.outputs \in [Outputs -> OutputType] BY SFields DEF Sound, Safe
<1>2. t.lease = l /\ t.outputs = s.outputs BY <1>1 DEF SType
<1> HIDE DEF t
<1>3. t.lease.state \in Trying /\ t.lease.state # "none" BY <1>2 DEF Trying
<1>4. Connected(t) = Connected(s) /\ Connected(s) \subseteq Outputs BY <1>2 DEF Connected
<1>5. \A o \in Outputs : Expected(t, o, away) = Expected(s, o, away)
  BY <1>2, <1>3 DEF Expected
<1>6. FramesInv(s, away) /\ CandidateInv(s) /\ HardwareInv(s, away)
  BY DEF Witnessed, Submitted
<1>7. FramesInv(t, away) BY <1>2, <1>4, <1>5, <1>6 DEF FramesInv, Watched
<1>8. HardwareInv(t, away) BY <1>2, <1>3, <1>4, <1>6 DEF HardwareInv, Watched
<1>9. CandidateInv(t) BY <1>2, <1>6 DEF CandidateInv
<1>10. FirstInv(t) BY <1>3 DEF FirstInv
<1>11. ASSUME NEW o \in Outputs
       PROVE  /\ s.outputs[o].connected
              /\ s.outputs[o].hw = s.lease.after[o]
              /\ Enabled(s.lease.after[o]) =>
                   /\ s.outputs[o].shown.state = s.lease.after[o]
                   /\ ~away => s.outputs[o].shown.sync = s.outputs[o].sync
  <2>1. s.outputs[o].connected /\ s.outputs[o].hw = s.lease.after[o]
    BY DEF Arrived, HardwareMatches
  <2>2. ASSUME Enabled(s.lease.after[o])
        PROVE  /\ s.outputs[o].shown.state = s.lease.after[o]
               /\ ~away => s.outputs[o].shown.sync = s.outputs[o].sync
    <3>1. s.lease.items[o].presented BY <2>2 DEF Arrived
    <3>2. /\ Faithful(s.outputs[o], s.lease.items[o], Expected(s, o, away))
          /\ ~away => s.outputs[o].sync = s.lease.items[o].target
      BY <1>6, <2>1, <3>1 DEF FramesInv, HardwareInv, Watched, Connected, Counting
    <3>3. s.outputs[o].shown \in Expected(s, o, away) BY <3>1, <3>2 DEF Faithful
    <3>4. /\ s.outputs[o].shown.state = Lit(s.outputs[o].scheduled)
          /\ ~away => s.outputs[o].shown.sync = s.lease.items[o].target
      BY <3>3 DEF Expected
    <3>5. s.outputs[o].scheduled = s.lease.after[o] BY <1>6 DEF CandidateInv
    <3>6. s.outputs[o].scheduled \in States BY <1>1, OutputFields
    <3>7. Lit(s.outputs[o].scheduled) = s.lease.after[o] BY <2>2, <3>5, <3>6, LitFacts
    <3> QED BY <3>2, <3>4, <3>7
  <2> QED BY <2>1, <2>2
<1>12. Offers(t, away) BY <1>2, <1>11 DEF Offers
<1> QED BY <1>7, <1>8, <1>9, <1>10, <1>12 DEF Witnessed, Submitted, t

\* The lease is given up, or not: what is expected of the frames follows.
LEMMA RevertWitnessed ==
  ASSUME NEW s, Safe(s), NEW away, s.lease.state \in Revocable \/ Witnessed(s, away),
         NEW reason \in Withdrawals, NEW removed, NEW test
  PROVE  LET t == Revert(s, reason, removed, test) IN
         /\ Witnessed(t, away)
         /\ t = s \/ GivenUp(t)
<1> DEFINE t == Revert(s, reason, removed, test)
<1>1. /\ s.lease.state \notin Revocable => t = s
      /\ s.lease.state \in Revocable => GivenUp(t)
  BY RevertKeeps
<1> HIDE DEF t
<1> QED BY <1>1, GivenUpWitnessed DEF t

LEMMA AppliedWitnessed ==
  ASSUME NEW s, Sound(s), NEW away, Witnessed(s, away), NEW test
  PROVE  LET t == Applied(s, test) IN
         /\ Witnessed(t, away)
         /\ s.lease.state # "previewing" /\ t.lease.state = "previewing" => Offers(t, away)
         /\ s.lease.state # "reverted" /\ t.lease.state = "reverted" => Restores(t)
<1> DEFINE t == Applied(s, test)
           late == {o \in Outputs : ~Arrived(s, o, s.lease.after[o])}
<1>1. CASE s.lease.state = "reverting"
  BY <1>1, RolledBackWitnessed DEF Applied
<1>2. CASE s.lease.state \notin {"applying", "previewing", "reverting"}
  BY <1>2 DEF Applied
<1>3. CASE s.lease.state \in {"applying", "previewing"} /\ late # {}
  <2> DEFINE why == Obstacle(s, First(late))
  <2>1. t = IF why = "" THEN s ELSE Revert(s, why, NoOutput, test)
    BY <1>3 DEF Applied
  <2>2. why \in Withdrawals \cup {""} BY ObstacleType
  <2>3. CASE why = "" BY <2>1, <2>3, <1>3
  <2>4. CASE why # ""
    <3>1. t = Revert(s, why, NoOutput, test) BY <2>1, <2>4
    <3>2. Safe(s) /\ why \in Withdrawals BY <2>2, <2>4 DEF Sound
    <3> HIDE DEF t, why
    <3>3. LET u == Revert(s, why, NoOutput, test) IN
          /\ Witnessed(u, away)
          /\ u = s \/ GivenUp(u)
      BY <3>2, RevertWitnessed
    <3> QED BY <3>1, <3>3 DEF t, GivenUp
  <2> QED BY <2>3, <2>4
<1>4. CASE s.lease.state \in {"applying", "previewing"} /\ late = {}
  <2> DEFINE l == [s.lease EXCEPT
              !.state = "previewing",
              !.due = IF s.lease.reason = "adaptive_sync_changed" THEN @ ELSE FALSE,
              !.reason = "confirmation_required",
              !.moved = FALSE]
  <2>1. s \in SType /\ s.lease \in LeaseType BY SFields DEF Sound, Safe
  <2>2. t = IF s.lease.state = "applying" THEN [s EXCEPT !.lease = l] ELSE s
    BY <1>4, <2>1 DEF Applied, SType
  <2>3. l \in LeaseType /\ l.after = s.lease.after
        /\ l.items = s.lease.items /\ l.state = "previewing"
    BY ZenonT(60), <2>1 DEF LeaseType, ActiveStates, Revocable, Reasons
  <2>4. \A o \in Outputs : Arrived(s, o, s.lease.after[o]) BY <1>4
  <2>5. s.lease.state \in Trying BY <1>4 DEF Trying
  <2>6. [s EXCEPT !.lease = l].lease = l BY <2>1 DEF SType
  <2> HIDE DEF l, t
  <2>7. LET u == [s EXCEPT !.lease = l] IN Witnessed(u, away) /\ Offers(u, away)
    BY <2>3, <2>4, <2>5, OfferedWitnessed
  <2> QED BY <1>4, <2>2, <2>3, <2>6, <2>7 DEF t
<1> QED BY <1>1, <1>2, <1>3, <1>4

\* What ends a lease without a rollback, or by one.
LEMMA FailedWitnessed ==
  ASSUME NEW s, Safe(s), Active(s), NEW away, NEW test
  PROVE  Witnessed(Failed(s, test), away) /\ GivenUp(Failed(s, test))
<1> DEFINE t == Failed(s, test)
<1>1. CASE s.lease.state = "reverting"
  <2>1. s \in SType /\ s.lease \in LeaseType BY SFields DEF Safe
  <2>2. t.lease.state = "failed" BY <1>1, <2>1 DEF Failed, SType, LeaseType
  <2> HIDE DEF t
  <2>3. GivenUp(t) BY <2>2 DEF GivenUp
  <2> QED BY <2>3, GivenUpWitnessed DEF t
<1>2. CASE s.lease.state # "reverting"
  <2>1. t = Revert(s, "apply_failed", NoOutput, test) BY <1>2 DEF Failed
  <2>2. "apply_failed" \in Withdrawals BY DEF Withdrawals
  <2>3. s.lease.state \in Revocable BY <1>2 DEF Active, ActiveStates
  <2>4. GivenUp(Revert(s, "apply_failed", NoOutput, test)) BY <2>2, <2>3, RevertKeeps
  <2> QED BY <2>1, <2>4, GivenUpWitnessed
<1> QED BY <1>1, <1>2

LEMMA ExpireWitnessed ==
  ASSUME NEW s, Sound(s), NEW away, Witnessed(s, away), NEW test
  PROVE  LET t == Expire(s, test) IN Witnessed(t, away) /\ (t = s \/ GivenUp(t))
<1> DEFINE t == Expire(s, test)
<1>1. CASE ~(Active(s) /\ s.lease.state # "waiting_session" /\ s.lease.due)
  BY <1>1 DEF Expire
<1>2. CASE /\ Active(s) /\ s.lease.state # "waiting_session" /\ s.lease.due
           /\ s.lease.state = "reverting"
  <2>1. s \in SType /\ s.lease \in LeaseType BY SFields DEF Sound, Safe
  <2>2. t.lease.state = "failed" BY <1>2, <2>1 DEF Expire, SType, LeaseType
  <2> HIDE DEF t
  <2>3. GivenUp(t) BY <2>2 DEF GivenUp
  <2> QED BY <2>3, GivenUpWitnessed DEF t
<1>3. CASE /\ Active(s) /\ s.lease.state # "waiting_session" /\ s.lease.due
           /\ s.lease.state # "reverting"
  <2>1. t = Revert(s, "timeout", NoOutput, test) BY <1>3 DEF Expire
  <2>2. "timeout" \in Withdrawals BY DEF Withdrawals
  <2>3. LET u == Revert(s, "timeout", NoOutput, test) IN Witnessed(u, away) /\ (u = s \/ GivenUp(u))
    BY <2>2, RevertWitnessed DEF Sound
  <2> QED BY <2>1, <2>3
<1> QED BY <1>1, <1>2, <1>3

-----------------------------------------------------------------------------
(***************************************************************************)
(* Every action keeps the invariant, and offers and restores only as it    *)
(* should (the bodies of KeepOffersWhatIsSeen and RevertedMeansRestored).  *)
(***************************************************************************)
OfferStep ==
  lease.state # "previewing" /\ lease'.state = "previewing" =>
    Offers(Here', session'.away) /\ lease'.after = lease.after
RestoreStep ==
  lease.state # "reverted" /\ lease'.state = "reverted" =>
    Restores(Here') /\ lease'.before = lease.before

\* The lease is given up, for the session, for a rollback or for good.
GivesWay == lease'.state \in {"waiting_session", "failed", "reverting"}

\* A step that offers and restores nothing.
LEMMA SeenQuiet ==
  ASSUME Witnessed(Here', session'.away), AwayInv',
         lease'.state = lease.state \/ lease'.state \notin {"previewing", "reverted"}
  PROVE  SeenInv' /\ OfferStep /\ RestoreStep
BY DEF SeenInv, OfferStep, RestoreStep

\* A handler that leaves t behind, with the session as it was.
LEMMA SeenLeave ==
  ASSUME SeenInv, UNCHANGED session, NEW t, Here' = t, lease' = t.lease,
         Witnessed(t, session.away),
         t.lease.state = lease.state \/ GivenUp(t)
  PROVE  SeenInv' /\ OfferStep /\ RestoreStep
<1>1. AwayInv' BY DEF SeenInv, AwayInv
<1>2. Witnessed(Here', session'.away) OBVIOUS
<1>3. lease'.state = lease.state \/ lease'.state \notin {"previewing", "reverted"}
  BY DEF GivenUp
<1> QED BY <1>1, <1>2, <1>3, SeenQuiet

\* Of a session that has been away less is expected.
LEMMA AwayWitnessed ==
  ASSUME NEW s, NEW away, Witnessed(s, away)
  PROVE  Witnessed(s, TRUE)
<1>1. \A o : Expected(s, o, away) \subseteq Expected(s, o, TRUE)
  BY DEF Expected
<1>2. \A out, item, P, Q : P \subseteq Q /\ Faithful(out, item, P) => Faithful(out, item, Q)
  BY DEF Faithful
<1>3. \A o, out, item : Faithful(out, item, Expected(s, o, away))
                          => Faithful(out, item, Expected(s, o, TRUE))
  BY <1>1, <1>2
<1>4. FramesInv(s, TRUE) BY <1>3 DEF Witnessed, Submitted, FramesInv
<1>5. HardwareInv(s, TRUE) BY DEF Witnessed, HardwareInv
<1> QED BY <1>4, <1>5 DEF Witnessed, Submitted

LEMMA InitSeen == Init => SeenInv
<1> SUFFICES ASSUME Init PROVE SeenInv OBVIOUS
<1>1. Here.lease.state = "none" /\ Here.outputs = outputs /\ Here.lease = lease
  BY DEF Init, Here
<1>2. \A o \in Outputs : outputs[o].connected /\ ~Counting(lease.items[o])
  BY DEF Init, NewItem, Counting
<1> QED
  BY <1>1, <1>2 DEF Init, SeenInv, AwayInv, Witnessed, Submitted, FramesInv, HardwareInv,
     CandidateInv, FirstInv, Watched, Trying

LEMMA BeginSeen ==
  ASSUME IInv, SeenInv, NEW plan \in Plans, Begin(plan)
  PROVE  SeenInv' /\ OfferStep /\ RestoreStep
<1>1. /\ outputs \in [Outputs -> OutputType] /\ lease \in LeaseType
      /\ Here.outputs = outputs /\ Here.lease = lease
      /\ lease.items \in [Outputs -> ItemType]
  BY HereFields, LeaseFields
<1>2. lease.state = "none" BY DEF Begin
<1>3. \A o \in Outputs : outputs[o].connected /\ ~Counting(lease.items[o])
  BY <1>1, <1>2 DEF SeenInv, Witnessed, Submitted, FirstInv
<1>4. Here'.outputs = outputs' /\ Here'.lease = lease' BY DEF Here
<1>5. ASSUME NEW o \in Outputs
      PROVE  outputs'[o].connected /\ outputs'[o].scheduled = plan[o]
  <2>1. outputs'[o] = [outputs[o] EXCEPT !.scheduled = plan[o]] BY DEF Begin
  <2>2. outputs[o] \in OutputType /\ outputs[o].connected BY <1>1, <1>3
  <2> QED BY <2>1, <2>2 DEF OutputType
<1>6. lease'.state = "applying" /\ lease'.after = plan /\ lease'.items = lease.items
  BY <1>1 DEF Begin, LeaseType
<1>7. \A o \in Outputs : ~lease'.items[o].submitted /\ ~lease'.items[o].presented
  BY <1>3, <1>6 DEF Counting
<1> DEFINE t == Here'
<1>8. /\ t.outputs = outputs' /\ t.lease = lease' BY <1>4
<1> HIDE DEF t
<1>9. Witnessed(t, session'.away)
  BY <1>5, <1>6, <1>7, <1>8 DEF Witnessed, Submitted, FramesInv, HardwareInv, CandidateInv,
     FirstInv, Counting, Connected
<1>10. AwayInv' BY DEF Begin, SeenInv, AwayInv
<1> QED BY <1>6, <1>9, <1>10, SeenQuiet DEF t

LEMMA ManageStartIs ==
  ASSUME IInv, ManageStart
  PROVE  \A o \in Outputs : /\ outputs'[o].connected = outputs[o].connected
                            /\ outputs'[o].scheduled = outputs[o].scheduled
                            /\ outputs'[o].hw = outputs[o].hw
                            /\ outputs'[o].sync = outputs[o].sync
                            /\ outputs'[o].flight = outputs[o].flight
                            /\ outputs'[o].shown = outputs[o].shown
                            /\ outputs[o].connected => outputs'[o].sent = outputs[o].scheduled
<1> DEFINE new(o) == [outputs[o] EXCEPT !.sent = outputs[o].scheduled]
           sent == [o \in Connected(Here) |-> new(o)]
<1>1. /\ Here.outputs = outputs /\ Here.lease = lease
      /\ outputs \in [Outputs -> OutputType] /\ Connected(Here) \in SUBSET Outputs
  BY HereFields DEF Connected
<1>2. ASSUME NEW o \in Outputs
      PROVE  /\ new(o) \in OutputType /\ new(o).sent = outputs[o].scheduled
             /\ new(o).connected = outputs[o].connected
             /\ new(o).scheduled = outputs[o].scheduled
             /\ new(o).hw = outputs[o].hw /\ new(o).sync = outputs[o].sync
             /\ new(o).flight = outputs[o].flight /\ new(o).shown = outputs[o].shown
  <2>1. outputs[o] \in OutputType /\ outputs[o].scheduled \in States BY <1>1, OutputFields
  <2> QED BY <2>1 DEF OutputType
<1>3. /\ \A o \in Connected(Here) : outputs'[o] = new(o)
      /\ \A o \in Outputs \ Connected(Here) : outputs'[o] = outputs[o]
  <2>1. outputs' = Updated(outputs, sent) BY DEF ManageStart
  <2>2. sent \in [Connected(Here) -> OutputType]
        /\ \A o \in Connected(Here) : sent[o] = new(o)
    <3> HIDE DEF new
    <3> QED BY <1>1, <1>2
  <2> HIDE DEF sent, new
  <2>3. /\ \A o \in Connected(Here) : Updated(outputs, sent)[o] = sent[o]
        /\ \A o \in Outputs \ Connected(Here) : Updated(outputs, sent)[o] = outputs[o]
    BY <1>1, <2>2, UpdatedOutputs
  <2> QED BY <2>1, <2>2, <2>3
<1> HIDE DEF new
<1> QED BY <1>1, <1>2, <1>3 DEF Connected

LEMMA ManageStartSeen ==
  ASSUME IInv, SeenInv, ManageStart
  PROVE  SeenInv' /\ OfferStep /\ RestoreStep
<1> DEFINE t == Here'
<1>1. Here.outputs = outputs /\ Here.lease = lease BY HereFields
<1>4. lease' = lease /\ UNCHANGED session BY DEF ManageStart
<1>5. t.outputs = outputs' /\ t.lease = lease BY <1>4 DEF Here
<1>6. \A o \in Outputs : /\ outputs'[o].connected = outputs[o].connected
                         /\ outputs'[o].scheduled = outputs[o].scheduled
                         /\ outputs'[o].hw = outputs[o].hw
                         /\ outputs'[o].sync = outputs[o].sync
                         /\ outputs'[o].flight = outputs[o].flight
                         /\ outputs'[o].shown = outputs[o].shown
                         /\ outputs[o].connected => outputs'[o].sent = outputs[o].scheduled
  BY ManageStartIs
<1> DEFINE s == Here
<1>7. s.outputs = outputs /\ s.lease = lease /\ Witnessed(s, session.away)
  BY <1>1 DEF SeenInv
<1> HIDE DEF s, t
<1>8. Connected(t) = Connected(s) /\ Connected(s) \subseteq Outputs
  BY <1>5, <1>6, <1>7 DEF Connected
<1>9. \A o \in Outputs : Expected(t, o, session.away) = Expected(s, o, session.away)
  BY <1>5, <1>6, <1>7 DEF Expected
<1>10. \A o \in Outputs : \A item :
         Faithful(t.outputs[o], item, Expected(t, o, session.away))
           <=> Faithful(s.outputs[o], item, Expected(s, o, session.away))
  BY <1>5, <1>6, <1>7, <1>9 DEF Faithful
<1>11. FramesInv(t, session.away)
  BY <1>5, <1>6, <1>7, <1>8, <1>10 DEF Witnessed, Submitted, FramesInv, Connected
<1>12. HardwareInv(t, session.away)
  BY <1>5, <1>6, <1>7, <1>8 DEF Witnessed, HardwareInv
<1>13. CandidateInv(t) /\ FirstInv(t)
  BY <1>5, <1>6, <1>7 DEF Witnessed, Submitted, CandidateInv, FirstInv
<1>14. Witnessed(t, session.away) BY <1>11, <1>12, <1>13 DEF Witnessed, Submitted
<1> QED BY <1>4, <1>5, <1>14, SeenLeave DEF t

\* A step that changes nothing that the invariant is about.
LEMMA SameSeen ==
  ASSUME SeenInv, UNCHANGED session, SameWitness(Here, Here')
  PROVE  SeenInv' /\ OfferStep /\ RestoreStep
<1> DEFINE t == Here'
<1>1. t.lease = lease' /\ Here.lease = lease BY DEF Here
<1> HIDE DEF t
<1>2. Witnessed(t, session.away) BY SameWitnessed DEF SeenInv, t
<1>3. t.lease.state = lease.state BY <1>1 DEF SameWitness, t
<1> QED BY <1>1, <1>2, <1>3, SeenLeave DEF t

LEMMA SameHere ==
  ASSUME lease'.state = lease.state, lease'.after = lease.after, lease'.items = lease.items,
         \A o \in Outputs : /\ outputs'[o].connected = outputs[o].connected
                            /\ outputs'[o].scheduled = outputs[o].scheduled
                            /\ outputs'[o].sent = outputs[o].sent
                            /\ outputs'[o].hw = outputs[o].hw
                            /\ outputs'[o].sync = outputs[o].sync
                            /\ outputs'[o].flight = outputs[o].flight
                            /\ outputs'[o].shown = outputs[o].shown
  PROVE  SameWitness(Here, Here')
<1> DEFINE t == Here'
<1>1. t.outputs = outputs' /\ t.lease = lease' BY DEF Here
<1> HIDE DEF t
<1>2. Here.outputs = outputs /\ Here.lease = lease BY DEF Here
<1>3. SameWitness(Here, t) BY <1>1, <1>2 DEF SameWitness
<1> QED BY <1>3 DEF t

LEMMA FullscreenSame ==
  ASSUME IInv, NEW o \in Outputs, Fullscreen(o)
  PROVE  SameWitness(Here, Here')
<1> DEFINE out == [outputs[o] EXCEPT !.fullscreen = ~@]
<1>1. outputs \in [Outputs -> OutputType] /\ outputs[o] \in OutputType
  BY HereFields
<1>2. /\ out.connected = outputs[o].connected /\ out.scheduled = outputs[o].scheduled
      /\ out.hw = outputs[o].hw /\ out.sent = outputs[o].sent /\ out.sync = outputs[o].sync
      /\ out.flight = outputs[o].flight /\ out.shown = outputs[o].shown
  BY <1>1 DEF OutputType
<1>3. outputs' = [outputs EXCEPT ![o] = out] /\ UNCHANGED lease
  BY <1>1 DEF Fullscreen
<1> HIDE DEF out
<1> QED BY <1>1, <1>2, <1>3, SameHere

\* The seat, the clock, and the helper while it only writes files.
LEMMA QuietSame ==
  ASSUME IInv,
         \/ SwitchSession \/ LockSession
         \/ Elapse \/ TickWaits \/ HelperDeclines \/ HelperPrepares \/ HelperExpires
         \/ HelperCommits \/ HelperDecides \/ HelperCrashes \/ OtherRecovers
  PROVE  SameWitness(Here, Here')
<1>1. outputs' = outputs
  BY DEF SwitchSession, LockSession, Elapse, TickWaits, HelperDeclines, HelperPrepares,
         HelperExpires, HelperCommits, HelperDecides, HelperCrashes, OtherRecovers
<1>2. /\ lease'.state = lease.state /\ lease'.after = lease.after
      /\ lease'.items = lease.items
  BY HereFields
  DEF SwitchSession, LockSession, Elapse, TickWaits, HelperDeclines, HelperPrepares,
      HelperExpires, HelperCommits, HelperDecides, HelperCrashes, OtherRecovers, LeaseType
<1> QED BY <1>1, <1>2, SameHere

LEMMA FullscreenSeen ==
  ASSUME IInv, SeenInv, NEW o \in Outputs, Fullscreen(o)
  PROVE  SeenInv' /\ OfferStep /\ RestoreStep
<1>1. UNCHANGED session BY DEF Fullscreen
<1> QED BY <1>1, FullscreenSame, SameSeen

LEMMA SessionSeen ==
  ASSUME IInv, SeenInv, SwitchSession \/ LockSession
  PROVE  SeenInv' /\ OfferStep /\ RestoreStep
<1> DEFINE t == Here'
<1>1. SameWitness(Here, t) BY QuietSame
<1> HIDE DEF t
<1>2. Witnessed(t, session.away) BY <1>1, SameWitnessed DEF SeenInv
<1>3. session'.away = session.away \/ session'.away = TRUE
  BY HereFields DEF SwitchSession, LockSession
<1>4. Witnessed(t, session'.away) BY <1>2, <1>3, AwayWitnessed
<1>5. AwayInv' BY HereFields DEF SwitchSession, LockSession, SeenInv, AwayInv
<1>6. lease' = lease BY DEF SwitchSession, LockSession
<1> QED BY <1>4, <1>5, <1>6, SeenQuiet DEF t

LEMMA QuietSeen ==
  ASSUME IInv, SeenInv,
         \/ Elapse \/ TickWaits \/ HelperDeclines \/ HelperPrepares \/ HelperExpires
         \/ HelperCommits \/ HelperDecides \/ HelperCrashes \/ OtherRecovers
  PROVE  SeenInv' /\ OfferStep /\ RestoreStep
<1>1. UNCHANGED session
  BY DEF Elapse, TickWaits, HelperDeclines, HelperPrepares, HelperExpires, HelperCommits,
         HelperDecides, HelperCrashes, OtherRecovers
<1> QED BY <1>1, QuietSame, SameSeen

\* A lease that nothing is expected of any more.
LEMMA UnwatchedSeen ==
  ASSUME SeenInv, UNCHANGED session,
         lease'.state \in {"commit_authorized", "kept", "failed"}
  PROVE  SeenInv' /\ OfferStep /\ RestoreStep
<1> DEFINE t == Here'
<1>1. t.lease = lease' BY DEF Here
<1> HIDE DEF t
<1>2. t.lease.state \notin Watched \cup {"none"} BY <1>1 DEF Watched, Trying
<1>3. Witnessed(t, session'.away) BY <1>2, UnwatchedWitnessed
<1>4. AwayInv' BY DEF SeenInv, AwayInv
<1>5. Witnessed(Here', session'.away) BY <1>3 DEF t
<1> QED BY <1>4, <1>5, SeenQuiet

LEMMA AuthorizesSeen ==
  ASSUME IInv, SeenInv, HelperAuthorizes \/ TickConflict
  PROVE  SeenInv' /\ OfferStep /\ RestoreStep
<1>1. UNCHANGED session /\ lease'.state \in {"commit_authorized", "failed"}
  BY HereFields DEF HelperAuthorizes, TickConflict, LeaseType
<1> QED BY <1>1, UnwatchedSeen

LEMMA FinalizesSeen ==
  ASSUME IInv, SeenInv, HelperFinalizes
  PROVE  SeenInv' /\ OfferStep /\ RestoreStep
<1>1. UNCHANGED session BY DEF HelperFinalizes
<1>2. CASE lease.state = "commit_authorized" /\ ~session.locked
  <2>1. lease' = Kept(Here).lease BY <1>2 DEF HelperFinalizes, Leave
  <2>2. lease'.state = "kept" BY <1>2, <2>1, KeptSound
  <2> QED BY <1>1, <2>2, UnwatchedSeen
<1>3. CASE ~(lease.state = "commit_authorized" /\ ~session.locked)
  <2>1. outputs' = outputs /\ lease' = lease
    BY <1>3, HereFields DEF HelperFinalizes, Leave
  <2> QED BY <1>1, <2>1, SameHere, SameSeen
<1> QED BY <1>2, <1>3

\* A tick gives the lease up or looks at its items, and then at the clock.
LEMMA TickSeen ==
  ASSUME IInv, SeenInv, NEW test, Tick(test)
  PROVE  SeenInv' /\ OfferStep /\ RestoreStep
<1>1. PICK s : /\ Inspect(Here, test) = Applied(s, test)
               /\ Sound(s) /\ Moves(Here, s)
               /\ s = Here \/ GivenUp(s)
  BY InspectIs DEF IInv
<1> DEFINE t == Applied(s, test)
           u == Expire(t, test)
<1>2. Witnessed(s, session.away)
  BY <1>1, GivenUpWitnessed DEF SeenInv
<1>3. Sound(t) /\ Moves(s, t) BY <1>1, AppliedKeeps
<1>4. /\ Witnessed(t, session.away)
      /\ s.lease.state # "previewing" /\ t.lease.state = "previewing" => Offers(t, session.away)
      /\ s.lease.state # "reverted" /\ t.lease.state = "reverted" => Restores(t)
  BY <1>1, <1>2, AppliedWitnessed
<1>5. Leave(u) /\ UNCHANGED session BY <1>1 DEF Tick
<1> HIDE DEF t
<1>6. Sound(u) /\ Moves(t, u) BY <1>3, ExpireKeeps
<1>7. Witnessed(u, session.away) /\ (u = t \/ GivenUp(u)) BY <1>3, <1>4, ExpireWitnessed
<1> HIDE DEF u
<1>8. Here' = u /\ lease' = u.lease BY <1>5, <1>6, LeaveIs DEF IInv, Sound, Safe
<1>9. Here.lease = lease BY HereFields
<1>10. CASE GivenUp(u) BY <1>5, <1>7, <1>8, <1>10, SeenLeave
<1>11. CASE u = t
  <2>1. lease.state # "previewing" => s.lease.state # "previewing"
    BY <1>1, <1>9 DEF GivenUp
  <2>2. lease.state # "reverted" => s.lease.state # "reverted"
    BY <1>1, <1>9 DEF GivenUp
  <2>3. t.lease.after = lease.after /\ t.lease.before = lease.before
    BY <1>1, <1>3, <1>9 DEF Moves
  <2>4. OfferStep BY <1>4, <1>5, <1>8, <1>11, <2>1, <2>3 DEF OfferStep
  <2>5. RestoreStep BY <1>4, <1>8, <1>11, <2>2, <2>3 DEF RestoreStep
  <2>6. Witnessed(Here', session'.away) /\ AwayInv'
    BY <1>5, <1>7, <1>8 DEF SeenInv, AwayInv
  <2>7. SeenInv' BY <2>6 DEF SeenInv
  <2> QED BY <2>4, <2>5, <2>7
<1> QED BY <1>7, <1>10, <1>11

LEMMA ReconcilesSeen ==
  ASSUME IInv, SeenInv, NEW test, TickReconciles(test)
  PROVE  SeenInv' /\ OfferStep /\ RestoreStep
<1>1. UNCHANGED session /\ lease.state = "commit_authorized" BY DEF TickReconciles
<1>2. CASE files'.decision = "saved"
  <2>1. lease' = Kept(Here).lease BY <1>2 DEF TickReconciles, Leave
  <2>2. lease'.state = "kept" BY <1>1, <2>1, KeptSound
  <2> QED BY <1>1, <2>2, UnwatchedSeen
<1>3. CASE files'.decision # "saved"
  <2> DEFINE t == Revert(Here, "commit_deadline", NoOutput, test)
  <2>1. Leave(t) BY <1>3 DEF TickReconciles
  <2>2. Sound(t) /\ GivenUp(t)
    <3>1. Here.lease.state \in Revocable BY <1>1, HereFields DEF Revocable
    <3>2. Safe(Here) /\ "commit_deadline" \in Withdrawals BY DEF IInv, Sound, Withdrawals
    <3> QED BY <3>1, <3>2, RevertKeeps
  <2> HIDE DEF t
  <2>3. Here' = t /\ lease' = t.lease BY <2>1, <2>2, LeaveIs DEF IInv, Sound, Safe
  <2>4. Witnessed(t, session.away) BY <2>2, GivenUpWitnessed
  <2> QED BY <1>1, <2>2, <2>3, <2>4, SeenLeave
<1> QED BY <1>2, <1>3

LEMMA GivenUpSeen ==
  ASSUME IInv, SeenInv, UNCHANGED session, lease.state \in Revocable,
         NEW s, Safe(s), s.lease = lease, NEW reason \in Withdrawals, NEW test,
         Leave(Revert(s, reason, NoOutput, test))
  PROVE  SeenInv' /\ OfferStep /\ RestoreStep /\ GivesWay
<1> DEFINE t == Revert(s, reason, NoOutput, test)
<1>1. Sound(t) /\ GivenUp(t) BY RevertKeeps
<1>2. Leave(t) OBVIOUS
<1> HIDE DEF t
<1>3. Here' = t /\ lease' = t.lease BY <1>1, <1>2, LeaveIs DEF IInv, Sound, Safe
<1>4. Witnessed(t, session.away) BY <1>1, GivenUpWitnessed
<1>5. GivesWay BY <1>1, <1>3 DEF GivenUp, GivesWay
<1> QED BY <1>1, <1>3, <1>4, <1>5, SeenLeave

LEMMA RequestSeen ==
  ASSUME IInv, SeenInv, NEW test, RequestRevert(test) \/ OwnerGone(test) \/ PlugIn(test)
  PROVE  SeenInv' /\ OfferStep /\ RestoreStep /\ GivesWay
<1>1. Safe(Here) /\ Here.lease = lease BY HereFields DEF IInv, Sound
<1>2. UNCHANGED session /\ lease.state \in Revocable
  BY DEF RequestRevert, OwnerGone, PlugIn
<1>3. CASE RequestRevert(test)
  <2>1. Leave(Revert(Here, "explicit_revert", NoOutput, test)) BY <1>3 DEF RequestRevert
  <2> QED BY <1>1, <1>2, <2>1, GivenUpSeen DEF Withdrawals
<1>4. CASE OwnerGone(test)
  <2>1. Leave(Revert(Here, "owner_disconnected", NoOutput, test)) BY <1>4 DEF OwnerGone
  <2> QED BY <1>1, <1>2, <2>1, GivenUpSeen DEF Withdrawals
<1>5. CASE PlugIn(test)
  <2> DEFINE dirty == [Here EXCEPT !.dirty = TRUE]
  <2>1. Safe(dirty) /\ dirty.lease = lease BY <1>1, DirtyKeeps
  <2>2. Leave(Revert(dirty, "hotplug", NoOutput, test)) BY <1>5 DEF PlugIn
  <2> HIDE DEF dirty
  <2> QED BY <1>2, <2>1, <2>2, GivenUpSeen DEF Withdrawals
<1> QED BY <1>3, <1>4, <1>5

\* A lease that is being given up says nothing of an output that is gone.
LEMMA UnplugSeen ==
  ASSUME IInv, SeenInv, NEW o \in Outputs, NEW test, Unplug(o, test)
  PROVE  SeenInv' /\ OfferStep /\ RestoreStep /\ GivesWay
<1> DEFINE moved == Noticed(Here, TRUE)
           rolled == Revert(moved, "hotplug", o, test)
<1>0. PICK out, s :
        /\ Removed(o, test, out, s)
        /\ Leave(Revert(s, "hotplug", NoOutput, test))
        /\ UNCHANGED <<session, files>> /\ troubles' \in 0 .. MaxTroubles
  BY UnplugIs
<1>1. /\ Sound(rolled) /\ Moves(Here, rolled)
      /\ ~out.connected
      /\ Safe(s) /\ Moves(rolled, s) /\ s.lease = rolled.lease
      /\ \A p \in Outputs : s.outputs[p] = IF p = o THEN out ELSE rolled.outputs[p]
      /\ Leave(Revert(s, "hotplug", NoOutput, test))
      /\ UNCHANGED session
  BY <1>0 DEF Removed
<1>2. /\ Sound(moved) /\ moved.lease.state = lease.state
      /\ Witnessed(moved, session.away)
  <2>1. Sound(Here) /\ Witnessed(Here, session.away) /\ Here.lease = lease
    BY HereFields DEF IInv, SeenInv
  <2>2. Sound(moved) /\ moved.lease.state = Here.lease.state BY <2>1, NoticedKeeps
  <2>3. Witnessed(moved, session.away) BY <2>1, NoticedWitnessed
  <2> QED BY <2>1, <2>2, <2>3
<1>3. lease.state \in ActiveStates BY HereFields DEF Unplug, Active
<1> HIDE DEF moved
<1>4. /\ lease.state \notin Revocable => rolled = moved
      /\ lease.state \in Revocable => GivenUp(rolled)
  BY <1>2, RevertKeeps DEF Sound, Withdrawals
<1> HIDE DEF rolled
<1>5. Witnessed(rolled, session.away) /\ rolled.lease.state \in {"waiting_session", "failed", "reverting"}
  BY <1>2, <1>3, <1>4, GivenUpWitnessed DEF GivenUp, ActiveStates
<1>6. \A p \in Connected(s) : p \in Connected(rolled) /\ s.outputs[p] = rolled.outputs[p]
  BY <1>1 DEF Connected
<1>7. Witnessed(s, session.away)
  <2>1. \A p \in Connected(s) : Expected(s, p, session.away) = Expected(rolled, p, session.away)
    BY <1>1, <1>6 DEF Expected
  <2>2. FramesInv(s, session.away)
    BY <1>1, <1>5, <1>6, <2>1 DEF Witnessed, Submitted, FramesInv
  <2>3. HardwareInv(s, session.away) BY <1>1, <1>5, <1>6 DEF Witnessed, HardwareInv
  <2>4. CandidateInv(s) /\ FirstInv(s) BY <1>1, <1>5 DEF CandidateInv, FirstInv, Trying
  <2> QED BY <2>2, <2>3, <2>4 DEF Witnessed, Submitted
<1> DEFINE t == Revert(s, "hotplug", NoOutput, test)
<1>8. /\ Sound(t)
      /\ s.lease.state \notin Revocable => t = s
      /\ s.lease.state \in Revocable => GivenUp(t)
  BY <1>1, RevertKeeps DEF Withdrawals
<1>9. Leave(t) BY <1>1
<1> HIDE DEF t
<1>10. Here' = t /\ lease' = t.lease BY <1>8, <1>9, LeaveIs DEF IInv, Sound, Safe
<1>11. Witnessed(t, session.away) BY <1>7, <1>8, GivenUpWitnessed
<1>12. GivesWay
  BY <1>1, <1>5, <1>8, <1>10 DEF GivenUp, GivesWay
<1>13. AwayInv' /\ Witnessed(Here', session'.away) BY <1>1, <1>10, <1>11 DEF SeenInv, AwayInv
<1> QED BY <1>12, <1>13, SeenQuiet DEF GivesWay

\* The preview gives way first; and a screen that goes dark, or comes back,
\* stays in the state that frames are expected to be pictures of.
LEMMA SetPowerSeen ==
  ASSUME IInv, SeenInv, NEW o \in Outputs, NEW on \in BOOLEAN, NEW test, SetPower(o, on, test)
  PROVE  SeenInv' /\ OfferStep /\ RestoreStep /\ GivesWay
<1> DEFINE rolled == Revert(Here, "competing_change", NoOutput, test)
           s == Noticed(rolled, TRUE)
<1>1. PICK t :
        /\ Sound(s) /\ Moves(Here, s)
        /\ Sound(t) /\ Moves(s, t) /\ t.lease = s.lease
        /\ \A p \in Outputs : Repowered(s.outputs[p], t.outputs[p])
        /\ Leave(t) /\ UNCHANGED session
  BY SetPowerIs
<1>2. lease.state \in ActiveStates /\ Here.lease = lease BY HereFields DEF SetPower, Active
<1>3. /\ Sound(rolled)
      /\ lease.state \notin Revocable => rolled = Here
      /\ lease.state \in Revocable => GivenUp(rolled)
  BY <1>2, RevertKeeps DEF IInv, Sound, Withdrawals
<1> HIDE DEF rolled
<1>4. Witnessed(rolled, session.away) /\ rolled.lease.state \in {"waiting_session", "failed", "reverting"}
  BY <1>2, <1>3, GivenUpWitnessed DEF GivenUp, ActiveStates, SeenInv
<1>5. Witnessed(s, session.away) /\ s.lease.state = rolled.lease.state
  BY <1>3, <1>4, NoticedKeeps, NoticedWitnessed
<1> HIDE DEF s
<1>6. s.outputs \in [Outputs -> OutputType] BY <1>1, SFields DEF Sound, Safe
<1>7. Connected(t) = Connected(s) /\ Connected(s) \subseteq Outputs
  BY <1>1 DEF Repowered, Connected
<1>8. \A p \in Outputs : Lit(t.outputs[p].scheduled) = Lit(s.outputs[p].scheduled)
  <2> SUFFICES ASSUME NEW p \in Outputs
               PROVE  Lit(t.outputs[p].scheduled) = Lit(s.outputs[p].scheduled)
    OBVIOUS
  <2>1. s.outputs[p].scheduled \in States BY <1>6, OutputFields
  <2> QED BY <1>1, <2>1, LitFacts DEF Repowered
<1>9. \A p \in Outputs : Expected(t, p, session.away) = Expected(s, p, session.away)
  BY <1>1, <1>8 DEF Expected
<1>10. \A p \in Outputs : \A item :
         Faithful(t.outputs[p], item, Expected(t, p, session.away))
           <=> Faithful(s.outputs[p], item, Expected(s, p, session.away))
  BY <1>1, <1>9 DEF Faithful, Repowered
<1>11. Witnessed(t, session.away)
  <2>1. FramesInv(t, session.away)
    BY <1>1, <1>5, <1>7, <1>8, <1>10 DEF Witnessed, Submitted, FramesInv, Repowered
  <2>2. HardwareInv(t, session.away)
    BY <1>1, <1>5, <1>7, <1>8 DEF Witnessed, HardwareInv, Repowered
  <2>3. CandidateInv(t) /\ FirstInv(t) BY <1>1, <1>4, <1>5 DEF CandidateInv, FirstInv, Trying
  <2> QED BY <2>1, <2>2, <2>3 DEF Witnessed, Submitted
<1>12. Here' = t /\ lease' = t.lease BY <1>1, LeaveIs DEF IInv, Sound, Safe
<1>13. GivesWay BY <1>1, <1>4, <1>5, <1>12 DEF GivesWay
<1>14. AwayInv' /\ Witnessed(Here', session'.away) BY <1>1, <1>11, <1>12 DEF SeenInv, AwayInv
<1> QED BY <1>13, <1>14, SeenQuiet DEF GivesWay

\* The set takes effect: what the lease then looks at is as expected.
LEMMA CommitWitnessed ==
  ASSUME IInv, SeenInv, NEW early \in BOOLEAN, NEW test, CommitOutputState(early, test)
  PROVE  \E moved \in BOOLEAN :
           LET s == Submitting(Here)
               p == Noticed(Arrives(Screened(s, early)), moved) IN
           /\ Sound(s) /\ Sound(Screened(s, early)) /\ Sound(Arrives(Screened(s, early)))
           /\ Sound(p) /\ Moves(Here, p) /\ Witnessed(p, session.away)
           /\ p.lease.state = s.lease.state
           /\ \/ s.lease.state = lease.state
              \/ s.lease.state = "applying" /\ lease.state = "previewing"
           /\ outputs' = Applied(p, test).outputs /\ lease' = Applied(p, test).lease
           /\ wm'.dirty = Applied(p, test).dirty
<1>1. wm.phase = "sent" BY DEF CommitOutputState
<1>e. early => \A o \in Outputs : DOMAIN outputs[o].flight = {}
  <2>1. DOMAIN <<>> = {} OBVIOUS
  <2>2. early => \A o \in Outputs : outputs[o].flight = <<>> BY DEF CommitOutputState
  <2> QED BY <2>1, <2>2
<1>2. PICK moved \in BOOLEAN :
        LET s == Submitting(Here)
            p == Noticed(Arrives(Screened(s, early)), moved) IN
        /\ Sound(s) /\ Moves(Here, s)
        /\ Sound(Screened(s, early)) /\ Moves(s, Screened(s, early))
        /\ Sound(p) /\ Moves(Screened(s, early), p)
        /\ outputs' = Applied(p, test).outputs /\ lease' = Applied(p, test).lease
        /\ wm' = [phase |-> "idle", dirty |-> Applied(p, test).dirty]
  BY <1>1, CommitIs
<1> DEFINE s == Submitting(Here)
           powered == Powered(s)
           shown == Screened(s, early)
           arrived == Arrives(shown)
           p == Noticed(arrived, moved)
           t == Applied(p, test)
<1>3. Here \in SType /\ Here.outputs = outputs /\ Here.lease = lease BY HereFields
<1>4. Submitted(Here, session.away) /\ (session.away \/ session.active)
  BY DEF SeenInv, Witnessed, AwayInv
<1>5. /\ Submitted(s, session.away) /\ Aimed(s)
      /\ \/ s.lease.state = lease.state
         \/ s.lease.state = "applying" /\ lease.state = "previewing"
      /\ \A o \in Outputs : SameOutput(s.outputs[o], outputs[o])
  BY <1>3, <1>4, SubmittingWitnessed
<1>6. Sound(s) /\ Sound(shown) /\ Sound(p) /\ Moves(Here, p)
  BY <1>2, MovesCompose
<1>7. outputs' = t.outputs /\ lease' = t.lease /\ wm'.dirty = t.dirty
  BY <1>2
<1> HIDE DEF t, s
<1>8. /\ Witnessed(powered, session.away)
      /\ \A o \in Outputs : powered.outputs[o].flight = s.outputs[o].flight
      /\ powered \in SType /\ powered.lease = s.lease
  BY <1>4, <1>5, <1>6, PoweredWitnessed, PoweredIs DEF Sound, Safe
<1> HIDE DEF powered
<1>9. Witnessed(shown, session.away) /\ shown.lease.state = s.lease.state
  <2>1. CASE early
    <3>1. \A o \in Outputs : DOMAIN powered.outputs[o].flight = {}
      BY <1>e, <1>5, <1>8, <2>1 DEF SameOutput
    <3>2. Witnessed(PresentedEarly(powered), session.away)
          /\ PresentedEarly(powered).lease.state = powered.lease.state
      BY <1>8, <3>1, PresentedEarlyWitnessed, PresentedEarlyIs
    <3> QED BY <1>8, <2>1, <3>2 DEF Screened, powered
  <2>2. CASE ~early BY <1>8, <2>2 DEF Screened, powered
  <2> QED BY <2>1, <2>2
<1> HIDE DEF shown
<1>10. Witnessed(arrived, session.away) /\ Sound(arrived) /\ arrived.lease = shown.lease
  BY <1>6, <1>9, ArrivesWitnessed, ArrivesKeeps DEF Sound, Safe
<1> HIDE DEF arrived
<1>11. Witnessed(p, session.away) /\ p.lease.state = s.lease.state
  BY <1>9, <1>10, NoticedWitnessed, NoticedKeeps
<1> HIDE DEF p
<1> QED BY <1>5, <1>6, <1>7, <1>10, <1>11 DEF t, p, arrived, shown, s

\* This is where candidates are offered.
LEMMA CommitSeen ==
  ASSUME IInv, SeenInv, NEW early \in BOOLEAN, NEW test, CommitOutputState(early, test)
  PROVE  SeenInv' /\ OfferStep /\ RestoreStep
<1>1. UNCHANGED session BY DEF CommitOutputState
<1>2. PICK p :
        /\ Sound(p) /\ Moves(Here, p) /\ Witnessed(p, session.away)
        /\ \/ p.lease.state = lease.state
           \/ p.lease.state = "applying" /\ lease.state = "previewing"
        /\ outputs' = Applied(p, test).outputs /\ lease' = Applied(p, test).lease
        /\ wm'.dirty = Applied(p, test).dirty
  BY CommitWitnessed
<1> DEFINE t == Applied(p, test)
<1>3. Sound(t) /\ Moves(p, t) BY <1>2, AppliedKeeps
<1>4. /\ Witnessed(t, session.away)
      /\ p.lease.state # "previewing" /\ t.lease.state = "previewing" => Offers(t, session.away)
      /\ p.lease.state # "reverted" /\ t.lease.state = "reverted" => Restores(t)
  BY <1>2, AppliedWitnessed
<1>5. outputs' = t.outputs /\ lease' = t.lease /\ wm'.dirty = t.dirty BY <1>2
<1> HIDE DEF t
<1>6. Here' = t BY <1>3, <1>5, SFields DEF Here, Sound, Safe
<1>7. t.lease.after = lease.after /\ t.lease.before = lease.before
  BY <1>2, <1>3, HereFields DEF Moves
<1>8. OfferStep BY <1>1, <1>2, <1>4, <1>5, <1>6, <1>7 DEF OfferStep
<1>9. RestoreStep BY <1>2, <1>4, <1>5, <1>6, <1>7 DEF RestoreStep
<1>10. AwayInv' /\ Witnessed(Here', session'.away) BY <1>1, <1>4, <1>6 DEF SeenInv, AwayInv
<1> QED BY <1>8, <1>9, <1>10 DEF SeenInv

LEMMA ModesetFailedSeen ==
  ASSUME IInv, SeenInv, NEW partly \in SUBSET Outputs, NEW test, ModesetFailed(partly, test)
  PROVE  SeenInv' /\ OfferStep /\ RestoreStep /\ GivesWay
<1>1. PICK s :
        /\ Safe(s) /\ s.lease = Submitting(Here).lease
        /\ wm' = [phase |-> "idle", dirty |-> Failed(s, test).dirty]
        /\ outputs' = Failed(s, test).outputs
        /\ lease' = Failed(s, test).lease
  BY ModesetFailedIs
<1>2. UNCHANGED session /\ lease.state \in ActiveStates
  BY HereFields DEF ModesetFailed, Active
<1>3. Here \in SType /\ Here.lease = lease /\ Submitted(Here, session.away)
  BY HereFields DEF SeenInv, Witnessed
<1>4. Active(s)
  <2>1. \/ s.lease.state = lease.state
        \/ s.lease.state = "applying"
    BY <1>1, <1>3, SubmittingWitnessed
  <2> QED BY <1>2, <2>1 DEF Active, ActiveStates, Revocable
<1> DEFINE t == Failed(s, test)
<1>5. Witnessed(t, session.away) /\ GivenUp(t) BY <1>1, <1>4, FailedWitnessed
<1>6. Sound(t) BY <1>1, FailedKeeps
<1>7. outputs' = t.outputs /\ lease' = t.lease /\ wm'.dirty = t.dirty BY <1>1
<1> HIDE DEF t
<1>8. Here' = t BY <1>6, <1>7, SFields DEF Here, Sound, Safe
<1>9. GivesWay BY <1>5, <1>7 DEF GivenUp, GivesWay
<1> QED BY <1>2, <1>5, <1>7, <1>8, <1>9, SeenLeave

\* A frame is a picture of the hardware, which is in the expected state.
LEMMA FrameSeen ==
  ASSUME IInv, SeenInv, NEW o \in Outputs, Frame(o)
  PROVE  SeenInv' /\ OfferStep /\ RestoreStep
<1> DEFINE flight == outputs[o].flight
           frame == [picture |-> Picturing(outputs[o]), fresh |-> lease.items[o].submitted]
           longer == Append(flight, frame)
           out == [outputs[o] EXCEPT !.flight = longer]
           s == Here
           t == Here'
           P == Expected(s, o, session.away)
           item == lease.items[o]
<1>1. /\ outputs \in [Outputs -> OutputType] /\ outputs[o] \in OutputType
      /\ s.outputs = outputs /\ s.lease = lease /\ Witnessed(s, session.away)
      /\ UNCHANGED <<lease, session>>
  BY HereFields DEF SeenInv, Frame
<1>2. outputs[o].connected /\ Enabled(outputs[o].hw) BY DEF Frame
<1>3. /\ DOMAIN longer = 1 .. Len(flight) + 1 /\ Len(flight) \in Nat
      /\ DOMAIN flight = 1 .. Len(flight)
      /\ \A i \in 1 .. Len(flight) : longer[i] = flight[i]
      /\ longer[Len(flight) + 1] = frame
  <2>1. flight \in Seq(FrameType) /\ Len(flight) \in Nat /\ DOMAIN flight = 1 .. Len(flight)
    BY <1>1, OutputFields, FlightElements
  <2> HIDE DEF flight, frame
  <2> QED BY <2>1
<1>4. frame.picture = Picturing(outputs[o]) OBVIOUS
<1>5. /\ out.connected = outputs[o].connected /\ out.scheduled = outputs[o].scheduled
      /\ out.sent = outputs[o].sent /\ out.hw = outputs[o].hw /\ out.sync = outputs[o].sync
      /\ out.shown = outputs[o].shown /\ out.flight = longer
  <2> HIDE DEF longer
  <2> QED BY <1>1 DEF OutputType
<1>6. outputs' = [outputs EXCEPT ![o] = out] BY <1>1 DEF Frame
<1> HIDE DEF out, longer, frame, flight
<1>7. t.outputs = outputs' /\ t.lease = lease BY <1>1 DEF Here
<1> HIDE DEF s, t
<1>8. \A p \in Outputs : t.outputs[p] = IF p = o THEN out ELSE s.outputs[p]
  BY <1>1, <1>6, <1>7
<1>9. Connected(t) = Connected(s) /\ Connected(s) \subseteq Outputs
  BY <1>1, <1>5, <1>8 DEF Connected
<1>10. \A p \in Outputs : Expected(t, p, session.away) = Expected(s, p, session.away)
  BY <1>1, <1>5, <1>7, <1>8 DEF Expected
<1>11. FramesInv(s, session.away) /\ HardwareInv(s, session.away)
       /\ CandidateInv(s) /\ FirstInv(s)
  BY <1>1 DEF Witnessed, Submitted
<1>12. ASSUME lease.state \in Watched, Counting(item)
       PROVE  Faithful(out, item, P)
  <2>1. /\ Faithful(outputs[o], item, P)
        /\ Lit(outputs[o].hw) = Lit(outputs[o].scheduled)
        /\ lease.state \in Trying /\ ~session.away => outputs[o].sync = item.target
    BY <1>1, <1>2, <1>11, <1>12 DEF FramesInv, HardwareInv, Connected
  <2>2. frame.picture \in P
    <3>1. Lit(outputs[o].hw) = outputs[o].hw BY <1>1, <1>2, OutputFields, LitFacts
    <3>2. Picturing(outputs[o]) \in Picture BY <1>1, OutputFields DEF Picturing, Picture
    <3> QED BY <1>1, <1>4, <2>1, <3>1, <3>2 DEF Expected, Picturing
  <2>3. \A i \in DOMAIN longer : i \in DOMAIN flight \/ longer[i] = frame
    BY <1>3
  <2>4. /\ \A i, j \in DOMAIN flight : i <= j /\ flight[i].fresh => flight[j].picture \in P
        /\ item.presented =>
             outputs[o].shown \in P /\ \A j \in DOMAIN flight : flight[j].picture \in P
    BY <2>1 DEF Faithful, flight
  <2> HIDE DEF P, item
  <2>5. ASSUME NEW i \in DOMAIN longer, NEW j \in DOMAIN longer, i <= j, longer[i].fresh
        PROVE  longer[j].picture \in P
    <3>1. CASE j = Len(flight) + 1 BY <1>3, <2>2, <3>1
    <3>2. CASE j # Len(flight) + 1
      <4>1. i \in 1 .. Len(flight) /\ j \in 1 .. Len(flight) BY <1>3, <2>5, <3>2
      <4> QED BY <1>3, <2>4, <2>5, <4>1
    <3> QED BY <3>1, <3>2
  <2>6. item.presented => \A j \in DOMAIN longer : longer[j].picture \in P
    BY <1>3, <2>2, <2>3, <2>4
  <2> QED BY <1>5, <2>4, <2>5, <2>6 DEF Faithful
<1>13. FramesInv(t, session.away)
  BY <1>1, <1>5, <1>7, <1>8, <1>9, <1>10, <1>11, <1>12 DEF FramesInv
<1>14. HardwareInv(t, session.away)
  BY <1>1, <1>5, <1>7, <1>8, <1>9, <1>11 DEF HardwareInv
<1>15. CandidateInv(t) /\ FirstInv(t)
  BY <1>1, <1>5, <1>7, <1>8, <1>11 DEF CandidateInv, FirstInv
<1>16. Witnessed(t, session.away) BY <1>13, <1>14, <1>15 DEF Witnessed, Submitted
<1> QED BY <1>1, <1>7, <1>16, SeenLeave DEF t

\* Frames are presented in the order of their commits.
LEMMA PresentSeen ==
  ASSUME IInv, SeenInv, NEW o \in Outputs, NEW success \in BOOLEAN, Present(o, success)
  PROVE  SeenInv' /\ OfferStep /\ RestoreStep
<1> DEFINE flight == outputs[o].flight
           rest == Tail(flight)
           frame == Head(flight)
           shown == IF success THEN frame.picture ELSE outputs[o].shown
           out == [outputs[o] EXCEPT !.flight = rest, !.shown = shown]
           item == lease.items[o]
           seen == IF frame.fresh THEN Observe(item, success) ELSE item
           l == [lease EXCEPT !.items[o] = Observe(@, success)]
           s == Here
           t == Here'
           P == Expected(s, o, session.away)
<1>1. /\ outputs \in [Outputs -> OutputType] /\ outputs[o] \in OutputType
      /\ lease \in LeaseType /\ lease.items \in [Outputs -> ItemType] /\ item \in ItemType
      /\ s.outputs = outputs /\ s.lease = lease /\ Witnessed(s, session.away)
      /\ UNCHANGED session
  BY HereFields, LeaseFields DEF SeenInv, Present
<1>2. /\ Len(flight) \in Nat \ {0} /\ DOMAIN flight = 1 .. Len(flight) /\ frame = flight[1]
      /\ DOMAIN rest = 1 .. Len(flight) - 1
      /\ \A i \in DOMAIN rest : rest[i] = flight[i + 1]
  <2>1. flight \in Seq(FrameType) /\ Len(flight) \in Nat /\ DOMAIN flight = 1 .. Len(flight)
        /\ flight # <<>>
    BY <1>1, OutputFields, FlightElements DEF Present
  <2> HIDE DEF flight
  <2> QED BY <2>1
<1>3. /\ out.connected = outputs[o].connected /\ out.scheduled = outputs[o].scheduled
      /\ out.sent = outputs[o].sent /\ out.hw = outputs[o].hw /\ out.sync = outputs[o].sync
      /\ out.shown = shown /\ out.flight = rest
  <2> HIDE DEF shown, rest
  <2> QED BY <1>1 DEF OutputType
<1>4. /\ lease'.state = lease.state /\ lease'.after = lease.after
      /\ \A p \in Outputs : lease'.items[p] = IF p = o THEN seen ELSE lease.items[p]
  <2>1. lease' = IF frame.fresh THEN l ELSE lease BY DEF Present
  <2>2. /\ l.state = lease.state /\ l.after = lease.after
        /\ l.items = [lease.items EXCEPT ![o] = Observe(item, success)]
    BY <1>1 DEF LeaseType
  <2> HIDE DEF l, frame
  <2>3. \A p \in Outputs : l.items[p] = IF p = o THEN Observe(item, success) ELSE lease.items[p]
    BY <1>1, <2>2
  <2> QED BY <2>1, <2>2, <2>3
<1>5. outputs' = [outputs EXCEPT ![o] = out] BY <1>1 DEF Present
<1>6. t.outputs = outputs' /\ t.lease = lease' BY DEF Here
<1>7. /\ seen.target = item.target /\ seen.submitted = item.submitted
      /\ Counting(seen) <=> Counting(item)
      /\ seen.presented => item.presented \/ (success /\ frame.fresh /\ item.submitted)
  <2> HIDE DEF frame, item
  <2> QED BY <1>1 DEF Observe, ItemType, Counting
<1>u. success => shown = frame.picture OBVIOUS
<1>v. ~success => shown = outputs[o].shown OBVIOUS
<1> HIDE DEF out, rest, frame, flight, shown, seen, l, s, t
<1>8. \A p \in Outputs : t.outputs[p] = IF p = o THEN out ELSE s.outputs[p]
  BY <1>1, <1>5, <1>6
<1>9. \A p \in Outputs : /\ t.lease.items[p].target = s.lease.items[p].target
                         /\ t.lease.items[p].submitted = s.lease.items[p].submitted
                         /\ Counting(t.lease.items[p]) <=> Counting(s.lease.items[p])
                         /\ p # o => t.lease.items[p] = s.lease.items[p]
  BY <1>1, <1>4, <1>6, <1>7
<1>10. Connected(t) = Connected(s) /\ Connected(s) \subseteq Outputs
  BY <1>1, <1>3, <1>8 DEF Connected
<1>11. \A p \in Outputs : Expected(t, p, session.away) = Expected(s, p, session.away)
  BY <1>1, <1>3, <1>4, <1>6, <1>8, <1>9 DEF Expected
<1>12. FramesInv(s, session.away) /\ HardwareInv(s, session.away)
       /\ CandidateInv(s) /\ FirstInv(s)
  BY <1>1 DEF Witnessed, Submitted
<1>13. ASSUME Faithful(outputs[o], item, P) PROVE Faithful(out, seen, P)
  <2>1. /\ \A i, j \in DOMAIN flight : i <= j /\ flight[i].fresh => flight[j].picture \in P
        /\ item.presented =>
             outputs[o].shown \in P /\ \A j \in DOMAIN flight : flight[j].picture \in P
    BY <1>13 DEF Faithful, flight
  <2> HIDE DEF P, item
  <2>2. \A i \in DOMAIN rest : i + 1 \in DOMAIN flight /\ rest[i] = flight[i + 1] BY <1>2
  <2>3. ASSUME NEW i \in DOMAIN rest, NEW j \in DOMAIN rest, i <= j, rest[i].fresh
        PROVE  rest[j].picture \in P
    <3>1. i + 1 <= j + 1 BY <1>2, <2>3
    <3> QED BY <2>1, <2>2, <2>3, <3>1
  <2>4. 1 \in DOMAIN flight /\ \A j \in DOMAIN flight : 1 <= j BY <1>2
  <2>5. ASSUME seen.presented
        PROVE  shown \in P /\ \A j \in DOMAIN rest : rest[j].picture \in P
    <3>1. \A j \in DOMAIN flight : flight[j].picture \in P
      BY <1>2, <1>7, <2>1, <2>4, <2>5
    <3>2. success => shown \in P BY <1>2, <1>u, <2>4, <3>1
    <3>3. ~success => shown \in P BY <1>7, <1>v, <2>1, <2>5
    <3> QED BY <2>2, <3>1, <3>2, <3>3
  <2> QED BY <1>3, <2>3, <2>5 DEF Faithful
<1>14. FramesInv(t, session.away)
  <2> SUFFICES ASSUME lease.state \in Watched, NEW p \in Connected(s), Counting(s.lease.items[p])
               PROVE  /\ Lit(t.outputs[p].sent) = Lit(t.outputs[p].scheduled)
                      /\ Faithful(t.outputs[p], t.lease.items[p], Expected(t, p, session.away))
    BY <1>4, <1>6, <1>9, <1>10 DEF FramesInv
  <2>1. /\ Lit(s.outputs[p].sent) = Lit(s.outputs[p].scheduled)
        /\ Faithful(s.outputs[p], s.lease.items[p], Expected(s, p, session.away))
    BY <1>1, <1>12 DEF FramesInv
  <2>2. CASE p = o
    BY <1>1, <1>3, <1>4, <1>6, <1>8, <1>11, <1>13, <2>1, <2>2
  <2>3. CASE p # o
    BY <1>8, <1>9, <1>10, <1>11, <2>1, <2>3
  <2> QED BY <2>2, <2>3
<1>15. HardwareInv(t, session.away)
  BY <1>1, <1>3, <1>4, <1>6, <1>8, <1>9, <1>10, <1>12 DEF HardwareInv
<1>16. CandidateInv(t)
  <2>1. \A p \in Outputs : /\ t.outputs[p].connected = s.outputs[p].connected
                           /\ t.outputs[p].scheduled = s.outputs[p].scheduled
                           /\ t.outputs[p].sent = s.outputs[p].sent
    BY <1>1, <1>3, <1>8
  <2>2. s.lease.state \in Trying =>
          \A p \in Outputs : t.lease.items[p].presented => t.lease.items[p].submitted
    <3>1. s.lease.state \in Trying =>
            \A p \in Outputs : s.lease.items[p].presented => s.lease.items[p].submitted
      BY <1>12 DEF CandidateInv
    <3> QED BY <1>9, <3>1 DEF Counting
  <2> QED BY <1>1, <1>4, <1>6, <1>9, <1>12, <2>1, <2>2 DEF CandidateInv
<1>17. FirstInv(t)
  BY <1>1, <1>3, <1>4, <1>6, <1>8, <1>9, <1>12 DEF FirstInv
<1>18. Witnessed(t, session.away) BY <1>14, <1>15, <1>16, <1>17 DEF Witnessed, Submitted
<1> QED BY <1>1, <1>4, <1>6, <1>18, SeenLeave DEF t

-----------------------------------------------------------------------------
(***************************************************************************)
(* The theorems.                                                           *)
(***************************************************************************)
LEMMA SeenStep ==
  IInv /\ SeenInv /\ [Next]_vars =>
    SeenInv' /\ ((OfferStep /\ RestoreStep) \/ UNCHANGED vars)
<1> SUFFICES ASSUME IInv, SeenInv, [Next]_vars
             PROVE  SeenInv' /\ ((OfferStep /\ RestoreStep) \/ UNCHANGED vars)
  OBVIOUS
<1>1. CASE \E plan \in Plans : Begin(plan) BY <1>1, BeginSeen
<1>2. CASE ManageStart BY <1>2, ManageStartSeen
<1>3. CASE \E early \in BOOLEAN, test \in Tests : CommitOutputState(early, test)
  BY <1>3, CommitSeen
<1>4. CASE \E partly \in SUBSET Outputs, test \in Tests : ModesetFailed(partly, test)
  BY <1>4, ModesetFailedSeen
<1>5. CASE \E o \in Outputs : Frame(o) \/ (\E success \in BOOLEAN : Present(o, success))
  BY <1>5, FrameSeen, PresentSeen
<1>6. CASE \E test \in Tests : RequestRevert(test) \/ OwnerGone(test) \/ PlugIn(test)
  BY <1>6, RequestSeen
<1>7. CASE HelperStep \/ HelperCrashes \/ OtherRecovers
  BY <1>7, QuietSeen, AuthorizesSeen, FinalizesSeen DEF HelperStep
<1>8. CASE Elapse \/ Timer
  BY <1>8, QuietSeen, TickSeen, ReconcilesSeen, AuthorizesSeen DEF Timer
<1>9. CASE \E o \in Outputs, test \in Tests :
             Unplug(o, test) \/ (\E on \in BOOLEAN : SetPower(o, on, test))
  BY <1>9, UnplugSeen, SetPowerSeen
<1>10. CASE \E o \in Outputs : Fullscreen(o) BY <1>10, FullscreenSeen
<1>11. CASE SwitchSession \/ LockSession BY <1>11, SessionSeen
<1>12. CASE UNCHANGED vars
  <2>1. Here' = Here /\ session' = session BY <1>12 DEF vars, Here
  <2>2. Witnessed(Here', session'.away) BY <2>1 DEF SeenInv
  <2>3. AwayInv' BY <2>1 DEF SeenInv, AwayInv
  <2> QED BY <1>12, <2>2, <2>3 DEF SeenInv
<1> QED
  BY <1>1, <1>2, <1>3, <1>4, <1>5, <1>6, <1>7, <1>8, <1>9, <1>10, <1>11, <1>12 DEF Next

\* Which frames of the stream may be counted for an item, and what they are
\* pictures of, is as the invariant says wherever presentations are counted
\* (Output.handlePresent) and items looked at (DisplayPreview.applied).
THEOREM FramesWitnessed == Spec => []SeenInv
BY InitSeen, SeenStep, Invariance, PTL DEF Spec

\* "Keep this configuration?" is asked only of a candidate that every screen
\* has shown, with the adaptive sync the hardware has: no frame that was
\* committed before the candidate is taken for one of it (submitting, applied).
THEOREM OfferedIsSeen == Spec => KeepOffersWhatIsSeen
<1>1. IInv /\ SeenInv /\ [Next]_vars =>
        [ lease.state # "previewing" /\ lease'.state = "previewing" =>
            \A o \in Outputs : /\ outputs'[o].connected
                               /\ outputs'[o].hw = lease.after[o]
                               /\ Shows(o, lease.after[o])'
                               /\ ShowsSync(o)' ]_vars
  <2>1. OfferStep =>
          (lease.state # "previewing" /\ lease'.state = "previewing" =>
             \A o \in Outputs : /\ outputs'[o].connected
                                /\ outputs'[o].hw = lease.after[o]
                                /\ Shows(o, lease.after[o])'
                                /\ ShowsSync(o)')
    BY DEF OfferStep, Offers, Shows, ShowsSync, Here
  <2> QED BY <2>1, SeenStep
<1> QED BY <1>1, Invariance, FramesWitnessed, PTL DEF Spec, KeepOffersWhatIsSeen

\* A preview is reported as reverted only when every screen is there, back in
\* its old state, and has shown a frame of it (DisplayPreview.applied).
THEOREM RevertedIsRestored == Spec => RevertedMeansRestored
<1>1. IInv /\ SeenInv /\ [Next]_vars =>
        [ lease.state # "reverted" /\ lease'.state = "reverted" =>
            \A o \in Outputs : /\ outputs'[o].connected
                               /\ outputs'[o].hw = lease.before[o]
                               /\ outputs'[o].scheduled = lease.before[o]
                               /\ Shows(o, lease.before[o])' ]_vars
  <2>1. RestoreStep =>
          (lease.state # "reverted" /\ lease'.state = "reverted" =>
             \A o \in Outputs : /\ outputs'[o].connected
                                /\ outputs'[o].hw = lease.before[o]
                                /\ outputs'[o].scheduled = lease.before[o]
                                /\ Shows(o, lease.before[o])')
    BY DEF RestoreStep, Restores, Shows, Here
  <2> QED BY <2>1, SeenStep
<1> QED BY <1>1, Invariance, FramesWitnessed, PTL DEF Spec, RevertedMeansRestored
=============================================================================
