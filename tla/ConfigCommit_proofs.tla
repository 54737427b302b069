------------------------ MODULE ConfigCommit_proofs ------------------------
(***************************************************************************)
(* Proofs about ConfigCommit for any processes, files, operations and      *)
(* troubles; nothing is assumed but the ASSUMEs of that module.            *)
(*                                                                         *)
(* The argument: at every step of the lock holder the journal says enough  *)
(* to tell, for each of its files, what was there before and what is to    *)
(* be there (StepInv, CommitInv, ProgressInv); so whoever comes next can   *)
(* roll back or forward (JournalInv, ContentInv), and what was written     *)
(* into the receipts stays true (SavedInv, FailedInv, which needs that     *)
(* nobody carries out an operation whose failure somebody knows: Over).    *)
(* Failed ends most steps, so what it does is proved once (OutcomeKeeps).  *)
(***************************************************************************)
EXTENDS ConfigCommit, TLAPS

-----------------------------------------------------------------------------
(***************************************************************************)
(* The inductive invariant: Global holds of the files, the records and the *)
(* processes whoever has the lock, Local of its holder.                    *)
(***************************************************************************)
Saving == {"saved", "unchanged"}
Pending == journal.phase # "none"
Seen == intent \cup expired

\* A process that has been admitted works for an id that has been seen.
StageInv ==
  \A p \in Procs :
    /\ stage[p] # "idle" => op[p] \in Ops \cap Seen
    /\ answer[p] # "none" <=> stage[p] \in {"reloading", "executed"}

\* A journal agrees with what was carried out, decided and written, and each
\* of its files is as it was, as it will be, or edited.
JournalInv ==
  /\ ~Pending => journal = NoJournal
  /\ Pending =>
       /\ journal.op \in Ops /\ runs[journal.op] # 0
       /\ decision[journal.op] \in {"none", Decision}
       /\ \A f \in Dirty[journal.op] : Known(f) \/ disk[f] \in Foreign
  /\ journal.phase = "committed" => journal.op \in committed
  /\ journal.phase = "prepared" => journal.op \notin committed

\* A content of an operation that is not committed is in a file of the
\* prepared journal, and nobody took it for the content before.
ContentInv ==
  /\ \A f \in Files : disk[f] \in Ops =>
       \/ disk[f] \in committed
       \/ journal.phase = "prepared" /\ disk[f] = journal.op /\ f \in Dirty[journal.op]
  /\ \A f \in Files : journal.before[f] \in Ops => journal.before[f] \in committed

\* Every id is admitted once, and one process at a time works for it.
Running(p) == holder = p /\ run.task \in {"commit", "abort"}
OnceInv ==
  /\ \A p, q \in Procs :
       stage[p] # "idle" /\ stage[q] # "idle" /\ op[p] = op[q] => p = q
  /\ \A o \in Ops \ Seen : runs[o] = 0 /\ reloads[o] = 0
  /\ \A p \in Procs :
       /\ stage[p] = "admitted" /\ ~Running(p) => runs[op[p]] = 0
       /\ stage[p] \in {"admitted", "reloading"} => reloads[op[p]] = 0
  /\ \A o \in Ops : runs[o] <= 1 /\ reloads[o] <= 1

\* What is known of an operation only once it was carried out.
RunInv == \A o \in Ops : runs[o] = 0 => o \notin committed /\ decision[o] = "none"

\* Who says that an operation was saved is right.
SavedInv ==
  /\ \A o \in Ops :
       decision[o] \in Saving \/ result[o] \in Saving \/ told[o] \cap Saving # {} => o \in committed
  /\ \A p \in Procs : answer[p] \in Saving => op[p] \in committed

\* Nobody carries out o any more.
Over(o) ==
  /\ o \in Seen
  /\ o \notin committed
  /\ \A p \in Procs : stage[p] = "admitted" /\ op[p] = o => holder = p /\ run.task = "abort"

\* Who says that it failed is right, and will be.
FailedInv ==
  \A o \in Ops :
    /\ Dirty[o] # {}
    /\ \/ decision[o] = "failed" \/ result[o] = "failed" \/ "failed" \in told[o]
       \/ \E p \in Procs : op[p] = o /\ answer[p] = "failed"
    => Over(o)

Global ==
  StageInv /\ JournalInv /\ ContentInv /\ OnceInv /\ RunInv /\ SavedInv /\ FailedInv

\* The lock holder is a process in the middle of what it was started for.
HolderInv ==
  /\ run.task \in {"begin", "status", "load"} => stage[holder] = "idle"
  /\ run.task \in {"apply", "commit", "abort"} => stage[holder] = "admitted"
  /\ run.task # "load" => op[holder] \in Ops

\* What the journal is at each step, in any task.
StepInv ==
  /\ run.step \in {"settled", "commit", "prepare"} => ~Pending
  /\ run.step \in {"file", "write", "decide", "unlink"} => Pending
  /\ run.step \in {"commit", "prepare"} => run.task = "commit"
  /\ run.step = "unlink" => decision[journal.op] = Decision
  /\ run.task \in {"commit", "abort"} /\ Pending => journal.op = op[holder]
  /\ run.saved => run.task \in {"commit", "abort"} /\ op[holder] \in committed

\* What it is inside of commit().
CommitInv ==
  run.task = "commit" =>
    /\ run.step # "recover"
    /\ runs[op[holder]] # 0
    /\ run.step \in {"file", "write"} => journal.phase = "prepared"
    /\ run.step \in {"decide", "unlink"} => journal.phase = "committed"
    /\ run.step \in {"decide", "unlink", "settled"} => run.saved
    /\ run.step \in {"commit", "prepare", "file", "write"} =>
         decision[op[holder]] = "none" /\ op[holder] \notin committed
    /\ \A f \in Files : run.before[f] \in Ops => run.before[f] \in committed
    /\ run.step = "prepare" =>
         \A f \in Dirty[op[holder]] : disk[f] = run.before[f] \/ disk[f] \in Foreign

\* The entries that are still to be dealt with, and the file in hand.
TodoInv ==
  /\ run.todo # {} => run.step \in {"file", "write"} /\ run.todo \subseteq Dirty[journal.op]
  /\ run.step = "write" => run.cur \in run.todo
  /\ run.step # "write" => run.cur = NoFile /\ ~raced
  /\ raced => disk[run.cur] \in Foreign
  /\ run.step = "write" /\ ~raced => Known(run.cur)

\* A file that has been dealt with is as it should be, or edited.
Target(f) == IF run.task = "commit" THEN journal.op ELSE Wanted(f)
ProgressInv ==
  run.step \in {"file", "write", "decide", "unlink"} =>
    \A f \in Dirty[journal.op] \ run.todo : disk[f] = Target(f) \/ disk[f] \in Foreign

Local ==
  /\ holder = NoProc => run = Idle /\ ~raced
  /\ holder # NoProc => HolderInv /\ StepInv /\ CommitInv /\ TodoInv /\ ProgressInv

IInv == TypeOK /\ Global /\ Local

-----------------------------------------------------------------------------
(***************************************************************************)
(* Steps of the lock holder.                                               *)
(***************************************************************************)
LEMMA HolderIsSomebody == \A p \in Procs : p # NoProc
BY NullAssumption

\* A step of the holder that changes only its own variables.
LEMMA RunStepKeepsGlobal ==
  ASSUME Global, run'.task = run.task,
         UNCHANGED <<durable, stage, op, answer, holder, expired, history>>
  PROVE  Global'
<1>1. StageInv' /\ RunInv' /\ SavedInv' /\ ContentInv'
  BY DEF Global, StageInv, RunInv, SavedInv, ContentInv, Seen, Saving, durable, history
<1>2. JournalInv'
  BY DEF Global, JournalInv, Pending, Known, Decision, durable, history
<1>3. OnceInv'
  BY DEF Global, OnceInv, Running, Seen, durable, history
<1>4. FailedInv'
  BY DEF Global, FailedInv, Over, Seen, durable, history
<1> QED
  BY <1>1, <1>2, <1>3, <1>4 DEF Global

\* Whoever gives the lock back leaves nothing behind but files.
LEMMA FreedLocal ==
  ASSUME holder' = NoProc, run' = Idle, ~raced'
  PROVE  Local'
BY DEF Local

\* How the execution of p ends: with a word, and the lock given back.
Ended(p, word, next) ==
  /\ word \in Words /\ next \in {"executed", "reloading"}
  /\ word \in Saving => run.saved
  /\ word = "failed" /\ run.task # "apply" => Dirty[op[p]] = {}
  /\ answer' = [answer EXCEPT ![p] = word]
  /\ stage' = [stage EXCEPT ![p] = next]
  /\ op' = op

\* commit() fails: the same process recovers.
ToRecovery ==
  /\ run.task = "commit"
  /\ run' = [run EXCEPT !.task = "abort", !.step = "recover", !.todo = {}, !.cur = NoFile]
  /\ raced' = FALSE /\ UNCHANGED <<holder, stage, op, answer>>

\* Anything else fails: the lock is given back.
GivesUp(p) ==
  /\ holder' = NoProc /\ run' = Idle /\ raced' = FALSE
  /\ \/ /\ run.task \in {"commit", "abort", "apply"}
        /\ \E word \in Words, next \in {"executed", "reloading"} : Ended(p, word, next)
     \/ /\ run.task \in {"begin", "status", "load"}
        /\ stage' = [stage EXCEPT ![p] = "idle"]
        /\ op' = [op EXCEPT ![p] = NoOp]
        /\ answer' = answer

LEMMA EndApplyEnds ==
  ASSUME NEW p \in Procs, holder = p, EndApply(p, run.saved)
  PROVE  /\ holder' = NoProc /\ run' = Idle /\ raced' = FALSE
         /\ \E word \in Words, next \in {"executed", "reloading"} :
              /\ word \in Saving => run.saved
              /\ word = "failed" => Dirty[op[p]] = {}
              /\ answer' = [answer EXCEPT ![p] = word]
              /\ stage' = [stage EXCEPT ![p] = next]
<1>1. CASE run.saved
  <2> DEFINE word == SavedWord(op[p])
             next == IF op[p] \in Previews THEN "executed" ELSE "reloading"
  <2>1. word \in Words /\ word # "failed" /\ next \in {"executed", "reloading"}
    BY DEF SavedWord, Words
  <2>2. Conclude(p, word, next)
    BY <1>1 DEF EndApply
  <2> QED
    BY <1>1, <2>1, <2>2 DEF Conclude, Release
<1>2. CASE ~run.saved
  <2> DEFINE word == IF Dirty[op[p]] = {} THEN "failed" ELSE "uncertain"
  <2>1. word \in Words /\ word \notin Saving /\ (word = "failed" => Dirty[op[p]] = {})
    BY DEF Words, Saving
  <2>2. Conclude(p, word, "executed")
    BY <1>2 DEF EndApply
  <2> QED
    BY <2>1, <2>2 DEF Conclude, Release
<1> QED
  BY <1>1, <1>2

LEMMA FailedOutcome ==
  ASSUME TypeOK, NEW p \in Procs, holder = p, Failed(p)
  PROVE  ToRecovery \/ GivesUp(p)
<1>1. CASE run.task = "commit"
  BY <1>1 DEF Failed, ToRecovery
<1>2. CASE run.task = "abort"
  <2>1. EndApply(p, run.saved) /\ op' = op
    BY <1>2 DEF Failed
  <2> QED
    BY <1>2, <2>1, EndApplyEnds DEF GivesUp, Ended
<1>3. CASE run.task = "apply"
  <2>1. Conclude(p, "failed", "executed") /\ op' = op
    BY <1>3 DEF Failed
  <2>2. Ended(p, "failed", "executed")
    BY <1>3, <2>1 DEF Conclude, Release, Ended, Words, Saving
  <2> QED
    BY <1>3, <2>1, <2>2 DEF Conclude, Release, GivesUp, Words
<1>4. CASE run.task \in {"begin", "status", "load"}
  BY <1>4 DEF Failed, Release, GivesUp
<1> QED
  BY <1>1, <1>2, <1>3, <1>4 DEF TypeOK, RunType, Tasks

LEMMA IdleType == Idle \in RunType
BY DEF Idle, RunType, Tasks, Steps, Contents, Foreign

LEMMA OutcomeType ==
  ASSUME TypeOK, NEW p \in Procs, holder = p, ToRecovery \/ GivesUp(p)
  PROVE  /\ run' \in RunType /\ raced' \in BOOLEAN /\ holder' \in Procs \cup {NoProc}
         /\ stage' \in [Procs -> {"idle", "admitted", "reloading", "executed"}]
         /\ op' \in [Procs -> Ops \cup {NoOp}]
         /\ answer' \in [Procs -> Words \cup {"none"}]
<1>1. run' \in RunType
  <2>1. CASE ToRecovery
    BY <2>1 DEF ToRecovery, TypeOK, RunType, Tasks, Steps
  <2>2. CASE GivesUp(p)
    BY <2>2, IdleType DEF GivesUp
  <2> QED
    BY <2>1, <2>2
<1>2. raced' \in BOOLEAN
  BY DEF ToRecovery, GivesUp
<1>3. /\ holder' \in Procs \cup {NoProc}
      /\ stage' \in [Procs -> {"idle", "admitted", "reloading", "executed"}]
      /\ op' \in [Procs -> Ops \cup {NoOp}]
      /\ answer' \in [Procs -> Words \cup {"none"}]
  BY DEF TypeOK, ToRecovery, GivesUp, Ended
<1> QED
  BY <1>1, <1>2, <1>3

\* The records after a write that may have failed.
Recorded(p) ==
  /\ Seen \subseteq Seen'
  /\ UNCHANGED <<runs, reloads, told>>
  /\ committed' \in {committed, committed \cup {op[p]}}
  /\ run.task # "commit" => committed' = committed
  /\ run.task = "commit" => (Pending' => journal'.op = op[p])
  /\ \A o \in Ops : decision'[o] \in Saving \/ result'[o] \in Saving => o \in committed'
  /\ \A o \in Ops :
       Dirty[o] # {} /\ (decision'[o] = "failed" \/ result'[o] = "failed") => Over(o)

\* What is over stays over when the holder fails: it does not become the one
\* that carries it out.
LEMMA OutcomeKeepsOver ==
  ASSUME IInv, NEW p \in Procs, holder = p, ToRecovery \/ GivesUp(p), Recorded(p),
         NEW o \in Ops, Over(o)
  PROVE  Over(o)'
<1>1. o \in Seen' /\ o \in Seen /\ o \notin committed
  BY DEF Recorded, Over
<1>2. run.task = "commit" => op[p] # o
  <2>1. run.task = "commit" => stage[p] = "admitted"
    BY HolderIsSomebody DEF IInv, Local, HolderInv
  <2> QED
    BY <2>1 DEF Over
<1>3. o \notin committed'
  BY <1>1, <1>2 DEF Recorded
<1>4. ASSUME NEW q \in Procs, stage'[q] = "admitted", op'[q] = o
      PROVE  holder' = q /\ run'.task = "abort"
  <2>1. CASE ToRecovery
    BY <1>2, <1>4, <2>1 DEF ToRecovery, Over
  <2>2. CASE GivesUp(p)
    <3>1. q # p /\ stage[q] = "admitted" /\ op[q] = o
      BY <1>4, <2>2 DEF GivesUp, Ended, IInv, TypeOK, RunType
    <3> QED
      BY <3>1 DEF Over
  <2> QED
    BY <2>1, <2>2
<1> QED
  BY <1>1, <1>3, <1>4 DEF Over

LEMMA OutcomeKeeps ==
  ASSUME IInv, TypeOK', NEW p \in Procs, holder = p, ToRecovery \/ GivesUp(p), Recorded(p),
         JournalInv', ContentInv', RunInv'
  PROVE  IInv'
<1>1. p # NoProc /\ (ToRecovery \/ GivesUp(p))
  BY HolderIsSomebody
<1>2. HolderInv /\ StepInv
  BY <1>1 DEF IInv, Local
<1>3. StageInv'
  <2>1. CASE ToRecovery
    BY <2>1 DEF IInv, Global, StageInv, ToRecovery, Recorded
  <2>2. CASE GivesUp(p)
    <3>1. stage[p] \in {"idle", "admitted"}
      BY <1>2 DEF IInv, HolderInv, TypeOK, RunType, Tasks
    <3> QED
      BY <1>2, <2>2, <3>1 DEF IInv, Global, StageInv, HolderInv, GivesUp, Ended, Recorded, TypeOK, RunType, Words
  <2> QED
    BY <1>1, <2>1, <2>2
<1>4. OnceInv'
  <2>1. CASE ToRecovery
    BY <2>1 DEF IInv, Global, OnceInv, Running, ToRecovery, Recorded, TypeOK, RunType
  <2>2. CASE GivesUp(p)
    BY SMTT(30), <1>2, <2>2 DEF IInv, Global, OnceInv, Running, HolderInv, GivesUp, Ended, Recorded, TypeOK, RunType
  <2> QED
    BY <1>1, <2>1, <2>2
<1>5. SavedInv'
  <2>1. ASSUME NEW q \in Procs, answer'[q] \in Saving
        PROVE  op'[q] \in committed'
    <3>1. CASE answer'[q] = answer[q] /\ op'[q] = op[q]
      BY <2>1, <3>1 DEF IInv, Global, SavedInv, Recorded
    <3>2. CASE q = p /\ run.saved /\ op' = op
      BY <1>2, <3>2 DEF StepInv, Recorded
    <3>3. CASE ToRecovery
      BY <3>1, <3>3 DEF ToRecovery
    <3>4. CASE GivesUp(p)
      <4>1. q # p => answer'[q] = answer[q] /\ op'[q] = op[q]
        BY <3>4 DEF GivesUp, Ended, IInv, TypeOK, RunType
      <4>2. CASE \E word \in Words, next \in {"executed", "reloading"} : Ended(p, word, next)
        BY <2>1, <3>1, <3>2, <4>1, <4>2 DEF Ended, IInv, TypeOK, RunType
      <4>3. CASE stage[p] = "idle" /\ answer' = answer
        BY <2>1, <3>1, <4>1, <4>3 DEF IInv, Global, StageInv, Saving
      <4> QED
        BY <1>2, <3>4, <4>2, <4>3 DEF GivesUp, HolderInv
    <3> QED
      BY <1>1, <3>3, <3>4
  <2>2. \A o \in Ops :
          decision'[o] \in Saving \/ result'[o] \in Saving \/ told'[o] \cap Saving # {} => o \in committed'
    BY DEF Recorded, IInv, Global, SavedInv
  <2> QED
    BY <2>1, <2>2 DEF SavedInv, Saving
<1>6. FailedInv'
  <2>1. ASSUME NEW o \in Ops, Over(o)
        PROVE  Over(o)'
    BY <1>1, <2>1, OutcomeKeepsOver
  <2>2. ASSUME NEW o \in Ops, Dirty[o] # {},
               decision'[o] = "failed" \/ result'[o] = "failed" \/ "failed" \in told'[o]
        PROVE  Over(o)
    BY <2>2 DEF Recorded, IInv, Global, FailedInv
  <2>3. ASSUME NEW o \in Ops, Dirty[o] # {}, NEW q \in Procs, op'[q] = o, answer'[q] = "failed"
        PROVE  Over(o)'
    <3>1. CASE answer[q] = "failed" /\ op[q] = o
      BY <2>1, <2>3, <3>1 DEF IInv, Global, FailedInv
    <3>2. CASE /\ q = p /\ run.task = "apply" /\ op' = op /\ holder' = NoProc
               /\ \E next \in {"executed", "reloading"} : stage' = [stage EXCEPT ![p] = next]
      <4>1. o \in Seen /\ stage[p] = "admitted" /\ runs[o] = 0 /\ o \notin committed
        BY <1>1, <1>2, <2>3, <3>2 DEF HolderInv, IInv, Global, StageInv, OnceInv, RunInv, Running
      <4>2. o \in Seen' /\ o \notin committed'
        BY <3>2, <4>1 DEF Recorded
      <4>3. \A r \in Procs : stage'[r] = "admitted" => op[r] # o
        BY SMTT(30), <2>3, <3>2, <4>1 DEF IInv, Global, OnceInv, TypeOK, RunType
      <4> QED
        BY <3>2, <4>2, <4>3 DEF Over
    <3>3. CASE ToRecovery
      BY <2>3, <3>1, <3>3 DEF ToRecovery
    <3>4. CASE GivesUp(p)
      <4>1. stage[p] \in {"idle", "admitted"} /\ answer[p] = "none"
        BY <1>2 DEF HolderInv, IInv, Global, StageInv, TypeOK, RunType, Tasks
      <4>2. CASE q # p
        BY <2>3, <3>1, <3>4, <4>2 DEF GivesUp, Ended, IInv, TypeOK, RunType
      <4>3. CASE q = p
        <5>1. PICK word \in Words, next \in {"executed", "reloading"} : Ended(p, word, next)
          BY <2>3, <3>4, <4>1, <4>3 DEF GivesUp
        <5>2. word = "failed"
          BY <2>3, <4>3, <5>1 DEF Ended, IInv, TypeOK, RunType
        <5>3. run.task = "apply" /\ holder' = NoProc
          BY <2>3, <3>4, <4>1, <4>3, <5>1, <5>2 DEF Ended, GivesUp
        <5> QED
          BY <3>2, <4>3, <5>1, <5>3 DEF Ended
      <4> QED
        BY <4>2, <4>3
    <3> QED
      BY <1>1, <3>3, <3>4
  <2> QED
    BY <2>1, <2>2, <2>3 DEF FailedInv
<1>7. Local'
  <2>1. CASE ToRecovery
    <3>1. /\ run'.task = "abort" /\ run'.step = "recover" /\ run'.todo = {} /\ run'.cur = NoFile
          /\ run'.saved = run.saved
      BY <2>1 DEF ToRecovery, IInv, TypeOK, RunType
    <3>2. holder' = p /\ stage[p] = "admitted" /\ op[p] \in Ops
      BY <1>1, <1>2, <2>1 DEF ToRecovery, HolderInv
    <3>3. HolderInv'
      BY <2>1, <3>1, <3>2 DEF HolderInv, ToRecovery
    <3>4. StepInv'
      BY <1>2, <2>1, <3>1, <3>2 DEF StepInv, ToRecovery, Recorded
    <3>5. CommitInv' /\ TodoInv' /\ ProgressInv'
      BY <2>1, <3>1 DEF CommitInv, TodoInv, ProgressInv, ToRecovery
    <3> QED
      BY <1>1, <3>2, <3>3, <3>4, <3>5 DEF Local
  <2>2. CASE GivesUp(p)
    BY <2>2, FreedLocal DEF GivesUp
  <2> QED
    BY <1>1, <2>1, <2>2
<1> QED
  BY <1>3, <1>4, <1>5, <1>6, <1>7 DEF IInv, Global

\* The holder ends, or goes over to a recovery, and writes nothing.
LEMMA OutcomeIdle ==
  ASSUME IInv, NEW p \in Procs, holder = p, ToRecovery \/ GivesUp(p),
         UNCHANGED <<durable, expired, troubles, history>>
  PROVE  IInv'
<1>1. TypeOK'
  BY OutcomeType DEF IInv, TypeOK, durable, history
<1>2. JournalInv' /\ ContentInv' /\ RunInv'
  BY DEF IInv, Global, JournalInv, ContentInv, RunInv, Pending, Known, Decision, durable, history
<1>3. Recorded(p)
  <2>1. run.task = "commit" /\ Pending => journal.op = op[p]
    BY HolderIsSomebody DEF IInv, Local, StepInv
  <2> QED
    BY <2>1 DEF Recorded, IInv, Global, SavedInv, FailedInv, Pending, Seen, durable, history
<1> QED
  BY <1>1, <1>2, <1>3, OutcomeKeeps

LEMMA FailedIdly ==
  ASSUME IInv, NEW p \in Procs, holder = p, Failed(p),
         UNCHANGED <<durable, expired, troubles, history>>
  PROVE  IInv'
BY FailedOutcome, OutcomeIdle DEF IInv

-----------------------------------------------------------------------------
(***************************************************************************)
(* recover().                                                              *)
(***************************************************************************)
LEMMA RecoverNothingKeeps ==
  ASSUME IInv, NEW p \in Procs, RecoverNothing(p)
  PROVE  IInv'
<1>1. /\ run'.task = run.task /\ run'.step = "settled" /\ run'.todo = run.todo
      /\ run'.cur = run.cur /\ run'.before = run.before /\ run'.saved = run.saved
  BY DEF RecoverNothing, Goto, IInv, TypeOK, RunType
<1>2. TypeOK'
  BY DEF RecoverNothing, Goto, IInv, TypeOK, RunType, Steps, durable, history
<1>3. Global'
  BY <1>1, RunStepKeepsGlobal DEF RecoverNothing, IInv
<1>4. HolderInv' /\ StepInv' /\ CommitInv' /\ TodoInv' /\ ProgressInv'
  BY <1>1, HolderIsSomebody DEF RecoverNothing, At, IInv, Local, HolderInv, StepInv, CommitInv, TodoInv,
     ProgressInv, Pending, durable, history
<1> QED
  BY <1>2, <1>3, <1>4, HolderIsSomebody DEF RecoverNothing, At, IInv, Local

LEMMA RecoverBeginKeeps ==
  ASSUME IInv, NEW p \in Procs, RecoverBegin(p)
  PROVE  IInv'
<1>1. /\ run'.task = run.task /\ run'.step = "file" /\ run'.todo = Dirty[journal.op]
      /\ run'.cur = run.cur /\ run'.before = run.before /\ run'.saved = run.saved
  BY DEF RecoverBegin, IInv, TypeOK, RunType
<1>2. TypeOK'
  BY DirtyAssumption DEF RecoverBegin, IInv, TypeOK, RunType, Steps, durable, history, Global, JournalInv, Pending
<1>3. Global'
  BY <1>1, RunStepKeepsGlobal DEF RecoverBegin, IInv
<1>4. HolderInv' /\ StepInv' /\ CommitInv' /\ TodoInv' /\ ProgressInv'
  BY <1>1, HolderIsSomebody DEF RecoverBegin, At, IInv, Local, HolderInv, StepInv, CommitInv, TodoInv,
     ProgressInv, Pending, durable, history
<1> QED
  BY <1>2, <1>3, <1>4, HolderIsSomebody DEF RecoverBegin, At, IInv, Local

LEMMA RecoverConflictKeeps ==
  ASSUME IInv, NEW p \in Procs, RecoverConflict(p)
  PROVE  IInv'
BY FailedIdly DEF RecoverConflict, At

LEMMA RecoverFileKeeps ==
  ASSUME IInv, NEW p \in Procs, RecoverFile(p)
  PROVE  IInv'
<1>1. PICK f \in run.todo :
        \/ disk[f] = Wanted(f) /\ run' = [run EXCEPT !.todo = @ \ {f}]
        \/ Known(f) /\ run' = [run EXCEPT !.step = "write", !.cur = f]
  BY DEF RecoverFile
<1>2. f \in Files /\ raced' = FALSE
  BY DEF IInv, TypeOK, RunType, RecoverFile
<1>3. run'.task = run.task
  BY <1>1 DEF IInv, TypeOK, RunType
<1>4. TypeOK'
  <2>1. run' \in RunType
    <3>1. run \in RunType
      BY DEF IInv, TypeOK
    <3>2. CASE run' = [run EXCEPT !.todo = @ \ {f}]
      BY <3>1, <3>2 DEF RunType
    <3>3. CASE run' = [run EXCEPT !.step = "write", !.cur = f]
      BY <1>2, <3>1, <3>3 DEF RunType, Steps
    <3> QED
      BY <1>1, <3>2, <3>3
  <2> QED
    BY <1>2, <2>1 DEF RecoverFile, IInv, TypeOK, RunType, durable, history
<1>5. Global'
  BY <1>3, RunStepKeepsGlobal DEF RecoverFile, IInv
<1>6. HolderInv /\ StepInv /\ CommitInv /\ TodoInv /\ ProgressInv /\ holder = p /\ holder # NoProc
  BY HolderIsSomebody DEF RecoverFile, At, IInv, Local
<1>7. HolderInv' /\ StepInv' /\ CommitInv' /\ TodoInv' /\ ProgressInv'
  <2>1. CASE disk[f] = Wanted(f) /\ run' = [run EXCEPT !.todo = @ \ {f}]
    <3>1. /\ run'.task = run.task /\ run'.step = "file" /\ run'.todo = run.todo \ {f}
          /\ run'.cur = run.cur /\ run'.before = run.before /\ run'.saved = run.saved
      BY <2>1 DEF RecoverFile, At, IInv, TypeOK, RunType
    <3>2. HolderInv' /\ StepInv' /\ CommitInv' /\ TodoInv'
      BY <1>2, <1>6, <3>1 DEF RecoverFile, At, HolderInv, StepInv, CommitInv, TodoInv, Pending, durable, history
    <3>3. ProgressInv'
      BY <1>6, <2>1, <3>1 DEF RecoverFile, At, ProgressInv, Target, Wanted, durable
    <3> QED
      BY <3>2, <3>3
  <2>2. CASE Known(f) /\ run' = [run EXCEPT !.step = "write", !.cur = f]
    <3>1. /\ run'.task = run.task /\ run'.step = "write" /\ run'.todo = run.todo
          /\ run'.cur = f /\ run'.before = run.before /\ run'.saved = run.saved
      BY <2>2 DEF RecoverFile, At, IInv, TypeOK, RunType
    <3>2. HolderInv' /\ StepInv' /\ CommitInv' /\ TodoInv'
      BY <1>2, <1>6, <2>2, <3>1 DEF RecoverFile, At, HolderInv, StepInv, CommitInv, TodoInv, Pending, Known,
         durable, history
    <3>3. ProgressInv'
      BY <1>6, <3>1 DEF RecoverFile, At, ProgressInv, Target, Wanted, durable
    <3> QED
      BY <3>2, <3>3
  <2> QED
    BY <1>1, <2>1, <2>2
<1> QED
  BY <1>4, <1>5, <1>6, <1>7 DEF RecoverFile, IInv, Local

LEMMA RecoveredAllKeeps ==
  ASSUME IInv, NEW p \in Procs, RecoveredAll(p)
  PROVE  IInv'
<1>1. /\ run'.task = run.task /\ run'.step = "decide" /\ run'.todo = run.todo
      /\ run'.cur = run.cur /\ run'.before = run.before /\ run'.saved = run.saved
  BY DEF RecoveredAll, Goto, IInv, TypeOK, RunType
<1>2. TypeOK'
  BY DEF RecoveredAll, Goto, IInv, TypeOK, RunType, Steps, durable, history
<1>3. Global'
  BY <1>1, RunStepKeepsGlobal DEF RecoveredAll, IInv
<1>4. HolderInv' /\ StepInv' /\ CommitInv' /\ TodoInv' /\ ProgressInv'
  BY <1>1, HolderIsSomebody DEF RecoveredAll, At, IInv, Local, HolderInv, StepInv, CommitInv, TodoInv,
     ProgressInv, Target, Wanted, Pending, durable, history
<1> QED
  BY <1>2, <1>3, <1>4, HolderIsSomebody DEF RecoveredAll, At, IInv, Local

-----------------------------------------------------------------------------
(***************************************************************************)
(* commit().                                                               *)
(***************************************************************************)
LEMMA CommitCheckKeeps ==
  ASSUME IInv, NEW p \in Procs, CommitCheck(p)
  PROVE  IInv'
<1>1. holder = p /\ run.step = "commit"
  BY DEF CommitCheck, At
<1>2. CASE Failed(p)
  BY <1>1, <1>2, FailedIdly DEF CommitCheck
<1>3. CASE /\ \A f \in Dirty[op[p]] : disk[f] = run.before[f]
           /\ Goto("prepare")
           /\ UNCHANGED <<stage, op, answer, holder, raced>>
  <2>1. /\ run'.task = run.task /\ run'.step = "prepare" /\ run'.todo = run.todo
        /\ run'.cur = run.cur /\ run'.before = run.before /\ run'.saved = run.saved
    BY <1>3 DEF Goto, IInv, TypeOK, RunType
  <2>2. TypeOK'
    BY <1>3 DEF CommitCheck, Goto, IInv, TypeOK, RunType, Steps, durable, history
  <2>3. Global'
    BY <1>3, <2>1, RunStepKeepsGlobal DEF CommitCheck, IInv
  <2>4. HolderInv' /\ StepInv' /\ CommitInv' /\ TodoInv' /\ ProgressInv'
    BY <1>1, <1>3, <2>1, HolderIsSomebody DEF CommitCheck, IInv, Local, HolderInv, StepInv, CommitInv,
       TodoInv, ProgressInv, Pending, durable, history
  <2> QED
    BY <1>1, <1>3, <2>2, <2>3, <2>4, HolderIsSomebody DEF IInv, Local
<1> QED
  BY <1>2, <1>3 DEF CommitCheck

\* The prepared journal of p.
LEMMA PreparedFields ==
  ASSUME NEW p \in Procs
  PROVE  /\ Prepared(p).phase = "prepared" /\ Prepared(p).op = op[p]
         /\ Prepared(p).before = run.before
BY DEF Prepared

LEMMA CommitPrepareKeeps ==
  ASSUME IInv, NEW p \in Procs, CommitPrepare(p)
  PROVE  IInv'
<1>1. holder = p /\ holder # NoProc /\ run.step = "prepare" /\ run.task = "commit"
  BY HolderIsSomebody DEF CommitPrepare, At, IInv, Local, StepInv
<1>2. HolderInv /\ StepInv /\ CommitInv /\ TodoInv /\ stage[p] = "admitted" /\ op[p] \in Ops
  BY <1>1 DEF IInv, Local, HolderInv
<1>3. /\ journal.phase = "none" /\ runs[op[p]] # 0 /\ decision[op[p]] = "none" /\ op[p] \notin committed
      /\ \A f \in Files : run.before[f] \in Ops => run.before[f] \in committed
      /\ \A f \in Dirty[op[p]] : disk[f] = run.before[f] \/ disk[f] \in Foreign
  BY <1>1, <1>2 DEF StepInv, CommitInv, Pending
<1>4. journal' \in {journal, Prepared(p)} /\ UNCHANGED <<disk, intent, decision, result, expired, history>>
  BY DEF CommitPrepare
<1>5. journal' \in [phase : {"none", "prepared", "committed"}, op : Ops \cup {NoOp}, before : [Files -> Contents]]
  BY <1>2, <1>4 DEF Prepared, IInv, TypeOK, RunType
<1>6. JournalInv' /\ ContentInv' /\ RunInv'
  <2>1. CASE journal' = journal
    BY <1>4, <2>1 DEF IInv, Global, JournalInv, ContentInv, RunInv, Pending, Known, Decision, durable, history
  <2>2. CASE journal' = Prepared(p)
    <3>1. journal'.phase = "prepared" /\ journal'.op = op[p] /\ journal'.before = run.before
      BY <2>2, PreparedFields
    <3>2. JournalInv'
      BY <1>2, <1>3, <1>4, <3>1 DEF JournalInv, Pending, Known, Decision, history
    <3>3. ContentInv' /\ RunInv'
      BY <1>3, <1>4, <3>1 DEF IInv, Global, ContentInv, RunInv, history
    <3> QED
      BY <3>2, <3>3
  <2> QED
    BY <1>4, <2>1, <2>2
<1>7. CASE /\ journal' = Prepared(p)
           /\ run' = [run EXCEPT !.step = "file", !.todo = Dirty[op[p]]]
           /\ UNCHANGED <<stage, op, answer, holder, troubles, raced>>
  <2>1. /\ run'.task = "commit" /\ run'.step = "file" /\ run'.todo = Dirty[op[p]]
        /\ run'.cur = run.cur /\ run'.before = run.before /\ run'.saved = run.saved
    BY <1>1, <1>7 DEF IInv, TypeOK, RunType
  <2>2. TypeOK'
    BY <1>2, <1>4, <1>5, <1>7, DirtyAssumption DEF IInv, TypeOK, RunType, Steps, history
  <2>3. journal'.phase = "prepared" /\ journal'.op = op[p] /\ journal'.before = run.before
    BY <1>7, PreparedFields
  <2>4. Global'
    BY <1>1, <1>4, <1>6, <1>7, <2>1 DEF IInv, Global, StageInv, OnceInv, Running, SavedInv, FailedInv, Over,
       Seen, history
  <2>5. HolderInv' /\ StepInv' /\ CommitInv' /\ TodoInv' /\ ProgressInv'
    BY <1>1, <1>2, <1>3, <1>4, <1>7, <2>1, <2>3 DEF HolderInv, StepInv, CommitInv, TodoInv, ProgressInv,
       Pending, history
  <2> QED
    BY <1>1, <1>7, <2>2, <2>4, <2>5 DEF IInv, Local
<1>8. CASE WriteFails(p)
  <2>1. Failed(p) /\ troubles' \in 0 .. MaxTroubles
    BY <1>8, MaxTroublesAssumption DEF WriteFails, Trouble, IInv, TypeOK
  <2>2. TypeOK'
    BY <1>1, <1>4, <1>5, <2>1, FailedOutcome, OutcomeType DEF IInv, TypeOK, history
  <2>3. Recorded(p)
    BY <1>1, <1>3, <1>4, PreparedFields DEF Recorded, IInv, Global, SavedInv, FailedInv, Pending, Seen, history
  <2> QED
    BY <1>1, <1>6, <2>1, <2>2, <2>3, FailedOutcome, OutcomeKeeps DEF IInv
<1> QED
  BY <1>7, <1>8 DEF CommitPrepare

LEMMA CommitExpiredKeeps ==
  ASSUME IInv, NEW p \in Procs, CommitExpired(p)
  PROVE  IInv'
BY FailedIdly DEF CommitExpired, At

LEMMA CommitFileKeeps ==
  ASSUME IInv, NEW p \in Procs, CommitFile(p)
  PROVE  IInv'
<1>1. holder = p /\ holder # NoProc /\ run.step = "file" /\ run.task = "commit"
  BY HolderIsSomebody DEF CommitFile, At
<1>2. CASE Failed(p)
  BY <1>1, <1>2, FailedIdly DEF CommitFile
<1>3. CASE \E f \in run.todo :
             /\ disk[f] = journal.before[f]
             /\ run' = [run EXCEPT !.step = "write", !.cur = f]
             /\ raced' = FALSE
             /\ UNCHANGED <<stage, op, answer, holder>>
  <2>1. PICK f \in run.todo :
             /\ disk[f] = journal.before[f]
             /\ run' = [run EXCEPT !.step = "write", !.cur = f]
             /\ raced' = FALSE
             /\ UNCHANGED <<stage, op, answer, holder>>
    BY <1>3
  <2>2. f \in Files
    BY DEF IInv, TypeOK, RunType
  <2>3. /\ run'.task = run.task /\ run'.step = "write" /\ run'.todo = run.todo
        /\ run'.cur = f /\ run'.before = run.before /\ run'.saved = run.saved
    BY <2>1 DEF IInv, TypeOK, RunType
  <2>4. TypeOK'
    BY <2>1, <2>2 DEF CommitFile, IInv, TypeOK, RunType, Steps, durable, history
  <2>5. Global'
    BY <2>1, <2>3, RunStepKeepsGlobal DEF CommitFile, IInv
  <2>6. HolderInv /\ StepInv /\ CommitInv /\ TodoInv /\ ProgressInv
    BY <1>1 DEF IInv, Local
  <2>7. HolderInv' /\ StepInv' /\ CommitInv'
    BY <1>1, <2>1, <2>3, <2>6 DEF CommitFile, HolderInv, StepInv, CommitInv, Pending, durable, history
  <2>8. TodoInv' /\ ProgressInv'
    BY <1>1, <2>1, <2>2, <2>3, <2>6 DEF CommitFile, TodoInv, ProgressInv, Target, Known, durable, history
  <2> QED
    BY <1>1, <2>1, <2>4, <2>5, <2>7, <2>8 DEF IInv, Local
<1> QED
  BY <1>2, <1>3 DEF CommitFile

\* What a write leaves in a file is what the transaction wants there.
LEMMA WriteKeepsGlobal ==
  ASSUME IInv, NEW p \in Procs, At(p, "write"),
         disk' = [disk EXCEPT ![run.cur] = Written(p)],
         UNCHANGED <<journal, intent, decision, result, expired, history>>
  PROVE  /\ run.cur \in run.todo /\ run.cur \in Files
         /\ disk' \in [Files -> Contents] /\ disk'[run.cur] = Target(run.cur)
         /\ JournalInv' /\ ContentInv' /\ RunInv'
<1>1. holder = p /\ holder # NoProc /\ run.step = "write"
  BY HolderIsSomebody DEF At
<1>2. StepInv /\ CommitInv /\ TodoInv /\ JournalInv /\ ContentInv /\ RunInv
  BY <1>1 DEF IInv, Local, Global
<1>3. /\ run.cur \in run.todo /\ run.cur \in Files /\ run.cur \in Dirty[journal.op]
      /\ Pending /\ journal.op \in Ops /\ disk \in [Files -> Contents] /\ journal.before \in [Files -> Contents]
  BY <1>1, <1>2 DEF StepInv, TodoInv, JournalInv, IInv, TypeOK, RunType
<1>4. disk'[run.cur] = Written(p) /\ \A f \in Files : f # run.cur => disk'[f] = disk[f]
  BY <1>3
<1>5. Written(p) = Target(run.cur)
  BY <1>1, <1>2, <1>3 DEF Written, Target, StepInv
<1>6. Target(run.cur) \in {journal.before[run.cur], journal.op} /\ Target(run.cur) \in Contents
  BY <1>3 DEF Target, Wanted, Contents
<1>7. JournalInv'
  <2>1. \A f \in Dirty[journal.op] : Known(f)' \/ disk'[f] \in Foreign
    <3>1. Dirty[journal.op] \subseteq Files
      BY <1>3, DirtyAssumption
    <3> QED
      BY <1>2, <1>3, <1>4, <1>5, <1>6, <3>1 DEF JournalInv, Known
  <2> QED
    BY <1>2, <2>1 DEF JournalInv, Pending, Decision, history
<1>8. ContentInv'
  <2>1. Target(run.cur) \in Ops =>
          \/ Target(run.cur) \in committed
          \/ journal.phase = "prepared" /\ Target(run.cur) = journal.op
    BY <1>1, <1>2, <1>3 DEF Target, Wanted, CommitInv, JournalInv, ContentInv
  <2> QED
    BY <1>2, <1>3, <1>4, <1>5, <2>1 DEF ContentInv, history
<1>9. RunInv'
  BY <1>2 DEF RunInv, history
<1> QED
  BY <1>3, <1>4, <1>5, <1>6, <1>7, <1>8, <1>9

LEMMA WriteFileKeeps ==
  ASSUME IInv, NEW p \in Procs, WriteFile(p)
  PROVE  IInv'
<1>1. holder = p /\ holder # NoProc /\ run.step = "write"
  BY HolderIsSomebody DEF WriteFile, At
<1>2. HolderInv /\ StepInv /\ CommitInv /\ TodoInv /\ ProgressInv
  BY <1>1 DEF IInv, Local
<1>3. UNCHANGED <<journal, intent, decision, result, expired, history>>
  BY DEF WriteFile
<1>4. CASE /\ disk' = [disk EXCEPT ![run.cur] = Written(p)]
           /\ run' = [run EXCEPT !.step = "file", !.todo = @ \ {run.cur}, !.cur = NoFile]
           /\ raced' = FALSE
           /\ UNCHANGED <<stage, op, answer, holder, troubles>>
  <2>1. /\ run.cur \in run.todo /\ run.cur \in Files
        /\ disk' \in [Files -> Contents] /\ disk'[run.cur] = Target(run.cur)
        /\ JournalInv' /\ ContentInv' /\ RunInv'
    BY <1>3, <1>4, WriteKeepsGlobal DEF WriteFile
  <2>2. /\ run'.task = run.task /\ run'.step = "file" /\ run'.todo = run.todo \ {run.cur}
        /\ run'.cur = NoFile /\ run'.before = run.before /\ run'.saved = run.saved
    BY <1>4 DEF IInv, TypeOK, RunType
  <2>3. TypeOK'
    <3>1. run' \in RunType
      BY <1>4 DEF IInv, TypeOK, RunType, Steps
    <3> QED
      BY <1>3, <1>4, <2>1, <3>1 DEF IInv, TypeOK, history
  <2>4. Global'
    BY <1>3, <1>4, <2>1, <2>2 DEF IInv, Global, StageInv, OnceInv, Running, SavedInv, FailedInv, Over,
       Seen, history
  <2>5. HolderInv' /\ StepInv'
    BY <1>1, <1>2, <1>3, <1>4, <2>2 DEF HolderInv, StepInv, Pending, Decision, history
  <2>6. CommitInv'
    BY <1>1, <1>2, <1>3, <1>4, <2>2 DEF CommitInv, history
  <2>7. TodoInv'
    BY <1>1, <1>2, <1>3, <1>4, <2>2 DEF TodoInv
  <2>8. ProgressInv'
    <3>1. \A f \in Dirty[journal.op] : Target(f)' = Target(f)
      BY <1>3, <2>2 DEF Target, Wanted
    <3>2. Dirty[journal.op] \subseteq Files
      BY <1>1, <1>2, DirtyAssumption DEF IInv, Global, JournalInv, StepInv
    <3>3. \A f \in Dirty[journal.op] : f # run.cur => disk'[f] = disk[f]
      BY <1>4, <2>1, <3>2 DEF IInv, TypeOK
    <3> QED
      BY <1>1, <1>2, <1>3, <2>1, <2>2, <3>1, <3>3 DEF ProgressInv
  <2> QED
    BY <1>1, <1>4, <2>3, <2>4, <2>5, <2>6, <2>7, <2>8 DEF IInv, Local
<1>5. CASE Failed(p) /\ UNCHANGED <<disk, troubles>>
  BY <1>1, <1>3, <1>5, FailedIdly DEF durable
<1>6. CASE disk' \in {disk, [disk EXCEPT ![run.cur] = Written(p)]} /\ WriteFails(p)
  <2>1. Failed(p) /\ troubles' \in 0 .. MaxTroubles
    BY <1>6, MaxTroublesAssumption DEF WriteFails, Trouble, IInv, TypeOK
  <2>2. disk' \in [Files -> Contents] /\ JournalInv' /\ ContentInv' /\ RunInv'
    <3>1. CASE disk' = disk
      BY <1>3, <3>1 DEF IInv, TypeOK, Global, JournalInv, ContentInv, RunInv, Pending, Known, Decision, history
    <3>2. CASE disk' = [disk EXCEPT ![run.cur] = Written(p)]
      BY <1>3, <3>2, WriteKeepsGlobal DEF WriteFile
    <3> QED
      BY <1>6, <3>1, <3>2
  <2>3. TypeOK'
    BY <1>1, <1>3, <2>1, <2>2, FailedOutcome, OutcomeType DEF IInv, TypeOK, history
  <2>4. Recorded(p)
    BY <1>1, <1>2, <1>3 DEF Recorded, StepInv, IInv, Global, SavedInv, FailedInv, Pending, Seen, history
  <2> QED
    BY <1>1, <2>1, <2>2, <2>3, <2>4, FailedOutcome, OutcomeKeeps DEF IInv
<1> QED
  BY <1>4, <1>5, <1>6 DEF WriteFile

LEMMA CommitDurableKeeps ==
  ASSUME IInv, NEW p \in Procs, CommitDurable(p)
  PROVE  IInv'
<1>1. holder = p /\ holder # NoProc /\ run.step = "file" /\ run.task = "commit" /\ run.todo = {}
  BY HolderIsSomebody DEF CommitDurable, At
<1>2. HolderInv /\ StepInv /\ CommitInv /\ TodoInv /\ ProgressInv
  BY <1>1 DEF IInv, Local
<1>3. /\ stage[p] = "admitted" /\ op[p] \in Ops /\ journal.phase = "prepared" /\ journal.op = op[p]
      /\ decision[op[p]] = "none" /\ op[p] \notin committed /\ runs[op[p]] # 0
  BY <1>1, <1>2 DEF HolderInv, StepInv, CommitInv, Pending
<1>4. UNCHANGED <<disk, intent, decision, result, expired, told, runs, reloads>>
  BY DEF CommitDurable
<1> DEFINE Durable == journal' = [journal EXCEPT !.phase = "committed"] /\ committed' = committed \cup {op[p]}
<1>5. ASSUME Durable
      PROVE  /\ journal'.phase = "committed" /\ journal'.op = op[p] /\ journal'.before = journal.before
             /\ journal' \in [phase : {"none", "prepared", "committed"}, op : Ops \cup {NoOp}, before : [Files -> Contents]]
             /\ committed' \subseteq Ops /\ JournalInv' /\ ContentInv' /\ RunInv'
  <2>1. journal'.phase = "committed" /\ journal'.op = op[p] /\ journal'.before = journal.before
    BY <1>3, <1>5 DEF IInv, TypeOK
  <2>2. /\ journal' \in [phase : {"none", "prepared", "committed"}, op : Ops \cup {NoOp}, before : [Files -> Contents]]
        /\ committed' \subseteq Ops
    BY <1>3, <1>5 DEF IInv, TypeOK
  <2>3. JournalInv'
    BY <1>3, <1>4, <1>5, <2>1 DEF IInv, Global, JournalInv, Pending, Known, Decision
  <2>4. ContentInv' /\ RunInv'
    BY <1>3, <1>4, <1>5, <2>1 DEF IInv, Global, ContentInv, RunInv
  <2> QED
    BY <2>1, <2>2, <2>3, <2>4
<1>6. CASE /\ Durable
           /\ run' = [run EXCEPT !.step = "decide", !.saved = TRUE]
           /\ UNCHANGED <<stage, op, answer, holder, troubles, raced>>
  <2>1. /\ run'.task = run.task /\ run'.step = "decide" /\ run'.todo = run.todo
        /\ run'.cur = run.cur /\ run'.before = run.before /\ run'.saved = TRUE
    BY <1>6 DEF IInv, TypeOK, RunType
  <2>2. TypeOK'
    BY <1>4, <1>5, <1>6 DEF IInv, TypeOK, RunType, Steps
  <2>3. StageInv' /\ OnceInv' /\ SavedInv'
    BY <1>1, <1>4, <1>6, <2>1 DEF IInv, Global, StageInv, OnceInv, Running, SavedInv, Seen
  <2>4. FailedInv'
    <3>1. ~Over(op[p])
      BY <1>1, <1>3 DEF Over
    <3>2. \A o \in Ops : o # op[p] /\ Over(o) => Over(o)'
      BY <1>4, <1>6, <2>1 DEF Over, Seen
    <3> QED
      BY <1>3, <1>4, <1>6, <3>1, <3>2 DEF IInv, Global, FailedInv
  <2>5. HolderInv' /\ StepInv' /\ CommitInv' /\ TodoInv'
    BY <1>1, <1>2, <1>3, <1>4, <1>5, <1>6, <2>1 DEF HolderInv, StepInv, CommitInv, TodoInv, Pending
  <2>6. ProgressInv'
    BY <1>1, <1>2, <1>3, <1>4, <1>5, <1>6, <2>1 DEF ProgressInv, Target
  <2> QED
    BY <1>1, <1>5, <1>6, <2>2, <2>3, <2>4, <2>5, <2>6 DEF IInv, Global, Local
<1>7. CASE WriteFails(p) /\ (Durable \/ UNCHANGED <<journal, committed>>)
  <2>1. Failed(p) /\ troubles' \in 0 .. MaxTroubles
    BY <1>7, MaxTroublesAssumption DEF WriteFails, Trouble, IInv, TypeOK
  <2>2. /\ JournalInv' /\ ContentInv' /\ RunInv' /\ committed' \subseteq Ops /\ committed' \in {committed, committed \cup {op[p]}}
        /\ journal' \in [phase : {"none", "prepared", "committed"}, op : Ops \cup {NoOp}, before : [Files -> Contents]]
        /\ journal'.op = op[p]
    <3>1. CASE Durable
      BY <1>5, <3>1
    <3>2. CASE UNCHANGED <<journal, committed>>
      BY <1>3, <1>4, <3>2 DEF IInv, TypeOK, Global, JournalInv, ContentInv, RunInv, Pending, Known, Decision
    <3> QED
      BY <1>7, <3>1, <3>2
  <2>3. TypeOK'
    BY <1>1, <1>4, <2>1, <2>2, FailedOutcome, OutcomeType DEF IInv, TypeOK
  <2>4. Recorded(p)
    BY <1>1, <1>4, <2>2 DEF Recorded, IInv, Global, SavedInv, FailedInv, Pending, Seen
  <2> QED
    BY <1>1, <2>1, <2>2, <2>3, <2>4, FailedOutcome, OutcomeKeeps DEF IInv
<1> QED
  BY <1>6, <1>7 DEF CommitDurable

-----------------------------------------------------------------------------
(***************************************************************************)
(* The end of both: the receipt, and the journal goes.                     *)
(***************************************************************************)
LEMMA RecordDecisionKeeps ==
  ASSUME IInv, NEW p \in Procs, RecordDecision(p)
  PROVE  IInv'
<1>1. holder = p /\ holder # NoProc /\ run.step = "decide"
  BY HolderIsSomebody DEF RecordDecision, At
<1>2. HolderInv /\ StepInv /\ CommitInv /\ TodoInv /\ ProgressInv
  BY <1>1 DEF IInv, Local
<1>3. Pending /\ journal.op \in Ops /\ runs[journal.op] # 0
  BY <1>1, <1>2 DEF StepInv, IInv, Global, JournalInv
<1>4. UNCHANGED <<disk, journal, intent, result, expired, history>>
  BY DEF RecordDecision
<1>5. Decision \in {"saved", "unchanged", "failed"}
  BY DEF Decision, SavedWord
<1>6. Decision \in Saving => journal.op \in committed
  BY DEF Decision, Saving, IInv, Global, JournalInv
<1>7. Decision = "failed" => Over(journal.op)
  <2> SUFFICES ASSUME Decision = "failed" PROVE Over(journal.op)
    OBVIOUS
  <2>1. journal.phase = "prepared" /\ journal.op \notin committed
    BY <1>3 DEF Decision, SavedWord, Pending, IInv, TypeOK, Global, JournalInv
  <2>2. journal.op \in Seen
    BY <1>3 DEF IInv, Global, OnceInv
  <2>3. ASSUME NEW q \in Procs, stage[q] = "admitted", op[q] = journal.op
        PROVE  holder = q /\ run.task = "abort"
    <3>1. Running(q)
      BY <1>3, <2>3 DEF IInv, Global, OnceInv
    <3> QED
      BY <1>1, <1>2, <2>1, <3>1 DEF Running, CommitInv
  <2> QED
    BY <2>1, <2>2, <2>3 DEF Over
<1>8. ASSUME decision' \in {decision, [decision EXCEPT ![journal.op] = Decision]}
      PROVE  /\ decision' \in [Ops -> {"none", "saved", "unchanged", "failed"}]
             /\ JournalInv' /\ ContentInv' /\ RunInv'
             /\ \A o \in Ops : decision'[o] = decision[o] \/ (o = journal.op /\ decision'[o] = Decision)
  <2>1. /\ decision' \in [Ops -> {"none", "saved", "unchanged", "failed"}]
        /\ \A o \in Ops : decision'[o] = decision[o] \/ (o = journal.op /\ decision'[o] = Decision)
    BY <1>3, <1>5, <1>8 DEF IInv, TypeOK
  <2>2. JournalInv'
    BY <1>3, <1>4, <2>1 DEF IInv, Global, JournalInv, Pending, Known, Decision, history
  <2>3. ContentInv' /\ RunInv'
    BY <1>3, <1>4, <2>1 DEF IInv, Global, ContentInv, RunInv, history
  <2> QED
    BY <2>1, <2>2, <2>3
<1>9. CASE /\ decision' = [decision EXCEPT ![journal.op] = Decision]
           /\ Goto("unlink")
           /\ UNCHANGED <<stage, op, answer, holder, troubles, raced>>
  <2>1. /\ run'.task = run.task /\ run'.step = "unlink" /\ run'.todo = run.todo
        /\ run'.cur = run.cur /\ run'.before = run.before /\ run'.saved = run.saved
    BY <1>9 DEF Goto, IInv, TypeOK, RunType
  <2>2. TypeOK'
    BY <1>4, <1>8, <1>9 DEF Goto, IInv, TypeOK, RunType, Steps, history
  <2>3. StageInv' /\ OnceInv'
    BY <1>4, <1>9, <2>1 DEF IInv, Global, StageInv, OnceInv, Running, Seen, history
  <2>4. SavedInv'
    BY <1>4, <1>6, <1>8, <1>9 DEF IInv, Global, SavedInv, Saving, history
  <2>5. FailedInv'
    <3>1. \A o \in Ops : Over(o) => Over(o)'
      BY <1>4, <1>9, <2>1 DEF Over, Seen, history
    <3> QED
      BY <1>4, <1>7, <1>8, <1>9, <3>1 DEF IInv, Global, FailedInv, history
  <2>6. decision'[journal.op] = Decision
    BY <1>3, <1>9 DEF IInv, TypeOK
  <2>7. HolderInv' /\ StepInv' /\ CommitInv' /\ TodoInv' /\ ProgressInv'
    BY <1>1, <1>2, <1>4, <1>9, <2>1, <2>6 DEF HolderInv, StepInv, CommitInv, TodoInv, ProgressInv, Target,
       Wanted, Pending, Decision, history
  <2> QED
    BY <1>1, <1>8, <1>9, <2>2, <2>3, <2>4, <2>5, <2>7 DEF IInv, Global, Local
<1>10. CASE /\ decision' \in {decision, [decision EXCEPT ![journal.op] = Decision]}
            /\ WriteFails(p)
  <2>1. Failed(p) /\ troubles' \in 0 .. MaxTroubles
    BY <1>10, MaxTroublesAssumption DEF WriteFails, Trouble, IInv, TypeOK
  <2>2. TypeOK'
    BY <1>1, <1>4, <1>8, <1>10, <2>1, FailedOutcome, OutcomeType DEF IInv, TypeOK, history
  <2>3. Recorded(p)
    BY <1>1, <1>2, <1>4, <1>6, <1>7, <1>8, <1>10 DEF Recorded, StepInv, IInv, Global, SavedInv, FailedInv,
       Pending, Seen, Saving, history
  <2> QED
    BY <1>1, <1>8, <1>10, <2>1, <2>2, <2>3, FailedOutcome, OutcomeKeeps DEF IInv
<1> QED
  BY <1>9, <1>10 DEF RecordDecision

LEMMA RemoveJournalKeeps ==
  ASSUME IInv, NEW p \in Procs, RemoveJournal(p)
  PROVE  IInv'
<1>1. holder = p /\ holder # NoProc /\ run.step = "unlink"
  BY HolderIsSomebody DEF RemoveJournal, At
<1>2. HolderInv /\ StepInv /\ CommitInv /\ TodoInv /\ ProgressInv
  BY <1>1 DEF IInv, Local
<1>3. UNCHANGED <<disk, intent, decision, result, expired, history>>
  BY DEF RemoveJournal
<1>4. /\ Pending /\ journal.op \in Ops /\ run.todo = {}
      /\ run.task \in {"commit", "abort"} => journal.op = op[p]
      /\ run.task = "commit" => journal.phase = "committed"
      /\ journal.phase = "committed" => journal.op \in committed
  BY <1>1, <1>2 DEF StepInv, CommitInv, TodoInv, IInv, Global, JournalInv
<1>5. ASSUME journal' = NoJournal
      PROVE  /\ journal' \in [phase : {"none", "prepared", "committed"}, op : Ops \cup {NoOp}, before : [Files -> Contents]]
             /\ journal'.phase = "none" /\ JournalInv' /\ ContentInv' /\ RunInv'
  <2>1. journal'.phase = "none" /\ journal'.before = [f \in Files |-> Absent]
    BY <1>5 DEF NoJournal
  <2>2. journal' \in [phase : {"none", "prepared", "committed"}, op : Ops \cup {NoOp}, before : [Files -> Contents]]
    BY <1>5 DEF NoJournal, Contents, Foreign
  <2>3. JournalInv'
    BY <1>5, <2>1 DEF JournalInv, Pending, NoJournal
  <2>4. ASSUME NEW f \in Files, disk[f] \in Ops
        PROVE  disk[f] \in committed
    <3> SUFFICES ASSUME journal.phase = "prepared", disk[f] = journal.op, f \in Dirty[journal.op] PROVE FALSE
      BY <2>4 DEF IInv, Global, ContentInv
    <3>1. run.task # "commit" /\ Wanted(f) = journal.before[f] /\ disk[f] \notin Foreign
      BY <1>4, <2>4, NullAssumption DEF Wanted
    <3>2. disk[f] = journal.before[f]
      BY <1>1, <1>2, <1>4, <3>1 DEF ProgressInv, Target
    <3> QED
      BY <2>4, <3>2 DEF IInv, Global, ContentInv, JournalInv
  <2>5. ContentInv' /\ RunInv'
    BY <1>3, <2>1, <2>4, NullAssumption DEF ContentInv, RunInv, IInv, Global, Foreign, history
  <2> QED
    BY <2>1, <2>2, <2>3, <2>5
<1>6. CASE /\ journal' = NoJournal
           /\ run' = [run EXCEPT !.step = "settled", !.saved = @ \/ (run.task = "abort" /\ journal.phase = "committed")]
           /\ UNCHANGED <<stage, op, answer, holder, troubles, raced>>
  <2> DEFINE flag == run.saved \/ (run.task = "abort" /\ journal.phase = "committed")
  <2>1. flag \in BOOLEAN
    BY DEF IInv, TypeOK, RunType
  <2>2. run' = [run EXCEPT !.step = "settled", !.saved = flag]
    BY <1>6
  <2>3. flag => run.task \in {"commit", "abort"} /\ op[p] \in committed
    BY <1>1, <1>2, <1>4 DEF StepInv
  <2>4. run.saved => flag
    OBVIOUS
  <2> HIDE DEF flag
  <2>5. /\ run'.task = run.task /\ run'.step = "settled" /\ run'.todo = run.todo
        /\ run'.cur = run.cur /\ run'.before = run.before /\ run'.saved = flag
    BY <2>2 DEF IInv, TypeOK, RunType
  <2>6. TypeOK'
    <3>1. run' \in RunType
      BY <2>1, <2>2 DEF IInv, TypeOK, RunType, Steps
    <3> QED
      BY <1>3, <1>5, <1>6, <3>1 DEF IInv, TypeOK, history
  <2>7. Global'
    BY <1>3, <1>5, <1>6, <2>5 DEF IInv, Global, StageInv, OnceInv, Running, SavedInv, FailedInv, Over,
       Seen, history
  <2>8. HolderInv' /\ StepInv' /\ CommitInv' /\ TodoInv' /\ ProgressInv'
    BY <1>1, <1>2, <1>3, <1>4, <1>5, <1>6, <2>3, <2>4, <2>5 DEF HolderInv, StepInv, CommitInv, TodoInv, ProgressInv,
       Pending, history
  <2> QED
    BY <1>1, <1>6, <2>6, <2>7, <2>8 DEF IInv, Local
<1>7. CASE journal' \in {journal, NoJournal} /\ WriteFails(p)
  <2>1. Failed(p) /\ troubles' \in 0 .. MaxTroubles
    BY <1>7, MaxTroublesAssumption DEF WriteFails, Trouble, IInv, TypeOK
  <2>2. /\ journal' \in [phase : {"none", "prepared", "committed"}, op : Ops \cup {NoOp}, before : [Files -> Contents]]
        /\ JournalInv' /\ ContentInv' /\ RunInv'
    <3>1. CASE journal' = journal
      BY <1>3, <3>1 DEF IInv, TypeOK, Global, JournalInv, ContentInv, RunInv, Pending, Known, Decision, history
    <3>2. CASE journal' = NoJournal
      BY <1>5, <3>2
    <3> QED
      BY <1>7, <3>1, <3>2
  <2>3. TypeOK'
    BY <1>1, <1>3, <2>1, <2>2, FailedOutcome, OutcomeType DEF IInv, TypeOK, history
  <2>4. Pending' => journal' = journal
    BY <1>5, <1>7 DEF Pending
  <2>5. Recorded(p)
    BY <1>1, <1>3, <1>4, <2>4 DEF Recorded, IInv, Global, SavedInv, FailedInv, Seen, history
  <2> QED
    BY <1>1, <2>1, <2>2, <2>3, <2>5, FailedOutcome, OutcomeKeeps DEF IInv
<1> QED
  BY <1>6, <1>7 DEF RemoveJournal

-----------------------------------------------------------------------------
(***************************************************************************)
(* The processes.                                                          *)
(***************************************************************************)
LEMMA Acquired ==
  ASSUME NEW p \in Procs, NEW task \in Tasks, Acquire(p, task, "recover")
  PROVE  /\ holder = NoProc /\ holder' = p /\ run' \in RunType
         /\ run'.task = task /\ run'.step = "recover" /\ run'.todo = {}
         /\ run'.cur = NoFile /\ run'.saved = FALSE
<1>1. run' = [Idle EXCEPT !.task = task, !.step = "recover"]
  BY DEF Acquire
<1>2. run' \in RunType
  BY <1>1, IdleType DEF RunType, Steps
<1>3. Idle.todo = {} /\ Idle.cur = NoFile /\ Idle.saved = FALSE
  BY DEF Idle
<1> QED
  BY <1>1, <1>2, <1>3, IdleType DEF Acquire, RunType

\* A process that has the lock and has done nothing yet.
LEMMA AcquiredLocal ==
  ASSUME NEW p \in Procs, holder' = p, ~raced',
         run'.step = "recover", run'.todo = {}, run'.cur = NoFile, run'.saved = FALSE,
         \/ run'.task \in {"begin", "status", "load"} /\ stage'[p] = "idle"
         \/ run'.task = "apply" /\ stage'[p] = "admitted",
         run'.task # "load" => op'[p] \in Ops
  PROVE  Local'
<1>1. HolderInv' /\ StepInv'
  BY DEF HolderInv, StepInv
<1>2. CommitInv' /\ TodoInv' /\ ProgressInv'
  BY DEF CommitInv, TodoInv, ProgressInv
<1> QED
  BY <1>1, <1>2, HolderIsSomebody DEF Local

LEMMA StartKeeps ==
  ASSUME IInv, NEW p \in Procs, Start(p)
  PROVE  IInv'
<1>1. /\ stage[p] = "idle" /\ holder = NoProc /\ raced' = FALSE
      /\ UNCHANGED <<durable, stage, answer, expired, troubles, history>>
  BY DEF Start, IInv, Local, TypeOK
<1>2. PICK task \in {"begin", "status", "load"} :
        /\ Acquire(p, task, "recover")
        /\ op' = op \/ \E o \in Ops : op' = [op EXCEPT ![p] = o]
        /\ task # "load" => \E o \in Ops : op' = [op EXCEPT ![p] = o]
  BY DEF Start
<1>3. /\ holder' = p /\ run' \in RunType
      /\ run'.task = task /\ run'.step = "recover" /\ run'.todo = {}
      /\ run'.cur = NoFile /\ run'.saved = FALSE
  BY <1>2, Acquired DEF Tasks
<1>4. /\ op' \in [Procs -> Ops \cup {NoOp}]
      /\ \A q \in Procs : q # p => op'[q] = op[q]
      /\ task # "load" => op'[p] \in Ops
  BY <1>2 DEF IInv, TypeOK
<1>5. TypeOK'
  BY <1>1, <1>3, <1>4 DEF IInv, TypeOK, durable, history
<1>6. StageInv' /\ JournalInv' /\ ContentInv' /\ RunInv'
  BY <1>1, <1>4 DEF IInv, Global, StageInv, JournalInv, ContentInv, RunInv, Pending, Known, Decision, Seen,
     durable, history
<1>7. answer[p] = "none"
  BY <1>1 DEF IInv, Global, StageInv
<1>8. OnceInv'
  BY <1>1, <1>3, <1>4, HolderIsSomebody DEF IInv, Global, OnceInv, Running, Seen, durable, history
<1>9. SavedInv'
  BY <1>1, <1>4, <1>7 DEF IInv, Global, SavedInv, Saving, durable, history
<1>10. FailedInv'
  <2>1. ASSUME NEW o \in Ops, Over(o)
        PROVE  Over(o)'
    BY <1>1, <1>4, <2>1, HolderIsSomebody DEF Over, Seen, durable, history
  <2> QED
    BY <1>1, <1>4, <1>7, <2>1 DEF IInv, Global, FailedInv, durable, history
<1>11. Local'
  BY <1>1, <1>3, <1>4, AcquiredLocal
<1> QED
  BY <1>5, <1>6, <1>8, <1>9, <1>10, <1>11 DEF IInv, Global

\* A process that was not admitted ends; it may have told a result.
LEMMA FreedKeeps ==
  ASSUME IInv, NEW p \in Procs, holder = p, run.task \in {"begin", "status", "load"},
         Release("idle"), op' \in {op, [op EXCEPT ![p] = NoOp]},
         UNCHANGED <<durable, answer, expired, troubles, committed, runs, reloads>>,
         told' \in [Ops -> SUBSET Words],
         \A o \in Ops : told'[o] \cap Saving # {} => o \in committed,
         \A o \in Ops : "failed" \in told'[o] /\ Dirty[o] # {} => Over(o)
  PROVE  IInv'
<1>1. holder' = NoProc /\ run' = Idle /\ raced' = FALSE /\ stage' = [stage EXCEPT ![p] = "idle"]
  BY DEF Release
<1>2. stage[p] = "idle" /\ answer[p] = "none"
  BY HolderIsSomebody DEF IInv, Local, HolderInv, Global, StageInv
<1>3. stage' = stage
  BY <1>1, <1>2 DEF IInv, TypeOK
<1>4. /\ op' \in [Procs -> Ops \cup {NoOp}]
      /\ \A q \in Procs : q # p => op'[q] = op[q]
  BY DEF IInv, TypeOK
<1>5. TypeOK'
  BY <1>1, <1>3, <1>4, IdleType DEF IInv, TypeOK, durable
<1>6. StageInv' /\ JournalInv' /\ ContentInv' /\ RunInv'
  BY <1>2, <1>3, <1>4 DEF IInv, Global, StageInv, JournalInv, ContentInv, RunInv, Pending, Known, Decision, Seen,
     durable
<1>7. OnceInv'
  BY <1>1, <1>2, <1>3, <1>4 DEF IInv, Global, OnceInv, Running, Seen, durable
<1>8. SavedInv'
  BY <1>2, <1>4 DEF IInv, Global, SavedInv, Saving, durable
<1>9. FailedInv'
  <2>1. ASSUME NEW o \in Ops, Over(o)
        PROVE  Over(o)'
    BY <1>2, <1>3, <1>4, <2>1 DEF Over, Seen, durable
  <2> QED
    BY <1>2, <1>4, <2>1 DEF IInv, Global, FailedInv, durable
<1> QED
  BY <1>1, <1>5, <1>6, <1>7, <1>8, <1>9, FreedLocal DEF IInv, Global

LEMMA LoadDoneKeeps ==
  ASSUME IInv, NEW p \in Procs, LoadDone(p)
  PROVE  IInv'
BY FreedKeeps DEF LoadDone, At, history, IInv, TypeOK, Global, SavedInv, FailedInv

LEMMA BeginExpiredKeeps ==
  ASSUME IInv, NEW p \in Procs, BeginExpired(p)
  PROVE  IInv'
BY FreedKeeps DEF BeginExpired, At, history, IInv, TypeOK, Global, SavedInv, FailedInv

LEMMA StatusDoneKeeps ==
  ASSUME IInv, NEW p \in Procs, StatusDone(p)
  PROVE  IInv'
<1>1. holder = p /\ run.task \in {"begin", "status"} /\ op[p] \in Ops
  BY HolderIsSomebody DEF StatusDone, At, IInv, Local, HolderInv
<1> DEFINE word == Status(op[p])
<1>2. /\ word \in Words
      /\ word \in Saving => op[p] \in committed
      /\ word = "failed" /\ Dirty[op[p]] # {} => Over(op[p])
  BY <1>1 DEF Status, Words, Saving, IInv, TypeOK, Global, SavedInv, FailedInv
<1>3. told' = [told EXCEPT ![op[p]] = @ \cup {word}]
  BY DEF StatusDone, Tell
<1> HIDE DEF word
<1>4. told' \in [Ops -> SUBSET Words]
  BY <1>1, <1>2, <1>3 DEF IInv, TypeOK
<1>5. \A o \in Ops : told'[o] = told[o] \/ (o = op[p] /\ told'[o] = told[o] \cup {word})
  BY <1>1, <1>3 DEF IInv, TypeOK
<1>6. \A o \in Ops : told'[o] \cap Saving # {} => o \in committed
  BY <1>2, <1>5 DEF IInv, Global, SavedInv
<1>7. \A o \in Ops : "failed" \in told'[o] /\ Dirty[o] # {} => Over(o)
  BY <1>2, <1>5 DEF IInv, Global, FailedInv
<1> QED
  BY <1>1, <1>4, <1>6, <1>7, FreedKeeps DEF StatusDone

LEMMA BeginKeeps ==
  ASSUME IInv, NEW p \in Procs, Begin(p)
  PROVE  IInv'
<1>1. holder = p /\ holder # NoProc /\ run.step = "settled" /\ run.task = "begin" /\ op[p] \notin Seen
  BY HolderIsSomebody DEF Begin, At, Seen
<1>2. stage[p] = "idle" /\ op[p] \in Ops /\ journal.phase = "none" /\ answer[p] = "none"
  BY <1>1 DEF IInv, Local, HolderInv, StepInv, Pending, Global, StageInv
<1>3. UNCHANGED <<disk, journal, expired, history>>
  BY DEF Begin
<1>4. /\ decision' \in [Ops -> {"none", "saved", "unchanged", "failed"}]
      /\ result' \in [Ops -> Words \cup {"none"}]
      /\ \A o \in Ops : decision'[o] \in {decision[o], "none"} /\ result'[o] \in {result[o], "none"}
  BY DEF Begin, IInv, TypeOK
<1>5. intent' \in {intent \ expired, (intent \ expired) \cup {op[p]}}
  BY DEF Begin
<1>6. intent' \subseteq Ops /\ Seen \subseteq Seen' /\ Seen' \subseteq Seen \cup {op[p]}
  BY <1>2, <1>3, <1>5 DEF Seen, IInv, TypeOK
<1>7. JournalInv' /\ ContentInv' /\ RunInv'
  BY <1>2, <1>3, <1>4 DEF IInv, Global, JournalInv, ContentInv, RunInv, Pending, history
<1>8. CASE /\ intent' = (intent \ expired) \cup {op[p]}
           /\ Release("admitted")
           /\ UNCHANGED <<op, answer, troubles>>
  <2>1. holder' = NoProc /\ run' = Idle /\ raced' = FALSE /\ stage' = [stage EXCEPT ![p] = "admitted"]
    BY <1>1, <1>8 DEF Release
  <2>2. stage'[p] = "admitted" /\ \A q \in Procs : q # p => stage'[q] = stage[q]
    BY <2>1 DEF IInv, TypeOK
  <2>3. TypeOK'
    BY <1>3, <1>4, <1>6, <1>8, <2>1, IdleType DEF IInv, TypeOK, history
  <2>4. op[p] \in Seen'
    BY <1>8 DEF Seen
  <2>5. StageInv'
    BY <1>2, <1>6, <1>8, <2>2, <2>4 DEF IInv, Global, StageInv
  <2>6. \A q \in Procs : q # p /\ stage[q] # "idle" => op[q] # op[p]
    BY <1>1 DEF IInv, Global, StageInv
  <2>7. runs[op[p]] = 0 /\ reloads[op[p]] = 0
    BY <1>1, <1>2 DEF IInv, Global, OnceInv
  <2>8. OnceInv'
    BY <1>1, <1>3, <1>6, <1>8, <2>1, <2>2, <2>6, <2>7 DEF IInv, Global, OnceInv, Running, history
  <2>9. SavedInv'
    BY <1>3, <1>4, <1>8 DEF IInv, Global, SavedInv, Saving, history
  <2>10. FailedInv'
    <3>1. ASSUME NEW o \in Ops, Over(o)
          PROVE  Over(o)'
      <4>1. o # op[p] /\ o \in Seen'
        BY <1>1, <1>6, <3>1 DEF Over
      <4> QED
        BY <1>1, <1>3, <1>8, <2>2, <3>1, <4>1 DEF Over, history
    <3> QED
      BY <1>3, <1>4, <1>8, <3>1 DEF IInv, Global, FailedInv, history
  <2> QED
    BY <1>7, <2>1, <2>3, <2>5, <2>8, <2>9, <2>10, FreedLocal DEF IInv, Global
<1>9. CASE WriteFails(p)
  <2>1. Failed(p) /\ troubles' \in 0 .. MaxTroubles
    BY <1>9, MaxTroublesAssumption DEF WriteFails, Trouble, IInv, TypeOK
  <2>2. TypeOK'
    BY <1>1, <1>3, <1>4, <1>6, <2>1, FailedOutcome, OutcomeType DEF IInv, TypeOK, history
  <2>3. Recorded(p)
    BY <1>1, <1>3, <1>4, <1>6 DEF Recorded, IInv, Global, SavedInv, FailedInv, Saving, history
  <2> QED
    BY <1>1, <1>7, <2>1, <2>2, <2>3, FailedOutcome, OutcomeKeeps DEF IInv
<1> QED
  BY <1>8, <1>9 DEF Begin

LEMMA ExecuteKeeps ==
  ASSUME IInv, NEW p \in Procs, Execute(p)
  PROVE  IInv'
<1>1. /\ stage[p] = "admitted" /\ op[p] \in Ops \cap Seen /\ answer[p] = "none"
      /\ UNCHANGED <<durable, op, expired, troubles, history, raced>>
  BY DEF Execute, IInv, Global, StageInv
<1>2. ~Running(p)
  <2>1. holder # p
    BY HolderIsSomebody DEF Execute, Acquire
  <2> QED
    BY <2>1 DEF Running
<1>3. runs[op[p]] = 0 /\ op[p] \notin committed
  BY <1>1, <1>2 DEF IInv, Global, OnceInv, RunInv
<1>4. JournalInv' /\ ContentInv' /\ RunInv'
  BY <1>1 DEF IInv, Global, JournalInv, ContentInv, RunInv, Pending, Known, Decision, durable, history
<1>5. CASE Acquire(p, "apply", "recover") /\ UNCHANGED <<stage, answer>>
  <2>1. /\ holder = NoProc /\ holder' = p /\ run' \in RunType
        /\ run'.task = "apply" /\ run'.step = "recover" /\ run'.todo = {}
        /\ run'.cur = NoFile /\ run'.saved = FALSE
    BY <1>5, Acquired DEF Tasks
  <2>2. TypeOK'
    BY <1>1, <1>5, <2>1 DEF IInv, TypeOK, durable, history
  <2>3. StageInv' /\ SavedInv'
    BY <1>1, <1>5 DEF IInv, Global, StageInv, SavedInv, Seen, durable, history
  <2>4. OnceInv'
    BY <1>1, <1>5, <2>1, HolderIsSomebody DEF IInv, Global, OnceInv, Running, Seen, durable, history
  <2>5. FailedInv'
    BY <1>1, <1>5, <2>1, HolderIsSomebody DEF IInv, Global, FailedInv, Over, Seen, durable, history
  <2>6. ~raced'
    BY <1>1, <2>1 DEF IInv, Local
  <2>7. Local'
    BY <1>1, <1>5, <2>1, <2>6, AcquiredLocal
  <2> QED
    BY <1>4, <2>2, <2>3, <2>4, <2>5, <2>7 DEF IInv, Global
<1>6. CASE /\ holder \notin {NoProc, p}
           /\ stage' = [stage EXCEPT ![p] = "executed"]
           /\ answer' = [answer EXCEPT ![p] = "failed"]
           /\ UNCHANGED <<holder, run>>
  <2>1. /\ stage'[p] = "executed" /\ \A q \in Procs : q # p => stage'[q] = stage[q]
        /\ answer'[p] = "failed" /\ \A q \in Procs : q # p => answer'[q] = answer[q]
    BY <1>6 DEF IInv, TypeOK
  <2>2. TypeOK'
    BY <1>1, <1>6 DEF IInv, TypeOK, Words, durable, history
  <2>3. StageInv' /\ SavedInv'
    BY <1>1, <2>1 DEF IInv, Global, StageInv, SavedInv, Saving, Seen, durable, history
  <2>4. OnceInv'
    BY <1>1, <1>6, <2>1 DEF IInv, Global, OnceInv, Running, Seen, durable, history
  <2>5. FailedInv'
    <3>1. \A o \in Ops : Over(o) => Over(o)'
      BY <1>1, <1>6, <2>1 DEF Over, Seen, durable, history
    <3>2. Over(op[p])'
      <4>1. \A q \in Procs : stage'[q] = "admitted" => op[q] # op[p]
        BY <1>1, <2>1 DEF IInv, Global, OnceInv
      <4> QED
        BY <1>1, <1>3, <4>1 DEF Over, Seen, durable, history
    <3> QED
      BY <1>1, <2>1, <3>1, <3>2 DEF IInv, Global, FailedInv, durable, history
  <2>6. HolderInv /\ StepInv /\ CommitInv /\ TodoInv /\ ProgressInv /\ holder \in Procs
    BY <1>6 DEF IInv, TypeOK, Local
  <2>7. HolderInv' /\ StepInv' /\ CommitInv'
    BY <1>1, <1>6, <2>1, <2>6 DEF HolderInv, StepInv, CommitInv, Pending, Decision, durable, history
  <2>8. TodoInv' /\ ProgressInv'
    BY <1>1, <1>6, <2>6 DEF TodoInv, ProgressInv, Target, Wanted, Known, durable
  <2> QED
    BY <1>4, <1>6, <2>2, <2>3, <2>4, <2>5, <2>7, <2>8 DEF IInv, Global, Local
<1> QED
  BY <1>5, <1>6 DEF Execute

LEMMA ApplyKeeps ==
  ASSUME IInv, NEW p \in Procs, Apply(p)
  PROVE  IInv'
<1>1. holder = p /\ holder # NoProc /\ run.step = "settled" /\ run.task = "apply"
  BY HolderIsSomebody DEF Apply, At
<1>2. HolderInv /\ StepInv /\ TodoInv /\ stage[p] = "admitted" /\ op[p] \in Ops /\ ~Pending
  BY <1>1 DEF IInv, Local, HolderInv, StepInv
<1>3. UNCHANGED <<durable, expired, troubles, committed, told, reloads>>
  BY DEF Apply
<1>4. CASE Failed(p) /\ UNCHANGED runs
  BY <1>1, <1>3, <1>4, FailedIdly DEF history
<1>5. CASE /\ run' = [run EXCEPT !.task = "commit", !.step = "commit", !.before = disk]
           /\ runs' = [runs EXCEPT ![op[p]] = @ + 1]
           /\ UNCHANGED <<stage, op, answer, holder, raced>>
  <2>1. /\ run'.task = "commit" /\ run'.step = "commit" /\ run'.todo = run.todo
        /\ run'.cur = run.cur /\ run'.before = disk /\ run'.saved = run.saved /\ run' \in RunType
    BY <1>5 DEF IInv, TypeOK, RunType, Tasks, Steps
  <2>2. /\ runs[op[p]] = 0 /\ op[p] \notin committed /\ decision[op[p]] = "none" /\ op[p] \in Seen
    BY <1>1, <1>2 DEF IInv, Global, StageInv, OnceInv, RunInv, Running
  <2>3. /\ runs' \in [Ops -> Nat] /\ runs'[op[p]] = 1
        /\ \A o \in Ops : o # op[p] => runs'[o] = runs[o]
    BY <1>2, <1>5, <2>2 DEF IInv, TypeOK
  <2>4. TypeOK'
    BY <1>3, <1>5, <2>1, <2>3 DEF IInv, TypeOK, durable
  <2>5. StageInv' /\ ContentInv' /\ SavedInv'
    BY <1>3, <1>5 DEF IInv, Global, StageInv, ContentInv, SavedInv, Seen, Saving, durable
  <2>6. JournalInv' /\ RunInv'
    BY <1>2, <1>3, <2>3 DEF IInv, Global, JournalInv, RunInv, Pending, durable
  <2>7. OnceInv'
    BY <1>1, <1>2, <1>3, <1>5, <2>1, <2>2, <2>3 DEF IInv, Global, OnceInv, Running, Seen, durable
  <2>8. FailedInv'
    <3>1. ASSUME NEW o \in Ops, Over(o)
          PROVE  Over(o)'
      <4>1. \A q \in Procs : stage[q] = "admitted" => op[q] # o
        BY <1>1, <3>1 DEF Over
      <4> QED
        BY <1>3, <1>5, <3>1, <4>1 DEF Over, Seen, durable
    <3> QED
      BY <1>3, <1>5, <3>1 DEF IInv, Global, FailedInv, durable
  <2>9. HolderInv' /\ StepInv'
    BY <1>1, <1>2, <1>3, <1>5, <2>1 DEF HolderInv, StepInv, Pending, durable
  <2>10. CommitInv'
    <3>1. \A f \in Files : disk[f] \in Ops => disk[f] \in committed
      BY <1>2 DEF IInv, Global, ContentInv, Pending
    <3> QED
      BY <1>1, <1>2, <1>3, <1>5, <2>1, <2>2, <2>3, <3>1 DEF CommitInv, durable
  <2>11. TodoInv' /\ ProgressInv'
    BY <1>1, <1>2, <1>3, <1>5, <2>1 DEF TodoInv, ProgressInv
  <2> QED
    BY <1>1, <1>5, <2>4, <2>5, <2>6, <2>7, <2>8, <2>9, <2>10, <2>11 DEF IInv, Global, Local
<1> QED
  BY <1>4, <1>5 DEF Apply

LEMMA SavedKeeps ==
  ASSUME IInv, NEW p \in Procs, Saved(p)
  PROVE  IInv'
<1>1. holder = p /\ run.task = "commit" /\ run.saved
  BY HolderIsSomebody DEF Saved, At, IInv, Local, CommitInv
<1> DEFINE word == SavedWord(op[p])
<1>2. PICK next \in {"reloading", "executed"} : Conclude(p, word, next)
  BY DEF Saved
<1>3. word \in Words /\ word # "failed"
  BY DEF SavedWord, Words
<1>4. op' = op /\ UNCHANGED <<durable, expired, troubles, history>>
  BY DEF Saved
<1> HIDE DEF word
<1>5. Ended(p, word, next)
  BY <1>1, <1>2, <1>3, <1>4 DEF Ended, Conclude, Release
<1>6. GivesUp(p)
  BY <1>1, <1>2, <1>3, <1>5 DEF GivesUp, Conclude, Release
<1> QED
  BY <1>1, <1>4, <1>6, OutcomeIdle

LEMMA AbortedKeeps ==
  ASSUME IInv, NEW p \in Procs, Aborted(p)
  PROVE  IInv'
<1>1. holder = p /\ run.task = "abort" /\ EndApply(p, run.saved) /\ op' = op
  BY DEF Aborted, At
<1>2. GivesUp(p)
  BY <1>1, EndApplyEnds DEF GivesUp, Ended
<1> QED
  BY <1>1, <1>2, OutcomeIdle DEF Aborted

\* A process without the lock goes on, with or without the id of an operation.
LEMMA OthersLocal ==
  ASSUME IInv, NEW p \in Procs, holder # p,
         \A q \in Procs : q # p => stage'[q] = stage[q] /\ op'[q] = op[q],
         UNCHANGED <<disk, journal, decision, holder, run, raced, committed, runs>>
  PROVE  Local'
<1>1. CASE holder = NoProc
  BY <1>1 DEF IInv, Local
<1>2. CASE holder # NoProc
  <2>1. HolderInv /\ StepInv /\ CommitInv /\ TodoInv /\ ProgressInv
        /\ stage'[holder] = stage[holder] /\ op'[holder] = op[holder]
    BY <1>2 DEF IInv, TypeOK, Local
  <2>2. HolderInv' /\ StepInv' /\ CommitInv'
    BY <2>1 DEF HolderInv, StepInv, CommitInv, Pending, Decision
  <2>3. TodoInv' /\ ProgressInv'
    BY <2>1 DEF TodoInv, ProgressInv, Target, Wanted, Known
  <2> QED
    BY <1>2, <2>2, <2>3 DEF Local
<1> QED
  BY <1>1, <1>2

\* The holder is idle or admitted, never beyond that.
LEMMA HolderStage ==
  ASSUME IInv, NEW p \in Procs, holder = p
  PROVE  stage[p] \in {"idle", "admitted"}
BY HolderIsSomebody DEF IInv, TypeOK, RunType, Tasks, Local, HolderInv

LEMMA ReloadKeeps ==
  ASSUME IInv, NEW p \in Procs, Reload(p)
  PROVE  IInv'
<1>1. /\ stage[p] = "reloading" /\ stage' = [stage EXCEPT ![p] = "executed"]
      /\ reloads' = [reloads EXCEPT ![op[p]] = @ + 1]
      /\ UNCHANGED <<durable, op, answer, holder, run, expired, troubles, committed, told, runs, raced>>
  BY DEF Reload
<1>2. op[p] \in Ops \cap Seen /\ answer[p] # "none" /\ reloads[op[p]] = 0
  BY <1>1 DEF IInv, Global, StageInv, OnceInv
<1>3. stage'[p] = "executed" /\ \A q \in Procs : q # p => stage'[q] = stage[q]
  BY <1>1 DEF IInv, TypeOK
<1>4. /\ reloads' \in [Ops -> Nat] /\ reloads'[op[p]] = 1
      /\ \A o \in Ops : o # op[p] => reloads'[o] = reloads[o]
  BY <1>1, <1>2 DEF IInv, TypeOK
<1>5. TypeOK'
  BY <1>1, <1>4 DEF IInv, TypeOK, durable
<1>6. StageInv' /\ SavedInv' /\ JournalInv' /\ ContentInv' /\ RunInv'
  BY <1>1, <1>2, <1>3 DEF IInv, Global, StageInv, SavedInv, JournalInv, ContentInv, RunInv, Pending, Known,
     Decision, Seen, durable
<1>7. OnceInv'
  BY <1>1, <1>2, <1>3, <1>4 DEF IInv, Global, OnceInv, Running, Seen, durable
<1>8. FailedInv'
  <2>1. \A o \in Ops : Over(o) => Over(o)'
    BY <1>1, <1>3 DEF Over, Seen, durable
  <2> QED
    BY <1>1, <2>1 DEF IInv, Global, FailedInv, durable
<1>9. holder # p
  BY <1>1, HolderStage
<1>10. Local'
  BY <1>1, <1>3, <1>9, OthersLocal DEF durable
<1> QED
  BY <1>5, <1>6, <1>7, <1>8, <1>10 DEF IInv, Global

LEMMA FinishKeeps ==
  ASSUME IInv, NEW p \in Procs, Finish(p)
  PROVE  IInv'
<1>1. /\ stage[p] = "executed" /\ stage' = [stage EXCEPT ![p] = "idle"]
      /\ op' = [op EXCEPT ![p] = NoOp] /\ answer' = [answer EXCEPT ![p] = "none"]
      /\ told' = [told EXCEPT ![op[p]] = @ \cup {answer[p]}]
      /\ UNCHANGED <<disk, journal, intent, decision, holder, run, expired, committed, runs, reloads, raced>>
  BY DEF Finish, Tell
<1>2. op[p] \in Ops /\ answer[p] \in Words
  BY <1>1 DEF IInv, TypeOK, Global, StageInv
<1>3. /\ stage'[p] = "idle" /\ answer'[p] = "none"
      /\ \A q \in Procs : q # p => stage'[q] = stage[q] /\ op'[q] = op[q] /\ answer'[q] = answer[q]
  BY <1>1 DEF IInv, TypeOK
<1>4. /\ told' \in [Ops -> SUBSET Words]
      /\ \A o \in Ops : o # op[p] => told'[o] = told[o]
      /\ told'[op[p]] = told[op[p]] \cup {answer[p]}
  BY <1>1, <1>2 DEF IInv, TypeOK
<1>5. result' \in {result, [result EXCEPT ![op[p]] = answer[p]]}
  BY DEF Finish
<1>6. /\ result' \in [Ops -> Words \cup {"none"}]
      /\ \A o \in Ops : result'[o] = result[o] \/ (o = op[p] /\ result'[o] = answer[p])
  BY <1>2, <1>5 DEF IInv, TypeOK
<1>7. troubles' \in 0 .. MaxTroubles
  BY MaxTroublesAssumption DEF Finish, Trouble, IInv, TypeOK
<1>8. TypeOK'
  BY <1>1, <1>4, <1>6, <1>7 DEF IInv, TypeOK
<1>9. StageInv' /\ JournalInv' /\ ContentInv' /\ RunInv'
  BY <1>1, <1>3 DEF IInv, Global, StageInv, JournalInv, ContentInv, RunInv, Pending, Known, Decision, Seen
<1>10. OnceInv'
  BY <1>1, <1>3 DEF IInv, Global, OnceInv, Running, Seen
<1>11. SavedInv'
  <2>1. answer[p] \in Saving => op[p] \in committed
    BY DEF IInv, Global, SavedInv
  <2>2. ASSUME NEW o \in Ops, decision'[o] \in Saving \/ result'[o] \in Saving \/ told'[o] \cap Saving # {}
        PROVE  o \in committed'
    BY <1>1, <1>4, <1>6, <2>1, <2>2 DEF IInv, Global, SavedInv
  <2>3. ASSUME NEW q \in Procs, answer'[q] \in Saving
        PROVE  op'[q] \in committed'
    BY <1>1, <1>3, <2>3 DEF IInv, Global, SavedInv, Saving
  <2> QED
    BY <2>2, <2>3 DEF SavedInv, Saving
<1>12. FailedInv'
  <2>1. ASSUME NEW o \in Ops, Over(o)
        PROVE  Over(o)'
    BY <1>1, <1>3, <2>1 DEF Over, Seen
  <2>2. answer[p] = "failed" /\ Dirty[op[p]] # {} => Over(op[p])
    BY <1>2 DEF IInv, Global, FailedInv
  <2>3. ASSUME NEW o \in Ops, Dirty[o] # {},
               decision'[o] = "failed" \/ result'[o] = "failed" \/ "failed" \in told'[o]
        PROVE  Over(o)
    BY <1>1, <1>4, <1>6, <2>2, <2>3 DEF IInv, Global, FailedInv
  <2>4. ASSUME NEW o \in Ops, Dirty[o] # {}, NEW q \in Procs, op'[q] = o, answer'[q] = "failed"
        PROVE  Over(o)
    BY <1>3, <2>4 DEF IInv, Global, FailedInv
  <2> QED
    BY <2>1, <2>3, <2>4 DEF FailedInv
<1>13. holder # p
  BY <1>1, HolderStage
<1>14. Local'
  BY <1>1, <1>3, <1>13, OthersLocal
<1> QED
  BY <1>8, <1>9, <1>10, <1>11, <1>12, <1>14 DEF IInv, Global

-----------------------------------------------------------------------------
(***************************************************************************)
(* The environment.                                                        *)
(***************************************************************************)
LEMMA CrashKeeps ==
  ASSUME IInv, NEW p \in Procs, Crash(p)
  PROVE  IInv'
<1>1. /\ stage' = [stage EXCEPT ![p] = "idle"] /\ op' = [op EXCEPT ![p] = NoOp]
      /\ answer' = [answer EXCEPT ![p] = "none"]
      /\ UNCHANGED <<durable, expired, history>>
  BY DEF Crash
<1>2. \/ holder = p /\ holder' = NoProc /\ run' = Idle /\ raced' = FALSE
      \/ holder # p /\ UNCHANGED <<holder, run, raced>>
  BY DEF Crash
<1>3. /\ stage'[p] = "idle" /\ answer'[p] = "none"
      /\ \A q \in Procs : q # p => stage'[q] = stage[q] /\ op'[q] = op[q] /\ answer'[q] = answer[q]
  BY <1>1 DEF IInv, TypeOK
<1>4. troubles' \in 0 .. MaxTroubles
  BY MaxTroublesAssumption DEF Crash, Trouble, IInv, TypeOK
<1>5. TypeOK'
  <2>1. run' \in RunType /\ raced' \in BOOLEAN /\ holder' \in Procs \cup {NoProc}
    BY <1>2, IdleType DEF IInv, TypeOK
  <2> QED
    BY <1>1, <1>4, <2>1 DEF IInv, TypeOK, durable, history
<1>6. StageInv' /\ JournalInv' /\ ContentInv' /\ RunInv'
  BY <1>1, <1>3 DEF IInv, Global, StageInv, JournalInv, ContentInv, RunInv, Pending, Known, Decision, Seen,
     durable, history
<1>7. OnceInv'
  BY <1>1, <1>2, <1>3 DEF IInv, Global, OnceInv, Running, Seen, durable, history
<1>8. SavedInv'
  BY <1>1, <1>3 DEF IInv, Global, SavedInv, Saving, durable, history
<1>9. FailedInv'
  <2>1. ASSUME NEW o \in Ops, Over(o)
        PROVE  Over(o)'
    BY <1>1, <1>2, <1>3, <2>1 DEF Over, Seen, durable, history
  <2> QED
    BY <1>1, <1>3, <2>1 DEF IInv, Global, FailedInv, durable, history
<1>10. Local'
  <2>1. CASE holder = p
    BY <1>2, <2>1, FreedLocal
  <2>2. CASE holder # p
    BY <1>1, <1>2, <1>3, <2>2, OthersLocal DEF durable, history
  <2> QED
    BY <2>1, <2>2
<1> QED
  BY <1>5, <1>6, <1>7, <1>8, <1>9, <1>10 DEF IInv, Global

LEMMA EditKeeps ==
  ASSUME IInv, NEW f \in Files, Edit(f)
  PROVE  IInv'
<1>1. PICK c \in Foreign : disk' = [disk EXCEPT ![f] = c]
  BY DEF Edit
<1>2. UNCHANGED <<journal, intent, decision, result, stage, op, answer, holder, run, expired, history>>
  BY DEF Edit
<1>3. /\ disk' \in [Files -> Contents] /\ disk'[f] \in Foreign
      /\ \A g \in Files : g # f => disk'[g] = disk[g]
  BY <1>1 DEF IInv, TypeOK, Contents
<1>4. (raced' <=> raced \/ f = run.cur) /\ raced' \in BOOLEAN
  BY DEF Edit
<1>5. troubles' \in 0 .. MaxTroubles
  BY MaxTroublesAssumption DEF Edit, Trouble, IInv, TypeOK
<1>6. TypeOK'
  BY <1>2, <1>3, <1>4, <1>5 DEF IInv, TypeOK, history
<1>7. StageInv' /\ OnceInv' /\ RunInv' /\ SavedInv' /\ FailedInv'
  BY <1>2 DEF IInv, Global, StageInv, OnceInv, Running, RunInv, SavedInv, FailedInv, Over, Seen, history
<1>8. JournalInv'
  <2>1. Pending => Dirty[journal.op] \subseteq Files
    BY DirtyAssumption DEF IInv, Global, JournalInv
  <2> QED
    BY <1>2, <1>3, <2>1 DEF IInv, Global, JournalInv, Pending, Known, Decision, history
<1>9. ContentInv'
  BY <1>2, <1>3, NullAssumption DEF IInv, Global, ContentInv, Foreign, history
<1>10. CASE holder = NoProc
  <2>1. run = Idle /\ ~raced /\ run.cur = NoFile
    BY <1>10 DEF IInv, Local, Idle
  <2>2. f # NoFile
    BY NullAssumption
  <2> QED
    BY <1>2, <1>4, <1>6, <1>7, <1>8, <1>9, <1>10, <2>1, <2>2 DEF IInv, Global, Local
<1>11. CASE holder # NoProc
  <2>1. HolderInv /\ StepInv /\ CommitInv /\ TodoInv /\ ProgressInv
    BY <1>11 DEF IInv, Local
  <2>2. HolderInv' /\ StepInv'
    BY <1>2, <2>1 DEF HolderInv, StepInv, Pending, Decision, history
  <2>3. CommitInv'
    <3>1. run.task = "commit" /\ run.step = "prepare" =>
            \A g \in Dirty[op[holder]] : disk'[g] = run.before[g] \/ disk'[g] \in Foreign
      <4>1. run.task = "commit" => Dirty[op[holder]] \subseteq Files
        BY <2>1, DirtyAssumption DEF HolderInv
      <4> QED
        BY <1>3, <2>1, <4>1 DEF CommitInv
    <3> QED
      BY <1>2, <2>1, <3>1 DEF CommitInv, history
  <2>4. TodoInv'
    <3>1. run.step # "write" => f # run.cur
      BY <2>1, NullAssumption DEF TodoInv
    <3>2. raced' => disk'[run.cur] \in Foreign
      BY <1>3, <1>4, <2>1, <3>1 DEF TodoInv, IInv, TypeOK, RunType
    <3>3. run.step = "write" /\ ~raced' => Known(run.cur)'
      BY <1>2, <1>3, <1>4, <2>1 DEF TodoInv, Known, IInv, TypeOK, RunType
    <3> QED
      BY <1>2, <1>4, <2>1, <3>1, <3>2, <3>3 DEF TodoInv
  <2>5. ProgressInv'
    <3>1. run.step \in {"file", "write", "decide", "unlink"} => Dirty[journal.op] \subseteq Files
      BY <2>1, DirtyAssumption DEF StepInv, IInv, Global, JournalInv
    <3> QED
      BY <1>2, <1>3, <2>1, <3>1 DEF ProgressInv, Target, Wanted
  <2> QED
    BY <1>2, <1>6, <1>7, <1>8, <1>9, <1>11, <2>2, <2>3, <2>4, <2>5 DEF IInv, Global, Local
<1> QED
  BY <1>10, <1>11

LEMMA ExpireKeeps ==
  ASSUME IInv, NEW o \in Ops, Expire(o)
  PROVE  IInv'
<1>1. /\ expired' = expired \cup {o} /\ troubles' \in 0 .. MaxTroubles
      /\ UNCHANGED <<durable, stage, op, answer, holder, run, history, raced>>
  BY MaxTroublesAssumption DEF Expire, Trouble, IInv, TypeOK
<1>2. TypeOK' /\ Seen \subseteq Seen'
  BY <1>1 DEF IInv, TypeOK, Seen, durable, history
<1>3. JournalInv' /\ ContentInv' /\ RunInv' /\ SavedInv'
  BY <1>1 DEF IInv, Global, JournalInv, ContentInv, RunInv, SavedInv, Pending, Known, Decision, durable, history
<1>4. StageInv' /\ OnceInv'
  BY <1>1, <1>2 DEF IInv, Global, StageInv, OnceInv, Running, durable, history
<1>5. FailedInv'
  <2>1. \A x \in Ops : Over(x) => Over(x)'
    BY <1>1, <1>2 DEF Over, durable, history
  <2> QED
    BY <1>1, <2>1 DEF IInv, Global, FailedInv, durable, history
<1>6. Local'
  BY <1>1 DEF IInv, Local, HolderInv, StepInv, CommitInv, TodoInv, ProgressInv, Target, Wanted, Known, Pending,
     Decision, durable, history
<1> QED
  BY <1>2, <1>3, <1>4, <1>5, <1>6 DEF IInv, Global

-----------------------------------------------------------------------------
(***************************************************************************)
(* The theorems.                                                           *)
(***************************************************************************)
LEMMA InitHolds == Init => IInv
<1> SUFFICES ASSUME Init PROVE IInv
  OBVIOUS
<1>1. NoJournal.phase = "none" /\ NoJournal.before = [f \in Files |-> Absent]
  BY DEF NoJournal
<1>2. TypeOK
  <2>1. NoJournal \in [phase : {"none", "prepared", "committed"}, op : Ops \cup {NoOp}, before : [Files -> Contents]]
    BY DEF NoJournal, Contents, Foreign
  <2>2. disk \in [Files -> Contents]
    BY DEF Init, Contents, Foreign
  <2>3. 0 \in 0 .. MaxTroubles
    BY MaxTroublesAssumption
  <2> QED
    BY <2>1, <2>2, <2>3, IdleType DEF Init, TypeOK, Words
<1>3. StageInv /\ JournalInv /\ OnceInv /\ RunInv /\ SavedInv /\ FailedInv
  BY <1>1 DEF Init, StageInv, JournalInv, OnceInv, RunInv, SavedInv, FailedInv, Pending, Saving, Running
<1>4. ContentInv
  BY <1>1, NullAssumption DEF Init, ContentInv, Foreign
<1> QED
  BY <1>2, <1>3, <1>4 DEF IInv, Global, Local, Init

LEMMA StutterKeeps ==
  ASSUME IInv, UNCHANGED vars
  PROVE  IInv'
<1>1. TypeOK' /\ StageInv' /\ JournalInv' /\ ContentInv' /\ RunInv' /\ SavedInv'
  BY DEF vars, durable, history, IInv, TypeOK, Global, StageInv, JournalInv, ContentInv, RunInv, SavedInv,
     Pending, Known, Decision, Seen
<1>2. OnceInv' /\ FailedInv'
  BY DEF vars, durable, history, IInv, Global, OnceInv, FailedInv, Over, Running, Seen
<1>3. Local'
  BY DEF vars, durable, history, IInv, Local, HolderInv, StepInv, CommitInv, TodoInv, ProgressInv, Target,
     Wanted, Known, Pending, Decision
<1> QED
  BY <1>1, <1>2, <1>3 DEF IInv, Global

LEMMA NextKeeps ==
  ASSUME IInv, [Next]_vars
  PROVE  IInv'
<1>1. ASSUME NEW p \in Procs, Work(p)
      PROVE  IInv'
  <2>1. CASE Recover(p)
    BY <2>1, RecoverNothingKeeps, RecoverBeginKeeps, RecoverConflictKeeps, RecoverFileKeeps,
       RecoveredAllKeeps DEF Recover
  <2>2. CASE Commit(p)
    BY <2>2, CommitCheckKeeps, CommitPrepareKeeps, CommitExpiredKeeps, CommitFileKeeps,
       CommitDurableKeeps DEF Commit
  <2>3. CASE WriteFile(p) \/ RecordDecision(p) \/ RemoveJournal(p)
    BY <2>3, WriteFileKeeps, RecordDecisionKeeps, RemoveJournalKeeps
  <2>4. CASE LoadDone(p) \/ StatusDone(p) \/ BeginExpired(p) \/ Begin(p)
    BY <2>4, LoadDoneKeeps, StatusDoneKeeps, BeginExpiredKeeps, BeginKeeps
  <2>5. CASE Execute(p) \/ Apply(p) \/ Saved(p) \/ Aborted(p) \/ Reload(p) \/ Finish(p)
    BY <2>5, ExecuteKeeps, ApplyKeeps, SavedKeeps, AbortedKeeps, ReloadKeeps, FinishKeeps
  <2> QED
    BY <1>1, <2>1, <2>2, <2>3, <2>4, <2>5 DEF Work
<1> QED
  BY <1>1, StutterKeeps, StartKeeps, CrashKeeps, EditKeeps, ExpireKeeps DEF Next

\* The strengthened invariant holds in every reachable state.
THEOREM Invariance == Spec => []IInv
BY InitHolds, NextKeeps, PTL DEF Spec

\* Every variable keeps its type.
THEOREM TypeCorrect == Spec => []TypeOK
<1>1. IInv => TypeOK
  BY DEF IInv
<1> QED
  BY <1>1, Invariance, PTL

\* Without a journal every file is as a committed operation, an editor or the
\* user left it: recovery and commit() never leave half a transaction behind.
THEOREM ContentCommitted == Spec => []OnlyCommittedContent
<1>1. IInv => OnlyCommittedContent
  BY DEF IInv, Global, ContentInv, OnlyCommittedContent
<1> QED
  BY <1>1, Invariance, PTL

\* What clients are told of an operation is true and stays true.
THEOREM Honest == Spec => []HonestReports
<1>1. IInv => HonestReports
  BY DEF IInv, Global, SavedInv, FailedInv, Over, HonestReports, Saving
<1> QED
  BY <1>1, Invariance, PTL

\* No id is carried out or followed by a reload twice.
THEOREM OnceOnly == Spec => []AtMostOnce
<1>1. IInv => AtMostOnce
  BY DEF IInv, Global, OnceInv, AtMostOnce
<1> QED
  BY <1>1, Invariance, PTL

-----------------------------------------------------------------------------
(***************************************************************************)
(* Steps: who changes a file, and who changes a decision.                  *)
(***************************************************************************)
LEMMA FilesChange ==
  ASSUME Next, disk' # disk
  PROVE  (\E p \in Procs : WriteFile(p)) \/ \E f \in Files : Edit(f)
BY ZenonT(60) DEF Next, Work, Recover, Commit, Start, Crash, Expire, RecoverNothing, RecoverBegin, RecoverConflict,
   RecoverFile, RecoveredAll, CommitCheck, CommitPrepare, CommitExpired, CommitFile, CommitDurable,
   RecordDecision, RemoveJournal, LoadDone, StatusDone, BeginExpired, Begin, Execute, Apply, Saved, Aborted,
   Reload, Finish, durable

LEMMA DecisionChanges ==
  ASSUME Next, decision' # decision
  PROVE  \E p \in Procs : RecordDecision(p) \/ Begin(p)
BY ZenonT(60) DEF Next, Work, Recover, Commit, Start, Crash, Edit, Expire, RecoverNothing, RecoverBegin, RecoverConflict,
   RecoverFile, RecoveredAll, CommitCheck, CommitPrepare, CommitExpired, CommitFile, CommitDurable, WriteFile,
   RemoveJournal, LoadDone, StatusDone, BeginExpired, Execute, Apply, Saved, Aborted, Reload, Finish, durable

\* A write of a transaction goes to the file in hand.
LEMMA WriteTouchesOne ==
  ASSUME IInv, NEW p \in Procs, WriteFile(p)
  PROVE  /\ holder = p /\ holder # NoProc /\ run.step = "write" /\ run.cur \in run.todo /\ run.cur \in Files
         /\ \A f \in Files : f # run.cur => disk'[f] = disk[f]
         /\ run.cur \in Dirty[journal.op] /\ Pending
<1>1. holder = p /\ holder # NoProc /\ run.step = "write"
  BY HolderIsSomebody DEF WriteFile, At
<1>2. /\ run.cur \in run.todo /\ run.cur \in Files
      /\ run.cur \in Dirty[journal.op] /\ Pending
  BY <1>1 DEF IInv, TypeOK, RunType, Local, StepInv, TodoInv
<1>3. disk' \in {disk, [disk EXCEPT ![run.cur] = Written(p)]}
  BY DEF WriteFile
<1>4. \A f \in Files : f # run.cur => disk'[f] = disk[f]
  BY <1>2, <1>3 DEF IInv, TypeOK
<1> QED
  BY <1>1, <1>2, <1>4

\* commit() and recovery overwrite what the operation started from and what it
\* wrote itself, and an edit only when it came after the last look.
THEOREM EditsKept == Spec => EditsSurvive
<1> DEFINE A == \A f \in Files :
                  disk'[f] # disk[f] /\ ~Edit(f) =>
                    \/ disk[f] \in {journal.before[f], journal.op}
                    \/ raced /\ f = run.cur
<1>1. ASSUME IInv, Next
      PROVE  A
  <2> SUFFICES ASSUME NEW f \in Files, disk'[f] # disk[f], ~Edit(f)
               PROVE  disk[f] \in {journal.before[f], journal.op} \/ (raced /\ f = run.cur)
    OBVIOUS
  <2>1. ASSUME NEW p \in Procs, WriteFile(p)
        PROVE  disk[f] \in {journal.before[f], journal.op} \/ (raced /\ f = run.cur)
    <3>1. holder # NoProc /\ run.step = "write" /\ f = run.cur
      BY <1>1, <2>1, WriteTouchesOne
    <3> QED
      BY <1>1, <3>1 DEF IInv, Local, TodoInv, Known
  <2>2. ASSUME NEW g \in Files, Edit(g)
        PROVE  FALSE
    <3>1. g = f
      BY <1>1, <2>2 DEF Edit, IInv, TypeOK
    <3> QED
      BY <2>2, <3>1
  <2> QED
    BY <1>1, <2>1, <2>2, FilesChange
<1>2. ASSUME UNCHANGED vars
      PROVE  UNCHANGED disk
  BY <1>2 DEF vars, durable
<1>3. IInv /\ [Next]_vars => [A]_vars
  BY <1>1
<1> QED
  BY <1>3, Invariance, PTL DEF Spec, EditsSurvive

\* No recovery turns a recorded decision into the opposite one.
THEOREM DecisionsStand == Spec => DecisionStands
<1> DEFINE A == \A o \in Ops : decision[o] # "none" => decision'[o] \in {decision[o], "none"}
<1>1. ASSUME IInv, Next
      PROVE  A
  <2> SUFFICES ASSUME NEW o \in Ops, decision[o] # "none", decision'[o] # decision[o]
               PROVE  decision'[o] = "none"
    OBVIOUS
  <2>1. ASSUME NEW p \in Procs, RecordDecision(p)
        PROVE  FALSE
    <3>1. Pending
      BY <1>1, <2>1, HolderIsSomebody DEF RecordDecision, At, IInv, Local, StepInv
    <3>2. journal.op \in Ops /\ decision[journal.op] \in {"none", Decision}
      BY <1>1, <3>1 DEF IInv, Global, JournalInv
    <3>3. decision' \in {decision, [decision EXCEPT ![journal.op] = Decision]}
      BY <2>1 DEF RecordDecision
    <3> QED
      BY <1>1, <3>2, <3>3 DEF IInv, TypeOK
  <2>2. ASSUME NEW p \in Procs, Begin(p)
        PROVE  decision'[o] = "none"
    BY <2>2 DEF Begin
  <2> QED
    BY <1>1, <2>1, <2>2, DecisionChanges
<1>2. IInv /\ [Next]_vars => [A]_vars
  BY <1>1
<1> QED
  BY <1>2, Invariance, PTL DEF Spec, DecisionStands

-----------------------------------------------------------------------------
(***************************************************************************)
(* Refinement: Config, the files as a recovery would leave them, changes   *)
(* like an atomic save.                                                    *)
(***************************************************************************)
Intended(f) == IF Pending /\ f \in Dirty[journal.op] /\ Known(f) THEN Wanted(f) ELSE disk[f]

LEMMA ConfigAt ==
  /\ \A f \in Files : Config[f] = Intended(f)
  /\ \A f \in Files : (Config')[f] = Intended(f)'
BY DEF Config, Intended, Pending

LEMMA ConfigType ==
  /\ IInv => Config \in [Files -> Contents]
  /\ IInv' => Config' \in [Files -> Contents]
<1>1. ASSUME IInv
      PROVE  Config \in [Files -> Contents]
  <2>1. \A f \in Files : Intended(f) \in Contents
    BY <1>1 DEF IInv, TypeOK, Global, JournalInv, Intended, Wanted, Contents
  <2> QED
    BY <2>1 DEF Config, Intended, Pending
<1>2. ASSUME IInv'
      PROVE  Config' \in [Files -> Contents]
  <2>1. \A f \in Files : Intended(f)' \in Contents
    BY <1>2 DEF IInv, TypeOK, Global, JournalInv, Intended, Wanted, Contents
  <2> QED
    BY <2>1 DEF Config, Intended, Pending
<1> QED
  BY <1>1, <1>2

\* A step that puts an editor's contents into files, or does nothing to them.
LEMMA LikeAnEdit ==
  ASSUME IInv', UNCHANGED <<committed, told>>,
         \A f \in Files : (Config')[f] # Config[f] => (Config')[f] \in Foreign,
         journal'.phase = "committed" => journal.phase = "committed" /\ journal'.op = journal.op
  PROVE  Abstract!Edit
<1>1. Config' \in [Files -> Contents]
  BY ConfigType
<1>2. raced' => run'.cur \in Files
  BY DEF IInv, TypeOK, RunType, Local, TodoInv
<1> QED
  BY <1>1, <1>2 DEF Abstract!Edit

LEMMA LeavesFiles ==
  ASSUME IInv', UNCHANGED <<disk, journal, committed, told>>
  PROVE  Abstract!Edit
<1>1. \A f \in Files : (Config')[f] = Config[f]
  BY ConfigAt DEF Intended, Pending, Known, Wanted
<1> QED
  BY <1>1, LikeAnEdit

\* Preparing the journal changes nothing: the files are as it says.
LEMMA PrepareRefines ==
  ASSUME IInv, IInv', NEW p \in Procs, CommitPrepare(p)
  PROVE  Abstract!Edit
<1>1. UNCHANGED <<disk, committed, told>> /\ journal' \in {journal, Prepared(p)}
  BY DEF CommitPrepare, history
<1>2. CASE journal' = journal
  BY <1>1, <1>2, LeavesFiles
<1>3. CASE journal' = Prepared(p)
  <2>1. journal'.phase = "prepared" /\ journal'.op = op[p] /\ journal'.before = run.before
    BY <1>3, PreparedFields
  <2>2. holder = p /\ holder # NoProc /\ run.step = "prepare" /\ run.task = "commit"
    BY HolderIsSomebody DEF CommitPrepare, At, IInv, Local, StepInv
  <2>3. /\ op[p] \in Ops /\ ~Pending
        /\ \A f \in Dirty[op[p]] : disk[f] = run.before[f] \/ disk[f] \in Foreign
    BY <2>2 DEF IInv, Local, HolderInv, StepInv, CommitInv
  <2>4. \A f \in Files : Intended(f)' = Intended(f)
    BY <1>1, <2>1, <2>3, NullAssumption DEF Intended, Known, Wanted, Pending
  <2> QED
    BY <1>1, <2>1, <2>4, ConfigAt, LikeAnEdit
<1> QED
  BY <1>1, <1>2, <1>3

\* A write is a stutter, unless it hits an edit that came a moment ago.
LEMMA WriteRefines ==
  ASSUME IInv, IInv', NEW p \in Procs, WriteFile(p)
  PROVE  Abstract!Edit \/ Abstract!LoseEdit
<1>1. UNCHANGED <<journal, committed, told>>
  BY DEF WriteFile, history
<1>2. CASE disk' = disk
  BY <1>1, <1>2, LeavesFiles
<1>3. CASE disk' # disk
  <2>1. disk' = [disk EXCEPT ![run.cur] = Written(p)]
    BY <1>3 DEF WriteFile
  <2>2. /\ holder = p /\ holder # NoProc /\ run.step = "write" /\ run.cur \in run.todo /\ run.cur \in Files
        /\ \A f \in Files : f # run.cur => disk'[f] = disk[f]
        /\ run.cur \in Dirty[journal.op] /\ Pending
    BY WriteTouchesOne
  <2>3. disk'[run.cur] = Target(run.cur)
    BY <1>1, <2>1, WriteKeepsGlobal DEF WriteFile, history
  <2>4. Target(run.cur) \in {journal.before[run.cur], journal.op}
    BY DEF Target, Wanted
  <2>5. \A f \in Files : f # run.cur => (Config')[f] = Config[f]
    BY <1>1, <2>2, ConfigAt DEF Intended, Pending, Known, Wanted
  <2>6. (Config')[run.cur] = Wanted(run.cur)
    BY <1>1, <2>2, <2>3, <2>4, ConfigAt DEF Intended, Pending, Known, Wanted
  <2>7. CASE Known(run.cur)
    <3>1. Config[run.cur] = Wanted(run.cur)
      BY <2>2, <2>7, ConfigAt DEF Intended
    <3> QED
      BY <1>1, <2>5, <2>6, <3>1, LikeAnEdit
  <2>8. CASE ~Known(run.cur)
    <3>1. raced
      BY <2>2, <2>8 DEF IInv, Local, TodoInv
    <3>2. Config[run.cur] = disk[run.cur] /\ disk[run.cur] \in Foreign
      BY <2>2, <2>8, ConfigAt DEF Intended, IInv, Global, JournalInv
    <3>3. raced' = FALSE
      <4>1. CASE raced' = FALSE
        BY <4>1
      <4>2. CASE Failed(p)
        BY <2>2, <4>2, FailedOutcome DEF IInv, ToRecovery, GivesUp
      <4> QED
        BY <1>3, <4>1, <4>2 DEF WriteFile, WriteFails
    <3>4. Config \in [Files -> Contents] /\ Config' \in [Files -> Contents]
      BY ConfigType
    <3>5. Config' = [Config EXCEPT ![run.cur] = Wanted(run.cur)] /\ Wanted(run.cur) \in Contents
      BY <2>2, <2>5, <2>6, <3>4
    <3> QED
      BY <1>1, <2>2, <3>1, <3>2, <3>3, <3>5 DEF Abstract!LoseEdit
  <2> QED
    BY <2>7, <2>8
<1> QED
  BY <1>2, <1>3

\* The step that makes the journal durable is the save.
LEMMA DurableRefines ==
  ASSUME IInv, IInv', NEW p \in Procs, CommitDurable(p)
  PROVE  Abstract!Edit \/ \E o \in Ops : Abstract!Save(o)
<1>1. UNCHANGED <<disk, told>>
  BY DEF CommitDurable
<1>2. CASE UNCHANGED <<journal, committed>>
  BY <1>1, <1>2, LeavesFiles
<1>3. CASE /\ journal' = [journal EXCEPT !.phase = "committed"]
           /\ committed' = committed \cup {op[p]}
  <2>1. holder = p /\ holder # NoProc /\ run.step = "file" /\ run.task = "commit" /\ run.todo = {}
    BY HolderIsSomebody DEF CommitDurable, At
  <2>2. /\ op[p] \in Ops /\ Pending /\ journal.phase = "prepared" /\ journal.op = op[p] /\ op[p] \notin committed
        /\ \A f \in Dirty[op[p]] : disk[f] = op[p] \/ disk[f] \in Foreign
        /\ ~raced
    BY <2>1 DEF IInv, Local, HolderInv, StepInv, CommitInv, TodoInv, ProgressInv, Target, Pending
  <2>3. journal'.phase = "committed" /\ journal'.op = op[p] /\ journal'.before = journal.before
    BY <1>3, <2>2 DEF IInv, TypeOK
  <2>4. Dirty[op[p]] \subseteq Files
    BY <2>2, DirtyAssumption
  <2>5. \A f \in Files : f \notin Dirty[op[p]] \/ ~Known(f) => (Config')[f] = Config[f]
    BY <1>1, <2>2, <2>3, ConfigAt DEF Intended, Known
  <2>6. \A f \in Dirty[op[p]] : Known(f) => (Config')[f] = op[p]
    BY <1>1, <2>2, <2>3, <2>4, ConfigAt DEF Intended, Known, Wanted, Pending
  <2>7. \A f \in Dirty[op[p]] : ~Known(f) => Config[f] \in Foreign
    BY <2>2, <2>4, ConfigAt DEF Intended, Known
  <2>8. raced' = FALSE
    <3>1. CASE UNCHANGED raced
      BY <2>2, <3>1 DEF IInv, TypeOK
    <3>2. CASE Failed(p)
      BY <2>1, <3>2, FailedOutcome DEF IInv, ToRecovery, GivesUp
    <3> QED
      BY <3>1, <3>2 DEF CommitDurable, WriteFails
  <2>9. Dirty[op[p]] # {} => "failed" \notin told[op[p]]
    BY <1>1, <1>3, <2>2 DEF IInv, Global, FailedInv, Over
  <2>10. Config' \in [Files -> Contents]
    BY ConfigType
  <2>11. Abstract!Save(op[p])
    BY <1>1, <1>3, <2>2, <2>3, <2>5, <2>6, <2>7, <2>8, <2>9, <2>10 DEF Abstract!Save
  <2> QED
    BY <2>2, <2>11
<1> QED
  BY <1>2, <1>3 DEF CommitDurable

\* When the journal goes, its files are as it wants them, or edited.
LEMMA RemoveRefines ==
  ASSUME IInv, IInv', NEW p \in Procs, RemoveJournal(p)
  PROVE  Abstract!Edit
<1>1. UNCHANGED <<disk, committed, told>> /\ journal' \in {journal, NoJournal}
  BY DEF RemoveJournal, history
<1>2. CASE journal' = journal
  BY <1>1, <1>2, LeavesFiles
<1>3. CASE journal' = NoJournal
  <2>1. journal'.phase = "none"
    BY <1>3 DEF NoJournal
  <2>2. holder = p /\ holder # NoProc /\ run.step = "unlink" /\ run.todo = {}
    BY HolderIsSomebody DEF RemoveJournal, At, IInv, Local, TodoInv
  <2>3. \A f \in Dirty[journal.op] : disk[f] = Wanted(f) \/ disk[f] \in Foreign
    BY <2>2 DEF IInv, Local, ProgressInv, CommitInv, Target, Wanted
  <2>4. \A f \in Files : (Config')[f] = disk[f]
    BY <1>1, <2>1, ConfigAt DEF Intended, Pending
  <2>5. \A f \in Files : Config[f] # disk[f] => disk[f] \in Foreign
    BY <2>3, ConfigAt DEF Intended
  <2> QED
    BY <1>1, <2>1, <2>4, <2>5, LikeAnEdit
<1> QED
  BY <1>1, <1>2, <1>3

\* An edit is one, unless it puts back what an unsettled save had replaced.
LEMMA EditRefines ==
  ASSUME IInv, IInv', NEW f \in Files, Edit(f)
  PROVE  Abstract!Edit \/ Abstract!RedoSave
<1>1. PICK c \in Foreign : disk' = [disk EXCEPT ![f] = c]
  BY DEF Edit
<1>2. UNCHANGED <<journal, holder, run, committed, told>> /\ (raced' <=> raced \/ f = run.cur)
  BY DEF Edit, history
<1>3. disk'[f] = c /\ \A g \in Files : g # f => disk'[g] = disk[g]
  BY <1>1 DEF IInv, TypeOK
<1>4. \A g \in Files : g # f => (Config')[g] = Config[g]
  BY <1>2, <1>3, ConfigAt DEF Intended, Pending, Known, Wanted
<1>5. CASE (Config')[f] = Config[f] \/ (Config')[f] \in Foreign
  BY <1>2, <1>4, <1>5, LikeAnEdit
<1>6. CASE (Config')[f] # Config[f] /\ (Config')[f] \notin Foreign
  <2>1. Pending /\ f \in Dirty[journal.op] /\ Known(f)' /\ (Config')[f] = Wanted(f)
    BY <1>2, <1>3, <1>6, ConfigAt DEF Intended, Pending, Wanted
  <2>2. journal.op \in Ops /\ journal.phase \in {"prepared", "committed"}
    BY <2>1 DEF Pending, IInv, TypeOK, Global, JournalInv
  <2>3. c = journal.before[f]
    BY <1>2, <1>3, <2>1, <2>2, NullAssumption DEF Known
  <2>4. journal.phase = "committed" /\ Wanted(f) = journal.op
    BY <1>6, <2>1, <2>2, <2>3 DEF Wanted
  <2>5. ~Known(f)
    BY <1>6, <2>1, ConfigAt DEF Intended
  <2>6. Config[f] \in Foreign
    BY <2>1, <2>5, ConfigAt DEF Intended, IInv, Global, JournalInv
  <2>7. raced' <=> raced
    <3>1. CASE f = run.cur
      <4>1. holder # NoProc
        BY <3>1, NullAssumption DEF IInv, Local, Idle
      <4>2. run.step = "write"
        BY <3>1, <4>1, NullAssumption DEF IInv, Local, TodoInv
      <4> QED
        BY <1>2, <2>5, <3>1, <4>1, <4>2 DEF IInv, Local, TodoInv
    <3> QED
      BY <1>2, <3>1
  <2>8. Config \in [Files -> Contents] /\ Config' \in [Files -> Contents]
    BY ConfigType
  <2>9. Config' = [Config EXCEPT ![f] = journal.op]
    BY <1>4, <2>1, <2>4, <2>8
  <2> QED
    BY <1>2, <2>1, <2>2, <2>4, <2>6, <2>7, <2>9 DEF Abstract!RedoSave
<1> QED
  BY <1>5, <1>6

\* What is said is true: it is in told' already.
LEMMA SaysTheTruth ==
  ASSUME IInv, IInv', NEW o \in Ops, NEW word \in Words, Tell(o, word),
         UNCHANGED <<disk, journal, committed>>, (~raced' /\ ~raced) \/ UNCHANGED <<raced, run>>
  PROVE  Abstract!Report(o, word)
<1>1. told' = [told EXCEPT ![o] = @ \cup {word}]
  BY DEF Tell
<1>2. word \in told'[o]
  BY <1>1 DEF IInv, TypeOK
<1>3. /\ word \in Saving => o \in committed
      /\ word = "failed" /\ Dirty[o] # {} => o \notin committed
  BY <1>2 DEF IInv, Global, SavedInv, FailedInv, Over
<1>4. \A f \in Files : (Config')[f] = Config[f]
  BY ConfigAt DEF Intended, Pending, Known, Wanted
<1>5. Config' = Config
  BY <1>4, ConfigType
<1> QED
  BY <1>1, <1>3, <1>5 DEF Abstract!Report, Saving

LEMMA ReportRefines ==
  ASSUME IInv, IInv', NEW p \in Procs, StatusDone(p) \/ Finish(p)
  PROVE  \E o \in Ops, word \in Words : Abstract!Report(o, word)
<1>1. CASE StatusDone(p)
  <2>1. holder = p /\ holder # NoProc /\ run.step = "settled" /\ run.task \in {"begin", "status"}
    BY <1>1, HolderIsSomebody DEF StatusDone, At
  <2>2. op[p] \in Ops /\ ~raced
    BY <2>1 DEF IInv, Local, HolderInv, TodoInv
  <2>3. Status(op[p]) \in Words
    BY <2>2 DEF Status, Words, IInv, TypeOK
  <2>4. /\ Tell(op[p], Status(op[p])) /\ raced' = FALSE
        /\ UNCHANGED <<disk, journal, committed>>
    BY <1>1 DEF StatusDone, Release, durable
  <2> QED
    BY <2>2, <2>3, <2>4, SaysTheTruth
<1>2. CASE Finish(p)
  <2>1. /\ stage[p] = "executed" /\ Tell(op[p], answer[p])
        /\ UNCHANGED <<disk, journal, committed, raced, run>>
    BY <1>2 DEF Finish
  <2>2. op[p] \in Ops /\ answer[p] \in Words
    BY <2>1 DEF IInv, TypeOK, Global, StageInv
  <2> QED
    BY <2>1, <2>2, SaysTheTruth
<1> QED
  BY <1>1, <1>2

LEMMA StepRefines ==
  ASSUME IInv, IInv', Next
  PROVE  Abstract!Next
<1>1. ASSUME NEW p \in Procs, CommitPrepare(p) \/ WriteFile(p) \/ CommitDurable(p) \/ RemoveJournal(p)
      PROVE  Abstract!Next
  BY <1>1, PrepareRefines, WriteRefines, DurableRefines, RemoveRefines DEF Abstract!Next
<1>2. ASSUME NEW f \in Files, Edit(f)
      PROVE  Abstract!Next
  BY <1>2, EditRefines DEF Abstract!Next
<1>3. ASSUME NEW p \in Procs, StatusDone(p) \/ Finish(p)
      PROVE  Abstract!Next
  BY <1>3, ReportRefines DEF Abstract!Next
<1>4. CASE UNCHANGED <<disk, journal, committed, told>>
  BY SMTT(30), <1>4, LeavesFiles DEF Abstract!Next
<1>5. ASSUME NEW p \in Procs,
             Start(p) \/ Recover(p) \/ CommitCheck(p) \/ CommitExpired(p) \/ CommitFile(p) \/ RecordDecision(p)
      PROVE  UNCHANGED <<disk, journal, committed, told>>
  BY <1>5 DEF Start, Recover, RecoverNothing, RecoverBegin, RecoverConflict, RecoverFile, RecoveredAll,
     CommitCheck, CommitExpired, CommitFile, RecordDecision, durable, history
<1>6. ASSUME NEW p \in Procs,
             \/ LoadDone(p) \/ BeginExpired(p) \/ Begin(p) \/ Execute(p) \/ Apply(p) \/ Saved(p)
             \/ Aborted(p) \/ Reload(p) \/ Crash(p)
      PROVE  UNCHANGED <<disk, journal, committed, told>>
  BY <1>6 DEF LoadDone, BeginExpired, Begin, Execute, Apply, Saved, Aborted, Reload, Crash, durable, history
<1>7. ASSUME NEW o \in Ops, Expire(o)
      PROVE  UNCHANGED <<disk, journal, committed, told>>
  BY <1>7 DEF Expire, durable, history
<1> QED
  BY <1>1, <1>2, <1>3, <1>4, <1>5, <1>6, <1>7 DEF Next, Work, Commit

LEMMA InitRefines == Init => Abstract!Init
<1> SUFFICES ASSUME Init PROVE Abstract!Init
  OBVIOUS
<1>1. Config = disk
  <2>1. ~Pending
    BY DEF Init, Pending, NoJournal
  <2> QED
    BY <2>1, ConfigAt, InitHolds, ConfigType DEF Intended, IInv, TypeOK
<1>2. disk \in [Files -> Contents \ Ops]
  BY NullAssumption DEF Init, Contents, Foreign
<1>3. journal.phase = "none"
  BY DEF Init, NoJournal
<1> QED
  BY <1>1, <1>2, <1>3 DEF Init, Abstract!Init

\* Writing several files under a journal, with crashes, failed writes and
\* edits, is one atomic save as far as anybody can tell.
THEOREM Refinement == Spec => ImplementsAtomicSave
<1>1. ASSUME UNCHANGED vars
      PROVE  UNCHANGED Abstract!vars
  <2>1. UNCHANGED <<disk, journal, committed, told, run, raced>>
    BY <1>1 DEF vars, durable, history
  <2> QED
    BY <2>1 DEF Abstract!vars, Config, Known, Wanted
<1>2. IInv /\ IInv' /\ [Next]_vars => [Abstract!Next]_(Abstract!vars)
  BY <1>1, StepRefines
<1> QED
  BY <1>2, InitRefines, Invariance, PTL DEF Spec, ImplementsAtomicSave, Abstract!Spec
=============================================================================
