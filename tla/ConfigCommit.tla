---------------------------- MODULE ConfigCommit ----------------------------
(***************************************************************************)
(* Saving the configuration: ConfigTransaction.zig replaces several files  *)
(* under a writer lock and a journal, receipts.zig keeps a durable record  *)
(* of every operation, and the helper (root.zig, operations.zig,           *)
(* config_main.zig) and the compositor's loader run them in processes that *)
(* may die between any two steps.  Other programs edit the files without   *)
(* taking the lock, and a write may fail before or after it took effect.   *)
(*                                                                         *)
(* A file's content is the operation that wrote it, or one of a few        *)
(* values; an operation is identified by its id, and the same id always    *)
(* comes with the same request.                                            *)
(***************************************************************************)
EXTENDS Integers, FiniteSets

CONSTANTS
  Procs,       \* helper and compositor processes
  Files,       \* the configuration files
  Ops,         \* operation ids
  Dirty,       \* the files each operation changes
  Previews,    \* the operations that confirm a display preview
  Base,        \* the content of a file nobody has touched
  Edited,      \* what an editor leaves in a file
  Absent,      \* no such file
  NoProc, NoOp, NoFile,
  MaxTroubles  \* how much may go wrong: crashes, edits, failed writes, old ids

Foreign == {Edited, Absent}
Contents == Ops \cup {Base} \cup Foreign

ASSUME DirtyAssumption ==
  /\ Dirty \in [Ops -> SUBSET Files]
  /\ \A o \in Ops \ Previews : Dirty[o] # {}
ASSUME NullAssumption ==
  /\ NoProc \notin Procs /\ NoOp \notin Ops /\ NoFile \notin Files
  /\ ({Base} \cup Foreign) \cap Ops = {} /\ Base \notin Foreign
ASSUME MaxTroublesAssumption == MaxTroubles \in Nat

VARIABLES
  disk,       \* the configuration files
  journal,    \* active.json: phase, operation, content before
  intent, decision, result,   \* the receipts directory
  stage,      \* where each process is when it does not hold the lock
  op,         \* the operation it was started for
  answer,     \* the `save` of its result, once it has executed
  holder,     \* the process that holds the writer lock
  run,        \* and its local variables
  expired,    \* the ids older than lifetime_seconds
  troubles    \* how much has gone wrong

\* What happened, for the properties: the operations whose journal was made
\* durable as committed, what was said about each, how often each was
\* carried out and followed by a reload, and whether somebody has edited the
\* file that the lock holder is about to write, since it last looked at it.
VARIABLES committed, told, runs, reloads, raced

durable == <<disk, journal, intent, decision, result>>
history == <<committed, told, runs, reloads>>
vars == <<durable, stage, op, answer, holder, run, expired, troubles, history, raced>>

Words == {"saved", "unchanged", "failed", "uncertain"}
Tasks == {"begin", "status", "load", "apply", "commit", "abort"}
Steps == {"recover", "file", "write", "decide", "unlink", "settled", "commit", "prepare"}

NoJournal == [phase |-> "none", op |-> NoOp, before |-> [f \in Files |-> Absent]]
Idle == [task |-> "load", step |-> "settled", todo |-> {}, cur |-> NoFile,
         before |-> [f \in Files |-> Absent], saved |-> FALSE]

RunType ==
  [ task : Tasks, step : Steps,
    todo : SUBSET Files,           \* entries not dealt with yet
    cur : Files \cup {NoFile},     \* the file about to be written
    before : [Files -> Contents],  \* what execute found
    saved : BOOLEAN ]              \* Control.saved

TypeOK ==
  /\ disk \in [Files -> Contents]
  /\ journal \in [ phase : {"none", "prepared", "committed"},
                   op : Ops \cup {NoOp},
                   before : [Files -> Contents] ]
  /\ intent \subseteq Ops
  /\ decision \in [Ops -> {"none", "saved", "unchanged", "failed"}]
  /\ result \in [Ops -> Words \cup {"none"}]
  /\ stage \in [Procs -> {"idle", "admitted", "reloading", "executed"}]
  /\ op \in [Procs -> Ops \cup {NoOp}]
  /\ answer \in [Procs -> Words \cup {"none"}]
  /\ holder \in Procs \cup {NoProc}
  /\ run \in RunType
  /\ expired \subseteq Ops
  /\ troubles \in 0 .. MaxTroubles
  /\ committed \subseteq Ops
  /\ told \in [Ops -> SUBSET Words]
  /\ runs \in [Ops -> Nat]
  /\ reloads \in [Ops -> Nat]
  /\ raced \in BOOLEAN

Init ==
  /\ disk \in [Files -> {Base, Absent}]
  /\ journal = NoJournal
  /\ intent = {}
  /\ decision = [o \in Ops |-> "none"]
  /\ result = [o \in Ops |-> "none"]
  /\ stage = [p \in Procs |-> "idle"]
  /\ op = [p \in Procs |-> NoOp]
  /\ answer = [p \in Procs |-> "none"]
  /\ holder = NoProc
  /\ run = Idle
  /\ expired = {}
  /\ troubles = 0
  /\ committed = {}
  /\ told = [o \in Ops |-> {}]
  /\ runs = [o \in Ops |-> 0]
  /\ reloads = [o \in Ops |-> 0]
  /\ raced = FALSE

\* Something goes wrong, MaxTroubles times at most.
Trouble == troubles < MaxTroubles /\ troubles' = troubles + 1

-----------------------------------------------------------------------------
(***************************************************************************)
(* The writer lock.                                                        *)
(***************************************************************************)
Acquire(p, task, step) ==
  /\ holder = NoProc
  /\ holder' = p
  /\ run' = [Idle EXCEPT !.task = task, !.step = step]

\* Back to `next`, without the lock.
Release(next) ==
  /\ holder' = NoProc
  /\ run' = Idle
  /\ raced' = FALSE
  /\ stage' = [stage EXCEPT ![holder] = next]

At(p, step) == holder = p /\ run.step = step
Goto(step) == run' = [run EXCEPT !.step = step]

SavedWord(o) == IF Dirty[o] = {} THEN "unchanged" ELSE "saved"

\* Mutant: an operation without a decision has the answer that was stored.
StatusWithoutReceipt(o) ==
  CASE o \in expired         -> "uncertain"
    [] result[o] # "none"    -> result[o]
    [] OTHER                 -> decision[o]

\* What operation-status says: a result, else a decision, else "uncertain".
Status(o) ==
  CASE o \in expired         -> "uncertain"
    [] result[o] # "none"    -> result[o]
    [] decision[o] # "none"  -> decision[o]
    [] OTHER                 -> "uncertain"

Tell(o, word) == told' = [told EXCEPT ![o] = @ \cup {word}]

\* execute() is over: the lock is released and the result is known.
Conclude(p, word, next) ==
  /\ answer' = [answer EXCEPT ![p] = word]
  /\ Release(next)

\* Mutant: a commit() that reports an error has not saved anything.
EndApplyAsFailed(p, saved) ==
  IF saved
  THEN Conclude(p, SavedWord(op[p]), IF op[p] \in Previews THEN "executed" ELSE "reloading")
  ELSE Conclude(p, "failed", "executed")

\* The end of the apply that called commit(): a failed one goes on to the
\* reload if the files are saved and no preview has to be confirmed first.
EndApply(p, saved) ==
  IF saved
  THEN Conclude(p, SavedWord(op[p]), IF op[p] \in Previews THEN "executed" ELSE "reloading")
  ELSE Conclude(p, IF Dirty[op[p]] = {} THEN "failed" ELSE "uncertain", "executed")

(***************************************************************************)
(* An error of the lock holder.  Inside commit() it leads to a recovery by *)
(* the same process; an error of that recovery, or one before commit(),    *)
(* ends the execution; any other process gives up.                         *)
(***************************************************************************)
Failed(p) ==
  \/ /\ run.task = "commit"
     /\ run' = [run EXCEPT !.task = "abort", !.step = "recover", !.todo = {}, !.cur = NoFile]
     /\ raced' = FALSE
     /\ UNCHANGED <<holder, stage, op, answer>>
  \/ /\ run.task = "abort"
     /\ EndApply(p, run.saved)
     /\ UNCHANGED op
  \/ /\ run.task = "apply"
     /\ Conclude(p, "failed", "executed")
     /\ UNCHANGED op
  \/ /\ run.task \in {"begin", "status", "load"}
     /\ Release("idle")
     /\ op' = [op EXCEPT ![p] = NoOp]
     /\ UNCHANGED answer

\* A durable write failed.  The rename may have happened nevertheless.
WriteFails(p) ==
  /\ Trouble
  /\ Failed(p)

-----------------------------------------------------------------------------
(***************************************************************************)
(* recover(): roll the journal's files back, or forward once it is         *)
(* committed.  Nothing is touched unless every file is as the transaction  *)
(* found it or as it leaves it.                                            *)
(***************************************************************************)
\* Mutant: recovery always goes forward.
WantedForward(f) == journal.op

Wanted(f) == IF journal.phase = "committed" THEN journal.op ELSE journal.before[f]
Known(f) == disk[f] \in {journal.before[f], journal.op}

\* Mutant: a journal that is only prepared is left for the next writer.
RecoverNothingPrepared(p) ==
  /\ At(p, "recover") /\ journal.phase # "committed"
  /\ Goto("settled")
  /\ UNCHANGED <<durable, stage, op, answer, holder, expired, troubles, history, raced>>

RecoverNothing(p) ==
  /\ At(p, "recover") /\ journal.phase = "none"
  /\ Goto("settled")
  /\ UNCHANGED <<durable, stage, op, answer, holder, expired, troubles, history, raced>>

RecoverBegin(p) ==
  /\ At(p, "recover") /\ journal.phase # "none"
  /\ \A f \in Dirty[journal.op] : Known(f)
  /\ run' = [run EXCEPT !.step = "file", !.todo = Dirty[journal.op]]
  /\ UNCHANGED <<durable, stage, op, answer, holder, expired, troubles, history, raced>>

\* Mutant: recovery tries again until the conflict is gone.
RecoverConflictRetries(p) ==
  /\ \/ At(p, "recover") /\ journal.phase # "none" /\ \E f \in Dirty[journal.op] : ~Known(f)
     \/ At(p, "file") /\ run.task # "commit" /\ \E f \in run.todo : ~Known(f)
  /\ run' = [run EXCEPT !.step = "recover", !.todo = {}, !.cur = NoFile]
  /\ UNCHANGED <<durable, stage, op, answer, holder, expired, troubles, history, raced>>

RecoverConflict(p) ==
  /\ \/ At(p, "recover") /\ journal.phase # "none" /\ \E f \in Dirty[journal.op] : ~Known(f)
     \/ At(p, "file") /\ run.task # "commit" /\ \E f \in run.todo : ~Known(f)
  /\ Failed(p)
  /\ UNCHANGED <<durable, expired, troubles, history>>

\* The next entry: it needs no write, or passes the last check before one.
RecoverFile(p) ==
  /\ At(p, "file") /\ run.task # "commit"
  /\ \E f \in run.todo :
       \/ /\ disk[f] = Wanted(f)
          /\ run' = [run EXCEPT !.todo = @ \ {f}]
       \/ /\ disk[f] # Wanted(f) /\ Known(f)
          /\ run' = [run EXCEPT !.step = "write", !.cur = f]
  /\ raced' = FALSE
  /\ UNCHANGED <<durable, stage, op, answer, holder, expired, troubles, history>>

(***************************************************************************)
(* commit(): the entries are what prepare found; commit_deadline_ms is     *)
(* set for an operation that confirms a preview and may pass at any time.  *)
(***************************************************************************)
CommitCheck(p) ==
  /\ At(p, "commit")
  /\ IF \A f \in Dirty[op[p]] : disk[f] = run.before[f]
     THEN /\ Goto("prepare")
          /\ UNCHANGED <<stage, op, answer, holder, raced>>
     ELSE Failed(p)
  /\ UNCHANGED <<durable, expired, troubles, history>>

Prepared(p) == [phase |-> "prepared", op |-> op[p], before |-> run.before]

CommitPrepare(p) ==
  /\ At(p, "prepare")
  /\ \/ /\ journal' = Prepared(p)
        /\ run' = [run EXCEPT !.step = "file", !.todo = Dirty[op[p]]]
        /\ UNCHANGED <<stage, op, answer, holder, troubles, raced>>
     \/ /\ journal' \in {journal, Prepared(p)}
        /\ WriteFails(p)
  /\ UNCHANGED <<disk, intent, decision, result, expired, history>>

CommitExpired(p) ==
  /\ At(p, "file") /\ run.task = "commit"
  /\ op[p] \in Previews
  /\ Failed(p)
  /\ UNCHANGED <<durable, expired, troubles, history>>

\* Mutant: commit() does not look at a file again before it replaces it.
CommitFileUnchecked(p) ==
  /\ At(p, "file") /\ run.task = "commit"
  /\ \E f \in run.todo : run' = [run EXCEPT !.step = "write", !.cur = f]
  /\ raced' = FALSE
  /\ UNCHANGED <<durable, stage, op, answer, holder, expired, troubles, history>>

CommitFile(p) ==
  /\ At(p, "file") /\ run.task = "commit"
  /\ \E f \in run.todo :
       \/ /\ disk[f] = journal.before[f]
          /\ run' = [run EXCEPT !.step = "write", !.cur = f]
          /\ raced' = FALSE
          /\ UNCHANGED <<stage, op, answer, holder>>
       \/ disk[f] # journal.before[f] /\ Failed(p)
  /\ UNCHANGED <<durable, expired, troubles, history>>

\* Both: replace the file, or delete it where there was none before.
Written(p) == IF run.task = "commit" THEN op[p] ELSE Wanted(run.cur)

WriteFile(p) ==
  /\ At(p, "write")
  /\ \/ /\ Written(p) = Absent => disk[run.cur] # Absent
        /\ disk' = [disk EXCEPT ![run.cur] = Written(p)]
        /\ run' = [run EXCEPT !.step = "file", !.todo = @ \ {run.cur}, !.cur = NoFile]
        /\ raced' = FALSE
        /\ UNCHANGED <<stage, op, answer, holder, troubles>>
     \/ /\ Written(p) = Absent /\ disk[run.cur] = Absent
        /\ Failed(p)
        /\ UNCHANGED <<disk, troubles>>
     \/ /\ disk' \in {disk, [disk EXCEPT ![run.cur] = Written(p)]}
        /\ WriteFails(p)
  /\ UNCHANGED <<journal, intent, decision, result, expired, history>>

\* Mutant: the journal is committed before the last file is written.
CommitDurableEarly(p) ==
  /\ At(p, "file") /\ run.task = "commit"
  /\ journal' = [journal EXCEPT !.phase = "committed"]
  /\ committed' = committed \cup {op[p]}
  /\ run' = [run EXCEPT !.step = "decide", !.saved = TRUE]
  /\ UNCHANGED <<disk, intent, decision, result, stage, op, answer, holder,
                 expired, troubles, told, runs, reloads, raced>>

\* The journal becomes the decision: from here on the files go forward.
CommitDurable(p) ==
  /\ At(p, "file") /\ run.task = "commit" /\ run.todo = {}
  /\ \/ /\ journal' = [journal EXCEPT !.phase = "committed"]
        /\ committed' = committed \cup {op[p]}
        /\ run' = [run EXCEPT !.step = "decide", !.saved = TRUE]
        /\ UNCHANGED <<stage, op, answer, holder, troubles, raced>>
     \/ /\ \/ journal' = [journal EXCEPT !.phase = "committed"] /\ committed' = committed \cup {op[p]}
           \/ UNCHANGED <<journal, committed>>
        /\ WriteFails(p)
  /\ UNCHANGED <<disk, intent, decision, result, expired, told, runs, reloads>>

RecoveredAll(p) ==
  /\ At(p, "file") /\ run.task # "commit" /\ run.todo = {}
  /\ Goto("decide")
  /\ UNCHANGED <<durable, stage, op, answer, holder, expired, troubles, history, raced>>

\* The end of both: the receipt of the decision, then the journal goes.
\* Mutant: the receipt follows what this process did, not what it found.
DecisionOfThisRun == IF run.saved THEN SavedWord(journal.op) ELSE "failed"

Decision == IF journal.phase = "committed" THEN SavedWord(journal.op) ELSE "failed"

RecordDecision(p) ==
  /\ At(p, "decide")
  /\ \/ /\ decision' = [decision EXCEPT ![journal.op] = Decision]
        /\ Goto("unlink")
        /\ UNCHANGED <<stage, op, answer, holder, troubles, raced>>
     \/ /\ decision' \in {decision, [decision EXCEPT ![journal.op] = Decision]}
        /\ WriteFails(p)
  /\ UNCHANGED <<disk, journal, intent, result, expired, history>>

RemoveJournal(p) ==
  /\ At(p, "unlink")
  /\ \/ /\ journal' = NoJournal
        /\ run' = [run EXCEPT !.step = "settled", !.saved = @ \/ (run.task = "abort" /\ journal.phase = "committed")]
        /\ UNCHANGED <<stage, op, answer, holder, troubles, raced>>
     \/ /\ journal' \in {journal, NoJournal}
        /\ WriteFails(p)
  /\ UNCHANGED <<disk, intent, decision, result, expired, history>>

-----------------------------------------------------------------------------
(***************************************************************************)
(* The processes.                                                          *)
(***************************************************************************)
\* `apply --operation-id o`, `operation-status`, and the compositor's loader
\* or a snapshot.  A caller that finds the lock taken gives up unheard.
Start(p) ==
  /\ stage[p] = "idle" /\ holder = NoProc
  /\ \/ \E o \in Ops, task \in {"begin", "status"} :
          op' = [op EXCEPT ![p] = o] /\ Acquire(p, task, "recover")
     \/ op' = op /\ Acquire(p, "load", "recover")
  /\ UNCHANGED <<durable, stage, answer, expired, troubles, history, raced>>

LoadDone(p) ==
  /\ At(p, "settled") /\ run.task = "load"
  /\ Release("idle")
  /\ UNCHANGED <<durable, op, answer, expired, troubles, history>>

StatusDone(p) ==
  /\ At(p, "settled")
  /\ \/ run.task = "status"
     \/ run.task = "begin" /\ op[p] \in intent \ expired
  /\ Tell(op[p], Status(op[p]))
  /\ Release("idle")
  /\ op' = [op EXCEPT ![p] = NoOp]
  /\ UNCHANGED <<durable, answer, expired, troubles, committed, runs, reloads>>

\* begin() refuses an id that is too old.
BeginExpired(p) ==
  /\ At(p, "settled") /\ run.task = "begin" /\ op[p] \in expired
  /\ Release("idle")
  /\ op' = [op EXCEPT ![p] = NoOp]
  /\ UNCHANGED <<durable, answer, expired, troubles, history>>

\* Mutant: an id without a record is taken for a new one, however old it is.
BeginUndated(p) ==
  /\ At(p, "settled") /\ run.task = "begin" /\ op[p] \notin intent
  /\ decision' = [o \in Ops |-> IF o \in expired THEN "none" ELSE decision[o]]
  /\ result' = [o \in Ops |-> IF o \in expired THEN "none" ELSE result[o]]
  /\ \/ /\ intent' = (intent \ expired) \cup {op[p]}
        /\ Release("admitted")
        /\ UNCHANGED <<op, answer, troubles>>
     \/ /\ intent' \in {intent \ expired, (intent \ expired) \cup {op[p]}}
        /\ WriteFails(p)
  /\ UNCHANGED <<disk, journal, expired, history>>

\* begin() of a new id: prune() the records of old ones, write the intent.
Begin(p) ==
  /\ At(p, "settled") /\ run.task = "begin" /\ op[p] \notin intent \cup expired
  /\ decision' = [o \in Ops |-> IF o \in expired THEN "none" ELSE decision[o]]
  /\ result' = [o \in Ops |-> IF o \in expired THEN "none" ELSE result[o]]
  /\ \/ /\ intent' = (intent \ expired) \cup {op[p]}
        /\ Release("admitted")
        /\ UNCHANGED <<op, answer, troubles>>
     \/ /\ intent' \in {intent \ expired, (intent \ expired) \cup {op[p]}}
        /\ WriteFails(p)
  /\ UNCHANGED <<disk, journal, expired, history>>

\* execute() takes the lock again, or fails at once.
Execute(p) ==
  /\ stage[p] = "admitted"
  /\ \/ /\ Acquire(p, "apply", "recover")
        /\ UNCHANGED <<stage, answer>>
     \/ /\ holder \notin {NoProc, p}
        /\ stage' = [stage EXCEPT ![p] = "executed"]
        /\ answer' = [answer EXCEPT ![p] = "failed"]
        /\ UNCHANGED <<holder, run>>
  /\ UNCHANGED <<durable, op, expired, troubles, history, raced>>

\* The candidate is refused, cancelled, or read from the files and saved.
Apply(p) ==
  /\ At(p, "settled") /\ run.task = "apply"
  /\ \/ /\ Failed(p)
        /\ UNCHANGED runs
     \/ /\ run' = [run EXCEPT !.task = "commit", !.step = "commit", !.before = disk]
        /\ runs' = [runs EXCEPT ![op[p]] = @ + 1]
        /\ UNCHANGED <<stage, op, answer, holder, raced>>
  /\ UNCHANGED <<durable, expired, troubles, committed, told, reloads>>

\* commit() returned, and the compositor kept the preview or did not.
Saved(p) ==
  /\ At(p, "settled") /\ run.task = "commit"
  /\ \E next \in {"reloading", "executed"} :
       /\ op[p] \notin Previews => next = "reloading"
       /\ Conclude(p, SavedWord(op[p]), next)
  /\ UNCHANGED <<durable, op, expired, troubles, history>>

\* commit() failed, and the recovery after it did not.
Aborted(p) ==
  /\ At(p, "settled") /\ run.task = "abort"
  /\ EndApply(p, run.saved)
  /\ UNCHANGED <<durable, op, expired, troubles, history>>

Reload(p) ==
  /\ stage[p] = "reloading"
  /\ stage' = [stage EXCEPT ![p] = "executed"]
  /\ reloads' = [reloads EXCEPT ![op[p]] = @ + 1]
  /\ UNCHANGED <<durable, op, answer, holder, run, expired, troubles, committed, told, runs, raced>>

\* finish(): the result is stored, or only told.
Finish(p) ==
  /\ stage[p] = "executed"
  /\ \/ holder = NoProc /\ result' = [result EXCEPT ![op[p]] = answer[p]] /\ UNCHANGED troubles
     \/ holder # NoProc /\ UNCHANGED <<result, troubles>>
     \/ /\ holder = NoProc /\ Trouble
        /\ result' \in {result, [result EXCEPT ![op[p]] = answer[p]]}
  /\ Tell(op[p], answer[p])
  /\ stage' = [stage EXCEPT ![p] = "idle"]
  /\ op' = [op EXCEPT ![p] = NoOp]
  /\ answer' = [answer EXCEPT ![p] = "none"]
  /\ UNCHANGED <<disk, journal, intent, decision, holder, run, expired, committed, runs, reloads, raced>>

-----------------------------------------------------------------------------
(***************************************************************************)
(* The environment: a process dies (its lock goes with it), somebody edits *)
(* or deletes a file, an id becomes too old.                               *)
(***************************************************************************)
Crash(p) ==
  /\ Trouble
  /\ stage[p] # "idle" \/ holder = p
  /\ stage' = [stage EXCEPT ![p] = "idle"]
  /\ op' = [op EXCEPT ![p] = NoOp]
  /\ answer' = [answer EXCEPT ![p] = "none"]
  /\ IF holder = p
     THEN holder' = NoProc /\ run' = Idle /\ raced' = FALSE
     ELSE UNCHANGED <<holder, run, raced>>
  /\ UNCHANGED <<durable, expired, history>>

Edit(f) ==
  /\ Trouble
  /\ \E c \in Foreign \ {disk[f]} : disk' = [disk EXCEPT ![f] = c]
  /\ raced' = (raced \/ f = run.cur)
  /\ UNCHANGED <<journal, intent, decision, result, stage, op, answer, holder, run, expired, history>>

Expire(o) ==
  /\ o \notin expired /\ Trouble
  /\ expired' = expired \cup {o}
  /\ UNCHANGED <<durable, stage, op, answer, holder, run, history, raced>>

Recover(p) ==
  \/ RecoverNothing(p) \/ RecoverBegin(p) \/ RecoverConflict(p)
  \/ RecoverFile(p) \/ RecoveredAll(p)

Commit(p) ==
  \/ CommitCheck(p) \/ CommitPrepare(p) \/ CommitExpired(p) \/ CommitFile(p)
  \/ CommitDurable(p)

\* A process that has been started goes on, with the lock or without it.
Work(p) ==
  \/ Recover(p) \/ Commit(p) \/ WriteFile(p) \/ RecordDecision(p) \/ RemoveJournal(p)
  \/ LoadDone(p) \/ StatusDone(p) \/ BeginExpired(p) \/ Begin(p)
  \/ Execute(p) \/ Apply(p) \/ Saved(p) \/ Aborted(p) \/ Reload(p) \/ Finish(p)

Next ==
  \/ \E p \in Procs : Start(p) \/ Work(p) \/ Crash(p)
  \/ \E f \in Files : Edit(f)
  \/ \E o \in Ops : Expire(o)

Spec == Init /\ [][Next]_vars

\* Processes run on; whoever has the lock never waits for anybody.
Fairness == \A p \in Procs : WF_vars(Work(p))
FairSpec == Spec /\ Fairness

-----------------------------------------------------------------------------
(***************************************************************************)
(* Safety.                                                                 *)
(***************************************************************************)
\* With no journal on the disk, no file has a content of an operation that
\* was not committed as a whole, whoever died or failed on the way.
OnlyCommittedContent ==
  journal.phase = "none" => \A f \in Files : disk[f] \in Ops => disk[f] \in committed

\* A client that is told that its operation was saved can rely on it, and so
\* can one that is told that it failed: no later recovery carries it out.
\* (An operation with no file to change may fail and have been committed.)
HonestReports ==
  \A o \in Ops :
    /\ {"saved", "unchanged"} \cap told[o] # {} => o \in committed
    /\ "failed" \in told[o] /\ Dirty[o] # {} => o \notin committed

\* An id is carried out once and followed by one reload, however often it is
\* asked for, by whomever, and even when its records have been pruned.
AtMostOnce == \A o \in Ops : runs[o] <= 1 /\ reloads[o] <= 1

\* What an editor left in a file is overwritten only if it was what the
\* operation started from, or if it came after the last look at the file.
EditsSurvive ==
  [][ \A f \in Files :
        disk'[f] # disk[f] /\ ~Edit(f) =>
          \/ disk[f] \in {journal.before[f], journal.op}
          \/ raced /\ f = run.cur ]_vars

\* A recorded decision is not turned into the opposite one: a recovery that
\* is itself interrupted after the receipt decides the same way again.
DecisionStands ==
  [][ \A o \in Ops : decision[o] # "none" => decision'[o] \in {decision[o], "none"} ]_vars

(***************************************************************************)
(* The files as a recovery would leave them, and the atomic save they      *)
(* implement.                                                              *)
(***************************************************************************)
Config ==
  [ f \in Files |->
      IF journal.phase # "none" /\ f \in Dirty[journal.op] /\ Known(f)
      THEN Wanted(f)
      ELSE disk[f] ]

Abstract == INSTANCE AtomicSave WITH
  config <- Config,
  exposed <- IF raced THEN {run.cur} ELSE {},
  unsettled <- IF journal.phase = "committed" THEN {journal.op} ELSE {}

\* A save happens in one step: when the journal becomes durable as committed.
\* Every write of a file before that, and every recovery, is a stutter.
ImplementsAtomicSave == Abstract!Spec

\* A process that was started ends, with the lock given back: nobody waits.
ProcessesEnd ==
  \A p \in Procs : stage[p] # "idle" \/ holder = p ~> stage[p] = "idle" /\ holder # p

\* As long as the configuration is loaded again and again, a transaction that
\* was cut short is finished or undone, unless an edit is in its way.
Loading == holder # NoProc /\ run.task = "load" /\ run.step = "recover"
Conflict == \E f \in Dirty[journal.op] : ~Known(f)
RecoveryCompletes ==
  []<>Loading =>
    (journal.phase # "none" ~> journal.phase = "none" \/ Conflict)
=============================================================================
