----------------------------- MODULE AtomicSave -----------------------------
(***************************************************************************)
(* What saving the configuration promises, with no journal, lock or        *)
(* process in sight: every operation changes all its files in one step, at *)
(* most once, and what is told about it agrees with that.  Editors change  *)
(* files as they like.  An operation leaves a file alone that an editor    *)
(* changed under its hands, unless the edit came at the very moment of the *)
(* write (the file was exposed), or put back what a save had replaced      *)
(* before that save was settled.                                           *)
(***************************************************************************)
CONSTANTS Files, Ops, Dirty, Foreign, Contents, Words

VARIABLES
  config,     \* the configuration files
  committed,  \* the operations carried out
  told,       \* what was said of each of them
  exposed,    \* the files a lost edit may have gone to
  unsettled   \* the save that may still be found unfinished

vars == <<config, committed, told, exposed, unsettled>>

Init ==
  /\ config \in [Files -> Contents \ Ops]
  /\ committed = {}
  /\ told = [o \in Ops |-> {}]
  /\ exposed = {}
  /\ unsettled = {}

Save(o) ==
  /\ o \notin committed
  /\ Dirty[o] # {} => "failed" \notin told[o]
  /\ committed' = committed \cup {o}
  /\ config' \in [Files -> Contents]
  /\ \A f \in Files :
       config'[f] # config[f] => f \in Dirty[o] /\ config'[f] = o
  /\ \A f \in Dirty[o] : config'[f] = o \/ config[f] \in Foreign
  /\ exposed' = {}
  /\ unsettled' = {o}
  /\ UNCHANGED told

\* Everything that was saved is where it belongs.
Settle ==
  /\ unsettled' = {}
  /\ UNCHANGED <<config, committed, told, exposed>>

Edit ==
  /\ config' \in [Files -> Contents]
  /\ \A f \in Files : config'[f] # config[f] => config'[f] \in Foreign
  /\ exposed' \subseteq Files
  /\ unsettled' \subseteq unsettled
  /\ UNCHANGED <<committed, told>>

LoseEdit ==
  /\ \E f \in exposed :
       /\ config[f] \in Foreign
       /\ \E c \in Contents : config' = [config EXCEPT ![f] = c]
  /\ exposed' = {}
  /\ UNCHANGED <<committed, told, unsettled>>

\* An edit that restores what the save replaced passes for a missing write.
RedoSave ==
  /\ \E o \in unsettled, f \in Files :
       /\ f \in Dirty[o] /\ config[f] \in Foreign
       /\ config' = [config EXCEPT ![f] = o]
  /\ UNCHANGED <<committed, told, exposed, unsettled>>

Report(o, word) ==
  /\ word \in {"saved", "unchanged"} => o \in committed
  /\ word = "failed" /\ Dirty[o] # {} => o \notin committed
  /\ told' = [told EXCEPT ![o] = @ \cup {word}]
  /\ UNCHANGED <<config, committed, exposed, unsettled>>

Next ==
  \/ Settle \/ Edit \/ LoseEdit \/ RedoSave
  \/ \E o \in Ops : Save(o) \/ \E word \in Words : Report(o, word)

Spec == Init /\ [][Next]_vars
=============================================================================
