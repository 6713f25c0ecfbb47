---------------------------- MODULE SharedRules ----------------------------
(***************************************************************************)
(* What team sync promises its users: a store and a shared file, each of   *)
(* which changes in one instant.  A write is followed by publishing the    *)
(* whole store, if there is a file.  A sync makes the store what the file  *)
(* said when it was asked for, unless that has a conflict that nobody      *)
(* accepted; a store without rules keeps the relations it has, and a sync  *)
(* may find nothing to do as long as those are all that the file lacks.  A *)
(* command that fails may leave its work undone, no other does, and git    *)
(* may leave another file at any time.                                     *)
(***************************************************************************)
EXTENDS Naturals

CONSTANTS
  Procs,    \* who runs commands
  Keys,     \* what a rule is known by
  Texts,    \* what a rule says
  Links,    \* relations of rules
  NoRule,   \* there is no such rule
  NoFile,   \* nothing is shared
  GitFiles  \* what git leaves

VARIABLES
  store,   \* the rules and relations of the store
  shared,  \* the file: rules, relations, and the keys it defines in two ways
  kept,    \* relations that a sync left to a store without rules
  task,    \* what each command still has to do
  failed   \* how many commands have failed

vars == <<store, shared, kept, task, failed>>

Stores == [rules: [Keys -> Texts \cup {NoRule}], links: SUBSET Links]
NoRules == [k \in Keys |-> NoRule]

Nothing == [goal |-> "nothing"]
Tell == [goal |-> "tell"]
Publish == [goal |-> "publish"]
Adopt(s) == [goal |-> "adopt", said |-> s]
Refuse == [goal |-> "refuse"]

\* What a sync of the file f is to do.
Sync(f, accept) ==
  IF f.alts = {} \/ accept THEN Adopt([rules |-> f.rules, links |-> f.links]) ELSE Refuse

Turns(p, t) == task' = [task EXCEPT ![p] = t]

Init ==
  /\ store = [rules |-> NoRules, links |-> {}]
  /\ shared = NoFile
  /\ kept = {}
  /\ task = [p \in Procs |-> Nothing]
  /\ failed = 0

\* Whatever it writes.
WriteRules(p) ==
  /\ task[p] = Nothing
  /\ store' \in Stores
  /\ kept' = kept \cap store'.links
  /\ Turns(p, Tell)
  /\ UNCHANGED <<shared, failed>>

TellIfShared(p) ==
  /\ task[p] = Tell
  /\ Turns(p, IF shared = NoFile THEN Nothing ELSE Publish)
  /\ UNCHANGED <<store, shared, kept, failed>>

AskToPublish(p) ==
  /\ task[p] = Nothing
  /\ Turns(p, Publish)
  /\ UNCHANGED <<store, shared, kept, failed>>

AskToSync(p, accept) ==
  /\ task[p] = Nothing
  /\ Turns(p, IF shared = NoFile THEN Publish ELSE Sync(shared, accept))
  /\ UNCHANGED <<store, shared, kept, failed>>

PublishRules(p) ==
  /\ task[p] = Publish
  /\ shared' = [rules |-> store.rules, links |-> store.links, alts |-> {}]
  /\ Turns(p, Nothing)
  /\ UNCHANGED <<store, kept, failed>>

AdoptRules(p) ==
  LET said == task[p].said
      found == IF store.rules = NoRules THEN store.links ELSE {}
  IN /\ task[p].goal = "adopt"
     /\ store' = [said EXCEPT !.links = @ \cup found]
     /\ kept' = (kept \cup found) \cap store'.links
     /\ Turns(p, Nothing)
     /\ UNCHANGED <<shared, failed>>

\* The store holds what the file says already, beside what was left to it.
FindNothingToDo(p) ==
  LET said == task[p].said
  IN /\ task[p].goal = "adopt"
     /\ store.rules = said.rules
     /\ said.links \subseteq store.links
     /\ store.links \subseteq said.links \cup kept
     /\ Turns(p, Nothing)
     /\ UNCHANGED <<store, shared, kept, failed>>

\* Someone has to decide about the conflict.
LeaveConflict(p) ==
  /\ task[p] = Refuse
  /\ Turns(p, Nothing)
  /\ UNCHANGED <<store, shared, kept, failed>>

\* Whether its work is done already or not.
Fail(p) ==
  /\ failed' = failed + 1
  /\ Turns(p, Nothing)
  /\ UNCHANGED <<store, shared, kept>>

GitLeaves(f) ==
  /\ shared' = f
  /\ UNCHANGED <<store, kept, task, failed>>

Next ==
  \/ \E p \in Procs :
       \/ WriteRules(p) \/ TellIfShared(p) \/ AskToPublish(p) \/ PublishRules(p)
       \/ AdoptRules(p) \/ FindNothingToDo(p) \/ LeaveConflict(p) \/ Fail(p)
       \/ \E accept \in BOOLEAN : AskToSync(p, accept)
  \/ \E f \in GitFiles : GitLeaves(f)

Spec == Init /\ [][Next]_vars
=============================================================================
