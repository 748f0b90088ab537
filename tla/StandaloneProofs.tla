--------------------------- MODULE StandaloneProofs ---------------------------
(* That a killed, failed or recovered build loses no output and mixes none,  *)
(* takes what an author wrote only as a build's main output, and keeps what  *)
(* is committed: for any outputs, builds and receipts.                       *)
EXTENDS StandaloneOutput, TLAPS
USE DEF history

(* The operations of the plan: what each replaces and what it brings.        *)
Ops == DOMAIN plan
Prev(t) == plan[t].prev
Coming(t) == plan[t].next

(* Where the files of an operation can be: the old one at its place, or set  *)
(* aside with nothing in its place, or the new one there.                    *)
Home(t) == backup[t] = Nothing /\ (target[t] = Prev(t) \/ Edited(t))
Aside(t) == backup[t] = Prev(t) /\ (target[t] = Nothing \/ Edited(t))
InPlace(t) == backup[t] = Prev(t) /\ staged[t] = Nothing /\ target[t] = Coming(t)
Somewhere(t) == Home(t) \/ Aside(t) \/ InPlace(t)

(* A file is as it was kept, but for the author.                             *)
Intact(t) == target[t] = kept[t] \/ Edited(t)

(* What the process remembers of an operation is what the disk has.          *)
Remembered(t) ==
  /\ t \in installed => InPlace(t) /\ Coming(t) # Nothing
  /\ t \in applied \ installed => backup[t] = Prev(t) /\ target[t] = Nothing
  /\ t \notin applied => backup[t] = Nothing /\ target[t] = Prev(t)

(* During the promotion what is not in place yet is still staged.            *)
Ready(t) == t \notin installed => staged[t] = Coming(t)

-----------------------------------------------------------------------------
Planned ==
  /\ \A t \in Ops : Prev(t) # Coming(t) /\ staged[t] \in {Coming(t), Nothing}
  /\ \A t \in Ops : Prev(t) \in Authored => t = Main
  /\ \A t \in Targets \ Ops : staged[t] = Nothing /\ backup[t] = Nothing

(* The staging directory is there while something is done in it, and empty   *)
(* of all when it is gone.                                                   *)
Directory ==
  /\ pc \in Phases \cup {"promote", "undo", "discard"} => dir
  /\ ~dir => journal = Nothing /\ evidence = Nothing

(* The journal says where a build is. *)
Journalled ==
  /\ pc = "staging" => journal \in {Nothing, "staging"}
  /\ pc = "installing" => journal = "staging"
  /\ pc \in {"promote", "installed"} => journal = "installing"

(* Only the promotion and its undoing have operations in memory. *)
Memory ==
  /\ pc \in {"down", "recover", "begin", "staging", "installing"} => applied = {}
  /\ pc = "undo" /\ journal # "installing" => applied = {}

(* What the author writes over an output of a transaction that can be read   *)
(* keeps every later build out, and history has it.                          *)
Blocked ==
  \A t \in Operations : Readable /\ Edited(t) => pc \in {"down", "recover"}
Recorded == \A t \in Targets : Edited(t) => edits # {}

(* A build's files are newer than all it finds. *)
Newest ==
  /\ \A t \in Targets : \A f \in {target[t], backup[t], staged[t]} :
       f \in Builds => f <= build
  /\ pc \in {"recover", "begin", "staging"} \/ (pc \in {"undo", "discard"} /\ onward = "begin") =>
       \A t \in Targets : build \notin {target[t], backup[t]}

(* Where the files are, by what the journal says. *)
Unpromoted ==
  journal \in {Nothing, "staging"} =>
    /\ \A t \in Targets : Intact(t)
    /\ pc \in {"staging", "installing"} => target = kept
    /\ journal = "staging" \/ pc = "staging" => backup = Empty
    /\ pc = "installing" => \A t \in Ops : kept[t] = Prev(t) /\ staged[t] = Coming(t)
Promoting ==
  journal = "installing" =>
    /\ \A t \in Ops : kept[t] = Prev(t) /\ Somewhere(t)
    /\ \A t \in Targets \ Ops : Intact(t)
    /\ pc \in {"promote", "installed", "undo"} => \A t \in Ops : Remembered(t)
    /\ pc \in {"promote", "installed"} => \A t \in Ops : Ready(t)
    /\ pc \in {"promote", "installed"} => \A t \in Targets \ Ops : target[t] = kept[t]
    /\ pc = "installed" => \A t \in Ops : t \in applied /\ Finished(t)
    /\ pc = "discard" => (\A t \in Targets : Intact(t)) /\ backup = Empty
Installed ==
  journal = "installed" =>
    /\ \A t \in Targets : Intact(t)
    /\ staged = Empty

IInv == /\ TypeOK /\ Planned /\ Directory /\ Journalled /\ Memory /\ Blocked /\ Recorded
        /\ Newest /\ Unpromoted /\ Promoting /\ Installed

-----------------------------------------------------------------------------
(* One build's outputs, or what there was before any; and what these are     *)
(* when the author writes over some.                                         *)
Complete ==
  {Empty} \cup {[Empty EXCEPT ![Main] = f] : f \in Authored} \cup {Outputs(b) : b \in Builds}
Good(F) ==
  /\ F[Main] \in Builds => \A t \in Emits[F[Main]] : F[t] \in Authored \cup {F[Main]}
  /\ edits = {} => F \in Complete
Near(F) ==
  \A t \in Targets : target[t] = F[t] \/ (target[t] \in Authored /\ edits # {})

(* What the promotion is to end with. *)
Goal == [t \in Targets |-> IF t \in Ops THEN Coming(t) ELSE kept[t]]

(* The evidence is torn only while it is rewritten, and gone only once the   *)
(* staging directory is discarded.                                           *)
WInv ==
  /\ Good(kept)
  /\ pc = "begin" => Good(target)
  /\ pc = "installing" \/ journal = "installing" => Good(Goal)
  /\ journal = "installing" /\ evidence = "torn" => Near(Goal)
  /\ journal = "installing" /\ evidence = Nothing => Near(kept)
  /\ pc \in {"promote", "undo", "discard"} => evidence # "torn"
  /\ pc \in {"promote", "installed", "undo"} /\ journal = "installing" => evidence # Nothing
-----------------------------------------------------------------------------
(* Type correctness.                                                         *)

LEMMA NoOperation == DOMAIN << >> = {}
OBVIOUS

LEMMA EmptyTyped ==
  /\ Empty \in [Targets -> Builds \cup {Nothing}]
  /\ Empty \in [Targets -> Files]
BY DEF Empty, Files

LEMMA OutputsTyped ==
  ASSUME NEW b \in Builds
  PROVE  Outputs(b) \in [Targets -> Builds \cup {Nothing}]
BY DEF Outputs

(* The plan of a build is well formed, and replaces nothing by itself.       *)
LEMMA StagePlans ==
  ASSUME TypeOK, Newest, Stage
  PROVE  /\ DOMAIN plan' \subseteq Targets
         /\ \A t \in DOMAIN plan' : /\ plan'[t] \in [prev : Files, next : Builds \cup {Nothing}]
                                          \ {[prev |-> Nothing, next |-> Nothing]}
                            /\ plan'[t].prev = target[t] /\ plan'[t].next = Outputs(build)[t]
                            /\ plan'[t].prev # plan'[t].next
         /\ \A t \in Targets \ DOMAIN plan' : Outputs(build)[t] = Nothing
<1>1. Receipt \subseteq Targets
  BY OutputAssumption DEF Receipt
<1>2. Emits[build] \subseteq Targets /\ build \in Builds
  BY OutputAssumption DEF TypeOK
<1>3. DOMAIN plan' = Emits[build] \cup {u \in Receipt : target[u] # Nothing}
  BY DEF Stage
<1>4. \A t \in DOMAIN plan' : plan'[t] = [prev |-> target[t], next |-> Outputs(build)[t]]
  BY <1>3 DEF Stage
<1>5. \A t \in Targets : Outputs(build)[t] = IF t \in Emits[build] THEN build ELSE Nothing
  BY DEF Outputs
<1>6. \A t \in Targets : target[t] \in Files /\ target[t] # build
  BY DEF Stage, TypeOK, Newest
<1>7. Nothing # build
  BY <1>2, NamesAssumption
<1>8. ASSUME NEW t \in DOMAIN plan'
      PROVE  /\ plan'[t] \in [prev : Files, next : Builds \cup {Nothing}]
                              \ {[prev |-> Nothing, next |-> Nothing]}
             /\ target[t] # Outputs(build)[t]
  <2>1. t \in Targets
    BY <1>1, <1>2, <1>3
  <2>2. target[t] # Nothing \/ Outputs(build)[t] = build
    BY <1>3, <1>5, <2>1
  <2>3. Outputs(build)[t] \in Builds \cup {Nothing}
    BY <1>2, <1>5, <2>1
  <2>4. target[t] # Outputs(build)[t]
    BY <1>5, <1>6, <2>1, <2>2
  <2>5. plan'[t].prev # Nothing \/ plan'[t].next # Nothing
    BY <1>4, <1>7, <2>2
  <2> QED
    BY <1>4, <1>6, <2>1, <2>3, <2>4, <2>5
<1>9. \A t \in DOMAIN plan' : t \in Targets
  BY <1>1, <1>2, <1>3
<1>10. \A t \in DOMAIN plan' : plan'[t].prev = target[t] /\ plan'[t].next = Outputs(build)[t]
  BY <1>4
<1>11. \A t \in Targets \ DOMAIN plan' : Outputs(build)[t] = Nothing
  BY <1>3, <1>5
<1> QED
  BY <1>1, <1>2, <1>3, <1>6, <1>8, <1>9, <1>11, <1>10

(* The one file of the author's that it replaces is the main output.         *)
LEMMA StageTakes ==
  ASSUME Stage, NEW t \in DOMAIN plan', plan'[t].prev \in Authored
  PROVE  t = Main
<1>1. \A u \in Receipt : target[u] \in Builds
  BY DEF Receipt
<1>2. /\ t \in Emits[build] \cup {u \in Receipt : target[u] # Nothing}
      /\ plan'[t].prev = target[t]
  BY DEF Stage
<1>3. t \notin Receipt /\ target[t] # Nothing
  BY <1>1, <1>2, NamesAssumption
<1> QED
  BY <1>2, <1>3 DEF Stage

LEMMA TypeStep ==
  ASSUME IInv, [Next]_vars
  PROVE  TypeOK'
<1> USE DEF TypeOK, disk, memory
<1>0. TypeOK
  BY DEF IInv
<1>1. CASE Start
  BY <1>0, <1>1 DEF Start
<1>2. CASE Skip \/ Refuse \/ Promoted \/ Fail \/ Undone
  BY <1>0, <1>2 DEF Skip, Refuse, Promoted, Fail, Undone, Phases
<1>3. CASE Recover
  BY <1>0, <1>3 DEF Recover, Operations
<1>4. CASE MakeStaging
  <2>1. applied = {}
    BY <1>4 DEF IInv, Memory, MakeStaging
  <2>2. DOMAIN plan' = {}
    BY <1>4, NoOperation DEF MakeStaging
  <2>3. staged' \in [Targets -> Builds \cup {Nothing}] /\ backup' \in [Targets -> Files]
    BY <1>4, EmptyTyped DEF MakeStaging
  <2> QED
    BY <1>0, <1>4, <2>1, <2>2, <2>3 DEF MakeStaging, Phases
<1>5. CASE Stage
  <2>1. applied = {} /\ Newest
    BY <1>5 DEF IInv, Memory, Stage
  <2>2. /\ DOMAIN plan' \subseteq Targets
        /\ \A t \in DOMAIN plan' : plan'[t] \in [prev : Files, next : Builds \cup {Nothing}]
                                        \ {[prev |-> Nothing, next |-> Nothing]}
    BY <1>0, <1>5, <2>1, StagePlans
  <2>3. staged' \in [Targets -> Builds \cup {Nothing}]
    BY <1>0, <1>5, OutputsTyped DEF Stage
  <2> QED
    BY <1>0, <1>5, <2>1, <2>2, <2>3 DEF Stage, Phases
<1>6. CASE WriteEvidence
  BY <1>0, <1>6 DEF WriteEvidence, Phases
<1>7. CASE WriteJournal
  BY <1>0, <1>7 DEF WriteJournal, After, Phases
<1>8. CASE MoveAside
  BY <1>0, <1>8 DEF MoveAside, First, Files
<1>9. CASE PutInPlace
  BY <1>0, <1>9 DEF PutInPlace, Files
<1>10. CASE RemoveInstalled \/ PutBack
  BY <1>0, <1>10 DEF RemoveInstalled, PutBack, Last, Files
<1>11. CASE Discard
  <2>1. /\ UNCHANGED <<target, dir, plan, memory, history>>
        /\ \/ UNCHANGED staged
           \/ \E t \in Targets : staged' = [staged EXCEPT ![t] = Nothing]
        /\ \/ UNCHANGED backup
           \/ \E t \in Targets : backup' = [backup EXCEPT ![t] = Nothing]
        /\ journal' \in {journal, Nothing} /\ evidence' \in {evidence, Nothing}
    BY <1>11 DEF Discard
  <2>2. /\ staged' \in [Targets -> Builds \cup {Nothing}]
        /\ backup' \in [Targets -> Files]
    BY <1>0, <2>1 DEF Files
  <2> QED
    BY <1>0, <2>1, <2>2
<1>12. CASE Discarded
  BY <1>0, <1>12, NoOperation DEF Discarded, Forget
<1>13. CASE Kill
  BY <1>0, <1>13 DEF Kill, Forget
<1>14. CASE Edit
  <2>1. /\ target' \in [Targets -> Files]
        /\ UNCHANGED <<staged, backup, dir, journal, evidence, plan, memory, refused, kept>>
    BY <1>0, <1>14 DEF Edit, Files
  <2>2. edits' \subseteq Targets \X BOOLEAN
    <3>1. InstallCutShort \in BOOLEAN /\ edits \subseteq Targets \X BOOLEAN
      BY <1>0 DEF InstallCutShort
    <3>2. PICK t \in Targets : edits' = edits \cup {<<t, InstallCutShort>>}
      BY <1>14 DEF Edit
    <3> QED
      BY <3>1, <3>2
  <2> QED
    BY <1>0, <2>1, <2>2
<1>15. CASE UNCHANGED vars
  BY <1>0, <1>15 DEF vars
<1> QED
  BY <1>1, <1>3, <1>4, <1>5, <1>6, <1>7, <1>8, <1>9, <1>10, <1>11, <1>12, <1>13, <1>14,
     <1>15, <1>2 DEF Next

-----------------------------------------------------------------------------
(* The plan, the journal and the process's memory.                           *)

LEMMA PlannedStep ==
  ASSUME IInv, [Next]_vars
  PROVE  Planned'
<1> USE DEF Ops, Prev, Coming
<1>0. TypeOK /\ Planned
  BY DEF IInv
<1>1. CASE UNCHANGED <<staged, backup, plan>>
  BY <1>0, <1>1 DEF Planned
<1>2. CASE MakeStaging
  BY <1>2, NoOperation DEF MakeStaging, Planned, Empty
<1>3. CASE Stage
  <2>1. Newest
    BY DEF IInv
  <2>2. /\ staged' = Outputs(build) /\ backup' = backup
        /\ \A t \in Targets \ Ops : backup[t] = Nothing
    BY <1>0, <1>3 DEF Stage, Planned
  <2>3. backup = Empty
    BY <1>3 DEF IInv, Unpromoted, Stage
  <2> QED
    BY <1>0, <1>3, <2>1, <2>2, <2>3, StagePlans, StageTakes DEF Planned, Empty
<1>4. CASE MoveAside
  BY <1>0, <1>4 DEF MoveAside, First, Planned, TypeOK
<1>5. CASE PutInPlace
  BY <1>0, <1>5 DEF PutInPlace, Planned, TypeOK
<1>6. CASE PutBack
  BY <1>0, <1>6 DEF PutBack, Last, Planned, TypeOK
<1>7. CASE Discard
  BY <1>0, <1>7 DEF Discard, Planned, TypeOK
<1>8. CASE Discarded
  BY <1>8, NoOperation DEF Discarded, Planned, Empty
<1> QED
  BY <1>1, <1>2, <1>3, <1>4, <1>5, <1>6, <1>7, <1>8
  DEF Next, vars, disk, Start, Skip, Refuse, Recover, WriteEvidence, WriteJournal,
      Promoted, Fail, RemoveInstalled, Undone, Kill, Edit

LEMMA DirectoryStep ==
  ASSUME IInv, [Next]_vars
  PROVE  Directory'
<1>0. TypeOK /\ Directory
  BY DEF IInv
<1>1. CASE Recover
  BY <1>0, <1>1 DEF Recover, Readable, Directory, disk
<1>2. CASE MakeStaging
  BY <1>2 DEF MakeStaging, Directory
<1>3. CASE WriteJournal
  BY <1>0, <1>3 DEF WriteJournal, Directory
<1>4. CASE WriteEvidence
  BY <1>0, <1>4 DEF WriteEvidence, Directory, memory
<1>5. CASE Discarded
  BY <1>0, <1>5 DEF Discarded, Directory, TypeOK, Phases
<1>6. CASE Discard
  BY <1>0, <1>6 DEF Discard, Directory, memory
<1>7. CASE UNCHANGED <<dir, journal, evidence>> /\ (pc' = pc \/ pc' \in {"down", "begin", "recover"})
  BY <1>0, <1>7 DEF Directory, Phases
<1>8. CASE UNCHANGED <<dir, journal, evidence>> /\ pc \in Phases \cup {"promote", "undo"}
  BY <1>0, <1>8 DEF Directory
<1> QED
  BY <1>1, <1>2, <1>3, <1>4, <1>5, <1>6, <1>7, <1>8
  DEF Next, vars, disk, memory, Phases, Start, Skip, Refuse, Stage, MoveAside, PutInPlace,
      Promoted, Fail, RemoveInstalled, PutBack, Undone, Kill, Edit

LEMMA JournalledStep ==
  ASSUME IInv, [Next]_vars
  PROVE  Journalled'
<1>0. TypeOK /\ Journalled
  BY DEF IInv
<1>1. CASE MakeStaging
  BY <1>1 DEF MakeStaging, Journalled
<1>2. CASE Stage
  BY <1>2 DEF Stage, Journalled
<1>3. CASE WriteJournal
  BY <1>3 DEF WriteJournal, After, Phases, Journalled
<1>4. CASE Promoted
  BY <1>0, <1>4 DEF Promoted, Journalled, disk
<1>5. CASE Discard
  BY <1>0, <1>5 DEF Discard, Journalled, memory
<1>6. CASE UNCHANGED <<pc, journal>>
  BY <1>0, <1>6 DEF Journalled
<1>7. CASE pc' \in {"down", "recover", "begin", "undo", "discard"}
  BY <1>7 DEF Journalled
<1> QED
  BY <1>0, <1>1, <1>2, <1>3, <1>4, <1>5, <1>6, <1>7
  DEF Next, vars, disk, memory, TypeOK, Start, Skip, Refuse, Recover, WriteEvidence,
      MoveAside, PutInPlace, Fail, RemoveInstalled, PutBack, Undone, Discarded, Kill, Edit

LEMMA MemoryStep ==
  ASSUME IInv, [Next]_vars
  PROVE  Memory'
<1>0. TypeOK /\ Memory /\ Journalled
  BY DEF IInv
<1>1. CASE Start \/ Skip \/ Refuse \/ MakeStaging \/ Stage
  BY <1>0, <1>1 DEF Start, Skip, Refuse, MakeStaging, Stage, Memory, disk
<1>2. CASE Recover
  BY <1>0, <1>2 DEF Recover, Interrupted, Memory, disk
<1>3. CASE WriteJournal
  BY <1>0, <1>3 DEF WriteJournal, After, Phases, Memory
<1>4. CASE MoveAside \/ PutInPlace \/ Promoted
  BY <1>4 DEF MoveAside, PutInPlace, Promoted, Memory
<1>5. CASE Fail
  BY <1>0, <1>5 DEF Fail, Memory, Journalled, disk
<1>6. CASE RemoveInstalled \/ PutBack
  BY <1>0, <1>6 DEF RemoveInstalled, PutBack, Last, Memory
<1>7. CASE Undone \/ Discard
  BY <1>0, <1>7 DEF Undone, Discard, Memory, memory
<1>8. CASE Discarded \/ Kill
  BY <1>8 DEF Discarded, Kill, Forget, Memory
<1>9. CASE UNCHANGED <<journal, memory>>
  BY <1>0, <1>9 DEF Memory, memory
<1> QED
  BY <1>1, <1>2, <1>3, <1>4, <1>5, <1>6, <1>7, <1>8, <1>9
  DEF Next, vars, disk, WriteEvidence, Edit

-----------------------------------------------------------------------------
(* What an edit stands before.                                               *)

(* Recovery goes on only where nobody has written over an output of it.      *)
LEMMA RecoverSeesEdits ==
  ASSUME IInv, Recover, NEW t \in Operations
  PROVE  ~Edited(t)
<1> SUFFICES ASSUME Edited(t) PROVE FALSE
  OBVIOUS
<1>1. Acceptable /\ t \in Targets /\ target[t] \in Authored /\ target[t] # kept[t]
  BY DEF IInv, TypeOK, Recover, Edited, Operations
<1>2. journal # "staging" /\ Operations = Ops
  BY DEF Operations, Ops
<1>3. /\ Prev(t) # Coming(t) /\ Coming(t) \notin Authored /\ Nothing \notin Authored
      /\ target[t] # Coming(t) /\ target[t] # Nothing
  BY <1>1, <1>2, NamesAssumption DEF IInv, Planned, TypeOK, Ops, Coming
<1>4. CASE journal = "installed"
  BY <1>1, <1>3, <1>4 DEF Acceptable, Committed, Coming
<1>5. CASE journal = "installing"
  <2>1. ~Changed(t) /\ Somewhere(t) /\ kept[t] = Prev(t)
    BY <1>1, <1>2, <1>5 DEF IInv, Promoting, Acceptable
  <2>2. backup[t] \in {Nothing, Prev(t)}
    BY <2>1 DEF Somewhere, Home, Aside, InPlace
  <2> QED
    BY <1>1, <1>3, <2>1, <2>2 DEF Changed, Prev, Coming
<1> QED
  BY <1>2, <1>4, <1>5, NamesAssumption DEF IInv, TypeOK, Recover, Readable, Phases, Acceptable

(* Only the author makes an edit.                                            *)
LEMMA EditedBefore ==
  ASSUME IInv, [Next]_vars, ~Edit, NEW t \in Targets, Edited(t)'
  PROVE  Edited(t)
<1>0. TypeOK /\ Nothing \notin Authored /\ \A b \in Builds : b \notin Authored
  BY NamesAssumption DEF IInv
<1> USE DEF Edited
<1>1. CASE MakeStaging \/ WriteJournal
  BY <1>1 DEF MakeStaging, WriteJournal
<1>2. CASE MoveAside
  BY <1>0, <1>2 DEF MoveAside, TypeOK
<1>3. CASE PutInPlace
  <2>1. staged[t] \in Builds \cup {Nothing}
    BY <1>0 DEF TypeOK
  <2> QED
    BY <1>0, <1>3, <2>1 DEF PutInPlace, TypeOK
<1>4. CASE RemoveInstalled
  BY <1>0, <1>4 DEF RemoveInstalled, TypeOK
<1>5. CASE PutBack
  <2>1. PICK u \in applied \ installed :
          target' = IF backup[u] = Nothing THEN target ELSE [target EXCEPT ![u] = backup[u]]
    BY <1>5 DEF PutBack, Last
  <2>2. u \in Ops /\ journal = "installing" /\ pc = "undo" /\ kept' = kept
    BY <1>0, <1>5, <2>1 DEF PutBack, IInv, Memory, TypeOK, Ops
  <2>3. backup[u] = kept[u]
    BY <2>1, <2>2 DEF IInv, Promoting, Remembered
  <2> QED
    BY <1>0, <2>1, <2>2, <2>3 DEF TypeOK
<1>6. CASE UNCHANGED <<target, kept>>
  BY <1>6
<1> QED
  BY <1>1, <1>2, <1>3, <1>4, <1>5, <1>6
  DEF Next, vars, disk, Start, Skip, Refuse, Recover, Stage, WriteEvidence, Promoted, Fail,
      Undone, Discard, Discarded, Kill

(* A build that is at work finds no edit but those it has taken over.        *)
LEMMA AtWork ==
  ASSUME IInv, pc \in Phases \cup {"promote"}, NEW t \in Targets
  PROVE  ~Edited(t)
<1>1. TypeOK /\ Nothing \notin Authored /\ \A b \in Builds : b \notin Authored
  BY NamesAssumption DEF IInv
<1>2. CASE pc \in {"staging", "installing"}
  BY <1>2 DEF IInv, Journalled, Unpromoted, Edited
<1>3. CASE pc \in {"promote", "installed"}
  <2>1. /\ \A u \in Ops : kept[u] = Prev(u) /\ Remembered(u)
        /\ \A u \in Targets \ Ops : target[u] = kept[u]
    BY <1>3 DEF IInv, Journalled, Promoting
  <2>2. CASE t \in Ops
    <3>1. Coming(t) \in Builds \cup {Nothing}
      BY <1>1, <2>2 DEF TypeOK, Ops, Coming
    <3>2. target[t] \in {Coming(t), Nothing, kept[t]}
      BY <2>1, <2>2 DEF Remembered, InPlace
    <3> QED
      BY <1>1, <3>1, <3>2 DEF Edited
  <2> QED
    BY <2>1, <2>2 DEF Edited
<1> QED
  BY <1>2, <1>3 DEF Phases

LEMMA BlockedStep ==
  ASSUME IInv, [Next]_vars
  PROVE  Blocked'
<1> SUFFICES ASSUME NEW t \in Operations', Readable', Edited(t)', pc' \notin {"down", "recover"}
             PROVE  FALSE
  BY DEF Blocked
<1>0. TypeOK /\ TypeOK' /\ Blocked
  BY TypeStep DEF IInv
<1>1. t \in Targets /\ ~Edit
  BY <1>0 DEF Operations, TypeOK, Edit, memory
<1>2. Edited(t)
  BY <1>1, EditedBefore
<1>3. pc \notin Phases \cup {"promote"}
  BY <1>1, <1>2, AtWork
<1>4. ASSUME UNCHANGED <<dir, journal, evidence, plan>>
      PROVE  t \in Operations /\ Readable
  BY <1>4 DEF Operations, Readable
<1>5. CASE Recover
  BY <1>2, <1>4, <1>5, RecoverSeesEdits DEF Recover, disk
<1>6. CASE Skip
  BY <1>4, <1>6 DEF Skip, disk
<1>7. CASE MakeStaging
  BY <1>7 DEF MakeStaging, Readable
<1>8. CASE RemoveInstalled \/ PutBack \/ Undone \/ (UNCHANGED vars)
  <2>1. UNCHANGED <<dir, journal, evidence, plan>> /\ pc \notin {"down", "recover"}
    BY <1>8 DEF RemoveInstalled, PutBack, Undone, vars, disk, memory
  <2> QED
    BY <1>0, <1>2, <1>4, <2>1 DEF Blocked
<1>9. CASE Discard
  <2>1. UNCHANGED <<dir, journal, evidence, plan>> /\ pc = "discard"
    BY <1>9, NamesAssumption DEF Discard, Readable
  <2> QED
    BY <1>0, <1>2, <1>4, <2>1 DEF Blocked
<1>10. CASE Discarded
  BY <1>10 DEF Discarded, Readable
<1> QED
  BY <1>1, <1>3, <1>5, <1>6, <1>7, <1>8, <1>9, <1>10
  DEF Next, Start, Refuse, Stage, WriteEvidence, WriteJournal, MoveAside, PutInPlace, Promoted,
      Fail, Kill, Phases

LEMMA RecordedStep ==
  ASSUME IInv, [Next]_vars
  PROVE  Recorded'
<1>1. CASE Edit
  BY <1>1 DEF Edit, Recorded
<1>2. CASE ~Edit
  <2>1. edits' = edits
    BY <1>2 DEF Next, vars, Start, Skip, Refuse, Recover, MakeStaging, Stage, WriteEvidence,
        WriteJournal, MoveAside, PutInPlace, Promoted, Fail, RemoveInstalled, PutBack, Undone,
        Discard, Discarded, Kill
  <2>2. \A t \in Targets : Edited(t)' => Edited(t)
    BY <1>2, EditedBefore
  <2> QED
    BY <2>1, <2>2 DEF IInv, Recorded
<1> QED
  BY <1>1, <1>2

-----------------------------------------------------------------------------
(* What is newest.                                                           *)

LEMMA NewestStep ==
  ASSUME IInv, [Next]_vars
  PROVE  Newest'
<1>0. TypeOK /\ Newest
  BY DEF IInv
<1>1. CASE Start
  <2>1. build \in Nat /\ build' = build + 1 /\ UNCHANGED <<target, backup, staged>>
    BY <1>0, <1>1, OutputAssumption DEF Start, TypeOK, disk
  <2>2. \A f \in Builds : f <= build => f <= build + 1 /\ f # build + 1
    BY <2>1, OutputAssumption
  <2>3. build' \in Builds
    BY <1>1 DEF Start
  <2>4. \A t \in Targets : \A f \in {target[t], backup[t], staged[t]} : f \in Builds => f <= build
    BY <1>0 DEF Newest
  <2> QED
    BY <2>1, <2>2, <2>3, <2>4 DEF Newest
<1>2. CASE Skip \/ Refuse \/ Recover \/ Kill
  BY <1>0, <1>2 DEF Skip, Refuse, Recover, Kill, Newest, disk
<1>3. CASE MakeStaging
  BY <1>0, <1>3, NamesAssumption DEF MakeStaging, Newest, Empty, TypeOK
<1>4. CASE Stage
  <2>1. \A t \in Targets : staged'[t] \in {build, Nothing}
    BY <1>4 DEF Stage, Outputs
  <2>2. build <= build /\ Nothing \notin Builds
    BY <1>0, OutputAssumption, NamesAssumption DEF TypeOK
  <2> QED
    BY <1>0, <1>4, <2>1, <2>2 DEF Stage, Newest
<1>5. CASE WriteJournal
  <2>1. /\ UNCHANGED <<target, backup, staged, build>> /\ onward' = "down"
        /\ pc' = "staging" => pc = "staging"
        /\ pc' \in {"staging", "promote", "discard"}
    BY <1>5 DEF WriteJournal, After, Phases
  <2> QED
    BY <1>0, <2>1 DEF Newest
<1>6. CASE MoveAside
  BY <1>0, <1>6, NamesAssumption DEF MoveAside, First, Newest, TypeOK
<1>7. CASE PutInPlace
  BY <1>0, <1>7, NamesAssumption DEF PutInPlace, Newest, TypeOK
<1>8. CASE RemoveInstalled
  BY <1>0, <1>8, NamesAssumption DEF RemoveInstalled, Newest, TypeOK
<1>9. CASE PutBack
  BY <1>0, <1>9, NamesAssumption DEF PutBack, Last, Newest, TypeOK
<1>10. CASE WriteEvidence \/ Promoted \/ Fail \/ Undone
  BY <1>0, <1>10 DEF WriteEvidence, Promoted, Fail, Undone, Newest, disk, memory
<1>11. CASE Discard
  BY <1>0, <1>11, NamesAssumption DEF Discard, Newest, TypeOK, memory
<1>12. CASE Discarded
  <2>1. /\ UNCHANGED <<target, backup, staged, build, onward>>
        /\ pc = "discard" /\ pc' = onward /\ onward \in {"down", "begin"}
    BY <1>0, <1>12 DEF Discarded, TypeOK
  <2> QED
    BY <1>0, <2>1 DEF Newest
<1>13. CASE Edit
  BY <1>0, <1>13, NamesAssumption DEF Edit, Newest, TypeOK, memory
<1>14. CASE UNCHANGED vars
  BY <1>0, <1>14 DEF Newest, vars, disk, memory
<1> QED
  BY <1>1, <1>2, <1>3, <1>4, <1>5, <1>6, <1>7, <1>8, <1>9, <1>10, <1>11, <1>12, <1>13,
     <1>14 DEF Next

-----------------------------------------------------------------------------
(* Where the files are.                                                      *)

(* Once the staging directory is discarded, the outputs are those kept.      *)
LEMMA DiscardedAreKept ==
  ASSUME IInv, pc = "discard"
  PROVE  \A t \in Targets : Intact(t)
BY DEF IInv, Unpromoted, Promoting, Installed, TypeOK, Phases

LEMMA UnpromotedStep ==
  ASSUME IInv, [Next]_vars
  PROVE  Unpromoted'
<1>0. TypeOK /\ Unpromoted
  BY DEF IInv
<1> USE DEF Ops, Prev, Coming, Intact, Edited
<1>1. CASE MakeStaging
  BY <1>1, NamesAssumption DEF MakeStaging, Unpromoted, Phases
<1>2. CASE Stage
  <2>1. Newest
    BY DEF IInv
  <2>2. target = kept /\ backup = Empty
    BY <1>0, <1>2 DEF Stage, Unpromoted
  <2>3. \A t \in DOMAIN plan' : plan'[t].prev = target[t] /\ plan'[t].next = Outputs(build)[t]
    BY <1>0, <1>2, <2>1, StagePlans
  <2> QED
    BY <1>2, <2>2, <2>3 DEF Stage, Unpromoted
<1>3. CASE WriteJournal
  <2>1. CASE pc = "staging"
    <3>1. journal = Nothing /\ pc' = "staging"
      BY <1>3, <2>1 DEF WriteJournal, After, IInv, Journalled
    <3>2. target = kept /\ backup = Empty
      BY <1>0, <2>1, <3>1 DEF Unpromoted
    <3> QED
      BY <1>3, <3>1, <3>2 DEF WriteJournal, Unpromoted
  <2>2. CASE pc # "staging"
    BY <1>3, <2>2, NamesAssumption DEF WriteJournal, Unpromoted, Phases
  <2> QED
    BY <2>1, <2>2
<1>4. CASE MoveAside \/ PutInPlace
  <2>1. journal = "installing" /\ journal' = journal
    BY <1>4 DEF MoveAside, PutInPlace, IInv, Journalled
  <2> QED
    BY <2>1, NamesAssumption DEF Unpromoted, Phases
<1>5. CASE RemoveInstalled \/ PutBack
  <2>1. journal = "installing" /\ journal' = journal
    BY <1>5 DEF RemoveInstalled, PutBack, Last, IInv, Memory
  <2> QED
    BY <2>1, NamesAssumption DEF Unpromoted, Phases
<1>6. CASE Discard
  <2>1. (\A t \in Targets : Intact(t)') /\ pc' = "discard"
    BY <1>6, DiscardedAreKept DEF Discard, memory
  <2>2. backup = Empty => backup' = Empty
    BY <1>6 DEF Discard, Empty
  <2>3. journal' \in {journal, Nothing}
    BY <1>6 DEF Discard
  <2> QED
    BY <1>0, <2>1, <2>2, <2>3, NamesAssumption DEF Unpromoted, Phases
<1>7. CASE Edit
  <2>1. UNCHANGED <<backup, journal, pc, kept>> /\ pc = "down"
    BY <1>7 DEF Edit, memory
  <2>2. PICK t \in Targets :
          \E f \in Authored \ {target[t], kept[t]} : target' = [target EXCEPT ![t] = f]
    BY <1>7 DEF Edit
  <2>3. \A v \in Targets : Intact(v) => Intact(v)'
    BY <1>0, <2>1, <2>2 DEF TypeOK
  <2> QED
    BY <1>0, <2>1, <2>3 DEF Unpromoted
<1>8. CASE UNCHANGED <<target, kept, journal, backup>> /\ (pc' \in {"staging", "installing"} => UNCHANGED <<pc, plan, staged>>)
  BY <1>0, <1>8 DEF Unpromoted
<1> QED
  BY <1>1, <1>2, <1>3, <1>4, <1>5, <1>6, <1>7, <1>8
  DEF Next, vars, disk, memory, Start, Skip, Refuse, Recover, WriteEvidence, Promoted, Fail,
      Undone, Discarded, Kill, IInv, TypeOK

(* Recovery finds on the disk what the process that was killed knew.         *)
LEMMA RecoverRemembers ==
  ASSUME IInv, Recover, journal = "installing", NEW t \in Ops
  PROVE  Remembered(t)'
<1> USE DEF Prev, Coming
<1>1. t \in Targets /\ t \in Operations
  BY DEF IInv, TypeOK, Ops, Operations
<1>2. /\ t \in installed' <=> ToRemove(t)
      /\ t \in applied' <=> ToRemove(t) \/ ToRestore(t)
  BY <1>1 DEF Recover, Interrupted
<1>3. ~Edited(t) /\ ~Changed(t)
  BY <1>1, RecoverSeesEdits DEF Recover, Acceptable
<1>4. /\ Somewhere(t) /\ Prev(t) # Coming(t) /\ staged[t] \in {Coming(t), Nothing}
  BY DEF IInv, Promoting, Planned
<1>5. UNCHANGED <<target, staged, backup, plan>>
  BY DEF Recover, disk
<1>6. ToRemove(t) => InPlace(t) /\ Coming(t) # Nothing
  BY <1>3, <1>4 DEF ToRemove, Somewhere, Home, Aside, InPlace
<1>7. ToRestore(t) /\ ~ToRemove(t) => backup[t] = Prev(t) /\ target[t] = Nothing
  BY <1>3, <1>4 DEF ToRestore, ToRemove, Somewhere, Home, Aside, InPlace, Changed
<1>8. ~ToRestore(t) /\ ~ToRemove(t) => backup[t] = Nothing /\ target[t] = Prev(t)
  BY <1>3, <1>4 DEF ToRestore, ToRemove, Somewhere, Home, Aside, InPlace, Changed
<1> QED
  BY <1>2, <1>5, <1>6, <1>7, <1>8 DEF Remembered, InPlace

(* When all is undone, the outputs are those kept, and nothing is aside.     *)
LEMMA UndoneIsKept ==
  ASSUME IInv, Undone
  PROVE  (\A t \in Targets : Intact(t)) /\ (journal = "installing" => backup = Empty)
<1>1. CASE journal = "installing"
  <2>1. \A t \in Ops : backup[t] = Nothing /\ target[t] = Prev(t) /\ kept[t] = Prev(t)
    BY <1>1 DEF IInv, Promoting, Remembered, Undone
  <2>2. \A t \in Targets \ Ops : backup[t] = Nothing /\ Intact(t)
    BY <1>1 DEF IInv, Promoting, Planned
  <2> QED
    BY <2>1, <2>2 DEF IInv, TypeOK, Empty, Intact
<1>2. CASE journal # "installing"
  BY <1>2 DEF IInv, Unpromoted, Installed, TypeOK, Phases
<1> QED
  BY <1>1, <1>2

LEMMA PromotingStep ==
  ASSUME IInv, [Next]_vars
  PROVE  Promoting'
<1>0. TypeOK /\ Planned /\ Promoting
  BY DEF IInv
<1> USE DEF Ops, Prev, Coming, Intact, Edited
<1>1. CASE Start \/ Skip \/ Refuse \/ Kill
  BY <1>0, <1>1 DEF Start, Skip, Refuse, Kill, Promoting, Somewhere, Home, Aside, InPlace,
       disk, Phases
<1>2. CASE Recover
  <2>1. /\ UNCHANGED <<target, staged, backup, journal, plan, kept>> /\ pc' = "undo"
    BY <1>2 DEF Recover, disk
  <2>2. journal = "installing" => \A t \in Ops : Remembered(t)'
    BY <1>2, RecoverRemembers
  <2> QED
    BY <1>0, <2>1, <2>2 DEF Promoting, Somewhere, Home, Aside, InPlace
<1>3. CASE MakeStaging
  BY <1>3, NamesAssumption DEF MakeStaging, Promoting, Phases
<1>4. CASE Stage
  BY <1>4 DEF Stage, Promoting
<1>5. CASE WriteEvidence
  BY <1>0, <1>5 DEF WriteEvidence, Promoting, Somewhere, Home, Aside, InPlace, Remembered,
       Ready, Finished, memory
<1>6. CASE WriteJournal
  <2>1. CASE pc = "installing"
    <3>1. /\ journal = "staging" /\ applied = {} /\ installed = {}
      BY <1>0, <2>1 DEF IInv, Journalled, Memory, TypeOK
    <3>2. /\ target = kept /\ backup = Empty
          /\ \A t \in Ops : kept[t] = Prev(t) /\ staged[t] = Coming(t)
      BY <2>1, <3>1 DEF IInv, Unpromoted
    <3>3. /\ UNCHANGED <<target, staged, backup, plan, applied, installed, kept>>
          /\ pc' = "promote"
      BY <1>6, <2>1 DEF WriteJournal, After
    <3>4. \A t \in Ops : t \in Targets
      BY <1>0 DEF TypeOK
    <3>5. \A t \in Ops : Home(t) /\ Remembered(t) /\ Ready(t)
      BY <3>1, <3>2, <3>4 DEF Home, Remembered, Ready, Empty
    <3> QED
      BY <3>2, <3>3, <3>5 DEF Promoting, Somewhere, Home, Remembered, Ready, InPlace
  <2>2. CASE pc # "installing"
    BY <1>6, <2>2 DEF WriteJournal, Promoting
  <2> QED
    BY <2>1, <2>2
<1>7. CASE MoveAside
  <2>1. journal = "installing" /\ \A t \in Ops : Remembered(t) /\ Ready(t)
    BY <1>7 DEF MoveAside, IInv, Journalled, Promoting
  <2>2. PICK t \in DOMAIN plan \ applied :
          /\ backup' = [backup EXCEPT ![t] = target[t]]
          /\ target' = [target EXCEPT ![t] = Nothing]
          /\ applied' = applied \cup {t}
    BY <1>7 DEF MoveAside, First
  <2>3. /\ UNCHANGED <<staged, journal, plan, pc, installed, kept>> /\ pc = "promote"
    BY <1>7 DEF MoveAside
  <2>4. t \in Targets /\ t \notin installed /\ target[t] = Prev(t)
    BY <1>0, <2>1, <2>2 DEF TypeOK, Remembered
  <2>5. backup'[t] = Prev(t) /\ target'[t] = Nothing
    BY <1>0, <2>2, <2>4 DEF TypeOK
  <2>6. \A u \in Targets : u # t => backup'[u] = backup[u] /\ target'[u] = target[u]
    BY <1>0, <2>2 DEF TypeOK
  <2>7. \A u \in Ops : Somewhere(u)' /\ Remembered(u)' /\ Ready(u)'
    BY <1>0, <2>1, <2>2, <2>3, <2>4, <2>5, <2>6
    DEF TypeOK, Promoting, Somewhere, Home, Aside, InPlace, Remembered, Ready
  <2> QED
    BY <1>0, <2>1, <2>2, <2>3, <2>6, <2>7 DEF Promoting, TypeOK
<1>8. CASE PutInPlace
  <2>1. journal = "installing" /\ \A t \in Ops : Remembered(t) /\ Ready(t)
    BY <1>8 DEF PutInPlace, IInv, Journalled, Promoting
  <2>2. PICK t \in applied :
          /\ ~Finished(t)
          /\ target' = [target EXCEPT ![t] = staged[t]]
          /\ staged' = [staged EXCEPT ![t] = Nothing]
          /\ installed' = installed \cup {t}
    BY <1>8 DEF PutInPlace
  <2>3. /\ UNCHANGED <<backup, journal, plan, pc, applied, kept>> /\ pc = "promote"
    BY <1>8 DEF PutInPlace
  <2>4. /\ t \in Ops /\ t \in Targets /\ Coming(t) # Nothing
        /\ backup[t] = Prev(t) /\ staged[t] = Coming(t)
    BY <1>0, <2>1, <2>2 DEF TypeOK, Finished, Remembered, Ready
  <2>5. target'[t] = Coming(t) /\ staged'[t] = Nothing
    BY <1>0, <2>2, <2>4 DEF TypeOK
  <2>6. \A u \in Targets : u # t => staged'[u] = staged[u] /\ target'[u] = target[u]
    BY <1>0, <2>2 DEF TypeOK
  <2>7. \A u \in Ops : Somewhere(u)' /\ Remembered(u)' /\ Ready(u)'
    BY <1>0, <2>1, <2>2, <2>3, <2>4, <2>5, <2>6
    DEF TypeOK, Promoting, Somewhere, Home, Aside, InPlace, Remembered, Ready
  <2> QED
    BY <1>0, <2>1, <2>3, <2>4, <2>6, <2>7 DEF Promoting, TypeOK
<1>9. CASE Promoted
  BY <1>0, <1>9 DEF Promoted, Promoting, Somewhere, Home, Aside, InPlace, Remembered, Ready,
       Finished, disk
<1>10. CASE Fail
  <2>1. journal = "installing" => pc \in {"promote", "installed"}
    BY <1>10, NamesAssumption DEF Fail, IInv, Journalled, Phases
  <2> QED
    BY <1>0, <1>10, <2>1 DEF Fail, Promoting, Somewhere, Home, Aside, InPlace, Remembered, disk
<1>11. CASE RemoveInstalled
  <2>1. journal = "installing" /\ \A t \in Ops : Remembered(t)
    BY <1>11 DEF RemoveInstalled, Last, IInv, Memory, Promoting
  <2>2. PICK t \in installed :
          /\ target' = [target EXCEPT ![t] = Nothing]
          /\ installed' = installed \ {t}
    BY <1>11 DEF RemoveInstalled, Last
  <2>3. /\ UNCHANGED <<staged, backup, journal, plan, pc, applied, kept>> /\ pc = "undo"
    BY <1>11 DEF RemoveInstalled
  <2>4. t \in Ops /\ t \in Targets /\ t \in applied /\ backup[t] = Prev(t)
    BY <1>0, <2>1, <2>2 DEF TypeOK, Remembered, InPlace
  <2>5. target'[t] = Nothing
    BY <1>0, <2>2, <2>4 DEF TypeOK
  <2>6. \A u \in Targets : u # t => target'[u] = target[u]
    BY <1>0, <2>2 DEF TypeOK
  <2>7. \A u \in Ops : Somewhere(u)' /\ Remembered(u)'
    BY <1>0, <2>1, <2>2, <2>3, <2>4, <2>5, <2>6
    DEF TypeOK, Promoting, Somewhere, Home, Aside, InPlace, Remembered
  <2> QED
    BY <1>0, <2>1, <2>3, <2>4, <2>6, <2>7 DEF Promoting, TypeOK
<1>12. CASE PutBack
  <2>1. journal = "installing" /\ \A t \in Ops : Remembered(t)
    BY <1>12 DEF PutBack, Last, IInv, Memory, Promoting
  <2>2. PICK t \in applied \ installed :
          /\ target' = IF backup[t] = Nothing THEN target ELSE [target EXCEPT ![t] = backup[t]]
          /\ backup' = [backup EXCEPT ![t] = Nothing]
          /\ applied' = applied \ {t}
    BY <1>12 DEF PutBack, Last
  <2>3. /\ UNCHANGED <<staged, journal, plan, pc, installed, kept>> /\ pc = "undo"
    BY <1>12 DEF PutBack
  <2>4. t \in Ops /\ t \in Targets /\ backup[t] = Prev(t) /\ target[t] = Nothing
    BY <1>0, <2>1, <2>2 DEF TypeOK, Remembered
  <2>5. target'[t] = Prev(t) /\ backup'[t] = Nothing
    BY <1>0, <2>2, <2>4 DEF TypeOK
  <2>6. \A u \in Targets : u # t => target'[u] = target[u] /\ backup'[u] = backup[u]
    BY <1>0, <2>2 DEF TypeOK
  <2>7. \A u \in Ops : Somewhere(u)' /\ Remembered(u)'
    BY <1>0, <2>1, <2>2, <2>3, <2>4, <2>5, <2>6
    DEF TypeOK, Promoting, Somewhere, Home, Aside, InPlace, Remembered
  <2> QED
    BY <1>0, <2>1, <2>3, <2>4, <2>6, <2>7 DEF Promoting, TypeOK
<1>13. CASE Undone
  <2>1. /\ UNCHANGED <<target, staged, backup, journal, plan, kept>> /\ pc' = "discard"
    BY <1>13 DEF Undone, disk
  <2> QED
    BY <1>0, <1>13, <2>1, UndoneIsKept DEF Promoting, Somewhere, Home, Aside, InPlace
<1>14. CASE Discard
  <2>1. /\ UNCHANGED <<target, plan, kept, pc>> /\ pc = "discard"
        /\ journal' \in {journal, Nothing}
    BY <1>14 DEF Discard, memory
  <2>2. CASE journal = "installing"
    <3>1. (\A t \in Targets : Intact(t)) /\ backup = Empty
      BY <1>0, <2>1, <2>2 DEF Promoting
    <3>2. backup' = Empty
      BY <1>14, <3>1 DEF Discard, Empty
    <3>3. \A t \in Ops : t \in Targets /\ kept[t] = Prev(t)
      BY <1>0, <2>2 DEF Promoting, TypeOK
    <3>4. \A t \in Targets : Intact(t)'
      BY <2>1, <3>1
    <3>5. \A t \in Ops : Home(t)'
      BY <2>1, <3>2, <3>3, <3>4 DEF Home, Empty
    <3> QED
      BY <2>1, <3>1, <3>2, <3>3, <3>4, <3>5 DEF Promoting, Somewhere, TypeOK
  <2>3. CASE journal # "installing"
    BY <2>1, <2>3, NamesAssumption DEF Promoting, Phases
  <2> QED
    BY <2>2, <2>3
<1>15. CASE Discarded
  BY <1>15, NamesAssumption DEF Discarded, Promoting, Phases
<1>16. CASE Edit
  <2>1. /\ UNCHANGED <<staged, backup, journal, plan, pc, kept>> /\ pc = "down"
    BY <1>16 DEF Edit, memory
  <2>2. PICK t \in Targets :
          \E f \in Authored \ {target[t], kept[t]} : target' = [target EXCEPT ![t] = f]
    BY <1>16 DEF Edit
  <2>3. /\ Edited(t)' /\ \A u \in Targets : u # t => target'[u] = target[u]
    BY <1>0, <2>1, <2>2 DEF TypeOK
  <2>4. CASE journal = "installing"
    <3>1. \A u \in Ops : u \in Targets /\ kept[u] = Prev(u) /\ Somewhere(u)
      BY <1>0, <2>4 DEF Promoting, TypeOK
    <3>2. \A u \in Ops : Somewhere(u)'
      BY <2>1, <2>3, <3>1 DEF Somewhere, Home, Aside, InPlace
    <3>3. \A u \in Targets \ Ops : Intact(u)'
      BY <1>0, <2>1, <2>3, <2>4 DEF Promoting
    <3> QED
      BY <2>1, <2>4, <3>1, <3>2, <3>3 DEF Promoting, Phases
  <2>5. CASE journal # "installing"
    BY <2>1, <2>5 DEF Promoting
  <2> QED
    BY <2>4, <2>5
<1>17. CASE UNCHANGED vars
  BY <1>0, <1>17 DEF Promoting, Somewhere, Home, Aside, InPlace, Remembered, Ready, Finished,
       vars, disk, memory
<1> QED
  BY <1>1, <1>2, <1>3, <1>4, <1>5, <1>6, <1>7, <1>8, <1>9, <1>11, <1>12, <1>13, <1>14,
     <1>15, <1>16, <1>17, <1>10 DEF Next

(* The outputs are those of the plan when the journal is about to say so.    *)
LEMMA PromotedIsGoal ==
  ASSUME IInv, pc = "installed"
  PROVE  staged = Empty /\ target = Goal
<1>1. /\ journal = "installing"
      /\ \A t \in Ops : t \in applied /\ Finished(t) /\ Remembered(t) /\ Ready(t)
      /\ \A t \in Targets \ Ops : target[t] = kept[t] /\ staged[t] = Nothing
  BY DEF IInv, Journalled, Promoting, Planned
<1>2. \A t \in Ops : staged[t] = Nothing /\ target[t] = Coming(t)
  BY <1>1 DEF Finished, Remembered, Ready, InPlace, Coming
<1> QED
  BY <1>1, <1>2 DEF IInv, TypeOK, Empty, Goal

LEMMA InstalledStep ==
  ASSUME IInv, [Next]_vars
  PROVE  Installed'
<1> USE DEF Intact, Edited
<1>0. TypeOK /\ Installed
  BY DEF IInv
<1>1. CASE WriteJournal
  BY <1>1, PromotedIsGoal DEF WriteJournal, Installed
<1>2. CASE MakeStaging
  BY <1>2, NamesAssumption DEF MakeStaging, Installed, Phases
<1>3. CASE Stage
  BY <1>3 DEF Stage, Installed
<1>4. CASE MoveAside \/ PutInPlace
  BY <1>4 DEF MoveAside, PutInPlace, IInv, Journalled, Installed
<1>5. CASE RemoveInstalled \/ PutBack
  BY <1>5 DEF RemoveInstalled, PutBack, Last, IInv, Memory, Installed
<1>6. CASE Discard
  BY <1>0, <1>6, NamesAssumption DEF Discard, Installed, Empty, Phases
<1>7. CASE Edit
  BY <1>0, <1>7 DEF Edit, Installed, TypeOK
<1>8. CASE UNCHANGED <<target, staged, journal, kept>>
  BY <1>0, <1>8 DEF Installed
<1> QED
  BY <1>1, <1>2, <1>3, <1>4, <1>5, <1>6, <1>7, <1>8
  DEF Next, vars, disk, Start, Skip, Refuse, Recover, WriteEvidence, Promoted, Fail, Undone,
      Discarded, Kill

-----------------------------------------------------------------------------
(* The theorems about lost files, edits and commits.                         *)

LEMMA InitInv ==
  ASSUME Init
  PROVE  IInv
<1>1. /\ target \in {Empty, Outputs(0)} \cup {[Empty EXCEPT ![Main] = f] : f \in Authored}
      /\ 0 \in Builds
  BY OutputAssumption DEF Init
<1>2. \A t \in Targets : target[t] \in {Nothing, 0} \cup Authored
  BY <1>1 DEF Empty, Outputs
<1>3. target \in [Targets -> {Nothing, 0} \cup Authored]
  BY <1>1 DEF Empty, Outputs
<1>4. TypeOK
  BY <1>1, <1>3, NoOperation, EmptyTyped DEF Init, TypeOK, Files
<1>5. Planned
  BY NoOperation DEF Init, Planned, Ops, Empty
<1>6. Blocked /\ Recorded
  BY DEF Init, Blocked, Recorded, Edited
<1>7. Newest
  BY <1>2, NamesAssumption DEF Init, Newest, Empty
<1>8. Directory /\ Journalled /\ Memory
  BY DEF Init, Directory, Journalled, Memory, Phases
<1>9. Unpromoted /\ Promoting /\ Installed
  BY NamesAssumption DEF Init, Unpromoted, Promoting, Installed, Phases, Intact
<1> QED
  BY <1>4, <1>5, <1>6, <1>7, <1>8, <1>9 DEF IInv

LEMMA Invariance == Spec => []IInv
<1>1. Init => IInv
  BY InitInv
<1>2. IInv /\ [Next]_vars => IInv'
  BY TypeStep, PlannedStep, DirectoryStep, JournalledStep, MemoryStep, BlockedStep, RecordedStep,
     NewestStep, UnpromotedStep, PromotingStep, InstalledStep DEF IInv
<1> QED
  BY <1>1, <1>2, PTL DEF Spec

(* The disk and the process's memory of it are well formed.                  *)
THEOREM TypeCorrect == Spec => []TypeOK
<1>1. IInv => TypeOK
  BY DEF IInv
<1> QED
  BY <1>1, Invariance, PTL

(* Every output of the last complete build is at its place or set aside,     *)
(* whatever step a build, its undoing or a recovery is killed at.            *)
THEOREM NoOutputIsLost == Spec => []NothingLost
<1>1. ASSUME IInv, NEW t \in Targets, kept[t] # Nothing
      PROVE  kept[t] \in {target[t], backup[t]} \/ Edited(t)
  <2>1. CASE journal \in {Nothing, "staging"}
    BY <1>1, <2>1 DEF IInv, Unpromoted, Intact
  <2>2. CASE journal = "installing"
    BY <1>1, <2>2 DEF IInv, Promoting, Somewhere, Home, Aside, InPlace, Intact
  <2>3. CASE journal = "installed"
    BY <1>1, <2>3 DEF IInv, Installed, Intact
  <2> QED
    BY <1>1, <2>1, <2>2, <2>3 DEF IInv, TypeOK, Phases
<1>2. IInv => NothingLost
  BY <1>1 DEF NothingLost
<1> QED
  BY <1>2, Invariance, PTL

(* Which actions touch the outputs, and in which state.                      *)
LEMMA TouchesOutputs ==
  ASSUME IInv, [Next]_vars, NEW t \in Targets, target'[t] # target[t]
  PROVE  \/ journal = "installing" /\ pc \in {"promote", "undo"}
         \/ target'[t] \in Authored
<1>1. CASE MoveAside \/ PutInPlace
  BY <1>1 DEF MoveAside, PutInPlace, IInv, Journalled
<1>2. CASE RemoveInstalled \/ PutBack
  BY <1>2 DEF RemoveInstalled, PutBack, Last, IInv, Memory
<1>3. CASE Edit
  BY <1>3 DEF Edit, IInv, TypeOK
<1>4. CASE target' = target
  BY <1>4
<1> QED
  BY <1>1, <1>2, <1>3, <1>4
  DEF Next, vars, disk, Start, Skip, Refuse, Recover, MakeStaging, Stage, WriteEvidence,
      WriteJournal, Promoted, Fail, Undone, Discard, Discarded, Kill

(* Over what the author wrote on an output of a transaction that can be      *)
(* read, no build gets past recovery: file and transaction stay.             *)
LEMMA StepsKeepInDoubt ==
  ASSUME IInv, [Next]_vars
  PROVE  KeepsInDoubt
<1>1. ASSUME NEW t \in Operations, Readable, Edited(t)
      PROVE  Edited(t)' /\ UNCHANGED <<staged, backup, dir, journal, evidence, plan>>
  <2>1. pc \in {"down", "recover"} /\ TypeOK
    BY <1>1 DEF IInv, Blocked
  <2>2. CASE Start \/ Refuse \/ Kill
    BY <1>1, <2>2 DEF Start, Refuse, Kill, disk, Edited
  <2>3. CASE Skip
    BY <1>1, <2>3 DEF Skip
  <2>4. CASE Recover
    BY <1>1, <2>4, RecoverSeesEdits
  <2>5. CASE Edit
    BY <1>1, <2>1, <2>5 DEF Edit, TypeOK, Edited
  <2>6. CASE UNCHANGED vars
    BY <1>1, <2>6 DEF vars, disk, Edited
  <2> QED
    BY <1>1, <2>1, <2>2, <2>3, <2>4, <2>5, <2>6
    DEF Next, Phases, MakeStaging, Stage, WriteEvidence, WriteJournal, MoveAside, PutInPlace,
        Promoted, Fail, RemoveInstalled, PutBack, Undone, Discard, Discarded
<1> QED
  BY <1>1 DEF KeepsInDoubt

(* Whatever a build finds, it takes of the author's files only a main output *)
(* that was there before it, and sets it aside.                              *)
LEMMA StepsTakeMainAside ==
  ASSUME IInv, [Next]_vars
  PROVE  TakesMainAside
<1>1. ASSUME NEW t \in Targets, target[t] \in Authored,
             target'[t] \notin Authored
      PROVE  /\ t = Main /\ pc = "promote"
             /\ target[t] = kept[t] /\ backup'[t] = target[t]
  <2>1. /\ TypeOK /\ target'[t] # target[t] /\ target[t] # Nothing
        /\ \A b \in Builds : target[t] # b
    BY <1>1, NamesAssumption DEF IInv
  <2>2. /\ journal = "installing" /\ pc \in {"promote", "undo"}
        /\ \A u \in Ops : kept[u] = Prev(u) /\ Remembered(u)
    BY <1>1, <2>1, TouchesOutputs DEF IInv, Promoting
  <2>3. CASE MoveAside
    <3>1. PICK u \in Ops \ applied : /\ backup' = [backup EXCEPT ![u] = target[u]]
                                     /\ target' = [target EXCEPT ![u] = Nothing]
      BY <2>3 DEF MoveAside, First, Ops
    <3>2. u = t
      BY <1>1, <2>1, <3>1 DEF TypeOK
    <3>3. target[t] = Prev(t) /\ t = Main
      BY <1>1, <2>2, <3>1, <3>2 DEF Remembered, IInv, Planned
    <3> QED
      BY <1>1, <2>1, <2>2, <2>3, <3>1, <3>2, <3>3 DEF MoveAside, TypeOK
  <2>4. CASE PutInPlace \/ PutBack
    <3>1. PICK u \in applied \ installed : \A v \in Targets \ {u} : target'[v] = target[v]
      BY <2>1, <2>4 DEF PutInPlace, PutBack, Last, Finished, TypeOK
    <3>2. target[u] = Nothing
      BY <2>1, <2>2, <3>1 DEF Remembered, TypeOK, Ops
    <3> QED
      BY <1>1, <2>1, <3>1, <3>2
  <2>5. CASE RemoveInstalled
    <3>1. PICK u \in installed : \A v \in Targets \ {u} : target'[v] = target[v]
      BY <2>1, <2>5 DEF RemoveInstalled, Last, TypeOK
    <3>2. target[u] = Coming(u) /\ Coming(u) \in Builds \cup {Nothing}
      BY <2>1, <2>2, <3>1 DEF Remembered, InPlace, TypeOK, Ops, Coming
    <3> QED
      BY <1>1, <2>1, <3>1, <3>2
  <2>6. ~Edit
    BY <2>2 DEF Edit
  <2> QED
    BY <1>1, <2>1, <2>3, <2>4, <2>5, <2>6
    DEF Next, vars, disk, Start, Skip, Refuse, Recover, MakeStaging, Stage, WriteEvidence,
        WriteJournal, Promoted, Fail, Undone, Discard, Discarded, Kill
<1> QED
  BY <1>1 DEF TakesMainAside

(* What the author wrote stops the builds that would undo or clear away the  *)
(* transaction it was written over, and leaves its place only as the main    *)
(* output, set aside by promotion: in every state a build can find.          *)
THEOREM EditsAreKept == Spec => EditsKept
<1>1. IInv /\ [Next]_vars => [KeepsInDoubt /\ TakesMainAside]_vars
  BY StepsKeepInDoubt, StepsTakeMainAside
<1> QED
  BY <1>1, Invariance, PTL DEF Spec, EditsKept

(* What the journal calls installed stays, but for an author's edit.         *)
THEOREM CommitsAreFinal == Spec => CommitIsFinal
<1>1. ASSUME IInv, [Next]_vars, journal = "installed", NEW t \in Targets, target'[t] # target[t]
      PROVE  target'[t] \in Authored
  BY <1>1, TouchesOutputs
<1>2. IInv /\ [Next]_vars =>
        [journal = "installed" =>
           \A t \in Targets : target'[t] # target[t] => target'[t] \in Authored]_vars
  BY <1>1
<1> QED
  BY <1>2, Invariance, PTL DEF Spec, CommitIsFinal

-----------------------------------------------------------------------------
(* Outputs are never mixed.                                                  *)

(* Outputs that only the author has changed since are still good.            *)
LEMMA NearIsGood ==
  ASSUME TypeOK, NEW F, F \in [Targets -> Files], Good(F), Near(F)
  PROVE  Good(target)
<1>1. Main \in Targets /\ \A b \in Builds : Emits[b] \subseteq Targets /\ b \notin Authored
  BY OutputAssumption, NamesAssumption
<1>2. ASSUME target[Main] \in Builds, NEW t \in Emits[target[Main]]
      PROVE  target[t] \in Authored \cup {target[Main]}
  <2>1. F[Main] = target[Main] /\ t \in Targets
    BY <1>1, <1>2 DEF Near
  <2>2. F[t] \in Authored \cup {target[Main]}
    BY <1>2, <2>1 DEF Good
  <2> QED
    BY <2>1, <2>2 DEF Near
<1>3. ASSUME edits = {} PROVE target \in Complete
  <2>1. target = F
    BY <1>3 DEF Near, TypeOK
  <2> QED
    BY <1>3, <2>1 DEF Good
<1> QED
  BY <1>2, <1>3 DEF Good

LEMMA IntactIsNear ==
  ASSUME IInv, \A t \in Targets : Intact(t)
  PROVE  Near(kept)
BY DEF IInv, Recorded, Intact, Edited, Near

LEMMA IntactIsGood ==
  ASSUME IInv, WInv, \A t \in Targets : Intact(t)
  PROVE  Good(target)
BY IntactIsNear, NearIsGood DEF IInv, TypeOK, WInv

(* Over whole outputs a build plans whole ones: its receipt names all there  *)
(* are.                                                                      *)
LEMMA PlansWhole ==
  ASSUME IInv, WInv, Stage
  PROVE  Good(Goal)'
<1>1. target = kept /\ Good(kept) /\ build \in Builds /\ kept' = target /\ edits' = edits
  BY DEF IInv, WInv, Unpromoted, TypeOK, Stage
<1>2. /\ Main \in Emits[build] /\ Main \in Targets
      /\ \A b \in Builds : Main \in Emits[b] /\ Emits[b] \subseteq Targets
  BY <1>1, OutputAssumption
<1>3. DOMAIN plan' = Emits[build] \cup {u \in Receipt : target[u] # Nothing}
  BY DEF Stage
<1>4. /\ \A t \in DOMAIN plan' : plan'[t].next = Outputs(build)[t]
      /\ \A t \in Targets \ DOMAIN plan' : Outputs(build)[t] = Nothing
  BY StagePlans DEF IInv
<1>5. Goal' = [t \in Targets |-> IF t \in DOMAIN plan' THEN plan'[t].next ELSE target[t]]
  BY <1>1 DEF Goal, Ops, Coming
<1>6. \A t \in Emits[build] : Goal'[t] = build
  BY <1>1, <1>2, <1>3, <1>4, <1>5 DEF Outputs
<1>7. ASSUME edits = {} PROVE Goal' = Outputs(build)
  <2>1. target \in Complete
    BY <1>1, <1>7 DEF Good
  <2>2. CASE target \in {Empty} \cup {[Empty EXCEPT ![Main] = f] : f \in Authored}
    <3>1. \A t \in Targets \ DOMAIN plan' : target[t] = Nothing
      BY <1>2, <1>3, <2>2 DEF Empty
    <3> QED
      BY <1>4, <1>5, <3>1 DEF Outputs
  <2>3. ASSUME NEW b \in Builds, target = Outputs(b)
        PROVE  Goal' = Outputs(build)
    <3>1. \A t \in Targets : target[t] = IF t \in Emits[b] THEN b ELSE Nothing
      BY <2>3 DEF Outputs
    <3>2. target[Main] = b /\ \A t \in Emits[b] : target[t] \in Builds
      BY <1>2, <3>1
    <3>3. Receipt = Emits[b]
      BY <3>2 DEF Receipt
    <3>4. \A t \in Targets \ DOMAIN plan' : target[t] = Nothing
      BY <1>3, <3>1, <3>3
    <3> QED
      BY <1>4, <1>5, <3>4 DEF Outputs
  <2> QED
    BY <2>1, <2>2, <2>3 DEF Complete
<1> QED
  BY <1>1, <1>2, <1>6, <1>7 DEF Good, Complete

(* What recovery skips is good.                                              *)
LEMMA SkipsGood ==
  ASSUME IInv, WInv, Skip
  PROVE  Good(target)
<1>1. journal = Nothing \/ evidence \in {Nothing, "torn"}
  BY DEF IInv, TypeOK, Directory, Skip, Readable
<1>2. CASE journal \in {Nothing, "staging", "installed"}
  <2>1. \A t \in Targets : Intact(t)
    BY <1>2, NamesAssumption DEF IInv, Unpromoted, Installed, Phases
  <2> QED
    BY <2>1, IntactIsGood
<1>3. CASE journal = "installing"
  <2>1. TypeOK /\ kept \in [Targets -> Files] /\ Goal \in [Targets -> Files]
    BY DEF IInv, TypeOK, Goal, Ops, Coming, Files
  <2>2. evidence \in {Nothing, "torn"}
    BY <1>1, <1>3, NamesAssumption DEF Phases
  <2> QED
    BY <1>3, <2>1, <2>2, NearIsGood DEF WInv
<1> QED
  BY <1>2, <1>3 DEF IInv, TypeOK, Phases

LEMMA WholeStep ==
  ASSUME ~TornFailures, IInv, WInv, [Next]_vars
  PROVE  WInv'
<1> USE DEF WInv, Good, Near
<1>1. CASE Start \/ Refuse \/ Kill
  BY <1>1 DEF Start, Refuse, Kill, disk, Goal, Ops, Coming
<1>2. CASE Skip
  BY <1>2, SkipsGood DEF Skip, disk, Goal, Ops, Coming
<1>3. CASE Recover
  <2>1. /\ UNCHANGED <<target, journal, evidence, plan, kept, edits>> /\ pc' = "undo"
        /\ evidence \notin {Nothing, "torn"}
    BY <1>3, NamesAssumption DEF Recover, Readable, disk, Phases
  <2>2. Goal' = Goal
    BY <2>1 DEF Goal, Ops, Coming
  <2> QED
    BY <2>1, <2>2
<1>4. CASE MakeStaging
  BY <1>4, NamesAssumption DEF MakeStaging, Phases
<1>5. CASE Stage
  BY <1>5, PlansWhole, NamesAssumption DEF Stage, Phases
<1>6. CASE WriteEvidence
  <2>1. UNCHANGED <<target, journal, pc, kept, plan, edits>> /\ pc \in Phases /\ evidence' # Nothing
    BY <1>6, NamesAssumption DEF WriteEvidence, memory
  <2>2. Goal' = Goal
    BY <2>1 DEF Goal, Ops, Coming
  <2>3. journal = "installing" => pc = "installed"
    BY <2>1, NamesAssumption DEF IInv, Journalled, Phases
  <2>4. journal = "installing" => target = Goal
    BY <2>3, PromotedIsGoal
  <2> QED
    BY <2>1, <2>2, <2>4 DEF Phases
<1>7. CASE WriteJournal
  <2>1. UNCHANGED <<target, evidence, plan, edits>> /\ pc \in Phases /\ evidence = pc /\ journal' = pc
    BY <1>7 DEF WriteJournal
  <2>2. CASE pc = "installed"
    BY <1>7, <2>1, <2>2, PromotedIsGoal, NamesAssumption
    DEF WriteJournal, After, IInv, Journalled, Phases
  <2>3. CASE pc # "installed"
    <3>1. kept' = kept /\ Goal' = Goal
      BY <1>7, <2>3 DEF WriteJournal, Goal, Ops, Coming
    <3> QED
      BY <1>7, <2>1, <2>3, <3>1, NamesAssumption DEF WriteJournal, After, Phases
  <2> QED
    BY <2>2, <2>3
<1>8. CASE MoveAside \/ PutInPlace
  <2>1. /\ UNCHANGED <<journal, evidence, plan, pc, kept, edits>> /\ pc = "promote"
    BY <1>8 DEF MoveAside, PutInPlace
  <2>2. Goal' = Goal
    BY <2>1 DEF Goal, Ops, Coming
  <2>3. journal = "installing"
    BY <2>1 DEF IInv, Journalled
  <2> QED
    BY <2>1, <2>2, <2>3
<1>9. CASE Promoted
  BY <1>9 DEF Promoted, disk, Goal, Ops, Coming
<1>10. CASE Fail
  <2>1. journal = "installing" => pc \in {"promote", "installed"}
    BY <1>10, NamesAssumption DEF Fail, IInv, Journalled, Phases
  <2> QED
    BY <1>10, <2>1 DEF Fail, disk, Goal, Ops, Coming
<1>11. CASE RemoveInstalled \/ PutBack
  <2>1. /\ UNCHANGED <<journal, evidence, plan, pc, kept, edits>> /\ pc = "undo"
        /\ journal = "installing"
    BY <1>11 DEF RemoveInstalled, PutBack, Last, IInv, Memory
  <2>2. Goal' = Goal
    BY <2>1 DEF Goal, Ops, Coming
  <2> QED
    BY <2>1, <2>2
<1>12. CASE Undone
  BY <1>12 DEF Undone, disk, Goal, Ops, Coming
<1>13. CASE Discard
  <2>1. /\ UNCHANGED <<target, plan, kept, pc, edits>> /\ pc = "discard"
        /\ journal' \in {journal, Nothing} /\ evidence' \in {evidence, Nothing}
    BY <1>13 DEF Discard, memory
  <2>2. Goal' = Goal /\ Near(kept)
    BY <2>1, DiscardedAreKept, IntactIsNear DEF Goal, Ops, Coming
  <2> QED
    BY <2>1, <2>2, NamesAssumption DEF Phases
<1>14. CASE Discarded
  <2>1. Good(target)
    BY <1>14, DiscardedAreKept, IntactIsGood DEF Discarded
  <2> QED
    BY <1>14, <2>1, NamesAssumption DEF Discarded, Phases, IInv, TypeOK
<1>15. CASE Edit
  <2>1. /\ UNCHANGED <<journal, evidence, plan, pc, kept>> /\ pc = "down" /\ edits' # {}
    BY <1>15 DEF Edit, memory
  <2>2. Goal' = Goal
    BY <2>1 DEF Goal, Ops, Coming
  <2>3. \A t \in Targets : target'[t] = target[t] \/ target'[t] \in Authored
    BY <1>15 DEF Edit, IInv, TypeOK
  <2> QED
    BY <2>1, <2>2, <2>3
<1>16. CASE UNCHANGED vars
  BY <1>16 DEF vars, disk, memory, Goal, Ops, Coming
<1> QED
  BY <1>1, <1>2, <1>3, <1>4, <1>5, <1>6, <1>7, <1>8, <1>9, <1>10, <1>11, <1>12, <1>13,
     <1>14, <1>15, <1>16 DEF Next

(* If a write that fails leaves the file whole, a build that has got past    *)
(* recovery finds the outputs of one build, and so does anybody when nothing *)
(* is staged; where the author has written, what builds left is of one.      *)
THEOREM OutputsAreWhole == ~TornFailures => (Spec => []Whole)
<1> SUFFICES ASSUME ~TornFailures PROVE Spec => []Whole
  OBVIOUS
<1>1. Init => IInv /\ WInv
  <2>1. ASSUME Init PROVE target \in Complete
    BY <2>1, OutputAssumption DEF Init, Complete
  <2>2. ASSUME Init PROVE Good(target)
    <3>1. Main \in Targets
      BY OutputAssumption
    <3>2. CASE target \in {Empty} \cup {[Empty EXCEPT ![Main] = f] : f \in Authored}
      <4>1. target[Main] \notin Builds
        BY <3>1, <3>2, NamesAssumption DEF Empty
      <4> QED
        BY <2>1, <2>2, <4>1 DEF Good
    <3>3. CASE target = Outputs(0)
      <4>1. \A t \in Emits[0] : target[t] = 0
        BY <3>3, OutputAssumption DEF Outputs
      <4> QED
        BY <2>1, <2>2, <4>1, OutputAssumption DEF Good
    <3> QED
      BY <2>2, <3>2, <3>3 DEF Init
  <2> QED
    BY <2>2, InitInv, NamesAssumption DEF Init, WInv, Phases
<1>2. IInv /\ WInv /\ [Next]_vars => IInv' /\ WInv'
  BY WholeStep, TypeStep, PlannedStep, DirectoryStep, JournalledStep, MemoryStep,
     BlockedStep, RecordedStep, NewestStep, UnpromotedStep, PromotingStep, InstalledStep DEF IInv
<1>3. IInv /\ WInv => Whole
  <2>1. ASSUME IInv, WInv, ~dir PROVE Good(target)
    BY <2>1, IntactIsGood DEF IInv, Directory, Unpromoted
  <2>2. Good(target) => WholeButForEdits /\ (edits = {} => target \in Complete)
    BY DEF Good, WholeButForEdits
  <2>3. target \in Complete =>
          \/ target = Empty
          \/ \E f \in Authored : target = [Empty EXCEPT ![Main] = f]
          \/ \E b \in Builds : target = Outputs(b)
    BY DEF Complete
  <2> QED
    BY <2>1, <2>2, <2>3 DEF WInv, Whole
<1> QED
  BY <1>1, <1>2, <1>3, PTL DEF Spec

=============================================================================
