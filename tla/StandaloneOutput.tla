-------------------------- MODULE StandaloneOutput --------------------------
(* The file transaction of a standalone build (`velar build --out`): the     *)
(* outputs are prepared in a staging directory beside them, moved into place *)
(* one rename at a time while the files they replace wait in the same        *)
(* directory, and put back by the build that fails or by the first build     *)
(* after the one that was killed.  A step here is one change of the disk; a  *)
(* kill can fall between any two.                                            *)
(* The claim registry lets one build at a time at an output (external); what *)
(* is in a file is who wrote it, which is what the journalled identity       *)
(* (inode, size and digest) tells apart.                                     *)
EXTENDS Naturals, FiniteSets

CONSTANTS
  Targets,      \* the files builds of this output may own
  Main,         \* the output itself, which carries the ownership receipt
  Emits,        \* what each build emits; build 0 ran before we look
  Order,        \* the code-unit order of the targets
  Nothing,      \* no file
  Authored,     \* what an author may write over an output: it bears no receipt
                \* and no mark of a build
  TornFailures  \* whether a write that reports failure may leave a torn file

Builds == DOMAIN Emits
Files == Builds \cup Authored \cup {Nothing}
Phases == {"staging", "installing", "installed"}
Empty == [t \in Targets |-> Nothing]

ASSUME OutputAssumption ==
  /\ IsFiniteSet(Targets) /\ Main \in Targets
  /\ Builds \subseteq Nat /\ 0 \in Builds
  /\ \A b \in Builds : Main \in Emits[b] /\ Emits[b] \subseteq Targets
  /\ Order \in [Targets -> Nat]
  /\ \A t, u \in Targets : Order[t] = Order[u] => t = u
  /\ TornFailures \in BOOLEAN
ASSUME NamesAssumption ==
  /\ Authored \cap Builds = {}
  /\ Nothing \notin Builds \cup Authored
  /\ Nothing \notin Phases \cup {"torn"}

VARIABLES
  target, staged, backup,  \* the files at their places, prepared, set aside
  dir,                     \* there is a staging directory of this output
  journal, evidence,       \* the phase each names; the evidence may be torn
  plan,                    \* the journalled operations: what was, what comes
  pc, build,               \* the build at work, how far it is
  applied, installed,      \* its operations done so far, and put in place
  onward,                  \* where it goes once the staging directory is gone
  refused,                 \* the last build refused what it found
  kept,                    \* history: the outputs that must not get lost
  edits                    \* history: the outputs the author has written, and
                           \* whether over an install that was interrupted
disk == <<target, staged, backup, dir, journal, evidence, plan>>
memory == <<pc, build, applied, installed, onward>>
history == <<refused, kept, edits>>
vars == <<disk, memory, history>>

Outputs(b) == [t \in Targets |-> IF t \in Emits[b] THEN b ELSE Nothing]

Init ==
  /\ target \in {Empty, Outputs(0)} \cup {[Empty EXCEPT ![Main] = f] : f \in Authored}
  /\ staged = Empty /\ backup = Empty /\ plan = << >>
  /\ dir = FALSE /\ journal = Nothing /\ evidence = Nothing
  /\ pc = "down" /\ build = 0
  /\ applied = {} /\ installed = {} /\ onward = "down"
  /\ refused = FALSE /\ kept = target /\ edits = {}

(* What the process knows of its operations goes with it.                    *)
Forget == applied' = {} /\ installed' = {}

Last(S) == {t \in S : \A u \in S : Order[u] <= Order[t]}
First(S) == {t \in S : \A u \in S : Order[t] <= Order[u]}

-----------------------------------------------------------------------------
(* What a later build makes of the directory it finds.                       *)

Readable == dir /\ journal # Nothing /\ evidence \in Phases
InterruptedOrDone == journal # "staging"
Interrupted == journal = "installing"
Operations == IF journal = "staging" THEN {} ELSE DOMAIN plan

(* Some file of every operation must be there to show whose it is.           *)
Authorized ==
  \A t \in Operations : {target[t], staged[t], backup[t]} # {Nothing}

(* recoveryAction refuses when the target is not what the other two imply.   *)
ChangedUnlessAside(t) == backup[t] = Nothing /\ target[t] # plan[t].prev
Changed(t) ==
  IF plan[t].prev # Nothing
  THEN IF backup[t] = Nothing THEN target[t] # plan[t].prev
       ELSE target[t] # (IF staged[t] = Nothing THEN plan[t].next ELSE Nothing)
  ELSE IF staged[t] # Nothing THEN target[t] # Nothing
       ELSE target[t] \notin {Nothing, plan[t].next}

ToRemoveReplacement(t) ==
  plan[t].prev # Nothing /\ staged[t] = Nothing /\ target[t] = plan[t].next
ToRemove(t) ==
  /\ staged[t] = Nothing /\ plan[t].next # Nothing
  /\ target[t] = plan[t].next
ToRestoreReplaced(t) == backup[t] # Nothing /\ ToRemove(t)
ToRestore(t) == backup[t] # Nothing

(* assertInstalledStandaloneOperations                                       *)
Committed(t) == target[t] = plan[t].next /\ staged[t] = Nothing

Acceptable ==
  /\ journal = evidence
  /\ Authorized
  /\ CASE journal = "installing" -> \A t \in Operations : ~Changed(t)
       [] journal = "installed" -> \A t \in Operations : Committed(t)
       [] OTHER -> TRUE

-----------------------------------------------------------------------------
(* A build begins: recovery first.                                           *)

Start ==
  /\ pc = "down" /\ build + 1 \in Builds
  /\ pc' = "recover" /\ build' = build + 1 /\ refused' = FALSE
  /\ UNCHANGED <<disk, applied, installed, onward, kept, edits>>

(* A directory nothing vouches for is left alone, for ever.                  *)
Skip ==
  /\ pc = "recover" /\ ~Readable
  /\ pc' = "begin"
  /\ UNCHANGED <<disk, build, applied, installed, onward, history>>

Refuse ==
  /\ pc = "recover" /\ Readable /\ ~Acceptable
  /\ pc' = "down" /\ refused' = TRUE
  /\ UNCHANGED <<disk, build, applied, installed, onward, kept, edits>>

Recover ==
  /\ pc = "recover" /\ Readable /\ Acceptable
  /\ pc' = "undo" /\ onward' = "begin"
  /\ installed' = {t \in Operations : Interrupted /\ ToRemove(t)}
  /\ applied' =
       {t \in Operations : Interrupted /\ (ToRemove(t) \/ ToRestore(t))}
  /\ UNCHANGED <<disk, build, history>>

-----------------------------------------------------------------------------
(* The build itself, up to the plan.                                         *)

MakeStaging ==
  /\ pc = "begin"
  /\ dir' = TRUE /\ journal' = Nothing /\ evidence' = Nothing
  /\ staged' = Empty /\ backup' = Empty /\ plan' = << >>
  /\ pc' = "staging" /\ kept' = target
  /\ UNCHANGED <<target, build, applied, installed, onward, refused, edits>>

(* The receipt at the end of the main output, when every file it names is    *)
(* still a generated one.                                                    *)
Receipt ==
  LET b == target[Main] IN
  IF b \in Builds /\ \A t \in Emits[b] : target[t] \in Builds
  THEN Emits[b] ELSE {}

Stage ==
  /\ pc = "staging" /\ journal = "staging"
  /\ \A t \in Emits[build] \ {Main} : target[t] # Nothing => t \in Receipt
  /\ staged' = Outputs(build)
  /\ plan' = [t \in Emits[build] \cup {u \in Receipt : target[u] # Nothing} |->
                [prev |-> target[t], next |-> Outputs(build)[t]]]
  /\ pc' = "installing"
  /\ UNCHANGED <<target, backup, dir, journal, evidence, build, applied,
                 installed, onward, history>>

(* Evidence is written in place, first torn and then whole; the journal      *)
(* follows by a rename.  The evidence moves first.                           *)
WriteEvidence ==
  /\ pc \in Phases /\ evidence # pc
  /\ evidence' = IF evidence = "torn" THEN pc ELSE "torn"
  /\ UNCHANGED <<target, staged, backup, dir, journal, plan, memory, history>>

After(phase) ==
  CASE phase = "staging" -> "staging"
    [] phase = "installing" -> "promote"
    [] phase = "installed" -> "discard"

WriteJournal ==
  /\ pc \in Phases /\ evidence = pc /\ journal # pc
  /\ journal' = pc /\ pc' = After(pc)
  /\ onward' = "down"
  /\ kept' = IF pc = "installed" THEN target ELSE kept
  /\ UNCHANGED <<target, staged, backup, dir, evidence, plan, build, applied,
                 installed, refused, edits>>

-----------------------------------------------------------------------------
(* Promotion, one operation after the other in their order.                  *)

Finished(t) == t \in installed \/ plan[t].next = Nothing

MoveAside ==
  /\ pc = "promote"
  /\ \A t \in applied : Finished(t)
  /\ \E t \in First(DOMAIN plan \ applied) :
       /\ backup' = [backup EXCEPT ![t] = target[t]]
       /\ target' = [target EXCEPT ![t] = Nothing]
       /\ applied' = applied \cup {t}
  /\ UNCHANGED <<staged, dir, journal, evidence, plan, pc, build, installed,
                 onward, history>>

PutInPlace ==
  /\ pc = "promote"
  /\ \E t \in applied :
       /\ ~Finished(t)
       /\ target' = [target EXCEPT ![t] = staged[t]]
       /\ staged' = [staged EXCEPT ![t] = Nothing]
       /\ installed' = installed \cup {t}
  /\ UNCHANGED <<backup, dir, journal, evidence, plan, pc, build, applied,
                 onward, history>>

Promoted ==
  /\ pc = "promote"
  /\ DOMAIN plan \subseteq applied /\ \A t \in applied : Finished(t)
  /\ pc' = "installed"
  /\ UNCHANGED <<disk, build, applied, installed, onward, history>>

(* Any step up to the commit may throw: what was applied is undone.          *)
Fail ==
  /\ pc \in {"staging", "installing", "promote", "installed"}
  /\ evidence = "torn" => TornFailures
  /\ pc' = "undo" /\ onward' = "down"
  /\ UNCHANGED <<disk, build, applied, installed, history>>

-----------------------------------------------------------------------------
(* Undoing, in a failed build and in recovery alike: in reverse, the new     *)
(* file removed and then the old one moved back.                             *)

RemoveInstalled ==
  /\ pc = "undo"
  /\ \E t \in Last(applied) :
       /\ t \in installed
       /\ target' = [target EXCEPT ![t] = Nothing]
       /\ installed' = installed \ {t}
  /\ UNCHANGED <<staged, backup, dir, journal, evidence, plan, pc, build,
                 applied, onward, history>>

PutBack ==
  /\ pc = "undo"
  /\ \E t \in Last(applied) :
       /\ t \notin installed
       /\ target' = IF backup[t] = Nothing THEN target
                    ELSE [target EXCEPT ![t] = backup[t]]
       /\ backup' = [backup EXCEPT ![t] = Nothing]
       /\ applied' = applied \ {t}
  /\ UNCHANGED <<staged, dir, journal, evidence, plan, pc, build, installed,
                 onward, history>>

Undone ==
  /\ pc = "undo" /\ applied = {}
  /\ pc' = "discard"
  /\ UNCHANGED <<disk, build, applied, installed, onward, history>>

(* The recursive removal of the staging directory keeps no order.            *)
Discard ==
  /\ pc = "discard"
  /\ \/ \E t \in Targets : /\ staged[t] # Nothing
                           /\ staged' = [staged EXCEPT ![t] = Nothing]
                           /\ UNCHANGED <<backup, journal, evidence>>
     \/ \E t \in Targets : /\ backup[t] # Nothing
                           /\ backup' = [backup EXCEPT ![t] = Nothing]
                           /\ UNCHANGED <<staged, journal, evidence>>
     \/ /\ journal # Nothing /\ journal' = Nothing
        /\ UNCHANGED <<staged, backup, evidence>>
     \/ /\ evidence # Nothing /\ evidence' = Nothing
        /\ UNCHANGED <<staged, backup, journal>>
  /\ UNCHANGED <<target, dir, plan, memory, history>>

Discarded ==
  /\ pc = "discard"
  /\ staged = Empty /\ backup = Empty
  /\ journal = Nothing /\ evidence = Nothing
  /\ dir' = FALSE /\ plan' = << >>
  /\ pc' = onward /\ Forget
  /\ UNCHANGED <<target, staged, backup, journal, evidence, build, onward,
                 history>>

-----------------------------------------------------------------------------
(* The world: the process is killed, or a step of its undoing or discarding  *)
(* fails and it leaves everything as it is; the author writes an output, new *)
(* or over what is there, whatever the last build has left behind.           *)

Kill ==
  /\ pc # "down"
  /\ pc' = "down" /\ Forget /\ onward' = "down"
  /\ UNCHANGED <<disk, build, history>>

InstallCutShort == journal = "installing" /\ evidence # Nothing
Edit ==
  /\ pc = "down"
  /\ \E t \in Targets : \E f \in Authored \ {target[t], kept[t]} :
       /\ target' = [target EXCEPT ![t] = f]
       /\ edits' = edits \cup {<<t, InstallCutShort>>}
  /\ UNCHANGED <<staged, backup, dir, journal, evidence, plan, memory,
                 refused, kept>>

Next ==
  \/ Start \/ Skip \/ Refuse \/ Recover
  \/ MakeStaging \/ Stage \/ WriteEvidence \/ WriteJournal
  \/ MoveAside \/ PutInPlace \/ Promoted \/ Fail
  \/ RemoveInstalled \/ PutBack \/ Undone \/ Discard \/ Discarded
  \/ Kill \/ Edit

Spec == Init /\ [][Next]_vars

-----------------------------------------------------------------------------
(* Properties                                                                *)

(* Type invariant.  A plan names a file before or after every operation, and *)
(* only an operation begun can have been put in place.                       *)
TypeOK ==
  /\ target \in [Targets -> Files]
  /\ staged \in [Targets -> Builds \cup {Nothing}]
  /\ backup \in [Targets -> Files]
  /\ dir \in BOOLEAN /\ refused \in BOOLEAN
  /\ journal \in Phases \cup {Nothing}
  /\ evidence \in Phases \cup {Nothing, "torn"}
  /\ DOMAIN plan \subseteq Targets
  /\ \A t \in DOMAIN plan :
       plan[t] \in [prev : Files, next : Builds \cup {Nothing}]
         \ {[prev |-> Nothing, next |-> Nothing]}
  /\ pc \in Phases \cup {"down", "recover", "begin", "promote", "undo", "discard"}
  /\ build \in Builds /\ onward \in {"down", "begin"}
  /\ installed \subseteq applied /\ applied \subseteq DOMAIN plan
  /\ kept \in [Targets -> Files] /\ edits \subseteq Targets \X BOOLEAN

(* The author has written t since the outputs that must not get lost were    *)
(* taken: when the build at work began, or when the last one committed.      *)
Edited(t) == target[t] \in Authored \ {kept[t]}

(* Whatever step a build, a failed build's undoing or a recovery is killed   *)
(* at, every output of the last complete build, and every file of the        *)
(* author's that the build at work has found, is still where it was or set   *)
(* aside in the staging directory, unless the author wrote over it (the      *)
(* order of rename, rm and removal of staging in applyOperations,            *)
(* restoreInterruptedStandaloneOperations and recoverStandaloneTransactions).*)
NothingLost ==
  \A t \in Targets :
    kept[t] # Nothing => kept[t] \in {target[t], backup[t]} \/ Edited(t)

(* Once a build has got past recovery, and whenever nothing is staged, the   *)
(* outputs are those of one build, never a mixture: "without exposing        *)
(* partially rendered output".  When the author has written over some, the   *)
(* build whose main output is there still has all it emitted, or the author  *)
(* has written it.                                                           *)
WholeButForEdits ==
  LET b == target[Main] IN
  b \in Builds => \A t \in Emits[b] : target[t] \in Authored \cup {b}
Whole ==
  pc = "begin" \/ (pc = "down" /\ ~dir) =>
    /\ WholeButForEdits
    /\ edits = {} =>
         \/ target = Empty
         \/ \E f \in Authored : target = [Empty EXCEPT ![Main] = f]
         \/ \E b \in Builds : target = Outputs(b)

(* Over an output that the author has written since its install was          *)
(* interrupted, or since it was committed and not yet cleared away, and whose*)
(* journal and evidence can be read, no build gets past recovery: the file   *)
(* and all of the transaction stay as they are.                              *)
KeepsInDoubt ==
  \A t \in Operations : Readable /\ Edited(t) =>
    Edited(t)' /\ UNCHANGED <<staged, backup, dir, journal, evidence, plan>>

(* Whatever state a build finds, what the author wrote goes from its place   *)
(* only if it is the main output, was there before the build began, and is   *)
(* set aside by its promotion.                                               *)
TakesMainAside ==
  \A t \in Targets : target[t] \in Authored =>
    \/ target'[t] \in Authored
    \/ /\ t = Main /\ pc = "promote"
       /\ target[t] = kept[t] /\ backup'[t] = target[t]

(* What an author writes between two builds is safe from recovery: in a      *)
(* transaction that can be read it stops every later build (recoveryAction,  *)
(* assertInstalledStandaloneOperations: "backup was preserved"), and in any  *)
(* other state, the staging phase and torn evidence among them, only the     *)
(* promotion of a build may take it, as the main output it is to replace; no *)
(* undoing, no recovery and no cleaning up takes it, and no build a file     *)
(* beside the main output that a receipt does not own                        *)
(* (standaloneOutputOperations).                                             *)
EditsKept == [][KeepsInDoubt /\ TakesMainAside]_vars

(* What is committed stays: from the moment journal and evidence say         *)
(* installed, no failure, kill or recovery changes an output, until the next *)
(* build has a staging directory of its own.                                 *)
CommitIsFinal ==
  [][journal = "installed" => \A t \in Targets :
       target'[t] # target[t] => target'[t] \in Authored]_vars

(* What the test "a killed standalone install is recovered before the next   *)
(* build" says: but for the two windows between evidence and journal, and    *)
(* for an author's edit, the next build recovers what a killed one left.     *)
KilledIsRecovered ==
  refused => journal # evidence \/ edits # {}

(* What the test "standalone recovery preserves a main output written after  *)
(* the interrupted install" says: it is still the author's, whatever builds  *)
(* come after.  The code breaks it when the kill has torn the evidence, so   *)
(* no run asks for it (README, section 3).                                   *)
LaterOutputPreserved == <<Main, TRUE>> \in edits => target[Main] \in Authored
=============================================================================
