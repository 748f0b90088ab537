----------------------------- MODULE BuildClaims -----------------------------
(***************************************************************************)
(* The claims by which concurrent builds keep out of each other's outputs  *)
(* (packages/cli/src/build-output-claim.ts).  A registry directory holds a *)
(* file for each claim and, while somebody changes it, a gate: a file that *)
(* only one process can link there.  Claims and gates of processes that    *)
(* died are removed by whoever meets them.                                 *)
(*                                                                         *)
(* Removing a dead gate is a read and then an unlink of the path, so two   *)
(* processes can both read the dead gate, and the slower one removes the   *)
(* gate the faster one has put in its place.  Then two processes are in    *)
(* the gate.  What keeps them apart is that a claim counts only once the   *)
(* process that wrote it has found its own gate still there.               *)
(*                                                                         *)
(* An action is one operation on the registry directory.  The content of a *)
(* gate is its owner and what the owner wants it for, which a process does *)
(* once: a build acquires, extends its claims at most once, and releases.  *)
(* Left out: tampering with the registry from outside (its identity file,  *)
(* files that are neither claims nor gates) and the reuse of process ids.  *)
(***************************************************************************)
EXTENDS Naturals, FiniteSets, Sequences

SE == INSTANCE SequencesExt

CONSTANTS
  Builds,    \* the processes
  Paths,
  Inside,    \* the pairs <<p, q>> of a path p and a path q below it
  Requests,  \* the lists of outputs a build may ask for
  None

Outputs == [path : Paths, kind : {"file", "tree"}]
Ops == {"acquire", "extend", "release"}
Gates == Builds \X Ops

ASSUME NoneAssumption == None \notin Gates
ASSUME PathsAssumption == Inside \subseteq Paths \X Paths /\ Requests \subseteq Seq(Outputs)

VARIABLES
  gate,    \* the gate in the registry, or None
  files,   \* the claims in the registry; one may be written in part
  pc, op,  \* where each process stands, and in which operation
  want,    \* the claims an operation asks for
  made,    \* those of them it has written
  lease,   \* the claims a build holds, as its process knows
  seen,    \* the gate a process has read and goes by
  todo,    \* the claims of its listing a process has still to read
  met,     \* those it read and took for active
  answer,  \* how the latest operation of a process went
  alone    \* history: the builds that began when nobody else was alive

vars == <<gate, files, pc, op, want, made, lease, seen, todo, met, answer, alone>>

Init ==
  /\ gate = None /\ files = {}
  /\ pc = [b \in Builds |-> "idle"] /\ op = [b \in Builds |-> "acquire"]
  /\ want = [b \in Builds |-> {}] /\ made = [b \in Builds |-> {}]
  /\ lease = [b \in Builds |-> {}] /\ seen = [b \in Builds |-> None]
  /\ todo = [b \in Builds |-> {}] /\ met = [b \in Builds |-> {}]
  /\ answer = [b \in Builds |-> "none"] /\ alone = {}

-----------------------------------------------------------------------------
(* Claims.                                                                 *)

Overlaps(o, p) ==
  o.path = p.path \/ <<o.path, p.path>> \in Inside \/ <<p.path, o.path>> \in Inside

Covers(o, p) ==
  IF o.path = p.path THEN o.kind = "tree" \/ p.kind = "file"
                     ELSE o.kind = "tree" /\ <<o.path, p.path>> \in Inside

(* One build's requests are merged; two that overlap, neither covering the *)
(* other, are an error.                                                    *)
Unmergeable == {None}
Merged(M, o) ==
  IF M = Unmergeable \/ \E p \in M : Overlaps(p, o) /\ ~Covers(p, o) /\ ~Covers(o, p)
    THEN Unmergeable
  ELSE IF \E p \in M : Covers(p, o) THEN M
  ELSE {p \in M : ~Covers(o, p)} \cup {o}

Normalized(R) == SE!FoldLeft(Merged, {}, R)
Wanted == {Normalized(R) : R \in Requests} \ {Unmergeable}

ASSUME MergingAssumption == Wanted \subseteq SUBSET Outputs

Claim(b, o) == [by |-> b, out |-> o, whole |-> TRUE]
Part(b, o) == [by |-> b, out |-> o, whole |-> FALSE]

Mine(b) == <<b, op[b]>>
alive == {b \in Builds : pc[b] # "dead"}
At(b, label) == pc[b] = label
Goto(b, label) == pc' = [pc EXCEPT ![b] = label]

(* An operation is over: an acquisition that failed and a release end the  *)
(* build, an extension leaves it running.                                  *)
After(b, how) ==
  IF op[b] = "extend" \/ (op[b] = "acquire" /\ how = "ok") THEN "building" ELSE "done"

Over(b, how) ==
  /\ Goto(b, After(b, how))
  /\ answer' = [answer EXCEPT ![b] = how]
  /\ want' = [want EXCEPT ![b] = {}] /\ made' = [made EXCEPT ![b] = {}]

Memory == <<want, made, lease, todo, met, answer>>

-----------------------------------------------------------------------------
(* What a build asks for.                                                  *)

Begin(b, R) ==
  /\ At(b, "idle")
  /\ IF Normalized(R) = Unmergeable
       THEN Goto(b, "done") /\ answer' = [answer EXCEPT ![b] = "unmergeable"] /\ UNCHANGED want
       ELSE Goto(b, "link") /\ want' = [want EXCEPT ![b] = Normalized(R)] /\ UNCHANGED answer
  /\ alone' = IF alive = {b} THEN alone \cup {b} ELSE alone
  /\ UNCHANGED <<gate, files, op, made, lease, seen, todo, met>>

Uncovered(b, S) == {o \in S : \A p \in lease[b] : ~Covers(p, o)}

Extend(b, R) ==
  /\ At(b, "building") /\ op[b] = "acquire"
  /\ Normalized(R) # Unmergeable /\ Uncovered(b, Normalized(R)) # {}
  /\ op' = [op EXCEPT ![b] = "extend"]
  /\ want' = [want EXCEPT ![b] = Uncovered(b, Normalized(R))]
  /\ answer' = [answer EXCEPT ![b] = "none"]
  /\ Goto(b, "link")
  /\ UNCHANGED <<gate, files, made, lease, seen, todo, met, alone>>

Finish(b) ==
  /\ At(b, "building")
  /\ op' = [op EXCEPT ![b] = "release"]
  /\ answer' = [answer EXCEPT ![b] = "none"]
  /\ Goto(b, "link")
  /\ UNCHANGED <<gate, files, want, made, lease, seen, todo, met, alone>>

-----------------------------------------------------------------------------
(* The gate.                                                               *)

(* The link fails when there is a gate. *)
LinkGate(b) ==
  /\ At(b, "link")
  /\ IF gate = None THEN gate' = Mine(b) /\ Goto(b, "confirm")
                    ELSE UNCHANGED gate /\ Goto(b, "look")
  /\ UNCHANGED <<files, op, seen, alone>> /\ UNCHANGED Memory

(* Our gate is read again, and the operation fails if it is not there. *)
ConfirmGate(b) ==
  /\ At(b, "confirm")
  /\ IF gate = Mine(b)
       THEN /\ Goto(b, IF op[b] = "release" THEN "drop" ELSE "open")
            /\ UNCHANGED <<want, made, answer>>
       ELSE Over(b, "stolen")
  /\ UNCHANGED <<gate, files, op, lease, seen, todo, met, alone>>

(* A gate is read between two looks at the path; one that is not the same  *)
(* at both counts as unread.                                               *)
LookAtGate(b) ==
  /\ At(b, "look")
  /\ seen' = [seen EXCEPT ![b] = gate]
  /\ Goto(b, IF gate = None THEN "unread" ELSE "read")
  /\ UNCHANGED <<gate, files, op, alone>> /\ UNCHANGED Memory

OwnerAliveAlways(b) == TRUE
OwnerAlive(b) == seen[b][1] \in alive

ReadGate(b) ==
  /\ At(b, "read")
  /\ Goto(b, IF gate # seen[b] THEN "unread"
             ELSE IF OwnerAlive(b) THEN "link" ELSE "stale")
  /\ seen' = IF pc'[b] = "stale" THEN seen ELSE [seen EXCEPT ![b] = None]
  /\ UNCHANGED <<gate, files, op, alone>> /\ UNCHANGED Memory

(* Half a minute of attempts. *)
GiveUp(b) ==
  /\ At(b, "read") /\ gate = seen[b] /\ OwnerAlive(b)
  /\ Over(b, "busy")
  /\ seen' = [seen EXCEPT ![b] = None]
  /\ UNCHANGED <<gate, files, op, lease, todo, met, alone>>

(* What could not be read and is not absent is taken for damaged. *)
JudgeGate(b) ==
  /\ At(b, "unread")
  /\ IF gate = None THEN Goto(b, "link") /\ UNCHANGED <<want, made, answer>>
                    ELSE Over(b, "invalid")
  /\ UNCHANGED <<gate, files, op, lease, seen, todo, met, alone>>

(* The gate of a dead process is read again, and then whatever is at its   *)
(* path is removed.                                                        *)
RecheckGate(b) ==
  /\ At(b, "stale")
  /\ Goto(b, IF gate = seen[b] THEN "unlink" ELSE "link")
  /\ seen' = [seen EXCEPT ![b] = None]
  /\ UNCHANGED <<gate, files, op, alone>> /\ UNCHANGED Memory

UnlinkGate(b) ==
  /\ At(b, "unlink")
  /\ gate' = None
  /\ Goto(b, "link")
  /\ UNCHANGED <<files, op, seen, alone>> /\ UNCHANGED Memory

-----------------------------------------------------------------------------
(* Inside the gate, to add claims.                                         *)

ListClaims(b) ==
  /\ At(b, "open")
  /\ todo' = [todo EXCEPT ![b] = files] /\ met' = [met EXCEPT ![b] = {}]
  /\ Goto(b, "scan")
  /\ UNCHANGED <<gate, files, op, want, made, lease, seen, answer, alone>>

(* A claim that is gone or only written in part is passed over, one of a   *)
(* dead process is removed.                                                *)
AbandonedAll(f) == TRUE
Abandoned(f) == f.by \notin alive

ReadClaim(b, f) ==
  /\ At(b, "scan") /\ f \in todo[b]
  /\ LET readable == f \in files /\ f.whole IN
     /\ files' = IF readable /\ Abandoned(f) THEN files \ {f} ELSE files
     /\ met' = IF readable /\ ~Abandoned(f) THEN [met EXCEPT ![b] = @ \cup {f}] ELSE met
  /\ todo' = [todo EXCEPT ![b] = @ \ {f}]
  /\ UNCHANGED <<gate, pc, op, want, made, lease, seen, answer, alone>>

Owned(b, f) == f.by = b /\ f.out \in lease[b]

Conflicts(b) ==
  \E o \in want[b], f \in met[b] : ~Owned(b, f) /\ Overlaps(o, f.out)

(* A refused operation still leaves the gate as every other does. *)
RefusalGoesTo(b) == "free"

Decide(b) ==
  /\ At(b, "scan") /\ todo[b] = {}
  /\ IF Conflicts(b)
       THEN Goto(b, RefusalGoesTo(b)) /\ answer' = [answer EXCEPT ![b] = "refused"]
       ELSE Goto(b, "write") /\ UNCHANGED answer
  /\ met' = [met EXCEPT ![b] = {}]
  /\ UNCHANGED <<gate, files, op, want, made, lease, seen, todo, alone>>

(* A claim is created and then filled. *)
CreateClaim(b, o) ==
  /\ At(b, "write") /\ o \in want[b] \ made[b]
  /\ \A p \in want[b] \ made[b] : Part(b, p) \notin files
  /\ files' = files \cup {Part(b, o)}
  /\ UNCHANGED <<gate, pc, op, seen, alone>> /\ UNCHANGED Memory

FillClaim(b, o) ==
  /\ At(b, "write") /\ o \in want[b] \ made[b] /\ Part(b, o) \in files
  /\ files' = (files \ {Part(b, o)}) \cup {Claim(b, o)}
  /\ made' = [made EXCEPT ![b] = @ \cup {o}]
  /\ UNCHANGED <<gate, pc, op, want, lease, seen, todo, met, answer, alone>>

(* A write fails, or what follows it: the reading back of the claim, or the *)
(* look at the registry.  What there is of the file stays.                  *)
WriteFails(b) ==
  /\ At(b, "write") /\ made[b] # want[b]
  /\ \/ UNCHANGED files
     \/ \E o \in want[b] \ made[b] :
          /\ Part(b, o) \in files
          /\ files' = (files \ {Part(b, o)}) \cup {Claim(b, o)}
  /\ answer' = [answer EXCEPT ![b] = "failed"]
  /\ Goto(b, "undo")
  /\ UNCHANGED <<gate, op, want, made, lease, seen, todo, met, alone>>

UndoClaim(b, o) ==
  /\ At(b, "undo") /\ o \in made[b]
  /\ files' = files \ {Claim(b, o)}
  /\ made' = [made EXCEPT ![b] = @ \ {o}]
  /\ UNCHANGED <<gate, pc, op, want, lease, seen, todo, met, answer, alone>>

(* Inside the gate, to take claims back. *)
DropClaim(b, o) ==
  /\ At(b, "drop") /\ o \in lease[b]
  /\ files' = files \ {Claim(b, o)}
  /\ lease' = [lease EXCEPT ![b] = @ \ {o}]
  /\ UNCHANGED <<gate, pc, op, want, made, seen, todo, met, answer, alone>>

SomeMade(b) == made[b] # {}
AllMade(b) == made[b] = want[b]

WorkDone(b) ==
  /\ \/ At(b, "write") /\ AllMade(b)
     \/ At(b, "undo") /\ made[b] = {}
     \/ At(b, "drop") /\ lease[b] = {}
  /\ Goto(b, "free")
  /\ UNCHANGED <<gate, files, op, seen, alone>> /\ UNCHANGED Memory

(* The gate is left: it is read again, and removed if it is ours.  What    *)
(* was written is ours only when that has gone well.                       *)
StillOursUnread(b) == TRUE
StillOurs(b) == gate = Mine(b)

CheckGate(b) ==
  /\ At(b, "free")
  /\ IF StillOurs(b) THEN Goto(b, "leave") /\ UNCHANGED <<want, made, answer>>
                     ELSE Over(b, "stolen")
  /\ UNCHANGED <<gate, files, op, lease, seen, todo, met, alone>>

(* It is an error if the gate has gone since. *)
Outcome(b) == IF gate = None THEN "stolen" ELSE IF answer[b] = "none" THEN "ok" ELSE answer[b]

LeaveGate(b) ==
  /\ At(b, "leave")
  /\ gate' = None
  /\ lease' = IF Outcome(b) = "ok" THEN [lease EXCEPT ![b] = @ \cup made[b]] ELSE lease
  /\ Over(b, Outcome(b))
  /\ UNCHANGED <<files, op, seen, todo, met, alone>>

-----------------------------------------------------------------------------
(* A process exits, or is killed where it stands.  Its memory is gone, and *)
(* what it wrote to the registry stays.                                    *)
Die(b) ==
  /\ b \in alive
  /\ Goto(b, "dead")
  /\ want' = [want EXCEPT ![b] = {}] /\ made' = [made EXCEPT ![b] = {}]
  /\ lease' = [lease EXCEPT ![b] = {}] /\ seen' = [seen EXCEPT ![b] = None]
  /\ todo' = [todo EXCEPT ![b] = {}] /\ met' = [met EXCEPT ![b] = {}]
  /\ answer' = [answer EXCEPT ![b] = "none"] /\ alone' = alone \ {b}
  /\ UNCHANGED <<gate, files, op>>

Ask(b) == (\E R \in Requests : Begin(b, R) \/ Extend(b, R)) \/ Finish(b)

Work(b) ==
  \/ LinkGate(b) \/ ConfirmGate(b) \/ LookAtGate(b) \/ ReadGate(b) \/ JudgeGate(b)
  \/ RecheckGate(b) \/ UnlinkGate(b)
  \/ ListClaims(b) \/ (\E f \in todo[b] : ReadClaim(b, f)) \/ Decide(b)
  \/ (\E o \in Outputs : CreateClaim(b, o) \/ FillClaim(b, o) \/ UndoClaim(b, o)
                         \/ DropClaim(b, o))
  \/ WorkDone(b) \/ CheckGate(b) \/ LeaveGate(b)

Next == \E b \in Builds : Ask(b) \/ Work(b) \/ GiveUp(b) \/ WriteFails(b) \/ Die(b)

Spec == Init /\ [][Next]_vars

-----------------------------------------------------------------------------
TypeOK ==
  /\ gate \in Gates \cup {None}
  /\ files \subseteq [by : Builds, out : Outputs, whole : BOOLEAN]
  /\ pc \in [Builds -> {"idle", "link", "confirm", "look", "read", "unread", "stale", "unlink",
                        "open", "scan", "write", "undo", "drop", "free", "leave",
                        "building", "done", "dead"}]
  /\ op \in [Builds -> Ops]
  /\ want \in [Builds -> SUBSET Outputs] /\ made \in [Builds -> SUBSET Outputs]
  /\ lease \in [Builds -> SUBSET Outputs] /\ seen \in [Builds -> Gates \cup {None}]
  /\ todo \in [Builds -> SUBSET [by : Builds, out : Outputs, whole : BOOLEAN]]
  /\ met \in [Builds -> SUBSET [by : Builds, out : Outputs, whole : BOOLEAN]]
  /\ answer \in [Builds -> {"none", "ok", "refused", "failed", "busy", "invalid", "stolen",
                            "unmergeable"}]
  /\ alone \subseteq Builds

(* No two builds ever hold outputs that overlap: not when they both stood  *)
(* in the gate, not while claims of dead processes are cleared away.       *)
Exclusive ==
  \A b, c \in Builds : b # c =>
    \A o \in lease[b], p \in lease[c] : ~Overlaps(o, p)

(* A claim a running build holds stands in the registry for all to read.   *)
LeasesStand == \A b \in Builds : \A o \in lease[b] : Claim(b, o) \in files

(* What killed processes have left never stands in the way of a build that *)
(* is alone: it is not refused, kept waiting, nor told of a damaged gate.  *)
TheDeadYield ==
  \A b \in alone : answer[b] \notin {"refused", "busy", "invalid", "stolen"}

(* A gate never outlives what a running process linked it for: everyone    *)
(* who waits at it waits for a process that is at work inside.             *)
AtWork == {"confirm", "open", "scan", "write", "undo", "drop", "free", "leave"}
GateIsKept ==
  gate # None /\ gate[1] \in alive => op[gate[1]] = gate[2] /\ pc[gate[1]] \in AtWork

(* Seen from outside, a registry of outputs that are taken all at once or  *)
(* not at all, only while nobody else has any that overlap.                *)
Ownership == INSTANCE BuildOwnership WITH owned <- lease
Arbitrates == Ownership!Spec
=============================================================================
