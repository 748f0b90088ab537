-------------------------- MODULE BuildClaimsProofs --------------------------
(***************************************************************************)
(* Proofs about the claims on build outputs (module BuildClaims), for any  *)
(* number of builds, any paths and any requests: builds that hold claims   *)
(* never overlap although two can stand in the gate at once, and what is   *)
(* held is taken whole.                                                    *)
(***************************************************************************)
EXTENDS BuildClaims, TLAPS

(* A claim counts once its process has found its gate still there. *)
Passed(c) == pc[c] = "leave" /\ answer[c] = "none"
Sure(c) == lease[c] \cup (IF Passed(c) THEN made[c] ELSE {})

BeforeTheGate == {"link", "confirm", "look", "read", "unread", "stale", "unlink"}
InTheGate == {"open", "scan", "write", "undo", "drop", "free", "leave"}

(* What each process's own variables have to do with each other. *)
InOrder(b) ==
  /\ made[b] \subseteq want[b] /\ want[b] \cap lease[b] = {}
  /\ made[b] # {} => pc[b] \in {"write", "undo", "free", "leave"}
  /\ op[b] = "release" \/ pc[b] \in {"idle", "building"} => want[b] = {}
  /\ pc[b] = "idle" => lease[b] = {} /\ op[b] = "acquire" /\ answer[b] = "none"
  /\ pc[b] = "dead" => lease[b] = {}
  /\ pc[b] \in BeforeTheGate \cup {"open", "scan", "write", "drop"} => answer[b] = "none"
  /\ pc[b] \in {"open", "scan", "write", "undo"} => op[b] # "release"
  /\ pc[b] = "drop" => op[b] = "release"
  /\ pc[b] \in {"free", "leave"} =>
       /\ answer[b] # "ok"
       /\ IF answer[b] = "none" THEN made[b] = want[b] ELSE made[b] = {}
  /\ pc[b] = "undo" => answer[b] = "failed"
  /\ pc[b] = "building" /\ op[b] = "acquire" => answer[b] = "ok"
Bookkeeping == \A b \in Builds : InOrder(b)

MadeStand == \A b \in Builds : \A o \in made[b] : Claim(b, o) \in files

(* The gate is still that of the process that reads its listing: every     *)
(* claim that counts is in what it has read or has still to read ...       *)
ListingComplete ==
  \A b, c \in Builds : b # c /\ gate = Mine(b) /\ pc[b] = "scan" =>
    \A p \in Sure(c) : Claim(c, p) \in todo[b] \cup met[b]

(* ... and once it has decided, what it asks for overlaps none of them.    *)
Cleared ==
  \A b, c \in Builds :
    b # c /\ gate = Mine(b) /\ pc[b] \in {"write", "free"} /\ answer[b] = "none" =>
      \A o \in want[b], p \in Sure(c) : ~Overlaps(o, p)

SureExclusive ==
  \A b, c \in Builds : b # c => \A o \in Sure(b), p \in Sure(c) : ~Overlaps(o, p)

IInv == /\ TypeOK /\ Bookkeeping /\ MadeStand /\ LeasesStand
        /\ ListingComplete /\ Cleared /\ SureExclusive

-----------------------------------------------------------------------------
(* A step of a process is a change of its own variables, of the gate and   *)
(* of the files.                                                           *)

Same(c) ==
  /\ pc'[c] = pc[c] /\ op'[c] = op[c] /\ want'[c] = want[c] /\ made'[c] = made[c]
  /\ lease'[c] = lease[c] /\ seen'[c] = seen[c] /\ todo'[c] = todo[c] /\ met'[c] = met[c]
  /\ answer'[c] = answer[c]

Acts(b) == Ask(b) \/ Work(b) \/ GiveUp(b) \/ WriteFails(b) \/ Die(b)

LEMMA OthersAreUntouched ==
  ASSUME TypeOK, NEW b \in Builds, Acts(b)
  PROVE  \A c \in Builds \ {b} : Same(c)
<1> USE DEF TypeOK, Same, Goto
<1>1. CASE Ask(b)
  BY <1>1 DEF Ask, Begin, Extend, Finish
<1>2. CASE LinkGate(b) \/ LookAtGate(b) \/ ReadGate(b) \/ RecheckGate(b) \/ UnlinkGate(b)
  BY <1>2 DEF LinkGate, LookAtGate, ReadGate, RecheckGate, UnlinkGate, Memory
<1>3. CASE ConfirmGate(b) \/ JudgeGate(b) \/ GiveUp(b) \/ CheckGate(b)
  BY <1>3 DEF ConfirmGate, JudgeGate, GiveUp, CheckGate, Over
<1>4. CASE ListClaims(b) \/ (\E f \in todo[b] : ReadClaim(b, f)) \/ Decide(b)
  BY <1>4 DEF ListClaims, ReadClaim, Decide
<1>5. CASE WriteFails(b) \/ WorkDone(b) \/ Die(b)
  BY <1>5 DEF WriteFails, WorkDone, Die, Memory
<1>6. CASE \E o \in Outputs : CreateClaim(b, o) \/ FillClaim(b, o) \/ UndoClaim(b, o)
                              \/ DropClaim(b, o)
  BY <1>6 DEF CreateClaim, FillClaim, UndoClaim, DropClaim, Memory
<1>7. CASE LeaveGate(b)
  BY <1>7 DEF LeaveGate, Over
<1> QED
  BY <1>1, <1>2, <1>3, <1>4, <1>5, <1>6, <1>7 DEF Acts, Work

LEMMA TypeKeeps ==
  ASSUME TypeOK, NEW b \in Builds, Acts(b)
  PROVE  TypeOK'
<1> USE DEF TypeOK, Goto, At, Gates, Ops
<1>1. CASE Ask(b)
  <2>1. CASE \E R \in Requests : Begin(b, R)
    <3> PICK R \in Requests : Begin(b, R)
      BY <2>1
    <3>1. Normalized(R) # Unmergeable => Normalized(R) \subseteq Outputs
      BY MergingAssumption DEF Wanted
    <3> QED
      BY <3>1 DEF Begin
  <2>2. CASE \E R \in Requests : Extend(b, R)
    <3> PICK R \in Requests : Extend(b, R)
      BY <2>2
    <3>1. Normalized(R) \subseteq Outputs
      BY MergingAssumption DEF Wanted, Extend
    <3> QED
      BY <3>1 DEF Extend, Uncovered
  <2>3. CASE Finish(b)
    BY <2>3 DEF Finish
  <2> QED
    BY <1>1, <2>1, <2>2, <2>3 DEF Ask
<1>2. CASE LinkGate(b) \/ LookAtGate(b) \/ ReadGate(b) \/ RecheckGate(b) \/ UnlinkGate(b)
  BY <1>2 DEF LinkGate, LookAtGate, ReadGate, RecheckGate, UnlinkGate, Memory, Mine
<1>3. CASE ConfirmGate(b) \/ JudgeGate(b) \/ GiveUp(b) \/ CheckGate(b)
  BY <1>3 DEF ConfirmGate, JudgeGate, GiveUp, CheckGate, Over, After
<1>4. CASE ListClaims(b) \/ (\E f \in todo[b] : ReadClaim(b, f)) \/ Decide(b)
  BY <1>4 DEF ListClaims, ReadClaim, Decide, RefusalGoesTo
<1>5. CASE WorkDone(b) \/ Die(b)
  BY <1>5 DEF WorkDone, Die, Memory
<1>8. CASE WriteFails(b)
  <2>1. \A o \in Outputs : Claim(b, o) \in [by : Builds, out : Outputs, whole : BOOLEAN]
    BY DEF Claim
  <2>2. want[b] \subseteq Outputs
    OBVIOUS
  <2> QED
    BY <1>8, <2>1, <2>2 DEF WriteFails
<1>6. CASE \E o \in Outputs : CreateClaim(b, o) \/ FillClaim(b, o) \/ UndoClaim(b, o)
                              \/ DropClaim(b, o)
  <2>0. \A o \in Outputs : {Part(b, o), Claim(b, o)} \subseteq
                             [by : Builds, out : Outputs, whole : BOOLEAN]
    BY DEF Part, Claim
  <2>1. CASE \E o \in Outputs : CreateClaim(b, o)
    BY <2>0, <2>1 DEF CreateClaim, Memory
  <2>2. CASE \E o \in Outputs : FillClaim(b, o)
    BY <2>0, <2>2 DEF FillClaim
  <2>3. CASE \E o \in Outputs : UndoClaim(b, o) \/ DropClaim(b, o)
    BY <2>3 DEF UndoClaim, DropClaim
  <2> QED
    BY <1>6, <2>1, <2>2, <2>3
<1>7. CASE LeaveGate(b)
  BY <1>7 DEF LeaveGate, Over, Outcome, After
<1> QED
  BY <1>1, <1>2, <1>3, <1>4, <1>5, <1>6, <1>7, <1>8 DEF Acts, Work

(* The steps of b itself. *)
LEMMA OrderKeeps ==
  ASSUME TypeOK, Bookkeeping, NEW b \in Builds, Acts(b)
  PROVE  Bookkeeping'
<1> USE DEF TypeOK, Goto, At, BeforeTheGate
<1>1. InOrder(b)
  BY DEF Bookkeeping
<1>2. InOrder(b)'
  <2>1. CASE Ask(b)
    <3>1. CASE \E R \in Requests : Begin(b, R)
      BY <1>1, <3>1 DEF InOrder, Begin
    <3>2. CASE \E R \in Requests : Extend(b, R)
      <4>1. \A o \in Outputs : Covers(o, o)
        BY DEF Covers, Outputs
      <4>2. PICK R \in Requests : Extend(b, R)
        BY <3>2
      <4>3. want'[b] \cap lease'[b] = {}
        BY <4>1, <4>2 DEF Extend, Uncovered
      <4> QED
        BY <1>1, <4>2, <4>3 DEF InOrder, Extend
    <3>3. CASE Finish(b)
      BY <1>1, <3>3 DEF InOrder, Finish
    <3> QED
      BY <2>1, <3>1, <3>2, <3>3 DEF Ask
  <2>2. CASE LinkGate(b) \/ LookAtGate(b) \/ ReadGate(b) \/ RecheckGate(b) \/ UnlinkGate(b)
    BY <1>1, <2>2 DEF InOrder, LinkGate, LookAtGate, ReadGate, RecheckGate, UnlinkGate, Memory
  <2>3. CASE ConfirmGate(b) \/ JudgeGate(b) \/ GiveUp(b) \/ CheckGate(b)
    BY <1>1, <2>3 DEF InOrder, ConfirmGate, JudgeGate, GiveUp, CheckGate, Over, After
  <2>4. CASE ListClaims(b) \/ (\E f \in todo[b] : ReadClaim(b, f)) \/ Decide(b)
    BY <1>1, <2>4 DEF InOrder, ListClaims, ReadClaim, Decide, RefusalGoesTo
  <2>5. CASE WriteFails(b) \/ WorkDone(b) \/ Die(b)
    <3>1. CASE WriteFails(b)
      BY <1>1, <3>1 DEF InOrder, WriteFails
    <3>2. CASE WorkDone(b)
      BY <1>1, <3>2 DEF InOrder, WorkDone, AllMade, Memory
    <3>3. CASE Die(b)
      BY <1>1, <3>3 DEF InOrder, Die
    <3> QED
      BY <2>5, <3>1, <3>2, <3>3
  <2>6. CASE \E o \in Outputs : CreateClaim(b, o) \/ FillClaim(b, o)
    BY <1>1, <2>6 DEF InOrder, CreateClaim, FillClaim, Memory
  <2>7. CASE \E o \in Outputs : UndoClaim(b, o) \/ DropClaim(b, o)
    <3>1. CASE \E o \in Outputs : UndoClaim(b, o)
      BY <1>1, <3>1 DEF InOrder, UndoClaim
    <3>2. CASE \E o \in Outputs : DropClaim(b, o)
      BY <1>1, <3>2 DEF InOrder, DropClaim
    <3> QED
      BY <2>7, <3>1, <3>2
  <2>8. CASE LeaveGate(b)
    BY <1>1, <2>8 DEF InOrder, LeaveGate, Over, Outcome, After
  <2> QED
    BY <2>1, <2>2, <2>3, <2>4, <2>5, <2>6, <2>7, <2>8 DEF Acts, Work
<1>3. ASSUME NEW c \in Builds \ {b} PROVE InOrder(c)'
  BY OthersAreUntouched DEF Same, InOrder, Bookkeeping
<1> QED
  BY <1>2, <1>3 DEF Bookkeeping

(* Nobody takes away what another, running, process has written. *)
LEMMA FilesOfOthersStand ==
  ASSUME TypeOK, NEW b \in Builds, Acts(b), NEW c \in Builds \ {b}, NEW o,
         pc[c] # "dead", Claim(c, o) \in files
  PROVE  Claim(c, o) \in files'
<1> USE DEF TypeOK, Claim, Part
<1>1. CASE \E f \in todo[b] : ReadClaim(b, f)
  BY <1>1 DEF ReadClaim, Abandoned, alive
<1>2. CASE \E p \in Outputs : CreateClaim(b, p) \/ FillClaim(b, p) \/ UndoClaim(b, p)
                              \/ DropClaim(b, p)
  BY <1>2 DEF CreateClaim, FillClaim, UndoClaim, DropClaim
<1>4. CASE WriteFails(b)
  BY <1>4 DEF WriteFails
<1>3. CASE ~(\E f \in todo[b] : ReadClaim(b, f)) /\ ~WriteFails(b)
           /\ ~(\E p \in Outputs : CreateClaim(b, p) \/ FillClaim(b, p) \/ UndoClaim(b, p)
                                    \/ DropClaim(b, p))
  <2>1. files' = files
    BY <1>3 DEF Acts, Ask, Begin, Extend, Finish, Work, LinkGate, ConfirmGate, LookAtGate,
                ReadGate, JudgeGate, RecheckGate, UnlinkGate, ListClaims, Decide, WorkDone,
                CheckGate, LeaveGate, GiveUp, Die
  <2> QED
    BY <2>1
<1> QED
  BY <1>1, <1>2, <1>3, <1>4

LEMMA WrittenStaysWritten ==
  ASSUME TypeOK, Bookkeeping, MadeStand, LeasesStand, NEW b \in Builds, Acts(b)
  PROVE  MadeStand' /\ LeasesStand'
<1> DEFINE Held(c) == lease[c] \cup made[c]
<1> USE DEF TypeOK, Goto, At
<1>0. InOrder(b)
  BY DEF Bookkeeping
<1>1. \A c \in Builds : \A o \in Held(c) : Claim(c, o) \in files
  BY DEF MadeStand, LeasesStand
<1>2. ASSUME NEW c \in Builds \ {b}, NEW o \in (Held(c))'
      PROVE  Claim(c, o) \in files'
  <2>1. Same(c) /\ o \in Held(c)
    BY OthersAreUntouched DEF Same
  <2>2. pc[c] # "dead"
    BY <2>1 DEF Bookkeeping, InOrder
  <2> QED
    BY <1>1, <2>1, <2>2, FilesOfOthersStand
<1>3. ASSUME NEW o \in (Held(b))'
      PROVE  Claim(b, o) \in files'
  <2>1. CASE \E f \in todo[b] : ReadClaim(b, f)
    BY <1>1, <2>1 DEF ReadClaim, Abandoned, alive, Claim
  <2>2. CASE \E p \in Outputs : CreateClaim(b, p)
    BY <1>1, <2>2 DEF CreateClaim, Memory
  <2>3. CASE \E p \in Outputs : FillClaim(b, p)
    <3> PICK p \in Outputs : FillClaim(b, p)
      BY <2>3
    <3>1. /\ files' = (files \ {Part(b, p)}) \cup {Claim(b, p)}
          /\ o = p \/ o \in Held(b)
      BY DEF FillClaim
    <3>2. Claim(b, o) # Part(b, p)
      BY DEF Claim, Part
    <3> QED
      BY <1>1, <3>1, <3>2
  <2>4. CASE \E p \in Outputs : UndoClaim(b, p)
    BY <1>0, <1>1, <2>4 DEF UndoClaim, Claim, InOrder
  <2>5. CASE \E p \in Outputs : DropClaim(b, p)
    BY <1>0, <1>1, <2>5 DEF DropClaim, Claim, InOrder
  <2>6. CASE LeaveGate(b)
    BY <1>1, <2>6 DEF LeaveGate, Over
  <2>7. CASE Ask(b)
    BY <1>1, <2>7 DEF Ask, Begin, Extend, Finish
  <2>8. CASE LinkGate(b) \/ LookAtGate(b) \/ ReadGate(b) \/ RecheckGate(b) \/ UnlinkGate(b)
    BY <1>1, <2>8 DEF LinkGate, LookAtGate, ReadGate, RecheckGate, UnlinkGate, Memory
  <2>9. CASE ConfirmGate(b) \/ JudgeGate(b) \/ GiveUp(b) \/ CheckGate(b)
    BY <1>1, <2>9 DEF ConfirmGate, JudgeGate, GiveUp, CheckGate, Over
  <2>10. CASE ListClaims(b) \/ Decide(b) \/ WorkDone(b) \/ Die(b)
    BY <1>1, <2>10 DEF ListClaims, Decide, WorkDone, Die, Memory
  <2>11. CASE WriteFails(b)
    <3>1. o \in Held(b) /\ \A p \in want[b] : Claim(b, o) # Part(b, p)
      BY <2>11 DEF WriteFails, Claim, Part
    <3> QED
      BY <1>1, <2>11, <3>1 DEF WriteFails
  <2> QED
    BY <2>1, <2>2, <2>3, <2>4, <2>5, <2>6, <2>7, <2>8, <2>9, <2>10, <2>11 DEF Acts, Work
<1>4. \A c \in Builds : \A o \in (Held(c))' : Claim(c, o) \in files'
  BY <1>2, <1>3
<1> QED
  BY <1>4 DEF MadeStand, LeasesStand, Claim

-----------------------------------------------------------------------------
(* What counts grows only where a process finds its gate still there, and  *)
(* nobody else's gate is put back once it has gone.                        *)

LEMMA SureOfOthers ==
  ASSUME TypeOK, NEW b \in Builds, Acts(b), NEW c \in Builds \ {b}
  PROVE  /\ Sure(c)' = Sure(c)
         /\ (gate = Mine(c))' => gate = Mine(c)
<1>1. Same(c)
  BY OthersAreUntouched
<1>2. gate' \in {gate, None, Mine(b)}
  BY DEF Acts, Ask, Begin, Extend, Finish, Work, LinkGate, ConfirmGate, LookAtGate,
         ReadGate, JudgeGate, RecheckGate, UnlinkGate, ListClaims, ReadClaim, Decide,
         CreateClaim, FillClaim, UndoClaim, DropClaim, WorkDone,
         CheckGate, LeaveGate, GiveUp, WriteFails, Die
<1>3. Mine(c)' = Mine(c) /\ Mine(c) # Mine(b) /\ Mine(c) # None
  BY <1>1, NoneAssumption DEF Same, Mine, Gates, TypeOK
<1> QED
  BY <1>1, <1>2, <1>3 DEF Same, Sure, Passed

Keeps(b) == CheckGate(b) /\ gate = Mine(b)

LEMMA SureOfMine ==
  ASSUME TypeOK, Bookkeeping, NEW b \in Builds, Acts(b)
  PROVE  /\ ~Keeps(b) => Sure(b)' \subseteq Sure(b)
         /\ Keeps(b) => /\ gate' = gate /\ pc[b] = "free"
                        /\ Sure(b)' \subseteq Sure(b)
                             \cup (IF answer[b] = "none" THEN made[b] ELSE {})
<1> USE DEF TypeOK, Goto, At, Sure, Passed
<1>0. InOrder(b)
  BY DEF Bookkeeping
<1>1. CASE CheckGate(b)
  BY <1>0, <1>1 DEF CheckGate, Over, After, Keeps, StillOurs
<1>2. ~CheckGate(b) => Sure(b)' \subseteq Sure(b)
  <2>1. CASE Ask(b)
    BY <2>1 DEF Ask, Begin, Extend, Finish
  <2>2. CASE LinkGate(b) \/ LookAtGate(b) \/ ReadGate(b) \/ RecheckGate(b) \/ UnlinkGate(b)
    BY <2>2 DEF LinkGate, LookAtGate, ReadGate, RecheckGate, UnlinkGate, Memory
  <2>3. CASE ConfirmGate(b) \/ JudgeGate(b) \/ GiveUp(b)
    BY <2>3 DEF ConfirmGate, JudgeGate, GiveUp, Over, After
  <2>4. CASE ListClaims(b) \/ (\E f \in todo[b] : ReadClaim(b, f)) \/ Decide(b)
    BY <2>4 DEF ListClaims, ReadClaim, Decide, RefusalGoesTo
  <2>5. CASE WriteFails(b) \/ WorkDone(b) \/ Die(b)
    BY <2>5 DEF WriteFails, WorkDone, Die, Memory
  <2>6. CASE \E o \in Outputs : CreateClaim(b, o) \/ FillClaim(b, o) \/ UndoClaim(b, o)
                                \/ DropClaim(b, o)
    BY <2>6 DEF CreateClaim, FillClaim, UndoClaim, DropClaim, Memory
  <2>7. CASE LeaveGate(b)
    <3>1. pc'[b] # "leave"
      BY <2>7 DEF LeaveGate, Over, After
    <3>2. lease'[b] = lease[b] \/ (answer[b] = "none" /\ lease'[b] = lease[b] \cup made[b])
      BY <1>0, <2>7 DEF InOrder, LeaveGate, Outcome
    <3> QED
      BY <2>7, <3>1, <3>2 DEF LeaveGate
  <2> QED
    BY <2>1, <2>2, <2>3, <2>4, <2>5, <2>6, <2>7 DEF Acts, Work
<1> QED
  BY <1>1, <1>2 DEF Keeps

LEMMA ListingKeeps ==
  ASSUME IInv, NEW b \in Builds, Acts(b)
  PROVE  ListingComplete'
<1> USE DEF IInv
<1> SUFFICES ASSUME NEW x \in Builds, NEW c \in Builds, x # c,
                    (gate = Mine(x))', pc'[x] = "scan", NEW p \in Sure(c)'
             PROVE  Claim(c, p) \in todo'[x] \cup met'[x]
  BY DEF ListingComplete, Claim
<1>1. CASE x # b
  <2>1. Same(x) /\ gate = Mine(x)
    BY <1>1, OthersAreUntouched, SureOfOthers
  <2>2. p \in Sure(c)
    <3>1. CASE c = b
      <4>1. ~Keeps(b)
        BY <1>1, <2>1 DEF Keeps, Mine
      <4> QED
        BY <3>1, <4>1, SureOfMine
    <3> QED
      BY <3>1, SureOfOthers
  <2> QED
    BY <2>1, <2>2 DEF Same, ListingComplete
<1>2. CASE x = b
  <2>1. p \in Sure(c)
    BY <1>2, SureOfOthers
  <2>2. Claim(c, p) \in files /\ pc[c] # "dead"
    BY <2>1 DEF Sure, MadeStand, LeasesStand, Bookkeeping, InOrder, Passed
  <2> USE DEF TypeOK, Goto, At
  <2>3. CASE ListClaims(b)
    BY <1>2, <2>2, <2>3 DEF ListClaims
  <2>4. CASE \E f \in todo[b] : ReadClaim(b, f)
    <3> PICK f \in todo[b] : ReadClaim(b, f)
      BY <2>4
    <3>1. Claim(c, p) \in todo[b] \cup met[b]
      BY <1>2, <2>1 DEF ListingComplete, ReadClaim, Mine
    <3>2. CASE f = Claim(c, p)
      BY <1>2, <2>2, <3>2 DEF ReadClaim, Abandoned, alive, Claim
    <3>3. CASE f # Claim(c, p)
      BY <1>2, <3>1, <3>3 DEF ReadClaim
    <3> QED
      BY <3>2, <3>3
  <2>5. CASE ~ListClaims(b) /\ ~(\E f \in todo[b] : ReadClaim(b, f))
    <3>1. pc'[b] # "scan"
      BY <2>5 DEF Acts, Ask, Begin, Extend, Finish, Work, LinkGate, ConfirmGate, LookAtGate,
         ReadGate, JudgeGate, RecheckGate, UnlinkGate, Decide, RefusalGoesTo, Over, After,
         CreateClaim, FillClaim, UndoClaim, DropClaim, WorkDone, Memory,
         CheckGate, LeaveGate, GiveUp, WriteFails, Die
    <3> QED
      BY <1>2, <3>1
  <2> QED
    BY <2>3, <2>4, <2>5
<1> QED
  BY <1>1, <1>2

LEMMA ClearedKeeps ==
  ASSUME IInv, NEW b \in Builds, Acts(b)
  PROVE  Cleared'
<1> USE DEF IInv
<1> SUFFICES ASSUME NEW x \in Builds, NEW c \in Builds, x # c,
                    (gate = Mine(x))', pc'[x] \in {"write", "free"}, answer'[x] = "none",
                    NEW o \in want'[x], NEW p \in Sure(c)'
             PROVE  ~Overlaps(o, p)
  BY DEF Cleared, Overlaps
<1>1. CASE x # b
  <2>1. Same(x) /\ gate = Mine(x)
    BY <1>1, OthersAreUntouched, SureOfOthers
  <2>2. p \in Sure(c)
    <3>1. CASE c = b
      <4>1. ~Keeps(b)
        BY <1>1, <2>1 DEF Keeps, Mine
      <4> QED
        BY <3>1, <4>1, SureOfMine
    <3> QED
      BY <3>1, SureOfOthers
  <2> QED
    BY <2>1, <2>2 DEF Same, Cleared
<1>2. CASE x = b
  <2>1. p \in Sure(c)
    BY <1>2, SureOfOthers
  <2> USE DEF TypeOK, Goto, At
  <2>2. CASE Decide(b)
    <3>1. Claim(c, p) \in met[b] /\ o \in want[b] /\ ~Conflicts(b)
      BY <1>2, <2>1, <2>2 DEF Decide, RefusalGoesTo, ListingComplete, Mine
    <3>2. ~Owned(b, Claim(c, p)) /\ Claim(c, p).out = p
      BY <1>2 DEF Owned, Claim
    <3> QED
      BY <3>1, <3>2 DEF Conflicts
  <2>3. CASE (\E q \in Outputs : CreateClaim(b, q) \/ FillClaim(b, q)) \/ WorkDone(b)
    <3>1. /\ gate = Mine(b) /\ answer[b] = "none" /\ o \in want[b]
          /\ pc[b] \in {"write", "undo", "drop"}
      BY <1>2, <2>3 DEF CreateClaim, FillClaim, WorkDone, Memory, Mine
    <3>2. pc[b] = "write"
      BY <3>1 DEF Bookkeeping, InOrder
    <3> QED
      BY <1>2, <2>1, <3>1, <3>2 DEF Cleared
  <2>4. CASE ~Decide(b) /\ ~WorkDone(b)
             /\ ~(\E q \in Outputs : CreateClaim(b, q) \/ FillClaim(b, q))
    <3>1. pc'[b] \notin {"write", "free"}
      BY <2>4 DEF Acts, Ask, Begin, Extend, Finish, Work, LinkGate, ConfirmGate, LookAtGate,
         ReadGate, JudgeGate, RecheckGate, UnlinkGate, ListClaims, ReadClaim, Over, After,
         UndoClaim, DropClaim, Memory, CheckGate, LeaveGate, GiveUp, WriteFails, Die
    <3> QED
      BY <1>2, <3>1
  <2> QED
    BY <2>2, <2>3, <2>4
<1> QED
  BY <1>1, <1>2

LEMMA ExclusionKeeps ==
  ASSUME IInv, NEW b \in Builds, Acts(b)
  PROVE  SureExclusive'
<1> USE DEF IInv
<1>1. ASSUME NEW c \in Builds \ {b}, NEW o \in Sure(b)', NEW p \in Sure(c)'
      PROVE  ~Overlaps(o, p)
  <2>1. p \in Sure(c)
    BY SureOfOthers
  <2>2. CASE o \in Sure(b)
    BY <2>1, <2>2 DEF SureExclusive
  <2>3. CASE o \notin Sure(b)
    <3>1. /\ gate = Mine(b) /\ pc[b] = "free" /\ answer[b] = "none"
          /\ o \in want[b]
      BY <2>3, SureOfMine DEF Keeps, Bookkeeping, InOrder
    <3> QED
      BY <2>1, <3>1 DEF Cleared
  <2> QED
    BY <2>2, <2>3
<1>2. ASSUME NEW c \in Builds \ {b}, NEW d \in Builds \ {b}, c # d,
             NEW o \in Sure(c)', NEW p \in Sure(d)'
      PROVE  ~Overlaps(o, p)
  BY <1>2, SureOfOthers DEF SureExclusive
<1>3. \A o, p : Overlaps(o, p) => Overlaps(p, o)
  BY DEF Overlaps
<1> QED
  BY <1>1, <1>2, <1>3 DEF SureExclusive, Overlaps

LEMMA StutterKeeps == IInv /\ UNCHANGED vars => IInv'
BY DEF IInv, vars, TypeOK, Bookkeeping, InOrder, MadeStand, LeasesStand, ListingComplete,
       Cleared, SureExclusive, Sure, Passed, Mine, Claim, Overlaps

LEMMA InvInit == Init => IInv
BY NoneAssumption
   DEF Init, IInv, TypeOK, Bookkeeping, InOrder, MadeStand, LeasesStand, ListingComplete,
       Cleared, SureExclusive, Sure, Passed, Ops, BeforeTheGate

LEMMA Invariance == Spec => []IInv
<1>1. IInv /\ [Next]_vars => IInv'
  <2> SUFFICES ASSUME IInv, NEW b \in Builds, Acts(b) PROVE IInv'
    BY StutterKeeps DEF Next, Acts
  <2> QED
    BY TypeKeeps, OrderKeeps, WrittenStaysWritten, ListingKeeps, ClearedKeeps, ExclusionKeeps
       DEF IInv
<1> QED
  BY <1>1, InvInit, PTL DEF Spec

-----------------------------------------------------------------------------
(* The registry and what each process remembers of it stay well formed.    *)
THEOREM TypeCorrect == Spec => []TypeOK
<1>1. IInv => TypeOK
  BY DEF IInv
<1> QED
  BY <1>1, Invariance, PTL

(* installClaims and the release of its gate never let two builds hold     *)
(* outputs that overlap, although the removal of a dead gate may let two   *)
(* processes into it at once.                                              *)
THEOREM NeverTwoOwners == Spec => []Exclusive
<1>1. IInv => Exclusive
  BY DEF IInv, SureExclusive, Sure, Exclusive
<1> QED
  BY <1>1, Invariance, PTL

(* activeClaims and releaseHeldClaim never take away a claim of a running  *)
(* build other than the caller's.                                          *)
THEOREM ClaimsOfTheLivingStand == Spec => []LeasesStand
<1>1. IInv => LeasesStand
  BY DEF IInv
<1> QED
  BY <1>1, Invariance, PTL

-----------------------------------------------------------------------------
(* A build that began alone.                                               *)

LEMMA GateKeeps ==
  ASSUME TypeOK, GateIsKept, NEW b \in Builds, Acts(b)
  PROVE  GateIsKept'
<1> USE DEF TypeOK, Goto, At, GateIsKept, AtWork, alive, Mine
<1>1. CASE Ask(b)
  BY <1>1 DEF Ask, Begin, Extend, Finish
<1>2. CASE LinkGate(b)
  BY <1>2 DEF LinkGate, Memory
<1>3. CASE LookAtGate(b) \/ ReadGate(b) \/ RecheckGate(b) \/ UnlinkGate(b)
  BY <1>3 DEF LookAtGate, ReadGate, RecheckGate, UnlinkGate, Memory
<1>4. CASE ConfirmGate(b) \/ JudgeGate(b) \/ GiveUp(b) \/ CheckGate(b)
  <2>1. gate # None /\ gate[1] = b => gate = Mine(b) /\ pc[b] \in AtWork
    BY <1>4, NoneAssumption
       DEF Gates, ConfirmGate, JudgeGate, GiveUp, CheckGate
  <2>2. pc'[b] # "dead" /\ gate' = gate /\ op' = op
    BY <1>4 DEF ConfirmGate, JudgeGate, GiveUp, CheckGate, Over, After
  <2>3. gate = Mine(b) /\ pc[b] \in AtWork => pc'[b] \in AtWork
    BY <1>4 DEF ConfirmGate, JudgeGate, GiveUp, CheckGate, StillOurs
  <2>4. \A c \in Builds \ {b} : pc'[c] = pc[c]
    BY OthersAreUntouched DEF Same
  <2>5. gate # None => gate[1] \in Builds
    BY DEF Gates
  <2> QED
    BY <2>1, <2>2, <2>3, <2>4, <2>5
<1>5. CASE ListClaims(b) \/ (\E f \in todo[b] : ReadClaim(b, f)) \/ Decide(b)
  BY <1>5 DEF ListClaims, ReadClaim, Decide, RefusalGoesTo
<1>6. CASE WriteFails(b) \/ WorkDone(b) \/ Die(b)
  BY <1>6 DEF WriteFails, WorkDone, Die, Memory
<1>7. CASE \E o \in Outputs : CreateClaim(b, o) \/ FillClaim(b, o) \/ UndoClaim(b, o)
                              \/ DropClaim(b, o)
  BY <1>7 DEF CreateClaim, FillClaim, UndoClaim, DropClaim, Memory
<1>8. CASE LeaveGate(b)
  BY <1>8 DEF LeaveGate
<1> QED
  BY <1>1, <1>2, <1>3, <1>4, <1>5, <1>6, <1>7, <1>8 DEF Acts, Work

IdleIsClean == \A f \in files : pc[f.by] # "idle"

(* Nothing on disk or in memory can turn against a build that is alone:    *)
(* the gate it sees is its own or a dead one, and so are the claims it     *)
(* meets.  A claim that failed after it was written is there once it has   *)
(* no claims to add any more.                                              *)
Undisturbed(b) ==
  /\ alive = {b}
  /\ pc[b] \in AtWork => gate = Mine(b)
  /\ pc[b] \in {"read", "stale"} => seen[b] = gate /\ gate # None
  /\ pc[b] = "unread" => gate = None
  /\ answer[b] # "failed" /\ op[b] # "release" =>
       \A f \in files : f.by = b /\ f.whole => f.out \in lease[b] \cup made[b]
  /\ pc[b] = "scan" => \A f \in met[b] : Owned(b, f)
  /\ answer[b] \notin {"refused", "busy", "invalid", "stolen"}
AloneIsUndisturbed == \A b \in alone : Undisturbed(b)

AInv == IInv /\ GateIsKept /\ IdleIsClean /\ AloneIsUndisturbed

LEMMA IdleKeeps ==
  ASSUME TypeOK, IdleIsClean, NEW b \in Builds, Acts(b)
  PROVE  IdleIsClean'
<1>1. pc'[b] # "idle"
  <2>1. pc[b] # "idle" => pc'[b] # "idle"
    BY DEF Acts, Ask, Begin, Extend, Finish, Work, LinkGate, ConfirmGate, LookAtGate,
           ReadGate, JudgeGate, RecheckGate, UnlinkGate, ListClaims, ReadClaim, Decide,
           CreateClaim, FillClaim, UndoClaim, DropClaim, WorkDone, CheckGate, LeaveGate,
           GiveUp, WriteFails, Die, Over, After, Memory, Goto, At, RefusalGoesTo, TypeOK
  <2>2. pc[b] = "idle" => (\E R \in Requests : Begin(b, R)) \/ Die(b)
    BY DEF Acts, Ask, Extend, Finish, Work, LinkGate, ConfirmGate, LookAtGate,
           ReadGate, JudgeGate, RecheckGate, UnlinkGate, ListClaims, ReadClaim, Decide,
           CreateClaim, FillClaim, UndoClaim, DropClaim, WorkDone, CheckGate, LeaveGate,
           GiveUp, WriteFails, At
  <2>3. ((\E R \in Requests : Begin(b, R)) \/ Die(b)) => pc'[b] # "idle"
    BY DEF Begin, Die, Goto, TypeOK
  <2> QED
    BY <2>1, <2>2, <2>3
<1>2. \A f \in files' \ files : f.by = b
  <2>1. CASE WriteFails(b) \/ \E o \in Outputs : CreateClaim(b, o) \/ FillClaim(b, o)
    <3>2. CASE WriteFails(b)
      <4>1. files' = files \/ \E o : files' = (files \ {Part(b, o)}) \cup {Claim(b, o)}
        BY <3>2 DEF WriteFails
      <4> QED
        BY <4>1 DEF Claim
    <3>3. CASE \E o \in Outputs : CreateClaim(b, o) \/ FillClaim(b, o)
      BY <3>3 DEF CreateClaim, FillClaim, Claim, Part
    <3> QED
      BY <2>1, <3>2, <3>3
  <2>2. CASE ~WriteFails(b) /\ ~(\E o \in Outputs : CreateClaim(b, o) \/ FillClaim(b, o))
    <3>1. files' \subseteq files
      BY <2>2 DEF Acts, Ask, Begin, Extend, Finish, Work, LinkGate, ConfirmGate, LookAtGate,
         ReadGate, JudgeGate, RecheckGate, UnlinkGate, ListClaims, ReadClaim, Decide,
         UndoClaim, DropClaim, WorkDone, CheckGate, LeaveGate, GiveUp, Die
    <3> QED
      BY <3>1
  <2> QED
    BY <2>1, <2>2
<1>3. \A f \in files' : f.by \in Builds
  BY TypeKeeps DEF TypeOK
<1>4. \A c \in Builds \ {b} : pc'[c] = pc[c]
  BY OthersAreUntouched DEF Same
<1> QED
  BY <1>1, <1>2, <1>3, <1>4 DEF IdleIsClean

LEMMA TheDeadDoNothing ==
  ASSUME TypeOK, NEW b \in Builds, Acts(b)
  PROVE  /\ pc[b] # "dead" /\ alone' \subseteq alone \cup {b}
         /\ b \notin alone => b \notin alone' \/ \E R \in Requests : Begin(b, R)
BY DEF Acts, Ask, Begin, Extend, Finish, Work, LinkGate, ConfirmGate, LookAtGate,
       ReadGate, JudgeGate, RecheckGate, UnlinkGate, ListClaims, ReadClaim, Decide,
       CreateClaim, FillClaim, UndoClaim, DropClaim, WorkDone, CheckGate, LeaveGate,
       GiveUp, WriteFails, Die, At, alive

LEMMA AloneKeeps ==
  ASSUME AInv, NEW b \in Builds, Acts(b)
  PROVE  AloneIsUndisturbed'
<1> USE DEF AInv, IInv
<1>0. InOrder(b)
  BY DEF Bookkeeping
<1>1. \A c \in alone' : c = b
  BY TheDeadDoNothing DEF TypeOK, AloneIsUndisturbed, Undisturbed, alive
<1>2. ASSUME b \in alone' PROVE Undisturbed(b)'
  <2> USE DEF TypeOK, Goto, At, Undisturbed, AtWork, Mine
  <2>1. CASE Die(b)
    BY <1>2, <2>1 DEF Die
  <2>2. CASE \E R \in Requests : Begin(b, R)
    <3> PICK R \in Requests : Begin(b, R)
      BY <2>2
    <3>1. alive = {b} /\ pc[b] = "idle"
      BY <1>2 DEF Begin, AloneIsUndisturbed
    <3>2. \A f \in files : f.by # b
      BY <3>1 DEF IdleIsClean
    <3>3. alive' = {b}
      BY <3>1 DEF Begin, alive
    <3> QED
      BY <1>0, <3>1, <3>2, <3>3 DEF InOrder, Begin
  <2>3. CASE ~Die(b) /\ ~(\E R \in Requests : Begin(b, R))
    <3>1. b \in alone /\ Undisturbed(b)
      BY <1>2, <2>3, TheDeadDoNothing DEF AloneIsUndisturbed
    <3>2. alive' = alive
      BY <2>3, <1>0, OthersAreUntouched, TheDeadDoNothing
         DEF Same, alive, Acts, Ask, Extend, Finish, Work, LinkGate, ConfirmGate, LookAtGate,
             ReadGate, JudgeGate, RecheckGate, UnlinkGate, ListClaims, ReadClaim, Decide,
             CreateClaim, FillClaim, UndoClaim, DropClaim, WorkDone, CheckGate, LeaveGate,
             GiveUp, WriteFails, Memory, Over, After, RefusalGoesTo
    <3>3. CASE (\E R \in Requests : Extend(b, R)) \/ Finish(b)
      BY <1>0, <3>1, <3>2, <3>3 DEF Extend, Finish, InOrder
    <3>4. CASE LinkGate(b)
      BY <3>1, <3>2, <3>4 DEF LinkGate, Memory
    <3>5. CASE ConfirmGate(b)
      BY <3>1, <3>2, <3>5 DEF ConfirmGate
    <3>6. CASE LookAtGate(b)
      BY <3>1, <3>2, <3>6 DEF LookAtGate, Memory
    <3>7. CASE ReadGate(b)
      BY <3>1, <3>2, <3>7 DEF ReadGate, Memory
    <3>8. CASE GiveUp(b)
      <4>1. gate[1] \in alive /\ gate # None /\ gate \in Gates
        BY <3>1, <3>8 DEF GiveUp, OwnerAlive
      <4>2. gate[1] = b
        BY <3>1, <4>1
      <4> QED
        BY <3>8, <4>1, <4>2 DEF GiveUp, GateIsKept
    <3>9. CASE JudgeGate(b)
      BY <3>1, <3>2, <3>9 DEF JudgeGate
    <3>10. CASE RecheckGate(b) \/ UnlinkGate(b)
      BY <3>1, <3>2, <3>10 DEF RecheckGate, UnlinkGate, Memory
    <3>11. CASE ListClaims(b)
      BY <3>1, <3>2, <3>11 DEF ListClaims
    <3>12. CASE \E f \in todo[b] : ReadClaim(b, f)
      <4> PICK f \in todo[b] : ReadClaim(b, f)
        BY <3>12
      <4>1. f \in files /\ f.whole /\ ~Abandoned(f) => Owned(b, f)
        BY <1>0, <3>1 DEF ReadClaim, Abandoned, Owned, InOrder
      <4>2. \A g \in met'[b] : Owned(b, g)'
        BY <3>1, <4>1 DEF ReadClaim, Owned
      <4> QED
        BY <3>1, <3>2, <4>2 DEF ReadClaim
    <3>13. CASE Decide(b)
      <4>1. ~Conflicts(b)
        BY <3>1, <3>13 DEF Decide, Conflicts
      <4> QED
        BY <3>1, <3>2, <3>13, <4>1 DEF Decide
    <3>14. CASE \E o \in Outputs : CreateClaim(b, o)
      BY <3>1, <3>2, <3>14 DEF CreateClaim, Part, Memory
    <3>15. CASE \E o \in Outputs : FillClaim(b, o)
      BY <3>1, <3>2, <3>15 DEF FillClaim, Claim
    <3>16. CASE \E o \in Outputs : UndoClaim(b, o)
      <4> PICK o \in Outputs : UndoClaim(b, o)
        BY <3>16
      <4>1. \A f \in files : f.by = b /\ f.whole /\ f.out = o => f = Claim(b, o)
        BY DEF Claim
      <4> QED
        BY <3>1, <3>2, <4>1 DEF UndoClaim
    <3>17. CASE \E o \in Outputs : DropClaim(b, o)
      <4> PICK o \in Outputs : DropClaim(b, o)
        BY <3>17
      <4>1. \A f \in files : f.by = b /\ f.whole /\ f.out = o => f = Claim(b, o)
        BY DEF Claim
      <4> QED
        BY <3>1, <3>2, <4>1 DEF DropClaim
    <3>18. CASE WriteFails(b) \/ WorkDone(b)
      BY <3>1, <3>2, <3>18 DEF WriteFails, WorkDone, Memory
    <3>19. CASE CheckGate(b)
      BY <3>1, <3>2, <3>19 DEF CheckGate, StillOurs
    <3>20. CASE LeaveGate(b)
      <4>1. Outcome(b) \in {"ok", answer[b]} /\ (Outcome(b) = "ok" <=> answer[b] = "none")
        BY <1>0, <3>1, <3>20, NoneAssumption DEF InOrder, LeaveGate, Outcome, Gates
      <4>2. lease[b] \cup made[b] \subseteq lease'[b]
        BY <1>0, <3>20, <4>1 DEF InOrder, LeaveGate
      <4> QED
        BY <3>1, <3>2, <3>20, <4>1, <4>2 DEF LeaveGate, Over, After
    <3> QED
      BY <2>3, <3>3, <3>4, <3>5, <3>6, <3>7, <3>8, <3>9, <3>10, <3>11, <3>12, <3>13, <3>14,
         <3>15, <3>16, <3>17, <3>18, <3>19, <3>20 DEF Acts, Ask, Work
  <2> QED
    BY <2>1, <2>2, <2>3
<1> QED
  BY <1>1, <1>2 DEF AloneIsUndisturbed

LEMMA AloneInvariance == Spec => []AInv
<1>1. Init => AInv
  BY InvInit DEF Init, AInv, GateIsKept, IdleIsClean, AloneIsUndisturbed
<1>2. AInv /\ [Next]_vars => AInv'
  <2>1. ASSUME AInv, NEW b \in Builds, Acts(b) PROVE AInv'
    <3>1. IInv'
      BY <2>1, TypeKeeps, OrderKeeps, WrittenStaysWritten, ListingKeeps, ClearedKeeps,
         ExclusionKeeps DEF AInv, IInv
    <3> QED
      BY <2>1, <3>1, GateKeeps, IdleKeeps, AloneKeeps DEF AInv, IInv
  <2>2. ASSUME AInv, UNCHANGED vars PROVE AInv'
    BY <2>2, StutterKeeps
       DEF AInv, vars, GateIsKept, AtWork, IdleIsClean, AloneIsUndisturbed, Undisturbed, alive,
           Mine, Owned
  <2> QED
    BY <2>1, <2>2 DEF Next, Acts
<1> QED
  BY <1>1, <1>2, PTL DEF Spec

(* withRegistryGate releases the gate on every way out of its work, so a   *)
(* gate of a running process is one it is at work inside.                  *)
THEOREM GatesAreKept == Spec => []GateIsKept
<1>1. AInv => GateIsKept
  BY DEF AInv
<1> QED
  BY <1>1, AloneInvariance, PTL

(* acquireRegistryGate and activeClaims clear away all that killed builds  *)
(* may have left: a gate, claims, and claims written in part.              *)
THEOREM TheDeadNeverRefuse == Spec => []TheDeadYield
<1>1. AInv => TheDeadYield
  BY DEF AInv, AloneIsUndisturbed, Undisturbed, TheDeadYield
<1> QED
  BY <1>1, AloneInvariance, PTL

-----------------------------------------------------------------------------
(* The registry implements the ownership of outputs (BuildOwnership).      *)

(* What is asked for inside the gate is what the build lacks of a request. *)
AsksWhole ==
  \A b \in Builds : op[b] # "release" /\ pc[b] \notin {"idle", "building", "done", "dead"} =>
    \E W \in Wanted : want[b] = Uncovered(b, W)

LEMMA AskingKeeps ==
  ASSUME TypeOK, Bookkeeping, AsksWhole, NEW b \in Builds, Acts(b)
  PROVE  AsksWhole'
<1> USE DEF TypeOK, Goto, At, Uncovered
<1>1. ASSUME NEW c \in Builds \ {b}, op'[c] # "release",
             pc'[c] \notin {"idle", "building", "done", "dead"}
      PROVE  \E W \in Wanted : want'[c] = Uncovered(c, W)'
  BY <1>1, OthersAreUntouched DEF Same, AsksWhole
<1>2. ASSUME op'[b] # "release", pc'[b] \notin {"idle", "building", "done", "dead"}
      PROVE  \E W \in Wanted : want'[b] = Uncovered(b, W)'
  <2>1. CASE \E R \in Requests : Begin(b, R)
    <3> PICK R \in Requests : Begin(b, R)
      BY <2>1
    <3>1. Normalized(R) \in Wanted /\ want'[b] = Normalized(R) /\ lease'[b] = {}
      BY <1>2 DEF Begin, Wanted, Bookkeeping, InOrder
    <3> QED
      BY <3>1
  <2>2. CASE \E R \in Requests : Extend(b, R)
    <3> PICK R \in Requests : Extend(b, R)
      BY <2>2
    <3>1. Normalized(R) \in Wanted /\ lease' = lease
          /\ want'[b] = {o \in Normalized(R) : \A p \in lease[b] : ~Covers(p, o)}
      BY DEF Extend, Wanted
    <3> QED
      BY <3>1
  <2>3. CASE ~(\E R \in Requests : Begin(b, R) \/ Extend(b, R))
    <3>1. op'[b] = op[b] /\ pc[b] \notin {"idle", "building", "done", "dead"}
      BY <1>2, <2>3 DEF Acts, Ask, Finish, Work, LinkGate, ConfirmGate, LookAtGate,
         ReadGate, JudgeGate, RecheckGate, UnlinkGate, ListClaims, ReadClaim, Decide,
         CreateClaim, FillClaim, UndoClaim, DropClaim, WorkDone, CheckGate, LeaveGate,
         GiveUp, WriteFails, Die, Over, After, Memory
    <3>2. UNCHANGED <<want, lease>>
      BY <1>2, <2>3, <3>1 DEF Acts, Ask, Finish, Work, LinkGate, ConfirmGate, LookAtGate,
         ReadGate, JudgeGate, RecheckGate, UnlinkGate, ListClaims, ReadClaim, Decide,
         CreateClaim, FillClaim, UndoClaim, DropClaim, WorkDone, CheckGate, LeaveGate,
         GiveUp, WriteFails, Die, Over, After, Memory, Bookkeeping, InOrder
    <3> QED
      BY <1>2, <3>1, <3>2 DEF AsksWhole
  <2> QED
    BY <2>1, <2>2, <2>3
<1> QED
  BY <1>1, <1>2 DEF AsksWhole

RInv == IInv /\ AsksWhole

LEMMA RefinementInvariance == Spec => []RInv
<1>1. Init => RInv
  BY InvInit DEF Init, RInv, AsksWhole
<1>2. RInv /\ [Next]_vars => RInv'
  <2>1. ASSUME RInv, NEW b \in Builds, Acts(b) PROVE RInv'
    BY <2>1, TypeKeeps, OrderKeeps, WrittenStaysWritten, ListingKeeps, ClearedKeeps,
       ExclusionKeeps, AskingKeeps DEF RInv, IInv
  <2>2. ASSUME RInv, UNCHANGED vars PROVE RInv'
    BY <2>2, StutterKeeps DEF RInv, vars, AsksWhole, Uncovered
  <2> QED
    BY <2>1, <2>2 DEF Next, Acts
<1> QED
  BY <1>1, <1>2, PTL DEF Spec

LEMMA StepsMap ==
  ASSUME RInv, RInv', NEW b \in Builds, Acts(b)
  PROVE  [Ownership!Next]_lease
<1> USE DEF RInv, IInv, TypeOK, Goto, At
<1>0. InOrder(b)
  BY DEF Bookkeeping
<1>1. CASE LeaveGate(b)
  <2>1. CASE Outcome(b) = "ok"
    <3>1. /\ answer[b] = "none" /\ pc[b] = "leave" /\ made[b] = want[b]
          /\ lease' = [lease EXCEPT ![b] = @ \cup want[b]]
      BY <1>0, <1>1, <2>1 DEF InOrder, LeaveGate, Outcome
    <3>2. CASE op[b] = "release"
      BY <1>0, <3>1, <3>2 DEF InOrder
    <3>3. CASE op[b] # "release"
      <4>1. PICK W \in Wanted : want[b] = Uncovered(b, W)
        BY <3>1, <3>3 DEF AsksWhole
      <4>2. Ownership!Missing(b, W) = want[b]
        BY <4>1 DEF Ownership!Missing, Uncovered
      <4>3. ASSUME NEW c \in Builds \ {b}, NEW o \in want[b], NEW p \in lease[c]
            PROVE  ~Overlaps(o, p)
        BY <3>1 DEF SureExclusive, Sure, Passed
      <4>4. Ownership!Take(b, W)
        BY <3>1, <4>2, <4>3 DEF Ownership!Take
      <4> QED
        BY <4>4 DEF Ownership!Next
    <3> QED
      BY <3>2, <3>3
  <2>2. CASE Outcome(b) # "ok"
    BY <1>1, <2>2 DEF LeaveGate
  <2> QED
    BY <2>1, <2>2
<1>2. CASE \E o \in Outputs : DropClaim(b, o)
  <2> PICK o \in Outputs : DropClaim(b, o)
    BY <1>2
  <2>1. o \in lease[b] /\ Ownership!Give(b, o)
    BY DEF DropClaim, Ownership!Give
  <2> QED
    BY <2>1 DEF Ownership!Next
<1>3. CASE Die(b)
  BY <1>3 DEF Die, Ownership!Next, Ownership!Lose
<1>4. CASE ~LeaveGate(b) /\ ~(\E o \in Outputs : DropClaim(b, o)) /\ ~Die(b)
  BY <1>4 DEF Acts, Ask, Begin, Extend, Finish, Work, LinkGate, ConfirmGate, LookAtGate,
     ReadGate, JudgeGate, RecheckGate, UnlinkGate, ListClaims, ReadClaim, Decide,
     CreateClaim, FillClaim, UndoClaim, WorkDone, CheckGate, GiveUp, WriteFails, Memory
<1> QED
  BY <1>1, <1>2, <1>3, <1>4

(* Whatever is gone through in the registry, a lease is taken whole, when  *)
(* what it lacks overlaps nobody else's, is given back output by output,   *)
(* or is lost with its process.                                            *)
THEOREM ClaimsArbitrate == Spec => Arbitrates
<1>1. Init => Ownership!Init
  BY DEF Init, Ownership!Init
<1>2. RInv /\ RInv' /\ [Next]_vars => [Ownership!Next]_lease
  BY StepsMap DEF Next, Acts, vars
<1> QED
  BY <1>1, <1>2, RefinementInvariance, PTL DEF Spec, Arbitrates, Ownership!Spec
=============================================================================
