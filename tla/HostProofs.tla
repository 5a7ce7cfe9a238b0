------------------------------ MODULE HostProofs ------------------------------
(***************************************************************************)
(* What holds of the disks, shadow copies and block snapshots a backup     *)
(* reads, whatever the number of disks, runs, processes and clean-ups, and *)
(* whatever fails, dies and is renumbered.                                 *)
(***************************************************************************)
EXTENDS LinuxSnapshot, ShadowCopies, DiskPins, TLAPS, WellFoundedInduction

(***************************************************************************)
(*                             The pinned disks                            *)
(***************************************************************************)

\* Each disk bears one slot, and what is recorded of an entry is a disk or none.
PinTypes ==
  /\ placed \in Placements
  /\ pins \in [Disks -> Slots \cup {None}]
  /\ saved \in [Disks -> Slots \cup {None}]
  /\ read \in [Refs -> Disks \cup {None}]
  /\ meant \in [Refs -> Disks \cup {None}]

\* A pinned disk has an id, and some entry of the selection is the reason: it
\* names the disk, or the slot the disk is pinned to.
PinsHaveReason ==
  \A d \in Disks : pins[d] # None =>
    /\ d \in Known
    /\ \E r \in Refs : Selection[r] = d \/ Selection[r] = pins[d]

\* No slot is pinned to two disks.
PinsDiffer == \A d, e \in Disks : pins[d] = pins[e] /\ pins[d] # None => d = e

\* A disk that an entry stood for is named by it, or pinned to the slot it names.
MeantIsPinned ==
  \A r \in Refs : meant[r] \in Known =>
    Selection[r] = meant[r] \/ pins[meant[r]] = Selection[r]

HandedOnce ==
  \A q, r \in Refs : chosen[q] = chosen[r] /\ chosen[q] # None =>
    q = r \/ (Present \cap Known = {} /\ Selection[q] = Selection[r])

\* Until a pin follows its disk to another slot, or is lost, the pins say of
\* each slot of the selection which disk it stands for.
PinInv ==
  /\ PinTypes
  /\ drifted = {} => PinsHaveReason /\ PinsDiffer /\ MeantIsPinned /\ AsMeant
  /\ HandedOnce

----------------------------------------------------------------------------
(* What a slot holds *)

LEMMA DiskInType ==
  ASSUME NEW slot
  PROVE  DiskIn(slot) \in Disks \cup {None}
BY DEF DiskIn, Present

LEMMA DiskInHolds ==
  ASSUME NEW slot, DiskIn(slot) # None
  PROVE  DiskIn(slot) \in Disks /\ placed[DiskIn(slot)] = slot
BY DEF DiskIn, Present

LEMMA DiskInFinds ==
  ASSUME PinTypes, NEW d \in Disks, placed[d] # None
  PROVE  DiskIn(placed[d]) = d
BY DEF PinTypes, Placements, DiskIn, Present

\* A disk is not a slot, so a slot that was resolved is one.
LEMMA ResolvedIs ==
  ASSUME PinTypes, NEW slots \in Resolutions, NEW r \in Refs
  PROVE  /\ slots[r] \in Slots \cup {None}
         /\ Selection[r] \in Disks => slots[r] = placed[Selection[r]]
         /\ Selection[r] \notin Disks =>
              \/ PinnedTo(Selection[r]) = {} /\ slots[r] = Selection[r]
              \/ \E d \in PinnedTo(Selection[r]) : slots[r] = placed[d]
  <1>1. slots[r] \in Resolve(Selection[r]) /\ slots[r] \in Slots \cup {None}
    BY DEF Resolutions
  <1> QED BY <1>1 DEF Resolve

LEMMA SelectionType ==
  ASSUME NEW r \in Refs
  PROVE  Selection[r] \in Disks \cup Slots /\ r \in Nat
  <1>1. Selection \in Seq(Disks \cup Slots) BY PinsAssumption
  <1> QED BY <1>1 DEF Refs

----------------------------------------------------------------------------
(* A run *)

\* One disk is handed over for each slot, for the first entry that leads there.
LEMMA HandsOnce ==
  ASSUME NEW slots, NEW q \in Refs, NEW r \in Refs,
         Handed(slots)[q] = Handed(slots)[r], Handed(slots)[q] # None
  PROVE  q = r
  <1>1. /\ Handed(slots)[q] = DiskIn(slots[q]) /\ Handed(slots)[r] = DiskIn(slots[r])
        /\ \A i \in Refs : i < q => slots[i] # slots[q]
        /\ \A i \in Refs : i < r => slots[i] # slots[r]
    BY DEF Handed
  <1>2. slots[q] = slots[r] BY <1>1, DiskInHolds
  <1>3. ~(q < r) /\ ~(r < q) BY <1>1, <1>2
  <1> QED BY <1>3, SelectionType

\* The facts of a run that moves no pin.
RunFacts(slots) ==
  /\ slots \in Resolutions /\ None \notin Range(slots)
  /\ Read(slots)
  /\ pins' = NewPins(slots)
  /\ meant' = [r \in Refs |-> IF meant[r] = None THEN DiskIn(slots[r]) ELSE meant[r]]
  /\ placed' = placed
  /\ \A d \in Disks : pins[d] # None => pins'[d] = pins[d]

LEMMA Resolved ==
  ASSUME PinTypes, NEW slots \in Resolutions, None \notin Range(slots), NEW r \in Refs
  PROVE  slots[r] \in Slots /\ slots[r] \in Range(slots)
  <1>1. DOMAIN slots = Refs /\ slots[r] \in Slots \cup {None} BY DEF Resolutions
  <1>2. slots[r] \in Range(slots) BY <1>1 DEF Range
  <1> QED BY <1>1, <1>2

\* A slot that the selection leads to is that of the disk the pins tell.
LEMMA PinnedIsThere ==
  ASSUME PinTypes, PinsDiffer, NEW slots, RunFacts(slots),
         NEW r \in Refs, NEW d \in Known,
         Selection[r] = d \/ pins[d] = Selection[r]
  PROVE  slots[r] = placed[d] /\ placed[d] # None
  <1>1. slots \in Resolutions /\ slots[r] # None
    BY Resolved, PinsAssumption DEF RunFacts
  <1>2. CASE Selection[r] = d
    BY <1>1, <1>2, ResolvedIs DEF Known
  <1>3. CASE pins[d] = Selection[r] /\ Selection[r] \notin Disks
    <2>1. d \in PinnedTo(Selection[r]) BY <1>3 DEF PinnedTo
    <2>2. PICK e \in PinnedTo(Selection[r]) : slots[r] = placed[e]
      BY <1>1, <1>3, <2>1, ResolvedIs
    <2>3. Selection[r] # None BY SelectionType, PinsAssumption
    <2>4. e = d BY <1>3, <2>2, <2>3 DEF PinsDiffer, PinnedTo, Known
    <2> QED BY <1>1, <2>2, <2>4
  <1>4. CASE pins[d] = Selection[r] /\ Selection[r] \in Disks
    <2>1. d \in Disks BY DEF Known
    <2>2. Selection[r] \in Slots \cup {None} BY <1>4, <2>1 DEF PinTypes
    <2> QED BY <1>4, <2>2, PinsAssumption
  <1> QED BY <1>2, <1>3, <1>4

\* What a disk is pinned to by a run, if it was not pinned before.
LEMMA NewPin ==
  ASSUME PinTypes, PinsHaveReason, PinsDiffer, NEW slots, RunFacts(slots),
         NEW d \in Disks, pins[d] = None, pins'[d] # None
  PROVE  /\ d \in Known /\ pins'[d] = placed[d] /\ placed[d] # None
         /\ \E r \in Refs : slots[r] = placed[d] /\ (Selection[r] = d \/ Selection[r] = placed[d])
  <1>1. pins' = NewPins(slots) /\ slots \in Resolutions BY DEF RunFacts
  <1>2. d \in Present \cap Known /\ placed[d] \in Range(slots) /\ pins'[d] = placed[d]
    BY <1>1 DEF NewPins
  <1>3. DOMAIN slots = Refs BY <1>1 DEF Resolutions
  <1>4. PICK r \in Refs : slots[r] = placed[d] BY <1>2, <1>3 DEF Range
  <1>5. d \in Known /\ placed[d] # None BY <1>2 DEF Present
  <1>6. CASE Selection[r] \in Disks
    <2>1. placed[Selection[r]] = placed[d] BY <1>1, <1>4, <1>6, ResolvedIs
    <2>2. Selection[r] = d BY <1>5, <1>6, <2>1 DEF PinTypes, Placements
    <2> QED BY <1>2, <1>4, <1>5, <2>2
  <1>7. CASE Selection[r] \notin Disks /\ PinnedTo(Selection[r]) = {}
    <2>1. slots[r] = Selection[r] BY <1>1, <1>7, ResolvedIs
    <2> QED BY <1>2, <1>4, <1>5, <2>1
  <1>8. CASE Selection[r] \notin Disks /\ PinnedTo(Selection[r]) # {}
    <2>1. PICK e \in PinnedTo(Selection[r]) : slots[r] = placed[e]
      BY <1>1, <1>8, ResolvedIs
    <2>2. e = d BY <1>4, <1>5, <2>1 DEF PinTypes, Placements, PinnedTo, Known
    <2>3. pins[d] = Selection[r] BY <2>1, <2>2 DEF PinnedTo
    <2>4. Selection[r] # None BY SelectionType, PinsAssumption
    <2> QED BY <2>3, <2>4
  <1> QED BY <1>6, <1>7, <1>8

LEMMA RunKeepsReasons ==
  ASSUME PinTypes, PinsHaveReason, PinsDiffer, NEW slots, RunFacts(slots)
  PROVE  PinsHaveReason'
  <1> SUFFICES ASSUME NEW d \in Disks, pins'[d] # None
               PROVE  /\ d \in Known
                      /\ \E r \in Refs : Selection[r] = d \/ Selection[r] = pins'[d]
    BY DEF PinsHaveReason, Known, Refs
  <1>1. CASE pins[d] # None
    <2>1. pins'[d] = pins[d] BY <1>1 DEF RunFacts
    <2> QED BY <1>1, <2>1 DEF PinsHaveReason
  <1>2. CASE pins[d] = None
    BY <1>2, NewPin
  <1> QED BY <1>1, <1>2

LEMMA RunKeepsDifference ==
  ASSUME PinTypes, PinsHaveReason, PinsDiffer, NEW slots, RunFacts(slots)
  PROVE  PinsDiffer'
  <1> SUFFICES ASSUME NEW d \in Disks, NEW e \in Disks, pins'[d] = pins'[e], pins'[d] # None
               PROVE  d = e
    BY DEF PinsDiffer
  \* A disk that was pinned before is where its pin says, and an entry leads there.
  <1>1. ASSUME NEW f \in Disks, pins[f] # None
        PROVE  placed[f] = pins'[f]
    <2>1. PICK r \in Refs : f \in Known /\ (Selection[r] = f \/ pins[f] = Selection[r])
      BY <1>1 DEF PinsHaveReason
    <2>2. slots[r] = placed[f] /\ placed[f] # None BY <2>1, PinnedIsThere
    <2>3. placed[f] \in Range(slots) /\ f \in Present \cap Known
      BY <2>1, <2>2, Resolved DEF RunFacts, Present
    <2> QED BY <2>3 DEF RunFacts, NewPins
  <1>2. ASSUME NEW f \in Disks, pins[f] = None, pins'[f] # None
        PROVE  placed[f] = pins'[f]
    BY <1>2, NewPin
  <1>3. placed[d] = pins'[d] /\ placed[e] = pins'[e] BY <1>1, <1>2
  <1> QED BY <1>3 DEF PinTypes, Placements

LEMMA RunKeepsMeaning ==
  ASSUME PinTypes, PinsHaveReason, PinsDiffer, MeantIsPinned, NEW slots, RunFacts(slots)
  PROVE  MeantIsPinned' /\ AsMeant'
  <1> SUFFICES ASSUME NEW r \in Refs, meant'[r] \in Known
               PROVE  /\ Selection[r] = meant'[r] \/ pins'[meant'[r]] = Selection[r]
                      /\ read'[r] = meant'[r]
    BY DEF MeantIsPinned, AsMeant, Known, Refs
  <1>1. read'[r] = DiskIn(slots[r]) BY DEF RunFacts, Read
  <1>2. meant'[r] = IF meant[r] = None THEN DiskIn(slots[r]) ELSE meant[r]
    BY DEF RunFacts
  <1>3. CASE meant[r] # None
    <2> DEFINE d == meant[r]
    <2>1. d \in Known /\ d \in Disks /\ meant'[r] = d BY <1>2, <1>3 DEF Known
    <2>2. Selection[r] = d \/ pins[d] = Selection[r] BY <2>1 DEF MeantIsPinned
    <2> HIDE DEF d
    <2>3. slots[r] = placed[d] /\ placed[d] # None BY <2>1, <2>2, PinnedIsThere
    <2>4. DiskIn(slots[r]) = d BY <2>1, <2>3, DiskInFinds
    <2>5. Selection[r] # None BY SelectionType, PinsAssumption
    <2>6. Selection[r] = d \/ pins'[d] = Selection[r]
      BY <2>1, <2>2, <2>5 DEF RunFacts
    <2> QED BY <1>1, <2>1, <2>4, <2>6
  <1>4. CASE meant[r] = None
    <2> DEFINE d == DiskIn(slots[r])
    <2>1. meant'[r] = d /\ read'[r] = d /\ d \in Known /\ d \in Disks
      BY <1>1, <1>2, <1>4 DEF Known
    <2>2. d # None BY <2>1, PinsAssumption
    <2>3. placed[d] = slots[r] BY <2>2, DiskInHolds
    <2> HIDE DEF d
    <2>4. slots \in Resolutions /\ None \notin Range(slots) BY DEF RunFacts
    <2>5. slots[r] \in Slots /\ slots[r] \in Range(slots) BY <2>4, Resolved
    <2>6. placed[d] # None BY <2>3, <2>5, PinsAssumption
    <2>7. pins'[d] = placed[d]
      BY <2>1, <2>3, <2>5, <2>6 DEF RunFacts, NewPins, Present
    <2>8. Selection[r] = d \/ pins'[d] = Selection[r]
      <3>1. CASE Selection[r] \in Disks
        <4>1. placed[Selection[r]] = placed[d] BY <2>3, <2>4, <3>1, ResolvedIs
        <4> QED BY <2>1, <2>6, <3>1, <4>1 DEF PinTypes, Placements
      <3>2. CASE Selection[r] \notin Disks /\ PinnedTo(Selection[r]) = {}
        BY <2>3, <2>4, <2>7, <3>2, ResolvedIs
      <3>3. CASE Selection[r] \notin Disks /\ PinnedTo(Selection[r]) # {}
        <4>1. PICK e \in PinnedTo(Selection[r]) : slots[r] = placed[e]
          BY <2>4, <3>3, ResolvedIs
        <4>2. e = d BY <2>1, <2>3, <2>6, <4>1 DEF PinTypes, Placements, PinnedTo, Known
        <4>3. pins[d] = Selection[r] BY <4>1, <4>2 DEF PinnedTo
        <4>4. Selection[r] # None BY SelectionType, PinsAssumption
        <4> QED BY <2>1, <4>3, <4>4 DEF RunFacts
      <3> QED BY <3>1, <3>2, <3>3
    <2> QED BY <2>1, <2>8
  <1> QED BY <1>3, <1>4

LEMMA RunTypes ==
  ASSUME PinTypes, Run
  PROVE  PinTypes'
  <1>1. PICK slots \in Resolutions : Run!2!(slots) BY DEF Run
  <1>2. \A r \in Refs : DiskIn(slots[r]) \in Disks \cup {None} BY DiskInType
  <1>3. read' \in [Refs -> Disks \cup {None}] BY <1>1, <1>2 DEF Read
  <1>4. meant' \in [Refs -> Disks \cup {None}] BY <1>1, <1>2 DEF PinTypes
  <1>5. pins' \in [Disks -> Slots \cup {None}]
    <2>1. \A d \in Disks : placed[d] \in Slots \cup {None} BY DEF PinTypes, Placements
    <2> QED BY <1>1, <2>1 DEF PinTypes, NewPins
  <1>6. saved' \in {saved, pins'} BY DEF Run
  <1>7. placed' = placed BY DEF Run
  <1>8. saved' \in [Disks -> Slots \cup {None}] BY <1>5, <1>6 DEF PinTypes
  <1>9. placed' \in Placements BY <1>7 DEF PinTypes
  <1> QED BY <1>3, <1>4, <1>5, <1>8, <1>9 DEF PinTypes, Placements, Refs

----------------------------------------------------------------------------
(* The inductive invariant *)

LEMMA PinStart ==
  ASSUME PinsInit
  PROVE  PinInv
  <1>1. PinTypes BY DEF PinsInit, PinTypes, NoDisks
  <1>2. PinsHaveReason /\ PinsDiffer BY DEF PinsInit, PinsHaveReason, PinsDiffer
  <1>3. \A r \in Refs : meant[r] = None /\ chosen[r] = None BY DEF PinsInit, NoDisks
  <1>4. None \notin Known BY PinsAssumption DEF Known
  <1>5. MeantIsPinned /\ AsMeant /\ HandedOnce
    BY <1>3, <1>4 DEF MeantIsPinned, AsMeant, HandedOnce
  <1> QED BY <1>1, <1>2, <1>5 DEF PinInv

\* A step that runs nothing reads nothing, and keeps what the pins say.
LEMMA Unread ==
  ASSUME PinInv, PinTypes', chosen' = NoDisks, read' = NoDisks,
         drifted' = {} => drifted = {} /\ pins' = pins, meant' = meant
  PROVE  PinInv'
  <1>1. \A r \in Refs : chosen'[r] = None /\ read'[r] = None BY DEF NoDisks
  <1>2. HandedOnce' BY <1>1 DEF HandedOnce, Refs
  <1>3. ASSUME drifted' = {} PROVE (PinsHaveReason /\ PinsDiffer /\ MeantIsPinned /\ AsMeant)'
    <2>1. PinsHaveReason /\ PinsDiffer /\ MeantIsPinned /\ pins' = pins /\ meant' = meant
      BY <1>3 DEF PinInv
    <2>2. PinsHaveReason' /\ PinsDiffer' /\ MeantIsPinned'
      BY <2>1 DEF PinsHaveReason, PinsDiffer, MeantIsPinned, Known, Refs
    <2>3. AsMeant' BY <1>1 DEF AsMeant, Refs
    <2> QED BY <2>2, <2>3
  <1> QED BY <1>2, <1>3 DEF PinInv

LEMMA PinStep ==
  ASSUME PinInv, [PinsNext]_pinVars
  PROVE  PinInv'
  <1>1. CASE Run
    <2>1. PinTypes' BY <1>1, RunTypes DEF PinInv
    <2>2. PICK slots \in Resolutions : Run!2!(slots) BY <1>1 DEF Run
    <2>3. HandedOnce'
      <3>1. chosen' = Handed(slots) BY <2>2 DEF Read
      <3> QED BY <3>1, HandsOnce DEF HandedOnce, Refs
    <2>4. ASSUME drifted' = {}
          PROVE  (PinsHaveReason /\ PinsDiffer /\ MeantIsPinned /\ AsMeant)'
      <3>1. drifted' = drifted \cup {"moved" : d \in {d \in Disks : pins[d] \notin {None, pins'[d]}}}
        BY <2>2
      <3>2. drifted = {} /\ \A d \in Disks : pins[d] # None => pins'[d] = pins[d]
        BY <2>4, <3>1
      <3>3. placed' = placed BY <1>1 DEF Run
      <3>4. RunFacts(slots) BY <2>2, <3>2, <3>3 DEF RunFacts
      <3>5. PinTypes /\ PinsHaveReason /\ PinsDiffer /\ MeantIsPinned BY <3>2 DEF PinInv
      <3> QED BY <3>4, <3>5, RunKeepsReasons, RunKeepsDifference, RunKeepsMeaning
    <2> QED BY <2>1, <2>3, <2>4 DEF PinInv
  <1>2. CASE Refuse
    <2>1. PinTypes' BY <1>2 DEF Refuse, PinInv, PinTypes, Placements, Refs, NoDisks
    <2> QED BY <1>2, <2>1, Unread DEF Refuse
  <1>3. CASE RunUnresolved
    <2>1. PinTypes' BY <1>3 DEF RunUnresolved, PinInv, PinTypes, Placements, Refs, NoDisks
    <2>2. ASSUME NEW q \in Refs, NEW r \in Refs, chosen'[q] = chosen'[r], chosen'[q] # None
          PROVE  Selection[q] = Selection[r]
      <3>1. /\ chosen'[q] = DiskIn(Selection[q])
            /\ chosen'[r] = DiskIn(Selection[r])
        BY <1>3 DEF RunUnresolved
      <3> QED BY <2>2, <3>1, DiskInHolds
    <2>3. HandedOnce' BY <1>3, <2>2 DEF RunUnresolved, HandedOnce, Refs, Present, Known
    <2>4. ASSUME drifted' = {}
          PROVE  (PinsHaveReason /\ PinsDiffer /\ MeantIsPinned /\ AsMeant)'
      <3>1. PinsHaveReason /\ PinsDiffer /\ MeantIsPinned /\ pins' = pins /\ meant' = meant
        BY <1>3, <2>4 DEF PinInv, RunUnresolved
      <3>2. PinsHaveReason' /\ PinsDiffer' /\ MeantIsPinned'
        BY <3>1 DEF PinsHaveReason, PinsDiffer, MeantIsPinned, Known, Refs
      <3>3. AsMeant' BY <1>3 DEF AsMeant, Refs, RunUnresolved, NoDisks
      <3> QED BY <3>2, <3>3
    <2> QED BY <2>1, <2>3, <2>4 DEF PinInv
  <1>4. CASE Restart
    <2>1. PinTypes' BY <1>4 DEF Restart, PinInv, PinTypes, Placements, Refs, NoDisks
    <2>2. drifted' = {} => drifted = {} /\ pins' = pins BY <1>4 DEF Restart
    <2> QED BY <1>4, <2>1, <2>2, Unread DEF Restart
  <1>5. CASE Renumber
    <2>1. PinTypes' BY <1>5 DEF Renumber, PinInv, PinTypes, Placements, Refs, NoDisks
    <2> QED BY <1>5, <2>1, Unread DEF Renumber
  <1>6. CASE UNCHANGED pinVars
    BY <1>6 DEF pinVars, PinInv, PinTypes, PinsHaveReason, PinsDiffer, MeantIsPinned, AsMeant,
                HandedOnce, Placements, Refs, Known, Present
  <1> QED BY <1>1, <1>2, <1>3, <1>4, <1>5, <1>6 DEF PinsNext

\* diskpin.go, diskpin_app.go: a saved selection stands for the disks it first
\* stood for until a pin follows its disk to another slot or is lost, and no
\* disk is handed to a run twice, for any disks, slots, selection, renumbering,
\* failing saves and restarts.
THEOREM PinsHold == PinsSpec => []SameDiskUntilRepinned
  <1>1. PinsInit => PinInv BY PinStart
  <1>2. PinInv /\ [PinsNext]_pinVars => PinInv' BY PinStep
  <1>3. PinInv => SameDiskUntilRepinned BY DEF PinInv, SameDiskUntilRepinned, HandedOnce
  <1> QED BY <1>1, <1>2, <1>3, PTL DEF PinsSpec

(***************************************************************************)
(*                            The shadow copies                            *)
(***************************************************************************)

RunLabels == {"path", "creating", "lease", "directory", "remove", "link", "reading",
              "release", "delete", "done", "dead"}
CleanerLabels == {"idle", "next", "stat", "lease", "delete", "drop", "done"}

RunRecords == [pc : RunLabels, at : Nat \ {0}, tries : Nat, created : SUBSET Ids]
CleanerRecords == [pc : CleanerLabels, todo : SUBSET Ids, at : Ids \cup {Nobody},
                   orphans : SUBSET Ids, refused : SUBSET Ids]

ShadowTypes ==
  /\ shadows \subseteq Ids
  /\ marker \in [Ids -> {"none", "directory", "link"}]
  /\ lease \in [Ids -> {"none", "held", "left"}]
  /\ shadowRun \in [ShadowRuns -> RunRecords]
  /\ cleaner \in [Cleaners -> CleanerRecords]

\* A run makes one copy at a time; it knows the copies it made, and the one it is
\* at is there when it asks for the lease.
KnowsItsCopies(r) ==
  /\ \A id \in shadowRun[r].created : Owner(id) = r
  /\ shadowRun[r].pc \in {"creating", "lease", "directory", "remove", "link"} => More(r)
  /\ shadowRun[r].pc = "creating" => Id(r) \notin shadowRun[r].created
  /\ shadowRun[r].pc \in {"lease", "directory", "remove", "link"} =>
       Id(r) \in shadowRun[r].created
  /\ shadowRun[r].pc = "lease" => Id(r) \in shadows

RunsInv == \A r \in ShadowRuns : KnowsItsCopies(r)

Late == {"reading", "release", "delete", "done", "dead"}

\* The run has asked for the lease of that copy, if it ever will.
Past(id) ==
  \/ shadowRun[Owner(id)].pc \in Late
  \/ /\ id \in shadowRun[Owner(id)].created
     /\ shadowRun[Owner(id)].pc = "lease" => Id(Owner(id)) # id

\* The clean-up has read that marker, and will look at it or does.
LooksAt(c, id) ==
  \/ id \in cleaner[c].todo
  \/ Entry(c) = id /\ cleaner[c].pc \in {"stat", "lease", "delete", "drop"}

\* A marker is made after the lease was asked for, so a clean-up, which goes by the
\* markers, deletes no copy whose lease is still to come.
MarkersInv ==
  /\ \A id \in Ids : marker[id] # "none" => Past(id)
  /\ \A c \in Cleaners :
       /\ \A id \in Ids : LooksAt(c, id) => Past(id)
       /\ cleaner[c].pc \in {"stat", "lease", "delete", "drop"} => Entry(c) \in Ids
       /\ cleaner[c].pc = "delete" => lease[Entry(c)] # "held"

\* A lease that is held ends with its run, and stands for a copy until the run
\* gives its copies up.
LeaseStands(id) ==
  lease[id] = "held" =>
    /\ shadowRun[Owner(id)].pc \notin {"done", "dead"}
    /\ shadowRun[Owner(id)].pc # "delete" => id \in shadows

LeasesInv == \A id \in Ids : LeaseStands(id)

\* A copy a clean-up answers for keeps its marker, which no other clean-up has
\* doomed, and is still to be looked at, or was refused.
Answered(c, id) ==
  /\ marker[id] # "none" /\ ~Doomed(id)
  /\ \/ id \in cleaner[c].todo \cup cleaner[c].refused
     \/ Entry(c) = id /\ cleaner[c].pc \in {"stat", "lease", "delete"}

OrphansInv ==
  \A c \in Cleaners :
    /\ \A id \in cleaner[c].orphans :
         /\ shadowRun[Owner(id)].pc = "dead"
         /\ id \in shadows => Answered(c, id)
    /\ cleaner[c].pc = "done" => cleaner[c].todo = {}

ShadowInv == ShadowTypes /\ RunsInv /\ MarkersInv /\ LeasesInv /\ OrphansInv

----------------------------------------------------------------------------
(* Steps of a run *)

LEMMA OwnerType ==
  ASSUME NEW id \in Ids
  PROVE  Owner(id) \in ShadowRuns
BY DEF Ids, Owner

LEMMA IdType ==
  ASSUME ShadowTypes, NEW r \in ShadowRuns
  PROVE  /\ Owner(Id(r)) = r
         /\ More(r) => Id(r) \in Ids
  <1>1. Owner(Id(r)) = r BY DEF Id, Owner
  <1>2. ASSUME More(r) PROVE Id(r) \in Ids
    <2>1. Volumes[r] \in Seq(Range(Volumes[r])) BY ShadowAssumption
    <2>2. shadowRun[r].at \in Nat \ {0} BY DEF ShadowTypes, RunRecords
    <2>3. shadowRun[r].at \in DOMAIN Volumes[r] BY <1>2, <2>1, <2>2 DEF More
    <2>4. Volumes[r][shadowRun[r].at] \in Range(Volumes[r]) BY <2>3 DEF Range
    <2> QED BY <2>4 DEF Id, Ids
  <1> QED BY <1>1, <1>2

\* What a step of run r leaves alone.
Apart(r) ==
  /\ cleaner' = cleaner
  /\ \A q \in ShadowRuns : q # r => shadowRun'[q] = shadowRun[q]
  /\ \A id \in Ids : Owner(id) # r =>
       /\ marker'[id] = marker[id] /\ lease'[id] = lease[id]
       /\ id \in shadows' <=> id \in shadows

\* What it may do to its own copies, markers and leases.
OwnSteps(r) ==
  \A id \in Ids : Owner(id) = r =>
    /\ Past(id) => Past(id)'
    /\ marker'[id] # "none" => marker[id] # "none" \/ Past(id)
    /\ lease'[id] = "held" => lease[id] = "held" \/ ~Past(id)
    /\ LeaseStands(id)'

LEMMA RunMoves ==
  ASSUME ShadowInv, ShadowTypes', NEW r \in ShadowRuns, shadowRun[r].pc # "dead",
         Apart(r), OwnSteps(r), KnowsItsCopies(r)'
  PROVE  ShadowInv'
  <1>1. ASSUME NEW id \in Ids, Past(id) PROVE Past(id)'
    <2>1. CASE Owner(id) = r BY <1>1, <2>1 DEF OwnSteps
    <2>2. CASE Owner(id) # r
      <3>1. shadowRun'[Owner(id)] = shadowRun[Owner(id)] BY <2>2, OwnerType DEF Apart
      <3> QED BY <1>1, <3>1 DEF Past, Id
    <2> QED BY <2>1, <2>2
  <1>2. RunsInv'
    <2> SUFFICES ASSUME NEW q \in ShadowRuns, q # r PROVE KnowsItsCopies(q)'
      BY DEF RunsInv
    <2>1. shadowRun'[q] = shadowRun[q] BY DEF Apart
    <2>2. KnowsItsCopies(q) BY DEF ShadowInv, RunsInv
    <2>3. shadowRun[q].pc = "lease" => Id(q) \in shadows'
      <3>1. shadowRun[q].pc = "lease" => Id(q) \in Ids /\ Owner(Id(q)) = q /\ Id(q) \in shadows
        BY <2>2, IdType DEF ShadowInv, KnowsItsCopies
      <3> QED BY <3>1 DEF Apart
    <2> QED BY <2>1, <2>2, <2>3 DEF KnowsItsCopies, Id, More
  <1>3. MarkersInv'
    <2>1. ASSUME NEW id \in Ids, marker'[id] # "none" PROVE Past(id)'
      <3>1. marker[id] # "none" \/ Past(id) BY <2>1 DEF Apart, OwnSteps
      <3>2. Past(id) BY <3>1 DEF ShadowInv, MarkersInv
      <3> QED BY <1>1, <3>2
    <2>2. cleaner' = cleaner BY DEF Apart
    <2>3. ASSUME NEW c \in Cleaners, NEW id \in Ids, LooksAt(c, id)' PROVE Past(id)'
      <3>1. LooksAt(c, id) BY <2>2, <2>3 DEF LooksAt, Entry
      <3> QED BY <1>1, <3>1 DEF ShadowInv, MarkersInv
    <2>4. ASSUME NEW c \in Cleaners, cleaner[c].pc = "delete"
          PROVE  lease'[Entry(c)] # "held"
      <3>1. Entry(c) \in Ids /\ lease[Entry(c)] # "held"
        BY <2>4 DEF ShadowInv, MarkersInv
      <3>2. Past(Entry(c)) BY <2>4, <3>1 DEF ShadowInv, MarkersInv, LooksAt
      <3> QED BY <3>1, <3>2 DEF Apart, OwnSteps
    <2> QED BY <2>1, <2>2, <2>3, <2>4 DEF MarkersInv, Entry, ShadowInv
  <1>4. LeasesInv'
    <2> SUFFICES ASSUME NEW id \in Ids PROVE LeaseStands(id)' BY DEF LeasesInv
    <2>1. CASE Owner(id) = r BY <2>1 DEF OwnSteps
    <2>2. CASE Owner(id) # r
      <3>1. shadowRun'[Owner(id)] = shadowRun[Owner(id)] BY <2>2, OwnerType DEF Apart
      <3>2. LeaseStands(id) BY DEF ShadowInv, LeasesInv
      <3> QED BY <2>2, <3>1, <3>2 DEF LeaseStands, Apart
    <2> QED BY <2>1, <2>2
  <1>5. OrphansInv'
    <2> SUFFICES ASSUME NEW c \in Cleaners
                 PROVE  /\ \A id \in cleaner'[c].orphans :
                             /\ shadowRun'[Owner(id)].pc = "dead"
                             /\ id \in shadows' => Answered(c, id)'
                        /\ cleaner'[c].pc = "done" => cleaner'[c].todo = {}
      BY DEF OrphansInv
    <2>1. cleaner' = cleaner BY DEF Apart
    <2>2. ASSUME NEW id \in cleaner[c].orphans
          PROVE  shadowRun'[Owner(id)].pc = "dead" /\ (id \in shadows' => Answered(c, id)')
      <3>1. id \in Ids BY DEF ShadowInv, ShadowTypes, CleanerRecords
      <3>2. shadowRun[Owner(id)].pc = "dead" /\ (id \in shadows => Answered(c, id))
        BY DEF ShadowInv, OrphansInv
      <3>3. Owner(id) # r BY <3>2
      <3>4. shadowRun'[Owner(id)].pc = "dead" BY <3>1, <3>2, <3>3, OwnerType DEF Apart
      <3>5. marker'[id] = marker[id] /\ (id \in shadows' <=> id \in shadows)
        BY <3>1, <3>3 DEF Apart
      <3> QED BY <2>1, <3>2, <3>4, <3>5 DEF Answered, Doomed, CleanerAt, Entry
    <2> QED BY <2>1, <2>2 DEF ShadowInv, OrphansInv
  <1> QED BY <1>2, <1>3, <1>4, <1>5 DEF ShadowInv

LEMMA ShareVolumeStep ==
  ASSUME ShadowInv, NEW r \in ShadowRuns, ShareVolume(r)
  PROVE  ShadowInv'
  <1> USE DEF ShareVolume, RunAt, hostVars
  <1>1. ShadowTypes' BY DEF ShadowInv, ShadowTypes, RunRecords
  <1>2. Apart(r) BY DEF Apart
  <1>3. shadowRun'[r] = [shadowRun[r] EXCEPT !.at = @ + 1] BY DEF ShadowInv, ShadowTypes
  <1>4. shadowRun'[r].pc = "path" /\ shadowRun'[r].created = shadowRun[r].created
    BY <1>3 DEF ShadowInv, ShadowTypes, RunRecords
  <1>5. KnowsItsCopies(r)' BY <1>4 DEF ShadowInv, RunsInv, KnowsItsCopies
  <1>6. OwnSteps(r) BY <1>4 DEF OwnSteps, Past, Late, LeaseStands, ShadowInv, LeasesInv
  <1> QED BY <1>1, <1>2, <1>5, <1>6, RunMoves

LEMMA CreateSnapshotStep ==
  ASSUME ShadowInv, NEW r \in ShadowRuns, CreateSnapshot(r)
  PROVE  ShadowInv'
  <1> USE DEF CreateSnapshot, RunAt, RunTo
  <1>1. ShadowTypes' BY DEF ShadowInv, ShadowTypes, RunRecords, RunLabels
  <1>2. Apart(r) BY DEF Apart, ShadowInv, ShadowTypes
  <1>3. /\ shadowRun'[r].pc \in {"path", "creating", "release"}
        /\ shadowRun'[r].created = shadowRun[r].created
        /\ shadowRun'[r].at = shadowRun[r].at
    BY DEF ShadowInv, ShadowTypes, RunRecords
  <1>4. KnowsItsCopies(r)' BY <1>3 DEF ShadowInv, RunsInv, KnowsItsCopies, More, Id
  <1>5. OwnSteps(r) BY <1>3 DEF OwnSteps, Past, Late, LeaseStands, ShadowInv, LeasesInv
  <1> QED BY <1>1, <1>2, <1>4, <1>5, RunMoves

LEMMA SnapshotCreatedStep ==
  ASSUME ShadowInv, NEW r \in ShadowRuns, SnapshotCreated(r)
  PROVE  ShadowInv'
  <1> USE DEF SnapshotCreated, RunAt, RunTo, ShadowFault
  <1>1. More(r) /\ Id(r) \in Ids /\ Owner(Id(r)) = r /\ Id(r) \notin shadowRun[r].created
    BY IdType DEF ShadowInv, RunsInv, KnowsItsCopies
  <1>2. ShadowTypes' BY <1>1 DEF ShadowInv, ShadowTypes, RunRecords, RunLabels
  <1>3. Apart(r) BY <1>1 DEF Apart, ShadowInv, ShadowTypes
  <1>4. CASE shadows' = shadows \cup {Id(r)} /\ shadowRun' = [shadowRun EXCEPT ![r].pc = "lease",
                 ![r].tries = 0, ![r].created = @ \cup {Id(r)}]
    <2>1. /\ shadowRun'[r].pc = "lease" /\ shadowRun'[r].at = shadowRun[r].at
          /\ shadowRun'[r].created = shadowRun[r].created \cup {Id(r)}
      BY <1>4 DEF ShadowInv, ShadowTypes, RunRecords
    <2>2. Id(r)' = Id(r) /\ More(r)' BY <1>1, <2>1 DEF Id, More
    <2>3. KnowsItsCopies(r)'
      BY <1>1, <1>4, <2>1, <2>2 DEF ShadowInv, RunsInv, KnowsItsCopies
    <2>4. ASSUME NEW id \in Ids, Owner(id) = r, Past(id) PROVE Past(id)'
      <3>1. id \in shadowRun[r].created /\ id # Id(r) BY <1>1, <2>4 DEF Past, Late
      <3> QED BY <2>1, <2>2, <2>4, <3>1 DEF Past
    <2>5. OwnSteps(r)
      BY <1>4, <2>1, <2>4 DEF OwnSteps, LeaseStands, ShadowInv, LeasesInv
    <2> QED BY <1>2, <1>3, <2>3, <2>5, RunMoves
  <1>5. CASE shadowRun' = [shadowRun EXCEPT ![r].pc = "release"] /\ shadows' = shadows
    <2>1. shadowRun'[r].pc = "release" /\ shadowRun'[r].created = shadowRun[r].created
      BY <1>5 DEF ShadowInv, ShadowTypes, RunRecords
    <2>2. KnowsItsCopies(r)' BY <2>1 DEF ShadowInv, RunsInv, KnowsItsCopies
    <2>3. OwnSteps(r)
      BY <1>5, <2>1 DEF OwnSteps, Past, Late, LeaseStands, ShadowInv, LeasesInv
    <2> QED BY <1>2, <1>3, <2>2, <2>3, RunMoves
  <1> QED BY <1>4, <1>5

LEMMA HoldShadowLeaseStep ==
  ASSUME ShadowInv, NEW r \in ShadowRuns, HoldShadowLease(r)
  PROVE  ShadowInv'
  <1> USE DEF HoldShadowLease, RunAt, RunTo, ShadowFault
  <1>1. More(r) /\ Id(r) \in Ids /\ Owner(Id(r)) = r /\ Id(r) \in shadowRun[r].created
        /\ Id(r) \in shadows
    BY IdType DEF ShadowInv, RunsInv, KnowsItsCopies
  <1>2. ShadowTypes' BY <1>1 DEF ShadowInv, ShadowTypes, RunRecords, RunLabels
  <1>3. lease' \in {lease, [lease EXCEPT ![Id(r)] = "held"]} OBVIOUS
  <1>4. \A id \in Ids : lease'[id] = lease[id] \/ (id = Id(r) /\ lease'[id] = "held")
    BY <1>1, <1>3 DEF ShadowInv, ShadowTypes
  <1>5. Apart(r) BY <1>1, <1>4 DEF Apart
  <1>6. /\ shadowRun'[r].pc = "directory" /\ shadowRun'[r].at = shadowRun[r].at
        /\ shadowRun'[r].created = shadowRun[r].created
    BY DEF ShadowInv, ShadowTypes, RunRecords
  <1>7. KnowsItsCopies(r)' BY <1>1, <1>6 DEF ShadowInv, RunsInv, KnowsItsCopies, More, Id
  <1>8. ~Past(Id(r)) BY <1>1 DEF Past, Late
  <1>9. OwnSteps(r)
    BY <1>1, <1>4, <1>6, <1>8 DEF OwnSteps, Past, Late, LeaseStands, ShadowInv, LeasesInv
  <1> QED BY <1>2, <1>5, <1>7, <1>9, RunMoves

\* The marker of the copy the run is at is made once its lease was asked for.
LEMMA MarkerSteps ==
  ASSUME ShadowInv, NEW r \in ShadowRuns,
         MakeMarkerDirectory(r) \/ RemoveMarkerDirectory(r) \/ LinkMarker(r)
  PROVE  ShadowInv'
  <1> USE DEF MakeMarkerDirectory, RemoveMarkerDirectory, LinkMarker, RunAt, RunTo, ShadowFault
  <1>1. More(r) /\ Id(r) \in Ids /\ Owner(Id(r)) = r /\ Id(r) \in shadowRun[r].created
    BY IdType DEF ShadowInv, RunsInv, KnowsItsCopies
  <1>2. shadowRun[r].pc \in {"directory", "remove", "link"} OBVIOUS
  <1>3. marker' \in {marker, [marker EXCEPT ![Id(r)] = "directory"],
                     [marker EXCEPT ![Id(r)] = "none"], [marker EXCEPT ![Id(r)] = "link"]}
    OBVIOUS
  <1>4. shadowRun' \in {[shadowRun EXCEPT ![r].pc = "remove"], [shadowRun EXCEPT ![r].pc = "link"],
                        [shadowRun EXCEPT ![r].pc = "release"],
                        [shadowRun EXCEPT ![r].pc = "path", ![r].at = @ + 1]}
    OBVIOUS
  <1>5. ShadowTypes'
    <2>1. marker' \in [Ids -> {"none", "directory", "link"}]
      BY <1>1, <1>3 DEF ShadowInv, ShadowTypes
    <2>2. shadowRun' \in [ShadowRuns -> RunRecords]
      BY <1>4 DEF ShadowInv, ShadowTypes, RunRecords, RunLabels
    <2> QED BY <2>1, <2>2 DEF ShadowInv, ShadowTypes
  <1>6. \A id \in Ids : id # Id(r) => marker'[id] = marker[id]
    BY <1>3 DEF ShadowInv, ShadowTypes
  <1>7. \A q \in ShadowRuns : q # r => shadowRun'[q] = shadowRun[q]
    BY <1>4 DEF ShadowInv, ShadowTypes
  <1>8. Apart(r) BY <1>1, <1>6, <1>7 DEF Apart
  <1>9. /\ shadowRun'[r].pc \in {"remove", "link", "release", "path"}
        /\ shadowRun'[r].pc \in {"remove", "link"} => shadowRun'[r].at = shadowRun[r].at
        /\ shadowRun'[r].created = shadowRun[r].created
    BY <1>4 DEF ShadowInv, ShadowTypes, RunRecords
  <1>10. KnowsItsCopies(r)' BY <1>1, <1>9 DEF ShadowInv, RunsInv, KnowsItsCopies, More, Id
  <1>11. Past(Id(r)) BY <1>1, <1>2 DEF Past
  <1>12. ASSUME NEW id \in Ids, Owner(id) = r
         PROVE  /\ Past(id) => Past(id)'
                /\ marker'[id] # "none" => marker[id] # "none" \/ Past(id)
                /\ LeaseStands(id)'
    <2>1. Past(id) => Past(id)' BY <1>2, <1>9, <1>12 DEF Past, Late
    <2>2. marker'[id] # "none" => marker[id] # "none" \/ Past(id) BY <1>6, <1>11
    <2>3. LeaseStands(id)' BY <1>2, <1>9, <1>12 DEF ShadowInv, LeasesInv, LeaseStands
    <2> QED BY <2>1, <2>2, <2>3
  <1>13. OwnSteps(r) BY <1>12 DEF OwnSteps
  <1> QED BY <1>2, <1>5, <1>8, <1>10, <1>13, RunMoves

LEMMA CallBackStep ==
  ASSUME ShadowInv, NEW r \in ShadowRuns, CallBackWithCopies(r)
  PROVE  ShadowInv'
  <1> USE DEF CallBackWithCopies, RunAt, RunTo, hostVars
  <1>1. ShadowTypes' BY DEF ShadowInv, ShadowTypes, RunRecords, RunLabels
  <1>2. Apart(r) BY DEF Apart
  <1>3. shadowRun'[r].pc = "reading" /\ shadowRun'[r].created = shadowRun[r].created
    BY DEF ShadowInv, ShadowTypes, RunRecords
  <1>4. KnowsItsCopies(r)' BY <1>3 DEF ShadowInv, RunsInv, KnowsItsCopies
  <1>5. OwnSteps(r) BY <1>3 DEF OwnSteps, Past, Late, LeaseStands, ShadowInv, LeasesInv
  <1> QED BY <1>1, <1>2, <1>4, <1>5, RunMoves

LEMMA ReleaseSnapshottersStep ==
  ASSUME ShadowInv, NEW r \in ShadowRuns, ReleaseSnapshotters(r)
  PROVE  ShadowInv'
  <1> USE DEF ReleaseSnapshotters, RunAt, RunTo
  <1>1. PICK gone \in SUBSET (shadows \cap shadowRun[r].created) : shadows' = shadows \ gone
    OBVIOUS
  <1>2. ShadowTypes' BY <1>1 DEF ShadowInv, ShadowTypes, RunRecords, RunLabels
  <1>3. \A id \in gone : Owner(id) = r BY DEF ShadowInv, RunsInv, KnowsItsCopies
  <1>4. Apart(r) BY <1>1, <1>3 DEF Apart
  <1>5. shadowRun'[r].pc = "delete" /\ shadowRun'[r].created = shadowRun[r].created
    BY DEF ShadowInv, ShadowTypes, RunRecords
  <1>6. KnowsItsCopies(r)' BY <1>5 DEF ShadowInv, RunsInv, KnowsItsCopies
  <1>7. OwnSteps(r) BY <1>5 DEF OwnSteps, Past, Late, LeaseStands, ShadowInv, LeasesInv
  <1> QED BY <1>2, <1>4, <1>6, <1>7, RunMoves

LEMMA DeleteShadowStep ==
  ASSUME ShadowInv, NEW r \in ShadowRuns, DeleteShadow(r)
  PROVE  ShadowInv'
  <1> USE DEF DeleteShadow, RunAt, ShadowFault
  <1>1. PICK id \in shadowRun[r].created : DeleteShadow(r)!2!(id) OBVIOUS
  <1>2. id \in Ids /\ Owner(id) = r
    BY DEF ShadowInv, ShadowTypes, RunRecords, RunsInv, KnowsItsCopies
  <1>3. shadows' \in {shadows, shadows \ {id}} /\ marker' \in {marker, [marker EXCEPT ![id] = "none"]}
    BY <1>1
  <1>4. ShadowTypes'
    <2>1. shadowRun' \in [ShadowRuns -> RunRecords] BY <1>1 DEF ShadowInv, ShadowTypes, RunRecords
    <2>2. marker' \in [Ids -> {"none", "directory", "link"}]
      BY <1>2, <1>3 DEF ShadowInv, ShadowTypes
    <2> QED BY <1>3, <2>1, <2>2 DEF ShadowInv, ShadowTypes
  <1>5. Apart(r) BY <1>1, <1>2, <1>3 DEF Apart, ShadowInv, ShadowTypes
  <1>6. shadowRun'[r].pc = "delete" /\ shadowRun'[r].created = shadowRun[r].created \ {id}
    BY <1>1 DEF ShadowInv, ShadowTypes, RunRecords
  <1>7. KnowsItsCopies(r)' BY <1>6 DEF ShadowInv, RunsInv, KnowsItsCopies
  <1>8. \A i \in Ids : marker'[i] # "none" => marker[i] # "none"
    BY <1>3 DEF ShadowInv, ShadowTypes
  <1>9. OwnSteps(r)
    BY <1>6, <1>8 DEF OwnSteps, Past, Late, LeaseStands, ShadowInv, LeasesInv
  <1> QED BY <1>4, <1>5, <1>7, <1>9, RunMoves

LEMMA ReleaseLeasesStep ==
  ASSUME ShadowInv, NEW r \in ShadowRuns, ReleaseLeases(r)
  PROVE  ShadowInv'
  <1> USE DEF ReleaseLeases, RunAt, RunTo
  <1>1. ShadowTypes' BY DEF ShadowInv, ShadowTypes, RunRecords, RunLabels
  <1>2. \A id \in Ids : lease'[id] = IF Owner(id) = r /\ lease[id] = "held" THEN "none" ELSE lease[id]
    BY DEF Leases
  <1>3. Apart(r) BY <1>2 DEF Apart
  <1>4. shadowRun'[r].pc = "done" /\ shadowRun'[r].created = shadowRun[r].created
    BY DEF ShadowInv, ShadowTypes, RunRecords
  <1>5. KnowsItsCopies(r)' BY <1>4 DEF ShadowInv, RunsInv, KnowsItsCopies
  <1>6. OwnSteps(r) BY <1>2, <1>4 DEF OwnSteps, Past, Late, LeaseStands
  <1> QED BY <1>1, <1>3, <1>5, <1>6, RunMoves

LEMMA ShadowCrashStep ==
  ASSUME ShadowInv, NEW r \in ShadowRuns, ShadowCrash(r)
  PROVE  ShadowInv'
  <1> USE DEF ShadowCrash, RunTo
  <1>1. PICK gone \in SUBSET {id \in shadows : Owner(id) = r} : shadows' = shadows \ gone
    OBVIOUS
  <1>2. ShadowTypes' BY <1>1 DEF ShadowInv, ShadowTypes, RunRecords, RunLabels
  <1>3. \A id \in Ids : lease'[id] = IF Owner(id) = r /\ lease[id] = "held" THEN "left" ELSE lease[id]
    BY DEF Leases
  <1>4. Apart(r) BY <1>1, <1>3 DEF Apart
  <1>5. shadowRun'[r].pc = "dead" /\ shadowRun'[r].created = shadowRun[r].created
    BY DEF ShadowInv, ShadowTypes, RunRecords
  <1>6. KnowsItsCopies(r)' BY <1>5 DEF ShadowInv, RunsInv, KnowsItsCopies
  <1>7. OwnSteps(r) BY <1>3, <1>5 DEF OwnSteps, Past, Late, LeaseStands
  <1> QED BY <1>2, <1>4, <1>6, <1>7, RunMoves

----------------------------------------------------------------------------
(* Steps of a clean-up *)

\* What a step of clean-up c leaves alone.
RunsUntouched(c) ==
  /\ shadowRun' = shadowRun
  /\ shadows' \subseteq shadows
  /\ \A id \in Ids : marker'[id] \in {marker[id], "none"}
  /\ \A id \in Ids : lease'[id] \in {lease[id], "none"}
  /\ \A d \in Cleaners : d # c => cleaner'[d] = cleaner[d]

\* What it may look at and take away: a copy whose lease is held, or still to be
\* asked for, it does not.
CleanerSteps(c) ==
  /\ \A id \in Ids : LooksAt(c, id)' => LooksAt(c, id) \/ marker[id] # "none"
  /\ cleaner'[c].pc \in {"stat", "lease", "delete", "drop"} => Entry(c)' \in Ids
  /\ cleaner'[c].pc = "delete" => lease'[Entry(c)'] # "held"
  /\ \A id \in shadows : id \notin shadows' => Past(id) /\ lease[id] # "held"

\* What it does to the copies that some clean-up answers for.
AnsweringSteps(c) ==
  /\ \A id \in Ids : marker'[id] # marker[id] => Doomed(id)
  /\ \A id \in shadows' : CleanerAt(c, "drop")' /\ Entry(c)' = id =>
       \A d \in Cleaners : id \notin cleaner'[d].orphans
  /\ \A id \in cleaner'[c].orphans :
       /\ shadowRun[Owner(id)].pc = "dead"
       /\ id \in shadows' => Answered(c, id)'
  /\ cleaner'[c].pc = "done" => cleaner'[c].todo = {}

LEMMA CleanerMoves ==
  ASSUME ShadowInv, ShadowTypes', NEW c \in Cleaners,
         RunsUntouched(c), CleanerSteps(c), AnsweringSteps(c)
  PROVE  ShadowInv'
  <1>1. \A id \in Ids : Past(id) <=> Past(id)'
    BY DEF RunsUntouched, Past, Id
  <1>2. RunsInv'
    <2> SUFFICES ASSUME NEW r \in ShadowRuns PROVE KnowsItsCopies(r)' BY DEF RunsInv
    <2>1. KnowsItsCopies(r) BY DEF ShadowInv, RunsInv
    <2>2. shadowRun[r].pc = "lease" => Id(r) \in shadows'
      <3>1. shadowRun[r].pc = "lease" => Id(r) \in shadows /\ Owner(Id(r)) = r
        BY <2>1, IdType DEF ShadowInv, KnowsItsCopies
      <3>2. shadowRun[r].pc = "lease" => ~Past(Id(r)) BY <3>1 DEF Past, Late
      <3> QED BY <3>1, <3>2 DEF CleanerSteps
    <2> QED BY <2>1, <2>2 DEF RunsUntouched, KnowsItsCopies, Id, More
  <1>3. MarkersInv'
    <2>1. ASSUME NEW id \in Ids, marker'[id] # "none" PROVE Past(id)'
      <3>1. Past(id) BY <2>1 DEF RunsUntouched, ShadowInv, MarkersInv
      <3> QED BY <1>1, <3>1
    <2>2. ASSUME NEW d \in Cleaners, NEW id \in Ids, LooksAt(d, id)' PROVE Past(id)'
      <3>1. LooksAt(d, id) \/ marker[id] # "none"
        BY <2>2 DEF CleanerSteps, RunsUntouched, LooksAt, Entry
      <3>2. Past(id) BY <3>1 DEF ShadowInv, MarkersInv
      <3> QED BY <1>1, <3>2
    <2>3. ASSUME NEW d \in Cleaners, cleaner'[d].pc \in {"stat", "lease", "delete", "drop"}
          PROVE  Entry(d)' \in Ids /\ (cleaner'[d].pc = "delete" => lease'[Entry(d)'] # "held")
      <3>1. CASE d = c BY <2>3, <3>1 DEF CleanerSteps
      <3>2. CASE d # c
        <4>1. cleaner'[d] = cleaner[d] /\ Entry(d)' = Entry(d)
          BY <3>2 DEF RunsUntouched, Entry
        <4>2. Entry(d) \in Ids /\ (cleaner[d].pc = "delete" => lease[Entry(d)] # "held")
          BY <2>3, <4>1 DEF ShadowInv, MarkersInv
        <4> QED BY <4>1, <4>2 DEF RunsUntouched
      <3> QED BY <3>1, <3>2
    <2> QED BY <2>1, <2>2, <2>3 DEF MarkersInv
  <1>4. LeasesInv'
    <2> SUFFICES ASSUME NEW id \in Ids PROVE LeaseStands(id)' BY DEF LeasesInv
    <2>1. LeaseStands(id) BY DEF ShadowInv, LeasesInv
    <2> QED BY <2>1 DEF LeaseStands, RunsUntouched, CleanerSteps
  <1>5. OrphansInv'
    <2>1. ASSUME NEW d \in Cleaners, d # c, NEW id \in cleaner'[d].orphans
          PROVE  shadowRun'[Owner(id)].pc = "dead" /\ (id \in shadows' => Answered(d, id)')
      <3>1. cleaner'[d] = cleaner[d] BY <2>1 DEF RunsUntouched
      <3>2. id \in Ids BY <2>1, <3>1 DEF ShadowInv, ShadowTypes, CleanerRecords
      <3>3. shadowRun[Owner(id)].pc = "dead" /\ (id \in shadows => Answered(d, id))
        BY <2>1, <3>1 DEF ShadowInv, OrphansInv
      <3>4. ASSUME id \in shadows' PROVE Answered(d, id)'
        <4>1. Answered(d, id) BY <3>3, <3>4 DEF RunsUntouched
        <4>2. marker'[id] = marker[id] BY <3>2, <4>1 DEF Answered, AnsweringSteps
        <4>3. ~Doomed(id)'
          <5>1. ~(CleanerAt(c, "drop")' /\ Entry(c)' = id) BY <2>1, <3>4 DEF AnsweringSteps
          <5> QED BY <4>1, <5>1 DEF Answered, Doomed, CleanerAt, Entry, RunsUntouched
        <4> QED BY <3>1, <4>1, <4>2, <4>3 DEF Answered, Entry
      <3> QED BY <3>3, <3>4 DEF RunsUntouched
    <2>2. \A d \in Cleaners : cleaner'[d].pc = "done" => cleaner'[d].todo = {}
      BY DEF RunsUntouched, AnsweringSteps, ShadowInv, OrphansInv
    <2>3. shadowRun' = shadowRun BY DEF RunsUntouched
    <2> QED BY <2>1, <2>2, <2>3 DEF OrphansInv, AnsweringSteps
  <1> QED BY <1>2, <1>3, <1>4, <1>5 DEF ShadowInv

\* Nothing is doomed by a step of a clean-up that removes no marker next.
LEMMA NotDoomed ==
  ASSUME NEW c \in Cleaners, RunsUntouched(c), cleaner'[c].pc # "drop",
         NEW id, ~Doomed(id)
  PROVE  ~Doomed(id)'
BY DEF Doomed, CleanerAt, Entry, RunsUntouched

LEMMA ReadMarkersStep ==
  ASSUME ShadowInv, NEW c \in Cleaners, ReadMarkers(c)
  PROVE  ShadowInv'
  <1> DEFINE entries == {id \in Ids : marker[id] # "none"}
             dead == {id \in entries : RunAt(Owner(id), "dead") /\ ~Doomed(id)}
  <1>1. /\ cleaner' = [cleaner EXCEPT ![c].pc = "next", ![c].todo = entries, ![c].orphans = dead]
        /\ UNCHANGED <<hostVars, shadowRun, shadowFaults>>
    BY DEF ReadMarkers
  <1>2. cleaner[c] \in CleanerRecords BY DEF ShadowInv, ShadowTypes
  <1>3. /\ cleaner'[c] \in CleanerRecords /\ cleaner'[c].pc = "next"
        /\ cleaner'[c].todo = entries /\ cleaner'[c].orphans = dead
    BY <1>1, <1>2 DEF ShadowInv, ShadowTypes, CleanerRecords, CleanerLabels
  <1>4. ShadowTypes' BY <1>1, <1>3 DEF ShadowInv, ShadowTypes, hostVars
  <1>5. RunsUntouched(c)
    BY <1>1 DEF RunsUntouched, hostVars, ShadowInv, ShadowTypes
  <1>6. CleanerSteps(c) BY <1>1, <1>3 DEF CleanerSteps, LooksAt, hostVars
  <1>7. ASSUME NEW id \in dead PROVE shadowRun[Owner(id)].pc = "dead" /\ Answered(c, id)'
    <2>1. ~Doomed(id)' BY <1>3, <1>5, <1>7, NotDoomed
    <2> QED BY <1>1, <1>3, <1>7, <2>1 DEF Answered, RunAt, hostVars
  <1>8. AnsweringSteps(c) BY <1>1, <1>3, <1>7 DEF AnsweringSteps, hostVars, CleanerAt
  <1> QED BY <1>4, <1>5, <1>6, <1>8, CleanerMoves

LEMMA NextMarkerStep ==
  ASSUME ShadowInv, NEW c \in Cleaners, NextMarker(c)
  PROVE  ShadowInv'
  <1>1. cleaner[c] \in CleanerRecords BY DEF ShadowInv, ShadowTypes
  <1>2. UNCHANGED <<hostVars, shadowRun, shadowFaults>> /\ cleaner[c].pc = "next"
    BY DEF NextMarker, CleanerAt
  <1>3. CASE cleaner[c].todo = {} /\ cleaner' = [cleaner EXCEPT ![c].pc = "done"]
    <2>1. cleaner'[c] = [cleaner[c] EXCEPT !.pc = "done"] BY <1>3 DEF ShadowInv, ShadowTypes
    <2>2. /\ cleaner'[c] \in CleanerRecords /\ cleaner'[c].pc = "done"
          /\ cleaner'[c].todo = {} /\ cleaner'[c].orphans = cleaner[c].orphans
          /\ cleaner'[c].refused = cleaner[c].refused
      BY <1>1, <1>3, <2>1 DEF CleanerRecords, CleanerLabels
    <2>3. ShadowTypes' BY <1>2, <1>3, <2>2 DEF ShadowInv, ShadowTypes, hostVars
    <2>4. RunsUntouched(c) BY <1>2, <1>3 DEF RunsUntouched, hostVars, ShadowInv, ShadowTypes
    <2>5. CleanerSteps(c) BY <1>2, <2>2 DEF CleanerSteps, LooksAt, hostVars
    <2>6. ASSUME NEW id \in cleaner[c].orphans
          PROVE  shadowRun[Owner(id)].pc = "dead" /\ (id \in shadows => Answered(c, id)')
      <3>1. shadowRun[Owner(id)].pc = "dead" /\ (id \in shadows => Answered(c, id))
        BY DEF ShadowInv, OrphansInv
      <3>2. Answered(c, id) => id \in cleaner[c].refused /\ ~Doomed(id)'
        BY <1>2, <1>3, <2>2, <2>4, NotDoomed DEF Answered
      <3> QED BY <1>2, <2>2, <3>1, <3>2 DEF Answered, hostVars
    <2>7. AnsweringSteps(c) BY <1>2, <2>2, <2>6 DEF AnsweringSteps, hostVars, CleanerAt
    <2> QED BY <2>3, <2>4, <2>5, <2>7, CleanerMoves
  <1>4. CASE \E id \in cleaner[c].todo :
               cleaner' = [cleaner EXCEPT ![c].pc = "stat", ![c].at = id, ![c].todo = @ \ {id}]
    <2>1. PICK e \in cleaner[c].todo :
            cleaner' = [cleaner EXCEPT ![c].pc = "stat", ![c].at = e, ![c].todo = @ \ {e}]
      BY <1>4
    <2>2. /\ cleaner'[c] \in CleanerRecords /\ cleaner'[c].pc = "stat" /\ cleaner'[c].at = e
          /\ cleaner'[c].todo = cleaner[c].todo \ {e} /\ cleaner'[c].orphans = cleaner[c].orphans
          /\ cleaner'[c].refused = cleaner[c].refused /\ e \in Ids
      BY <1>1, <2>1 DEF ShadowInv, ShadowTypes, CleanerRecords, CleanerLabels
    <2>3. ShadowTypes' BY <1>2, <2>1, <2>2 DEF ShadowInv, ShadowTypes, hostVars
    <2>4. RunsUntouched(c) BY <1>2, <2>1 DEF RunsUntouched, hostVars, ShadowInv, ShadowTypes
    <2>5. CleanerSteps(c) BY <1>2, <2>2 DEF CleanerSteps, LooksAt, Entry, hostVars
    <2>6. ASSUME NEW id \in cleaner[c].orphans
          PROVE  shadowRun[Owner(id)].pc = "dead" /\ (id \in shadows => Answered(c, id)')
      <3>1. shadowRun[Owner(id)].pc = "dead" /\ (id \in shadows => Answered(c, id))
        BY DEF ShadowInv, OrphansInv
      <3>2. Answered(c, id) => id \in cleaner[c].todo \cup cleaner[c].refused /\ ~Doomed(id)'
        BY <1>2, <2>2, <2>4, NotDoomed DEF Answered
      <3> QED BY <1>2, <2>2, <3>1, <3>2 DEF Answered, Entry, hostVars
    <2>7. AnsweringSteps(c) BY <1>2, <2>2, <2>6 DEF AnsweringSteps, hostVars, CleanerAt
    <2> QED BY <2>3, <2>4, <2>5, <2>7, CleanerMoves
  <1> QED BY <1>3, <1>4 DEF NextMarker

LEMMA StatMarkerStep ==
  ASSUME ShadowInv, NEW c \in Cleaners, StatMarker(c)
  PROVE  ShadowInv'
  <1>1. cleaner[c] \in CleanerRecords BY DEF ShadowInv, ShadowTypes
  <1>2. UNCHANGED <<hostVars, shadowRun, shadowFaults>> /\ cleaner[c].pc = "stat"
    BY DEF StatMarker, CleanerAt
  <1>3. cleaner'[c] = [cleaner[c] EXCEPT !.pc = IF Resolves(Entry(c)) THEN "lease" ELSE "drop"]
    BY DEF ShadowInv, ShadowTypes, StatMarker
  <1>4. /\ cleaner'[c] \in CleanerRecords /\ cleaner'[c].at = cleaner[c].at
        /\ cleaner'[c].pc = IF Resolves(Entry(c)) THEN "lease" ELSE "drop"
        /\ cleaner'[c].todo = cleaner[c].todo /\ cleaner'[c].orphans = cleaner[c].orphans
        /\ cleaner'[c].refused = cleaner[c].refused
    BY <1>1, <1>3 DEF CleanerRecords, CleanerLabels
  <1>5. cleaner' \in [Cleaners -> CleanerRecords] /\ \A d \in Cleaners : d # c => cleaner'[d] = cleaner[d]
    BY <1>4 DEF ShadowInv, ShadowTypes, StatMarker
  <1>6. ShadowTypes' BY <1>2, <1>5 DEF ShadowInv, ShadowTypes, hostVars
  <1>7. RunsUntouched(c) BY <1>2, <1>5 DEF RunsUntouched, hostVars
  <1>8. CleanerSteps(c)
    BY <1>2, <1>4 DEF CleanerSteps, LooksAt, Entry, hostVars, ShadowInv, MarkersInv
  \* A copy that is there, and has a marker, has one that leads to it.
  <1>9. ASSUME NEW d \in Cleaners, NEW id \in cleaner[d].orphans, id \in shadows
        PROVE  Answered(d, id) /\ Resolves(id)
    <2>1. Answered(d, id) /\ id \in Ids
      BY <1>9 DEF ShadowInv, OrphansInv, ShadowTypes
    <2> QED BY <1>9, <2>1 DEF Answered, Resolves, ShadowInv, ShadowTypes
  <1>10. ASSUME NEW d \in Cleaners, NEW id \in shadows, cleaner'[c].pc = "drop", cleaner'[c].at = id
         PROVE  id \notin cleaner'[d].orphans
    <2>1. cleaner'[d].orphans = cleaner[d].orphans BY <1>4, <1>5
    <2>2. ~Resolves(id) BY <1>4, <1>10 DEF Entry
    <2> QED BY <1>9, <2>1, <2>2
  <1>11. ASSUME NEW id \in cleaner[c].orphans
         PROVE  shadowRun[Owner(id)].pc = "dead" /\ (id \in shadows => Answered(c, id)')
    <2>1. shadowRun[Owner(id)].pc = "dead" BY DEF ShadowInv, OrphansInv
    <2>2. ASSUME id \in shadows PROVE Answered(c, id)'
      <3>1. Answered(c, id) /\ Resolves(id) BY <1>9, <2>2
      <3>2. ~Doomed(id)'
        BY <1>4, <1>5, <3>1 DEF Answered, Doomed, CleanerAt, Entry
      <3> QED BY <1>2, <1>4, <3>1, <3>2 DEF Answered, Entry, hostVars
    <2> QED BY <2>1, <2>2
  <1>12. AnsweringSteps(c)
    BY <1>2, <1>4, <1>10, <1>11 DEF AnsweringSteps, hostVars, CleanerAt, Entry
  <1> QED BY <1>6, <1>7, <1>8, <1>12, CleanerMoves

LEMMA DropMarkerStep ==
  ASSUME ShadowInv, NEW c \in Cleaners, DropMarker(c)
  PROVE  ShadowInv'
  <1>1. cleaner[c] \in CleanerRecords BY DEF ShadowInv, ShadowTypes
  <1>2. /\ UNCHANGED <<creating, shadows, lease, shadowRun, shadowFaults>>
        /\ cleaner[c].pc = "drop" /\ marker' = [marker EXCEPT ![Entry(c)] = "none"]
    BY DEF DropMarker, CleanerAt
  <1>3. cleaner'[c] = [cleaner[c] EXCEPT !.pc = "next"]
    BY DEF ShadowInv, ShadowTypes, DropMarker
  <1>4. /\ cleaner'[c] \in CleanerRecords /\ cleaner'[c].pc = "next"
        /\ cleaner'[c].todo = cleaner[c].todo /\ cleaner'[c].orphans = cleaner[c].orphans
        /\ cleaner'[c].refused = cleaner[c].refused
    BY <1>1, <1>3 DEF CleanerRecords, CleanerLabels
  <1>5. cleaner' \in [Cleaners -> CleanerRecords] /\ \A d \in Cleaners : d # c => cleaner'[d] = cleaner[d]
    BY <1>4 DEF ShadowInv, ShadowTypes, DropMarker
  <1>6. \A id \in Ids : marker'[id] = IF id = Entry(c) THEN "none" ELSE marker[id]
    BY <1>2 DEF ShadowInv, ShadowTypes
  <1>7. ShadowTypes' BY <1>2, <1>5, <1>6 DEF ShadowInv, ShadowTypes
  <1>8. RunsUntouched(c) BY <1>2, <1>5, <1>6 DEF RunsUntouched
  <1>9. CleanerSteps(c) BY <1>2, <1>4 DEF CleanerSteps, LooksAt
  <1>10. ASSUME NEW id \in cleaner[c].orphans
         PROVE  shadowRun[Owner(id)].pc = "dead" /\ (id \in shadows => Answered(c, id)')
    <2>1. shadowRun[Owner(id)].pc = "dead" /\ (id \in shadows => Answered(c, id)) /\ id \in Ids
      BY DEF ShadowInv, OrphansInv, ShadowTypes, CleanerRecords
    <2>2. Answered(c, id) => id # Entry(c) /\ ~Doomed(id)'
      BY <1>2, <1>4, <1>8, NotDoomed DEF Answered, Doomed, CleanerAt
    <2> QED BY <1>2, <1>4, <1>6, <2>1, <2>2 DEF Answered
  <1>11. Doomed(Entry(c)) BY <1>2 DEF Doomed, CleanerAt
  <1>12. AnsweringSteps(c) BY <1>2, <1>4, <1>6, <1>10, <1>11 DEF AnsweringSteps, CleanerAt
  <1> QED BY <1>7, <1>8, <1>9, <1>12, CleanerMoves

LEMMA ShadowInUseStep ==
  ASSUME ShadowInv, NEW c \in Cleaners, ShadowInUse(c)
  PROVE  ShadowInv'
  <1>1. cleaner[c] \in CleanerRecords BY DEF ShadowInv, ShadowTypes
  <1>2. /\ UNCHANGED <<creating, shadows, marker, shadowRun, shadowFaults>>
        /\ cleaner[c].pc = "lease"
    BY DEF ShadowInUse, CleanerAt
  <1>3. Entry(c) \in Ids BY <1>2 DEF ShadowInv, MarkersInv
  <1>4. cleaner'[c] = [cleaner[c] EXCEPT !.pc = IF lease[Entry(c)] = "held" THEN "next" ELSE "delete"]
    BY DEF ShadowInv, ShadowTypes, ShadowInUse
  <1>5. /\ cleaner'[c] \in CleanerRecords /\ cleaner'[c].at = cleaner[c].at
        /\ cleaner'[c].pc = IF lease[Entry(c)] = "held" THEN "next" ELSE "delete"
        /\ cleaner'[c].todo = cleaner[c].todo /\ cleaner'[c].orphans = cleaner[c].orphans
        /\ cleaner'[c].refused = cleaner[c].refused
    BY <1>1, <1>4 DEF CleanerRecords, CleanerLabels
  <1>6. cleaner' \in [Cleaners -> CleanerRecords] /\ \A d \in Cleaners : d # c => cleaner'[d] = cleaner[d]
    BY <1>5 DEF ShadowInv, ShadowTypes, ShadowInUse
  <1>7. /\ lease' \in [Ids -> {"none", "held", "left"}]
        /\ \A id \in Ids : lease'[id] \in {lease[id], "none"}
        /\ lease[Entry(c)] # "held" => lease'[Entry(c)] = "none"
    BY <1>3 DEF ShadowInUse, ShadowInv, ShadowTypes
  <1>8. ShadowTypes' BY <1>2, <1>6, <1>7 DEF ShadowInv, ShadowTypes
  <1>9. RunsUntouched(c) BY <1>2, <1>6, <1>7 DEF RunsUntouched
  <1>10. CleanerSteps(c) BY <1>2, <1>3, <1>5, <1>7 DEF CleanerSteps, LooksAt, Entry
  <1>11. ASSUME NEW id \in cleaner[c].orphans
         PROVE  shadowRun[Owner(id)].pc = "dead" /\ (id \in shadows => Answered(c, id)')
    <2>1. shadowRun[Owner(id)].pc = "dead" /\ (id \in shadows => Answered(c, id)) /\ id \in Ids
      BY DEF ShadowInv, OrphansInv, ShadowTypes, CleanerRecords
    <2>2. lease[id] # "held" BY <2>1 DEF ShadowInv, LeasesInv, LeaseStands
    <2>3. Answered(c, id) => ~Doomed(id)' BY <1>5, <1>9, NotDoomed DEF Answered
    <2> QED BY <1>2, <1>5, <2>1, <2>2, <2>3 DEF Answered, Entry
  <1>12. AnsweringSteps(c) BY <1>2, <1>5, <1>11 DEF AnsweringSteps, CleanerAt
  <1> QED BY <1>8, <1>9, <1>10, <1>12, CleanerMoves

LEMMA DeleteOrphanStep ==
  ASSUME ShadowInv, NEW c \in Cleaners, DeleteOrphan(c)
  PROVE  ShadowInv'
  <1>1. cleaner[c] \in CleanerRecords BY DEF ShadowInv, ShadowTypes
  <1>2. UNCHANGED <<creating, marker, lease, shadowRun>> /\ cleaner[c].pc = "delete"
    BY DEF DeleteOrphan, CleanerAt
  <1>3. Entry(c) \in Ids /\ Past(Entry(c)) /\ lease[Entry(c)] # "held"
    BY <1>2 DEF ShadowInv, MarkersInv, LooksAt
  <1>4. CASE /\ shadows' = shadows \ {Entry(c)}
             /\ cleaner' = [cleaner EXCEPT ![c].pc = "drop"]
    <2>1. cleaner'[c] = [cleaner[c] EXCEPT !.pc = "drop"] BY <1>4 DEF ShadowInv, ShadowTypes
    <2>2. /\ cleaner'[c] \in CleanerRecords /\ cleaner'[c].at = cleaner[c].at
          /\ cleaner'[c].pc = "drop" /\ cleaner'[c].refused = cleaner[c].refused
          /\ cleaner'[c].todo = cleaner[c].todo /\ cleaner'[c].orphans = cleaner[c].orphans
      BY <1>1, <2>1 DEF CleanerRecords, CleanerLabels
    <2>3. ShadowTypes' BY <1>2, <1>4, <2>2 DEF ShadowInv, ShadowTypes
    <2>4. RunsUntouched(c) BY <1>2, <1>4 DEF RunsUntouched, ShadowInv, ShadowTypes
    <2>5. CleanerSteps(c) BY <1>2, <1>3, <1>4, <2>2 DEF CleanerSteps, LooksAt, Entry
    <2>6. ASSUME NEW id \in cleaner[c].orphans
          PROVE  shadowRun[Owner(id)].pc = "dead" /\ (id \in shadows' => Answered(c, id)')
      <3>1. shadowRun[Owner(id)].pc = "dead" /\ (id \in shadows => Answered(c, id))
        BY DEF ShadowInv, OrphansInv
      <3>2. ASSUME id \in shadows' PROVE Answered(c, id)'
        <4>1. id \in shadows /\ id # Entry(c) BY <1>4, <3>2
        <4>2. ~Doomed(id)'
          BY <2>2, <2>4, <3>1, <4>1 DEF Answered, Doomed, CleanerAt, Entry, RunsUntouched
        <4> QED BY <1>2, <2>2, <3>1, <4>1, <4>2 DEF Answered
      <3> QED BY <3>1, <3>2
    <2>7. AnsweringSteps(c)
      BY <1>2, <1>4, <2>2, <2>6 DEF AnsweringSteps, CleanerAt, Entry
    <2> QED BY <2>3, <2>4, <2>5, <2>7, CleanerMoves
  <1>5. CASE /\ shadows' = shadows
             /\ cleaner' = [cleaner EXCEPT ![c].pc = "next", ![c].refused = @ \cup {Entry(c)}]
    <2>1. /\ cleaner'[c] \in CleanerRecords /\ cleaner'[c].pc = "next"
          /\ cleaner'[c].refused = cleaner[c].refused \cup {Entry(c)}
          /\ cleaner'[c].todo = cleaner[c].todo /\ cleaner'[c].orphans = cleaner[c].orphans
      BY <1>1, <1>3, <1>5 DEF ShadowInv, ShadowTypes, CleanerRecords, CleanerLabels
    <2>2. ShadowTypes' BY <1>2, <1>5, <2>1 DEF ShadowInv, ShadowTypes
    <2>3. RunsUntouched(c) BY <1>2, <1>5 DEF RunsUntouched, ShadowInv, ShadowTypes
    <2>4. CleanerSteps(c) BY <1>2, <1>5, <2>1 DEF CleanerSteps, LooksAt
    <2>5. ASSUME NEW id \in cleaner[c].orphans
          PROVE  shadowRun[Owner(id)].pc = "dead" /\ (id \in shadows => Answered(c, id)')
      <3>1. shadowRun[Owner(id)].pc = "dead" /\ (id \in shadows => Answered(c, id))
        BY DEF ShadowInv, OrphansInv
      <3>2. Answered(c, id) => ~Doomed(id)' BY <2>1, <2>3, NotDoomed DEF Answered
      <3> QED BY <1>2, <2>1, <3>1, <3>2 DEF Answered
    <2>6. AnsweringSteps(c) BY <1>2, <1>5, <2>1, <2>5 DEF AnsweringSteps, CleanerAt
    <2> QED BY <2>2, <2>3, <2>4, <2>6, CleanerMoves
  <1> QED BY <1>4, <1>5 DEF DeleteOrphan

----------------------------------------------------------------------------

LEMMA ShadowStart ==
  ASSUME ShadowInit
  PROVE  ShadowInv
  <1> USE DEF ShadowInit
  <1>1. ShadowTypes BY DEF ShadowTypes, RunRecords, RunLabels, CleanerRecords, CleanerLabels
  <1>2. RunsInv BY DEF RunsInv, KnowsItsCopies
  <1>3. MarkersInv BY DEF MarkersInv, LooksAt
  <1>4. LeasesInv BY DEF LeasesInv, LeaseStands
  <1>5. OrphansInv BY DEF OrphansInv
  <1> QED BY <1>1, <1>2, <1>3, <1>4, <1>5 DEF ShadowInv

LEMMA ShadowStep ==
  ASSUME ShadowInv, [ShadowNext]_shadowVars
  PROVE  ShadowInv'
  <1>1. ASSUME NEW r \in ShadowRuns,
               \/ ShareVolume(r) \/ CreateSnapshot(r) \/ SnapshotCreated(r) \/ HoldShadowLease(r)
               \/ MakeMarkerDirectory(r) \/ RemoveMarkerDirectory(r) \/ LinkMarker(r)
               \/ CallBackWithCopies(r)
               \/ ReleaseSnapshotters(r) \/ DeleteShadow(r) \/ ReleaseLeases(r) \/ ShadowCrash(r)
        PROVE  ShadowInv'
    BY <1>1, ShareVolumeStep, CreateSnapshotStep, SnapshotCreatedStep, HoldShadowLeaseStep,
       MarkerSteps, CallBackStep, ReleaseSnapshottersStep, DeleteShadowStep,
       ReleaseLeasesStep, ShadowCrashStep
  <1>2. ASSUME NEW c \in Cleaners,
               \/ ReadMarkers(c) \/ NextMarker(c) \/ StatMarker(c) \/ DropMarker(c)
               \/ ShadowInUse(c) \/ DeleteOrphan(c)
        PROVE  ShadowInv'
    BY <1>2, ReadMarkersStep, NextMarkerStep, StatMarkerStep, DropMarkerStep,
       ShadowInUseStep, DeleteOrphanStep
  <1>3. CASE UNCHANGED shadowVars
    BY <1>3 DEF shadowVars, ShadowInv, ShadowTypes, RunsInv, KnowsItsCopies, Id, More, MarkersInv,
                LooksAt, Past, Entry, LeasesInv, LeaseStands, OrphansInv, Answered, Doomed, CleanerAt
  <1> QED BY <1>1, <1>2, <1>3 DEF ShadowNext

\* win_snapshot.go, lease.go: whatever processes start and clean up while a backup
\* reads its shadow copies, each one it holds a lease of is there; for any number
\* of runs, volumes, clean-ups, crashes and failing calls.
THEOREM LeasedAreKept == ShadowSpec => []LeasedShadowKept
  <1>1. ShadowInit => ShadowInv BY ShadowStart
  <1>2. ShadowInv /\ [ShadowNext]_shadowVars => ShadowInv' BY ShadowStep
  <1>3. ShadowInv => LeasedShadowKept
    BY OwnerType DEF ShadowInv, LeasesInv, LeaseStands, LeasedShadowKept, Leases, RunAt
  <1> QED BY <1>1, <1>2, <1>3, PTL DEF ShadowSpec

\* VSSCleanup: a clean-up that is over has deleted every copy of a run that had
\* died before, unless VSS refused to; for any number of clean-ups at once.
THEOREM OrphansAreRemoved == ShadowSpec => []OrphansRemoved
  <1>1. ShadowInit => ShadowInv BY ShadowStart
  <1>2. ShadowInv /\ [ShadowNext]_shadowVars => ShadowInv' BY ShadowStep
  <1>3. ShadowInv => OrphansRemoved
    BY DEF ShadowInv, OrphansInv, Answered, OrphansRemoved, CleanerAt
  <1> QED BY <1>1, <1>2, <1>3, PTL DEF ShadowSpec

(***************************************************************************)
(*                           The block snapshots                           *)
(***************************************************************************)

SnapLabels == {"idle", "path", "destroy", "setup", "wait", "mount", "undo", "undone",
               "reading", "cleanup", "done", "dead"}

Minors == 0..MaxMinor
Devices == UNION {Range(Paths[r]) : r \in Runs}
Snaps == [minor : Minors, device : Devices, run : Runs]

SnapRecords == [pc : SnapLabels, at : Nat \ {0}, stale : SUBSET Minors, minor : Minors,
                created : Seq(Snaps), failed : BOOLEAN]

SnapTypes ==
  /\ tracers \subseteq Snaps /\ tracked \subseteq Snaps
  /\ mounts \subseteq [minor : Minors, run : Runs]
  /\ run \in [Runs -> SnapRecords]
  /\ disputed \in BOOLEAN
  /\ \A t \in tracers : t.device \in Range(Paths[t.run])

\* While createOne works on a path.
AtPath(r) == run[r].pc \in {"destroy", "setup", "wait", "mount", "undo"}

\* What a run holds is in its list of created snapshots, or is the one it is making;
\* a tracer may be missing there only once an error was noted.
KeepsTrack(r) ==
  /\ run[r].pc \in {"idle", "done"} => run[r].created = <<>>
  /\ run[r].pc = "idle" => run[r].at = 1
  /\ AtPath(r) => run[r].at <= Len(Paths[r])
  /\ \A t \in tracked : t.run = r =>
       t \in Range(run[r].created) \/ (t = Snap(r) /\ run[r].pc \in {"mount", "undo"})
  /\ \A m \in mounts : m.run = r /\ run[r].pc # "dead" =>
       \E s \in Range(run[r].created) : s.minor = m.minor
  /\ \A t \in tracers : t.run = r /\ run[r].pc # "dead" /\ ~run[r].failed =>
       t \in Range(run[r].created) \/ (t = Snap(r) /\ run[r].pc \in {"wait", "mount", "undo"})

\* The kernel has one tracer per minor, and one per device.
TracersDiffer ==
  \A t, u \in tracers : t.minor = u.minor \/ t.device = u.device => t = u

\* The snapshots of a run are its own, on its own devices, one for each device of the
\* paths behind it; what it takes for stale is on the device it is at.
Owns(r) ==
  /\ \A s \in Range(run[r].created) :
       /\ s \in tracers /\ s.run = r /\ s.device \in Range(Paths[r])
       /\ NeedFiles[r] => [minor |-> s.minor, run |-> r] \in mounts
  /\ \A i, j \in DOMAIN run[r].created :
       run[r].created[i].device = run[r].created[j].device => i = j
  /\ AtPath(r) => ~Shares(r)
  /\ run[r].pc \in {"wait", "mount", "undo"} => Snap(r) \in tracers
  /\ run[r].pc = "destroy" =>
       \A minor \in run[r].stale : \E t \in tracers : t.minor = minor /\ t.device = Device(r)
  /\ run[r].pc \in {"path", "destroy", "setup", "wait", "mount", "reading"} =>
       \A i \in 1..Len(Paths[r]) : i < run[r].at =>
         \E s \in Range(run[r].created) : s.device = Paths[r][i]
  /\ run[r].pc = "reading" => run[r].at > Len(Paths[r])

PathsApart ==
  \A r, q \in Runs : r # q /\ Live(r) /\ Live(q) => Range(Paths[r]) \cap Range(Paths[q]) = {}

SnapInv ==
  /\ SnapTypes /\ TracersDiffer
  /\ \A r \in Runs : KeepsTrack(r)
  /\ ~disputed => PathsApart /\ \A r \in Runs : Live(r) => Owns(r)

----------------------------------------------------------------------------
(* Sequences, and the least free minor *)

LEMMA MinIsIn ==
  ASSUME NEW S \in SUBSET Nat, S # {}
  PROVE  Min(S) \in S
  <1> DEFINE R == {p \in Nat \X Nat : p[1] < p[2]}
  <1>1. IsWellFoundedOn(R, Nat) BY NatLessThanWellFounded DEF OpToRel
  <1> HIDE DEF R
  <1>2. \E x \in S : \A y \in S : ~ (<<y, x>> \in R) BY <1>1, WFMin
  <1>3. \E x \in S : \A y \in S : ~(y < x) BY <1>2 DEF R
  <1>4. \E x \in S : \A y \in S : x <= y BY <1>3
  <1> QED BY <1>4 DEF Min

LEMMA FrontAndLast ==
  ASSUME NEW S, NEW s \in Seq(S), s # <<>>
  PROVE  /\ Front(s) \in Seq(S) /\ Last(s) \in S
         /\ Range(s) = Range(Front(s)) \cup {Last(s)}
         /\ Len(s) \in DOMAIN s /\ Last(s) = s[Len(s)]
         /\ \A i \in DOMAIN Front(s) : i \in DOMAIN s /\ i # Len(s) /\ Front(s)[i] = s[i]
  <1>1. Len(s) \in Nat \ {0} /\ DOMAIN s = 1..Len(s) OBVIOUS
  <1>2. /\ Front(s) \in Seq(S) /\ Len(Front(s)) = Len(s) - 1
        /\ \A i \in 1..Len(s)-1 : Front(s)[i] = s[i]
    BY <1>1 DEF Front
  <1>3. Last(s) = s[Len(s)] /\ Last(s) \in S BY <1>1 DEF Last
  <1>4. DOMAIN Front(s) = 1..Len(s)-1 BY <1>2
  <1>5. Range(s) = {s[i] : i \in 1..Len(s)} /\ Range(Front(s)) = {Front(s)[i] : i \in 1..Len(s)-1}
    BY <1>1, <1>4 DEF Range
  <1>6. 1..Len(s) = (1..Len(s)-1) \cup {Len(s)} BY <1>1
  <1>7. Range(s) = Range(Front(s)) \cup {Last(s)} BY <1>2, <1>3, <1>5, <1>6
  <1>8. Len(s) \in DOMAIN s BY <1>1
  <1>9. \A n \in Nat : \A i \in 1..n-1 : i \in 1..n /\ i # n OBVIOUS
  <1> QED BY <1>1, <1>2, <1>3, <1>4, <1>7, <1>8, <1>9

LEMMA Appended ==
  ASSUME NEW S, NEW s \in Seq(S), NEW e \in S
  PROVE  /\ Append(s, e) \in Seq(S) /\ Range(Append(s, e)) = Range(s) \cup {e}
         /\ Len(s) \in Nat
         /\ DOMAIN Append(s, e) = 1..Len(s)+1 /\ DOMAIN s = 1..Len(s)
         /\ Append(s, e)[Len(s)+1] = e
         /\ \A i \in 1..Len(s) : Append(s, e)[i] = s[i]
  <1>1. /\ Append(s, e) \in Seq(S) /\ Len(s) \in Nat
        /\ DOMAIN Append(s, e) = 1..Len(s)+1 /\ DOMAIN s = 1..Len(s)
        /\ Append(s, e)[Len(s)+1] = e
        /\ \A i \in 1..Len(s) : Append(s, e)[i] = s[i]
    OBVIOUS
  <1>2. 1..Len(s)+1 = (1..Len(s)) \cup {Len(s)+1} BY <1>1
  <1>3. Range(Append(s, e)) = Range(s) \cup {e} BY <1>1, <1>2 DEF Range
  <1> QED BY <1>1, <1>3

LEMMA RangeType ==
  ASSUME NEW S, NEW s \in Seq(S)
  PROVE  Range(s) \subseteq S
BY DEF Range

LEMMA EmptyRange == Range(<<>>) = {}
BY DEF Range

LEMMA PathsType ==
  ASSUME NEW r \in Runs
  PROVE  /\ Len(Paths[r]) \in Nat /\ DOMAIN Paths[r] = 1..Len(Paths[r])
         /\ Range(Paths[r]) \subseteq Devices
         /\ \A i \in 1..Len(Paths[r]) : Paths[r][i] \in Range(Paths[r])
         /\ \A d \in Range(Paths[r]) : \E i \in 1..Len(Paths[r]) : d = Paths[r][i]
  <1>1. Paths[r] \in Seq(Range(Paths[r])) BY SnapshotAssumption
  <1>2. Len(Paths[r]) \in Nat /\ DOMAIN Paths[r] = 1..Len(Paths[r]) BY <1>1
  <1>3. Range(Paths[r]) = {Paths[r][i] : i \in 1..Len(Paths[r])} BY <1>2 DEF Range
  <1> QED BY <1>2, <1>3 DEF Devices

LEMMA SnapType ==
  ASSUME SnapInv, NEW r \in Runs, AtPath(r)
  PROVE  /\ run[r].at \in 1..Len(Paths[r])
         /\ Device(r) = Paths[r][run[r].at] /\ Device(r) \in Range(Paths[r])
         /\ Snap(r) \in Snaps /\ Snap(r).run = r /\ Snap(r).device = Device(r)
         /\ Snap(r).minor = run[r].minor
  <1>1. run[r].at <= Len(Paths[r]) BY DEF SnapInv, KeepsTrack
  <1>2. run[r].at \in Nat \ {0} /\ run[r].minor \in Minors
    BY DEF SnapInv, SnapTypes, SnapRecords
  <1>3. run[r].at \in 1..Len(Paths[r]) BY <1>1, <1>2, PathsType
  <1>4. Device(r) = Paths[r][run[r].at] BY DEF Device
  <1>5. Device(r) \in Range(Paths[r]) /\ Device(r) \in Devices BY <1>3, <1>4, PathsType
  <1> QED BY <1>2, <1>3, <1>4, <1>5 DEF Snap, Snaps

----------------------------------------------------------------------------
(* A step of one run *)

\* What a step of run r leaves alone: the others, and the tracers of devices that are
\* not its own.
StepApart(r) ==
  /\ \A q \in Runs : q # r => run'[q] = run[q]
  /\ \A t \in tracked' : t.run # r => t \in tracked
  /\ \A m \in mounts : m.run # r => m \in mounts'
  /\ \A m \in mounts' : m.run # r => m \in mounts
  /\ \A t \in tracers' : t.run # r => t \in tracers
  /\ ~disputed' => /\ ~disputed /\ PathsApart'
                   /\ \A t \in tracers : t \notin tracers' => t.device \in Range(Paths[r]) /\ Live(r)

LEMMA SnapMoves ==
  ASSUME SnapInv, SnapTypes', TracersDiffer', NEW r \in Runs, StepApart(r),
         KeepsTrack(r)', ~disputed' /\ Live(r)' => Owns(r)'
  PROVE  SnapInv'
  <1>1. ASSUME NEW q \in Runs, q # r PROVE KeepsTrack(q)'
    <2>1. run'[q] = run[q] BY <1>1 DEF StepApart
    <2>2. KeepsTrack(q) BY DEF SnapInv
    <2>3. /\ \A t \in tracked' : t.run = q => t \in tracked
          /\ \A m \in mounts' : m.run = q => m \in mounts
          /\ \A t \in tracers' : t.run = q => t \in tracers
      BY <1>1 DEF StepApart
    <2> QED BY <2>1, <2>2, <2>3 DEF KeepsTrack, AtPath, Snap, Device
  <1>2. ASSUME ~disputed', NEW q \in Runs, q # r, Live(q)' PROVE Owns(q)'
    <2>1. run'[q] = run[q] BY <1>2 DEF StepApart
    <2>2. Live(q) /\ Owns(q) BY <1>2, <2>1 DEF StepApart, SnapInv, Live
    <2>3. ASSUME NEW t \in tracers, t.device \in Range(Paths[q]) PROVE t \in tracers'
      <3>1. Live(r) => Range(Paths[q]) \cap Range(Paths[r]) = {}
        BY <1>2, <2>2 DEF SnapInv, PathsApart, StepApart
      <3> QED BY <1>2, <2>3, <3>1 DEF StepApart
    <2>4. \A s \in Range(run[q].created) :
            /\ s \in tracers' /\ s.run = q /\ s.device \in Range(Paths[q])
            /\ NeedFiles[q] => [minor |-> s.minor, run |-> q] \in mounts'
      BY <1>2, <2>2, <2>3 DEF Owns, StepApart
    <2>5. run[q].pc \in {"wait", "mount", "undo"} => Snap(q) \in tracers'
      <3>1. run[q].pc \in {"wait", "mount", "undo"} =>
              Snap(q) \in tracers /\ Snap(q).device \in Range(Paths[q])
        BY <2>2, SnapType DEF Owns, AtPath
      <3> QED BY <2>3, <3>1
    <2>6. ASSUME run[q].pc = "destroy", NEW minor \in run[q].stale
          PROVE  \E t \in tracers' : t.minor = minor /\ t.device = Device(q)
      <3>1. \E t \in tracers : t.minor = minor /\ t.device = Device(q) BY <2>2, <2>6 DEF Owns
      <3>2. Device(q) \in Range(Paths[q]) BY <2>6, SnapType DEF AtPath
      <3> QED BY <2>3, <3>1, <3>2
    <2> QED BY <2>1, <2>2, <2>4, <2>5, <2>6 DEF Owns, AtPath, Shares, Snap, Device
  <1>3. \A q \in Runs : KeepsTrack(q)' BY <1>1
  <1>4. ~disputed' => PathsApart' /\ \A q \in Runs : Live(q)' => Owns(q)'
    BY <1>2 DEF StepApart
  <1> QED BY <1>3, <1>4 DEF SnapInv

\* A step that moves run r to another label, and leaves the kernel and the lists alone.
ControlStep(r) ==
  /\ run' \in [Runs -> SnapRecords]
  /\ \A q \in Runs : q # r => run'[q] = run[q]
  /\ run'[r].created = run[r].created
  /\ UNCHANGED <<tracers, mounts, tracked>>

LEMMA ControlMoves ==
  ASSUME SnapInv, NEW r \in Runs, ControlStep(r), disputed' = disputed, Live(r)' => Live(r),
         KeepsTrack(r)', ~disputed /\ Live(r)' => Owns(r)'
  PROVE  SnapInv'
  <1> USE DEF ControlStep
  <1>1. SnapTypes' BY DEF SnapInv, SnapTypes
  <1>2. TracersDiffer' BY DEF SnapInv, TracersDiffer
  <1>3. ASSUME ~disputed PROVE PathsApart'
    <2>1. \A q \in Runs : Live(q)' => Live(q) BY DEF Live
    <2> QED BY <1>3, <2>1 DEF SnapInv, PathsApart
  <1>4. StepApart(r) BY <1>3 DEF StepApart
  <1> QED BY <1>1, <1>2, <1>4, SnapMoves

\* Run r goes to `label`, and does nothing else but note an error.
GoesTo(r, label) ==
  /\ run'[r].pc = label /\ run'[r].at = run[r].at /\ run'[r].minor = run[r].minor
  /\ run'[r].stale = run[r].stale /\ run'[r].created = run[r].created
  /\ ~run'[r].failed => ~run[r].failed

LEMMA Goes ==
  ASSUME SnapTypes, NEW r \in Runs, NEW label \in SnapLabels,
         run' \in {[run EXCEPT ![r].pc = label],
                   [run EXCEPT ![r].pc = label, ![r].failed = TRUE]}
  PROVE  /\ run' \in [Runs -> SnapRecords]
         /\ \A q \in Runs : q # r => run'[q] = run[q]
         /\ GoesTo(r, label)
  <1>1. run \in [Runs -> SnapRecords] /\ run[r] \in SnapRecords BY DEF SnapTypes
  <1>2. run' = [run EXCEPT ![r] = run'[r]]
        /\ run'[r] \in {[run[r] EXCEPT !.pc = label],
                        [run[r] EXCEPT !.pc = label, !.failed = TRUE]}
    BY <1>1
  <1>3. run'[r] \in SnapRecords BY <1>1, <1>2 DEF SnapRecords
  <1>4. run' \in [Runs -> SnapRecords] BY <1>1, <1>2, <1>3
  <1>5. \A q \in Runs : q # r => run'[q] = run[q] BY <1>1, <1>2
  <1>6. GoesTo(r, label) BY <1>1, <1>2 DEF SnapRecords, GoesTo
  <1> QED BY <1>4, <1>5, <1>6

\* From these labels to those a run keeps what it has, and knows it.
Passes(from, to) ==
  \/ from = "path" /\ to = "cleanup"
  \/ from \in {"destroy", "setup"} /\ to = "cleanup"
  \/ from = "mount" /\ to = "undo"
  \/ from = "undone" /\ to = "cleanup"
  \/ from = "reading" /\ to = "cleanup"

LEMMA Passing ==
  ASSUME SnapInv, NEW r \in Runs, NEW label \in SnapLabels, Passes(run[r].pc, label),
         run' \in {[run EXCEPT ![r].pc = label],
                   [run EXCEPT ![r].pc = label, ![r].failed = TRUE]},
         UNCHANGED <<tracers, mounts, tracked, disputed>>
  PROVE  SnapInv'
  <1> USE DEF Passes
  <1>1. /\ run' \in [Runs -> SnapRecords]
        /\ \A q \in Runs : q # r => run'[q] = run[q]
        /\ GoesTo(r, label)
    BY Goes DEF SnapInv
  <1>2. Device(r)' = Device(r) /\ Snap(r)' = Snap(r)
    BY <1>1 DEF GoesTo, Device, Snap
  <1>3. ControlStep(r) BY <1>1 DEF GoesTo, ControlStep
  <1>4. KeepsTrack(r)'
    <2>1. KeepsTrack(r) BY DEF SnapInv
    <2>2. run'[r].pc = label /\ label \in {"cleanup", "undo"} BY <1>1 DEF GoesTo
    <2>3. run'[r].created = run[r].created /\ run'[r].at = run[r].at
          /\ (~run'[r].failed => ~run[r].failed)
      BY <1>1 DEF GoesTo
    <2>4. label = "undo" => run[r].pc = "mount" OBVIOUS
    <2>5. AtPath(r)' => run'[r].at <= Len(Paths[r])
      BY <2>1, <2>2, <2>3, <2>4 DEF KeepsTrack, AtPath
    <2>6. \A t \in tracked' : t.run = r =>
            t \in Range(run'[r].created) \/ (t = Snap(r)' /\ run'[r].pc \in {"mount", "undo"})
      BY <1>2, <2>1, <2>2, <2>3, <2>4 DEF KeepsTrack
    <2>7. \A m \in mounts' : m.run = r /\ run'[r].pc # "dead" =>
            \E s \in Range(run'[r].created) : s.minor = m.minor
      BY <2>1, <2>2, <2>3 DEF KeepsTrack
    <2>8. \A t \in tracers' : t.run = r /\ run'[r].pc # "dead" /\ ~run'[r].failed =>
            \/ t \in Range(run'[r].created)
            \/ t = Snap(r)' /\ run'[r].pc \in {"wait", "mount", "undo"}
      BY <1>2, <2>1, <2>2, <2>3, <2>4 DEF KeepsTrack
    <2> QED BY <2>2, <2>5, <2>6, <2>7, <2>8 DEF KeepsTrack
  <1>5. Live(r) BY DEF Live
  <1>6. ~disputed => Owns(r)'
    BY <1>1, <1>2, <1>5 DEF GoesTo, SnapInv, Owns, AtPath, Shares
  <1> QED BY <1>3, <1>4, <1>5, <1>6, ControlMoves

LEMMA BeginStep ==
  ASSUME SnapInv, NEW r \in Runs, Begin(r)
  PROVE  SnapInv'
  <1> USE DEF Begin, At, Goto, kernelVars
  <1>1. /\ run' \in [Runs -> SnapRecords]
        /\ \A q \in Runs : q # r => run'[q] = run[q]
        /\ GoesTo(r, "path")
    BY Goes DEF SnapInv, SnapLabels
  <1>2. run[r].created = <<>> /\ run[r].at = 1 BY DEF SnapInv, KeepsTrack
  <1>3. SnapTypes' /\ TracersDiffer' BY <1>1 DEF SnapInv, SnapTypes, TracersDiffer
  <1>4. ASSUME ~disputed' PROVE ~disputed /\ PathsApart'
    <2>1. ~disputed /\ \A q \in Runs : Live(q) => Range(Paths[q]) \cap Range(Paths[r]) = {}
      BY <1>4
    <2>2. \A q \in Runs : q # r => (Live(q)' <=> Live(q)) BY <1>1 DEF Live
    <2> QED BY <2>1, <2>2 DEF SnapInv, PathsApart
  <1>5. StepApart(r) BY <1>1, <1>4 DEF StepApart
  <1>6. KeepsTrack(r)'
    BY <1>1, <1>2, EmptyRange DEF GoesTo, SnapInv, KeepsTrack, AtPath
  <1>7. Owns(r)'
    <2>1. Range(<<>>) = {} /\ DOMAIN <<>> = {} BY EmptyRange
    <2>2. \A i \in 1..Len(Paths[r]) : ~(i < 1) BY PathsType
    <2> QED BY <1>1, <1>2, <2>1, <2>2 DEF GoesTo, Owns, AtPath
  <1> QED BY <1>3, <1>5, <1>6, <1>7, SnapMoves

LEMMA NoControlStep ==
  ASSUME SnapInv, NEW r \in Runs, NoControl(r)
  PROVE  SnapInv'
  <1> USE DEF NoControl, At, kernelVars
  <1>1. /\ run' \in [Runs -> SnapRecords]
        /\ \A q \in Runs : q # r => run'[q] = run[q]
        /\ GoesTo(r, "done")
    BY Goes DEF SnapInv, SnapLabels
  <1>2. ControlStep(r) BY <1>1 DEF GoesTo, ControlStep
  <1>3. ~Live(r)' BY <1>1 DEF GoesTo, Live
  <1>4. KeepsTrack(r)' BY <1>1 DEF GoesTo, SnapInv, KeepsTrack, AtPath
  <1> QED BY <1>2, <1>3, <1>4, ControlMoves

LEMMA SharePathStep ==
  ASSUME SnapInv, NEW r \in Runs, SharePath(r)
  PROVE  SnapInv'
  <1> USE DEF SharePath, At, kernelVars
  <1>1. run[r] \in SnapRecords BY DEF SnapInv, SnapTypes
  <1>2. /\ run' \in [Runs -> SnapRecords]
        /\ \A q \in Runs : q # r => run'[q] = run[q]
        /\ run'[r] = [run[r] EXCEPT !.at = @ + 1]
    <2>1. run' = [run EXCEPT ![r] = [run[r] EXCEPT !.at = @ + 1]] OBVIOUS
    <2>2. [run[r] EXCEPT !.at = @ + 1] \in SnapRecords BY <1>1 DEF SnapRecords
    <2> QED BY <2>1, <2>2 DEF SnapInv, SnapTypes
  <1>3. /\ run'[r].pc = "path" /\ run'[r].at = run[r].at + 1
        /\ run'[r].created = run[r].created /\ run'[r].failed = run[r].failed
    BY <1>1, <1>2 DEF SnapRecords
  <1>4. ControlStep(r) BY <1>2, <1>3 DEF ControlStep
  <1>5. Live(r) BY DEF Live
  <1>6. KeepsTrack(r)' BY <1>3 DEF SnapInv, KeepsTrack, AtPath, kernelVars
  <1>7. ASSUME ~disputed PROVE Owns(r)'
    <2>1. Owns(r) BY <1>5, <1>7 DEF SnapInv
    <2>2. run[r].at \in Nat BY <1>1 DEF SnapRecords
    <2>3. \E s \in Range(run[r].created) : s.device = Paths[r][run[r].at] BY DEF Shares, Device
    <2>4. ASSUME NEW i \in 1..Len(Paths[r]), i < run[r].at + 1
          PROVE  \E s \in Range(run[r].created) : s.device = Paths[r][i]
      <3>1. i \in Int /\ (i < run[r].at \/ i = run[r].at) BY <2>2, <2>4, PathsType
      <3> QED BY <2>1, <2>3, <3>1 DEF Owns
    <2> QED BY <1>3, <2>1, <2>4 DEF Owns, AtPath, kernelVars
  <1> QED BY <1>4, <1>5, <1>6, <1>7, ControlMoves

LEMMA ReadInfoStep ==
  ASSUME SnapInv, NEW r \in Runs, ReadInfo(r)
  PROVE  SnapInv'
  <1> USE DEF ReadInfo, At, kernelVars
  <1>1. CASE Fail(r)
    BY <1>1, Passing DEF Fail, Passes, SnapLabels
  <1>2. CASE run' = [run EXCEPT ![r].pc = "destroy", ![r].stale = StaleTracers(Device(r))]
    <2>1. run[r] \in SnapRecords BY DEF SnapInv, SnapTypes
    <2>2. StaleTracers(Device(r)) \subseteq Minors
      BY DEF StaleTracers, SnapInv, SnapTypes, Snaps
    <2>3. /\ \A q \in Runs : q # r => run'[q] = run[q]
          /\ run'[r] = [run[r] EXCEPT !.pc = "destroy", !.stale = StaleTracers(Device(r))]
      BY <1>2 DEF SnapInv, SnapTypes
    <2>4. /\ run'[r].pc = "destroy" /\ run'[r].at = run[r].at /\ run'[r] \in SnapRecords
          /\ run'[r].stale = StaleTracers(Device(r))
          /\ run'[r].created = run[r].created /\ run'[r].failed = run[r].failed
      BY <2>1, <2>2, <2>3 DEF SnapRecords, SnapLabels
    <2>5. run' \in [Runs -> SnapRecords] BY <1>2, <2>4 DEF SnapInv, SnapTypes
    <2>6. ControlStep(r) BY <2>3, <2>4, <2>5 DEF ControlStep
    <2>7. Live(r) BY DEF Live
    <2>8. KeepsTrack(r)' BY <2>4 DEF SnapInv, KeepsTrack, AtPath, kernelVars
    <2>9. ASSUME ~disputed PROVE Owns(r)'
      <3>1. Owns(r) BY <2>7, <2>9 DEF SnapInv
      <3>2. Device(r)' = Device(r) /\ (Shares(r)' <=> Shares(r)) BY <2>4 DEF Device, Shares
      <3>3. \A minor \in StaleTracers(Device(r)) :
              \E t \in tracers : t.minor = minor /\ t.device = Device(r)
        BY DEF StaleTracers
      <3> QED BY <2>4, <3>1, <3>2, <3>3 DEF Owns, AtPath, kernelVars
    <2> QED BY <2>6, <2>7, <2>8, <2>9, ControlMoves
  <1> QED BY <1>1, <1>2

\* While nobody else has its devices, the tracer a run destroys is on the one it is at.
LEMMA StaleIsOnDevice ==
  ASSUME SnapInv, ~disputed, NEW r \in Runs, DestroyStaleTracer(r),
         NEW t \in tracers, t \notin tracers'
  PROVE  t.device = Device(r)
  <1>1. run[r].pc = "destroy" /\ Owns(r)
    BY DEF DestroyStaleTracer, At, Live, SnapInv
  <1>2. PICK minor \in run[r].stale : tracers' \in {tracers, Without(minor)}
    BY DEF DestroyStaleTracer
  <1>3. PICK u \in tracers : u.minor = minor /\ u.device = Device(r) BY <1>1 DEF Owns
  <1>4. t.minor = minor BY <1>2 DEF Without
  <1>5. t = u BY <1>3, <1>4 DEF SnapInv, TracersDiffer
  <1> QED BY <1>3, <1>5

LEMMA DestroyStaleTracerStep ==
  ASSUME SnapInv, NEW r \in Runs, DestroyStaleTracer(r)
  PROVE  SnapInv'
  <1>1. /\ run[r].pc = "destroy" /\ Live(r) /\ AtPath(r)
        /\ UNCHANGED <<mounts, tracked, disputed, faults>>
    BY DEF DestroyStaleTracer, At, Live, AtPath
  <1>2. run[r] \in SnapRecords BY DEF SnapInv, SnapTypes
  <1>3. PICK minor \in run[r].stale : DestroyStaleTracer(r)!2!(minor)
    BY DEF DestroyStaleTracer
  <1> DEFINE rest == run[r].stale \ {minor}
  <1>4. /\ tracers' \in {tracers, Without(minor)}
        /\ run' \in {[run EXCEPT ![r].stale = rest],
                     [run EXCEPT ![r].stale = rest, ![r].failed = TRUE]}
    BY <1>3
  <1>5. run' = [run EXCEPT ![r] = run'[r]]
        /\ run'[r] \in {[run[r] EXCEPT !.stale = rest],
                        [run[r] EXCEPT !.stale = rest, !.failed = TRUE]}
    BY <1>4 DEF SnapInv, SnapTypes
  <1>6. /\ run'[r] \in SnapRecords /\ run'[r].pc = "destroy" /\ run'[r].at = run[r].at
        /\ run'[r].stale = rest /\ run'[r].created = run[r].created
        /\ run'[r].minor = run[r].minor /\ (~run'[r].failed => ~run[r].failed)
    <2>1. PICK was, now : was = run[r] /\ now = run'[r] OBVIOUS
    <2>2. was \in SnapRecords /\ rest \subseteq was.stale BY <1>2, <2>1
    <2> HIDE DEF rest
    <2>3. rest \in SUBSET Minors BY <2>2 DEF SnapRecords
    <2>4. CASE now = [was EXCEPT !.stale = rest]
      <3>1. /\ now.pc = was.pc /\ now.at = was.at /\ now.stale = rest /\ now.failed = was.failed
            /\ now.created = was.created /\ now.minor = was.minor
        BY <2>2, <2>4 DEF SnapRecords
      <3>2. now \in SnapRecords BY <2>2, <2>3, <2>4 DEF SnapRecords
      <3> QED BY <1>1, <2>1, <3>1, <3>2
    <2>5. CASE now = [was EXCEPT !.stale = rest, !.failed = TRUE]
      <3>1. /\ now.pc = was.pc /\ now.at = was.at /\ now.stale = rest /\ now.failed
            /\ now.created = was.created /\ now.minor = was.minor
        BY <2>2, <2>5 DEF SnapRecords
      <3>2. now \in SnapRecords BY <2>2, <2>3, <2>5 DEF SnapRecords
      <3> QED BY <1>1, <2>1, <3>1, <3>2
    <2> QED BY <1>5, <2>1, <2>4, <2>5
  <1>7. run' \in [Runs -> SnapRecords] /\ \A q \in Runs : q # r => run'[q] = run[q]
    BY <1>5, <1>6 DEF SnapInv, SnapTypes
  <1>8. tracers' \subseteq tracers /\ \A t \in tracers : t \notin tracers' => t.minor = minor
    BY <1>4 DEF Without
  <1>9. SnapTypes' /\ TracersDiffer'
    BY <1>1, <1>7, <1>8 DEF SnapInv, SnapTypes, TracersDiffer
  <1>10. KeepsTrack(r)'
    <2>1. KeepsTrack(r) BY DEF SnapInv
    <2> QED BY <1>1, <1>6, <1>8, <2>1 DEF KeepsTrack, AtPath
  <1>11. Device(r)' = Device(r) /\ (Shares(r)' <=> Shares(r)) BY <1>6 DEF Device, Shares
  <1>12. ASSUME ~disputed, NEW t \in tracers, t \notin tracers' PROVE t.device = Device(r)
    BY <1>12, StaleIsOnDevice
  <1>13. ASSUME ~disputed PROVE Owns(r)'
    <2>1. Owns(r) /\ ~Shares(r) BY <1>1, <1>13 DEF SnapInv, Owns
    <2>2. ASSUME NEW s \in Range(run[r].created) PROVE s \in tracers'
      <3>1. s \in tracers BY <2>1 DEF Owns
      <3>2. s.device # Device(r) BY <2>1 DEF Shares
      <3> QED BY <1>12, <1>13, <3>1, <3>2
    <2>3. ASSUME NEW m \in rest PROVE \E t \in tracers' : t.minor = m /\ t.device = Device(r)
      <3>1. PICK t \in tracers : t.minor = m /\ t.device = Device(r) BY <1>1, <2>1 DEF Owns
      <3> QED BY <1>8, <3>1
    <2>4. \A s \in Range(run'[r].created) :
            /\ s \in tracers' /\ s.run = r /\ s.device \in Range(Paths[r])
            /\ NeedFiles[r] => [minor |-> s.minor, run |-> r] \in mounts'
      BY <1>1, <1>6, <2>1, <2>2 DEF Owns
    <2>5. \A i \in 1..Len(Paths[r]) : i < run'[r].at =>
            \E s \in Range(run'[r].created) : s.device = Paths[r][i]
      BY <1>1, <1>6, <2>1 DEF Owns
    <2>6. \A i, j \in DOMAIN run'[r].created :
            run'[r].created[i].device = run'[r].created[j].device => i = j
      BY <1>6, <2>1 DEF Owns
    <2> QED BY <1>6, <1>11, <2>1, <2>3, <2>4, <2>5, <2>6 DEF Owns
  <1>14. ASSUME ~disputed' PROVE ~disputed /\ PathsApart'
    <2>1. \A q \in Runs : Live(q)' <=> Live(q) BY <1>1, <1>6, <1>7 DEF Live
    <2> QED BY <1>1, <1>14, <2>1 DEF SnapInv, PathsApart
  <1>15. StepApart(r)
    <2>1. Device(r) \in Range(Paths[r]) BY <1>1, SnapType
    <2> QED BY <1>1, <1>7, <1>8, <1>12, <1>14, <2>1 DEF StepApart
  <1> QED BY <1>1, <1>9, <1>10, <1>13, <1>15, SnapMoves

LEMMA AllocMinorStep ==
  ASSUME SnapInv, NEW r \in Runs, AllocMinor(r)
  PROVE  SnapInv'
  <1>1. /\ run[r].pc = "destroy" /\ Live(r) /\ AtPath(r)
        /\ UNCHANGED <<tracers, mounts, tracked, disputed, faults>>
    BY DEF AllocMinor, At, Live, AtPath
  <1>2. CASE Fail(r)
    BY <1>1, <1>2, Passing DEF Fail, Passes, SnapLabels
  <1>3. CASE run' = [run EXCEPT ![r].pc = "setup", ![r].minor = Min(FreeMinors(r))]
             /\ FreeMinors(r) # {}
    <2>1. Min(FreeMinors(r)) \in Minors
      <3>1. FreeMinors(r) \subseteq Minors /\ FreeMinors(r) \in SUBSET Nat
        BY SnapshotAssumption DEF FreeMinors, Minors
      <3> QED BY <1>3, <3>1, MinIsIn
    <2>2. run[r] \in SnapRecords BY DEF SnapInv, SnapTypes
    <2>3. run' = [run EXCEPT ![r] = run'[r]]
          /\ run'[r] = [run[r] EXCEPT !.pc = "setup", !.minor = Min(FreeMinors(r))]
      BY <1>3 DEF SnapInv, SnapTypes
    <2>4. /\ run'[r] \in SnapRecords /\ run'[r].pc = "setup" /\ run'[r].at = run[r].at
          /\ run'[r].created = run[r].created /\ run'[r].failed = run[r].failed
      BY <2>1, <2>2, <2>3 DEF SnapRecords, SnapLabels
    <2>5. run' \in [Runs -> SnapRecords] /\ \A q \in Runs : q # r => run'[q] = run[q]
      BY <2>3, <2>4 DEF SnapInv, SnapTypes
    <2>6. Device(r)' = Device(r) /\ (Shares(r)' <=> Shares(r)) BY <2>4 DEF Device, Shares
    <2>7. KeepsTrack(r)'
      <3>1. KeepsTrack(r) BY DEF SnapInv
      <3> QED BY <1>1, <2>4, <3>1 DEF KeepsTrack, AtPath
    <2>8. ASSUME ~disputed PROVE Owns(r)'
      <3>1. Owns(r) BY <1>1, <2>8 DEF SnapInv
      <3> QED BY <1>1, <2>4, <2>6, <3>1 DEF Owns, AtPath
    <2>9. SnapTypes' /\ TracersDiffer' BY <1>1, <2>5 DEF SnapInv, SnapTypes, TracersDiffer
    <2>10. \A q \in Runs : Live(q)' <=> Live(q) BY <1>1, <2>4, <2>5 DEF Live
    <2>11. StepApart(r) BY <1>1, <2>5, <2>10 DEF StepApart, SnapInv, PathsApart
    <2> QED BY <1>1, <2>7, <2>8, <2>9, <2>11, SnapMoves
  <1> QED BY <1>2, <1>3 DEF AllocMinor

LEMMA SetupStep ==
  ASSUME SnapInv, NEW r \in Runs, Setup(r)
  PROVE  SnapInv'
  <1>1. /\ run[r].pc = "setup" /\ Live(r) /\ AtPath(r)
        /\ UNCHANGED <<mounts, tracked, disputed, faults>>
    BY DEF Setup, At, Live, AtPath
  <1>2. /\ Device(r) \in Range(Paths[r]) /\ Snap(r) \in Snaps /\ Snap(r).run = r
        /\ Snap(r).device = Device(r) /\ Snap(r).minor = run[r].minor
    BY <1>1, SnapType
  <1>3. CASE Fail(r) /\ tracers' = tracers
    BY <1>1, <1>3, Passing DEF Fail, Passes, SnapLabels
  <1>4. CASE /\ CanSetup(Device(r), run[r].minor) /\ tracers' = tracers \cup {Snap(r)}
             /\ Goto(r, "wait")
    <2>1. /\ run' \in [Runs -> SnapRecords]
          /\ \A q \in Runs : q # r => run'[q] = run[q]
          /\ GoesTo(r, "wait")
      BY <1>4, Goes DEF SnapInv, SnapLabels, Goto
    <2>2. SnapTypes' BY <1>1, <1>2, <1>4, <2>1 DEF SnapInv, SnapTypes
    <2>3. TracersDiffer'
      <3>1. \A t \in tracers : t.minor # Snap(r).minor /\ t.device # Snap(r).device
        BY <1>2, <1>4 DEF CanSetup
      <3> QED BY <1>4, <3>1 DEF SnapInv, TracersDiffer
    <2>4. Device(r)' = Device(r) /\ Snap(r)' = Snap(r) /\ (Shares(r)' <=> Shares(r))
      BY <2>1 DEF GoesTo, Device, Snap, Shares
    <2>5. KeepsTrack(r)'
      <3>1. KeepsTrack(r) BY DEF SnapInv
      <3>2. run'[r].pc = "wait" /\ run'[r].created = run[r].created /\ run'[r].at = run[r].at
            /\ (~run'[r].failed => ~run[r].failed)
        BY <2>1 DEF GoesTo
      <3> QED BY <1>1, <1>4, <2>4, <3>1, <3>2 DEF KeepsTrack, AtPath
    <2>6. ASSUME ~disputed PROVE Owns(r)'
      <3>1. Owns(r) BY <1>1, <2>6 DEF SnapInv
      <3> QED BY <1>1, <1>4, <2>1, <2>4, <3>1 DEF GoesTo, Owns, AtPath
    <2>7. \A q \in Runs : Live(q)' <=> Live(q) BY <1>1, <2>1 DEF Live, GoesTo
    <2>8. ~disputed => PathsApart' BY <2>7 DEF SnapInv, PathsApart
    <2>9. StepApart(r) BY <1>1, <1>2, <1>4, <2>1, <2>8 DEF StepApart
    <2> QED BY <1>1, <2>2, <2>3, <2>5, <2>6, <2>9, SnapMoves
  <1> QED BY <1>3, <1>4 DEF Setup

LEMMA WaitForDeviceStep ==
  ASSUME SnapInv, NEW r \in Runs, WaitForDevice(r)
  PROVE  SnapInv'
  <1>1. /\ run[r].pc = "wait" /\ Live(r) /\ AtPath(r)
        /\ UNCHANGED <<kernelVars, disputed>>
        /\ run' \in {[run EXCEPT ![r].pc = "mount"], [run EXCEPT ![r].pc = "undo"]}
        /\ tracked' \in {tracked, tracked \cup {Snap(r)}}
        /\ tracked' # tracked => run' = [run EXCEPT ![r].pc = "mount"]
    BY DEF WaitForDevice, At, Live, AtPath, Goto
  <1>2. PICK label \in {"mount", "undo"} :
          /\ run' = [run EXCEPT ![r].pc = label]
          /\ tracked' # tracked => label = "mount"
    BY <1>1
  <1>3. /\ run' \in [Runs -> SnapRecords]
        /\ \A q \in Runs : q # r => run'[q] = run[q]
        /\ GoesTo(r, label)
    BY <1>2, Goes DEF SnapInv, SnapLabels
  <1>4. Snap(r) \in Snaps /\ Snap(r).run = r BY <1>1, SnapType
  <1>5. SnapTypes' /\ TracersDiffer'
    BY <1>1, <1>3, <1>4 DEF SnapInv, SnapTypes, TracersDiffer, kernelVars
  <1>6. Device(r)' = Device(r) /\ Snap(r)' = Snap(r) /\ (Shares(r)' <=> Shares(r))
    BY <1>3 DEF GoesTo, Device, Snap, Shares
  <1>7. KeepsTrack(r)'
    <2>1. KeepsTrack(r) BY DEF SnapInv
    <2>2. run'[r].pc = label /\ run'[r].created = run[r].created /\ run'[r].at = run[r].at
          /\ (~run'[r].failed => ~run[r].failed)
      BY <1>3 DEF GoesTo
    <2> QED BY <1>1, <1>2, <1>6, <2>1, <2>2 DEF KeepsTrack, AtPath, kernelVars
  <1>8. ASSUME ~disputed PROVE Owns(r)'
    <2>1. Owns(r) BY <1>1, <1>8 DEF SnapInv
    <2> QED BY <1>1, <1>2, <1>3, <1>6, <2>1 DEF GoesTo, Owns, AtPath, kernelVars
  <1>9. \A q \in Runs : Live(q)' <=> Live(q) BY <1>1, <1>3 DEF Live, GoesTo
  <1>10. ~disputed => PathsApart' BY <1>9 DEF SnapInv, PathsApart
  <1>11. StepApart(r) BY <1>1, <1>3, <1>4, <1>10 DEF StepApart, kernelVars
  <1> QED BY <1>1, <1>5, <1>7, <1>8, <1>11, SnapMoves

LEMMA MountReadOnlyStep ==
  ASSUME SnapInv, NEW r \in Runs, MountReadOnly(r)
  PROVE  SnapInv'
  <1>1. /\ run[r].pc = "mount" /\ Live(r) /\ AtPath(r)
        /\ UNCHANGED <<tracers, cowFiles, tracked, disputed>>
    BY DEF MountReadOnly, At, Live, AtPath
  <1>2. CASE Goto(r, "undo") /\ mounts' = mounts
    BY <1>1, <1>2, Passing DEF Goto, Passes, SnapLabels
  <1>3. CASE /\ Created(r)
             /\ \/ ~NeedFiles[r] /\ mounts' = mounts
                \/ mounts' = mounts \cup {[minor |-> run[r].minor, run |-> r]}
    <2> DEFINE made == Append(run[r].created, Snap(r))
    <2>1. run[r] \in SnapRecords /\ run[r].created \in Seq(Snaps) /\ run[r].at \in Nat
      BY DEF SnapInv, SnapTypes, SnapRecords
    <2>2. /\ run[r].at \in 1..Len(Paths[r]) /\ Device(r) = Paths[r][run[r].at]
          /\ Device(r) \in Range(Paths[r]) /\ Snap(r) \in Snaps /\ Snap(r).run = r
          /\ Snap(r).device = Device(r) /\ Snap(r).minor = run[r].minor
      BY <1>1, SnapType
    <2>3. /\ made \in Seq(Snaps) /\ Range(made) = Range(run[r].created) \cup {Snap(r)}
          /\ Len(run[r].created) \in Nat
          /\ DOMAIN made = 1..Len(run[r].created)+1
          /\ DOMAIN run[r].created = 1..Len(run[r].created)
          /\ made[Len(run[r].created)+1] = Snap(r)
          /\ \A i \in 1..Len(run[r].created) : made[i] = run[r].created[i]
      BY <2>1, <2>2, Appended
    <2> HIDE DEF made
    <2>4. run' = [run EXCEPT ![r].pc = "path", ![r].at = @ + 1, ![r].created = made]
      BY <1>3 DEF Created, made
    <2>5. run' = [run EXCEPT ![r] = run'[r]]
          /\ run'[r] = [run[r] EXCEPT !.pc = "path", !.at = @ + 1, !.created = made]
      BY <2>4 DEF SnapInv, SnapTypes
    <2>6. /\ run'[r] \in SnapRecords /\ run'[r].pc = "path" /\ run'[r].at = run[r].at + 1
          /\ run'[r].created = made /\ run'[r].failed = run[r].failed
      <3>1. run'[r] = [pc |-> "path", at |-> run[r].at + 1, stale |-> run[r].stale,
                       minor |-> run[r].minor, created |-> made, failed |-> run[r].failed]
        BY <2>1, <2>5 DEF SnapRecords
      <3>2. run[r].at + 1 \in Nat \ {0} /\ run[r].stale \in SUBSET Minors
            /\ run[r].minor \in Minors /\ run[r].failed \in BOOLEAN
        BY <2>1 DEF SnapRecords
      <3>3. run'[r] \in SnapRecords BY <2>3, <3>1, <3>2 DEF SnapRecords, SnapLabels
      <3> QED BY <3>1, <3>3
    <2>7. run' \in [Runs -> SnapRecords] /\ \A q \in Runs : q # r => run'[q] = run[q]
      BY <2>5, <2>6 DEF SnapInv, SnapTypes
    <2>8. mounts' \subseteq [minor : Minors, run : Runs]
      <3>1. run[r].minor \in Minors BY <2>1 DEF SnapRecords
      <3> QED BY <1>3, <3>1 DEF SnapInv, SnapTypes
    <2>9. SnapTypes' /\ TracersDiffer'
      BY <1>1, <2>7, <2>8 DEF SnapInv, SnapTypes, TracersDiffer
    <2>10. KeepsTrack(r)'
      <3>1. KeepsTrack(r) BY DEF SnapInv
      <3>2. \A t \in tracked' : t.run = r => t \in Range(made)
        BY <1>1, <2>3, <3>1 DEF KeepsTrack
      <3>3. \A m \in mounts' : m.run = r => \E s \in Range(made) : s.minor = m.minor
        <4> SUFFICES ASSUME NEW m \in mounts', m.run = r
                     PROVE  \E s \in Range(made) : s.minor = m.minor
          OBVIOUS
        <4>1. CASE m \in mounts BY <1>1, <2>3, <3>1, <4>1 DEF KeepsTrack
        <4>2. CASE m = [minor |-> run[r].minor, run |-> r] BY <2>2, <2>3, <4>2
        <4> QED BY <1>3, <4>1, <4>2
      <3>4. \A t \in tracers' : t.run = r /\ ~run'[r].failed => t \in Range(made)
        BY <1>1, <2>3, <2>6, <3>1 DEF KeepsTrack
      <3> QED BY <2>6, <3>2, <3>3, <3>4 DEF KeepsTrack, AtPath
    <2>11. ASSUME ~disputed PROVE Owns(r)'
      <3>1. Owns(r) /\ ~Shares(r) /\ Snap(r) \in tracers BY <1>1, <2>11 DEF SnapInv, Owns
      <3>2. \A s \in Range(made) :
              /\ s \in tracers' /\ s.run = r /\ s.device \in Range(Paths[r])
              /\ NeedFiles[r] => [minor |-> s.minor, run |-> r] \in mounts'
        <4> SUFFICES ASSUME NEW s \in Range(made)
                     PROVE  /\ s \in tracers' /\ s.run = r /\ s.device \in Range(Paths[r])
                            /\ NeedFiles[r] => [minor |-> s.minor, run |-> r] \in mounts'
          OBVIOUS
        <4>1. CASE s \in Range(run[r].created) BY <1>1, <1>3, <3>1, <4>1 DEF Owns
        <4>2. CASE s = Snap(r) BY <1>1, <1>3, <2>2, <3>1, <4>2
        <4> QED BY <2>3, <4>1, <4>2
      <3>3. ASSUME NEW i \in DOMAIN made, NEW j \in DOMAIN made, made[i].device = made[j].device
            PROVE  i = j
        <4> DEFINE n == Len(run[r].created)
        <4>1. n \in Nat /\ i \in 1..n+1 /\ j \in 1..n+1 BY <2>3
        <4>2. \A k \in 1..n : made[k].device # Device(r)
          <5>1. \A k \in 1..n : made[k] \in Range(run[r].created) BY <2>3 DEF Range
          <5> QED BY <3>1, <5>1 DEF Shares
        <4>3. made[n+1].device = Device(r) BY <2>2, <2>3
        <4>4. \A k, l \in 1..n : made[k].device = made[l].device => k = l
          BY <2>3, <3>1 DEF Owns
        <4> HIDE DEF n
        <4>5. (i \in 1..n \/ i = n+1) /\ (j \in 1..n \/ j = n+1) BY <4>1
        <4> QED BY <3>3, <4>2, <4>3, <4>4, <4>5
      <3>4. ASSUME NEW i \in 1..Len(Paths[r]), i < run[r].at + 1
            PROVE  \E s \in Range(made) : s.device = Paths[r][i]
        <4>1. i \in Int /\ (i < run[r].at \/ i = run[r].at) BY <2>1, <3>4, PathsType
        <4>2. CASE i < run[r].at BY <1>1, <2>3, <3>1, <4>2 DEF Owns
        <4>3. CASE i = run[r].at BY <2>2, <2>3, <4>3
        <4> QED BY <4>1, <4>2, <4>3
      <3> QED BY <2>6, <3>2, <3>3, <3>4 DEF Owns, AtPath
    <2>12. \A q \in Runs : Live(q)' <=> Live(q) BY <1>1, <2>6, <2>7 DEF Live
    <2>13. ~disputed => PathsApart' BY <2>12 DEF SnapInv, PathsApart
    <2>14. StepApart(r) BY <1>1, <1>3, <2>7, <2>13 DEF StepApart
    <2> QED BY <1>1, <2>9, <2>10, <2>11, <2>14, SnapMoves
  <1> QED BY <1>2, <1>3 DEF MountReadOnly

\* Clean-up of snapshot s of run r, which leaves `rest` in its list.
LEMMA CleansUp ==
  ASSUME SnapInv, NEW r \in Runs, NEW s \in Snaps, NEW label \in {"undone", "cleanup"},
         NEW rest \in Seq(Snaps), CleanupOne(r, s, label, rest), disputed' = disputed,
         \/ run[r].pc = "undo" /\ s = Snap(r)
         \/ run[r].pc = "cleanup",
         Range(run[r].created) \subseteq Range(rest) \cup {s},
         ~disputed => /\ s \in tracers /\ s.device \in Range(Paths[r])
                      /\ \A x \in Range(rest) : x \in Range(run[r].created) /\ x.device # s.device
                      /\ \A i, j \in DOMAIN rest : rest[i].device = rest[j].device => i = j
  PROVE  SnapInv'
  <1>1. PICK destroyed \in BOOLEAN : CleanupOne(r, s, label, rest)!4!(destroyed)
    BY DEF CleanupOne
  <1>2. /\ mounts' = mounts \ {[minor |-> s.minor, run |-> r]}
        /\ tracked' = tracked \ {s}
        /\ tracers' \in {tracers, Without(s.minor)}
        /\ tracers' # Without(s.minor) => ~destroyed
    BY <1>1 DEF CleanupOne
  <1>3. run[r] \in SnapRecords /\ Live(r) BY DEF SnapInv, SnapTypes, Live
  <1>4. run' = [run EXCEPT ![r] = run'[r]]
        /\ run'[r] = [run[r] EXCEPT !.pc = label, !.failed = (@ \/ ~destroyed), !.created = rest]
    BY <1>1 DEF SnapInv, SnapTypes
  <1>5. run'[r] \in SnapRecords /\ run'[r].failed = (run[r].failed \/ ~destroyed)
    BY <1>3, <1>4 DEF SnapRecords, SnapLabels
  <1>6. run'[r].pc = label /\ run'[r].created = rest BY <1>3, <1>4 DEF SnapRecords
  <1>7. ~run'[r].failed => ~run[r].failed /\ tracers' = Without(s.minor)
    BY <1>2, <1>5
  <1>8. run' \in [Runs -> SnapRecords] /\ \A q \in Runs : q # r => run'[q] = run[q]
    BY <1>4, <1>5 DEF SnapInv, SnapTypes
  <1>9. tracers' \subseteq tracers /\ \A t \in tracers : t \notin tracers' => t.minor = s.minor
    BY <1>2 DEF Without
  <1>10. SnapTypes' /\ TracersDiffer'
    BY <1>2, <1>8, <1>9 DEF SnapInv, SnapTypes, TracersDiffer
  <1>11. KeepsTrack(r)'
    <2>1. KeepsTrack(r) BY DEF SnapInv
    <2>2. \A t \in tracked' : t.run = r => t \in Range(rest)
      BY <1>2, <2>1 DEF KeepsTrack
    <2>3. ASSUME NEW m \in mounts', m.run = r PROVE \E x \in Range(rest) : x.minor = m.minor
      <3>1. PICK x \in Range(run[r].created) : x.minor = m.minor
        BY <1>2, <2>1, <2>3 DEF KeepsTrack
      <3>2. m.minor # s.minor BY <1>2, <2>3 DEF SnapInv, SnapTypes
      <3> QED BY <3>1, <3>2
    <2>4. ASSUME NEW t \in tracers', t.run = r, ~run'[r].failed PROVE t \in Range(rest)
      <3>1. t \in tracers /\ t.minor # s.minor BY <1>7, <2>4 DEF Without
      <3>2. t \in Range(run[r].created) \/ (t = Snap(r) /\ run[r].pc = "undo")
        BY <1>7, <2>1, <2>4, <3>1 DEF KeepsTrack
      <3> QED BY <3>1, <3>2
    <2> QED BY <1>6, <2>2, <2>3, <2>4 DEF KeepsTrack, AtPath
  <1>12. ASSUME ~disputed, NEW t \in tracers, t.minor = s.minor PROVE t = s
    BY <1>12 DEF SnapInv, TracersDiffer
  <1>13. ASSUME ~disputed PROVE Owns(r)'
    <2>1. Owns(r) BY <1>3, <1>13 DEF SnapInv
    <2>2. ASSUME NEW x \in Range(rest)
          PROVE  /\ x \in tracers' /\ x.run = r /\ x.device \in Range(Paths[r])
                 /\ NeedFiles[r] => [minor |-> x.minor, run |-> r] \in mounts'
      <3>1. x \in Range(run[r].created) /\ x # s BY <1>13, <2>2
      <3>2. /\ x \in tracers /\ x.run = r /\ x.device \in Range(Paths[r])
            /\ NeedFiles[r] => [minor |-> x.minor, run |-> r] \in mounts
        BY <2>1, <3>1 DEF Owns
      <3>3. x.minor # s.minor BY <1>12, <1>13, <3>1, <3>2
      <3> QED BY <1>2, <1>9, <3>2, <3>3
    <2> QED BY <1>6, <1>13, <2>2 DEF Owns, AtPath
  <1>14. \A q \in Runs : Live(q)' <=> Live(q) BY <1>3, <1>6, <1>8 DEF Live
  <1>15. ~disputed => PathsApart' BY <1>14 DEF SnapInv, PathsApart
  <1>16. \A m \in mounts : m.run # r => m \in mounts' BY <1>2
  <1>17. StepApart(r)
    BY <1>2, <1>3, <1>8, <1>9, <1>12, <1>15, <1>16 DEF StepApart
  <1> QED BY <1>10, <1>11, <1>13, <1>17, SnapMoves

LEMMA UndoCreateStep ==
  ASSUME SnapInv, NEW r \in Runs, UndoCreate(r)
  PROVE  SnapInv'
  <1>1. /\ run[r].pc = "undo" /\ AtPath(r) /\ Live(r) /\ disputed' = disputed
        /\ CleanupOne(r, Snap(r), "undone", run[r].created)
    BY DEF UndoCreate, At, AtPath, Live
  <1>2. Snap(r) \in Snaps /\ Snap(r).run = r /\ Device(r) \in Range(Paths[r])
        /\ Snap(r).device = Device(r)
    BY <1>1, SnapType
  <1>3. run[r].created \in Seq(Snaps) BY DEF SnapInv, SnapTypes, SnapRecords
  <1>4. ~disputed => /\ Snap(r) \in tracers
                     /\ \A x \in Range(run[r].created) : x.device # Snap(r).device
                     /\ \A i, j \in DOMAIN run[r].created :
                          run[r].created[i].device = run[r].created[j].device => i = j
    BY <1>1, <1>2 DEF SnapInv, Owns, Shares
  <1> QED BY <1>1, <1>2, <1>3, <1>4, CleansUp

LEMMA CleanupCreatedStep ==
  ASSUME SnapInv, NEW r \in Runs, CleanupCreated(r)
  PROVE  SnapInv'
  <1> DEFINE made == run[r].created
  <1>1. /\ run[r].pc = "cleanup" /\ Live(r) /\ disputed' = disputed /\ made # <<>>
        /\ CleanupOne(r, Last(made), "cleanup", Front(made))
    BY DEF CleanupCreated, At, Live
  <1>2. made \in Seq(Snaps) BY DEF SnapInv, SnapTypes, SnapRecords
  <1>3. /\ Front(made) \in Seq(Snaps) /\ Last(made) \in Snaps
        /\ Range(made) = Range(Front(made)) \cup {Last(made)}
        /\ Len(made) \in DOMAIN made /\ Last(made) = made[Len(made)]
        /\ \A i \in DOMAIN Front(made) :
             i \in DOMAIN made /\ i # Len(made) /\ Front(made)[i] = made[i]
    BY <1>1, <1>2, FrontAndLast
  <1> HIDE DEF made
  <1>4. ASSUME ~disputed
        PROVE  /\ Last(made) \in tracers /\ Last(made).device \in Range(Paths[r])
               /\ \A x \in Range(Front(made)) : x.device # Last(made).device
               /\ \A i, j \in DOMAIN Front(made) :
                    Front(made)[i].device = Front(made)[j].device => i = j
    <2>1. Owns(r) BY <1>1, <1>4 DEF SnapInv
    <2>2. /\ \A s \in Range(made) : s \in tracers /\ s.device \in Range(Paths[r])
          /\ \A i, j \in DOMAIN made : made[i].device = made[j].device => i = j
      BY <2>1 DEF Owns, made
    <2>3. \A x \in Range(Front(made)) : \E i \in DOMAIN Front(made) : x = Front(made)[i]
      BY DEF Range
    <2> QED BY <1>3, <2>2, <2>3
  <1>5. /\ Range(made) \subseteq Range(Front(made)) \cup {Last(made)}
        /\ \A x \in Range(Front(made)) : x \in Range(made)
    BY <1>3
  <1> QED BY <1>1, <1>3, <1>4, <1>5, CleansUp DEF made

LEMMA CallBackRuns ==
  ASSUME SnapInv, NEW r \in Runs, CallBack(r)
  PROVE  SnapInv'
  <1> USE DEF CallBack, At, Goto, kernelVars
  <1>1. /\ run' \in [Runs -> SnapRecords]
        /\ \A q \in Runs : q # r => run'[q] = run[q]
        /\ GoesTo(r, "reading")
    BY Goes DEF SnapInv, SnapLabels
  <1>2. ControlStep(r) /\ Live(r) BY <1>1 DEF GoesTo, ControlStep, Live
  <1>3. KeepsTrack(r)' BY <1>1 DEF GoesTo, SnapInv, KeepsTrack, AtPath
  <1>4. ~disputed => Owns(r)' BY <1>1, <1>2 DEF GoesTo, SnapInv, Owns, AtPath
  <1> QED BY <1>2, <1>3, <1>4, ControlMoves

LEMMA ReturnStep ==
  ASSUME SnapInv, NEW r \in Runs, Return(r)
  PROVE  SnapInv'
  <1> USE DEF Return, At, Goto, kernelVars
  <1>1. /\ run' \in [Runs -> SnapRecords]
        /\ \A q \in Runs : q # r => run'[q] = run[q]
        /\ GoesTo(r, "done")
    BY Goes DEF SnapInv, SnapLabels
  <1>2. ControlStep(r) BY <1>1 DEF GoesTo, ControlStep
  <1>3. ~Live(r)' BY <1>1 DEF GoesTo, Live
  <1>4. KeepsTrack(r)' BY <1>1 DEF GoesTo, SnapInv, KeepsTrack, AtPath
  <1> QED BY <1>2, <1>3, <1>4, ControlMoves

\* A process dies: its runs are over, and what they had stays where it is.
LEMMA CrashStep ==
  ASSUME SnapInv, NEW p, Crash(p)
  PROVE  SnapInv'
  <1> DEFINE Dies(r) == ProcessOf[r] = p /\ Live(r)
             Dead == [Idle EXCEPT !.pc = "dead"]
  <1>1. /\ run' = [r \in Runs |-> IF Dies(r) THEN Dead ELSE run[r]]
        /\ tracked' = {t \in tracked : ProcessOf[t.run] # p}
        /\ UNCHANGED <<tracers, mounts, disputed>>
    BY DEF Crash, kernelVars
  <1>2. /\ Dead \in SnapRecords /\ Dead.pc = "dead" /\ Dead.created = <<>>
    <2>1. 0 \in Minors BY SnapshotAssumption DEF Minors
    <2>2. <<>> \in Seq(Snaps) OBVIOUS
    <2>3. Idle \in SnapRecords /\ Idle.created = <<>>
      BY <2>1, <2>2 DEF Idle, SnapRecords, SnapLabels
    <2> QED BY <2>3 DEF SnapRecords, SnapLabels
  <1> HIDE DEF Dead
  <1>3. run' \in [Runs -> SnapRecords] BY <1>1, <1>2 DEF SnapInv, SnapTypes
  <1>4. SnapTypes' /\ TracersDiffer' BY <1>1, <1>3 DEF SnapInv, SnapTypes, TracersDiffer
  <1>5. ASSUME NEW r \in Runs, Dies(r) PROVE KeepsTrack(r)' /\ ~Live(r)'
    <2>1. run'[r].pc = "dead" /\ run'[r].created = <<>> BY <1>1, <1>2, <1>5
    <2>2. \A t \in tracked' : t.run # r BY <1>1, <1>5
    <2> QED BY <2>1, <2>2 DEF KeepsTrack, AtPath, Live
  <1>6. ASSUME NEW r \in Runs, ~Dies(r) PROVE KeepsTrack(r)' /\ (Live(r)' <=> Live(r))
    <2>1. run'[r] = run[r] /\ tracked' \subseteq tracked BY <1>1, <1>6
    <2>2. KeepsTrack(r) BY DEF SnapInv
    <2>3. Snap(r)' = Snap(r) /\ (AtPath(r)' <=> AtPath(r)) /\ (Live(r)' <=> Live(r))
      BY <2>1 DEF Snap, Device, AtPath, Live
    <2> QED BY <1>1, <2>1, <2>2, <2>3 DEF KeepsTrack
  <1>7. ASSUME ~disputed PROVE PathsApart' /\ \A r \in Runs : Live(r)' => Owns(r)'
    <2>1. \A r \in Runs : Live(r)' => Live(r) /\ ~Dies(r) BY <1>5, <1>6
    <2>2. ASSUME NEW r \in Runs, Live(r)' PROVE Owns(r)'
      <3>1. Owns(r) /\ run'[r] = run[r] BY <1>1, <1>7, <2>1, <2>2 DEF SnapInv
      <3> QED BY <1>1, <3>1 DEF Owns, AtPath, Shares, Snap, Device
    <2>3. PathsApart' BY <1>7, <2>1 DEF SnapInv, PathsApart
    <2> QED BY <2>2, <2>3
  <1> QED BY <1>1, <1>4, <1>5, <1>6, <1>7 DEF SnapInv

----------------------------------------------------------------------------

LEMMA SnapStart ==
  ASSUME Init
  PROVE  SnapInv
  <1>1. Idle \in SnapRecords /\ Idle.pc = "idle" /\ Idle.at = 1 /\ Idle.created = <<>>
    BY SnapshotAssumption DEF Idle, SnapRecords, SnapLabels, Minors
  <1>2. \A r \in Runs : run[r] = Idle BY DEF Init
  <1>3. SnapTypes BY <1>1 DEF Init, SnapTypes
  <1>4. TracersDiffer BY DEF Init, TracersDiffer
  <1>5. \A r \in Runs : KeepsTrack(r) BY <1>1, <1>2 DEF Init, KeepsTrack, AtPath
  <1>6. \A r \in Runs : ~Live(r) BY <1>1, <1>2 DEF Live
  <1> QED BY <1>3, <1>4, <1>5, <1>6 DEF SnapInv, PathsApart

LEMMA SnapStep ==
  ASSUME SnapInv, [Next]_vars
  PROVE  SnapInv'
  <1>1. ASSUME NEW r \in Runs,
               \/ Begin(r) \/ NoControl(r) \/ SharePath(r) \/ ReadInfo(r)
               \/ DestroyStaleTracer(r) \/ AllocMinor(r) \/ Setup(r) \/ WaitForDevice(r)
               \/ MountReadOnly(r) \/ UndoCreate(r) \/ CallBack(r) \/ CleanupCreated(r)
               \/ Return(r)
        PROVE  SnapInv'
    BY <1>1, BeginStep, NoControlStep, SharePathStep, ReadInfoStep, DestroyStaleTracerStep,
       AllocMinorStep, SetupStep, WaitForDeviceStep, MountReadOnlyStep, UndoCreateStep,
       CallBackRuns, CleanupCreatedStep, ReturnStep
  <1>2. ASSUME NEW r \in Runs, FailCreate(r) \/ CallbackReturns(r)
        PROVE  SnapInv'
    BY <1>2, Passing
       DEF FailCreate, CallbackReturns, At, Goto, Fail, Passes, SnapLabels, kernelVars
  <1>3. ASSUME NEW p, Crash(p) PROVE SnapInv'
    BY <1>3, CrashStep
  <1>4. CASE UNCHANGED vars
    <2>1. UNCHANGED <<tracers, mounts, tracked, run, disputed>> BY <1>4 DEF vars
    <2>2. SnapTypes' /\ TracersDiffer' BY <2>1 DEF SnapInv, SnapTypes, TracersDiffer
    <2>3. ASSUME NEW r \in Runs
          PROVE  /\ Live(r)' <=> Live(r)
                 /\ KeepsTrack(r)'
                 /\ Owns(r) => Owns(r)'
      <3>1. KeepsTrack(r) BY DEF SnapInv
      <3> QED BY <2>1, <3>1 DEF KeepsTrack, AtPath, Owns, Shares, Snap, Device, Live
    <2> QED BY <2>1, <2>2, <2>3 DEF SnapInv, PathsApart
  <1> QED BY <1>1, <1>2, <1>3, <1>4 DEF Next

\* linux_snapshot.go: a run that returns without an error leaves no tracer, mount or
\* tracked snapshot behind, and one that returns with an error leaves at most a
\* tracer, for any runs, processes, paths, crashes and failing calls.
THEOREM NothingIsLeft == Spec => []SuccessLeavesNothing
  <1>1. Init => SnapInv BY SnapStart
  <1>2. SnapInv /\ [Next]_vars => SnapInv' BY SnapStep
  <1>3. SnapInv => SuccessLeavesNothing
    <2> SUFFICES ASSUME SnapInv, NEW r \in Runs, run[r].pc = "done"
                 PROVE  /\ \A t \in tracked : t.run # r
                        /\ \A m \in mounts : m.run # r
                        /\ ~run[r].failed => \A t \in tracers : t.run # r
      BY DEF SuccessLeavesNothing, At
    <2>1. KeepsTrack(r) /\ Range(run[r].created) = {} BY EmptyRange DEF SnapInv, KeepsTrack
    <2> QED BY <2>1 DEF KeepsTrack
  <1> QED BY <1>1, <1>2, <1>3, PTL DEF Spec

\* As long as no two runs had a device in common, a backup reads its own devices,
\* each through a tracer of its own, mounted if it needs files, whatever else runs,
\* fails, dies and cleans up on the machine.
THEOREM ReadsItsOwn == Spec => []ReadsOwnSnapshot
  <1>1. Init => SnapInv BY SnapStart
  <1>2. SnapInv /\ [Next]_vars => SnapInv' BY SnapStep
  <1>3. SnapInv => ReadsOwnSnapshot
    <2> SUFFICES ASSUME SnapInv, ~disputed, NEW r \in Runs, run[r].pc = "reading",
                        NEW device \in Range(Paths[r])
                 PROVE  \E s \in Range(run[r].created) :
                          /\ s.device = device /\ s \in tracers
                          /\ NeedFiles[r] => [minor |-> s.minor, run |-> r] \in mounts
      BY DEF ReadsOwnSnapshot, At
    <2>1. Owns(r) BY DEF SnapInv, Live
    <2>2. PICK i \in 1..Len(Paths[r]) : device = Paths[r][i] BY PathsType
    <2>3. run[r].at \in Nat /\ run[r].at > Len(Paths[r])
      BY <2>1 DEF Owns, SnapInv, SnapTypes, SnapRecords
    <2>4. i < run[r].at BY <2>3, PathsType
    <2>5. \E s \in Range(run[r].created) : s.device = Paths[r][i] BY <2>1, <2>4 DEF Owns
    <2> QED BY <2>1, <2>2, <2>5 DEF Owns
  <1> QED BY <1>1, <1>2, <1>3, PTL DEF Spec

\* destroyStaleTracers takes no tracer of a run that is going on for one a crash left
\* behind, as long as no two runs had a device in common.
THEOREM StaleAreOfTheDead == Spec => OnlyCrashedAreStale
  <1>1. Init => SnapInv BY SnapStart
  <1>2. SnapInv /\ [Next]_vars => SnapInv' BY SnapStep
  <1>3. ASSUME SnapInv, ~disputed, NEW r \in Runs, NEW q \in Runs, r # q,
               DestroyStaleTracer(r), Live(q), NEW t \in tracers, t.run = q
        PROVE  t \in tracers'
    <2>1. Live(r) /\ AtPath(r) BY <1>3 DEF DestroyStaleTracer, At, Live, AtPath
    <2>2. Device(r) \in Range(Paths[r]) BY <1>3, <2>1, SnapType
    <2>3. t.device \in Range(Paths[q]) BY <1>3 DEF SnapInv, SnapTypes
    <2>4. Range(Paths[r]) \cap Range(Paths[q]) = {} BY <1>3, <2>1 DEF SnapInv, PathsApart
    <2> QED BY <1>3, <2>2, <2>3, <2>4, StaleIsOnDevice
  <1>4. SnapInv => [~disputed => \A r, q \in Runs : r # q /\ DestroyStaleTracer(r) /\ Live(q) =>
                     \A t \in tracers : t.run = q => t \in tracers']_vars
    BY <1>3
  <1> QED BY <1>1, <1>2, <1>4, PTL DEF Spec, OnlyCrashedAreStale
==============================================================================
