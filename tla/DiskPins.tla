------------------------------ MODULE DiskPins ------------------------------
(***************************************************************************)
(* Which disk a machine backup reads (gui/diskpin.go, diskpin_app.go): the *)
(* saved selection names slots, which Windows may give to other disks, and *)
(* the pins in config.json tell which disk was meant.                      *)
(***************************************************************************)
EXTENDS Naturals, Sequences, Functions, FiniteSets

CONSTANTS Disks,     \* disks, each known by an id of its own
          Slots,     \* \\.\PhysicalDriveN
          Anonymous, \* disks without a stable id
          Selection, \* what the job says: a sequence of slots and ids
          MaxMoves,  \* bound on the times disks are renumbered
          None

ASSUME PinsAssumption ==
  /\ Disks \cap Slots = {} /\ None \notin Disks \cup Slots
  /\ Selection \in Seq(Disks \cup Slots)
  /\ MaxMoves \in Nat

VARIABLES
  placed,  \* disk -> its slot, or None when it is not connected
  pins,    \* config.PinnedDisks: id -> the slot it was last seen at, or None
  saved,   \* the pins in config.json
  chosen,  \* the disk the last run was handed for each entry of the selection
  read,    \* history: the disk the last run read for each entry of the selection
  meant,   \* history: the disk each entry of the selection first stood for
  drifted, \* history: "moved" when a pin followed its disk to another slot, "lost"
           \* when one was not saved and then forgotten
  moves

pinVars == <<placed, pins, saved, chosen, read, meant, drifted, moves>>

Refs == DOMAIN Selection
Known == Disks \ Anonymous

\* A slot holds one disk at most.
Placements == {p \in [Disks -> Slots \cup {None}] :
                 \A x, y \in Disks : p[x] = p[y] /\ p[x] # None => x = y}

NoDisks == [r \in Refs |-> None]

PinsInit ==
  /\ placed \in Placements
  /\ pins = [d \in Disks |-> None]
  /\ saved = pins
  /\ chosen = NoDisks /\ read = NoDisks /\ meant = NoDisks
  /\ drifted = {} /\ moves = 0

Present == {d \in Disks : placed[d] # None}

\* The disk in a slot, or None.
DiskIn(slot) == IF \E d \in Present : placed[d] = slot THEN CHOOSE d \in Present : placed[d] = slot ELSE None

----------------------------------------------------------------------------
(* Resolving the selection *)

\* The ids pinned to a slot; when there are several, the one a loop over a map
\* meets last.
PinnedTo(slot) == {d \in Known : pins[d] = slot}

\* Mutant: a pinned disk that is not there leaves the slot as it is.
ResolveLenient(ref) ==
  IF ref \in Disks THEN {placed[ref]}
  ELSE IF PinnedTo(ref) = {} THEN {ref}
  ELSE {IF d \in Present THEN placed[d] ELSE ref : d \in PinnedTo(ref)}

\* resolvePinnedDevice: the possible slots of a reference, None when it is refused.
Resolve(ref) ==
  IF ref \in Disks THEN {placed[ref]}
  ELSE IF PinnedTo(ref) = {} THEN {ref}
  ELSE {placed[d] : d \in PinnedTo(ref)}

Resolutions == {s \in [Refs -> Slots \cup {None}] : \A r \in Refs : s[r] \in Resolve(Selection[r])}

\* Two references to one disk are one: the first of them.
Handed(slots) ==
  [r \in Refs |-> IF \E q \in Refs : q < r /\ slots[q] = slots[r] THEN None ELSE DiskIn(slots[r])]

\* collectDiskPins and mergeDiskPins: the disks of this run are pinned to the
\* slots they have now.
NewPins(slots) ==
  [d \in Disks |-> IF d \in Present \cap Known /\ placed[d] \in Range(slots) THEN placed[d] ELSE pins[d]]

----------------------------------------------------------------------------
(* Actions *)

Read(slots) ==
  /\ chosen' = Handed(slots)
  /\ read' = [r \in Refs |-> DiskIn(slots[r])]

\* resolveMachineBackupDevices, and the run.  The pins are saved when they
\* changed, as well as that goes; a pin that is not saved is still in memory.
Run ==
  /\ Present \cap Known # {}
  /\ \E slots \in Resolutions :
       /\ None \notin Range(slots)
       /\ Read(slots)
       /\ pins' = NewPins(slots)
       /\ meant' = [r \in Refs |-> IF meant[r] = None THEN DiskIn(slots[r]) ELSE meant[r]]
       /\ drifted' = drifted \cup {"moved" : d \in {d \in Disks : pins[d] \notin {None, pins'[d]}}}
  /\ saved' \in IF pins' = pins THEN {saved} ELSE {saved, pins'}
  /\ UNCHANGED <<placed, moves>>

\* A disk that was pinned, or that is named by its id, is not connected.
Refuse ==
  /\ Present \cap Known # {}
  /\ \E slots \in Resolutions : None \in Range(slots)
  /\ chosen' = NoDisks /\ read' = NoDisks
  /\ UNCHANGED <<placed, pins, saved, meant, drifted, moves>>

\* No disk could be told from another: the selection is used as it is.  Such a
\* run pins nothing, and what it reads is not held to any pin.  (The code does so too
\* when the listing of the disks fails, which is not modelled.)
RunUnresolved ==
  /\ Present \cap Known = {}
  /\ chosen' = [r \in Refs |-> DiskIn(Selection[r])]
  /\ read' = NoDisks
  /\ UNCHANGED <<placed, pins, saved, meant, drifted, moves>>

\* The program restarts and reads config.json.
Restart ==
  /\ pins' = saved
  /\ drifted' = IF pins = saved THEN drifted ELSE drifted \cup {"lost"}
  /\ chosen' = NoDisks /\ read' = NoDisks
  /\ UNCHANGED <<placed, saved, meant, moves>>

\* A disk was added or removed, or the system numbers them in another order.
Renumber ==
  /\ moves < MaxMoves
  /\ placed' \in Placements \ {placed}
  /\ moves' = moves + 1
  /\ chosen' = NoDisks /\ read' = NoDisks
  /\ UNCHANGED <<pins, saved, meant, drifted>>

PinsNext == Run \/ Refuse \/ RunUnresolved \/ Restart \/ Renumber

PinsSpec == PinsInit /\ [][PinsNext]_pinVars

----------------------------------------------------------------------------
(* Properties *)

\* No other disk is read in the place of the one an entry first stood for.
AsMeant ==
  \A r \in Refs : meant[r] \in Known => read[r] \in {meant[r], None}

\* "A config saved as \\.\PhysicalDrive0 keeps backing up the SAME physical disk
\* after Windows renumbers it" (config.go): whatever moves, a selection that once
\* stood for a disk with an id stands for it ever after, or the run is refused.
SameDiskKept == "lost" \notin drifted => AsMeant

\* So it is until a pin has followed its disk to another slot or was lost; and
\* no disk is ever handed to one run twice, unless no disk can be told from
\* another and the selection names its slot twice (resolvePinnedDevices).
SameDiskUntilRepinned ==
  /\ drifted = {} => AsMeant
  /\ \A q, r \in Refs : chosen[q] = chosen[r] /\ chosen[q] # None =>
       q = r \/ (Present \cap Known = {} /\ Selection[q] = Selection[r])
==============================================================================
