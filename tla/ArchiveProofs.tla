---------------------------- MODULE ArchiveProofs ----------------------------
(***************************************************************************)
(* What holds of the archive of a folder and of its readers, whatever the  *)
(* folder, the exclusions, the virtual files and the changes meanwhile.    *)
(***************************************************************************)
EXTENDS ArchiveReaders, Integers, TLAPS, FiniteSetTheorems, SequenceTheorems, WellFoundedInduction

\* A sequence, of whatever it holds.
Listed(s) == s \in Seq(ToSet(s))

Written == [path : Seq(DOMAIN Hash), dir : BOOLEAN, size : Nat]

\* What other programs can make of the folder: no directory becomes a file.
ArchiveTypes ==
  /\ fs \in [DOMAIN Tree -> [kind : Kinds, size : Nat]]
  /\ \A p \in DOMAIN Tree : Tree[p].kind \in Folders => fs[p].kind \in Folders \cup {"link"}
  /\ log \in Seq(Written)
  /\ excluded \subseteq DOMAIN Tree /\ skipped \subseteq DOMAIN Tree

\* A directory under way has children of the folder before it; the virtual files
\* are written before anything else.
FrameOk(f, n) ==
  /\ f = [path |-> f.path, virtual |-> f.virtual, todo |-> f.todo, start |-> f.start,
          dirStart |-> f.dirStart, items |-> f.items, dirs |-> f.dirs, files |-> f.files]
  /\ f.path \in DOMAIN Tree
  /\ DOMAIN f.todo \subseteq {k \in DOMAIN NameOrder : Append(f.path, NameOrder[k]) \in DOMAIN Tree}
  /\ f.virtual \in Seq([name : DOMAIN Hash, size : Nat]) /\ n + Len(f.virtual) >= Len(VirtualFiles)
  /\ Listed(f.items)

StackInv == Listed(stack) /\ \A i \in 1..Len(stack) : FrameOk(stack[i], Len(log))

\* The file under way is the child the walk is at, and was noted with its size.
FileInv ==
  file # None =>
    /\ stack # <<>> /\ Frame.virtual = <<>> /\ DOMAIN Frame.todo # {} /\ file.path = Child
    /\ file = [path |-> file.path, declared |-> file.declared, written |-> file.written,
               start |-> file.start]
    /\ file.declared \in Nat /\ file.written \in 0..file.declared
    /\ \E i \in Writings(file.path) : log[i].size = file.declared

\* Directories were written as such, and what changed late was written.
LogInv ==
  /\ \A i \in 1..Len(log) : i > Len(VirtualFiles) =>
       log[i].path \in DOMAIN Tree /\ (Tree[log[i].path].kind \in Folders => log[i].dir)
  /\ \A p \in late : Writings(p) # {}

Opened(path) ==
  \/ path = <<>> /\ (stack # <<>> \/ result = "done")
  \/ \E i \in Writings(path) : log[i].dir

Pending(path) ==
  \E i \in 1..Len(stack) :
    stack[i].path = Front(path) /\ \E k \in DOMAIN stack[i].todo : NameOrder[k] = Last(path)

Settled(path) ==
  readErrors # {} \/ Covered(path) \/ path \in late \/ fs[path].kind = "gone" \/ Archived(path)

\* What is in a directory that was opened is still to come, or settled.
WalkInv ==
  \A path \in DOMAIN Tree \ {<<>>} : Opened(Front(path)) => Pending(path) \/ Settled(path)

\* Zeros are sent only for a file that shrank.
CellsInv == Listed(archive) /\ (readErrors = {} => Zero \notin ToSet(archive))

\* Only the root has virtual files, and they come first.
StartInv ==
  /\ stack = <<>> /\ result = None => log = <<>>
  /\ \A i \in 1..Len(stack) : stack[i].virtual # <<>> =>
       i = Len(stack) /\ Len(log) + Len(stack[i].virtual) = Len(VirtualFiles)

EndInv == result = "done" => stack = <<>>

ArchiveInv ==
  ArchiveTypes /\ StackInv /\ FileInv /\ LogInv /\ WalkInv /\ CellsInv /\ StartInv /\ EndInv

(***************************************************************************)
(*                                Sequences                                *)
(***************************************************************************)

LEMMA IsListed ==
  ASSUME NEW S, NEW s \in Seq(S)
  PROVE  Listed(s)
  <1>1. s \in Seq(Range(s)) BY SeqOfRange
  <1>2. Range(s) = ToSet(s) BY DEF Range, ToSet
  <1> QED BY <1>1, <1>2 DEF Listed

LEMMA ListedHas ==
  ASSUME NEW s, Listed(s)
  PROVE  /\ Len(s) \in Nat /\ DOMAIN s = 1..Len(s)
         /\ \A i \in 1..Len(s) : s[i] \in ToSet(s)
         /\ s # <<>> <=> Len(s) > 0
  BY DEF Listed

LEMMA ListedAppend ==
  ASSUME NEW s, Listed(s), NEW x
  PROVE  /\ Listed(Append(s, x)) /\ Len(Append(s, x)) = Len(s) + 1
         /\ \A i \in 1..Len(s) : Append(s, x)[i] = s[i]
         /\ Append(s, x)[Len(s) + 1] = x
  <1> DEFINE S == ToSet(s) \cup {x}
  <1>1. s \in Seq(S) BY DEF Listed
  <1>2. x \in S OBVIOUS
  <1> HIDE DEF S
  <1>3. /\ Append(s, x) \in Seq(S) /\ Len(Append(s, x)) = Len(s) + 1
        /\ \A i \in 1..Len(s) : Append(s, x)[i] = s[i]
        /\ Append(s, x)[Len(s) + 1] = x
    BY <1>1, <1>2, AppendProperties
  <1> QED BY <1>3, IsListed

LEMMA ListedConcat ==
  ASSUME NEW s, NEW t, Listed(s), Listed(t)
  PROVE  Listed(s \o t) /\ ToSet(s \o t) = ToSet(s) \cup ToSet(t)
  <1> DEFINE S == ToSet(s) \cup ToSet(t)
  <1>1. s \in Seq(S) /\ t \in Seq(S) BY DEF Listed
  <1>2. ToSet(s) = Range(s) /\ ToSet(t) = Range(t) /\ ToSet(s \o t) = Range(s \o t)
    BY DEF Range, ToSet
  <1> HIDE DEF S
  <1>3. s \o t \in Seq(S) BY <1>1, ConcatProperties
  <1>4. Range(s \o t) = Range(s) \cup Range(t) BY <1>1, RangeConcatenation
  <1> QED BY <1>2, <1>3, <1>4, IsListed

LEMMA ListedFront ==
  ASSUME NEW s, Listed(s), s # <<>>
  PROVE  /\ Listed(Front(s)) /\ Len(Front(s)) = Len(s) - 1
         /\ \A i \in 1..Len(s) - 1 : Front(s)[i] = s[i]
  <1> DEFINE S == ToSet(s)
             n == Len(s) - 1
  <1>1. s \in Seq(S) BY DEF Listed
  <1> HIDE DEF S
  <1>2. Len(s) \in Nat /\ Len(s) > 0 /\ n \in Nat /\ n < Len(s) BY <1>1
  <1>3. \A i \in 1..n : s[i] \in S BY <1>1, <1>2
  <1>4. /\ SubSeq(s, 1, n) \in Seq(S)
        /\ Len(SubSeq(s, 1, n)) = IF 1 <= n THEN n - 1 + 1 ELSE 0
        /\ \A i \in 1..n - 1 + 1 : SubSeq(s, 1, n)[i] = s[1 + i - 1]
    BY <1>2, <1>3, SubSeqProperties
  <1>5. Len(SubSeq(s, 1, n)) = n /\ \A i \in 1..n : SubSeq(s, 1, n)[i] = s[i]
    <2>1. n \in Nat BY <1>2
    <2> HIDE DEF n
    <2>2. n - 1 + 1 = n /\ (~(1 <= n) => n = 0) /\ \A i \in 1..n : 1 + i - 1 = i BY <2>1
    <2> QED BY <1>4, <2>2
  <1>6. Listed(SubSeq(s, 1, n)) BY <1>4, IsListed
  <1> QED BY <1>5, <1>6 DEF Front

LEMMA LastIs == \A s : Last(s) = s[Len(s)]
  BY DEF Last

\* A set of numbers has a least element.
LEMMA LeastIsIn ==
  ASSUME NEW S \in SUBSET Nat, S # {}
  PROVE  Min(S) \in S /\ \A n \in S : Min(S) <= n
  <1> DEFINE R == {p \in Nat \X Nat : p[1] < p[2]}
  <1>1. IsWellFoundedOn(R, Nat) BY NatLessThanWellFounded DEF OpToRel
  <1> HIDE DEF R
  <1>2. \E x \in S : \A y \in S : ~ (<<y, x>> \in R) BY <1>1, WFMin
  <1>3. \E x \in S : \A y \in S : x <= y
    <2>1. \E x \in S : \A y \in S : ~(y < x) BY <1>2 DEF R
    <2> QED BY <2>1
  <1> QED BY <1>3 DEF Min

(***************************************************************************)
(*                            Paths and frames                             *)
(***************************************************************************)

LEMMA TreeTyped ==
  /\ DOMAIN Tree \subseteq Seq(DOMAIN Hash)
  /\ Listed(NameOrder) /\ ToSet(NameOrder) \subseteq DOMAIN Hash
  /\ VirtualFiles \in Seq([name : DOMAIN Hash, size : Nat]) /\ Len(VirtualFiles) \in Nat
  <1>1. NameOrder \in Seq(DOMAIN Hash) BY ArchiveAssumption DEF ArchiveAssumption
  <1>2. ToSet(NameOrder) \subseteq DOMAIN Hash BY <1>1 DEF ToSet
  <1>3. Seq(ToSet(NameOrder)) \subseteq Seq(DOMAIN Hash) BY <1>2, SeqMonotonic
  <1>4. DOMAIN Tree \subseteq Seq(ToSet(NameOrder)) BY ArchiveAssumption DEF ArchiveAssumption
  <1>5. VirtualFiles \in Seq([name : DOMAIN Hash, size : Nat])
    BY ArchiveAssumption DEF ArchiveAssumption
  <1> QED BY <1>1, <1>2, <1>3, <1>4, <1>5, IsListed

LEMMA ChildOf ==
  ASSUME NEW path \in Seq(DOMAIN Hash), NEW name
  PROVE  /\ Front(Append(path, name)) = path /\ Last(Append(path, name)) = name
         /\ Append(path, name) # <<>>
  <1>1. Listed(path) BY IsListed
  <1> DEFINE s == Append(path, name)
  <1>2. /\ Listed(s) /\ Len(s) = Len(path) + 1 /\ Len(path) \in Nat /\ s[Len(path) + 1] = name
        /\ \A i \in 1..Len(path) : s[i] = path[i]
    BY <1>1, ListedAppend, ListedHas
  <1> HIDE DEF s
  <1>3. s # <<>> BY <1>2, ListedHas
  <1>4. Last(s) = name BY <1>2 DEF Last
  <1>5. /\ Listed(Front(s)) /\ Len(Front(s)) = Len(path)
        /\ \A i \in 1..Len(path) : Front(s)[i] = path[i]
    <2>1. Len(s) - 1 = Len(path) BY <1>2
    <2> QED BY <1>2, <1>3, <2>1, ListedFront
  <1>6. Front(s) = path BY <1>1, <1>5, SeqEqual DEF Listed
  <1> QED BY <1>3, <1>4, <1>6 DEF s

LEMMA ParentOf ==
  ASSUME NEW path \in DOMAIN Tree \ {<<>>}
  PROVE  /\ Front(path) \in DOMAIN Tree /\ Tree[Front(path)].kind \in Folders
         /\ \E k \in DOMAIN NameOrder : NameOrder[k] = Last(path)
         /\ path = Append(Front(path), Last(path)) /\ Len(path) \in Nat
         /\ Len(Front(path)) \in Nat /\ Len(Front(path)) < Len(path)
         /\ Len(Front(path)) <= Len(path)
         /\ \A i \in 1..Len(Front(path)) : Front(path)[i] = path[i]
  <1>1. path \in Seq(ToSet(NameOrder)) BY ArchiveAssumption DEF ArchiveAssumption
  <1>2. Listed(path) BY <1>1, IsListed
  <1>3. Len(path) \in Nat /\ Len(path) > 0 BY <1>2, ListedHas
  <1>4. /\ Listed(Front(path)) /\ Len(Front(path)) = Len(path) - 1
        /\ \A i \in 1..Len(path) - 1 : Front(path)[i] = path[i]
    BY <1>2, ListedFront
  <1>5. Last(path) \in ToSet(NameOrder) BY <1>1, <1>3 DEF Last
  <1>6. path = Append(Front(path), Last(path))
    <2> DEFINE s == Append(Front(path), Last(path))
    <2>1. /\ Listed(s) /\ Len(s) = Len(path) /\ s[Len(path)] = Last(path)
          /\ \A i \in 1..Len(path) - 1 : s[i] = path[i]
      <3>1. Len(Front(path)) + 1 = Len(path) BY <1>3, <1>4
      <3> QED BY <1>4, <3>1, ListedAppend
    <2> HIDE DEF s
    <2>2. \A i \in 1..Len(path) : s[i] = path[i]
      <3>1. \A i \in 1..Len(path) : i = Len(path) \/ i \in 1..Len(path) - 1 BY <1>3
      <3> QED BY <2>1, <3>1 DEF Last
    <2>3. s = path BY <1>2, <2>1, <2>2, SeqEqual DEF Listed
    <2> QED BY <2>3 DEF s
  <1>7. Front(path) \in DOMAIN Tree /\ Tree[Front(path)].kind \in Folders
    BY ArchiveAssumption DEF ArchiveAssumption
  <1> QED BY <1>3, <1>4, <1>5, <1>6, <1>7 DEF ToSet

\* The walk is at a child of the folder; what is left out, or read, is that one.
LEMMA AtWhich ==
  ASSUME StackInv, stack # <<>>
  PROVE  /\ Len(stack) \in Nat /\ Len(stack) > 0 /\ Len(stack) \in 1..Len(stack)
         /\ Frame = stack[Len(stack)] /\ FrameOk(Frame, Len(log))
         /\ Frame.path \in Seq(DOMAIN Hash)
         /\ DOMAIN Frame.todo # {} =>
              /\ Place \in DOMAIN Frame.todo /\ Place \in DOMAIN NameOrder
              /\ Child \in DOMAIN Tree \ {<<>>}
              /\ Front(Child) = Frame.path /\ Last(Child) = NameOrder[Place]
  <1>1. Len(stack) \in Nat /\ Len(stack) > 0 /\ Len(stack) \in 1..Len(stack)
    BY ListedHas DEF StackInv
  <1>2. Frame = stack[Len(stack)] BY DEF Frame, Last
  <1>3. FrameOk(Frame, Len(log)) BY <1>1, <1>2 DEF StackInv
  <1>4. Frame.path \in Seq(DOMAIN Hash) BY <1>3, TreeTyped DEF FrameOk
  <1>5. ASSUME DOMAIN Frame.todo # {}
        PROVE  /\ Place \in DOMAIN Frame.todo /\ Place \in DOMAIN NameOrder
               /\ Child \in DOMAIN Tree \ {<<>>}
               /\ Front(Child) = Frame.path /\ Last(Child) = NameOrder[Place]
    <2>1. DOMAIN Frame.todo \subseteq DOMAIN NameOrder BY <1>3 DEF FrameOk
    <2>2. DOMAIN NameOrder \subseteq Nat BY TreeTyped, ListedHas
    <2>3. Place \in DOMAIN Frame.todo
      <3>1. DOMAIN Frame.todo \in SUBSET Nat BY <2>1, <2>2
      <3> QED BY <1>5, <3>1, LeastIsIn DEF Place
    <2>4. Append(Frame.path, NameOrder[Place]) \in DOMAIN Tree BY <1>3, <2>3 DEF FrameOk
    <2> QED BY <1>4, <2>1, <2>3, <2>4, ChildOf DEF Child
  <1> QED BY <1>1, <1>2, <1>3, <1>4, <1>5

LEMMA ChildIs ==
  ASSUME StackInv, stack # <<>>, DOMAIN Frame.todo # {},
         NEW path \in DOMAIN Tree \ {<<>>},
         Front(path) = Frame.path, Last(path) = NameOrder[Place]
  PROVE  path = Child
  BY ParentOf DEF Child

\* What was written stays written.
Longer == /\ log' \in Seq(Written) /\ Len(log) <= Len(log')
          /\ \A i \in 1..Len(log) : log'[i] = log[i]

LEMMA LogAppended ==
  ASSUME log \in Seq(Written), NEW entry \in Written, log' = Append(log, entry)
  PROVE  /\ Longer /\ Len(log) \in Nat /\ Len(log') = Len(log) + 1 /\ log'[Len(log) + 1] = entry
         /\ \A i \in 1..Len(log') : i \in 1..Len(log) \/ i = Len(log) + 1
  <1>1. /\ log' \in Seq(Written) /\ Len(log') = Len(log) + 1
        /\ \A i \in 1..Len(log) : log'[i] = log[i]
        /\ log'[Len(log) + 1] = entry
    BY AppendProperties
  <1>2. Len(log) \in Nat BY LenProperties
  <1>3. Len(log) <= Len(log') /\ \A i \in 1..Len(log') : i \in 1..Len(log) \/ i = Len(log) + 1
    BY <1>1, <1>2
  <1> QED BY <1>1, <1>2, <1>3 DEF Longer

LEMMA LogSame ==
  ASSUME log \in Seq(Written), log' = log
  PROVE  Longer
  <1>1. Len(log) \in Nat BY LenProperties
  <1> QED BY <1>1 DEF Longer

LEMMA WritingsStay ==
  ASSUME log \in Seq(Written), Longer, NEW path
  PROVE  /\ Writings(path) \subseteq 1..Len(log)
         /\ Writings(path) \subseteq Writings(path)'
         /\ \A i \in Writings(path) : log'[i] = log[i]
  <1>1. DOMAIN log = 1..Len(log) /\ Len(log) \in Nat BY LenProperties
  <1>2. DOMAIN log' = 1..Len(log') /\ Len(log') \in Nat BY LenProperties DEF Longer
  <1>3. 1..Len(log) \subseteq 1..Len(log') BY <1>1, <1>2 DEF Longer
  <1>4. \A i \in Writings(path) : i \in 1..Len(log) /\ log'[i] = log[i] /\ i \in Writings(path)'
    BY <1>1, <1>2, <1>3 DEF Writings, Longer
  <1> QED BY <1>4

\* While the folder stays as it is, what is settled stays so.
LEMMA SettledStays ==
  ASSUME ArchiveTypes, Longer, fs' = fs, late' = late, readErrors \subseteq readErrors',
         excluded \cup skipped \subseteq (excluded \cup skipped)',
         NEW path, Settled(path)
  PROVE  Settled(path)'
  <1>1. log \in Seq(Written) BY DEF ArchiveTypes
  <1>2. Covered(path) => Covered(path)' BY DEF Covered
  <1>3. Archived(path) => Archived(path)' BY <1>1, WritingsStay DEF Archived
  <1> QED BY <1>2, <1>3 DEF Settled

\* A frame is put in the place of the innermost one.
LEMMA FrameMoves ==
  ASSUME ArchiveTypes, StackInv, stack # <<>>, Longer, NEW f,
         FrameOk(f, Len(log')), stack' = WithFrame(f)
  PROVE  /\ StackInv' /\ stack' # <<>> /\ Len(stack') = Len(stack) /\ Frame' = f
         /\ \A i \in 1..Len(stack) : i # Len(stack) => stack'[i] = stack[i]
         /\ stack'[Len(stack)] = f
  <1>1. Listed(stack) /\ Len(stack) \in 1..Len(stack) BY AtWhich DEF StackInv
  <1>2. /\ Listed(stack') /\ Len(stack') = Len(stack) /\ stack'[Len(stack)] = f
        /\ \A i \in 1..Len(stack) : i # Len(stack) => stack'[i] = stack[i]
    <2>1. stack' = [stack EXCEPT ![Len(stack)] = f] BY DEF WithFrame
    <2> DEFINE S == ToSet(stack) \cup {f}
    <2>2. stack \in Seq(S) /\ f \in S BY <1>1 DEF Listed
    <2> HIDE DEF S
    <2>3. stack' \in Seq(S) /\ Len(stack') = Len(stack) BY <1>1, <2>1, <2>2, ExceptSeq
    <2>4. /\ stack'[Len(stack)] = f
          /\ \A i \in 1..Len(stack) : i # Len(stack) => stack'[i] = stack[i]
      BY <1>1, <2>1, <2>2
    <2> QED BY <2>3, <2>4, IsListed
  <1>3. \A i \in 1..Len(stack) : FrameOk(stack[i], Len(log'))
    <2> TAKE i \in 1..Len(stack)
    <2>1. FrameOk(stack[i], Len(log)) BY DEF StackInv
    <2>2. Len(log) \in Nat /\ Len(log') \in Nat /\ Len(log) <= Len(log')
      BY LenProperties DEF ArchiveTypes, Longer
    <2>3. Len(stack[i].virtual) \in Nat BY <2>1, LenProperties DEF FrameOk
    <2>4. Len(log') + Len(stack[i].virtual) >= Len(VirtualFiles)
      BY <2>1, <2>2, <2>3, TreeTyped DEF FrameOk
    <2> QED BY <2>1, <2>4 DEF FrameOk
  <1>4. \A i \in 1..Len(stack') : FrameOk(stack'[i], Len(log')) BY <1>2, <1>3
  <1>5. stack' # <<>> BY <1>1, <1>2, ListedHas
  <1> QED BY <1>2, <1>4, <1>5 DEF StackInv, Frame, Last

\* A child that is passed is the only one that is no longer to come.
LEMMA PendingStays ==
  ASSUME ArchiveTypes, StackInv, stack # <<>>, Longer, NEW f,
         FrameOk(f, Len(log')), stack' = WithFrame(f), f.path = Frame.path,
         \/ DOMAIN f.todo = DOMAIN Frame.todo
         \/ DOMAIN Frame.todo # {} /\ DOMAIN f.todo = DOMAIN Frame.todo \ {Place},
         NEW path \in DOMAIN Tree \ {<<>>}, Pending(path)
  PROVE  \/ Pending(path)'
         \/ path = Child /\ DOMAIN Frame.todo # {} /\ DOMAIN f.todo = DOMAIN Frame.todo \ {Place}
  <1>1. PICK i \in 1..Len(stack) :
          stack[i].path = Front(path) /\ \E k \in DOMAIN stack[i].todo : NameOrder[k] = Last(path)
    BY DEF Pending
  <1>2. /\ Len(stack') = Len(stack) /\ stack'[Len(stack)] = f /\ Frame = stack[Len(stack)]
        /\ \A j \in 1..Len(stack) : j # Len(stack) => stack'[j] = stack[j]
    BY FrameMoves, AtWhich
  <1>3. CASE i # Len(stack) BY <1>1, <1>2, <1>3 DEF Pending
  <1>4. CASE i = Len(stack)
    <2>1. PICK k \in DOMAIN Frame.todo : NameOrder[k] = Last(path) BY <1>1, <1>2, <1>4
    <2>2. CASE k \in DOMAIN f.todo BY <1>1, <1>2, <1>4, <2>1, <2>2 DEF Pending
    <2>3. CASE k \notin DOMAIN f.todo
      <3>1. k = Place /\ DOMAIN Frame.todo # {} /\ DOMAIN f.todo = DOMAIN Frame.todo \ {Place}
        BY <2>1, <2>3
      <3>2. path = Child BY <1>1, <1>2, <1>4, <2>1, <3>1, ChildIs
      <3> QED BY <3>1, <3>2
    <2> QED BY <2>2, <2>3
  <1> QED BY <1>3, <1>4

LEMMA PoppedIs ==
  ASSUME StackInv, stack # <<>>, DOMAIN Frame.todo # {}
  PROVE  /\ FrameOk(Popped(Frame), Len(log)) /\ Popped(Frame).path = Frame.path
         /\ Popped(Frame).virtual = Frame.virtual
         /\ DOMAIN Popped(Frame).todo = DOMAIN Frame.todo \ {Place}
         /\ Popped(Frame).items = Frame.items
  <1>1. FrameOk(Frame, Len(log)) BY AtWhich
  <1> DEFINE t == Restrict(Frame.todo, DOMAIN Frame.todo \ {Place})
  <1>2. DOMAIN t = DOMAIN Frame.todo \ {Place} BY DEF Restrict
  <1>3. Popped(Frame) = [Frame EXCEPT !.todo = t] BY DEF Popped, Place
  <1> HIDE DEF t
  <1> DEFINE f == [Frame EXCEPT !.todo = t]
  <1>4. /\ f = [path |-> Frame.path, virtual |-> Frame.virtual, todo |-> t, start |-> Frame.start,
                dirStart |-> Frame.dirStart, items |-> Frame.items, dirs |-> Frame.dirs,
                files |-> Frame.files]
    BY <1>1 DEF FrameOk
  <1> HIDE DEF f
  <1>5. FrameOk(f, Len(log)) BY <1>1, <1>2, <1>4 DEF FrameOk
  <1> QED BY <1>2, <1>3, <1>4, <1>5 DEF f

LEMMA NotedIs ==
  ASSUME NEW f, NEW n, FrameOk(f, n), NEW name, NEW start, NEW end
  PROVE  /\ FrameOk(Noted(f, name, start, end), n)
         /\ Noted(f, name, start, end).path = f.path
         /\ Noted(f, name, start, end).virtual = f.virtual
         /\ Noted(f, name, start, end).todo = f.todo
         /\ Noted(f, name, start, end).files = f.files
         /\ Noted(f, name, start, end).dirs = f.dirs
  <1> DEFINE items == Append(f.items, [hash |-> Hash[name], start |-> start, len |-> end - start])
             g == [f EXCEPT !.items = items]
  <1>1. Listed(items) BY ListedAppend DEF FrameOk
  <1>2. Noted(f, name, start, end) = g BY DEF Noted
  <1> HIDE DEF items
  <1>3. g = [path |-> f.path, virtual |-> f.virtual, todo |-> f.todo, start |-> f.start,
             dirStart |-> f.dirStart, items |-> items, dirs |-> f.dirs, files |-> f.files]
    BY DEF FrameOk
  <1> HIDE DEF g
  <1>4. FrameOk(g, n) BY <1>1, <1>3 DEF FrameOk
  <1> QED BY <1>2, <1>3, <1>4

\* The entries for the catalog are no concern here.
LEMMA CatalogEntries ==
  ASSUME NEW f, NEW n, FrameOk(f, n), NEW x
  PROVE  /\ FrameOk([f EXCEPT !.files = x], n) /\ FrameOk([f EXCEPT !.dirs = x], n)
         /\ [f EXCEPT !.files = x].path = f.path /\ [f EXCEPT !.dirs = x].path = f.path
         /\ [f EXCEPT !.files = x].virtual = f.virtual /\ [f EXCEPT !.dirs = x].virtual = f.virtual
         /\ [f EXCEPT !.files = x].todo = f.todo /\ [f EXCEPT !.dirs = x].todo = f.todo
  <1> DEFINE g == [f EXCEPT !.files = x]
             h == [f EXCEPT !.dirs = x]
  <1>1. g = [path |-> f.path, virtual |-> f.virtual, todo |-> f.todo, start |-> f.start,
             dirStart |-> f.dirStart, items |-> f.items, dirs |-> f.dirs, files |-> x]
    BY DEF FrameOk
  <1>2. h = [path |-> f.path, virtual |-> f.virtual, todo |-> f.todo, start |-> f.start,
             dirStart |-> f.dirStart, items |-> f.items, dirs |-> x, files |-> f.files]
    BY DEF FrameOk
  <1> HIDE DEF g, h
  <1>3. FrameOk(g, n) BY <1>1 DEF FrameOk
  <1>4. FrameOk(h, n) BY <1>2 DEF FrameOk
  <1> QED BY <1>1, <1>2, <1>3, <1>4 DEF g, h

LEMMA NewFrameIs ==
  ASSUME ArchiveTypes, NEW path \in DOMAIN Tree, NEW start, NEW dirStart, NEW n \in Nat,
         NEW virtual \in Seq([name : DOMAIN Hash, size : Nat]), n + Len(virtual) >= Len(VirtualFiles),
         NEW f, f = NewFrame(path, start, dirStart, virtual)
  PROVE  FrameOk(f, n)
  <1> DEFINE D == {k \in DOMAIN NameOrder : /\ Append(path, NameOrder[k]) \in DOMAIN fs
                                             /\ fs[Append(path, NameOrder[k])].kind # "gone"}
  <1>1. DOMAIN f.todo = D BY DEF NewFrame, ReadDir
  <1>2. DOMAIN fs = DOMAIN Tree BY DEF ArchiveTypes
  <1>3. /\ f = [path |-> f.path, virtual |-> f.virtual, todo |-> f.todo, start |-> f.start,
                dirStart |-> f.dirStart, items |-> f.items, dirs |-> f.dirs, files |-> f.files]
        /\ f.path = path /\ f.virtual = virtual /\ f.items = <<>>
    BY DEF NewFrame
  <1>4. Listed(<<>>) BY EmptySeq DEF Listed
  <1> QED BY <1>1, <1>2, <1>3, <1>4 DEF FrameOk

\* What is in a directory as it is opened is to come.
LEMMA NewFrameHas ==
  ASSUME ArchiveTypes, NEW path \in DOMAIN Tree, NEW start, NEW dirStart, NEW virtual,
         NEW f, f = NewFrame(path, start, dirStart, virtual),
         NEW child \in DOMAIN Tree \ {<<>>}, Front(child) = path
  PROVE  \/ fs[child].kind = "gone"
         \/ \E k \in DOMAIN f.todo : NameOrder[k] = Last(child)
  <1>1. DOMAIN f.todo = {k \in DOMAIN NameOrder : /\ Append(path, NameOrder[k]) \in DOMAIN fs
                                                  /\ fs[Append(path, NameOrder[k])].kind # "gone"}
    BY DEF NewFrame, ReadDir
  <1>2. DOMAIN fs = DOMAIN Tree BY DEF ArchiveTypes
  <1>3. PICK k \in DOMAIN NameOrder : NameOrder[k] = Last(child) BY ParentOf
  <1>4. child = Append(path, NameOrder[k]) BY <1>3, ParentOf
  <1> QED BY <1>1, <1>2, <1>3, <1>4

(***************************************************************************)
(*                                  Cells                                  *)
(***************************************************************************)

Plain(s) == Listed(s) /\ Zero \notin ToSet(s)

LEMMA PlainConcat ==
  ASSUME NEW s, NEW t, Plain(s), Plain(t)
  PROVE  Plain(s \o t)
  BY ListedConcat DEF Plain

LEMMA PlainList ==
  ASSUME NEW n \in Nat, NEW s, s = [i \in 1..n |-> s[i]], \A i \in 1..n : s[i] # Zero
  PROVE  Plain(s)
  <1>1. s \in [1..n -> ToSet(s)] BY DEF ToSet
  <1>2. s \in Seq(ToSet(s)) BY <1>1
  <1> QED BY <1>2 DEF Plain, Listed, ToSet

LEMMA PlainCells ==
  /\ \A c : c # Zero => Plain(<<c>>)
  /\ \A n \in Nat : Plain(Cells(Data, n))
  /\ \A name, n : Plain(FileHeader(name, n))
  /\ \A name : Plain(<<Filename(name), DirEntry>>)
  <1>1. ASSUME NEW c, c # Zero PROVE Plain(<<c>>)
    <2> DEFINE s == <<c>>
    <2>1. s = [i \in 1..1 |-> s[i]] /\ \A i \in 1..1 : s[i] = c OBVIOUS
    <2> HIDE DEF s
    <2>2. \A i \in 1..1 : s[i] # Zero BY <1>1, <2>1
    <2>3. Plain(s) BY <2>1, <2>2, PlainList
    <2> QED BY <2>3 DEF s
  <1>2. ASSUME NEW n \in Nat PROVE Plain(Cells(Data, n))
    <2>1. Data # Zero BY DEF Data, Zero
    <2> DEFINE s == Cells(Data, n)
    <2>2. s = [i \in 1..n |-> s[i]] /\ \A i \in 1..n : s[i] = Data BY DEF Cells
    <2> HIDE DEF s
    <2>3. Plain(s) BY <2>1, <2>2, PlainList
    <2> QED BY <2>3 DEF s
  <1>3. ASSUME NEW name, NEW n PROVE Plain(FileHeader(name, n))
    <2>1. Filename(name).t = "filename" /\ FileEntry.t = "entry" /\ Payload(n).t = "payload"
      BY DEF Filename, FileEntry, Payload
    <2>2. Filename(name) # Zero /\ FileEntry # Zero /\ Payload(n) # Zero BY <2>1 DEF Zero
    <2> DEFINE s == <<Filename(name), FileEntry, Payload(n)>>
    <2>3. s = [i \in 1..3 |-> s[i]] /\ s[1] = Filename(name) /\ s[2] = FileEntry /\ s[3] = Payload(n)
      OBVIOUS
    <2> HIDE DEF s
    <2>4. \A i \in 1..3 : i = 1 \/ i = 2 \/ i = 3 OBVIOUS
    <2>5. \A i \in 1..3 : s[i] # Zero BY <2>2, <2>3, <2>4
    <2>6. Plain(s) BY <2>3, <2>5, PlainList
    <2> QED BY <2>6 DEF s, FileHeader
  <1>4. ASSUME NEW name PROVE Plain(<<Filename(name), DirEntry>>)
    <2>1. Filename(name).t = "filename" /\ DirEntry.t = "entry" BY DEF Filename, DirEntry
    <2>2. Filename(name) # Zero /\ DirEntry # Zero BY <2>1 DEF Zero
    <2> DEFINE s == <<Filename(name), DirEntry>>
    <2>3. s = [i \in 1..2 |-> s[i]] /\ s[1] = Filename(name) /\ s[2] = DirEntry OBVIOUS
    <2> HIDE DEF s
    <2>4. \A i \in 1..2 : i = 1 \/ i = 2 OBVIOUS
    <2>5. \A i \in 1..2 : s[i] # Zero BY <2>2, <2>3, <2>4
    <2>6. Plain(s) BY <2>3, <2>5, PlainList
    <2> QED BY <2>6 DEF s
  <1> QED BY <1>1, <1>2, <1>3, <1>4

LEMMA PlainGoodbye ==
  ASSUME NEW items, Listed(items), NEW dirStart
  PROVE  Plain(GoodbyeTable(items, dirStart))
  <1> DEFINE n == Len(items)
             sorted == MakeBst(ByHash(items))
             relative(item) == [t |-> "item", hash |-> item.hash,
                                offset |-> Len(archive) - item.start, len |-> item.len]
             list == [i \in 1..n |-> relative(sorted[i])]
             tail == [t |-> "tail", offset |-> Len(archive) - dirStart, len |-> n + 2]
  <1>1. GoodbyeTable(items, dirStart) = <<Goodbye(n)>> \o list \o <<tail>> BY DEF GoodbyeTable
  <1>2. Plain(<<Goodbye(n)>>)
    <2>1. Goodbye(n).t = "goodbye" BY DEF Goodbye
    <2>2. Goodbye(n) # Zero BY <2>1 DEF Zero
    <2> QED BY <2>2, PlainCells
  <1>3. Plain(<<tail>>)
    <2>1. tail # Zero BY DEF Zero
    <2> QED BY <2>1, PlainCells
  <1>4. Plain(list)
    <2>1. n \in Nat BY ListedHas
    <2> HIDE DEF n, sorted
    <2>2. \A i \in 1..n : list[i].t = "item" OBVIOUS
    <2>3. \A i \in 1..n : list[i] # Zero BY <2>2 DEF Zero
    <2>4. list = [i \in 1..n |-> list[i]] OBVIOUS
    <2> HIDE DEF list
    <2> QED BY <2>1, <2>3, <2>4, PlainList
  <1> HIDE DEF list, tail
  <1> QED BY <1>1, <1>2, <1>3, <1>4, PlainConcat

LEMMA CellsSent ==
  ASSUME CellsInv, NEW cells, Plain(cells), Send(cells), readErrors' = readErrors
  PROVE  CellsInv'
  BY ListedConcat DEF CellsInv, Plain, Send

LEMMA CellsKept ==
  ASSUME CellsInv, archive' = archive, readErrors \subseteq readErrors'
  PROVE  CellsInv'
  BY DEF CellsInv, Listed, ToSet

(***************************************************************************)
(*                                The walk                                 *)
(***************************************************************************)

LEMMA ArchiveStart == Init => ArchiveInv
  <1> SUFFICES ASSUME Init PROVE ArchiveInv
    OBVIOUS
  <1>1. \A S : <<>> \in Seq(S) /\ Len(<<>>) = 0 BY EmptySeq
  <1>2. ArchiveTypes
    <2>1. fs \in [DOMAIN Tree -> [kind : Kinds, size : Nat]]
      BY ArchiveAssumption DEF Init, ArchiveAssumption
    <2>2. \A p \in DOMAIN Tree : Tree[p].kind \in Folders => fs[p].kind \in Folders \cup {"link"}
      BY DEF Init
    <2> QED BY <1>1, <2>1, <2>2 DEF Init, ArchiveTypes
  <1>3. StackInv BY <1>1 DEF Init, StackInv, Listed
  <1>4. FileInv BY DEF Init, FileInv
  <1>5. \A p : Writings(p) = {}
    <2>1. DOMAIN log = 1..0 BY <1>1, LenProperties DEF Init
    <2>2. DOMAIN log = {} BY <2>1
    <2> QED BY <2>2 DEF Writings
  <1>6. LogInv BY <1>1 DEF Init, LogInv
  <1>7. CellsInv
    <2>1. DOMAIN archive = 1..0 /\ archive = <<>> BY <1>1, LenProperties DEF Init
    <2>2. DOMAIN archive = {} BY <2>1
    <2>3. ToSet(archive) = {} BY <2>2 DEF ToSet
    <2> QED BY <1>1, <2>1, <2>3 DEF CellsInv, Listed
  <1>8. result # "done"
    <2>1. result = None BY DEF Init
    <2> QED BY <2>1, ArchiveAssumption DEF ArchiveAssumption
  <1>11. StartInv BY <1>1 DEF Init, StartInv
  <1>9. EndInv BY <1>8 DEF EndInv
  <1>10. WalkInv BY <1>5, <1>8 DEF Init, WalkInv, Opened
  <1> QED BY <1>2, <1>3, <1>4, <1>6, <1>7, <1>9, <1>10, <1>11 DEF ArchiveInv

\* While nothing is written, no directory is opened.
LEMMA SameWritings ==
  ASSUME log' = log
  PROVE  \A path : Writings(path)' = Writings(path)
  BY DEF Writings

LEMMA LogStays ==
  ASSUME LogInv, log' = log, late' = late
  PROVE  LogInv'
  <1>1. \A path : Writings(path)' = Writings(path) BY SameWritings
  <1>2. \A p \in late' : Writings(p)' # {} BY <1>1 DEF LogInv
  <1>3. \A i \in 1..Len(log') : i > Len(VirtualFiles) =>
          log'[i].path \in DOMAIN Tree /\ (Tree[log'[i].path].kind \in Folders => log'[i].dir)
    BY DEF LogInv
  <1> QED BY <1>2, <1>3 DEF LogInv

\* What is written or changed by the frame at work leaves the start as it was.
LEMMA StartStays ==
  ASSUME ArchiveTypes, StackInv, StartInv, stack # <<>>, Longer, NEW f,
         FrameOk(f, Len(log')), stack' = WithFrame(f), f.virtual = Frame.virtual,
         log' = log \/ Frame.virtual = <<>>
  PROVE  StartInv'
  <1>1. /\ Len(stack') = Len(stack) /\ stack' # <<>> /\ stack'[Len(stack)] = f
        /\ Frame = stack[Len(stack)] /\ Len(stack) \in 1..Len(stack)
        /\ \A i \in 1..Len(stack) : i # Len(stack) => stack'[i] = stack[i]
    BY FrameMoves, AtWhich
  <1>2. \A i \in 1..Len(stack) : stack'[i].virtual = stack[i].virtual BY <1>1
  <1>3. \A i \in 1..Len(stack) : stack[i].virtual # <<>> =>
          i = Len(stack) /\ Len(log) + Len(stack[i].virtual) = Len(VirtualFiles)
    BY DEF StartInv
  <1>4. \A i \in 1..Len(stack') : stack'[i].virtual # <<>> =>
          i = Len(stack') /\ Len(log') + Len(stack'[i].virtual) = Len(VirtualFiles)
    <2> SUFFICES ASSUME NEW i \in 1..Len(stack), stack[i].virtual # <<>>
                 PROVE  i = Len(stack') /\ Len(log') + Len(stack[i].virtual) = Len(VirtualFiles)
      BY <1>1, <1>2
    <2>1. i = Len(stack) /\ Len(log) + Len(stack[i].virtual) = Len(VirtualFiles) BY <1>3
    <2>2. log' = log BY <1>1, <2>1
    <2> QED BY <1>1, <2>1, <2>2
  <1> QED BY <1>1, <1>4 DEF StartInv

\* A child is left out, or cannot be read.
LEMMA PassMoves ==
  ASSUME ArchiveInv, AtChild, PassOver, excluded' \cup skipped' \subseteq DOMAIN Tree,
         excluded \subseteq excluded', skipped \subseteq skipped', readErrors \subseteq readErrors',
         NEW child, child = Child,
         readErrors' # {} \/ \E over \in excluded' \cup skipped' : IsPrefix(over, child)
  PROVE  ArchiveInv'
  <1>1. /\ ArchiveTypes /\ StackInv /\ StartInv /\ stack # <<>> /\ file = None
        /\ DOMAIN Frame.todo # {} /\ result = None
    BY DEF ArchiveInv, AtChild, Walking
  <1>2. /\ archive' = archive /\ file' = file /\ log' = log /\ result' = result /\ fs' = fs
        /\ late' = late /\ stack' = WithFrame(Popped(Frame))
    BY DEF PassOver, outside
  <1>3. Longer BY <1>1, <1>2, LogSame DEF ArchiveTypes
  <1>4. /\ FrameOk(Popped(Frame), Len(log')) /\ Popped(Frame).path = Frame.path
        /\ DOMAIN Popped(Frame).todo = DOMAIN Frame.todo \ {Place}
        /\ Popped(Frame).virtual = Frame.virtual
    BY <1>1, <1>2, PoppedIs
  <1>5. ArchiveTypes' BY <1>1, <1>2 DEF ArchiveTypes
  <1>6. StackInv' /\ stack' # <<>> BY <1>1, <1>2, <1>3, <1>4, FrameMoves
  <1>7. FileInv' BY <1>1, <1>2 DEF FileInv
  <1>8. LogInv' BY <1>2, LogStays DEF ArchiveInv
  <1>9. WalkInv'
    <2> SUFFICES ASSUME NEW path \in DOMAIN Tree \ {<<>>}, Opened(Front(path))'
                 PROVE  Pending(path)' \/ Settled(path)'
      BY DEF WalkInv
    <2>1. Opened(Front(path)) BY <1>1, <1>2, SameWritings DEF Opened
    <2>2. Pending(path) \/ Settled(path) BY <2>1 DEF ArchiveInv, WalkInv
    <2>3. Pending(path) => Pending(path)' \/ path = child
      BY <1>1, <1>2, <1>3, <1>4, PendingStays
    <2>4. Settled(path) => Settled(path)' BY <1>1, <1>2, <1>3, SettledStays
    <2>5. path = child => Settled(path)' BY DEF Settled, Covered
    <2> QED BY <2>2, <2>3, <2>4, <2>5
  <1>10. CellsInv' BY <1>2, CellsKept DEF ArchiveInv
  <1>11. StartInv' BY <1>1, <1>2, <1>3, <1>4, StartStays
  <1>12. EndInv' BY <1>1, <1>2, <1>6 DEF EndInv, ArchiveInv
  <1> QED BY <1>5, <1>6, <1>7, <1>8, <1>9, <1>10, <1>11, <1>12 DEF ArchiveInv

LEMMA LeaveMoves ==
  ASSUME ArchiveInv, Exclude \/ SkipSystem \/ SkipLink \/ ReadError
  PROVE  ArchiveInv'
  <1>1. AtChild /\ PassOver
    BY DEF Exclude, SkipSystem, SkipLink, ReadError, AtWanted
  <1>2. /\ StackInv /\ stack # <<>> /\ DOMAIN Frame.todo # {}
        /\ excluded \subseteq DOMAIN Tree /\ skipped \subseteq DOMAIN Tree
    BY <1>1 DEF ArchiveInv, AtChild, Walking, ArchiveTypes
  <1>3. PICK child : child = Child OBVIOUS
  <1>4. child \in DOMAIN Tree BY <1>2, <1>3, AtWhich
  <1>5. IsPrefix(child, child)
    <2>1. child \in Seq(DOMAIN Hash) BY <1>4, TreeTyped
    <2>2. Len(child) \in Nat BY <2>1
    <2> QED BY <2>2 DEF IsPrefix
  <1>6. /\ \/ excluded' = excluded \cup {child} /\ skipped' = skipped
           \/ skipped' = skipped \cup {child} /\ excluded' = excluded
           \/ readErrors' = readErrors \cup {child} /\ skipped' = skipped /\ excluded' = excluded
        /\ readErrors \subseteq readErrors'
    BY <1>3 DEF Exclude, SkipSystem, SkipLink, ReadError
  <1>7. readErrors' # {} \/ \E over \in excluded' \cup skipped' : IsPrefix(over, child)
    BY <1>5, <1>6
  <1>8. /\ excluded' \cup skipped' \subseteq DOMAIN Tree
        /\ excluded \subseteq excluded' /\ skipped \subseteq skipped'
    BY <1>2, <1>4, <1>6
  <1> QED BY <1>1, <1>3, <1>6, <1>7, <1>8, PassMoves

\* The walk stands still.
LEMMA StandStill ==
  ASSUME ArchiveInv, result = None, result' # "done", FileInv', CellsInv',
         UNCHANGED <<fs, stack, log, excluded, skipped, readErrors, late>>
  PROVE  ArchiveInv'
  <1>1. /\ fs' = fs /\ stack' = stack /\ log' = log
        /\ excluded' = excluded /\ skipped' = skipped /\ readErrors' = readErrors /\ late' = late
    OBVIOUS
  <1>2. ArchiveTypes' BY <1>1 DEF ArchiveInv, ArchiveTypes
  <1>3. StackInv' BY <1>1 DEF ArchiveInv, StackInv
  <1>5. LogInv' BY <1>1, LogStays DEF ArchiveInv
  <1>6. WalkInv'
    <2> SUFFICES ASSUME NEW path \in DOMAIN Tree \ {<<>>}, Opened(Front(path))'
                 PROVE  Pending(path)' \/ Settled(path)'
      BY DEF WalkInv
    <2>1. Opened(Front(path)) BY <1>1, SameWritings DEF Opened
    <2>2. Pending(path) \/ Settled(path) BY <2>1 DEF ArchiveInv, WalkInv
    <2>3. Pending(path) => Pending(path)' BY <1>1 DEF Pending
    <2>4. Longer BY <1>1, LogSame DEF ArchiveInv, ArchiveTypes
    <2>5. Settled(path) => Settled(path)' BY <1>1, <2>4, SettledStays DEF ArchiveInv
    <2> QED BY <2>2, <2>3, <2>5
  <1>7. StartInv'
    <2>1. stack = <<>> => log = <<>> BY DEF ArchiveInv, StartInv
    <2> QED BY <1>1, <2>1 DEF ArchiveInv, StartInv
  <1>8. EndInv' BY DEF EndInv
  <1> QED BY <1>2, <1>3, <1>5, <1>6, <1>7, <1>8 DEF ArchiveInv

\* Nothing happens but a cancel, or a failure.
LEMMA NothingMoves ==
  ASSUME ArchiveInv, result = None, result' # "done",
         UNCHANGED <<fs, archive, stack, file, log, excluded, skipped, readErrors, late>>
  PROVE  ArchiveInv'
  <1>1. /\ archive' = archive /\ stack' = stack /\ file' = file /\ log' = log
        /\ readErrors' = readErrors
    OBVIOUS
  <1>2. FileInv' BY <1>1 DEF ArchiveInv, FileInv, Frame, Child, Place, Writings
  <1>3. CellsInv' BY <1>1, CellsKept DEF ArchiveInv
  <1> QED BY <1>2, <1>3, StandStill

LEMMA StopMoves ==
  ASSUME ArchiveInv, StopIfCancelled \/ ReadFails \/ Cancel
  PROVE  ArchiveInv'
  <1>1. result = None /\ result' # "done"
    <2>1. result = None /\ (result' = None \/ result' = "cancelled" \/ result' = "failed")
      BY DEF StopIfCancelled, ReadFails, Reading, Cancel
    <2>2. None # "done" BY ArchiveAssumption DEF ArchiveAssumption
    <2> QED BY <2>1, <2>2
  <1>2. UNCHANGED <<fs, archive, stack, file, log, excluded, skipped, readErrors, late>>
    BY DEF StopIfCancelled, ReadFails, Cancel, notes, outside
  <1> QED BY <1>1, <1>2, NothingMoves

LEMMA RootMoves ==
  ASSUME ArchiveInv, WriteRoot
  PROVE  ArchiveInv'
  <1>1. CASE fs[<<>>].kind # "dir"
    <2>1. result = None /\ result' = "failed" BY <1>1 DEF WriteRoot
    <2>2. UNCHANGED <<fs, archive, stack, file, log, excluded, skipped, readErrors, late>>
      BY <1>1 DEF WriteRoot, notes, outside
    <2> QED BY <2>1, <2>2, NothingMoves
  <1>2. CASE fs[<<>>].kind = "dir"
    <2>0. PICK f : f = NewFrame(<<>>, 0, 0, VirtualFiles) OBVIOUS
    <2>1. /\ fs' = fs /\ file' = file /\ log' = log /\ result' = result /\ result = None
          /\ stack = <<>> /\ stack' = <<f>> /\ Send(<<DirEntry>>)
          /\ excluded' = excluded /\ skipped' = skipped /\ readErrors' = readErrors /\ late' = late
      BY <1>2, <2>0 DEF WriteRoot, notes, outside
    <2>2. ArchiveTypes' BY <2>1 DEF ArchiveInv, ArchiveTypes
    <2>3. Longer /\ Len(log) \in Nat
      BY <2>1, LogSame, LenProperties DEF ArchiveInv, ArchiveTypes
    <2>4. FrameOk(f, Len(log)) /\ f.path = <<>>
      <3>1. <<>> \in DOMAIN Tree BY ArchiveAssumption DEF ArchiveAssumption
      <3>2. Len(log) + Len(VirtualFiles) >= Len(VirtualFiles) BY <2>3, TreeTyped
      <3>3. ArchiveTypes BY DEF ArchiveInv
      <3>4. VirtualFiles \in Seq([name : DOMAIN Hash, size : Nat]) BY TreeTyped
      <3>5. FrameOk(f, Len(log)) BY <2>0, <2>3, <3>1, <3>2, <3>3, <3>4, NewFrameIs
      <3>6. f.path = <<>> BY <2>0 DEF NewFrame
      <3> QED BY <3>5, <3>6
    <2>5. f.virtual = VirtualFiles BY <2>0 DEF NewFrame
    <2>6. Len(stack') = 1 /\ stack'[1] = f /\ Listed(stack') /\ stack' # <<>>
      <3>1. stack' \in Seq({f}) BY <2>1
      <3> QED BY <2>1, <3>1, IsListed
    <2>7. \A i \in 1..1 : i = 1 OBVIOUS
    <2>8. StackInv' BY <2>1, <2>4, <2>6, <2>7 DEF StackInv
    <2>9. FileInv' BY <2>1 DEF ArchiveInv, FileInv
    <2>10. LogInv' BY <2>1, LogStays DEF ArchiveInv
    <2>11. WalkInv'
      <3> SUFFICES ASSUME NEW path \in DOMAIN Tree \ {<<>>}, Opened(Front(path))'
                   PROVE  Pending(path)' \/ Settled(path)'
        BY DEF WalkInv
      <3>1. CASE Front(path) = <<>>
        <4>1. (\E k \in DOMAIN f.todo : NameOrder[k] = Last(path)) => Pending(path)'
          BY <2>4, <2>6, <2>7, <3>1 DEF Pending
        <4>2. fs[path].kind = "gone" => Settled(path)' BY <2>1 DEF Settled
        <4>3. ArchiveTypes /\ <<>> \in DOMAIN Tree
          BY ArchiveAssumption DEF ArchiveInv, ArchiveAssumption
        <4>4. fs[path].kind = "gone" \/ \E k \in DOMAIN f.todo : NameOrder[k] = Last(path)
          BY <2>0, <3>1, <4>3, NewFrameHas
        <4> QED BY <4>1, <4>2, <4>4
      <3>2. CASE Front(path) # <<>>
        <4>1. Opened(Front(path)) BY <2>1, <3>2, SameWritings DEF Opened
        <4>2. ~Pending(path)
          <5>1. Len(stack) = 0 BY <2>1, EmptySeq
          <5> QED BY <5>1 DEF Pending
        <4>3. Settled(path) BY <4>1, <4>2 DEF ArchiveInv, WalkInv
        <4> QED BY <2>1, <2>3, <4>3, SettledStays DEF ArchiveInv
      <3> QED BY <3>1, <3>2
    <2>12. CellsInv'
      <3>1. DirEntry.t = "entry" BY DEF DirEntry
      <3>2. DirEntry # Zero BY <3>1 DEF Zero
      <3> QED BY <2>1, <3>2, PlainCells, CellsSent DEF ArchiveInv
    <2>13. StartInv'
      <3>1. log = <<>> BY <2>1 DEF ArchiveInv, StartInv
      <3>2. Len(log') = 0 BY <2>1, <3>1, EmptySeq
      <3>3. Len(log') + Len(VirtualFiles) = Len(VirtualFiles) BY <3>2, TreeTyped
      <3> QED BY <2>5, <2>6, <2>7, <3>3 DEF StartInv
    <2>14. EndInv'
      <3>1. result' # "done" BY <2>1, ArchiveAssumption DEF ArchiveAssumption
      <3> QED BY <3>1 DEF EndInv
    <2> QED BY <2>2, <2>8, <2>9, <2>10, <2>11, <2>12, <2>13, <2>14 DEF ArchiveInv
  <1> QED BY <1>1, <1>2

(***************************************************************************)
(*                                  Files                                  *)
(***************************************************************************)

\* An entry that opens no directory.
LEMMA OpenedBefore ==
  ASSUME ArchiveTypes, stack # <<>>, NEW entry \in Written, ~entry.dir, log' = Append(log, entry),
         NEW path, Opened(path)'
  PROVE  Opened(path)
  <1>1. CASE path = <<>> BY <1>1 DEF Opened
  <1>2. CASE path # <<>>
    <2>1. /\ Longer /\ Len(log) \in Nat /\ log'[Len(log) + 1] = entry
          /\ \A i \in 1..Len(log') : i \in 1..Len(log) \/ i = Len(log) + 1
      BY LogAppended DEF ArchiveTypes
    <2>2. PICK i \in Writings(path)' : log'[i].dir BY <1>2 DEF Opened
    <2>3. i \in 1..Len(log') /\ i > Len(VirtualFiles) /\ log'[i].path = path
      BY <2>1, <2>2, LenProperties DEF Writings, Longer
    <2>4. i \in 1..Len(log) /\ log'[i] = log[i] BY <2>1, <2>2, <2>3 DEF Longer
    <2>5. DOMAIN log = 1..Len(log) BY LenProperties DEF ArchiveTypes
    <2>6. i \in Writings(path) BY <2>3, <2>4, <2>5 DEF Writings
    <2> QED BY <2>2, <2>4, <2>6 DEF Opened
  <1> QED BY <1>1, <1>2

LEMMA LogGrows ==
  ASSUME ArchiveTypes, LogInv, NEW entry \in Written, log' = Append(log, entry), late' = late,
         Len(log) + 1 > Len(VirtualFiles) =>
           entry.path \in DOMAIN Tree /\ (Tree[entry.path].kind \in Folders => entry.dir)
  PROVE  LogInv'
  <1>1. /\ Longer /\ Len(log) \in Nat /\ log'[Len(log) + 1] = entry
        /\ \A i \in 1..Len(log') : i \in 1..Len(log) \/ i = Len(log) + 1
    BY LogAppended DEF ArchiveTypes
  <1>2. ASSUME NEW i \in 1..Len(log'), i > Len(VirtualFiles)
        PROVE  log'[i].path \in DOMAIN Tree /\ (Tree[log'[i].path].kind \in Folders => log'[i].dir)
    <2>1. CASE i = Len(log) + 1 BY <1>1, <1>2, <2>1
    <2>2. CASE i \in 1..Len(log) BY <1>1, <1>2, <2>2 DEF LogInv, Longer
    <2> QED BY <1>1, <2>1, <2>2
  <1>3. ASSUME NEW p \in late' PROVE Writings(p)' # {}
    <2>1. Writings(p) # {} BY <1>3 DEF LogInv
    <2>2. Writings(p) \subseteq Writings(p)' BY <1>1, WritingsStay DEF ArchiveTypes
    <2> QED BY <2>1, <2>2
  <1> QED BY <1>2, <1>3 DEF LogInv

LEMMA StackStays ==
  ASSUME ArchiveTypes, StackInv, Longer, stack' = stack
  PROVE  StackInv'
  <1>1. ASSUME NEW i \in 1..Len(stack) PROVE FrameOk(stack[i], Len(log'))
    <2>1. FrameOk(stack[i], Len(log)) BY DEF StackInv
    <2>2. Len(log) \in Nat /\ Len(log') \in Nat /\ Len(log) <= Len(log')
      BY LenProperties DEF ArchiveTypes, Longer
    <2>3. Len(stack[i].virtual) \in Nat BY <2>1, LenProperties DEF FrameOk
    <2>4. Len(log') + Len(stack[i].virtual) >= Len(VirtualFiles)
      BY <2>1, <2>2, <2>3, TreeTyped DEF FrameOk
    <2> QED BY <2>1, <2>4 DEF FrameOk
  <1> QED BY <1>1 DEF StackInv

\* Once the virtual files are written, an entry is one of a child.
LEMMA PastVirtual ==
  ASSUME ArchiveTypes, StackInv, stack # <<>>, Frame.virtual = <<>>
  PROVE  Len(log) \in Nat /\ Len(log) + 1 > Len(VirtualFiles)
  <1>1. FrameOk(Frame, Len(log)) BY AtWhich
  <1>2. Len(Frame.virtual) = 0 BY EmptySeq
  <1>3. Len(log) \in Nat BY LenProperties DEF ArchiveTypes
  <1>4. Len(log) + Len(Frame.virtual) >= Len(VirtualFiles) BY <1>1 DEF FrameOk
  <1> QED BY <1>2, <1>3, <1>4, TreeTyped

LEMMA OpenMoves ==
  ASSUME ArchiveInv, OpenFile
  PROVE  ArchiveInv'
  <1>1. /\ ArchiveTypes /\ StackInv /\ StartInv /\ stack # <<>> /\ Frame.virtual = <<>>
        /\ DOMAIN Frame.todo # {} /\ result = None
    BY DEF ArchiveInv, OpenFile, AtWanted, AtChild, Walking
  <1>2. PICK child : child = Child OBVIOUS
  <1>3. child \in DOMAIN Tree \ {<<>>} BY <1>1, <1>2, AtWhich
  <1>4. PICK n : n = fs[child].size OBVIOUS
  <1>5. PICK entry : entry = [path |-> child, dir |-> FALSE, size |-> n] OBVIOUS
  <1>6. /\ fs' = fs /\ stack' = stack /\ result' = result /\ late' = late
        /\ excluded' = excluded /\ skipped' = skipped /\ readErrors' = readErrors
        /\ log' = Append(log, entry) /\ Send(FileHeader(Last(child), n))
        /\ file' = [path |-> child, declared |-> n, written |-> 0, start |-> Len(archive)]
        /\ fs[child].kind = "file"
    BY <1>2, <1>4, <1>5 DEF OpenFile, Kind, notes, outside
  <1>7. n \in Nat /\ child \in Seq(DOMAIN Hash) BY <1>1, <1>3, <1>4, TreeTyped DEF ArchiveTypes
  <1>8. entry \in Written /\ ~entry.dir /\ entry.path = child /\ entry.size = n
    BY <1>5, <1>7 DEF Written
  <1>9. Len(log) \in Nat /\ Len(log) + 1 > Len(VirtualFiles) BY <1>1, PastVirtual
  <1>10. /\ Longer /\ Len(log') = Len(log) + 1 /\ log'[Len(log) + 1] = entry
    BY <1>1, <1>6, <1>8, LogAppended DEF ArchiveTypes
  <1>11. Tree[child].kind \notin Folders
    BY <1>1, <1>3, <1>6 DEF ArchiveTypes, Folders
  <1>12. ArchiveTypes' BY <1>1, <1>6, <1>10 DEF ArchiveTypes, Longer
  <1>13. StackInv' BY <1>1, <1>6, <1>10, StackStays
  <1>14. FileInv'
    <2>1. Len(log) + 1 \in Writings(child)'
      <3>1. DOMAIN log' = 1..Len(log') BY <1>10, LenProperties DEF Longer
      <3>2. Len(log) + 1 \in 1..Len(log') BY <1>9, <1>10
      <3> QED BY <1>8, <1>9, <1>10, <3>1, <3>2 DEF Writings
    <2>2. /\ file'.path = child /\ file'.declared = n /\ file'.written = 0
          /\ file' = [path |-> file'.path, declared |-> file'.declared, written |-> file'.written,
                      start |-> file'.start]
      BY <1>6
    <2>3. Frame' = Frame /\ Child' = child BY <1>2, <1>6 DEF Frame, Child, Place
    <2>4. 0 \in 0..n BY <1>7
    <2>5. \E i \in Writings(file.path)' : log'[i].size = file'.declared
      BY <1>8, <1>10, <2>1, <2>2
    <2> QED BY <1>1, <1>6, <1>7, <2>2, <2>3, <2>4, <2>5 DEF FileInv
  <1>15. LogInv' BY <1>1, <1>3, <1>6, <1>8, <1>11, LogGrows DEF ArchiveInv
  <1>16. WalkInv'
    <2> SUFFICES ASSUME NEW path \in DOMAIN Tree \ {<<>>}, Opened(Front(path))'
                 PROVE  Pending(path)' \/ Settled(path)'
      BY DEF WalkInv
    <2>1. Opened(Front(path)) BY <1>1, <1>6, <1>8, OpenedBefore
    <2>2. Pending(path) \/ Settled(path) BY <2>1 DEF ArchiveInv, WalkInv
    <2>3. Pending(path) => Pending(path)' BY <1>6 DEF Pending
    <2>4. Settled(path) => Settled(path)' BY <1>1, <1>6, <1>10, SettledStays
    <2> QED BY <2>2, <2>3, <2>4
  <1>17. CellsInv' BY <1>6, PlainCells, CellsSent DEF ArchiveInv
  <1>18. StartInv'
    <2>1. \A i \in 1..Len(stack) : stack[i].virtual = <<>>
      BY <1>1, AtWhich DEF StartInv
    <2> QED BY <1>1, <1>6, <2>1 DEF StartInv
  <1>19. EndInv'
    <2>1. result' # "done" BY <1>1, <1>6, ArchiveAssumption DEF ArchiveAssumption
    <2> QED BY <2>1 DEF EndInv
  <1> QED BY <1>12, <1>13, <1>14, <1>15, <1>16, <1>17, <1>18, <1>19 DEF ArchiveInv

LEMMA ReadMoves ==
  ASSUME ArchiveInv, ReadData
  PROVE  ArchiveInv'
  <1>1. /\ result = None /\ file # None /\ file.written < file.declared /\ Send(<<Data>>)
        /\ file' = [file EXCEPT !.written = @ + 1] /\ result' = result
        /\ UNCHANGED <<fs, stack, log, excluded, skipped, readErrors, late>>
    BY DEF ReadData, Reading, notes, outside
  <1>2. FileInv BY DEF ArchiveInv
  <1>3. CellsInv'
    <2>1. Data # Zero BY DEF Data, Zero
    <2> QED BY <1>1, <2>1, PlainCells, CellsSent DEF ArchiveInv
  <1>4. FileInv'
    <2>1. /\ file = [path |-> file.path, declared |-> file.declared, written |-> file.written,
                     start |-> file.start]
          /\ file.declared \in Nat /\ file.written \in 0..file.declared
      BY <1>1, <1>2 DEF FileInv
    <2>2. file' = [path |-> file.path, declared |-> file.declared, written |-> file.written + 1,
                   start |-> file.start]
      BY <1>1, <2>1
    <2>3. file.written + 1 \in 0..file.declared BY <1>1, <2>1
    <2>4. /\ file'.path = file.path /\ file'.declared = file.declared
          /\ file'.written = file.written + 1 /\ file'.start = file.start
      BY <2>2
    <2>5. Frame' = Frame /\ Child' = Child BY <1>1 DEF Frame, Child, Place
    <2>6. \E i \in Writings(file.path)' : log'[i].size = file'.declared
      <3>1. PICK i \in Writings(file.path) : log[i].size = file.declared BY <1>1, <1>2 DEF FileInv
      <3>2. i \in Writings(file.path)' BY <1>1, <2>4, <3>1 DEF Writings
      <3> QED BY <1>1, <2>4, <3>1, <3>2
    <2> QED BY <1>1, <1>2, <2>1, <2>2, <2>3, <2>4, <2>5, <2>6 DEF FileInv
  <1>5. result' # "done" BY <1>1, ArchiveAssumption DEF ArchiveAssumption
  <1> QED BY <1>1, <1>3, <1>4, <1>5, StandStill

LEMMA FileEnds ==
  ASSUME ArchiveInv, result = None, file # None, NEW end, FileDone(end),
         readErrors \subseteq readErrors', CellsInv', readErrors' # {} \/ Archived(file.path)
  PROVE  ArchiveInv'
  <1>1. /\ ArchiveTypes /\ StackInv /\ StartInv /\ stack # <<>> /\ Frame.virtual = <<>>
        /\ DOMAIN Frame.todo # {} /\ file.path = Child
    BY DEF ArchiveInv, FileInv
  <1>2. PICK f : f = [Noted(Popped(Frame), Last(file.path), file.start, end)
                        EXCEPT !.files = Append(@, [name |-> Last(file.path), size |-> file.declared])]
    OBVIOUS
  <1>3. /\ fs' = fs /\ log' = log /\ late' = late /\ result' = result /\ file' = None
        /\ excluded' = excluded /\ skipped' = skipped /\ stack' = WithFrame(f)
    BY <1>2 DEF FileDone, outside
  <1>4. /\ FrameOk(f, Len(log')) /\ f.path = Frame.path /\ f.virtual = Frame.virtual
        /\ DOMAIN f.todo = DOMAIN Frame.todo \ {Place}
    <2>1. /\ FrameOk(Popped(Frame), Len(log)) /\ Popped(Frame).path = Frame.path
          /\ Popped(Frame).virtual = Frame.virtual
          /\ DOMAIN Popped(Frame).todo = DOMAIN Frame.todo \ {Place}
      BY <1>1, PoppedIs
    <2>2. PICK m : m = Noted(Popped(Frame), Last(file.path), file.start, end) OBVIOUS
    <2>3. /\ FrameOk(m, Len(log)) /\ m.path = Popped(Frame).path
          /\ m.virtual = Popped(Frame).virtual /\ m.todo = Popped(Frame).todo
      BY <2>1, <2>2, NotedIs
    <2>4. PICK y : y = Append(m.files, [name |-> Last(file.path), size |-> file.declared]) OBVIOUS
    <2>5. f = [m EXCEPT !.files = y] BY <1>2, <2>2, <2>4
    <2>6. FrameOk(f, Len(log)) /\ f.path = m.path /\ f.virtual = m.virtual /\ f.todo = m.todo
      BY <2>3, <2>5, CatalogEntries
    <2> QED BY <1>3, <2>1, <2>3, <2>6
  <1>5. Longer BY <1>1, <1>3, LogSame DEF ArchiveTypes
  <1>6. PICK child : child = Child OBVIOUS
  <1>7. ArchiveTypes' BY <1>1, <1>3 DEF ArchiveTypes
  <1>8. StackInv' /\ stack' # <<>> BY <1>1, <1>3, <1>4, <1>5, FrameMoves
  <1>9. FileInv' BY <1>3 DEF FileInv
  <1>10. LogInv' BY <1>3, LogStays DEF ArchiveInv
  <1>11. WalkInv'
    <2> SUFFICES ASSUME NEW path \in DOMAIN Tree \ {<<>>}, Opened(Front(path))'
                 PROVE  Pending(path)' \/ Settled(path)'
      BY DEF WalkInv
    <2>1. Opened(Front(path)) BY <1>1, <1>3, SameWritings DEF Opened
    <2>2. Pending(path) \/ Settled(path) BY <2>1 DEF ArchiveInv, WalkInv
    <2>3. Pending(path) => Pending(path)' \/ path = child
      BY <1>1, <1>3, <1>4, <1>5, <1>6, PendingStays
    <2>4. Settled(path) => Settled(path)' BY <1>1, <1>3, <1>5, SettledStays
    <2>5. path = child /\ readErrors' # {} => Settled(path)' BY DEF Settled
    <2>6. path = child /\ Archived(file.path) => Settled(path) BY <1>1, <1>6 DEF Settled
    <2> QED BY <2>2, <2>3, <2>4, <2>5, <2>6
  <1>12. StartInv' BY <1>1, <1>3, <1>4, <1>5, StartStays
  <1>13. EndInv'
    <2>1. result' # "done" BY <1>3, ArchiveAssumption DEF ArchiveAssumption
    <2> QED BY <2>1 DEF EndInv
  <1> QED BY <1>7, <1>8, <1>9, <1>10, <1>11, <1>12, <1>13 DEF ArchiveInv

LEMMA PadMoves ==
  ASSUME ArchiveInv, Pad
  PROVE  ArchiveInv'
  <1>1. /\ result = None /\ file # None /\ file.written < file.declared
        /\ readErrors' = readErrors \cup {file.path}
        /\ archive' = archive \o Cells(Zero, file.declared - file.written)
        /\ \E end : FileDone(end)
    BY DEF Pad, Reading, Send
  <1>2. CellsInv'
    <2>1. file.declared - file.written \in Nat
      BY <1>1 DEF ArchiveInv, FileInv
    <2> DEFINE k == file.declared - file.written
               s == [i \in 1..k |-> Zero]
    <2>2. Listed(s)
      <3>1. k \in Nat BY <2>1
      <3> HIDE DEF k
      <3>2. s \in Seq({Zero}) BY <3>1
      <3> QED BY <3>2, IsListed
    <2>3. archive' = archive \o s BY <1>1 DEF Cells
    <2> HIDE DEF s
    <2>4. Listed(archive') BY <2>2, <2>3, ListedConcat DEF ArchiveInv, CellsInv
    <2> QED BY <1>1, <2>4 DEF CellsInv, Listed
  <1>3. readErrors' # {} /\ readErrors \subseteq readErrors' BY <1>1
  <1> QED BY <1>1, <1>2, <1>3, FileEnds

\* A file that is as long as was declared, or was cut, is in the archive.
LEMMA ProbeMoves ==
  ASSUME ArchiveInv, Probe
  PROVE  ArchiveInv'
  <1>1. /\ result = None /\ file # None /\ file.written = file.declared
        /\ archive' = archive /\ \E end : FileDone(end)
        /\ readErrors' = IF HasMore THEN readErrors \cup {file.path} ELSE readErrors
    BY DEF Probe, Reading
  <1>2. readErrors \subseteq readErrors' BY <1>1
  <1>3. CellsInv' BY <1>1, <1>2, CellsKept DEF ArchiveInv
  <1>4. ASSUME ~HasMore PROVE Archived(file.path)
    <2>1. /\ ArchiveTypes /\ StackInv /\ stack # <<>> /\ DOMAIN Frame.todo # {}
          /\ file.path = Child /\ file.declared \in Nat
      BY <1>1 DEF ArchiveInv, FileInv
    <2>2. file.path \in DOMAIN Tree BY <2>1, AtWhich
    <2>3. fs[file.path].size \in Nat BY <2>1, <2>2 DEF ArchiveTypes
    <2>4. PICK i \in Writings(file.path) : log[i].size = file.declared
      BY <1>1 DEF ArchiveInv, FileInv
    <2>5. log[i].size >= fs[file.path].size BY <1>1, <1>4, <2>1, <2>3, <2>4 DEF HasMore
    <2> QED BY <2>4, <2>5 DEF Archived
  <1>5. readErrors' # {} \/ Archived(file.path) BY <1>1, <1>4
  <1> QED BY <1>1, <1>2, <1>3, <1>5, FileEnds

LEMMA VirtualMoves ==
  ASSUME ArchiveInv, WriteVirtualFile
  PROVE  ArchiveInv'
  <1>1. /\ ArchiveTypes /\ StackInv /\ StartInv /\ stack # <<>> /\ Frame.virtual # <<>>
        /\ result = None /\ file = None /\ FrameOk(Frame, Len(log)) /\ Len(log) \in Nat
    BY AtWhich, LenProperties DEF ArchiveInv, ArchiveTypes, WriteVirtualFile, Walking
  <1>2. PICK vf, rest : vf = Head(Frame.virtual) /\ rest = Tail(Frame.virtual) OBVIOUS
  <1>3. PICK m : m = Noted(Frame, vf.name, Len(archive), Len(archive')) OBVIOUS
  <1>4. PICK f : f = [m EXCEPT !.virtual = Tail(@), !.files = Append(@, vf)] OBVIOUS
  <1>5. PICK entry : entry = [path |-> <<vf.name>>, dir |-> FALSE, size |-> vf.size] OBVIOUS
  <1>6. /\ fs' = fs /\ file' = file /\ result' = result /\ late' = late
        /\ excluded' = excluded /\ skipped' = skipped /\ readErrors' = readErrors
        /\ log' = Append(log, entry) /\ stack' = WithFrame(f) /\ Send(VirtualCells(vf))
    BY <1>2, <1>3, <1>4, <1>5 DEF WriteVirtualFile, notes, outside
  <1>7. /\ vf.name \in DOMAIN Hash /\ vf.size \in Nat
        /\ rest \in Seq([name : DOMAIN Hash, size : Nat])
        /\ Len(rest) + 1 = Len(Frame.virtual) /\ Len(rest) \in Nat
    <2>1. Frame.virtual \in Seq([name : DOMAIN Hash, size : Nat]) BY <1>1 DEF FrameOk
    <2>2. /\ vf \in [name : DOMAIN Hash, size : Nat]
          /\ rest \in Seq([name : DOMAIN Hash, size : Nat])
          /\ Len(rest) = Len(Frame.virtual) - 1
      BY <1>1, <1>2, <2>1, HeadTailProperties
    <2>3. Len(rest) \in Nat /\ Len(Frame.virtual) \in Nat BY <2>1, <2>2, LenProperties
    <2>4. Len(rest) + 1 = Len(Frame.virtual) BY <2>2, <2>3
    <2> QED BY <2>2, <2>3, <2>4
  <1>8. entry \in Written /\ ~entry.dir BY <1>5, <1>7 DEF Written
  <1>9. Longer /\ Len(log') = Len(log) + 1
    BY <1>1, <1>6, <1>8, LogAppended DEF ArchiveTypes
  <1>10. /\ FrameOk(f, Len(log')) /\ f.path = Frame.path /\ f.virtual = rest /\ f.todo = Frame.todo
    <2>1. FrameOk(m, Len(log)) BY <1>1, <1>3, NotedIs
    <2>2. m.path = Frame.path /\ m.virtual = Frame.virtual /\ m.todo = Frame.todo
      BY <1>1, <1>3, NotedIs
    <2>3. PICK y : y = Append(m.files, vf) OBVIOUS
    <2>4. f = [m EXCEPT !.virtual = rest, !.files = y] BY <1>2, <1>4, <2>2, <2>3
    <2>5. f = [path |-> m.path, virtual |-> rest, todo |-> m.todo, start |-> m.start,
               dirStart |-> m.dirStart, items |-> m.items, dirs |-> m.dirs, files |-> y]
      BY <2>1, <2>4 DEF FrameOk
    <2>6. Len(log') + Len(rest) >= Len(VirtualFiles)
      BY <1>1, <1>7, <1>9, TreeTyped DEF FrameOk
    <2>7. /\ f.path = m.path /\ f.virtual = rest /\ f.todo = m.todo /\ f.start = m.start
          /\ f.dirStart = m.dirStart /\ f.items = m.items /\ f.dirs = m.dirs /\ f.files = y
      BY <2>5
    <2>8. FrameOk(f, Len(log')) BY <1>7, <2>1, <2>5, <2>6, <2>7 DEF FrameOk
    <2> QED BY <2>2, <2>7, <2>8
  <1>11. Len(log) + Len(Frame.virtual) = Len(VirtualFiles) BY <1>1, AtWhich DEF StartInv
  <1>12. ArchiveTypes' BY <1>1, <1>6, <1>9 DEF ArchiveTypes, Longer
  <1>13. /\ StackInv' /\ stack' # <<>> /\ Len(stack') = Len(stack) /\ stack'[Len(stack)] = f
         /\ \A i \in 1..Len(stack) : i # Len(stack) => stack'[i] = stack[i]
    BY <1>1, <1>6, <1>9, <1>10, FrameMoves
  <1>14. FileInv' BY <1>1, <1>6 DEF FileInv
  <1>15. LogInv'
    <2>1. ~(Len(log) + 1 > Len(VirtualFiles)) BY <1>1, <1>7, <1>11
    <2> QED BY <1>1, <1>6, <1>8, <2>1, LogGrows DEF ArchiveInv
  <1>16. WalkInv'
    <2> SUFFICES ASSUME NEW path \in DOMAIN Tree \ {<<>>}, Opened(Front(path))'
                 PROVE  Pending(path)' \/ Settled(path)'
      BY DEF WalkInv
    <2>1. Opened(Front(path)) BY <1>1, <1>6, <1>8, OpenedBefore
    <2>2. Pending(path) \/ Settled(path) BY <2>1 DEF ArchiveInv, WalkInv
    <2>3. DOMAIN Frame.todo # {} => Place \in DOMAIN Frame.todo BY <1>1, AtWhich
    <2>4. Pending(path) => Pending(path)' BY <1>1, <1>6, <1>9, <1>10, <2>3, PendingStays
    <2>5. Settled(path) => Settled(path)' BY <1>1, <1>6, <1>9, SettledStays
    <2> QED BY <2>2, <2>4, <2>5
  <1>17. CellsInv'
    <2>1. Plain(VirtualCells(vf)) BY <1>7, PlainCells, PlainConcat DEF VirtualCells
    <2> QED BY <1>6, <2>1, CellsSent DEF ArchiveInv
  <1>18. StartInv'
    <2>1. \A i \in 1..Len(stack) : stack[i].virtual # <<>> => i = Len(stack) BY <1>1 DEF StartInv
    <2>2. Len(log') + Len(f.virtual) = Len(VirtualFiles) BY <1>1, <1>7, <1>9, <1>10, <1>11
    <2>3. \A i \in 1..Len(stack') : stack'[i].virtual # <<>> =>
            i = Len(stack') /\ Len(log') + Len(stack'[i].virtual) = Len(VirtualFiles)
      BY <1>13, <2>1, <2>2
    <2> QED BY <1>13, <2>3 DEF StartInv
  <1>19. EndInv'
    <2>1. result' # "done" BY <1>1, <1>6, ArchiveAssumption DEF ArchiveAssumption
    <2> QED BY <2>1 DEF EndInv
  <1> QED BY <1>12, <1>13, <1>14, <1>15, <1>16, <1>17, <1>18, <1>19 DEF ArchiveInv

(***************************************************************************)
(*                               Directories                               *)
(***************************************************************************)

\* The frames, after the innermost one is replaced.
LEMMA WithFrameIs ==
  ASSUME StackInv, stack # <<>>, NEW f, NEW s, s = WithFrame(f)
  PROVE  /\ Listed(s) /\ Len(s) = Len(stack) /\ s[Len(stack)] = f
         /\ \A i \in 1..Len(stack) : i # Len(stack) => s[i] = stack[i]
  <1>1. Listed(stack) /\ Len(stack) \in 1..Len(stack) BY AtWhich DEF StackInv
  <1>2. s = [stack EXCEPT ![Len(stack)] = f] BY DEF WithFrame
  <1> DEFINE S == ToSet(stack) \cup {f}
  <1>3. stack \in Seq(S) /\ f \in S BY <1>1 DEF Listed
  <1> HIDE DEF S
  <1>4. s \in Seq(S) /\ Len(s) = Len(stack) BY <1>1, <1>2, <1>3, ExceptSeq
  <1>5. /\ s[Len(stack)] = f
        /\ \A i \in 1..Len(stack) : i # Len(stack) => s[i] = stack[i]
    BY <1>1, <1>2, <1>3
  <1>6. Listed(s) BY <1>4, IsListed
  <1> QED BY <1>4, <1>5, <1>6

LEMMA EnterMoves ==
  ASSUME ArchiveInv, EnterDir
  PROVE  ArchiveInv'
  <1>1. /\ ArchiveTypes /\ StackInv /\ StartInv /\ stack # <<>> /\ Frame.virtual = <<>>
        /\ DOMAIN Frame.todo # {} /\ result = None /\ file = None
    BY DEF ArchiveInv, EnterDir, AtWanted, AtChild, Walking
  <1>2. PICK child, name : child = Child /\ name = Last(Child) OBVIOUS
  <1>3. child \in DOMAIN Tree \ {<<>>} BY <1>1, <1>2, AtWhich
  <1>4. PICK f, s : f = Popped(Frame) /\ s = WithFrame(f) OBVIOUS
  <1>5. PICK inner : inner = NewFrame(child, Len(archive), Len(archive) + 1, <<>>) OBVIOUS
  <1>6. PICK entry : entry = [path |-> child, dir |-> TRUE, size |-> 0] OBVIOUS
  <1>7. /\ fs' = fs /\ file' = file /\ result' = result /\ late' = late
        /\ excluded' = excluded /\ skipped' = skipped /\ readErrors' = readErrors
        /\ log' = Append(log, entry) /\ stack' = Append(s, inner)
        /\ Send(<<Filename(name), DirEntry>>)
    BY <1>2, <1>4, <1>5, <1>6 DEF EnterDir, notes, outside
  <1>8. entry \in Written /\ entry.dir /\ entry.path = child
    BY <1>3, <1>6, TreeTyped DEF Written
  <1>9. /\ Longer /\ Len(log) \in Nat /\ Len(log) + 1 > Len(VirtualFiles)
        /\ Len(log') = Len(log) + 1 /\ log'[Len(log) + 1] = entry
        /\ \A i \in 1..Len(log') : i \in 1..Len(log) \/ i = Len(log) + 1
    BY <1>1, <1>7, <1>8, LogAppended, PastVirtual DEF ArchiveTypes
  <1>10. /\ FrameOk(f, Len(log)) /\ f.path = Frame.path /\ f.virtual = <<>>
         /\ DOMAIN f.todo = DOMAIN Frame.todo \ {Place}
    BY <1>1, <1>4, PoppedIs
  <1>11. FrameOk(inner, Len(log')) /\ inner.path = child /\ inner.virtual = <<>>
    <2>1. Len(log') \in Nat /\ Len(<<>>) = 0 /\ <<>> \in Seq([name : DOMAIN Hash, size : Nat])
      BY <1>9, EmptySeq
    <2>2. Len(log') + Len(<<>>) >= Len(VirtualFiles) BY <1>9, <2>1, TreeTyped
    <2>3. FrameOk(inner, Len(log')) BY <1>1, <1>3, <1>5, <2>1, <2>2, NewFrameIs
    <2> QED BY <1>5, <2>3 DEF NewFrame
  <1>12. /\ Listed(stack') /\ Len(stack') = Len(stack) + 1 /\ Len(stack) \in 1..Len(stack)
         /\ stack'[Len(stack) + 1] = inner /\ stack'[Len(stack)] = f
         /\ \A i \in 1..Len(stack) : i # Len(stack) => stack'[i] = stack[i]
         /\ Frame = stack[Len(stack)] /\ Len(stack) \in Nat
    <2>1. /\ Listed(s) /\ Len(s) = Len(stack) /\ s[Len(stack)] = f
          /\ \A i \in 1..Len(stack) : i # Len(stack) => s[i] = stack[i]
      BY <1>1, <1>4, WithFrameIs
    <2>2. Len(stack) \in 1..Len(stack) /\ Frame = stack[Len(stack)] /\ Len(stack) \in Nat
      BY <1>1, AtWhich
    <2>3. /\ Listed(stack') /\ Len(stack') = Len(s) + 1 /\ stack'[Len(s) + 1] = inner
          /\ \A i \in 1..Len(s) : stack'[i] = s[i]
      BY <1>7, <2>1, ListedAppend
    <2> QED BY <2>1, <2>2, <2>3
  <1>13. \A i \in 1..Len(stack') : i \in 1..Len(stack) \/ i = Len(stack) + 1
    BY <1>12
  <1>14. ArchiveTypes' BY <1>1, <1>7, <1>9 DEF ArchiveTypes, Longer
  <1>15. StackInv'
    <2>1. ASSUME NEW i \in 1..Len(stack) PROVE FrameOk(stack'[i], Len(log'))
      <3>1. FrameOk(stack'[i], Len(log))
        <4>1. CASE i = Len(stack) BY <1>10, <1>12, <4>1
        <4>2. CASE i # Len(stack) BY <1>1, <1>12, <4>2 DEF StackInv
        <4> QED BY <4>1, <4>2
      <3>2. Len(stack'[i].virtual) \in Nat BY <3>1, LenProperties DEF FrameOk
      <3>3. Len(log') + Len(stack'[i].virtual) >= Len(VirtualFiles)
        <4>1. Len(log) + Len(stack'[i].virtual) >= Len(VirtualFiles) BY <3>1 DEF FrameOk
        <4>2. PICK v : v = Len(stack'[i].virtual) OBVIOUS
        <4>3. v \in Nat /\ Len(log) + v >= Len(VirtualFiles) BY <3>2, <4>1, <4>2
        <4>4. Len(log') + v >= Len(VirtualFiles) BY <1>9, <4>3, TreeTyped
        <4> QED BY <4>2, <4>4
      <3> QED BY <3>1, <3>3 DEF FrameOk
    <2>2. \A i \in 1..Len(stack') : FrameOk(stack'[i], Len(log')) BY <1>11, <1>12, <1>13, <2>1
    <2> QED BY <1>12, <2>2 DEF StackInv
  <1>16. FileInv' BY <1>1, <1>7 DEF FileInv
  <1>17. LogInv' BY <1>1, <1>3, <1>7, <1>8, LogGrows DEF ArchiveInv
  <1>18. WalkInv'
    <2> SUFFICES ASSUME NEW path \in DOMAIN Tree \ {<<>>}, Opened(Front(path))'
                 PROVE  Pending(path)' \/ Settled(path)'
      BY DEF WalkInv
    <2>1. CASE Front(path) = child
      <3>1. fs[path].kind = "gone" \/ \E k \in DOMAIN inner.todo : NameOrder[k] = Last(path)
        BY <1>1, <1>3, <1>5, <2>1, NewFrameHas
      <3>2. fs[path].kind = "gone" => Settled(path)' BY <1>7 DEF Settled
      <3>3. Len(stack) + 1 \in 1..Len(stack') BY <1>12
      <3>4. (\E k \in DOMAIN inner.todo : NameOrder[k] = Last(path)) => Pending(path)'
        BY <1>11, <1>12, <2>1, <3>3 DEF Pending
      <3> QED BY <3>1, <3>2, <3>4
    <2>2. CASE Front(path) # child
      <3>1. Opened(Front(path))
        <4>1. CASE Front(path) = <<>> BY <1>1, <4>1 DEF Opened
        <4>2. CASE Front(path) # <<>>
          <5>1. PICK i \in Writings(Front(path))' : log'[i].dir BY <2>2, <4>2 DEF Opened
          <5>2. i \in 1..Len(log') /\ i > Len(VirtualFiles) /\ log'[i].path = Front(path)
            BY <1>9, <5>1, LenProperties DEF Writings, Longer
          <5>3. i \in 1..Len(log) /\ log'[i] = log[i]
            BY <1>8, <1>9, <2>2, <5>2 DEF Longer
          <5>4. DOMAIN log = 1..Len(log) BY <1>1, LenProperties DEF ArchiveTypes
          <5>5. i \in Writings(Front(path)) BY <5>2, <5>3, <5>4 DEF Writings
          <5> QED BY <5>1, <5>3, <5>5 DEF Opened
        <4> QED BY <4>1, <4>2
      <3>2. Pending(path) \/ Settled(path) BY <3>1 DEF ArchiveInv, WalkInv
      <3>3. ASSUME Pending(path) PROVE Pending(path)' \/ path = child
        <4>1. PICK i \in 1..Len(stack) :
                stack[i].path = Front(path) /\ \E k \in DOMAIN stack[i].todo : NameOrder[k] = Last(path)
          BY <3>3 DEF Pending
        <4>2. i \in 1..Len(stack') BY <1>12
        <4>3. CASE i # Len(stack) BY <1>12, <4>1, <4>2, <4>3 DEF Pending
        <4>4. CASE i = Len(stack)
          <5>1. PICK k \in DOMAIN Frame.todo : NameOrder[k] = Last(path) BY <1>12, <4>1, <4>4
          <5>2. CASE k = Place
            <6>1. Front(path) = Frame.path /\ Last(path) = NameOrder[Place]
              BY <1>12, <4>1, <4>4, <5>1, <5>2
            <6> QED BY <1>1, <1>2, <6>1, ChildIs
          <5>3. CASE k # Place
            <6>1. k \in DOMAIN f.todo BY <1>10, <5>1, <5>3
            <6> QED BY <1>10, <1>12, <4>1, <4>2, <4>4, <5>1, <6>1 DEF Pending
          <5> QED BY <5>2, <5>3
        <4> QED BY <4>3, <4>4
      <3>4. Settled(path) => Settled(path)' BY <1>1, <1>7, <1>9, SettledStays
      <3>5. path = child => Settled(path)'
        <4>1. DOMAIN log' = 1..Len(log') BY <1>9, LenProperties DEF Longer
        <4>2. Len(log) + 1 \in Writings(child)' BY <1>8, <1>9, <4>1 DEF Writings
        <4>3. path = child => Archived(path)' BY <1>8, <1>9, <4>2 DEF Archived
        <4> QED BY <4>3 DEF Settled
      <3> QED BY <3>2, <3>3, <3>4, <3>5
    <2> QED BY <2>1, <2>2
  <1>19. CellsInv' BY <1>7, PlainCells, CellsSent DEF ArchiveInv
  <1>20. StartInv'
    <2>1. \A i \in 1..Len(stack) : stack[i].virtual = <<>> BY <1>1, <1>12 DEF StartInv
    <2>2. \A i \in 1..Len(stack') : stack'[i].virtual = <<>>
      BY <1>10, <1>11, <1>12, <1>13, <2>1
    <2>3. stack' # <<>> BY <1>12, ListedHas
    <2> QED BY <2>2, <2>3 DEF StartInv
  <1>21. EndInv'
    <2>1. result' # "done" BY <1>1, <1>7, ArchiveAssumption DEF ArchiveAssumption
    <2> QED BY <2>1 DEF EndInv
  <1> QED BY <1>14, <1>15, <1>16, <1>17, <1>18, <1>19, <1>20, <1>21 DEF ArchiveInv

LEMMA CloseMoves ==
  ASSUME ArchiveInv, CloseDir
  PROVE  ArchiveInv'
  <1>1. /\ ArchiveTypes /\ StackInv /\ StartInv /\ stack # <<>> /\ Frame.virtual = <<>>
        /\ DOMAIN Frame.todo = {} /\ result = None /\ file = None
    BY DEF ArchiveInv, CloseDir, Walking
  <1>2. /\ fs' = fs /\ file' = file /\ log' = log /\ late' = late
        /\ excluded' = excluded /\ skipped' = skipped /\ readErrors' = readErrors
        /\ Send(GoodbyeTable(Frame.items, Frame.dirStart))
    BY DEF CloseDir, notes, outside
  <1>3. /\ Len(stack) \in Nat /\ Len(stack) > 0 /\ Len(stack) \in 1..Len(stack)
        /\ Frame = stack[Len(stack)] /\ FrameOk(Frame, Len(log))
    BY <1>1, AtWhich
  <1>4. Longer BY <1>1, <1>2, LogSame DEF ArchiveTypes
  <1>5. ArchiveTypes' BY <1>1, <1>2 DEF ArchiveTypes
  <1>6. FileInv' BY <1>1, <1>2 DEF FileInv
  <1>7. LogInv' BY <1>2, LogStays DEF ArchiveInv
  <1>8. CellsInv'
    <2>1. Plain(GoodbyeTable(Frame.items, Frame.dirStart)) BY <1>3, PlainGoodbye DEF FrameOk
    <2> QED BY <1>2, <2>1, CellsSent DEF ArchiveInv
  <1>9. \A path : Settled(path) => Settled(path)' BY <1>1, <1>2, <1>4, SettledStays
  <1>10. \A path : (\E i \in Writings(path)' : log'[i].dir) => Opened(path)
    BY <1>2, SameWritings DEF Opened
  <1>11. Opened(<<>>) BY <1>1 DEF Opened
  <1>12. \A path \in DOMAIN Tree \ {<<>>} : Opened(Front(path)) => Pending(path) \/ Settled(path)
    BY DEF ArchiveInv, WalkInv
  <1>13. \A path : Opened(path)' => Opened(path) BY <1>10, <1>11 DEF Opened
  <1>14. CASE Len(stack) = 1
    <2>1. stack' = <<>> /\ result' = "done" BY <1>14 DEF CloseDir
    <2>2. Len(stack') = 0 /\ Listed(stack') BY <2>1, EmptySeq DEF Listed
    <2>3. StackInv' BY <2>2 DEF StackInv
    <2>4. \A path : ~Pending(path)
      <3>1. \A i \in 1..Len(stack) : i = Len(stack) BY <1>14
      <3> QED BY <1>1, <1>3, <3>1 DEF Pending
    <2>5. WalkInv' BY <1>9, <1>12, <1>13, <2>4 DEF WalkInv
    <2>6. StartInv'
      <3>1. result' # None BY <2>1, ArchiveAssumption DEF ArchiveAssumption
      <3> QED BY <2>2, <3>1 DEF StartInv
    <2>7. EndInv' BY <2>1 DEF EndInv
    <2> QED BY <1>5, <1>6, <1>7, <1>8, <2>3, <2>5, <2>6, <2>7 DEF ArchiveInv
  <1>15. CASE Len(stack) # 1
    <2>1. PICK rest, n : rest = Front(stack) /\ n = Len(stack) - 1 OBVIOUS
    <2>2. /\ Listed(rest) /\ Len(rest) = n /\ n \in 1..n /\ n \in Nat
          /\ \A i \in 1..n : rest[i] = stack[i] /\ i \in 1..Len(stack) /\ i # Len(stack)
      <3>1. /\ Listed(rest) /\ Len(rest) = Len(stack) - 1
            /\ \A i \in 1..Len(stack) - 1 : rest[i] = stack[i]
        BY <1>1, <2>1, ListedFront DEF StackInv
      <3>2. /\ n \in Nat /\ n \in 1..n
            /\ \A i \in 1..n : i \in 1..Len(stack) /\ i # Len(stack)
        BY <1>3, <1>15, <2>1
      <3> QED BY <2>1, <3>1, <3>2
    <2>3. PICK outer, m : /\ outer = stack[n]
                          /\ m = Noted(outer, Last(Frame.path), Frame.start, Len(archive'))
      OBVIOUS
    <2>4. PICK y : y = Append(m.dirs, [name |-> Last(Frame.path), pos |-> Len(catalog)]) OBVIOUS
    <2>5. PICK f : f = [m EXCEPT !.dirs = y] OBVIOUS
    <2>6. stack' = [rest EXCEPT ![n] = f] /\ result' = result
      <3>1. /\ stack' = [rest EXCEPT ![n] = DirNoted(@, Len(archive'), Len(catalog))]
            /\ result' = result
        BY <1>15, <2>1, <2>2 DEF CloseDir
      <3>2. rest[n] = outer BY <2>2, <2>3
      <3>3. f = DirNoted(outer, Len(archive'), Len(catalog)) BY <2>3, <2>4, <2>5 DEF DirNoted
      <3> QED BY <3>1, <3>2, <3>3
    <2>7. FrameOk(f, Len(log)) /\ f.path = outer.path /\ f.virtual = outer.virtual /\ f.todo = outer.todo
      <3>1. FrameOk(outer, Len(log)) BY <1>1, <2>2, <2>3 DEF StackInv
      <3>2. FrameOk(m, Len(log)) BY <2>3, <3>1, NotedIs
      <3>3. m.path = outer.path /\ m.virtual = outer.virtual /\ m.todo = outer.todo
        BY <2>3, <3>1, NotedIs
      <3>4. FrameOk(f, Len(log)) /\ f.path = m.path /\ f.virtual = m.virtual /\ f.todo = m.todo
        BY <2>5, <3>2, CatalogEntries
      <3> QED BY <3>3, <3>4
    <2>8. /\ Listed(stack') /\ Len(stack') = n /\ stack'[n] = f
          /\ \A i \in 1..n : i # n => stack'[i] = stack[i]
      <3> DEFINE S == ToSet(rest) \cup {f}
      <3>1. rest \in Seq(S) /\ f \in S BY <2>2 DEF Listed
      <3> HIDE DEF S
      <3>2. stack' \in Seq(S) /\ Len(stack') = n BY <2>2, <2>6, <3>1, ExceptSeq
      <3>3. stack'[n] = f /\ \A i \in 1..n : i # n => stack'[i] = stack[i]
        BY <2>2, <2>6, <3>1
      <3>4. Listed(stack') BY <3>2, IsListed
      <3> QED BY <3>2, <3>3, <3>4
    <2>9. \A i \in 1..n : /\ stack'[i].path = stack[i].path /\ stack'[i].virtual = stack[i].virtual
                          /\ stack'[i].todo = stack[i].todo
      BY <2>3, <2>7, <2>8
    <2>10. StackInv'
      <3>1. ASSUME NEW i \in 1..n PROVE FrameOk(stack'[i], Len(log'))
        <4>1. CASE i = n BY <1>2, <2>7, <2>8, <4>1
        <4>2. CASE i # n BY <1>1, <1>2, <2>2, <2>8, <4>2 DEF StackInv
        <4> QED BY <4>1, <4>2
      <3> QED BY <2>8, <3>1 DEF StackInv
    <2>11. \A path : Pending(path) => Pending(path)'
      <3> SUFFICES ASSUME NEW path, Pending(path) PROVE Pending(path)'
        OBVIOUS
      <3>1. PICK i \in 1..Len(stack) :
              stack[i].path = Front(path) /\ \E k \in DOMAIN stack[i].todo : NameOrder[k] = Last(path)
        BY DEF Pending
      <3>2. i # Len(stack) BY <1>1, <1>3, <3>1
      <3>3. i \in 1..n BY <1>3, <2>1, <3>2
      <3> QED BY <2>8, <2>9, <3>1, <3>3 DEF Pending
    <2>12. WalkInv' BY <1>9, <1>12, <1>13, <2>11 DEF WalkInv
    <2>13. StartInv'
      <3>1. \A i \in 1..Len(stack) : stack[i].virtual = <<>> BY <1>1, <1>3 DEF StartInv
      <3>2. \A i \in 1..n : stack'[i].virtual = <<>> BY <2>2, <2>9, <3>1
      <3>3. stack' # <<>>
        <4>1. Len(stack') > 0 BY <2>2, <2>8
        <4> QED BY <2>8, <4>1, ListedHas
      <3> QED BY <2>8, <3>2, <3>3 DEF StartInv
    <2>14. EndInv'
      <3>1. result' # "done" BY <1>1, <2>6, ArchiveAssumption DEF ArchiveAssumption
      <3> QED BY <3>1 DEF EndInv
    <2> QED BY <1>5, <1>6, <1>7, <1>8, <2>10, <2>12, <2>13, <2>14 DEF ArchiveInv
  <1> QED BY <1>14, <1>15

(***************************************************************************)
(*                               The outside                               *)
(***************************************************************************)

\* What changes after the walk was done with it is late; what changes before is
\* still to come; the file being read is the child the walk is at.
LEMMA BecomesMoves ==
  ASSUME ArchiveInv, NEW path \in DOMAIN Tree, NEW now \in [kind : Kinds, size : Nat],
         Becomes(path, now), fs[path].kind # "gone",
         Tree[path].kind \in Folders => now.kind \in Folders \cup {"link"}
  PROVE  ArchiveInv'
  <1>1. /\ ArchiveTypes /\ StackInv /\ StartInv /\ result = None
        /\ fs' = [fs EXCEPT ![path] = now]
        /\ late' = IF Done(path) THEN late \cup {path} ELSE late
        /\ archive' = archive /\ stack' = stack /\ file' = file /\ log' = log
        /\ excluded' = excluded /\ skipped' = skipped /\ readErrors' = readErrors
        /\ result' = result
    BY DEF ArchiveInv, Becomes, notes
  <1>2. /\ fs' \in [DOMAIN Tree -> [kind : Kinds, size : Nat]] /\ fs'[path] = now
        /\ \A p \in DOMAIN Tree : p # path => fs'[p] = fs[p]
    BY <1>1 DEF ArchiveTypes
  <1>3. ArchiveTypes'
    <2>1. \A p \in DOMAIN Tree : Tree[p].kind \in Folders => fs'[p].kind \in Folders \cup {"link"}
      BY <1>1, <1>2 DEF ArchiveTypes
    <2> QED BY <1>1, <1>2, <2>1 DEF ArchiveTypes
  <1>4. StackInv' BY <1>1 DEF StackInv
  <1>5. FileInv' BY <1>1 DEF ArchiveInv, FileInv, Frame, Child, Place, Writings
  <1>6. \A p : Writings(p)' = Writings(p) BY <1>1, SameWritings
  <1>7. LogInv'
    <2>1. \A p \in late' : Writings(p)' # {}
      <3>1. Done(path) => Writings(path) # {} BY DEF Done
      <3> QED BY <1>1, <1>6, <3>1 DEF ArchiveInv, LogInv
    <2>2. \A i \in 1..Len(log') : i > Len(VirtualFiles) =>
            log'[i].path \in DOMAIN Tree /\ (Tree[log'[i].path].kind \in Folders => log'[i].dir)
      BY <1>1 DEF ArchiveInv, LogInv
    <2> QED BY <2>1, <2>2 DEF LogInv
  <1>8. WalkInv'
    <2> SUFFICES ASSUME NEW p \in DOMAIN Tree \ {<<>>}, Opened(Front(p))'
                 PROVE  Pending(p)' \/ Settled(p)'
      BY DEF WalkInv
    <2>1. Opened(Front(p)) BY <1>1, <1>6 DEF Opened
    <2>2. Pending(p) \/ Settled(p) BY <2>1 DEF ArchiveInv, WalkInv
    <2>3. Pending(p) => Pending(p)' BY <1>1 DEF Pending
    <2>4. CASE p # path
      <3>1. fs'[p] = fs[p] BY <1>2, <2>4
      <3>2. Archived(p) => Archived(p)' BY <1>1, <1>6, <3>1 DEF Archived
      <3>3. Settled(p) => Settled(p)' BY <1>1, <3>1, <3>2 DEF Settled, Covered
      <3> QED BY <2>2, <2>3, <3>3
    <2>5. CASE p = path
      <3>1. CASE readErrors # {} \/ Covered(p) \/ p \in late
        <4>1. Settled(p)' BY <1>1, <3>1 DEF Settled, Covered
        <4> QED BY <4>1
      <3>2. CASE Done(p)
        <4>1. Settled(p)' BY <1>1, <2>5, <3>2 DEF Settled
        <4> QED BY <4>1
      <3>3. CASE ~Done(p) /\ Archived(p)
        <4>1. file # None /\ file.path = p BY <3>3 DEF Archived, Done
        <4>2. stack # <<>> /\ DOMAIN Frame.todo # {} /\ p = Child
          BY <4>1 DEF ArchiveInv, FileInv
        <4>3. /\ Place \in DOMAIN Frame.todo /\ Front(Child) = Frame.path
              /\ Last(Child) = NameOrder[Place]
              /\ Len(stack) \in 1..Len(stack) /\ Frame = stack[Len(stack)]
          BY <1>1, <4>2, AtWhich
        <4>4. Pending(p)
          <5>1. Front(p) = Frame.path /\ Last(p) = NameOrder[Place] BY <4>2, <4>3
          <5> QED BY <4>3, <5>1 DEF Pending
        <4> QED BY <2>3, <4>4
      <3> QED BY <2>2, <2>3, <2>5, <3>1, <3>2, <3>3 DEF Settled
    <2> QED BY <2>4, <2>5
  <1>9. CellsInv' BY <1>1, CellsKept DEF ArchiveInv
  <1>10. StartInv' BY <1>1 DEF StartInv
  <1>11. EndInv'
    <2>1. result' # "done" BY <1>1, ArchiveAssumption DEF ArchiveAssumption
    <2> QED BY <2>1 DEF EndInv
  <1> QED BY <1>3, <1>4, <1>5, <1>7, <1>8, <1>9, <1>10, <1>11 DEF ArchiveInv

LEMMA ChangesMove ==
  ASSUME ArchiveInv, NEW path \in DOMAIN Tree, FileChanges(path) \/ DirChanges(path)
  PROVE  ArchiveInv'
  <1>1. /\ ArchiveTypes /\ fs[path] \in [kind : Kinds, size : Nat]
        /\ Tree[path].kind \in Folders => fs[path].kind \in Folders \cup {"link"}
    BY DEF ArchiveInv, ArchiveTypes
  <1>2. CASE FileChanges(path)
    <2>1. fs[path].kind = "file" BY <1>2 DEF FileChanges
    <2>2. Tree[path].kind \notin Folders BY <1>1, <2>1 DEF Folders
    <2>3. PICK now \in [kind : Kinds, size : Nat] : Becomes(path, now)
      <3>1. [fs[path] EXCEPT !.size = @ + 1] \in [kind : Kinds, size : Nat] BY <1>1
      <3>2. [fs[path] EXCEPT !.size = 0] \in [kind : Kinds, size : Nat] BY <1>1
      <3>3. \A kind \in {"gone", "locked", "link"} :
              [fs[path] EXCEPT !.kind = kind] \in [kind : Kinds, size : Nat]
        BY <1>1 DEF Kinds
      <3> QED BY <1>2, <3>1, <3>2, <3>3 DEF FileChanges
    <2> QED BY <2>1, <2>2, <2>3, BecomesMoves
  <1>3. CASE DirChanges(path)
    <2>1. fs[path].kind = "dir" BY <1>3 DEF DirChanges
    <2>2. PICK now \in [kind : Kinds, size : Nat] :
            Becomes(path, now) /\ now.kind \in Folders \cup {"link"}
      <3>1. \A kind \in {"sealed", "link"} :
              /\ [fs[path] EXCEPT !.kind = kind] \in [kind : Kinds, size : Nat]
              /\ [fs[path] EXCEPT !.kind = kind].kind \in Folders \cup {"link"}
        BY <1>1 DEF Kinds, Folders
      <3> QED BY <1>3, <3>1 DEF DirChanges
    <2> QED BY <2>1, <2>2, BecomesMoves
  <1> QED BY <1>2, <1>3

(***************************************************************************)
(*                               The archive                               *)
(***************************************************************************)

LEMMA ArchiveMoves ==
  ASSUME ArchiveInv, [Next]_vars
  PROVE  ArchiveInv'
  <1>1. CASE UNCHANGED vars
    <2>1. /\ fs' = fs /\ archive' = archive /\ stack' = stack /\ file' = file /\ log' = log
          /\ excluded' = excluded /\ skipped' = skipped /\ readErrors' = readErrors
          /\ late' = late /\ result' = result
      BY <1>1 DEF vars
    <2>2. Frame' = Frame /\ Child' = Child BY <2>1 DEF Frame, Child, Place
    <2>3. ArchiveTypes' BY <2>1 DEF ArchiveInv, ArchiveTypes
    <2>4. StackInv'
      <3>1. Listed(stack) /\ \A i \in 1..Len(stack) : FrameOk(stack[i], Len(log))
        BY DEF ArchiveInv, StackInv
      <3>2. PICK s, n : s = stack /\ n = Len(log) OBVIOUS
      <3>3. stack' = s /\ Len(log') = n BY <2>1, <3>2
      <3>4. Listed(s) /\ \A i \in 1..Len(s) : FrameOk(s[i], n) BY <3>1, <3>2
      <3> QED BY <3>3, <3>4 DEF StackInv
    <2>5. FileInv'
      <3>1. FileInv BY DEF ArchiveInv
      <3>2. file' # None =>
              /\ file # None /\ stack' # <<>> /\ Frame'.virtual = <<>> /\ DOMAIN Frame'.todo # {}
              /\ file'.path = Child'
        BY <2>1, <2>2, <3>1 DEF FileInv
      <3>3. Writings(file.path)' = Writings(file.path) BY <2>1 DEF Writings
      <3>4. file' # None =>
              /\ file' = [path |-> file'.path, declared |-> file'.declared,
                          written |-> file'.written, start |-> file'.start]
              /\ file'.declared \in Nat /\ file'.written \in 0..file'.declared
              /\ \E i \in Writings(file.path)' : log'[i].size = file'.declared
        BY <2>1, <3>1, <3>3 DEF FileInv
      <3> QED BY <3>2, <3>4 DEF FileInv
    <2>6. LogInv' BY <2>1 DEF ArchiveInv, LogInv, Writings
    <2>7. WalkInv'
      <3> SUFFICES ASSUME NEW path \in DOMAIN Tree \ {<<>>}, Opened(Front(path))'
                   PROVE  Pending(path)' \/ Settled(path)'
        BY DEF WalkInv
      <3>1. Opened(Front(path)) BY <2>1 DEF Opened, Writings
      <3>2. Pending(path) \/ Settled(path) BY <3>1 DEF ArchiveInv, WalkInv
      <3>3. Pending(path) => Pending(path)' BY <2>1 DEF Pending
      <3>4. Covered(path) => Covered(path)' BY <2>1 DEF Covered
      <3>5. Archived(path) => Archived(path)' BY <2>1 DEF Archived, Writings
      <3>6. Settled(path) => Settled(path)' BY <2>1, <3>4, <3>5 DEF Settled
      <3> QED BY <3>2, <3>3, <3>6
    <2>8. CellsInv' BY <2>1 DEF ArchiveInv, CellsInv
    <2>9. StartInv' /\ EndInv' BY <2>1 DEF ArchiveInv, StartInv, EndInv
    <2> QED BY <2>3, <2>4, <2>5, <2>6, <2>7, <2>8, <2>9 DEF ArchiveInv
  <1>2. CASE Next
    BY <1>2, StopMoves, RootMoves, VirtualMoves, LeaveMoves, EnterMoves, OpenMoves, ReadMoves,
       PadMoves, ProbeMoves, CloseMoves, ChangesMove DEF Next
  <1> QED BY <1>1, <1>2

LEMMA ArchiveInvariant == Spec => []ArchiveInv
  BY ArchiveStart, ArchiveMoves, PTL DEF Spec

\* A child of what was left out was left out.
LEMMA CoveredBelow ==
  ASSUME ArchiveTypes, NEW path \in DOMAIN Tree \ {<<>>}, Covered(Front(path))
  PROVE  Covered(path)
  <1>1. PICK over \in excluded \cup skipped : IsPrefix(over, Front(path)) BY DEF Covered
  <1>2. /\ Len(Front(path)) \in Nat /\ Len(path) \in Nat /\ Len(Front(path)) <= Len(path)
        /\ \A i \in 1..Len(Front(path)) : Front(path)[i] = path[i]
    BY ParentOf
  <1>3. over \in Seq(DOMAIN Hash) BY TreeTyped DEF ArchiveTypes
  <1>4. Len(over) \in Nat BY <1>3, LenProperties
  <1>5. Len(over) <= Len(Front(path)) /\ \A i \in 1..Len(over) : over[i] = Front(path)[i]
    BY <1>1, <1>3 DEF IsPrefix
  <1>6. Len(over) <= Len(path) /\ \A i \in 1..Len(over) : over[i] = path[i]
    <2>1. 1..Len(over) \subseteq 1..Len(Front(path)) BY <1>2, <1>4, <1>5
    <2> QED BY <1>2, <1>4, <1>5, <2>1
  <1>7. IsPrefix(over, path) BY <1>6 DEF IsPrefix
  <1> QED BY <1>7 DEF Covered

\* A path that would be missed, the shortest there is, is in a directory that was
\* opened: so it was still to come, and the walk is not over.
LEMMA VerifiedState == ArchiveInv => VerifiedIsWhole
  <1> SUFFICES ASSUME ArchiveInv, result = "done", readErrors = {}
               PROVE  /\ \A i \in DOMAIN archive : archive[i] # Zero
                      /\ \A path \in DOMAIN Tree \ {<<>>} :
                           Covered(path) \/ path \in late \/ fs[path].kind = "gone" \/ Archived(path)
    BY DEF VerifiedIsWhole
  <1>1. \A i \in DOMAIN archive : archive[i] # Zero BY DEF ArchiveInv, CellsInv, ToSet
  <1> DEFINE Held(path) == Covered(path) \/ path \in late \/ fs[path].kind = "gone" \/ Archived(path)
             Missed == {path \in DOMAIN Tree \ {<<>>} : ~Held(path)}
             Depths == {Len(path) : path \in Missed}
  <1>2. ASSUME Missed # {} PROVE FALSE
    <2>1. \A path \in DOMAIN Tree \ {<<>>} : Len(path) \in Nat BY ParentOf
    <2>2. Depths \in SUBSET Nat /\ Depths # {} BY <1>2, <2>1
    <2>3. Min(Depths) \in Depths /\ \A n \in Depths : Min(Depths) <= n
      <3> HIDE DEF Depths
      <3> QED BY <2>2, LeastIsIn
    <2>4. PICK path \in Missed : \A other \in Missed : Len(path) <= Len(other) BY <2>3
    <2>5. path \in DOMAIN Tree \ {<<>>} /\ ~Held(path) BY <2>4
    <2>6. /\ Front(path) \in DOMAIN Tree /\ Tree[Front(path)].kind \in Folders
          /\ Len(path) \in Nat /\ Len(Front(path)) \in Nat /\ Len(Front(path)) < Len(path)
      BY <2>5, ParentOf
    <2>7. Opened(Front(path))
      <3>1. CASE Front(path) = <<>> BY <3>1 DEF Opened
      <3>2. CASE Front(path) # <<>>
        <4>1. Front(path) \notin Missed
          <5>1. ASSUME Front(path) \in Missed PROVE FALSE
            <6>1. Len(path) <= Len(Front(path)) BY <2>4, <5>1
            <6> QED BY <2>6, <6>1
          <5> QED BY <5>1
        <4>2. Held(Front(path)) BY <2>6, <3>2, <4>1
        <4>3. ~Covered(Front(path)) BY <2>5, CoveredBelow DEF ArchiveInv
        <4>4. fs[Front(path)].kind # "gone"
          <5>1. fs[Front(path)].kind \in Folders \cup {"link"} BY <2>6 DEF ArchiveInv, ArchiveTypes
          <5> QED BY <5>1 DEF Folders
        <4>5. Writings(Front(path)) # {}
          BY <4>2, <4>3, <4>4 DEF ArchiveInv, LogInv, Archived
        <4>6. PICK i \in Writings(Front(path)) : TRUE BY <4>5
        <4>7. DOMAIN log = 1..Len(log) BY LenProperties DEF ArchiveInv, ArchiveTypes
        <4>8. i \in 1..Len(log) /\ i > Len(VirtualFiles) /\ log[i].path = Front(path)
          BY <4>6, <4>7 DEF Writings
        <4>9. log[i].dir BY <2>6, <4>8 DEF ArchiveInv, LogInv
        <4> QED BY <4>6, <4>9 DEF Opened
      <3> QED BY <3>1, <3>2
    <2>8. ~Pending(path)
      <3>1. Len(stack) = 0 BY EmptySeq DEF ArchiveInv, EndInv
      <3> QED BY <3>1 DEF Pending
    <2>9. Settled(path) BY <2>5, <2>7, <2>8 DEF ArchiveInv, WalkInv
    <2> QED BY <2>5, <2>9 DEF Settled
  <1> QED BY <1>1, <1>2

\* A backup that reports no read error holds all that was not left out on purpose
\* (WriteDir, WriteFile): every directory that was entered, and every file as long
\* as it was when the walk left it, whatever other programs did meanwhile.
THEOREM VerifiedHoldsAll == Spec => []VerifiedIsWhole
  BY ArchiveInvariant, VerifiedState, PTL


(***************************************************************************)
(*                         The walk of the archive                         *)
(***************************************************************************)

IsWalk(w) ==
  w = [off |-> w.off, path |-> w.path, outer |-> w.outer, name |-> w.name, pending |-> w.pending,
       root |-> w.root, entries |-> w.entries, ok |-> w.ok]

\* The header ahead is there with all it announces.
Fits(data, w) ==
  /\ IsWalk(w) /\ w.ok /\ w.off \in Nat /\ w.off < Len(data) /\ "size" \in DOMAIN Ahead(data, w)
  /\ Ahead(data, w).size \in Nat \ {0} /\ w.off + Ahead(data, w).size <= Len(data)

Passed(data, w) == [Visit(w, Ahead(data, w)) EXCEPT !.off = @ + Ahead(data, w).size]

\* The first steps of a walk, none of which meets an error.
Run(data, run) ==
  /\ Listed(run) /\ run # <<>> /\ run[1] = NewWalk
  /\ \A i \in 1..Len(run) : i < Len(run) => Fits(data, run[i]) /\ run[i + 1] = Passed(data, run[i])

Reaches(data, w) == \E run : Run(data, run) /\ run[Len(run)] = w

LEMMA ReachesStart == \A data : Reaches(data, NewWalk)
  <1> TAKE data
  <1> DEFINE run == <<NewWalk>>
  <1>1. run \in Seq({NewWalk}) /\ Len(run) = 1 /\ run[1] = NewWalk /\ run # <<>> OBVIOUS
  <1> HIDE DEF run
  <1>2. Listed(run) BY <1>1, IsListed
  <1>3. Run(data, run) BY <1>1, <1>2 DEF Run
  <1> QED BY <1>1, <1>3 DEF Reaches

\* What is sent later changes nothing for the headers before.
LEMMA ReachesStill ==
  ASSUME NEW data, NEW more, Listed(data), Listed(more), NEW w, Reaches(data, w)
  PROVE  Reaches(data \o more, w)
  <1>1. PICK run : Run(data, run) /\ run[Len(run)] = w BY DEF Reaches
  <1> DEFINE S == ToSet(data) \cup ToSet(more)
  <1>2. data \in Seq(S) /\ more \in Seq(S) BY DEF Listed
  <1> HIDE DEF S
  <1>3. /\ Len(data \o more) = Len(data) + Len(more) /\ Len(data) \in Nat /\ Len(more) \in Nat
        /\ \A i \in 1..Len(data) : (data \o more)[i] = data[i]
    BY <1>2, ConcatProperties
  <1>4. ASSUME NEW v, Fits(data, v)
        PROVE  Fits(data \o more, v) /\ Passed(data \o more, v) = Passed(data, v)
    <2>1. v.off + 1 \in 1..Len(data) BY <1>3, <1>4 DEF Fits
    <2>2. Ahead(data \o more, v) = Ahead(data, v) BY <1>3, <2>1 DEF Ahead
    <2>3. v.off < Len(data \o more) /\ v.off + Ahead(data, v).size <= Len(data \o more)
      BY <1>3, <1>4 DEF Fits
    <2> QED BY <1>4, <2>2, <2>3 DEF Fits, Passed
  <1>5. Run(data \o more, run) BY <1>1, <1>4 DEF Run
  <1> QED BY <1>1, <1>5 DEF Reaches

LEMMA ReachesNext ==
  ASSUME NEW data, NEW w, Reaches(data, w), Fits(data, w)
  PROVE  Reaches(data, Passed(data, w))
  <1>1. PICK run : Run(data, run) /\ run[Len(run)] = w BY DEF Reaches
  <1>2. PICK v : v = Passed(data, w) OBVIOUS
  <1> DEFINE longer == Append(run, v)
  <1>3. /\ Listed(longer) /\ Len(longer) = Len(run) + 1 /\ longer[Len(run) + 1] = v
        /\ \A i \in 1..Len(run) : longer[i] = run[i]
    BY <1>1, ListedAppend DEF Run
  <1> HIDE DEF longer
  <1>4. Len(run) \in Nat /\ Len(run) > 0 BY <1>1, ListedHas DEF Run
  <1>5. longer # <<>> /\ longer[1] = NewWalk
    <2>1. Len(longer) > 0 BY <1>3, <1>4
    <2>2. 1 \in 1..Len(run) BY <1>4
    <2> QED BY <1>1, <1>3, <2>1, <2>2, ListedHas DEF Run
  <1>6. ASSUME NEW i \in 1..Len(longer), i < Len(longer)
        PROVE  Fits(data, longer[i]) /\ longer[i + 1] = Passed(data, longer[i])
    <2>1. i \in 1..Len(run) BY <1>3, <1>4, <1>6
    <2>2. CASE i = Len(run) BY <1>1, <1>2, <1>3, <1>4, <2>1, <2>2
    <2>3. CASE i # Len(run)
      <3>1. i < Len(run) /\ i + 1 \in 1..Len(run) BY <1>4, <2>1, <2>3
      <3> QED BY <1>1, <1>3, <2>1, <3>1 DEF Run
    <2> QED BY <2>2, <2>3
  <1>7. Run(data, longer) BY <1>3, <1>5, <1>6 DEF Run
  <1> QED BY <1>2, <1>3, <1>7 DEF Reaches

LEMMA VisitStays ==
  ASSUME NEW w, IsWalk(w), NEW h
  PROVE  /\ IsWalk(Visit(w, h))
         /\ Visit(w, h).off = w.off /\ Visit(w, h).ok = w.ok
  BY DEF Visit, IsWalk

LEMMA PassedIs ==
  ASSUME NEW data, NEW w, Fits(data, w)
  PROVE  /\ IsWalk(Passed(data, w)) /\ Passed(data, w).off = w.off + Ahead(data, w).size
         /\ Passed(data, w).ok
  <1>1. PICK v : v = Visit(w, Ahead(data, w)) OBVIOUS
  <1>2. IsWalk(v) /\ v.off = w.off /\ v.ok = w.ok BY <1>1, VisitStays DEF Fits
  <1>3. Passed(data, w) = [v EXCEPT !.off = @ + Ahead(data, w).size] BY <1>1 DEF Passed
  <1> QED BY <1>2, <1>3 DEF IsWalk, Fits

\* A walk that reaches the end is the walk of the reader.
LEMMA WalkIs ==
  ASSUME NEW data, Listed(data), NEW w, Reaches(data, w), IsWalk(w), w.ok, w.off = Len(data)
  PROVE  ListEntries(data) = w
  <1>1. PICK run : Run(data, run) /\ run[Len(run)] = w BY DEF Reaches
  <1>2. /\ Len(run) \in Nat /\ Len(run) > 0 /\ run[1] = NewWalk /\ Len(data) \in Nat
        /\ \A i \in 1..Len(run) : i < Len(run) => Fits(data, run[i]) /\ run[i + 1] = Passed(data, run[i])
    BY <1>1, ListedHas DEF Run
  \* The walk gets on with every header.
  <1>3. \A i \in 1..Len(run) : run[i].off >= i - 1 /\ run[i].off \in Nat
    <2> DEFINE S == {i \in 1..Len(run) : ~(run[i].off >= i - 1 /\ run[i].off \in Nat)}
    <2>1. SUFFICES ASSUME S # {} PROVE FALSE
      OBVIOUS
    <2>2. S \in SUBSET Nat BY <1>2
    <2>3. PICK i : i \in S /\ \A j \in S : i <= j BY <2>1, <2>2, LeastIsIn
    <2>4. i \in 1..Len(run) /\ ~(run[i].off >= i - 1 /\ run[i].off \in Nat) BY <2>3
    <2>5. i # 1 BY <1>2, <2>4 DEF NewWalk
    <2>6. i - 1 \in 1..Len(run) /\ i - 1 < Len(run) /\ ~(i <= i - 1) /\ i - 1 + 1 = i
      BY <1>2, <2>4, <2>5
    <2>7. run[i - 1].off >= i - 1 - 1 /\ run[i - 1].off \in Nat BY <2>3, <2>6
    <2>8. Fits(data, run[i - 1]) /\ run[i] = Passed(data, run[i - 1]) BY <1>2, <2>6
    <2>9. /\ run[i].off = run[i - 1].off + Ahead(data, run[i - 1]).size
          /\ Ahead(data, run[i - 1]).size \in Nat \ {0}
      BY <2>8, PassedIs DEF Fits
    <2> QED BY <2>4, <2>7, <2>9
  <1>4. Len(run) - 1 <= Len(data)
    <2>1. Len(run) \in 1..Len(run) BY <1>2
    <2> QED BY <1>1, <1>3, <2>1
  <1> DEFINE f == [n \in Nat |-> IF n < Len(run) THEN run[n + 1] ELSE w]
             walk == [n \in Nat |-> IF n = 0 THEN NewWalk ELSE NextHeader(data, f[n - 1])]
  <1>5. f = walk
    <2> SUFFICES ASSUME NEW n \in Nat PROVE f[n] = walk[n]
      OBVIOUS
    <2>1. CASE n = 0 BY <1>2, <2>1
    <2>2. CASE n # 0 /\ n < Len(run)
      <3>1. n - 1 \in Nat /\ n - 1 < Len(run) /\ n - 1 + 1 = n /\ n \in 1..Len(run) BY <1>2, <2>2
      <3>2. f[n - 1] = run[n] /\ f[n] = run[n + 1] BY <2>2, <3>1
      <3>3. Fits(data, run[n]) /\ run[n + 1] = Passed(data, run[n]) BY <1>2, <2>2, <3>1
      <3>4. NextHeader(data, run[n]) = Passed(data, run[n])
        <4>1. /\ run[n].ok /\ ~(run[n].off >= Len(data)) /\ "size" \in DOMAIN Ahead(data, run[n])
              /\ ~(Ahead(data, run[n]).size > Len(data) - run[n].off)
          BY <1>2, <3>3 DEF Fits
        <4> QED BY <4>1 DEF NextHeader, Passed
      <3> QED BY <2>2, <3>2, <3>3, <3>4
    <2>3. CASE ~(n < Len(run))
      <3>1. n - 1 \in Nat /\ n # 0 BY <1>2, <2>3
      <3>2. f[n - 1] = w
        <4>1. CASE n - 1 < Len(run)
          <5>1. n - 1 + 1 = Len(run) BY <1>2, <2>3, <4>1
          <5> QED BY <1>1, <3>1, <4>1, <5>1
        <4>2. CASE ~(n - 1 < Len(run)) BY <3>1, <4>2
        <4> QED BY <4>1, <4>2
      <3>3. w.off >= Len(data) BY <1>2
      <3>4. NextHeader(data, w) = w BY <3>3 DEF NextHeader
      <3> QED BY <2>3, <3>1, <3>2, <3>4
    <2> QED BY <2>1, <2>2, <2>3
  <1> HIDE DEF f
  <1> DEFINE g == CHOOSE x : x = [n \in Nat |-> IF n = 0 THEN NewWalk ELSE NextHeader(data, x[n - 1])]
  <1>6. g = [n \in Nat |-> IF n = 0 THEN NewWalk ELSE NextHeader(data, g[n - 1])] BY <1>5
  <1>7. ListEntries(data) = g[Len(data)] BY DEF ListEntries
  <1> HIDE DEF g
  <1>8. \A n \in Nat : g[n] = f[n]
    <2> DEFINE S == {n \in Nat : g[n] # f[n]}
    <2>1. SUFFICES ASSUME S # {} PROVE FALSE
      OBVIOUS
    <2>2. PICK n : n \in S /\ \A m \in S : n <= m BY <2>1, LeastIsIn
    <2>3. n \in Nat /\ g[n] # f[n] BY <2>2
    <2>4. n # 0 BY <1>5, <1>6, <2>3
    <2>5. n - 1 \in Nat /\ ~(n <= n - 1) BY <2>3, <2>4
    <2>6. g[n - 1] = f[n - 1] BY <2>2, <2>5
    <2> QED BY <1>5, <1>6, <2>3, <2>4, <2>6
  <1>9. f[Len(data)] = w
    <2>1. CASE Len(data) < Len(run)
      <3>1. Len(data) + 1 = Len(run) BY <1>2, <1>4, <2>1
      <3> QED BY <1>1, <1>2, <2>1, <3>1 DEF f
    <2>2. CASE ~(Len(data) < Len(run)) BY <1>2, <2>2 DEF f
    <2> QED BY <2>1, <2>2
  <1> QED BY <1>2, <1>7, <1>8, <1>9

\* The walk between two entries, and past the header of a file.
Between(off, path, outer, name, entries) ==
  [off |-> off, path |-> path, outer |-> outer, name |-> name, pending |-> FALSE,
   root |-> TRUE, entries |-> entries, ok |-> TRUE]
Inside(off, path, outer, name, entries) ==
  [off |-> off, path |-> path, outer |-> outer, name |-> name, pending |-> TRUE,
   root |-> TRUE, entries |-> entries, ok |-> TRUE]

LEMMA StepOver ==
  ASSUME NEW data, Listed(data), NEW w, IsWalk(w), w.ok, w.off \in Nat, Reaches(data, w),
         NEW h, w.off < Len(data), data[w.off + 1] = h, "size" \in DOMAIN h,
         h.size \in Nat \ {0}, w.off + h.size <= Len(data)
  PROVE  Reaches(data, [Visit(w, h) EXCEPT !.off = @ + h.size])
  <1>1. Ahead(data, w) = h BY DEF Ahead
  <1>2. Fits(data, w) BY <1>1 DEF Fits
  <1>3. Passed(data, w) = [Visit(w, h) EXCEPT !.off = @ + h.size] BY <1>1 DEF Passed
  <1> QED BY <1>2, <1>3, ReachesNext

LEMMA BetweenIs ==
  ASSUME NEW off, NEW path, NEW outer, NEW name, NEW entries, NEW w,
         w = Between(off, path, outer, name, entries)
  PROVE  IsWalk(w) /\ w.ok /\ w.off = off
  BY DEF Between, IsWalk

LEMMA BetweenOn ==
  ASSUME NEW off, NEW path, NEW outer, NEW name, NEW entries, NEW size, NEW w,
         w = Between(off, path, outer, name, entries)
  PROVE  [w EXCEPT !.off = @ + size] = Between(off + size, path, outer, name, entries)
  <1>1. PICK sum : sum = off + size OBVIOUS
  <1>2. w.off = off BY DEF Between
  <1>3. PICK v : v = [w EXCEPT !.off = sum] OBVIOUS
  <1>4. [w EXCEPT !.off = @ + size] = v BY <1>1, <1>2, <1>3
  <1>5. v = Between(sum, path, outer, name, entries) BY <1>3 DEF Between
  <1> QED BY <1>1, <1>4, <1>5

LEMMA InsideIs ==
  ASSUME NEW off, NEW path, NEW outer, NEW name, NEW entries, NEW w,
         w = Inside(off, path, outer, name, entries)
  PROVE  IsWalk(w) /\ w.ok /\ w.off = off
  BY DEF Inside, IsWalk

LEMMA InsideOn ==
  ASSUME NEW off, NEW path, NEW outer, NEW name, NEW entries, NEW size, NEW w,
         w = Inside(off, path, outer, name, entries)
  PROVE  [w EXCEPT !.off = @ + size] = Inside(off + size, path, outer, name, entries)
  <1>1. PICK sum : sum = off + size OBVIOUS
  <1>2. w.off = off BY DEF Inside
  <1>3. PICK v : v = [w EXCEPT !.off = sum] OBVIOUS
  <1>4. [w EXCEPT !.off = @ + size] = v BY <1>1, <1>2, <1>3
  <1>5. v = Inside(sum, path, outer, name, entries) BY <1>3 DEF Inside
  <1> QED BY <1>1, <1>4, <1>5

\* What a header of each kind does to a walk that reaches it.
LEMMA VisitFilename ==
  ASSUME NEW off, NEW path, NEW outer, NEW old, NEW entries, NEW name
  PROVE  Visit(Between(off, path, outer, old, entries), Filename(name)) =
           Between(off, path, outer, name, entries)
  <1>1. PICK w : w = Between(off, path, outer, old, entries) OBVIOUS
  <1>2. Visit(w, Filename(name)) = [w EXCEPT !.name = name] BY DEF Visit, Filename
  <1> QED BY <1>1, <1>2 DEF Between

LEMMA VisitFileEntry ==
  ASSUME NEW off, NEW path, NEW outer, NEW name, NEW entries
  PROVE  Visit(Between(off, path, outer, name, entries), FileEntry) =
           Inside(off, path, outer, name, entries)
  <1>1. PICK w : w = Between(off, path, outer, name, entries) OBVIOUS
  <1>2. Visit(w, FileEntry) = [w EXCEPT !.pending = TRUE] BY DEF Visit, FileEntry
  <1> QED BY <1>1, <1>2 DEF Between, Inside

LEMMA VisitRootEntry == Visit(NewWalk, DirEntry) = Between(0, <<>>, <<>>, None, <<>>)
  <1>1. PICK w : w = NewWalk OBVIOUS
  <1>2. ~w.root BY <1>1 DEF NewWalk
  <1>3. Visit(w, DirEntry) = [w EXCEPT !.root = TRUE] BY <1>2 DEF Visit, DirEntry
  <1> QED BY <1>1, <1>3 DEF Between, NewWalk

LEMMA VisitPayload ==
  ASSUME NEW off, NEW path, NEW outer, NEW name, NEW entries, NEW child, child = Append(path, name),
         NEW n \in Nat
  PROVE  Visit(Inside(off, path, outer, name, entries), Payload(n)) =
           Between(off, path, outer, None, Append(entries, [path |-> child, dir |-> FALSE, size |-> n]))
  <1>1. PICK w : w = Inside(off, path, outer, name, entries) OBVIOUS
  <1>2. w.pending /\ Within(w) = child /\ w.entries = entries BY <1>1 DEF Inside, Within
  <1>3. PICK h : h = Payload(n) OBVIOUS
  <1>4. h.t = "payload" /\ h.size - 1 = n BY <1>3 DEF Payload
  <1>5. Visit(w, h) =
          [w EXCEPT !.entries = Append(@, [path |-> Within(w), dir |-> FALSE, size |-> h.size - 1]),
                    !.name = None, !.pending = FALSE]
    BY <1>2, <1>4 DEF Visit
  <1>6. PICK all : all = Append(entries, [path |-> child, dir |-> FALSE, size |-> n]) OBVIOUS
  <1>7. Visit(w, h) = [w EXCEPT !.entries = all, !.name = None, !.pending = FALSE]
    BY <1>1, <1>2, <1>4, <1>5, <1>6 DEF Inside
  <1> QED BY <1>1, <1>3, <1>6, <1>7 DEF Between, Inside

LEMMA VisitGoodbye ==
  ASSUME NEW off, NEW path, NEW outer, NEW name, NEW entries, NEW n
  PROVE  /\ outer = <<>> => Visit(Between(off, path, outer, name, entries), Goodbye(n)) =
                              Between(off, path, outer, name, entries)
         /\ outer # <<>> => Visit(Between(off, path, outer, name, entries), Goodbye(n)) =
                              Between(off, Last(outer), Front(outer), name, entries)
  <1>1. PICK w : w = Between(off, path, outer, name, entries) OBVIOUS
  <1>2. w.outer = outer BY <1>1 DEF Between
  <1>3. PICK last, front : last = Last(outer) /\ front = Front(outer) OBVIOUS
  <1>4. outer = <<>> => Visit(w, Goodbye(n)) = w BY <1>2 DEF Visit, Goodbye
  <1>5. outer # <<>> => Visit(w, Goodbye(n)) = [w EXCEPT !.path = Last(w.outer), !.outer = Front(@)]
    BY <1>2 DEF Visit, Goodbye
  <1>6. outer # <<>> => Visit(w, Goodbye(n)) = [w EXCEPT !.path = last, !.outer = front]
    BY <1>1, <1>2, <1>3, <1>5 DEF Between
  <1>7. PICK v : v = [w EXCEPT !.path = last, !.outer = front] OBVIOUS
  <1>8. v = Between(off, last, front, name, entries) BY <1>1, <1>7 DEF Between
  <1> QED BY <1>1, <1>3, <1>4, <1>6, <1>7, <1>8

LEMMA PassFilename ==
  ASSUME NEW data, Listed(data), NEW off \in Nat, NEW path, NEW outer, NEW old, NEW entries,
         Reaches(data, Between(off, path, outer, old, entries)),
         off < Len(data), NEW name, data[off + 1] = Filename(name)
  PROVE  Reaches(data, Between(off + 1, path, outer, name, entries))
  <1>1. PICK w : w = Between(off, path, outer, old, entries) OBVIOUS
  <1>2. PICK h : h = Filename(name) OBVIOUS
  <1>3. "size" \in DOMAIN h /\ h.size = 1 BY <1>2 DEF Filename
  <1>4. IsWalk(w) /\ w.ok /\ w.off = off BY <1>1, BetweenIs
  <1>5. off + 1 <= Len(data) BY ListedHas
  <1>6. Reaches(data, [Visit(w, h) EXCEPT !.off = @ + h.size])
    BY <1>1, <1>2, <1>3, <1>4, <1>5, StepOver
  <1>7. Visit(w, h) = Between(off, path, outer, name, entries) BY <1>1, <1>2, VisitFilename
  <1> QED BY <1>3, <1>6, <1>7, BetweenOn

LEMMA PassFileEntry ==
  ASSUME NEW data, Listed(data), NEW off \in Nat, NEW path, NEW outer, NEW name, NEW entries,
         Reaches(data, Between(off, path, outer, name, entries)),
         off < Len(data), data[off + 1] = FileEntry
  PROVE  Reaches(data, Inside(off + 1, path, outer, name, entries))
  <1>1. PICK w : w = Between(off, path, outer, name, entries) OBVIOUS
  <1>2. PICK h : h = FileEntry OBVIOUS
  <1>3. "size" \in DOMAIN h /\ h.size = 1 BY <1>2 DEF FileEntry
  <1>4. IsWalk(w) /\ w.ok /\ w.off = off BY <1>1, BetweenIs
  <1>5. off + 1 <= Len(data) BY ListedHas
  <1>6. Reaches(data, [Visit(w, h) EXCEPT !.off = @ + h.size])
    BY <1>1, <1>2, <1>3, <1>4, <1>5, StepOver
  <1>7. Visit(w, h) = Inside(off, path, outer, name, entries) BY <1>1, <1>2, VisitFileEntry
  <1> QED BY <1>3, <1>6, <1>7, InsideOn

LEMMA PassRootEntry ==
  ASSUME NEW data, Listed(data), 0 < Len(data), data[1] = DirEntry
  PROVE  Reaches(data, Between(1, <<>>, <<>>, None, <<>>))
  <1>1. PICK w : w = NewWalk OBVIOUS
  <1>2. PICK h : h = DirEntry OBVIOUS
  <1>3. "size" \in DOMAIN h /\ h.size = 1 BY <1>2 DEF DirEntry
  <1>4. IsWalk(w) /\ w.ok /\ w.off = 0 BY <1>1 DEF NewWalk, IsWalk
  <1>5. 0 + 1 <= Len(data) BY ListedHas
  <1>6. Reaches(data, [Visit(w, h) EXCEPT !.off = @ + h.size])
    BY <1>1, <1>2, <1>3, <1>4, <1>5, ReachesStart, StepOver
  <1>7. PICK v, one, empty : v = Visit(w, h) /\ one = 1 /\ empty = <<>> OBVIOUS
  <1>8. v = Between(0, empty, empty, None, empty) BY <1>1, <1>2, <1>7, VisitRootEntry
  <1>9. [v EXCEPT !.off = @ + one] = Between(0 + one, empty, empty, None, empty) BY <1>8, BetweenOn
  <1>10. h.size = one /\ 0 + one = 1 BY <1>3, <1>7
  <1> QED BY <1>6, <1>7, <1>9, <1>10

LEMMA PassDirEntry ==
  ASSUME NEW data, Listed(data), NEW off \in Nat, NEW path, NEW outer, NEW name, NEW entries,
         Reaches(data, Between(off, path, outer, name, entries)),
         off < Len(data), data[off + 1] = DirEntry, NEW child, child = Append(path, name)
  PROVE  Reaches(data, Between(off + 1, child, Append(outer, path), None,
                               Append(entries, [path |-> child, dir |-> TRUE, size |-> 0])))
  <1>1. PICK w : w = Between(off, path, outer, name, entries) OBVIOUS
  <1>2. PICK h : h = DirEntry OBVIOUS
  <1>3. "size" \in DOMAIN h /\ h.size = 1 BY <1>2 DEF DirEntry
  <1>4. IsWalk(w) /\ w.ok /\ w.off = off BY <1>1, BetweenIs
  <1>5. off + 1 <= Len(data) BY ListedHas
  <1>6. Reaches(data, [Visit(w, h) EXCEPT !.off = @ + h.size])
    BY <1>1, <1>2, <1>3, <1>4, <1>5, StepOver
  <1>7. PICK v, out, all, entry :
          /\ v = Visit(w, h) /\ out = Append(outer, path)
          /\ entry = [path |-> child, dir |-> TRUE, size |-> 0] /\ all = Append(entries, entry)
    OBVIOUS
  <1>8. w.root /\ Within(w) = child /\ w.outer = outer /\ w.path = path /\ w.entries = entries
    BY <1>1 DEF Between, Within
  <1>9. v = Between(off, child, out, None, all)
    <2>1. v = [w EXCEPT !.entries = Append(@, [path |-> Within(w), dir |-> TRUE, size |-> 0]),
                        !.outer = Append(@, w.path), !.path = Within(w),
                        !.name = None, !.pending = FALSE]
      BY <1>2, <1>7, <1>8 DEF Visit, DirEntry
    <2>2. v = [w EXCEPT !.entries = all, !.outer = out, !.path = child, !.name = None, !.pending = FALSE]
      BY <1>1, <1>7, <1>8, <2>1 DEF Between
    <2> QED BY <1>1, <2>2 DEF Between
  <1>10. [v EXCEPT !.off = @ + 1] = Between(off + 1, child, out, None, all) BY <1>9, BetweenOn
  <1> QED BY <1>3, <1>6, <1>7, <1>10

LEMMA PassPayload ==
  ASSUME NEW data, Listed(data), NEW off \in Nat, NEW path, NEW outer, NEW name, NEW entries,
         Reaches(data, Inside(off, path, outer, name, entries)),
         NEW n \in Nat, off + (n + 1) <= Len(data), data[off + 1] = Payload(n),
         NEW child, child = Append(path, name)
  PROVE  Reaches(data, Between(off + (n + 1), path, outer, None,
                               Append(entries, [path |-> child, dir |-> FALSE, size |-> n])))
  <1>1. PICK w : w = Inside(off, path, outer, name, entries) OBVIOUS
  <1>2. PICK h : h = Payload(n) OBVIOUS
  <1>3. "size" \in DOMAIN h /\ h.size = n + 1 BY <1>2 DEF Payload
  <1>4. IsWalk(w) /\ w.ok /\ w.off = off BY <1>1, InsideIs
  <1>5. n + 1 \in Nat \ {0} /\ off < Len(data) BY ListedHas
  <1>6. Reaches(data, [Visit(w, h) EXCEPT !.off = @ + h.size])
    BY <1>1, <1>2, <1>3, <1>4, <1>5, StepOver
  <1>7. PICK v, all, size :
          /\ v = Visit(w, h) /\ size = n + 1
          /\ all = Append(entries, [path |-> child, dir |-> FALSE, size |-> n])
    OBVIOUS
  <1>8. Visit(Inside(off, path, outer, name, entries), Payload(n)) =
          Between(off, path, outer, None, Append(entries, [path |-> child, dir |-> FALSE, size |-> n]))
    BY VisitPayload
  <1>9. v = Between(off, path, outer, None, all) BY <1>1, <1>2, <1>7, <1>8
  <1>10. [v EXCEPT !.off = @ + size] = Between(off + size, path, outer, None, all) BY <1>9, BetweenOn
  <1> QED BY <1>3, <1>6, <1>7, <1>10

LEMMA PassGoodbye ==
  ASSUME NEW data, Listed(data), NEW off \in Nat, NEW path, NEW outer, NEW name, NEW entries,
         Reaches(data, Between(off, path, outer, name, entries)),
         NEW n \in Nat, off + (n + 2) <= Len(data), data[off + 1] = Goodbye(n)
  PROVE  /\ outer = <<>> => Reaches(data, Between(off + (n + 2), path, outer, name, entries))
         /\ outer # <<>> => Reaches(data, Between(off + (n + 2), Last(outer), Front(outer), name, entries))
  <1>1. PICK w : w = Between(off, path, outer, name, entries) OBVIOUS
  <1>2. PICK h : h = Goodbye(n) OBVIOUS
  <1>3. "size" \in DOMAIN h /\ h.size = n + 2 BY <1>2 DEF Goodbye
  <1>4. IsWalk(w) /\ w.ok /\ w.off = off BY <1>1, BetweenIs
  <1>5. n + 2 \in Nat \ {0} /\ off < Len(data) BY ListedHas
  <1>6. Reaches(data, [Visit(w, h) EXCEPT !.off = @ + h.size])
    BY <1>1, <1>2, <1>3, <1>4, <1>5, StepOver
  <1>7. outer = <<>> => Visit(w, h) = Between(off, path, outer, name, entries)
    BY <1>1, <1>2, VisitGoodbye
  <1>8. outer # <<>> => Visit(w, h) = Between(off, Last(outer), Front(outer), name, entries)
    BY <1>1, <1>2, VisitGoodbye
  <1>9. CASE outer = <<>> BY <1>3, <1>6, <1>7, <1>9, BetweenOn
  <1>10. CASE outer # <<>> BY <1>3, <1>6, <1>8, <1>10, BetweenOn
  <1> QED BY <1>9, <1>10

(***************************************************************************)
(*                  What each step does to the directories                 *)
(***************************************************************************)

Replaced(f) ==
  /\ Listed(stack') /\ stack' # <<>> /\ Len(stack') = Len(stack) /\ stack'[Len(stack)] = f
  /\ \A i \in 1..Len(stack) : i # Len(stack) => stack'[i] = stack[i]

LEMMA ReplacedIs ==
  ASSUME StackInv, stack # <<>>, NEW f, stack' = WithFrame(f)
  PROVE  Replaced(f) /\ Frame' = f
  <1>1. /\ Listed(stack') /\ Len(stack') = Len(stack) /\ stack'[Len(stack)] = f
        /\ \A i \in 1..Len(stack) : i # Len(stack) => stack'[i] = stack[i]
    BY WithFrameIs
  <1>2. stack' # <<>> BY <1>1, AtWhich, ListedHas
  <1> QED BY <1>1, <1>2 DEF Replaced, Frame, Last

\* A frame is its eight fields.
IsFrame(f) ==
  f = [path |-> f.path, virtual |-> f.virtual, todo |-> f.todo, start |-> f.start,
       dirStart |-> f.dirStart, items |-> f.items, dirs |-> f.dirs, files |-> f.files]

PopsTo(f, g) ==
  /\ g.path = f.path /\ g.virtual = f.virtual /\ g.start = f.start /\ g.dirStart = f.dirStart
  /\ DOMAIN g.todo = DOMAIN f.todo \ {Place} /\ \A k \in DOMAIN g.todo : g.todo[k] = f.todo[k]

LEMMA PopsHere ==
  ASSUME StackInv, stack # <<>>, NEW f, f = Popped(Frame)
  PROVE  /\ IsFrame(f) /\ PopsTo(Frame, f)
         /\ f.items = Frame.items /\ f.dirs = Frame.dirs /\ f.files = Frame.files
  <1>1. PICK was, t : was = Frame /\ t = Restrict(was.todo, DOMAIN was.todo \ {Place}) OBVIOUS
  <1>2. FrameOk(was, Len(log)) BY <1>1, AtWhich
  <1>3. DOMAIN t = DOMAIN was.todo \ {Place} /\ \A k \in DOMAIN t : t[k] = was.todo[k]
    BY <1>1 DEF Restrict
  <1>4. f = [was EXCEPT !.todo = t] BY <1>1 DEF Popped, Place
  <1>5. f = [path |-> was.path, virtual |-> was.virtual, todo |-> t, start |-> was.start,
             dirStart |-> was.dirStart, items |-> was.items, dirs |-> was.dirs, files |-> was.files]
    BY <1>2, <1>4 DEF FrameOk
  <1>6. /\ f.path = was.path /\ f.virtual = was.virtual /\ f.todo = t /\ f.start = was.start
        /\ f.dirStart = was.dirStart /\ f.items = was.items /\ f.dirs = was.dirs
        /\ f.files = was.files
    BY <1>5
  <1>7. PopsTo(was, f) BY <1>3, <1>6 DEF PopsTo
  <1>8. IsFrame(f) BY <1>5, <1>6 DEF IsFrame
  <1> QED BY <1>1, <1>6, <1>7, <1>8

LEMMA AtPassOver ==
  ASSUME ArchiveInv, Exclude \/ SkipSystem \/ SkipLink \/ ReadError
  PROVE  /\ AtChild /\ UNCHANGED <<archive, catalog, file, log, result>>
         /\ \E f : /\ Replaced(f) /\ PopsTo(Frame, f)
                   /\ f.items = Frame.items /\ f.dirs = Frame.dirs /\ f.files = Frame.files
  <1>1. AtChild /\ PassOver BY DEF Exclude, SkipSystem, SkipLink, ReadError, AtWanted
  <1>2. StackInv /\ stack # <<>> BY <1>1 DEF ArchiveInv, AtChild, Walking
  <1>3. PICK f : f = Popped(Frame) OBVIOUS
  <1>4. stack' = WithFrame(f) /\ UNCHANGED <<archive, catalog, file, log, result>>
    BY <1>1, <1>3 DEF PassOver
  <1>5. Replaced(f) BY <1>2, <1>4, ReplacedIs
  <1> QED BY <1>1, <1>2, <1>3, <1>4, <1>5, PopsHere

ItemOf(name, from, end) == [hash |-> Hash[name], start |-> from, len |-> end - from]

\* Only the innermost frame can be at the root's virtual files.
RootInv ==
  /\ stack # <<>> => stack[1].path = <<>>
  /\ \A i \in 1..Len(stack) : i # 1 => stack[i].virtual = <<>>

NotesTo(f, g, name, from, end) ==
  /\ g.path = f.path /\ g.start = f.start /\ g.dirStart = f.dirStart
  /\ g.items = Append(f.items, ItemOf(name, from, end))

\* Nothing but the items of the frame changes.
OnlyNotes(f, g, name, from, end) ==
  /\ IsFrame(g) /\ NotesTo(f, g, name, from, end)
  /\ g.todo = f.todo /\ g.files = f.files /\ g.dirs = f.dirs /\ g.virtual = f.virtual

LEMMA NotesHere ==
  ASSUME NEW f, IsFrame(f), NEW name, NEW from, NEW end
  PROVE  OnlyNotes(f, Noted(f, name, from, end), name, from, end)
  <1>0. PICK g : g = Noted(f, name, from, end) OBVIOUS
  <1>1. PICK items : items = Append(f.items, ItemOf(name, from, end)) OBVIOUS
  <1>2. g = [f EXCEPT !.items = items] BY <1>0, <1>1 DEF Noted, ItemOf
  <1>3. g = [path |-> f.path, virtual |-> f.virtual, todo |-> f.todo, start |-> f.start,
             dirStart |-> f.dirStart, items |-> items, dirs |-> f.dirs, files |-> f.files]
    BY <1>2 DEF IsFrame
  <1>4. /\ g.path = f.path /\ g.virtual = f.virtual /\ g.todo = f.todo /\ g.start = f.start
        /\ g.dirStart = f.dirStart /\ g.items = items /\ g.dirs = f.dirs /\ g.files = f.files
    BY <1>3
  <1>5. IsFrame(g) BY <1>3, <1>4 DEF IsFrame
  <1>6. OnlyNotes(f, g, name, from, end) BY <1>1, <1>4, <1>5 DEF OnlyNotes, NotesTo
  <1> QED BY <1>0, <1>6

\* A virtual file is written, and noted in the frame of the root.
Injects(vf, f) ==
  /\ Walking /\ vf.name \in DOMAIN Hash /\ vf.size \in Nat /\ Frame.path = <<>> /\ Len(stack) = 1
  /\ UNCHANGED <<catalog, file, result>> /\ Send(VirtualCells(vf))
  /\ log' = Append(log, [path |-> <<vf.name>>, dir |-> FALSE, size |-> vf.size])
  /\ Replaced(f) /\ NotesTo(Frame, f, vf.name, Len(archive), Len(archive'))
  /\ f.todo = Frame.todo /\ f.dirs = Frame.dirs /\ f.files = Append(Frame.files, vf)

LEMMA AtVirtual ==
  ASSUME ArchiveInv, RootInv, WriteVirtualFile
  PROVE  \E vf, f : Injects(vf, f)
  <1>0. PICK vf : vf = Head(Frame.virtual) OBVIOUS
  <1>1. /\ Walking /\ StackInv /\ stack # <<>> /\ Frame.virtual # <<>>
        /\ UNCHANGED <<catalog, file, result>> /\ Send(VirtualCells(vf))
        /\ log' = Append(log, [path |-> <<vf.name>>, dir |-> FALSE, size |-> vf.size])
    BY <1>0 DEF ArchiveInv, WriteVirtualFile, Walking, outside
  <1>2. /\ Len(stack) \in 1..Len(stack) /\ Frame = stack[Len(stack)] /\ FrameOk(Frame, Len(log))
    BY <1>1, AtWhich
  <1>3. Len(stack) = 1 /\ Frame.path = <<>> BY <1>1, <1>2 DEF RootInv
  <1>4. vf.name \in DOMAIN Hash /\ vf.size \in Nat
    <2>1. Frame.virtual \in Seq([name : DOMAIN Hash, size : Nat]) BY <1>2 DEF FrameOk
    <2>2. vf \in [name : DOMAIN Hash, size : Nat] BY <1>0, <1>1, <2>1, HeadTailProperties
    <2> QED BY <2>2
  <1>5. PICK was, m, rest, y, f :
          /\ was = Frame /\ m = Noted(was, vf.name, Len(archive), Len(archive'))
          /\ rest = Tail(m.virtual) /\ y = Append(m.files, vf)
          /\ f = [m EXCEPT !.virtual = rest, !.files = y]
    OBVIOUS
  <1>6. stack' = WithFrame(f) BY <1>0, <1>5 DEF WriteVirtualFile
  <1>7. /\ IsFrame(m) /\ NotesTo(was, m, vf.name, Len(archive), Len(archive'))
        /\ m.todo = was.todo /\ m.files = was.files /\ m.dirs = was.dirs
    <2>1. IsFrame(was) BY <1>2, <1>5 DEF FrameOk, IsFrame
    <2>2. OnlyNotes(was, m, vf.name, Len(archive), Len(archive')) BY <1>5, <2>1, NotesHere
    <2> QED BY <2>2 DEF OnlyNotes
  <1>8. /\ f.path = m.path /\ f.todo = m.todo /\ f.start = m.start /\ f.dirStart = m.dirStart
        /\ f.items = m.items /\ f.dirs = m.dirs /\ f.files = y
    BY <1>5, <1>7 DEF IsFrame
  <1>9. Replaced(f) BY <1>1, <1>6, ReplacedIs
  <1>10. NotesTo(was, f, vf.name, Len(archive), Len(archive')) BY <1>7, <1>8 DEF NotesTo
  <1>11. f.todo = was.todo /\ f.dirs = was.dirs /\ f.files = Append(was.files, vf)
    BY <1>5, <1>7, <1>8
  <1>12. Injects(vf, f) BY <1>1, <1>3, <1>4, <1>5, <1>9, <1>10, <1>11 DEF Injects
  <1> QED BY <1>12

\* The file under way is done, and noted in the frame of its directory.
Completes(end, f) ==
  /\ stack # <<>> /\ DOMAIN Frame.todo # {} /\ file.path = Child /\ file' = None
  /\ UNCHANGED <<catalog, log, result>>
  /\ Replaced(f) /\ NotesTo(Frame, f, Last(file.path), file.start, end)
  /\ DOMAIN f.todo = DOMAIN Frame.todo \ {Place}
  /\ \A k \in DOMAIN f.todo : f.todo[k] = Frame.todo[k]
  /\ f.virtual = Frame.virtual /\ f.dirs = Frame.dirs
  /\ f.files = Append(Frame.files, [name |-> Last(file.path), size |-> file.declared])

LEMMA AtFileDone ==
  ASSUME ArchiveInv, file # None, NEW end, FileDone(end)
  PROVE  \E f : Completes(end, f)
  <1>1. StackInv /\ stack # <<>> /\ DOMAIN Frame.todo # {} /\ file.path = Child
    BY DEF ArchiveInv, FileInv
  <1>2. PICK was, p, m, y, f :
          /\ was = Frame /\ p = Popped(was) /\ m = Noted(p, Last(file.path), file.start, end)
          /\ y = Append(m.files, [name |-> Last(file.path), size |-> file.declared])
          /\ f = [m EXCEPT !.files = y]
    OBVIOUS
  <1>3. /\ stack' = WithFrame(f) /\ file' = None /\ UNCHANGED <<catalog, log, result>>
    BY <1>2 DEF FileDone, outside
  <1>4. /\ IsFrame(p) /\ PopsTo(was, p)
        /\ p.items = was.items /\ p.dirs = was.dirs /\ p.files = was.files
    BY <1>1, <1>2, PopsHere
  <1>5. /\ IsFrame(m) /\ NotesTo(p, m, Last(file.path), file.start, end)
        /\ m.todo = p.todo /\ m.files = p.files /\ m.dirs = p.dirs /\ m.virtual = p.virtual
    <2>1. OnlyNotes(p, m, Last(file.path), file.start, end) BY <1>2, <1>4, NotesHere
    <2> QED BY <2>1 DEF OnlyNotes
  <1>6. /\ f.path = m.path /\ f.todo = m.todo /\ f.start = m.start /\ f.dirStart = m.dirStart
        /\ f.items = m.items /\ f.dirs = m.dirs /\ f.files = y /\ f.virtual = m.virtual
    BY <1>2, <1>5 DEF IsFrame
  <1>7. Replaced(f) BY <1>1, <1>3, ReplacedIs
  <1>8. NotesTo(was, f, Last(file.path), file.start, end) BY <1>4, <1>5, <1>6 DEF NotesTo, PopsTo
  <1>9. /\ f.files = Append(was.files, [name |-> Last(file.path), size |-> file.declared])
        /\ f.dirs = was.dirs /\ f.virtual = was.virtual
    BY <1>2, <1>4, <1>5, <1>6 DEF PopsTo
  <1>10. DOMAIN f.todo = DOMAIN was.todo \ {Place} /\ \A k \in DOMAIN f.todo : f.todo[k] = was.todo[k]
    BY <1>4, <1>5, <1>6 DEF PopsTo
  <1>11. Completes(end, f) BY <1>1, <1>2, <1>3, <1>7, <1>8, <1>9, <1>10 DEF Completes
  <1> QED BY <1>11

Entered(f, inner) ==
  /\ Listed(stack') /\ stack' # <<>> /\ Len(stack') = Len(stack) + 1
  /\ stack'[Len(stack)] = f /\ stack'[Len(stack) + 1] = inner
  /\ \A i \in 1..Len(stack) : i # Len(stack) => stack'[i] = stack[i]

\* A directory is entered: a frame of its own follows that of the one around it.
Enters(name, child, f, inner) ==
  /\ name = Last(Child) /\ child = Child
  /\ AtChild /\ Frame.todo[Place] /\ UNCHANGED <<catalog, file, result>>
  /\ Send(<<Filename(name), DirEntry>>)
  /\ log' = Append(log, [path |-> child, dir |-> TRUE, size |-> 0])
  /\ Entered(f, inner) /\ PopsTo(Frame, f)
  /\ f.items = Frame.items /\ f.dirs = Frame.dirs /\ f.files = Frame.files
  /\ inner.path = child /\ inner.virtual = <<>> /\ inner.todo = ReadDir(child)
  /\ inner.start = Len(archive) /\ inner.dirStart = Len(archive) + 1
  /\ inner.items = <<>> /\ inner.dirs = <<>> /\ inner.files = <<>>

LEMMA AtEnterDir ==
  ASSUME ArchiveInv, EnterDir
  PROVE  \E name, child, f, inner : Enters(name, child, f, inner)
  <1>0. PICK name, child : name = Last(Child) /\ child = Child OBVIOUS
  <1>1. /\ AtChild /\ StackInv /\ stack # <<>> /\ UNCHANGED <<catalog, file, result>>
        /\ Send(<<Filename(name), DirEntry>>)
        /\ log' = Append(log, [path |-> child, dir |-> TRUE, size |-> 0])
    BY <1>0 DEF ArchiveInv, EnterDir, AtWanted, AtChild, Walking, outside
  <1>2. Frame.todo[Place] BY DEF EnterDir, AtWanted
  <1>3. PICK f, s, inner : /\ f = Popped(Frame) /\ s = WithFrame(f)
                           /\ inner = NewFrame(child, Len(archive), Len(archive) + 1, <<>>)
    OBVIOUS
  <1>4. stack' = Append(s, inner) BY <1>0, <1>3 DEF EnterDir
  <1>5. Entered(f, inner)
    <2>1. /\ Listed(s) /\ Len(s) = Len(stack) /\ s[Len(stack)] = f
          /\ \A i \in 1..Len(stack) : i # Len(stack) => s[i] = stack[i]
      BY <1>1, <1>3, WithFrameIs
    <2>2. Len(stack) \in 1..Len(stack) /\ Len(stack) \in Nat BY <1>1, AtWhich
    <2>3. /\ Listed(stack') /\ Len(stack') = Len(s) + 1 /\ stack'[Len(s) + 1] = inner
          /\ \A i \in 1..Len(s) : stack'[i] = s[i]
      BY <1>4, <2>1, ListedAppend
    <2>4. stack' # <<>>
      <3>1. Len(stack') > 0 BY <2>1, <2>2, <2>3
      <3> QED BY <2>3, <3>1, ListedHas
    <2> QED BY <2>1, <2>2, <2>3, <2>4 DEF Entered
  <1>6. /\ PopsTo(Frame, f) /\ f.items = Frame.items /\ f.dirs = Frame.dirs /\ f.files = Frame.files
    BY <1>1, <1>3, PopsHere
  <1>7. /\ inner.path = child /\ inner.virtual = <<>> /\ inner.todo = ReadDir(child)
        /\ inner.start = Len(archive) /\ inner.dirStart = Len(archive) + 1
        /\ inner.items = <<>> /\ inner.dirs = <<>> /\ inner.files = <<>>
    BY <1>3 DEF NewFrame
  <1>8. Enters(name, child, f, inner) BY <1>0, <1>1, <1>2, <1>5, <1>6, <1>7 DEF Enters
  <1> QED BY <1>8

Left(n, f) ==
  /\ Listed(stack') /\ stack' # <<>> /\ n \in 1..n /\ n \in Nat /\ Len(stack) = n + 1 /\ Len(stack') = n
  /\ stack'[n] = f /\ \A i \in 1..n : i # n => stack'[i] = stack[i]

DirLeft(n, outer, f) ==
  /\ Left(n, f) /\ NotesTo(outer, f, Last(Frame.path), Frame.start, Len(archive'))
  /\ f.virtual = outer.virtual /\ f.todo = outer.todo /\ f.files = outer.files
  /\ f.dirs = Append(outer.dirs, [name |-> Last(Frame.path), pos |-> Len(catalog)])

LEMMA AtCloseDir ==
  ASSUME ArchiveInv, CloseDir, Len(stack) # 1
  PROVE  \E n, outer, f : outer = stack[n] /\ DirLeft(n, outer, f)
  <1>0. PICK n, outer, name : n = Len(stack) - 1 /\ outer = stack[n] /\ name = Last(Frame.path)
    OBVIOUS
  <1>1. StackInv /\ stack # <<>> BY DEF ArchiveInv, CloseDir, Walking
  <1>2. Len(stack) \in Nat /\ Len(stack) > 0 BY <1>1, AtWhich
  <1>3. n \in Nat /\ n \in 1..n /\ Len(stack) = n + 1 /\ n \in 1..Len(stack) BY <1>0, <1>2
  <1>4. PICK rest : rest = Front(stack) OBVIOUS
  <1>5. Listed(rest) /\ Len(rest) = n /\ \A i \in 1..n : rest[i] = stack[i]
    BY <1>0, <1>1, <1>4, ListedFront DEF StackInv
  <1>6. PICK m, y, f : /\ m = Noted(outer, name, Frame.start, Len(archive'))
                       /\ y = Append(m.dirs, [name |-> name, pos |-> Len(catalog)])
                       /\ f = [m EXCEPT !.dirs = y]
    OBVIOUS
  <1>7. stack' = [rest EXCEPT ![n] = f]
    <2>1. stack' = [rest EXCEPT ![n] = DirNoted(@, Len(archive'), Len(catalog))]
      BY <1>4, <1>5 DEF CloseDir
    <2>2. rest[n] = outer BY <1>0, <1>3, <1>5
    <2>3. f = DirNoted(outer, Len(archive'), Len(catalog)) BY <1>0, <1>6 DEF DirNoted
    <2> QED BY <2>1, <2>2, <2>3
  <1>8. Listed(stack') /\ Len(stack') = n /\ stack'[n] = f /\ \A i \in 1..n : i # n => stack'[i] = stack[i]
    <2> DEFINE S == ToSet(rest) \cup {f}
    <2>1. rest \in Seq(S) /\ f \in S BY <1>5 DEF Listed
    <2> HIDE DEF S
    <2>2. stack' \in Seq(S) /\ Len(stack') = n BY <1>3, <1>5, <1>7, <2>1, ExceptSeq
    <2>3. stack'[n] = f /\ \A i \in 1..n : i # n => stack'[i] = stack[i]
      BY <1>3, <1>5, <1>7, <2>1
    <2>4. Listed(stack') BY <2>2, IsListed
    <2> QED BY <2>2, <2>3, <2>4
  <1>9. stack' # <<>>
    <2>1. Len(stack') > 0 BY <1>3, <1>8
    <2> QED BY <1>8, <2>1, ListedHas
  <1>10. FrameOk(outer, Len(log)) BY <1>0, <1>1, <1>3 DEF StackInv
  <1>11. /\ IsFrame(m) /\ NotesTo(outer, m, name, Frame.start, Len(archive'))
         /\ m.todo = outer.todo /\ m.files = outer.files /\ m.dirs = outer.dirs
         /\ m.virtual = outer.virtual
    <2>1. IsFrame(outer) BY <1>10 DEF FrameOk, IsFrame
    <2>2. OnlyNotes(outer, m, name, Frame.start, Len(archive')) BY <1>6, <2>1, NotesHere
    <2> QED BY <2>2 DEF OnlyNotes
  <1>12. /\ f.path = m.path /\ f.todo = m.todo /\ f.start = m.start /\ f.dirStart = m.dirStart
         /\ f.items = m.items /\ f.virtual = m.virtual /\ f.files = m.files /\ f.dirs = y
    BY <1>6, <1>11 DEF IsFrame
  <1>13. Left(n, f) BY <1>3, <1>8, <1>9 DEF Left
  <1>14. NotesTo(outer, f, name, Frame.start, Len(archive')) BY <1>11, <1>12 DEF NotesTo
  <1>15. DirLeft(n, outer, f) BY <1>0, <1>6, <1>11, <1>12, <1>13, <1>14 DEF DirLeft
  <1> QED BY <1>0, <1>15

LEMMA AtWriteRoot ==
  ASSUME WriteRoot, fs[<<>>].kind = "dir"
  PROVE  /\ Send(<<DirEntry>>) /\ catalog' = <<[t |-> "magic"]>>
         /\ stack = <<>> /\ result = None /\ UNCHANGED <<file, log, result>>
         /\ Listed(stack') /\ stack' # <<>> /\ Len(stack') = 1
         /\ stack'[1].path = <<>> /\ stack'[1].start = 0 /\ stack'[1].dirStart = 0
         /\ stack'[1].todo = ReadDir(<<>>)
         /\ stack'[1].items = <<>> /\ stack'[1].dirs = <<>> /\ stack'[1].files = <<>>
  <1>1. PICK f, s : f = NewFrame(<<>>, 0, 0, VirtualFiles) /\ s = <<f>> OBVIOUS
  <1>2. /\ Send(<<DirEntry>>) /\ catalog' = <<[t |-> "magic"]>> /\ stack' = s
        /\ stack = <<>> /\ result = None /\ UNCHANGED <<file, log, result>>
    BY <1>1 DEF WriteRoot
  <1>3. s \in Seq({f}) /\ Len(s) = 1 /\ s[1] = f /\ s # <<>> BY <1>1
  <1>4. Listed(s) BY <1>3, IsListed
  <1>5. /\ f.path = <<>> /\ f.start = 0 /\ f.dirStart = 0 /\ f.todo = ReadDir(<<>>)
        /\ f.items = <<>> /\ f.dirs = <<>> /\ f.files = <<>>
    BY <1>1 DEF NewFrame
  <1> QED BY <1>2, <1>3, <1>4, <1>5

\* The other steps leave the streams and the directories alone.
Idle == UNCHANGED <<archive, catalog, stack, file, log>> /\ (result' = result \/ result' \in {"cancelled", "failed"})

LEMMA IdleSteps ==
  ASSUME Next
  PROVE  \/ Idle
         \/ WriteRoot /\ fs[<<>>].kind = "dir"
         \/ WriteVirtualFile
         \/ Exclude \/ SkipSystem \/ SkipLink \/ ReadError
         \/ EnterDir \/ OpenFile \/ ReadData \/ Pad \/ Probe \/ CloseDir
  <1>1. StopIfCancelled \/ ReadFails \/ Cancel => Idle
    BY DEF StopIfCancelled, ReadFails, Cancel, Idle
  <1>2. WriteRoot /\ fs[<<>>].kind # "dir" => Idle BY DEF WriteRoot, Idle
  <1>3. ASSUME NEW path \in DOMAIN Tree, FileChanges(path) \/ DirChanges(path) PROVE Idle
    <2>1. \A now : Becomes(path, now) => Idle BY DEF Becomes, Idle
    <2> QED BY <1>3, <2>1 DEF FileChanges, DirChanges
  <1> QED BY <1>1, <1>2, <1>3 DEF Next

LEMMA RootStart == Init => RootInv
  <1>1. Len(<<>>) = 0 BY EmptySeq
  <1> QED BY <1>1 DEF Init, RootInv

LEMMA RootMovesOn ==
  ASSUME ArchiveInv, RootInv, [Next]_vars
  PROVE  RootInv'
  <1>1. CASE UNCHANGED vars \/ Idle
    <2>1. stack' = stack BY <1>1 DEF vars, Idle
    <2> QED BY <2>1 DEF RootInv
  <1>2. ASSUME stack # <<>>, NEW f, Replaced(f), f.path = Frame.path,
               f.virtual = Frame.virtual \/ Len(stack) = 1
        PROVE  RootInv'
    <2>1. Len(stack) \in 1..Len(stack) /\ Frame = stack[Len(stack)]
      BY <1>2, AtWhich DEF ArchiveInv
    <2> QED BY <1>2, <2>1 DEF RootInv, Replaced
  <1>3. CASE WriteRoot /\ fs[<<>>].kind = "dir"
    <2>1. Len(stack') = 1 /\ stack'[1].path = <<>> BY <1>3, AtWriteRoot
    <2>2. \A i \in 1..1 : i = 1 OBVIOUS
    <2> QED BY <2>1, <2>2 DEF RootInv
  <1>4. CASE WriteVirtualFile
    <2>1. PICK vf, f : Injects(vf, f) BY <1>4, AtVirtual
    <2>2. Replaced(f) /\ NotesTo(Frame, f, vf.name, Len(archive), Len(archive')) BY <2>1 DEF Injects
    <2>3. Len(stack) = 1 /\ stack # <<>> BY <2>1 DEF Injects, Walking
    <2> QED BY <1>2, <2>2, <2>3 DEF NotesTo
  <1>5. CASE Exclude \/ SkipSystem \/ SkipLink \/ ReadError
    <2>1. PICK f : Replaced(f) /\ PopsTo(Frame, f) BY <1>5, AtPassOver
    <2>2. stack # <<>> BY <1>5, AtPassOver DEF AtChild, Walking
    <2> QED BY <1>2, <2>1, <2>2 DEF PopsTo
  <1>6. CASE EnterDir
    <2>1. PICK name, child, f, inner : Enters(name, child, f, inner) BY <1>6, AtEnterDir
    <2>2. Entered(f, inner) /\ PopsTo(Frame, f) /\ inner.virtual = <<>> BY <2>1 DEF Enters
    <2>3. stack # <<>> BY <2>1 DEF Enters, AtChild, Walking
    <2>4. Len(stack) \in 1..Len(stack) /\ Len(stack) \in Nat /\ Frame = stack[Len(stack)]
      BY <2>3, AtWhich DEF ArchiveInv
    <2>5. f.path = stack[Len(stack)].path /\ f.virtual = stack[Len(stack)].virtual
      BY <2>2, <2>4 DEF PopsTo
    <2> QED BY <2>2, <2>3, <2>4, <2>5 DEF RootInv, Entered
  <1>7. CASE OpenFile \/ ReadData
    <2>1. stack' = stack BY <1>7 DEF OpenFile, ReadData
    <2> QED BY <2>1 DEF RootInv
  <1>8. CASE Pad \/ Probe
    <2>1. PICK end : FileDone(end) BY <1>8 DEF Pad, Probe
    <2>2. file # None BY <1>8 DEF Pad, Probe, Reading
    <2>5. PICK f : Completes(end, f) BY <2>1, <2>2, AtFileDone
    <2>3. /\ Replaced(f) /\ NotesTo(Frame, f, Last(file.path), file.start, end)
          /\ f.virtual = Frame.virtual
      BY <2>5 DEF Completes
    <2>4. stack # <<>> BY <2>5 DEF Completes
    <2> QED BY <1>2, <2>3, <2>4 DEF NotesTo
  <1>9. CASE CloseDir
    <2>1. CASE Len(stack) = 1
      <3>1. stack' = <<>> BY <1>9, <2>1 DEF CloseDir
      <3>2. Len(stack') = 0 BY <3>1, EmptySeq
      <3> QED BY <3>1, <3>2 DEF RootInv
    <2>2. CASE Len(stack) # 1
      <3>1. PICK n, outer, f : outer = stack[n] /\ DirLeft(n, outer, f) BY <1>9, <2>2, AtCloseDir
      <3>2. /\ Left(n, f) /\ NotesTo(outer, f, Last(Frame.path), Frame.start, Len(archive'))
            /\ f.virtual = outer.virtual
        BY <3>1 DEF DirLeft
      <3>3. f.path = stack[n].path /\ f.virtual = stack[n].virtual BY <3>1, <3>2 DEF NotesTo
      <3>4. n \in Nat /\ Len(stack) = n + 1 /\ n \in 1..n BY <3>2 DEF Left
      <3>5. stack # <<>> BY <1>9 DEF CloseDir, Walking
      <3>6. ASSUME NEW i \in 1..n
            PROVE  /\ i \in 1..Len(stack) /\ stack'[i].path = stack[i].path
                   /\ stack'[i].virtual = stack[i].virtual
        <4>1. i \in 1..Len(stack) BY <3>4
        <4>2. i # n => stack'[i] = stack[i] BY <3>2 DEF Left
        <4>3. i = n => stack'[i] = f BY <3>2 DEF Left
        <4> QED BY <3>3, <4>1, <4>2, <4>3
      <3>7. Len(stack') = n /\ 1 \in 1..n BY <3>2, <3>4 DEF Left
      <3>8. stack[1].path = <<>> BY <3>5 DEF RootInv
      <3>9. \A i \in 1..n : i # 1 => stack'[i].virtual = <<>> BY <3>6 DEF RootInv
      <3> QED BY <3>6, <3>7, <3>8, <3>9 DEF RootInv
    <2> QED BY <2>1, <2>2
  <1> QED BY <1>1, <1>3, <1>4, <1>5, <1>6, <1>7, <1>8, <1>9, IdleSteps

(***************************************************************************)
(*                   The walk of what has been written                     *)
(***************************************************************************)

\* The paths of the frames around the innermost one.
Around(outer) ==
  Listed(outer) /\ Len(outer) = Len(stack) - 1 /\ \A i \in 1..Len(outer) : outer[i] = stack[i].path

BetweenEntries ==
  \E outer, name : Around(outer) /\ Reaches(archive, Between(Len(archive), Frame.path, outer, name, log))

\* The content of the file under way follows its header.
InsideFile ==
  \E outer, entries, header :
    /\ Around(outer) /\ header \in Nat /\ header + (1 + file.written) = Len(archive)
    /\ archive[header + 1] = Payload(file.declared) /\ file.start \in Nat
    /\ Reaches(archive, Inside(header, Frame.path, outer, Last(file.path), entries))
    /\ log = Append(entries, [path |-> file.path, dir |-> FALSE, size |-> file.declared])

AtTheEnd == \E path, outer, name : Reaches(archive, Between(Len(archive), path, outer, name, log))

\* The walk of the cells sent finds what was written so far.
WalkedInv ==
  /\ result = None /\ stack = <<>> => archive = <<>>
  /\ result = None /\ stack # <<>> /\ file = None => BetweenEntries
  /\ result = None /\ file # None => InsideFile
  /\ result = "done" => AtTheEnd

LEMMA Sent ==
  ASSUME ArchiveInv, NEW cells, Listed(cells), Send(cells)
  PROVE  /\ Listed(archive') /\ Len(archive') = Len(archive) + Len(cells)
         /\ Len(archive) \in Nat /\ Len(cells) \in Nat
         /\ \A i \in 1..Len(archive) : archive'[i] = archive[i]
         /\ \A i \in 1..Len(cells) : archive'[Len(archive) + i] = cells[i]
         /\ \A w : Reaches(archive, w) => Reaches(archive', w)
  <1>1. Listed(archive) /\ archive' = archive \o cells BY DEF ArchiveInv, CellsInv, Send
  <1> DEFINE S == ToSet(archive) \cup ToSet(cells)
  <1>2. archive \in Seq(S) /\ cells \in Seq(S) BY <1>1 DEF Listed
  <1> HIDE DEF S
  <1>3. /\ Len(archive \o cells) = Len(archive) + Len(cells)
        /\ Len(archive) \in Nat /\ Len(cells) \in Nat
        /\ \A i \in 1..Len(archive) + Len(cells) :
             (archive \o cells)[i] = IF i <= Len(archive) THEN archive[i] ELSE cells[i - Len(archive)]
    BY <1>2, ConcatProperties
  <1>4. /\ \A i \in 1..Len(archive) : i \in 1..Len(archive) + Len(cells) /\ i <= Len(archive)
        /\ \A i \in 1..Len(cells) : /\ Len(archive) + i \in 1..Len(archive) + Len(cells)
                                    /\ ~(Len(archive) + i <= Len(archive))
                                    /\ Len(archive) + i - Len(archive) = i
    BY <1>3
  <1>5. \A w : Reaches(archive, w) => Reaches(archive', w) BY <1>1, ReachesStill
  <1>6. Listed(archive') BY <1>1, ListedConcat
  <1> QED BY <1>1, <1>3, <1>4, <1>5, <1>6

LEMMA AroundStays ==
  ASSUME ArchiveInv, stack # <<>>, NEW f, Replaced(f), f.path = Frame.path, NEW outer, Around(outer)
  PROVE  Around(outer)' /\ Frame'.path = Frame.path
  <1>1. Len(stack) \in Nat /\ Frame = stack[Len(stack)] BY AtWhich DEF ArchiveInv
  <1>2. Frame' = f BY DEF Frame, Last, Replaced
  <1>3. \A i \in 1..Len(outer) : i \in 1..Len(stack) /\ i # Len(stack) BY <1>1 DEF Around
  <1>4. \A i \in 1..Len(outer) : outer[i] = stack'[i].path BY <1>3 DEF Around, Replaced
  <1>5. Len(outer) = Len(stack') - 1 BY DEF Around, Replaced
  <1> QED BY <1>2, <1>4, <1>5 DEF Around

\* The three cells ahead of the content of a file, and the content.
LEMMA PassFile ==
  ASSUME NEW data, Listed(data), NEW off \in Nat, NEW path, NEW outer, NEW old, NEW entries,
         Reaches(data, Between(off, path, outer, old, entries)),
         off + 2 < Len(data), NEW name, data[off + 1] = Filename(name), data[off + 2] = FileEntry
  PROVE  Reaches(data, Inside(off + 2, path, outer, name, entries))
  <1>0. Len(data) \in Nat BY ListedHas
  <1>1. Reaches(data, Between(off + 1, path, outer, name, entries)) BY <1>0, PassFilename
  <1>2. PICK o : o = off + 1 OBVIOUS
  <1>3. o \in Nat /\ o < Len(data) /\ o + 1 = off + 2 BY <1>0, <1>2
  <1>4. Reaches(data, Inside(o + 1, path, outer, name, entries)) BY <1>1, <1>2, <1>3, PassFileEntry
  <1> QED BY <1>3, <1>4

LEMMA HeaderIs ==
  ASSUME NEW name, NEW n
  PROVE  /\ Listed(FileHeader(name, n)) /\ Len(FileHeader(name, n)) = 3
         /\ FileHeader(name, n)[1] = Filename(name) /\ FileHeader(name, n)[2] = FileEntry
         /\ FileHeader(name, n)[3] = Payload(n)
  <1>1. Listed(FileHeader(name, n)) BY PlainCells DEF Plain
  <1> QED BY <1>1 DEF FileHeader

LEMMA WalkedStart == Init => WalkedInv
  <1>1. result = None /\ None # "done" /\ stack = <<>> /\ archive = <<>> /\ file = None
        => WalkedInv
    BY DEF WalkedInv
  <1> QED BY <1>1, ArchiveAssumption DEF Init, ArchiveAssumption

LEMMA WalkedIdle ==
  ASSUME WalkedInv, Idle \/ UNCHANGED vars
  PROVE  WalkedInv'
  <1>1. /\ archive' = archive /\ stack' = stack /\ file' = file /\ log' = log
        /\ result' = result \/ result' \in {"cancelled", "failed"}
    BY DEF Idle, vars
  <1>2. CASE result' = result
    BY <1>1, <1>2 DEF WalkedInv, BetweenEntries, InsideFile, AtTheEnd, Around, Frame
  <1>3. CASE result' \in {"cancelled", "failed"}
    <2>1. result' # None /\ result' # "done" BY <1>3, ArchiveAssumption DEF ArchiveAssumption
    <2> QED BY <2>1 DEF WalkedInv
  <1> QED BY <1>1, <1>2, <1>3

LEMMA BetweenNow ==
  ASSUME result' = None, stack' # <<>>, file' = None, BetweenEntries'
  PROVE  WalkedInv'
  BY ArchiveAssumption DEF WalkedInv, ArchiveAssumption

LEMMA InsideNow ==
  ASSUME result' = None, stack' # <<>>, file' # None, InsideFile'
  PROVE  WalkedInv'
  BY ArchiveAssumption DEF WalkedInv, ArchiveAssumption

LEMMA WalkedRoot ==
  ASSUME ArchiveInv, WalkedInv, WriteRoot, fs[<<>>].kind = "dir"
  PROVE  WalkedInv'
  <1>1. /\ Send(<<DirEntry>>) /\ stack = <<>> /\ result = None /\ UNCHANGED <<file, log, result>>
        /\ stack' # <<>> /\ Len(stack') = 1 /\ stack'[1].path = <<>>
    BY AtWriteRoot
  <1>2. archive = <<>> BY <1>1 DEF WalkedInv
  <1>3. log = <<>> BY <1>1 DEF ArchiveInv, StartInv
  <1>4. file = None BY <1>1 DEF ArchiveInv, FileInv
  <1>5. PICK cells : cells = <<DirEntry>> OBVIOUS
  <1>6. cells \in Seq({DirEntry}) /\ Len(cells) = 1 /\ cells[1] = DirEntry BY <1>5
  <1>7. /\ Listed(archive') /\ Len(archive') = 1 /\ archive'[1] = DirEntry
    <2>1. Listed(cells) BY <1>6, IsListed
    <2>2. Len(archive) = 0 BY <1>2, EmptySeq
    <2>3. /\ Listed(archive') /\ Len(archive') = 0 + 1 /\ archive'[0 + 1] = cells[1]
      <3>1. 1 \in 1..Len(cells) BY <1>6
      <3> QED BY <1>1, <1>5, <1>6, <2>1, <2>2, <3>1, Sent
    <2> QED BY <1>6, <2>3
  <1>8. Reaches(archive', Between(1, <<>>, <<>>, None, <<>>)) BY <1>7, PassRootEntry
  <1>9. PICK outer : outer = <<>> OBVIOUS
  <1>10. Around(outer)'
    <2>1. Listed(outer) /\ Len(outer) = 0 BY <1>9, EmptySeq DEF Listed
    <2> QED BY <1>1, <2>1 DEF Around
  <1>11. Frame'.path = <<>> BY <1>1 DEF Frame, Last
  <1>12. BetweenEntries'
    <2>1. Reaches(archive', Between(Len(archive'), Frame'.path, outer, None, log'))
      BY <1>1, <1>3, <1>7, <1>8, <1>9, <1>11
    <2> QED BY <1>10, <2>1 DEF BetweenEntries
  <1> QED BY <1>1, <1>4, <1>12, BetweenNow

LEMMA WalkedPassOver ==
  ASSUME ArchiveInv, WalkedInv, Exclude \/ SkipSystem \/ SkipLink \/ ReadError
  PROVE  WalkedInv'
  <1>1. /\ result = None /\ stack # <<>> /\ file = None
        /\ UNCHANGED <<archive, file, log, result>>
    BY AtPassOver DEF AtChild, Walking
  <1>2. PICK f : Replaced(f) /\ PopsTo(Frame, f) BY AtPassOver
  <1>3. PICK outer, name :
          Around(outer) /\ Reaches(archive, Between(Len(archive), Frame.path, outer, name, log))
    BY <1>1 DEF WalkedInv, BetweenEntries
  <1>4. Around(outer)' /\ Frame'.path = Frame.path BY <1>1, <1>2, <1>3, AroundStays DEF PopsTo
  <1>5. BetweenEntries' BY <1>1, <1>3, <1>4 DEF BetweenEntries
  <1>6. stack' # <<>> BY <1>2 DEF Replaced
  <1> QED BY <1>1, <1>5, <1>6, BetweenNow

LEMMA WalkedVirtual ==
  ASSUME ArchiveInv, RootInv, WalkedInv, WriteVirtualFile
  PROVE  WalkedInv'
  <1>1. PICK vf, f : Injects(vf, f) BY AtVirtual
  <1>2. /\ Walking /\ vf.size \in Nat /\ Frame.path = <<>>
        /\ UNCHANGED <<file, result>> /\ Send(VirtualCells(vf))
        /\ log' = Append(log, [path |-> <<vf.name>>, dir |-> FALSE, size |-> vf.size])
    BY <1>1 DEF Injects
  <1>3. Replaced(f) /\ NotesTo(Frame, f, vf.name, Len(archive), Len(archive')) BY <1>1 DEF Injects
  <1>4. result = None /\ stack # <<>> /\ file = None BY <1>2 DEF Walking
  <1>5. PICK outer, old :
          Around(outer) /\ Reaches(archive, Between(Len(archive), Frame.path, outer, old, log))
    BY <1>4 DEF WalkedInv, BetweenEntries
  <1>6. Around(outer)' /\ Frame'.path = Frame.path BY <1>3, <1>4, <1>5, AroundStays DEF NotesTo
  <1>7. PICK header, body, n : /\ header = FileHeader(vf.name, vf.size) /\ n = vf.size
                               /\ body = Cells(Data, n)
    OBVIOUS
  <1>8. /\ Listed(header) /\ Len(header) = 3 /\ header[1] = Filename(vf.name)
        /\ header[2] = FileEntry /\ header[3] = Payload(n)
    BY <1>7, HeaderIs
  <1>9. Listed(body) /\ Len(body) = n /\ n \in Nat
    BY <1>2, <1>7, PlainCells DEF Plain, Cells
  <1>10. PICK cells : cells = header \o body OBVIOUS
  <1>11. Listed(cells) /\ Len(cells) = 3 + n /\ \A i \in 1..3 : cells[i] = header[i]
    <2> DEFINE S == ToSet(header) \cup ToSet(body)
    <2>1. header \in Seq(S) /\ body \in Seq(S) BY <1>8, <1>9 DEF Listed
    <2> HIDE DEF S
    <2>2. Len(cells) = Len(header) + Len(body) /\ \A i \in 1..Len(header) : cells[i] = header[i]
      BY <1>10, <2>1, ConcatProperties
    <2> QED BY <1>8, <1>9, <1>10, <2>2, ListedConcat
  <1>12. PICK at : at = Len(archive) OBVIOUS
  <1>13. /\ Listed(archive') /\ Len(archive') = at + (3 + n) /\ at \in Nat
         /\ archive'[at + 1] = Filename(vf.name) /\ archive'[at + 2] = FileEntry
         /\ archive'[at + 3] = Payload(n)
         /\ \A w : Reaches(archive, w) => Reaches(archive', w)
    <2>1. Send(cells) BY <1>2, <1>7, <1>10 DEF VirtualCells
    <2>2. 1 \in 1..Len(cells) /\ 2 \in 1..Len(cells) /\ 3 \in 1..Len(cells) BY <1>9, <1>11
    <2>3. 1 \in 1..3 /\ 2 \in 1..3 /\ 3 \in 1..3 OBVIOUS
    <2> QED BY <1>8, <1>11, <1>12, <2>1, <2>2, <2>3, Sent
  <1>14. Reaches(archive', Between(at, Frame.path, outer, old, log)) BY <1>5, <1>12, <1>13
  <1>15. Reaches(archive', Inside(at + 2, Frame.path, outer, vf.name, log))
    <2>1. at + 2 < Len(archive') BY <1>9, <1>13
    <2> QED BY <1>13, <1>14, <2>1, PassFile
  <1>16. PICK path, name, o : path = Frame.path /\ name = vf.name /\ o = at + 2 OBVIOUS
  <1>17. <<name>> = Append(path, name) BY <1>2, <1>16
  <1>18. Reaches(archive', Between(o + (n + 1), path, outer, None,
                                   Append(log, [path |-> <<name>>, dir |-> FALSE, size |-> n])))
    <2>1. o \in Nat /\ o + (n + 1) <= Len(archive') /\ archive'[o + 1] = Payload(n)
      <3>1. o + 1 = at + 3 BY <1>13, <1>16
      <3> QED BY <1>9, <1>13, <1>16, <3>1
    <2>2. PICK child : child = Append(path, name) OBVIOUS
    <2>3. Reaches(archive', Inside(o, path, outer, name, log)) BY <1>15, <1>16
    <2>4. Listed(archive') /\ n \in Nat BY <1>9, <1>13
    <2>5. Reaches(archive', Between(o + (n + 1), path, outer, None,
                                    Append(log, [path |-> child, dir |-> FALSE, size |-> n])))
      BY ONLY <2>1, <2>2, <2>3, <2>4, PassPayload
    <2> QED BY <1>17, <2>2, <2>5
  <1>19. o + (n + 1) = Len(archive') BY <1>9, <1>13, <1>16
  <1>20. BetweenEntries' BY <1>2, <1>6, <1>7, <1>16, <1>18, <1>19 DEF BetweenEntries
  <1>21. stack' # <<>> BY <1>3 DEF Replaced
  <1> QED BY <1>2, <1>4, <1>20, <1>21, BetweenNow

LEMMA WalkedEnter ==
  ASSUME ArchiveInv, WalkedInv, EnterDir
  PROVE  WalkedInv'
  <1>0. PICK name, child, f, inner : Enters(name, child, f, inner) BY AtEnterDir
  <1>1. PICK path : name = Last(Child) /\ child = Child /\ path = Frame.path BY <1>0 DEF Enters
  <1>2. /\ AtChild /\ UNCHANGED <<file, result>> /\ Send(<<Filename(name), DirEntry>>)
        /\ log' = Append(log, [path |-> child, dir |-> TRUE, size |-> 0])
    BY <1>0 DEF Enters
  <1>3. Entered(f, inner) /\ PopsTo(Frame, f) /\ inner.path = child BY <1>0 DEF Enters
  <1>4. result = None /\ stack # <<>> /\ file = None /\ DOMAIN Frame.todo # {}
    BY <1>2 DEF AtChild, Walking
  <1>5. PICK outer, old : Around(outer) /\ Reaches(archive, Between(Len(archive), path, outer, old, log))
    BY <1>1, <1>4 DEF WalkedInv, BetweenEntries
  <1>6. child = Append(path, name)
    <2>1. child \in DOMAIN Tree \ {<<>>} /\ Front(child) = path
      BY <1>1, <1>4, AtWhich DEF ArchiveInv
    <2> QED BY <1>1, <2>1, ParentOf
  <1>7. PICK cells : cells = <<Filename(name), DirEntry>> OBVIOUS
  <1>8. Listed(cells) /\ Len(cells) = 2 /\ cells[1] = Filename(name) /\ cells[2] = DirEntry
    BY <1>7, PlainCells DEF Plain
  <1>9. PICK at : at = Len(archive) OBVIOUS
  <1>10. /\ Listed(archive') /\ Len(archive') = at + 2 /\ at \in Nat
         /\ archive'[at + 1] = Filename(name) /\ archive'[at + 2] = DirEntry
         /\ \A w : Reaches(archive, w) => Reaches(archive', w)
    <2>1. 1 \in 1..Len(cells) /\ 2 \in 1..Len(cells) BY <1>8
    <2> QED BY <1>2, <1>7, <1>8, <1>9, <2>1, Sent
  <1>11. Reaches(archive', Between(at + 1, path, outer, name, log))
    <2>1. at < Len(archive') BY <1>10
    <2>2. Reaches(archive', Between(at, path, outer, old, log)) BY <1>5, <1>9, <1>10
    <2> QED BY <1>10, <2>1, <2>2, PassFilename
  <1>12. PICK o, around : o = at + 1 /\ around = Append(outer, path) OBVIOUS
  <1>13. Reaches(archive', Between(o + 1, child, around, None, log'))
    <2>1. o \in Nat /\ o < Len(archive') /\ archive'[o + 1] = DirEntry
      <3>1. o + 1 = at + 2 BY <1>10, <1>12
      <3> QED BY <1>10, <1>12, <3>1
    <2>2. Reaches(archive', Between(o, path, outer, name, log)) BY <1>11, <1>12
    <2>3. Reaches(archive', Between(o + 1, child, Append(outer, path), None,
                                    Append(log, [path |-> child, dir |-> TRUE, size |-> 0])))
      BY <1>6, <1>10, <2>1, <2>2, PassDirEntry
    <2> QED BY <1>2, <1>12, <2>3
  <1>14. o + 1 = Len(archive') BY <1>10, <1>12
  <1>15. Around(around)' /\ Frame'.path = child
    <2>1. Len(stack) \in Nat /\ Frame = stack[Len(stack)] /\ Len(stack) \in 1..Len(stack)
      BY <1>4, AtWhich DEF ArchiveInv
    <2>2. /\ Listed(around) /\ Len(around) = Len(outer) + 1 /\ around[Len(outer) + 1] = path
          /\ \A i \in 1..Len(outer) : around[i] = outer[i]
      BY <1>5, <1>12, ListedAppend DEF Around
    <2>3. Len(outer) + 1 = Len(stack) /\ Len(outer) = Len(stack) - 1 BY <1>5, <2>1 DEF Around
    <2>4. Len(around) = Len(stack') - 1 BY <1>3, <2>1, <2>2, <2>3 DEF Entered
    <2>5. ASSUME NEW i \in 1..Len(around) PROVE around[i] = stack'[i].path
      <3>1. CASE i = Len(stack)
        <4>1. stack'[i].path = path BY <1>1, <1>3, <3>1 DEF Entered, PopsTo
        <4> QED BY <2>2, <2>3, <3>1, <4>1
      <3>2. CASE i # Len(stack)
        <4>1. i \in 1..Len(outer) /\ i \in 1..Len(stack) BY <2>1, <2>2, <2>3, <3>2
        <4> QED BY <1>3, <1>5, <2>2, <3>2, <4>1 DEF Entered, Around
      <3> QED BY <3>1, <3>2
    <2>6. Frame' = inner BY <1>3 DEF Frame, Last, Entered
    <2> QED BY <1>3, <2>2, <2>4, <2>5, <2>6 DEF Around
  <1>16. BetweenEntries' BY <1>13, <1>14, <1>15 DEF BetweenEntries
  <1>17. stack' # <<>> BY <1>3 DEF Entered
  <1> QED BY <1>2, <1>4, <1>16, <1>17, BetweenNow

LEMMA WalkedOpen ==
  ASSUME ArchiveInv, WalkedInv, OpenFile, NEW child, child = Child, NEW n, n = fs[child].size
  PROVE  WalkedInv'
  <1>1. PICK name, path, at : name = Last(child) /\ path = Frame.path /\ at = Len(archive) OBVIOUS
  <1>2. /\ result = None /\ stack # <<>> /\ file = None /\ DOMAIN Frame.todo # {}
        /\ result' = result /\ stack' = stack
        /\ log' = Append(log, [path |-> child, dir |-> FALSE, size |-> n])
        /\ Send(FileHeader(name, n))
        /\ file' = [path |-> child, declared |-> n, written |-> 0, start |-> at]
    BY <1>1 DEF OpenFile, AtWanted, AtChild, Walking
  <1>3. PICK outer, old : Around(outer) /\ Reaches(archive, Between(at, path, outer, old, log))
    BY <1>1, <1>2 DEF WalkedInv, BetweenEntries
  <1>4. PICK cells : cells = FileHeader(name, n) OBVIOUS
  <1>5. /\ Listed(cells) /\ Len(cells) = 3 /\ cells[1] = Filename(name) /\ cells[2] = FileEntry
        /\ cells[3] = Payload(n)
    BY <1>4, HeaderIs
  <1>6. /\ Listed(archive') /\ Len(archive') = at + 3 /\ at \in Nat
        /\ archive'[at + 1] = Filename(name) /\ archive'[at + 2] = FileEntry
        /\ archive'[at + 3] = Payload(n)
        /\ \A w : Reaches(archive, w) => Reaches(archive', w)
    <2>1. 1 \in 1..Len(cells) /\ 2 \in 1..Len(cells) /\ 3 \in 1..Len(cells) BY <1>5
    <2> QED BY <1>1, <1>2, <1>4, <1>5, <2>1, Sent
  <1>7. Reaches(archive', Inside(at + 2, path, outer, name, log))
    <2>1. at + 2 < Len(archive') BY <1>6
    <2>2. Reaches(archive', Between(at, path, outer, old, log)) BY <1>3, <1>6
    <2> QED BY <1>6, <2>1, <2>2, PassFile
  <1>8. /\ file'.path = child /\ file'.declared = n /\ file'.written = 0 BY <1>2
  <1>9. Around(outer)' /\ Frame'.path = path BY <1>1, <1>2, <1>3 DEF Around, Frame
  <1>10. InsideFile'
    <2>1. PICK header : header = at + 2 OBVIOUS
    <2>2. /\ header \in Nat /\ header + (1 + file'.written) = Len(archive') /\ header + 1 = at + 3
      BY <1>6, <1>8, <2>1
    <2>3. Last(file'.path) = name BY <1>1, <1>8
    <2>4. Reaches(archive', Inside(header, Frame'.path, outer, Last(file'.path), log))
      BY <1>7, <1>9, <2>1, <2>3
    <2>5. archive'[header + 1] = Payload(file'.declared) /\ file'.start \in Nat
      BY <1>2, <1>6, <1>8, <2>2
    <2>6. log' = Append(log, [path |-> file'.path, dir |-> FALSE, size |-> file'.declared])
      BY <1>2, <1>8
    <2> QED BY <1>9, <2>2, <2>4, <2>5, <2>6 DEF InsideFile
  <1>11. file' # None
    <2>1. child \in DOMAIN Tree BY <1>2, AtWhich DEF ArchiveInv
    <2>2. n \in Nat BY <2>1 DEF ArchiveInv, ArchiveTypes
    <2>3. file' \in [path : DOMAIN Tree, declared : Nat, written : Nat, start : Nat]
      BY <1>2, <1>6, <2>1, <2>2
    <2> QED BY <2>3, ArchiveAssumption DEF ArchiveAssumption
  <1> QED BY <1>2, <1>10, <1>11, InsideNow

LEMMA WalkedRead ==
  ASSUME ArchiveInv, WalkedInv, ReadData
  PROVE  WalkedInv'
  <1>1. /\ result = None /\ file # None /\ Send(<<Data>>)
        /\ file' = [file EXCEPT !.written = @ + 1]
        /\ UNCHANGED <<stack, log, result>>
    BY DEF ReadData, Reading
  <1>2. /\ stack # <<>>
        /\ file = [path |-> file.path, declared |-> file.declared, written |-> file.written,
                   start |-> file.start]
        /\ file.declared \in Nat /\ file.written \in 0..file.declared /\ file.written < file.declared
        /\ file.path = Child /\ DOMAIN Frame.todo # {}
    BY <1>1 DEF ArchiveInv, FileInv, ReadData
  <1>3. /\ file'.path = file.path /\ file'.declared = file.declared
        /\ file'.written = file.written + 1 /\ file'.start = file.start
        /\ file' = [path |-> file.path, declared |-> file.declared, written |-> file.written + 1,
                    start |-> file.start]
    BY <1>1, <1>2
  <1>4. PICK outer, entries, header :
          /\ Around(outer) /\ header \in Nat /\ header + (1 + file.written) = Len(archive)
          /\ archive[header + 1] = Payload(file.declared) /\ file.start \in Nat
          /\ Reaches(archive, Inside(header, Frame.path, outer, Last(file.path), entries))
          /\ log = Append(entries, [path |-> file.path, dir |-> FALSE, size |-> file.declared])
    BY <1>1 DEF WalkedInv, InsideFile
  <1>5. PICK cells : cells = <<Data>> OBVIOUS
  <1>6. Listed(cells) /\ Len(cells) = 1
    <2>1. Data # Zero BY DEF Data, Zero
    <2> QED BY <1>5, <2>1, PlainCells DEF Plain
  <1>7. /\ Len(archive') = Len(archive) + 1 /\ Len(archive) \in Nat
        /\ \A i \in 1..Len(archive) : archive'[i] = archive[i]
        /\ \A w : Reaches(archive, w) => Reaches(archive', w)
    BY <1>1, <1>5, <1>6, Sent
  <1>8. header + 1 \in 1..Len(archive) /\ header + (1 + file'.written) = Len(archive')
    <2>1. PICK k, size, more : k = file.written /\ size = Len(archive) /\ more = Len(archive') OBVIOUS
    <2>2. k \in Nat /\ size \in Nat /\ more = size + 1 /\ header \in Nat /\ header + (1 + k) = size
      BY <1>2, <1>4, <1>7, <2>1
    <2>3. header + 1 \in 1..size /\ header + (1 + (k + 1)) = more BY <2>2
    <2> QED BY <1>3, <2>1, <2>3
  <1>9. Around(outer)' /\ Frame' = Frame BY <1>1, <1>4 DEF Around, Frame
  <1>10. InsideFile'
    <2>1. archive'[header + 1] = Payload(file'.declared) /\ file'.start \in Nat
      BY <1>3, <1>4, <1>7, <1>8
    <2>2. Reaches(archive', Inside(header, Frame'.path, outer, Last(file'.path), entries))
      BY <1>3, <1>4, <1>7, <1>9
    <2>3. log' = Append(entries, [path |-> file'.path, dir |-> FALSE, size |-> file'.declared])
      BY <1>1, <1>3, <1>4
    <2> QED BY <1>4, <1>8, <1>9, <2>1, <2>2, <2>3 DEF InsideFile
  <1>11. file' # None
    <2>1. file.path \in DOMAIN Tree BY <1>2, AtWhich DEF ArchiveInv
    <2>2. file' \in [path : DOMAIN Tree, declared : Nat, written : Nat, start : Nat]
      BY <1>2, <1>3, <1>4, <2>1
    <2> QED BY <2>2, ArchiveAssumption DEF ArchiveAssumption
  <1> QED BY <1>1, <1>2, <1>10, <1>11, InsideNow

\* The content of the file is there, or made up for: the walk is past it.
LEMMA WalkedFile ==
  ASSUME ArchiveInv, WalkedInv, result = None, file # None, NEW end, FileDone(end),
         NEW more, Listed(more), Send(more), Len(more) = file.declared - file.written
  PROVE  WalkedInv'
  <1>1. /\ stack # <<>> /\ DOMAIN Frame.todo # {} /\ file.path = Child
        /\ file.declared \in Nat /\ file.written \in 0..file.declared
    BY DEF ArchiveInv, FileInv
  <1>0. PICK f : Completes(end, f) BY AtFileDone
  <1>2. file' = None /\ UNCHANGED <<log, result>> BY <1>0 DEF Completes
  <1>3. Replaced(f) /\ NotesTo(Frame, f, Last(file.path), file.start, end) BY <1>0 DEF Completes
  <1>4. PICK outer, entries, header :
          /\ Around(outer) /\ header \in Nat /\ header + (1 + file.written) = Len(archive)
          /\ archive[header + 1] = Payload(file.declared)
          /\ Reaches(archive, Inside(header, Frame.path, outer, Last(file.path), entries))
          /\ log = Append(entries, [path |-> file.path, dir |-> FALSE, size |-> file.declared])
    BY DEF WalkedInv, InsideFile
  <1>5. PICK path, name, child, n :
          path = Frame.path /\ name = Last(file.path) /\ child = file.path /\ n = file.declared
    OBVIOUS
  <1>6. child = Append(path, name)
    <2>1. child \in DOMAIN Tree \ {<<>>} /\ Front(child) = path
      BY <1>1, <1>5, AtWhich DEF ArchiveInv
    <2> QED BY <1>5, <2>1, ParentOf
  <1>7. /\ Listed(archive') /\ Len(archive') = Len(archive) + Len(more) /\ Len(archive) \in Nat
        /\ \A i \in 1..Len(archive) : archive'[i] = archive[i]
        /\ \A w : Reaches(archive, w) => Reaches(archive', w)
    BY Sent
  <1>8. /\ header + (n + 1) = Len(archive') /\ n \in Nat /\ header + 1 \in 1..Len(archive)
    <2>1. PICK k, size, rest, all :
            k = file.written /\ size = Len(archive) /\ rest = Len(more) /\ all = Len(archive')
      OBVIOUS
    <2>2. k \in 0..n /\ n \in Nat /\ rest = n - k BY <1>1, <1>5, <2>1
    <2>3. size \in Nat /\ all = size + rest /\ header \in Nat /\ header + (1 + k) = size
      BY <1>4, <1>7, <2>1
    <2>4. header + (n + 1) = all /\ header + 1 \in 1..size BY <2>2, <2>3
    <2> QED BY <2>1, <2>2, <2>4
  <1>9. Reaches(archive', Between(header + (n + 1), path, outer, None, log))
    <2>1. archive'[header + 1] = Payload(n) /\ header + (n + 1) <= Len(archive')
      BY <1>4, <1>5, <1>7, <1>8
    <2>2. Reaches(archive', Inside(header, path, outer, name, entries)) BY <1>4, <1>5, <1>7
    <2>3. Reaches(archive', Between(header + (n + 1), path, outer, None,
                                    Append(entries, [path |-> child, dir |-> FALSE, size |-> n])))
      BY <1>4, <1>6, <1>7, <1>8, <2>1, <2>2, PassPayload
    <2> QED BY <1>4, <1>5, <2>3
  <1>10. Around(outer)' /\ Frame'.path = path
    BY <1>1, <1>3, <1>4, <1>5, AroundStays DEF NotesTo
  <1>11. BetweenEntries' BY <1>2, <1>8, <1>9, <1>10 DEF BetweenEntries
  <1>12. stack' # <<>> BY <1>3 DEF Replaced
  <1> QED BY <1>2, <1>11, <1>12, BetweenNow

LEMMA WalkedDone ==
  ASSUME ArchiveInv, WalkedInv, Pad \/ Probe
  PROVE  WalkedInv'
  <1>1. /\ result = None /\ file # None /\ \E end : FileDone(end)
    BY DEF Pad, Probe, Reading
  <1>2. file.declared \in Nat /\ file.written \in 0..file.declared
    BY <1>1 DEF ArchiveInv, FileInv
  <1>3. CASE Pad
    <2>1. PICK k : k = file.declared - file.written OBVIOUS
    <2>2. k \in Nat BY <1>2, <2>1
    <2>3. PICK s : s = Cells(Zero, k) OBVIOUS
    <2>4. s \in Seq({Zero}) /\ Len(s) = k BY <2>2, <2>3 DEF Cells
    <2>5. Listed(s) BY <2>4, IsListed
    <2>6. Send(s) BY <1>3, <2>1, <2>3 DEF Pad
    <2> QED BY <1>1, <2>1, <2>4, <2>5, <2>6, WalkedFile
  <1>4. CASE Probe
    <2>1. PICK s : s = <<>> OBVIOUS
    <2>2. Listed(s) /\ Len(s) = 0 BY <2>1, EmptySeq DEF Listed
    <2>3. Len(s) = file.declared - file.written BY <1>2, <1>4, <2>2 DEF Probe
    <2>4. Send(s)
      <3>1. archive \in Seq(ToSet(archive)) BY DEF ArchiveInv, CellsInv, Listed
      <3>2. archive \o s = archive BY <2>1, <3>1, ConcatEmptySeq
      <3>3. archive' = archive BY <1>4 DEF Probe
      <3> QED BY <3>2, <3>3 DEF Send
    <2> QED BY <1>1, <2>2, <2>3, <2>4, WalkedFile
  <1> QED BY <1>3, <1>4

LEMMA Joined ==
  ASSUME NEW s, NEW t, Listed(s), Listed(t)
  PROVE  /\ Listed(s \o t) /\ Len(s \o t) = Len(s) + Len(t) /\ Len(s) \in Nat /\ Len(t) \in Nat
         /\ \A i \in 1..Len(s) : (s \o t)[i] = s[i]
         /\ \A i \in 1..Len(t) : (s \o t)[Len(s) + i] = t[i]
  <1>0. PICK u : u = s \o t OBVIOUS
  <1> DEFINE S == ToSet(s) \cup ToSet(t)
  <1>1. s \in Seq(S) /\ t \in Seq(S) BY DEF Listed
  <1> HIDE DEF S
  <1>2. /\ Len(u) = Len(s) + Len(t) /\ Len(s) \in Nat /\ Len(t) \in Nat
        /\ \A i \in 1..Len(s) + Len(t) : u[i] = IF i <= Len(s) THEN s[i] ELSE t[i - Len(s)]
    BY <1>0, <1>1, ConcatProperties
  <1>3. \A i \in 1..Len(s) : i \in 1..Len(s) + Len(t) /\ i <= Len(s) BY <1>2
  <1>4. \A i \in 1..Len(t) : /\ Len(s) + i \in 1..Len(s) + Len(t) /\ ~(Len(s) + i <= Len(s))
                             /\ Len(s) + i - Len(s) = i
    BY <1>2
  <1>5. Listed(u) BY <1>0, ListedConcat
  <1> QED BY <1>0, <1>2, <1>3, <1>4, <1>5

\* A sequence of one element.
LEMMA Single ==
  ASSUME NEW x, NEW s, s = <<x>>
  PROVE  Listed(s) /\ Len(s) = 1 /\ s[1] = x
  <1>1. s \in Seq({x}) /\ Len(s) = 1 /\ s[1] = x OBVIOUS
  <1> QED BY <1>1, IsListed

LEMMA FunctionListed ==
  ASSUME NEW n \in Nat, NEW s, s = [i \in 1..n |-> s[i]]
  PROVE  Listed(s) /\ Len(s) = n
  <1>1. s \in [1..n -> ToSet(s)] BY DEF ToSet
  <1> QED BY <1>1 DEF Listed

RelativeTo(item, here) ==
  [t |-> "item", hash |-> item.hash, offset |-> here - item.start, len |-> item.len]
Sorted(items) == MakeBst(ByHash(items))

LEMMA GoodbyeIs ==
  ASSUME NEW items, Listed(items), NEW dirStart
  PROVE  LET n     == Len(items)
             cells == GoodbyeTable(items, dirStart)
         IN  /\ Listed(cells) /\ Len(cells) = n + 2 /\ n \in Nat /\ cells[1] = Goodbye(n)
             /\ cells[n + 2] = [t |-> "tail", offset |-> Len(archive) - dirStart, len |-> n + 2]
             /\ \A i \in 1..n : cells[i + 1] = RelativeTo(Sorted(items)[i], Len(archive))
  <1>1. PICK n, cells, list, tail, head :
          /\ n = Len(items) /\ cells = GoodbyeTable(items, dirStart)
          /\ list = [i \in 1..n |-> RelativeTo(Sorted(items)[i], Len(archive))]
          /\ tail = [t |-> "tail", offset |-> Len(archive) - dirStart, len |-> n + 2]
          /\ head = Goodbye(n)
    OBVIOUS
  <1>2. PICK h, t : h = <<head>> /\ t = <<tail>> OBVIOUS
  <1>5a. PICK front : front = h \o list OBVIOUS
  <1>3. cells = front \o t BY <1>1, <1>2, <1>5a DEF GoodbyeTable, RelativeTo, Sorted
  <1>4. n \in Nat BY <1>1, ListedHas
  <1>5. /\ Listed(list) /\ Len(list) = n
        /\ \A i \in 1..n : list[i] = RelativeTo(Sorted(items)[i], Len(archive))
    BY <1>1, <1>4, FunctionListed
  <1>6. Listed(h) /\ Len(h) = 1 /\ h[1] = head BY <1>2, Single
  <1>7. Listed(t) /\ Len(t) = 1 /\ t[1] = tail BY <1>2, Single
  <1>8. /\ Listed(front) /\ Len(front) = 1 + n /\ front[1] = head
        /\ \A i \in 1..n : front[1 + i] = list[i]
    <2>1. /\ Listed(front) /\ Len(front) = Len(h) + Len(list)
          /\ \A i \in 1..Len(h) : front[i] = h[i]
          /\ \A i \in 1..Len(list) : front[Len(h) + i] = list[i]
      <3>1. Listed(h) /\ Listed(list) BY <1>5, <1>6
      <3> QED BY ONLY <1>5a, <3>1, Joined
    <2>2. 1 \in 1..1 OBVIOUS
    <2> QED BY <1>5, <1>6, <2>1, <2>2
  <1>9. /\ Listed(cells) /\ Len(cells) = 1 + n + 1 /\ cells[1 + n + 1] = tail
        /\ \A i \in 1..1 + n : cells[i] = front[i]
    <2>1. /\ Listed(cells) /\ Len(cells) = Len(front) + Len(t)
          /\ \A i \in 1..Len(front) : cells[i] = front[i]
          /\ \A i \in 1..Len(t) : cells[Len(front) + i] = t[i]
      <3>1. Listed(front) /\ Listed(t) BY <1>7, <1>8
      <3> QED BY ONLY <1>3, <3>1, Joined
    <2>2. 1 \in 1..1 OBVIOUS
    <2> QED BY <1>7, <1>8, <2>1, <2>2
  <1>10. /\ 1 + n + 1 = n + 2 /\ 1 \in 1..1 + n /\ \A i \in 1..n : i + 1 = 1 + i /\ 1 + i \in 1..1 + n
    BY <1>4
  <1>11. \A i \in 1..n : cells[i + 1] = RelativeTo(Sorted(items)[i], Len(archive))
    BY <1>5, <1>8, <1>9, <1>10
  <1>12. Len(cells) = n + 2 /\ cells[1] = head /\ cells[n + 2] = tail BY <1>8, <1>9, <1>10
  <1> QED BY <1>1, <1>4, <1>9, <1>11, <1>12

LEMMA WalkedClose ==
  ASSUME ArchiveInv, WalkedInv, CloseDir
  PROVE  WalkedInv'
  <1>1. /\ result = None /\ stack # <<>> /\ file = None /\ UNCHANGED <<file, log>>
        /\ Send(GoodbyeTable(Frame.items, Frame.dirStart))
    BY DEF CloseDir, Walking
  <1>2. /\ Len(stack) \in Nat /\ Len(stack) > 0 /\ Frame = stack[Len(stack)] /\ FrameOk(Frame, Len(log))
    BY <1>1, AtWhich DEF ArchiveInv
  <1>3. PICK outer, name :
          Around(outer) /\ Reaches(archive, Between(Len(archive), Frame.path, outer, name, log))
    BY <1>1 DEF WalkedInv, BetweenEntries
  <1>4. PICK n, cells, at, path :
          /\ n = Len(Frame.items) /\ cells = GoodbyeTable(Frame.items, Frame.dirStart)
          /\ at = Len(archive) /\ path = Frame.path
    OBVIOUS
  <1>5. Listed(cells) /\ Len(cells) = n + 2 /\ n \in Nat /\ cells[1] = Goodbye(n)
    BY <1>2, <1>4, GoodbyeIs DEF FrameOk
  <1>6. /\ Listed(archive') /\ Len(archive') = at + (n + 2) /\ at \in Nat
        /\ archive'[at + 1] = Goodbye(n)
        /\ \A w : Reaches(archive, w) => Reaches(archive', w)
    <2>1. 1 \in 1..Len(cells) BY <1>5
    <2> QED BY <1>1, <1>4, <1>5, <2>1, Sent
  <1>7. Reaches(archive', Between(at, path, outer, name, log)) BY <1>3, <1>4, <1>6
  <1>8. /\ outer = <<>> => Reaches(archive', Between(at + (n + 2), path, outer, name, log))
        /\ outer # <<>> => Reaches(archive', Between(at + (n + 2), Last(outer), Front(outer), name, log))
    <2>1. at + (n + 2) <= Len(archive') BY <1>5, <1>6
    <2> QED BY <1>5, <1>6, <1>7, <2>1, PassGoodbye
  <1>9. outer # <<>> <=> Len(stack) # 1
    <2>1. Listed(outer) /\ Len(outer) = Len(stack) - 1 BY <1>3 DEF Around
    <2>2. outer # <<>> <=> Len(outer) > 0 BY <2>1, ListedHas
    <2> QED BY <1>2, <2>1, <2>2
  <1>10. CASE Len(stack) = 1
    <2>1. result' = "done" BY <1>10 DEF CloseDir
    <2>2. AtTheEnd' BY <1>1, <1>6, <1>8, <1>9, <1>10 DEF AtTheEnd
    <2>3. result' # None BY <2>1, ArchiveAssumption DEF ArchiveAssumption
    <2> QED BY <2>2, <2>3 DEF WalkedInv
  <1>11. CASE Len(stack) # 1
    <2>1. PICK m, around, f : around = stack[m] /\ DirLeft(m, around, f) BY <1>11, AtCloseDir
    <2>2. /\ m \in Nat /\ m \in 1..m /\ Len(stack) = m + 1 /\ Len(stack') = m /\ stack' # <<>>
          /\ stack'[m] = f /\ f.path = stack[m].path
          /\ \A i \in 1..m : i # m => stack'[i] = stack[i]
      BY <2>1 DEF DirLeft, Left, NotesTo
    <2>3. PICK less : less = Front(outer) OBVIOUS
    <2>4. Listed(outer) /\ Len(outer) = m /\ \A i \in 1..m : outer[i] = stack[i].path
      BY <1>3, <2>2 DEF Around
    <2>5. Listed(less) /\ Len(less) = m - 1 /\ \A i \in 1..m - 1 : less[i] = outer[i]
      BY <1>9, <1>11, <2>3, <2>4, ListedFront
    <2>6. Last(outer) = Frame'.path BY <2>2, <2>4 DEF Frame, Last
    <2>7. Around(less)'
      <3>1. \A i \in 1..m - 1 : i \in 1..m /\ i # m BY <2>2
      <3>2. \A i \in 1..m - 1 : less[i] = stack'[i].path BY <2>2, <2>4, <2>5, <3>1
      <3> QED BY <2>2, <2>5, <3>2 DEF Around
    <2>8. BetweenEntries' BY <1>1, <1>6, <1>8, <1>9, <1>11, <2>3, <2>6, <2>7 DEF BetweenEntries
    <2>9. result' = None BY <1>1, <1>11 DEF CloseDir
    <2> QED BY <1>1, <2>2, <2>8, <2>9, BetweenNow
  <1> QED BY <1>10, <1>11

LEMMA WalkedMoves ==
  ASSUME ArchiveInv, RootInv, WalkedInv, [Next]_vars
  PROVE  WalkedInv'
  <1>1. CASE WriteRoot /\ fs[<<>>].kind = "dir" BY <1>1, WalkedRoot
  <1>2. CASE WriteVirtualFile BY <1>2, WalkedVirtual
  <1>3. CASE Exclude \/ SkipSystem \/ SkipLink \/ ReadError BY <1>3, WalkedPassOver
  <1>4. CASE OpenFile
    <2>1. PICK child, n : child = Child /\ n = fs[child].size OBVIOUS
    <2> QED BY <1>4, <2>1, WalkedOpen
  <1> QED BY <1>1, <1>2, <1>3, <1>4, WalkedIdle, WalkedEnter, WalkedRead, WalkedDone, WalkedClose,
             IdleSteps

LEMMA WalkedInvariant == Spec => [](ArchiveInv /\ RootInv /\ WalkedInv)
  <1>1. Init => ArchiveInv /\ RootInv /\ WalkedInv BY ArchiveStart, RootStart, WalkedStart
  <1>2. ArchiveInv /\ RootInv /\ WalkedInv /\ [Next]_vars => (ArchiveInv /\ RootInv /\ WalkedInv)'
    BY ArchiveMoves, RootMovesOn, WalkedMoves
  <1> QED BY <1>1, <1>2, PTL DEF Spec

\* The walk of a finished archive finds the entries in the order they were written.
LEMMA WalkFinds ==
  ASSUME ArchiveInv, WalkedInv, result = "done"
  PROVE  ListEntries(archive).ok /\ ListEntries(archive).entries = log
  <1>1. PICK path, outer, name : Reaches(archive, Between(Len(archive), path, outer, name, log))
    BY DEF WalkedInv, AtTheEnd
  <1>2. PICK w : w = Between(Len(archive), path, outer, name, log) OBVIOUS
  <1>3. IsWalk(w) /\ w.ok /\ w.off = Len(archive) BY <1>2, BetweenIs
  <1>4. w.entries = log BY <1>2 DEF Between
  <1>5. ListEntries(archive) = w BY <1>1, <1>2, <1>3, WalkIs DEF ArchiveInv, CellsInv
  <1> QED BY <1>3, <1>4, <1>5

(***************************************************************************)
(*                         The tables of a catalog                         *)
(***************************************************************************)

\* What a row of a table at an offset lists, when the tables list what g says.
OfRow(data, g, at, row) ==
  IF row.t = "f" THEN {[path |-> <<row.name>>, dir |-> FALSE, size |-> row.size]}
  ELSE IF row.delta <= 0 \/ at - row.delta \notin CatalogTables(data) THEN {Broken}
  ELSE {[path |-> <<row.name>>, dir |-> TRUE, size |-> 0]}
         \cup Below(row.name, g[at - row.delta])

Listing(data, g, at) == UNION {OfRow(data, g, at, row) : row \in Rows(data, at)}
Solved(data, g) == g = [at \in CatalogTables(data) |-> Listing(data, g, at)]

\* The rows of a table are there, and lead to tables before it.
RowOk(data, at, row) ==
  row.t # "f" => row.delta \in Nat /\ row.delta > 0 /\ at - row.delta \in CatalogTables(data)
Tabled(data) ==
  /\ Listed(data)
  /\ \A at \in CatalogTables(data) :
       /\ data[at + 1].len \in Nat /\ at + 1 + data[at + 1].len <= Len(data)
       /\ \A row \in Rows(data, at) : RowOk(data, at, row)

LEMMA TablesAre ==
  ASSUME NEW data, Listed(data)
  PROVE  /\ CatalogTables(data) \subseteq Nat
         /\ \A at \in CatalogTables(data) : at + 1 \in 1..Len(data) /\ data[at + 1].t = "table"
         /\ \A at \in Nat : at + 1 \in 1..Len(data) /\ data[at + 1].t = "table" => at \in CatalogTables(data)
  <1>1. Len(data) \in Nat BY ListedHas
  <1> QED BY <1>1 DEF CatalogTables

LEMMA SameRows ==
  ASSUME NEW data, NEW other, NEW g, NEW h, NEW at, NEW where,
         Rows(other, where) = Rows(data, at),
         \A row \in Rows(data, at) : OfRow(other, h, where, row) = OfRow(data, g, at, row)
  PROVE  Listing(other, h, where) = Listing(data, g, at)
  <1> DEFINE R == Rows(data, at)
             A(row) == OfRow(other, h, where, row)
             B(row) == OfRow(data, g, at, row)
  <1>1. \A row \in R : A(row) = B(row) OBVIOUS
  <1> HIDE DEF A, B, R
  <1>2. {A(row) : row \in R} = {B(row) : row \in R} BY <1>1
  <1>3. UNION {A(row) : row \in R} = UNION {B(row) : row \in R} BY <1>2
  <1> QED BY <1>3 DEF Listing, A, B, R

\* Offsets lead backwards, so what the tables list is determined.
LEMMA OneSolution ==
  ASSUME NEW data, Tabled(data), NEW g, NEW h, Solved(data, g), Solved(data, h)
  PROVE  g = h
  <1> DEFINE T == CatalogTables(data)
             S == {at \in T : g[at] # h[at]}
  <1>1. T \subseteq Nat BY TablesAre DEF Tabled
  <1>2. g = [at \in T |-> g[at]] /\ h = [at \in T |-> h[at]] BY DEF Solved
  <1>3. ASSUME S # {} PROVE FALSE
    <2>1. S \in SUBSET Nat BY <1>1
    <2>2. PICK at : at \in S /\ \A b \in S : at <= b
      <3> HIDE DEF S
      <3> QED BY <1>3, <2>1, LeastIsIn
    <2>3. at \in T /\ g[at] # h[at] /\ at \in Nat BY <1>1, <2>2
    <2>4. \A row \in Rows(data, at) : OfRow(data, h, at, row) = OfRow(data, g, at, row)
      <3> TAKE row \in Rows(data, at)
      <3>1. CASE row.t = "f" BY <3>1 DEF OfRow
      <3>2. CASE row.t # "f"
        <4>1. row.delta \in Nat /\ row.delta > 0 /\ at - row.delta \in T
          BY <2>3, <3>2 DEF Tabled, RowOk
        <4>2. at - row.delta \notin S BY <2>2, <2>3, <4>1
        <4>3. g[at - row.delta] = h[at - row.delta] BY <4>1, <4>2
        <4> QED BY <4>3 DEF OfRow
      <3> QED BY <3>1, <3>2
    <2>5. Listing(data, h, at) = Listing(data, g, at) BY <2>4, SameRows
    <2>6. g[at] = Listing(data, g, at) /\ h[at] = Listing(data, h, at) BY <2>3 DEF Solved
    <2> QED BY <2>3, <2>5, <2>6
  <1> QED BY <1>2, <1>3

LEMMA CatalogIs ==
  ASSUME NEW data, Tabled(data), NEW g, Solved(data, g)
  PROVE  ParseCatalog(data) = g[Last(data).to - data[Last(data).to + 2].delta]
  <1> DEFINE w == CHOOSE x : x = [at \in CatalogTables(data) |-> Listing(data, x, at)]
  <1>1. ParseCatalog(data) = w[Last(data).to - data[Last(data).to + 2].delta]
    BY DEF ParseCatalog, Listing, OfRow
  <1>2. \E x : x = [at \in CatalogTables(data) |-> Listing(data, x, at)] BY DEF Solved
  <1>3. w = [at \in CatalogTables(data) |-> Listing(data, w, at)] BY <1>2
  <1> HIDE DEF w
  <1>4. w = g BY <1>3, OneSolution DEF Solved
  <1> QED BY <1>1, <1>4

\* What a table with the rows of these directories and files lists.
DirCalled(path) == [path |-> path, dir |-> TRUE, size |-> 0]
FileCalled(path, size) == [path |-> path, dir |-> FALSE, size |-> size]
OfDir(x, g) == {DirCalled(<<x.name>>)} \cup Below(x.name, g[x.pos])
OfFile(x) == {FileCalled(<<x.name>>, x.size)}

OfDirs(dirs, g) == UNION {OfDir(dirs[j], g) : j \in 1..Len(dirs)}
OfFiles(files) == UNION {OfFile(files[j]) : j \in 1..Len(files)}
Contents(dirs, files, g) == OfDirs(dirs, g) \cup OfFiles(files)

LEMMA ContentsStay ==
  ASSUME NEW dirs, NEW files, NEW g, NEW h, \A j \in 1..Len(dirs) : h[dirs[j].pos] = g[dirs[j].pos]
  PROVE  Contents(dirs, files, h) = Contents(dirs, files, g)
  <1>1. \A j \in 1..Len(dirs) : OfDir(dirs[j], h) = OfDir(dirs[j], g) BY DEF OfDir
  <1>2. {OfDir(dirs[j], h) : j \in 1..Len(dirs)} = {OfDir(dirs[j], g) : j \in 1..Len(dirs)} BY <1>1
  <1>3. OfDirs(dirs, h) = OfDirs(dirs, g) BY <1>2 DEF OfDirs
  <1> QED BY <1>3 DEF Contents

\* The first set has what the others have.
Unites(whole, part, rest) == whole = part \cup rest

LEMMA ContentsDir ==
  ASSUME NEW dirs, Listed(dirs), NEW files, NEW g, NEW x, NEW more, more = Append(dirs, x)
  PROVE  Unites(Contents(more, files, g), Contents(dirs, files, g), OfDir(x, g))
  <1>1. /\ Len(dirs) \in Nat /\ Len(more) = Len(dirs) + 1 /\ more[Len(dirs) + 1] = x
        /\ \A j \in 1..Len(dirs) : more[j] = dirs[j]
    BY ListedHas, ListedAppend
  <1> DEFINE D == UNION {OfDir(dirs[j], g) : j \in 1..Len(dirs)}
             M == UNION {OfDir(more[j], g) : j \in 1..Len(more)}
  <1>2. M = D \cup OfDir(x, g)
    <2>1. \A j \in 1..Len(more) : j \in 1..Len(dirs) \/ j = Len(dirs) + 1 BY <1>1
    <2>2. \A j \in 1..Len(dirs) : j \in 1..Len(more) BY <1>1
    <2>3. Len(dirs) + 1 \in 1..Len(more) BY <1>1
    <2>4. ASSUME NEW e \in M PROVE e \in D \cup OfDir(x, g) BY <1>1, <2>1, <2>4
    <2>5. ASSUME NEW e \in D PROVE e \in M BY <1>1, <2>2, <2>5
    <2>6. OfDir(x, g) \subseteq M BY <1>1, <2>3
    <2> QED BY <2>4, <2>5, <2>6
  <1>3. OfDirs(more, g) = OfDirs(dirs, g) \cup OfDir(x, g) BY <1>2 DEF OfDirs
  <1> QED BY <1>3 DEF Contents, Unites

LEMMA ContentsFile ==
  ASSUME NEW dirs, NEW files, Listed(files), NEW g, NEW x, NEW more, more = Append(files, x)
  PROVE  Unites(Contents(dirs, more, g), Contents(dirs, files, g), OfFile(x))
  <1>1. /\ Len(files) \in Nat /\ Len(more) = Len(files) + 1 /\ more[Len(files) + 1] = x
        /\ \A j \in 1..Len(files) : more[j] = files[j]
    BY ListedHas, ListedAppend
  <1> DEFINE D == UNION {OfFile(files[j]) : j \in 1..Len(files)}
             M == UNION {OfFile(more[j]) : j \in 1..Len(more)}
  <1>2. M = D \cup OfFile(x)
    <2>1. \A j \in 1..Len(more) : j \in 1..Len(files) \/ j = Len(files) + 1 BY <1>1
    <2>2. \A j \in 1..Len(files) : j \in 1..Len(more) BY <1>1
    <2>3. Len(files) + 1 \in 1..Len(more) BY <1>1
    <2>4. ASSUME NEW e \in M PROVE e \in D \cup OfFile(x) BY <1>1, <2>1, <2>4
    <2>5. ASSUME NEW e \in D PROVE e \in M BY <1>1, <2>2, <2>5
    <2>6. OfFile(x) \subseteq M BY <1>1, <2>3
    <2> QED BY <2>4, <2>5, <2>6
  <1>3. OfFiles(more) = OfFiles(files) \cup OfFile(x) BY <1>2 DEF OfFiles
  <1> QED BY <1>3 DEF Contents, Unites

\* The cells of a table.
IsTable(cells, dirs, files, at) ==
  /\ Listed(cells) /\ Len(dirs) \in Nat /\ Len(files) \in Nat
  /\ Len(cells) = 1 + Len(dirs) + Len(files)
  /\ cells[1] = [t |-> "table", len |-> Len(dirs) + Len(files)]
  /\ \A j \in 1..Len(dirs) :
       cells[1 + j] = [t |-> "d", name |-> dirs[j].name, delta |-> at - dirs[j].pos]
  /\ \A j \in 1..Len(files) :
       cells[1 + Len(dirs) + j] = [t |-> "f", name |-> files[j].name, size |-> files[j].size]

LEMMA TableIs ==
  ASSUME NEW dirs, Listed(dirs), NEW files, Listed(files), NEW at
  PROVE  IsTable(Table(dirs, files, at), dirs, files, at)
  <1>0. PICK cells : cells = Table(dirs, files, at) OBVIOUS
  <1> DEFINE head == [t |-> "table", len |-> Len(dirs) + Len(files)]
  <1>1. PICK a : a = <<head>> OBVIOUS
  <1>2. PICK b : b = [i \in DOMAIN dirs |-> [t |-> "d", name |-> dirs[i].name, delta |-> at - dirs[i].pos]]
    OBVIOUS
  <1>3. PICK c : c = [i \in DOMAIN files |-> [t |-> "f", name |-> files[i].name, size |-> files[i].size]]
    OBVIOUS
  <1>4. cells = (a \o b) \o c BY <1>0, <1>1, <1>2, <1>3 DEF Table
  <1>5. Listed(a) /\ Len(a) = 1 /\ a[1] = head BY <1>1, Single
  <1>6. Len(dirs) \in Nat /\ DOMAIN dirs = 1..Len(dirs) BY ListedHas
  <1>7. Len(files) \in Nat /\ DOMAIN files = 1..Len(files) BY ListedHas
  <1>8. Listed(b) /\ Len(b) = Len(dirs)
    <2>1. b = [i \in 1..Len(dirs) |-> b[i]] BY <1>2, <1>6
    <2> QED BY ONLY <1>6, <2>1, FunctionListed
  <1>9. Listed(c) /\ Len(c) = Len(files)
    <2>1. c = [i \in 1..Len(files) |-> c[i]] BY <1>3, <1>7
    <2> QED BY ONLY <1>7, <2>1, FunctionListed
  <1>10. PICK ab : ab = a \o b OBVIOUS
  <1>11. /\ Listed(ab) /\ Len(ab) = 1 + Len(dirs) /\ ab[1] = head
         /\ \A i \in 1..Len(dirs) : ab[1 + i] = b[i]
    <2>0. Listed(a) /\ Listed(b) BY <1>5, <1>8
    <2>1. /\ Listed(ab) /\ Len(ab) = Len(a) + Len(b)
          /\ \A i \in 1..Len(a) : ab[i] = a[i]
          /\ \A i \in 1..Len(b) : ab[Len(a) + i] = b[i]
      BY ONLY <2>0, <1>10, Joined
    <2>2. 1 \in 1..Len(a) BY <1>5
    <2> HIDE DEF head
    <2> QED BY ONLY <1>5, <1>8, <2>1, <2>2
  <1>12. /\ Listed(cells) /\ Len(cells) = Len(ab) + Len(c)
         /\ \A i \in 1..Len(ab) : cells[i] = ab[i]
         /\ \A i \in 1..Len(c) : cells[Len(ab) + i] = c[i]
    <2>1. Listed(ab) /\ Listed(c) BY <1>9, <1>11
    <2>2. cells = ab \o c BY <1>4, <1>10
    <2> QED BY ONLY <2>1, <2>2, Joined
  <1>13. cells[1] = head
    <2>1. 1 \in 1..Len(ab) BY <1>6, <1>11
    <2> HIDE DEF head
    <2> QED BY ONLY <1>11, <1>12, <2>1
  <1>14. ASSUME NEW j \in 1..Len(dirs)
         PROVE cells[1 + j] = [t |-> "d", name |-> dirs[j].name, delta |-> at - dirs[j].pos]
    <2>1. 1 + j \in 1..Len(ab) BY <1>6, <1>11
    <2>2. cells[1 + j] = b[j] BY ONLY <1>11, <1>12, <1>14, <2>1
    <2> QED BY <1>2, <1>6, <2>2
  <1>15. ASSUME NEW j \in 1..Len(files)
         PROVE cells[1 + Len(dirs) + j] = [t |-> "f", name |-> files[j].name, size |-> files[j].size]
    <2>1. cells[1 + Len(dirs) + j] = c[j] BY ONLY <1>9, <1>11, <1>12, <1>15
    <2> QED BY <1>3, <1>7, <2>1
  <1>16. Len(cells) = 1 + Len(dirs) + Len(files) BY <1>9, <1>11, <1>12
  <1>17. IsTable(cells, dirs, files, at) BY <1>6, <1>7, <1>12, <1>13, <1>14, <1>15, <1>16 DEF IsTable
  <1> QED BY <1>0, <1>17

\* The rows of a table stay where they are.
Prolongs(data, new) ==
  Len(new) \in Nat /\ Len(new) >= Len(data) /\ \A i \in 1..Len(data) : new[i] = data[i]

LEMMA RowsStay ==
  ASSUME NEW data, NEW new, Tabled(data), Prolongs(data, new), NEW at \in CatalogTables(data)
  PROVE  /\ at \in CatalogTables(new) /\ Rows(new, at) = Rows(data, at)
         /\ new[at + 1] = data[at + 1]
  <1>1. Listed(data) BY DEF Tabled
  <1>2. at \in Nat /\ at + 1 \in 1..Len(data) /\ data[at + 1].t = "table" BY <1>1, TablesAre
  <1>3. data[at + 1].len \in Nat /\ at + 1 + data[at + 1].len <= Len(data) BY DEF Tabled
  <1> USE DEF Prolongs
  <1>4. Len(data) \in Nat BY <1>1, ListedHas
  <1>5. new[at + 1] = data[at + 1] BY <1>2
  <1>6. at \in 0..Len(new) - 1 BY <1>2, <1>4
  <1>7. at \in CatalogTables(new) BY <1>2, <1>5, <1>6 DEF CatalogTables
  <1>8. \A i \in 1..data[at + 1].len : new[at + 1 + i] = data[at + 1 + i]
    <2> TAKE i \in 1..data[at + 1].len
    <2>1. at + 1 + i \in 1..Len(data) BY <1>2, <1>3, <1>4
    <2> QED BY <2>1
  <1>9. Rows(new, at) = Rows(data, at) BY <1>5, <1>8 DEF Rows
  <1> QED BY <1>5, <1>7, <1>9

\* A table that stays lists the same.
LEMMA ListingStays ==
  ASSUME NEW data, NEW new, Tabled(data), Prolongs(data, new), NEW at \in CatalogTables(data),
         NEW g, NEW h, \A a \in CatalogTables(data) : h[a] = g[a]
  PROVE  /\ Listing(new, h, at) = Listing(data, g, at)
         /\ \A row \in Rows(new, at) : RowOk(new, at, row)
  <1>1. Rows(new, at) = Rows(data, at) BY RowsStay
  <1>2. \A a \in CatalogTables(data) : a \in CatalogTables(new) BY RowsStay
  <1>3. ASSUME NEW row \in Rows(data, at)
        PROVE OfRow(new, h, at, row) = OfRow(data, g, at, row) /\ RowOk(new, at, row)
    <2>1. RowOk(data, at, row) BY <1>3 DEF Tabled
    <2>2. CASE row.t = "f" BY <2>2 DEF OfRow, RowOk
    <2>3. CASE row.t # "f"
      <3>1. row.delta \in Nat /\ row.delta > 0 /\ at - row.delta \in CatalogTables(data)
        BY <2>1, <2>3 DEF RowOk
      <3>2. at - row.delta \in CatalogTables(new) BY <1>2, <3>1
      <3>3. h[at - row.delta] = g[at - row.delta] BY <3>1
      <3> QED BY <2>3, <3>1, <3>2, <3>3 DEF OfRow, RowOk
    <2> QED BY <2>2, <2>3
  <1>4. Listing(new, h, at) = Listing(data, g, at) BY ONLY <1>1, <1>3, SameRows
  <1> QED BY <1>1, <1>3, <1>4

\* A cell that begins no table changes nothing.
LEMMA Untabled ==
  ASSUME NEW data, Tabled(data), NEW g, Solved(data, g), NEW cell, cell.t # "table",
         NEW new, new = Append(data, cell)
  PROVE  Tabled(new) /\ CatalogTables(new) = CatalogTables(data) /\ Solved(new, g)
  <1>1. Listed(data) BY DEF Tabled
  <1>2. /\ Listed(new) /\ Len(data) \in Nat /\ Len(new) = Len(data) + 1 /\ new[Len(data) + 1] = cell
        /\ \A i \in 1..Len(data) : new[i] = data[i]
    BY <1>1, ListedHas, ListedAppend
  <1>0. Prolongs(data, new) BY <1>2 DEF Prolongs
  <1>3. \A a \in CatalogTables(data) :
          a \in CatalogTables(new) /\ new[a + 1] = data[a + 1] /\ Rows(new, a) = Rows(data, a)
    BY <1>0, RowsStay
  <1>4. ASSUME NEW a \in CatalogTables(new) PROVE a \in CatalogTables(data)
    <2>1. a \in Nat /\ a + 1 \in 1..Len(new) /\ new[a + 1].t = "table" BY <1>2, <1>4, TablesAre
    <2>2. a + 1 # Len(data) + 1 BY <1>2, <2>1
    <2>3. a + 1 \in 1..Len(data) BY <1>2, <2>1, <2>2
    <2>4. data[a + 1].t = "table" BY <1>2, <2>1, <2>3
    <2> QED BY <1>1, <2>1, <2>3, <2>4, TablesAre
  <1>5. CatalogTables(new) = CatalogTables(data) BY <1>3, <1>4
  <1>6. \A a \in CatalogTables(data) :
          /\ Listing(new, g, a) = Listing(data, g, a)
          /\ \A row \in Rows(new, a) : RowOk(new, a, row)
    BY <1>0, ListingStays
  <1>7. Tabled(new)
    <2>1. \A a \in CatalogTables(data) : new[a + 1].len \in Nat /\ a + 1 + new[a + 1].len <= Len(new)
      <3> TAKE a \in CatalogTables(data)
      <3>1. data[a + 1].len \in Nat /\ a + 1 + data[a + 1].len <= Len(data) BY DEF Tabled
      <3>2. a \in Nat BY <1>1, TablesAre
      <3> QED BY <1>2, <1>3, <3>1, <3>2
    <2> QED BY <1>2, <1>5, <1>6, <2>1 DEF Tabled
  <1>8. Solved(new, g)
    <2>1. \A a \in CatalogTables(data) : Listing(new, g, a) = Listing(data, g, a) BY <1>6
    <2>2. g = [a \in CatalogTables(data) |-> Listing(data, g, a)] BY DEF Solved
    <2>3. [a \in CatalogTables(data) |-> Listing(data, g, a)] =
            [a \in CatalogTables(data) |-> Listing(new, g, a)]
      BY <2>1
    <2>4. g = [a \in CatalogTables(new) |-> Listing(new, g, a)] BY <1>5, <2>2, <2>3
    <2> QED BY <2>4 DEF Solved
  <1> QED BY <1>5, <1>7, <1>8

\* A table at an offset lists what its directories and files say.
TableAt(new, at, dirs, files, cells) ==
  /\ Listed(dirs) /\ Listed(files) /\ at \in Nat /\ cells = Table(dirs, files, at)
  /\ \A i \in 1..Len(cells) : new[at + i] = cells[i]
  /\ \A j \in 1..Len(dirs) : dirs[j].pos \in CatalogTables(new) /\ dirs[j].pos \in 0..at - 1

LEMMA TableLists ==
  ASSUME NEW new, NEW at, NEW dirs, NEW files, NEW cells, TableAt(new, at, dirs, files, cells), NEW g
  PROVE  /\ Listing(new, g, at) = Contents(dirs, files, g)
         /\ \A row \in Rows(new, at) : RowOk(new, at, row)
  <1> DEFINE d == Len(dirs)
             n == Len(files)
             dirRow(j) == [t |-> "d", name |-> dirs[j].name, delta |-> at - dirs[j].pos]
             fileRow(j) == [t |-> "f", name |-> files[j].name, size |-> files[j].size]
  <1> USE DEF TableAt
  <1>0. IsTable(cells, dirs, files, at) BY TableIs
  <1>1. /\ d \in Nat /\ n \in Nat /\ Len(cells) = 1 + d + n
        /\ cells[1] = [t |-> "table", len |-> d + n]
        /\ \A j \in 1..d : cells[1 + j] = dirRow(j)
        /\ \A j \in 1..n : cells[1 + d + j] = fileRow(j)
    BY ONLY <1>0 DEF IsTable
  <1>2. new[at + 1] = cells[1] BY <1>1
  <1>3. new[at + 1].len = d + n BY <1>1, <1>2
  <1>4. \A j \in 1..d : new[at + 1 + j] = dirRow(j)
    <2> TAKE j \in 1..d
    <2>1. 1 + j \in 1..Len(cells) BY <1>1
    <2>2. at + (1 + j) = at + 1 + j BY <1>1
    <2>3. new[at + 1 + j] = cells[1 + j] BY <2>1, <2>2
    <2> HIDE DEF dirRow
    <2> QED BY <1>1, <2>3
  <1>5. \A j \in 1..n : new[at + 1 + (d + j)] = fileRow(j)
    <2> TAKE j \in 1..n
    <2>1. 1 + d + j \in 1..Len(cells) BY <1>1
    <2>2. at + (1 + d + j) = at + 1 + (d + j) BY <1>1
    <2>3. new[at + 1 + (d + j)] = cells[1 + d + j] BY <2>1, <2>2
    <2> HIDE DEF fileRow
    <2> QED BY <1>1, <2>3
  <1>6. Rows(new, at) = {new[at + 1 + i] : i \in 1..(d + n)} BY <1>3 DEF Rows
  <1>7. \A row \in Rows(new, at) : (\E j \in 1..d : row = dirRow(j)) \/ (\E j \in 1..n : row = fileRow(j))
    <2> TAKE row \in Rows(new, at)
    <2>1. PICK i \in 1..(d + n) : row = new[at + 1 + i] BY <1>6
    <2> HIDE DEF dirRow, fileRow
    <2>2. CASE i \in 1..d BY <1>4, <2>1, <2>2
    <2>3. CASE i \notin 1..d
      <3>1. i - d \in 1..n /\ d + (i - d) = i BY <1>1, <2>1, <2>3
      <3>2. row = fileRow(i - d) BY <1>5, <2>1, <3>1
      <3> QED BY <3>1, <3>2
    <2> QED BY <2>2, <2>3
  <1>8. \A j \in 1..d : dirRow(j) \in Rows(new, at)
    <2> HIDE DEF dirRow
    <2> TAKE j \in 1..d
    <2>1. j \in 1..(d + n) BY <1>1
    <2> QED BY <1>4, <1>6, <2>1
  <1>9. \A j \in 1..n : fileRow(j) \in Rows(new, at)
    <2> HIDE DEF fileRow
    <2> TAKE j \in 1..n
    <2>1. d + j \in 1..(d + n) BY <1>1
    <2> QED BY <1>5, <1>6, <2>1
  <1>10. ASSUME NEW j \in 1..d
         PROVE  OfRow(new, g, at, dirRow(j)) = OfDir(dirs[j], g) /\ RowOk(new, at, dirRow(j))
    <2>1. dirs[j].pos \in 0..at - 1 /\ dirs[j].pos \in CatalogTables(new) BY <1>10
    <2>2. at - dirs[j].pos \in Nat /\ at - dirs[j].pos > 0 /\ at - (at - dirs[j].pos) = dirs[j].pos
      <3>1. at \in Nat OBVIOUS
      <3>2. PICK p : p = dirs[j].pos OBVIOUS
      <3> QED BY ONLY <2>1, <3>1, <3>2
    <2>3. PICK row : row = dirRow(j) OBVIOUS
    <2>4. row.t # "f" /\ row.name = dirs[j].name /\ row.delta = at - dirs[j].pos BY <2>3
    <2>5. ~(row.delta <= 0 \/ at - row.delta \notin CatalogTables(new)) BY <2>1, <2>2, <2>4
    <2>6. OfRow(new, g, at, row) = {[path |-> <<row.name>>, dir |-> TRUE, size |-> 0]}
                                     \cup Below(row.name, g[at - row.delta])
      BY <2>4, <2>5 DEF OfRow
    <2>7. OfRow(new, g, at, row) = OfDir(dirs[j], g) BY <2>2, <2>4, <2>6 DEF OfDir, DirCalled
    <2>8. RowOk(new, at, row) BY <2>1, <2>2, <2>4 DEF RowOk
    <2> HIDE DEF dirRow
    <2> QED BY <2>3, <2>7, <2>8
  <1>11. ASSUME NEW j \in 1..n
         PROVE  OfRow(new, g, at, fileRow(j)) = OfFile(files[j]) /\ RowOk(new, at, fileRow(j))
    <2>1. PICK row : row = fileRow(j) OBVIOUS
    <2>2. row.t = "f" /\ row.name = files[j].name /\ row.size = files[j].size BY <2>1
    <2>3. OfRow(new, g, at, row) = OfFile(files[j]) BY <2>2 DEF OfRow, OfFile, FileCalled
    <2>4. RowOk(new, at, row) BY <2>2 DEF RowOk
    <2> HIDE DEF fileRow
    <2> QED BY <2>1, <2>3, <2>4
  <1> HIDE DEF dirRow, fileRow
  <1>12. \A row \in Rows(new, at) : RowOk(new, at, row) BY <1>7, <1>10, <1>11
  <1>13. Listing(new, g, at) = Contents(dirs, files, g)
    <2>1. ASSUME NEW e \in Listing(new, g, at) PROVE e \in Contents(dirs, files, g)
      <3>1. PICK row \in Rows(new, at) : e \in OfRow(new, g, at, row) BY <2>1 DEF Listing
      <3>2. CASE \E j \in 1..d : row = dirRow(j)
        <4>1. PICK j \in 1..d : e \in OfDir(dirs[j], g) BY <1>10, <3>1, <3>2
        <4>2. e \in OfDirs(dirs, g) BY <4>1 DEF OfDirs
        <4> QED BY <4>2 DEF Contents
      <3>3. CASE \E j \in 1..n : row = fileRow(j)
        <4>1. PICK j \in 1..n : e \in OfFile(files[j]) BY <1>11, <3>1, <3>3
        <4>2. e \in OfFiles(files) BY <4>1 DEF OfFiles
        <4> QED BY <4>2 DEF Contents
      <3> QED BY <1>7, <3>2, <3>3
    <2>2. ASSUME NEW e \in Contents(dirs, files, g) PROVE e \in Listing(new, g, at)
      <3>1. \E row \in Rows(new, at) : e \in OfRow(new, g, at, row)
        <4>1. CASE e \in OfDirs(dirs, g)
          <5>1. PICK j \in 1..d : e \in OfDir(dirs[j], g) BY <4>1 DEF OfDirs
          <5> QED BY <1>8, <1>10, <5>1
        <4>2. CASE e \in OfFiles(files)
          <5>1. PICK j \in 1..n : e \in OfFile(files[j]) BY <4>2 DEF OfFiles
          <5> QED BY <1>9, <1>11, <5>1
        <4> QED BY <2>2, <4>1, <4>2 DEF Contents
      <3> QED BY <3>1 DEF Listing
    <2> QED BY <2>1, <2>2
  <1> QED BY <1>12, <1>13

\* The last table added lists its contents, the others what they did.
Adds(data, g, new, h, contents) ==
  /\ Tabled(new) /\ Solved(new, h) /\ Len(data) \in CatalogTables(new)
  /\ CatalogTables(new) = CatalogTables(data) \cup {Len(data)}
  /\ h[Len(data)] = contents /\ \A a \in CatalogTables(data) : h[a] = g[a]

LEMMA Extended ==
  ASSUME NEW data, Tabled(data), NEW g, Solved(data, g), NEW dirs, Listed(dirs), NEW files, Listed(files),
         \A j \in 1..Len(dirs) : dirs[j].pos \in CatalogTables(data),
         NEW cells, cells = Table(dirs, files, Len(data)), NEW new, new = data \o cells
  PROVE  \E h : Adds(data, g, new, h, Contents(dirs, files, g))
  <1> DEFINE at == Len(data)
             T == CatalogTables(data)
             contents == Contents(dirs, files, g)
             h == [a \in T \cup {at} |-> IF a = at THEN contents ELSE g[a]]
  <1>0. IsTable(cells, dirs, files, Len(data)) BY TableIs
  <1>1. Listed(data) /\ Listed(cells) BY <1>0 DEF Tabled, IsTable
  <1>2. /\ Len(dirs) \in Nat /\ Len(files) \in Nat /\ Len(cells) = 1 + Len(dirs) + Len(files)
        /\ cells[1] = [t |-> "table", len |-> Len(dirs) + Len(files)]
        /\ \A j \in 1..Len(dirs) :
             cells[1 + j] = [t |-> "d", name |-> dirs[j].name, delta |-> Len(data) - dirs[j].pos]
        /\ \A j \in 1..Len(files) :
             cells[1 + Len(dirs) + j] = [t |-> "f", name |-> files[j].name, size |-> files[j].size]
    BY ONLY <1>0 DEF IsTable
  <1>3. /\ Listed(new) /\ Len(new) = Len(data) + Len(cells) /\ Len(data) \in Nat /\ Len(cells) \in Nat
        /\ \A i \in 1..Len(data) : new[i] = data[i]
        /\ \A i \in 1..Len(cells) : new[Len(data) + i] = cells[i]
    BY ONLY <1>1, new = data \o cells, Joined
  <1>4. Prolongs(data, new) BY <1>3 DEF Prolongs
  <1>5. at \notin T /\ T \subseteq 0..at - 1 BY <1>3 DEF CatalogTables
  <1>6. \A a \in T : /\ a \in CatalogTables(new) /\ Rows(new, a) = Rows(data, a)
                     /\ new[a + 1] = data[a + 1]
    BY <1>4, RowsStay
  <1>7. new[at + 1] = cells[1] BY <1>2, <1>3
  <1>8. at \in CatalogTables(new)
    <2>1. at + 1 \in 1..Len(new) BY <1>2, <1>3
    <2>2. new[at + 1].t = "table" BY <1>2, <1>7
    <2> QED BY <1>1, <1>3, <2>1, <2>2, TablesAre
  <1>9. ASSUME NEW a \in CatalogTables(new) PROVE a \in T \cup {at}
    <2>1. a \in Nat /\ a + 1 \in 1..Len(new) /\ new[a + 1].t = "table" BY <1>3, <1>9, TablesAre
    <2>2. CASE a + 1 \in 1..Len(data)
      <3>1. data[a + 1].t = "table" BY <1>3, <2>1, <2>2
      <3> QED BY <1>1, <2>1, <2>2, <3>1, TablesAre
    <2>3. CASE a = at BY <2>3
    <2>4. CASE a + 1 \notin 1..Len(data) /\ a # at
      <3>1. a > at /\ a - at \in Nat /\ a - at >= 1 /\ a - at <= Len(dirs) + Len(files)
        BY <1>2, <1>3, <2>1, <2>4
      <3>2. PICK j : j = a - at OBVIOUS
      <3>3. j \in 1..(Len(dirs) + Len(files)) /\ a + 1 = at + (1 + j) /\ 1 + j \in 1..Len(cells)
        BY <1>2, <1>3, <2>1, <3>1, <3>2
      <3>4. new[a + 1] = cells[1 + j] BY <1>3, <3>3
      <3>5. CASE j \in 1..Len(dirs)
        <4>0. cells[1 + j] = [t |-> "d", name |-> dirs[j].name, delta |-> Len(data) - dirs[j].pos]
          BY <1>2, <3>5
        <4>1. cells[1 + j].t = "d" BY <4>0
        <4> QED BY <2>1, <3>4, <4>1
      <3>6. CASE j \notin 1..Len(dirs)
        <4>1. PICK k : k = j - Len(dirs) OBVIOUS
        <4>2. k \in 1..Len(files) /\ 1 + Len(dirs) + k = 1 + j BY <1>2, <3>3, <3>6, <4>1
        <4>0. cells[1 + Len(dirs) + k] = [t |-> "f", name |-> files[k].name, size |-> files[k].size]
          BY <1>2, <4>2
        <4>3. cells[1 + Len(dirs) + k].t = "f" BY <4>0
        <4> QED BY <2>1, <3>4, <4>2, <4>3
      <3> QED BY <3>5, <3>6
    <2> QED BY <2>2, <2>3, <2>4
  <1>10. CatalogTables(new) = T \cup {at} BY <1>6, <1>8, <1>9
  <1>11. DOMAIN h = CatalogTables(new) /\ h[at] = contents /\ \A a \in T : h[a] = g[a]
    <2> HIDE DEF T, contents, at
    <2> QED BY <1>5, <1>10 DEF T, at
  <1>12. Contents(dirs, files, h) = contents
    <2> HIDE DEF h, contents
    <2>1. \A j \in 1..Len(dirs) : h[dirs[j].pos] = g[dirs[j].pos] BY <1>11
    <2> QED BY <2>1, ContentsStay DEF contents
  <1> HIDE DEF h
  <1>13. /\ Listing(new, h, at) = Contents(dirs, files, h)
         /\ \A row \in Rows(new, at) : RowOk(new, at, row)
    <2>1. \A j \in 1..Len(dirs) : dirs[j].pos \in CatalogTables(new) /\ dirs[j].pos \in 0..at - 1
      BY <1>5, <1>10
    <2>2. TableAt(new, at, dirs, files, cells) BY <1>3, <2>1 DEF TableAt
    <2> QED BY ONLY <2>2, TableLists
  <1>14. \A a \in T : /\ Listing(new, h, a) = Listing(data, g, a)
                      /\ \A row \in Rows(new, a) : RowOk(new, a, row)
    <2> TAKE a \in T
    <2>1. \A b \in CatalogTables(data) : h[b] = g[b] BY <1>11
    <2> QED BY <1>4, <2>1, ListingStays
  <1>15. Tabled(new)
    <2>1. ASSUME NEW a \in T PROVE new[a + 1].len \in Nat /\ a + 1 + new[a + 1].len <= Len(new)
      <3>1. data[a + 1].len \in Nat /\ a + 1 + data[a + 1].len <= Len(data) BY <2>1 DEF Tabled
      <3>2. a \in Nat BY <1>1, TablesAre
      <3> QED BY <1>3, <1>6, <3>1, <3>2
    <2>2. new[at + 1].len \in Nat /\ at + 1 + new[at + 1].len <= Len(new)
      <3>1. new[at + 1].len = Len(dirs) + Len(files) BY <1>2, <1>7
      <3> QED BY <1>2, <1>3, <3>1
    <2>3. \A a \in CatalogTables(new) : a \in T \/ a = at BY <1>10
    <2> HIDE DEF T, at
    <2> QED BY <1>3, <1>13, <1>14, <2>1, <2>2, <2>3 DEF Tabled
  <1>16. Solved(new, h)
    <2>1. g = [a \in T |-> Listing(data, g, a)] BY DEF Solved
    <2>2. \A a \in T : g[a] = Listing(data, g, a) BY <2>1
    <2>3. \A a \in CatalogTables(new) : h[a] = Listing(new, h, a)
      <3> TAKE a \in CatalogTables(new)
      <3>1. CASE a \in T BY <1>11, <1>14, <2>2, <3>1
      <3>2. CASE a = at BY <1>11, <1>12, <1>13, <3>2
      <3> QED BY <1>10, <3>1, <3>2
    <2>4. h = [a \in CatalogTables(new) |-> h[a]] BY <1>10 DEF h
    <2>5. [a \in CatalogTables(new) |-> h[a]] = [a \in CatalogTables(new) |-> Listing(new, h, a)] BY <2>3
    <2> QED BY <2>4, <2>5 DEF Solved
  <1>17. Adds(data, g, new, h, contents) BY <1>8, <1>10, <1>11, <1>15, <1>16 DEF Adds
  <1> QED BY <1>17

(***************************************************************************)
(*                      The entries of a path, and below                   *)
(***************************************************************************)

IsEntry(e) == e = [path |-> e.path, dir |-> e.dir, size |-> e.size] /\ Listed(e.path)
Moved(path, e) == [path |-> path \o e.path, dir |-> e.dir, size |-> e.size]
Spread(path, entries) == {Moved(path, e) : e \in entries}
Proper(data, g) == \A at \in CatalogTables(data) : \A e \in g[at] : IsEntry(e)

LEMMA ConcatAll ==
  ASSUME NEW r, NEW s, NEW t, Listed(r), Listed(s), Listed(t)
  PROVE  (r \o s) \o t = r \o (s \o t)
  <1> DEFINE S == ToSet(r) \cup ToSet(s) \cup ToSet(t)
  <1>1. r \in Seq(ToSet(r)) /\ s \in Seq(ToSet(s)) /\ t \in Seq(ToSet(t)) BY DEF Listed
  <1>2. r \in Seq(S) /\ s \in Seq(S) /\ t \in Seq(S) BY <1>1
  <1> HIDE DEF S
  <1> QED BY ONLY <1>2, ConcatAssociative

LEMMA Concats ==
  /\ \A s : Listed(s) => <<>> \o s = s /\ s \o <<>> = s
  /\ \A s, x : Listed(s) => s \o <<x>> = Append(s, x)
  /\ Listed(<<>>) /\ \A x : Listed(<<x>>)
  <1>2. ASSUME NEW s, Listed(s) PROVE <<>> \o s = s /\ s \o <<>> = s
    BY <1>2, ConcatEmptySeq DEF Listed
  <1>3. ASSUME NEW s, NEW x, Listed(s) PROVE s \o <<x>> = Append(s, x)
    BY <1>3 DEF Listed
  <1>4. Listed(<<>>)
    <2>1. <<>> \in Seq({}) OBVIOUS
    <2> QED BY <2>1, IsListed
  <1>5. ASSUME NEW x PROVE Listed(<<x>>)
    <2>1. PICK s : s = <<x>> OBVIOUS
    <2> QED BY <2>1, Single
  <1> QED BY <1>2, <1>3, <1>4, <1>5

LEMMA MovedNone ==
  ASSUME NEW x, IsEntry(x)
  PROVE  Moved(<<>>, x) = x
  <1>1. <<>> \o x.path = x.path BY Concats DEF IsEntry
  <1> QED BY <1>1 DEF IsEntry, Moved

LEMMA MovedTwice ==
  ASSUME NEW path, Listed(path), NEW name, NEW x, IsEntry(x)
  PROVE  Moved(path, Moved(<<name>>, x)) = Moved(Append(path, name), x)
  <1>1. PICK one : one = <<name>> OBVIOUS
  <1>2. Listed(one) BY <1>1, Single
  <1>3. Listed(x.path) BY DEF IsEntry
  <1>4. (path \o one) \o x.path = path \o (one \o x.path) 
    <2>1. Listed(path) OBVIOUS
    <2>2. PICK p : p = x.path OBVIOUS
    <2>3. Listed(p) BY <1>3, <2>2
    <2>5. (path \o one) \o p = path \o (one \o p) BY ONLY <1>2, <2>1, <2>3, ConcatAll
    <2> QED BY <2>2, <2>5
  <1>5. path \o one = Append(path, name) BY <1>1, Concats
  <1>6. PICK inner : inner = Moved(one, x) OBVIOUS
  <1>7. inner.path = one \o x.path /\ inner.dir = x.dir /\ inner.size = x.size BY <1>6 DEF Moved
  <1>8. Moved(path, inner) = [path |-> path \o (one \o x.path), dir |-> x.dir, size |-> x.size]
    BY <1>7 DEF Moved
  <1>9. Moved(Append(path, name), x) = [path |-> path \o (one \o x.path), dir |-> x.dir, size |-> x.size]
    BY <1>4, <1>5 DEF Moved
  <1> QED BY <1>1, <1>6, <1>8, <1>9

LEMMA Called ==
  ASSUME NEW path, Listed(path), NEW name, NEW size
  PROVE  /\ Moved(path, DirCalled(<<name>>)) = DirCalled(Append(path, name))
         /\ Moved(path, FileCalled(<<name>>, size)) = FileCalled(Append(path, name), size)
         /\ IsEntry(DirCalled(<<name>>)) /\ IsEntry(FileCalled(<<name>>, size))
  <1>1. path \o <<name>> = Append(path, name) BY Concats
  <1>2. Listed(<<name>>) BY ONLY Concats
  <1>3. PICK d : d = DirCalled(<<name>>) OBVIOUS
  <1>4. PICK f : f = FileCalled(<<name>>, size) OBVIOUS
  <1>5. d.path = <<name>> /\ d.dir = TRUE /\ d.size = 0 BY <1>3 DEF DirCalled
  <1>6. f.path = <<name>> /\ f.dir = FALSE /\ f.size = size BY <1>4 DEF FileCalled
  <1>7. Moved(path, d) = DirCalled(Append(path, name)) BY <1>1, <1>5 DEF Moved, DirCalled
  <1>8. Moved(path, f) = FileCalled(Append(path, name), size) BY <1>1, <1>6 DEF Moved, FileCalled
  <1>9. IsEntry(d) BY <1>2, <1>3, <1>5 DEF IsEntry, DirCalled
  <1>10. IsEntry(f) BY <1>2, <1>4, <1>6 DEF IsEntry, FileCalled
  <1> QED BY <1>3, <1>4, <1>7, <1>8, <1>9, <1>10

\* What is below a name is what it has, moved there.
LEMMA BelowIs ==
  ASSUME NEW name, NEW entries, \A e \in entries : IsEntry(e)
  PROVE  /\ Below(name, entries) = Spread(<<name>>, entries)
         /\ \A e \in Below(name, entries) : IsEntry(e)
  <1>1. ASSUME NEW e \in entries
        PROVE  [e EXCEPT !.path = <<name>> \o @] = Moved(<<name>>, e) /\ IsEntry(Moved(<<name>>, e))
    <2>1. e = [path |-> e.path, dir |-> e.dir, size |-> e.size] /\ Listed(e.path) BY <1>1 DEF IsEntry
    <2>2. PICK one : one = <<name>> /\ Listed(one) BY Single
    <2>3. Listed(one \o e.path) BY ONLY <2>1, <2>2, Joined
    <2>4. [e EXCEPT !.path = one \o @] = Moved(one, e) BY <2>1 DEF Moved
    <2>5. PICK m : m = Moved(one, e) OBVIOUS
    <2>6. m.path = one \o e.path /\ m.dir = e.dir /\ m.size = e.size BY <2>5 DEF Moved
    <2>7. IsEntry(m) BY <2>3, <2>5, <2>6 DEF IsEntry, Moved
    <2> QED BY <2>2, <2>4, <2>5, <2>7
  <1>2. Below(name, entries) = Spread(<<name>>, entries) BY <1>1 DEF Below, Spread
  <1>3. \A e \in Spread(<<name>>, entries) : IsEntry(e) BY <1>1 DEF Spread
  <1> QED BY <1>2, <1>3

LEMMA ContentsProper ==
  ASSUME NEW data, NEW g, Proper(data, g), NEW dirs, NEW files,
         \A j \in 1..Len(dirs) : dirs[j].pos \in CatalogTables(data)
  PROVE  \A e \in Contents(dirs, files, g) : IsEntry(e)
  <1>1. ASSUME NEW j \in 1..Len(dirs), NEW e \in OfDir(dirs[j], g) PROVE IsEntry(e)
    <2>1. \A x \in g[dirs[j].pos] : IsEntry(x) BY <1>1 DEF Proper
    <2>2. \A x \in Below(dirs[j].name, g[dirs[j].pos]) : IsEntry(x) BY <2>1, BelowIs
    <2>3. Listed(<<>>) BY Concats
    <2>4. IsEntry(DirCalled(<<dirs[j].name>>)) BY ONLY <2>3, Called
    <2> QED BY <1>1, <2>2, <2>4 DEF OfDir
  <1>2. ASSUME NEW j \in 1..Len(files), NEW e \in OfFile(files[j]) PROVE IsEntry(e)
    <2>1. Listed(<<>>) BY Concats
    <2>2. IsEntry(FileCalled(<<files[j].name>>, files[j].size)) BY ONLY <2>1, Called
    <2> QED BY <1>2, <2>2 DEF OfFile
  <1> QED BY <1>1, <1>2 DEF Contents, OfDirs, OfFiles

LEMMA SpreadIs ==
  /\ \A path, X, Y : Spread(path, X \cup Y) = Spread(path, X) \cup Spread(path, Y)
  /\ \A path, x : Spread(path, {x}) = {Moved(path, x)}
  /\ \A path : Spread(path, {}) = {}
  BY DEF Spread

LEMMA SpreadNone ==
  ASSUME NEW X, \A e \in X : IsEntry(e)
  PROVE  Spread(<<>>, X) = X
  <1>1. \A e \in X : Moved(<<>>, e) = e BY MovedNone
  <1> QED BY <1>1 DEF Spread

LEMMA SpreadFile ==
  ASSUME NEW path, Listed(path), NEW x
  PROVE  Spread(path, OfFile(x)) = {FileCalled(Append(path, x.name), x.size)}
  <1>1. Moved(path, FileCalled(<<x.name>>, x.size)) = FileCalled(Append(path, x.name), x.size)
    BY Called
  <1> QED BY <1>1, SpreadIs DEF OfFile

LEMMA SpreadDir ==
  ASSUME NEW path, Listed(path), NEW x, NEW g, \A e \in g[x.pos] : IsEntry(e),
         NEW child, child = Append(path, x.name)
  PROVE  Spread(path, OfDir(x, g)) = {DirCalled(child)} \cup Spread(child, g[x.pos])
  <1>1. Moved(path, DirCalled(<<x.name>>)) = DirCalled(child) BY Called
  <1>2. PICK X : X = g[x.pos] OBVIOUS
  <1>3. PICK name : name = x.name OBVIOUS
  <1>4. \A e \in X : IsEntry(e) BY <1>2
  <1>5. Below(name, X) = Spread(<<name>>, X) BY <1>4, BelowIs
  <1>6. ASSUME NEW e \in X PROVE Moved(path, Moved(<<name>>, e)) = Moved(child, e)
    <2>1. child = Append(path, name) BY <1>3
    <2>2. IsEntry(e) BY <1>4, <1>6
    <2> QED BY <2>1, <2>2, MovedTwice
  <1>7. Spread(path, Spread(<<name>>, X)) = Spread(child, X)
    <2>1. Spread(path, Spread(<<name>>, X)) = {Moved(path, e) : e \in Spread(<<name>>, X)} BY DEF Spread
    <2>2. Spread(<<name>>, X) = {Moved(<<name>>, e) : e \in X} BY DEF Spread
    <2>3. Spread(child, X) = {Moved(child, e) : e \in X} BY DEF Spread
    <2> QED BY <1>6, <2>1, <2>2, <2>3
  <1>8. OfDir(x, g) = {DirCalled(<<x.name>>)} \cup Spread(<<name>>, X) BY <1>2, <1>3, <1>5 DEF OfDir
  <1>9. Spread(path, OfDir(x, g)) =
          Spread(path, {DirCalled(<<x.name>>)}) \cup Spread(path, Spread(<<name>>, X))
    BY <1>8, SpreadIs
  <1>10. Spread(path, {DirCalled(<<x.name>>)}) = {DirCalled(child)} BY <1>1, SpreadIs
  <1> QED BY <1>2, <1>7, <1>9, <1>10

(***************************************************************************)
(*                   The catalog lists what was written                    *)
(***************************************************************************)

\* What a directory under way accounts for: itself, and the entries it has noted.
InFrame(f, i, g) ==
  {e \in {DirCalled(f.path)} : i # 1} \cup Spread(f.path, Contents(f.dirs, f.files, g))
InStack(g) == UNION {InFrame(stack[i], i, g) : i \in 1..Len(stack)}
UnderWay == IF file = None THEN {} ELSE {FileCalled(file.path, file.declared)}

\* The directories noted lead to tables of the catalog.
Refers(f, T) == Listed(f.dirs) /\ Listed(f.files) /\ \A j \in 1..Len(f.dirs) : f.dirs[j].pos \in T

Accounted(g) ==
  /\ Tabled(catalog) /\ Solved(catalog, g) /\ Proper(catalog, g)
  /\ \A i \in 1..Len(stack) : Refers(stack[i], CatalogTables(catalog))
  /\ ToSet(log) = UnderWay \cup InStack(g)

ChainInv ==
  \A i \in 1..Len(stack) : i # 1 => stack[i].path = Append(stack[i - 1].path, Last(stack[i].path))

CatalogInv ==
  /\ ChainInv
  /\ result = None /\ stack # <<>> => \E g : Accounted(g)
  /\ result = "done" => ParseCatalog(catalog) = ToSet(log)

\* The innermost directory accounts for more.
LEMMA FrameGains ==
  ASSUME NEW f, NEW F, f.path = F.path, NEW g, NEW X,
         Unites(Contents(f.dirs, f.files, g), Contents(F.dirs, F.files, g), X), NEW i
  PROVE  Unites(InFrame(f, i, g), InFrame(F, i, g), Spread(F.path, X))
  <1>1. Spread(F.path, Contents(f.dirs, f.files, g)) =
          Spread(F.path, Contents(F.dirs, F.files, g)) \cup Spread(F.path, X)
    BY SpreadIs DEF Unites
  <1> QED BY <1>1 DEF InFrame, Unites

LEMMA StackGains ==
  ASSUME StackInv, stack # <<>>, NEW f, Replaced(f), NEW g, NEW X,
         Unites(InFrame(f, Len(stack), g), InFrame(Frame, Len(stack), g), X)
  PROVE  Unites(InStack(g)', InStack(g), X)
  <1>1. Len(stack) \in Nat /\ Len(stack) \in 1..Len(stack) /\ Frame = stack[Len(stack)] BY AtWhich
  <1>2. /\ Len(stack') = Len(stack) /\ stack'[Len(stack)] = f
        /\ \A i \in 1..Len(stack) : i # Len(stack) => stack'[i] = stack[i]
    BY DEF Replaced
  <1>3. PICK n : n = Len(stack) /\ n \in 1..n BY <1>1
  <1>4. InStack(g)' = UNION {InFrame(stack'[i], i, g) : i \in 1..n} BY <1>2, <1>3 DEF InStack
  <1>5. InStack(g) = UNION {InFrame(stack[i], i, g) : i \in 1..n} BY <1>3 DEF InStack
  <1>6. \A i \in 1..n : i # n => InFrame(stack'[i], i, g) = InFrame(stack[i], i, g) BY <1>2, <1>3
  <1>7. InFrame(stack'[n], n, g) = InFrame(stack[n], n, g) \cup X BY <1>1, <1>2, <1>3 DEF Unites
  <1> QED BY <1>3, <1>4, <1>5, <1>6, <1>7 DEF Unites

LEMMA LogGains ==
  ASSUME log \in Seq(Written), NEW e, log' = Append(log, e)
  PROVE  ToSet(log') = ToSet(log) \cup {e}
  <1>1. Listed(log) BY IsListed
  <1>2. log' = log \o <<e>> BY <1>1, Concats
  <1>3. Listed(<<e>>) BY Concats
  <1>4. ToSet(log \o <<e>>) = ToSet(log) \cup ToSet(<<e>>) BY ONLY <1>1, <1>3, ListedConcat
  <1>5. ToSet(<<e>>) = {e} BY DEF ToSet
  <1> QED BY <1>2, <1>4, <1>5

LEMMA CatalogNow ==
  ASSUME result' = None, ChainInv', NEW g, Accounted(g)'
  PROVE  CatalogInv'
  <1>1. result' # "done" BY ArchiveAssumption
  <1> QED BY <1>1 DEF CatalogInv

LEMMA ChainStays ==
  ASSUME StackInv, stack # <<>>, ChainInv, NEW f, Replaced(f), f.path = Frame.path
  PROVE  ChainInv'
  <1>1. Len(stack) \in Nat /\ Len(stack) \in 1..Len(stack) /\ Frame = stack[Len(stack)] BY AtWhich
  <1>2. \A i \in 1..Len(stack) : stack'[i].path = stack[i].path BY <1>1 DEF Replaced
  <1>3. Len(stack') = Len(stack) BY DEF Replaced
  <1>4. ASSUME NEW i \in 1..Len(stack), i # 1
        PROVE  stack'[i].path = Append(stack'[i - 1].path, Last(stack'[i].path))
    <2>1. i - 1 \in 1..Len(stack) BY <1>1, <1>4
    <2>2. stack[i].path = Append(stack[i - 1].path, Last(stack[i].path)) BY <1>4 DEF ChainInv
    <2>3. stack'[i].path = stack[i].path /\ stack'[i - 1].path = stack[i - 1].path BY <1>2, <1>4, <2>1
    <2> QED BY <2>2, <2>3
  <1> QED BY <1>3, <1>4 DEF ChainInv

LEMMA CatalogReplaced ==
  ASSUME StackInv, ChainInv, stack # <<>>, NEW f, Replaced(f), f.path = Frame.path,
         NEW g, Accounted(g), Refers(f, CatalogTables(catalog)),
         catalog' = catalog, result' = None, (ToSet(log) = UnderWay \cup InStack(g))'
  PROVE  CatalogInv'
  <1>1. ChainInv' BY ChainStays
  <1>2. Len(stack') = Len(stack) BY DEF Replaced
  <1>3. \A i \in 1..Len(stack) : Refers(stack'[i], CatalogTables(catalog))
    BY DEF Accounted, Replaced
  <1>4. Accounted(g)' BY <1>2, <1>3 DEF Accounted
  <1> QED BY <1>1, <1>4, CatalogNow

LEMMA CatalogPassOver ==
  ASSUME ArchiveInv, CatalogInv, Exclude \/ SkipSystem \/ SkipLink \/ ReadError
  PROVE  CatalogInv'
  <1>1. AtChild /\ UNCHANGED <<archive, catalog, file, log, result>> BY AtPassOver
  <1>2. PICK f : /\ Replaced(f) /\ PopsTo(Frame, f)
                 /\ f.items = Frame.items /\ f.dirs = Frame.dirs /\ f.files = Frame.files
    BY AtPassOver
  <1>3. result = None /\ stack # <<>> /\ StackInv /\ ChainInv BY <1>1 DEF AtChild, Walking, ArchiveInv, CatalogInv
  <1>4. PICK g : Accounted(g) BY <1>3 DEF CatalogInv
  <1>5. f.path = Frame.path BY <1>2 DEF PopsTo
  <1>6. Unites(InFrame(f, Len(stack), g), InFrame(Frame, Len(stack), g), {})
    BY <1>2, <1>5 DEF InFrame, Unites
  <1>7. Unites(InStack(g)', InStack(g), {}) BY <1>2, <1>3, <1>6, StackGains
  <1>8. UnderWay' = UnderWay BY <1>1 DEF UnderWay
  <1>9. (ToSet(log) = UnderWay \cup InStack(g))' BY <1>1, <1>4, <1>7, <1>8 DEF Accounted, Unites
  <1>10. Refers(f, CatalogTables(catalog))
    <2>1. Refers(Frame, CatalogTables(catalog)) BY <1>3, <1>4, AtWhich DEF Accounted
    <2> QED BY <1>2, <2>1 DEF Refers
  <1> QED BY <1>1, <1>2, <1>3, <1>4, <1>5, <1>9, <1>10, CatalogReplaced

\* A file is noted by its directory.
LEMMA FileNoted ==
  ASSUME ArchiveInv, ChainInv, stack # <<>>, NEW f, Replaced(f), f.path = Frame.path, f.dirs = Frame.dirs,
         NEW x, f.files = Append(Frame.files, x), NEW g, Accounted(g),
         catalog' = catalog, result' = None, file' = None,
         ToSet(log') = UnderWay \cup InStack(g) \cup {FileCalled(Append(Frame.path, x.name), x.size)},
         UnderWay \subseteq {FileCalled(Append(Frame.path, x.name), x.size)}
  PROVE  CatalogInv'
  <1>1. StackInv /\ Frame \in {stack[Len(stack)]} /\ Len(stack) \in 1..Len(stack)
    BY AtWhich DEF ArchiveInv
  <1>2. Listed(Frame.path) BY <1>1, AtWhich, IsListed
  <1>3. Refers(Frame, CatalogTables(catalog)) BY <1>1 DEF Accounted
  <1>4. Listed(Frame.files) /\ Listed(Frame.dirs) BY <1>3 DEF Refers
  <1>5. Unites(Contents(f.dirs, f.files, g), Contents(Frame.dirs, Frame.files, g), OfFile(x))
    BY <1>4, ContentsFile
  <1>6. Unites(InFrame(f, Len(stack), g), InFrame(Frame, Len(stack), g), Spread(Frame.path, OfFile(x)))
    BY <1>5, FrameGains
  <1>7. Unites(InStack(g)', InStack(g), Spread(Frame.path, OfFile(x))) BY <1>1, <1>6, StackGains
  <1>8. Spread(Frame.path, OfFile(x)) = {FileCalled(Append(Frame.path, x.name), x.size)}
    BY <1>2, SpreadFile
  <1>9. UnderWay' = {} BY DEF UnderWay
  <1>10. (ToSet(log) = UnderWay \cup InStack(g))' BY <1>7, <1>8, <1>9 DEF Unites
  <1>11. Refers(f, CatalogTables(catalog))
    <2>1. Listed(f.files) BY <1>4, ListedAppend
    <2> QED BY <1>3, <2>1 DEF Refers
  <1> QED BY <1>1, <1>10, <1>11, CatalogReplaced

LEMMA CatalogVirtual ==
  ASSUME ArchiveInv, RootInv, CatalogInv, WriteVirtualFile
  PROVE  CatalogInv'
  <1>1. PICK vf, f : Injects(vf, f) BY AtVirtual
  <1>2. /\ Walking /\ Frame.path = <<>> /\ UNCHANGED <<catalog, file, result>>
        /\ log' = Append(log, [path |-> <<vf.name>>, dir |-> FALSE, size |-> vf.size])
    BY <1>1 DEF Injects
  <1>3. /\ Replaced(f) /\ NotesTo(Frame, f, vf.name, Len(archive), Len(archive'))
        /\ f.todo = Frame.todo /\ f.dirs = Frame.dirs /\ f.files = Append(Frame.files, vf)
    BY <1>1 DEF Injects
  <1>4. result = None /\ stack # <<>> /\ file = None /\ ChainInv BY <1>2 DEF Walking, CatalogInv
  <1>5. PICK g : Accounted(g) BY <1>4 DEF CatalogInv
  <1>6. f.path = Frame.path BY <1>3 DEF NotesTo
  <1>7. Append(<<>>, vf.name) = <<vf.name>> OBVIOUS
  <1>8. log' = Append(log, FileCalled(Append(Frame.path, vf.name), vf.size)) BY <1>2, <1>7 DEF FileCalled
  <1>9. log \in Seq(Written) BY DEF ArchiveInv, ArchiveTypes
  <1>10. ToSet(log') = ToSet(log) \cup {FileCalled(Append(Frame.path, vf.name), vf.size)}
    BY ONLY <1>8, <1>9, LogGains
  <1>11. UnderWay = {} BY <1>4 DEF UnderWay
  <1>12. ToSet(log) = UnderWay \cup InStack(g) BY <1>5 DEF Accounted
  <1>13. ToSet(log') = UnderWay \cup InStack(g) \cup {FileCalled(Append(Frame.path, vf.name), vf.size)}
    BY <1>10, <1>12
  <1> QED BY <1>2, <1>3, <1>4, <1>5, <1>6, <1>11, <1>13, FileNoted

LEMMA FileWhere ==
  ASSUME StackInv, FileInv, file # None
  PROVE  file.path = Append(Frame.path, Last(file.path))
  <1>1. stack # <<>> /\ DOMAIN Frame.todo # {} /\ file.path = Child BY DEF FileInv
  <1>2. Last(Child) = NameOrder[Place] BY <1>1, AtWhich
  <1> QED BY <1>1, <1>2 DEF Child

LEMMA CatalogFile ==
  ASSUME ArchiveInv, CatalogInv, result = None, file # None, NEW end, FileDone(end)
  PROVE  CatalogInv'
  <1>0. PICK f : Completes(end, f) BY AtFileDone
  <1>1. stack # <<>> /\ file' = None /\ UNCHANGED <<catalog, log, result>> BY <1>0 DEF Completes
  <1>2. PICK x : x = [name |-> Last(file.path), size |-> file.declared] OBVIOUS
  <1>3. /\ Replaced(f) /\ NotesTo(Frame, f, Last(file.path), file.start, end)
        /\ f.dirs = Frame.dirs /\ f.files = Append(Frame.files, x)
    BY <1>0, <1>2 DEF Completes
  <1>4. ChainInv BY DEF CatalogInv
  <1>5. PICK g : Accounted(g) BY <1>1 DEF CatalogInv
  <1>6. f.path = Frame.path BY <1>3 DEF NotesTo
  <1>7. x.name = Last(file.path) /\ x.size = file.declared BY <1>2
  <1>8. file.path = Append(Frame.path, x.name) BY <1>7, FileWhere DEF ArchiveInv
  <1>9. UnderWay = {FileCalled(Append(Frame.path, x.name), x.size)} BY <1>7, <1>8 DEF UnderWay
  <1>10. ToSet(log) = UnderWay \cup InStack(g) BY <1>5 DEF Accounted
  <1>11. ToSet(log') = UnderWay \cup InStack(g) \cup {FileCalled(Append(Frame.path, x.name), x.size)}
    BY <1>1, <1>9, <1>10
  <1> QED BY <1>1, <1>3, <1>4, <1>5, <1>6, <1>9, <1>11, FileNoted

LEMMA CatalogDone ==
  ASSUME ArchiveInv, CatalogInv, Pad \/ Probe
  PROVE  CatalogInv'
  <1>1. CASE Pad BY <1>1, CatalogFile DEF Pad, Reading
  <1>2. CASE Probe BY <1>2, CatalogFile DEF Probe, Reading
  <1> QED BY <1>1, <1>2

LEMMA CatalogOpen ==
  ASSUME ArchiveInv, CatalogInv, OpenFile
  PROVE  CatalogInv'
  <1>1. /\ result = None /\ stack # <<>> /\ file = None /\ UNCHANGED <<catalog, stack, result>>
    BY DEF OpenFile, AtWanted, AtChild, Walking
  <1>2. PICK child, n : child = Child /\ n = fs[Child].size OBVIOUS
  <1>3. file' = [path |-> child, declared |-> n, written |-> 0, start |-> Len(archive)]
    BY <1>2 DEF OpenFile
  <1>4. log' = Append(log, FileCalled(child, n)) BY <1>2 DEF OpenFile, FileCalled
  <1>5. PICK g : Accounted(g) BY <1>1 DEF CatalogInv
  <1>6. log \in Seq(Written) BY DEF ArchiveInv, ArchiveTypes
  <1>7. ToSet(log') = ToSet(log) \cup {FileCalled(child, n)} BY <1>4, <1>6, LogGains
  <1>8. UnderWay = {} BY <1>1 DEF UnderWay
  <1>9. file' # None /\ file'.path = child /\ file'.declared = n
    <2>1. child \in DOMAIN Tree /\ n \in Nat /\ Len(archive) \in Nat
      <3>1. DOMAIN Frame.todo # {} BY DEF OpenFile, AtWanted, AtChild
      <3>2. Child \in DOMAIN Tree BY <1>1, <3>1, AtWhich DEF ArchiveInv
      <3>3. fs \in [DOMAIN Tree -> [kind : Kinds, size : Nat]] BY DEF ArchiveInv, ArchiveTypes
      <3>4. Listed(archive) BY DEF ArchiveInv, CellsInv
      <3> QED BY <1>2, <3>2, <3>3, <3>4, ListedHas
    <2>2. file' \in [path : DOMAIN Tree, declared : Nat, written : Nat, start : Nat] BY <1>3, <2>1
    <2> QED BY <1>3, <2>2, ArchiveAssumption
  <1>10. UnderWay' = {FileCalled(child, n)} BY <1>9 DEF UnderWay
  <1>11. InStack(g)' = InStack(g) BY <1>1 DEF InStack
  <1>12. ToSet(log) = UnderWay \cup InStack(g) BY <1>5 DEF Accounted
  <1>13. (ToSet(log) = UnderWay \cup InStack(g))' BY <1>7, <1>8, <1>10, <1>11, <1>12
  <1>14. Accounted(g)' BY <1>1, <1>5, <1>13 DEF Accounted
  <1>15. ChainInv' BY <1>1 DEF CatalogInv, ChainInv
  <1> QED BY <1>1, <1>14, <1>15, CatalogNow

LEMMA CatalogSame ==
  ASSUME CatalogInv, UNCHANGED <<catalog, stack, log>>, UnderWay' = UnderWay,
         result' = result \/ result' \in {"cancelled", "failed"}
  PROVE  CatalogInv'
  <1>1. ChainInv' BY DEF CatalogInv, ChainInv
  <1>2. ASSUME result' = None, stack' # <<>> PROVE \E g : Accounted(g)'
    <2>1. result = None BY <1>2, ArchiveAssumption
    <2>2. PICK g : Accounted(g) BY <1>2, <2>1 DEF CatalogInv
    <2>3. InStack(g)' = InStack(g) BY DEF InStack
    <2>4. Accounted(g)' BY <2>2, <2>3 DEF Accounted
    <2> QED BY <2>4
  <1>3. result' = "done" => ParseCatalog(catalog') = ToSet(log') BY DEF CatalogInv
  <1> QED BY <1>1, <1>2, <1>3 DEF CatalogInv

LEMMA CatalogIdle ==
  ASSUME CatalogInv, Idle \/ UNCHANGED vars
  PROVE  CatalogInv'
  <1>1. UNCHANGED <<catalog, stack, log, file>> /\ (result' = result \/ result' \in {"cancelled", "failed"})
    BY DEF Idle, vars
  <1>2. UnderWay' = UnderWay BY <1>1 DEF UnderWay
  <1> QED BY <1>1, <1>2, CatalogSame

LEMMA CatalogRead ==
  ASSUME ArchiveInv, WalkedInv, CatalogInv, ReadData
  PROVE  CatalogInv'
  <1>1. /\ UNCHANGED <<catalog, stack, log, result>> /\ file # None
        /\ file' = [file EXCEPT !.written = @ + 1] /\ file.written \in Nat
    BY DEF ReadData, Reading, ArchiveInv, FileInv
  <1>2. file = [path |-> file.path, declared |-> file.declared, written |-> file.written,
                start |-> file.start] /\ file.path = Child
    BY <1>1 DEF ArchiveInv, FileInv
  <1>3. file'.path = file.path /\ file'.declared = file.declared /\ file'.written = file.written + 1
    BY <1>1, <1>2
  <1>4. file' # None
    <2>1. file.path \in DOMAIN Tree
      <3>1. StackInv /\ stack # <<>> /\ DOMAIN Frame.todo # {} BY <1>1 DEF ArchiveInv, FileInv
      <3> QED BY <1>2, <3>1, AtWhich
    <2>2. result = None BY DEF ReadData, Reading
    <2>3. file.declared \in Nat /\ file.start \in Nat
      BY <1>1, <2>2 DEF ArchiveInv, FileInv, WalkedInv, InsideFile
    <2>4. file' \in [path : DOMAIN Tree, declared : Nat, written : Nat, start : Nat]
      BY <1>1, <1>2, <2>1, <2>3
    <2> QED BY <2>4, ArchiveAssumption
  <1>5. UnderWay' = UnderWay BY <1>1, <1>3, <1>4 DEF UnderWay
  <1> QED BY <1>1, <1>5, CatalogSame

LEMMA CatalogEnter ==
  ASSUME ArchiveInv, CatalogInv, EnterDir
  PROVE  CatalogInv'
  <1>0. PICK name, child, f, inner : Enters(name, child, f, inner) BY AtEnterDir
  <1>1. child = Child /\ name = Last(Child) BY <1>0 DEF Enters
  <1>2. /\ AtChild /\ UNCHANGED <<catalog, file, result>>
        /\ log' = Append(log, DirCalled(child))
    BY <1>0 DEF Enters, DirCalled
  <1>3. /\ Entered(f, inner) /\ PopsTo(Frame, f) /\ f.dirs = Frame.dirs /\ f.files = Frame.files
        /\ inner.path = child /\ inner.dirs = <<>> /\ inner.files = <<>>
    BY <1>0 DEF Enters
  <1>4. result = None /\ stack # <<>> /\ file = None /\ DOMAIN Frame.todo # {} BY <1>2 DEF AtChild, Walking
  <1>5. PICK g : Accounted(g) BY <1>4 DEF CatalogInv
  <1>6. PICK n : n = Len(stack) OBVIOUS
  <1>7. n \in Nat /\ n > 0 /\ n \in 1..n /\ Frame = stack[n] BY <1>4, <1>6, AtWhich DEF ArchiveInv
  <1>8. f.path = Frame.path BY <1>3 DEF PopsTo
  <1>9. /\ Len(stack') = n + 1 /\ stack'[n + 1] = inner /\ stack'[n] = f
        /\ \A i \in 1..n : i # n => stack'[i] = stack[i]
    BY <1>3, <1>6 DEF Entered
  <1>10. \A i \in 1..n : InFrame(stack'[i], i, g) = InFrame(stack[i], i, g)
    BY <1>3, <1>7, <1>8, <1>9 DEF InFrame
  <1>11. InFrame(inner, n + 1, g) = {DirCalled(child)}
    <2>1. Contents(<<>>, <<>>, g) = {} BY DEF Contents, OfDirs, OfFiles
    <2>2. Spread(child, {}) = {} BY SpreadIs
    <2>3. n + 1 # 1 BY <1>7
    <2> QED BY <1>3, <2>1, <2>2, <2>3 DEF InFrame
  <1>12. InStack(g)' = InStack(g) \cup {DirCalled(child)}
    <2>1. InStack(g)' = UNION {InFrame(stack'[i], i, g) : i \in 1..(n + 1)} BY <1>9 DEF InStack
    <2>2. InStack(g) = UNION {InFrame(stack[i], i, g) : i \in 1..n} BY <1>6 DEF InStack
    <2>3. \A i \in 1..(n + 1) : i \in 1..n \/ i = n + 1 BY <1>7
    <2>4. n + 1 \in 1..(n + 1) /\ \A i \in 1..n : i \in 1..(n + 1) BY <1>7
    <2> QED BY <1>9, <1>10, <1>11, <2>1, <2>2, <2>3, <2>4
  <1>13. log \in Seq(Written) BY DEF ArchiveInv, ArchiveTypes
  <1>14. ToSet(log') = ToSet(log) \cup {DirCalled(child)} BY <1>2, <1>13, LogGains
  <1>15. UnderWay' = UnderWay BY <1>2 DEF UnderWay
  <1>16. ToSet(log) = UnderWay \cup InStack(g) BY <1>5 DEF Accounted
  <1>17. (ToSet(log) = UnderWay \cup InStack(g))' BY <1>12, <1>14, <1>15, <1>16
  <1>18. \A i \in 1..(n + 1) : Refers(stack'[i], CatalogTables(catalog))
    <2> TAKE i \in 1..(n + 1)
    <2>1. \A k \in 1..n : Refers(stack[k], CatalogTables(catalog)) BY <1>5, <1>6 DEF Accounted
    <2>2. CASE i \in 1..n /\ i # n BY <1>9, <2>1, <2>2
    <2>3. CASE i = n
      <3>1. Refers(Frame, CatalogTables(catalog)) BY <1>7, <2>1
      <3> QED BY <1>3, <1>9, <2>3, <3>1 DEF Refers
    <2>4. CASE i = n + 1
      <3>1. Listed(<<>>) /\ Len(<<>>) = 0 BY Concats
      <3>2. inner.dirs = <<>> /\ inner.files = <<>> BY <1>3
      <3>3. Refers(inner, CatalogTables(catalog)) BY <3>1, <3>2 DEF Refers
      <3> QED BY <1>9, <2>4, <3>3
    <2> QED BY <1>7, <2>2, <2>3, <2>4
  <1>19. Accounted(g)' BY <1>2, <1>5, <1>9, <1>17, <1>18 DEF Accounted
  <1>20. ChainInv'
    <2>1. \A i \in 1..n : stack'[i].path = stack[i].path BY <1>7, <1>8, <1>9
    <2>2. \A i \in 1..n : i # 1 => stack[i].path = Append(stack[i - 1].path, Last(stack[i].path))
      BY <1>6 DEF CatalogInv, ChainInv
    <2>3. child = Append(Frame.path, Last(child))
      <3>1. Last(Child) = NameOrder[Place] BY <1>4, AtWhich DEF ArchiveInv
      <3> QED BY <1>1, <3>1 DEF Child
    <2>4. ASSUME NEW i \in 1..(n + 1), i # 1
          PROVE  stack'[i].path = Append(stack'[i - 1].path, Last(stack'[i].path))
      <3>1. CASE i \in 1..n
        <4>1. i - 1 \in 1..n BY <1>7, <2>4, <3>1
        <4>2. stack[i].path = Append(stack[i - 1].path, Last(stack[i].path)) BY <2>2, <2>4, <3>1
        <4> QED BY <2>1, <3>1, <4>1, <4>2
      <3>2. CASE i = n + 1
        <4>1. stack'[i].path = child /\ stack'[i - 1].path = Frame.path BY <1>3, <1>7, <1>8, <1>9, <3>2
        <4> QED BY <2>3, <4>1
      <3> QED BY <1>7, <3>1, <3>2
    <2> QED BY <1>9, <2>4 DEF ChainInv
  <1> QED BY <1>2, <1>4, <1>19, <1>20, CatalogNow

LEMMA CatalogRoot ==
  ASSUME ArchiveInv, CatalogInv, WriteRoot, fs[<<>>].kind = "dir"
  PROVE  CatalogInv'
  <1>1. /\ catalog' = <<[t |-> "magic"]>> /\ stack = <<>> /\ result = None /\ UNCHANGED <<file, log, result>>
        /\ Len(stack') = 1 /\ stack'[1].dirs = <<>> /\ stack'[1].files = <<>>
    BY AtWriteRoot
  <1>2. file = None /\ log = <<>> BY <1>1 DEF ArchiveInv, FileInv, StartInv
  <1>3. PICK cell : cell = [t |-> "magic"] OBVIOUS
  <1>4. Listed(catalog') /\ Len(catalog') = 1 /\ catalog'[1] = cell BY <1>1, <1>3, Single
  <1>5. CatalogTables(catalog') = {}
    <2>1. \A at \in CatalogTables(catalog') : at + 1 \in 1..Len(catalog') /\ catalog'[at + 1].t = "table"
      BY <1>4, TablesAre
    <2>2. CatalogTables(catalog') \subseteq Nat BY <1>4, TablesAre
    <2>3. cell.t = "magic" BY <1>3
    <2>4. \A at \in CatalogTables(catalog') : at = 0 BY <1>4, <2>1, <2>2
    <2> QED BY <1>4, <2>1, <2>3, <2>4
  <1>6. PICK g : g = [at \in CatalogTables(catalog') |-> {}] OBVIOUS
  <1>7. Tabled(catalog') BY <1>4, <1>5 DEF Tabled
  <1>8. Solved(catalog', g)
    <2>1. [at \in CatalogTables(catalog') |-> {}] = [at \in CatalogTables(catalog') |-> Listing(catalog', g, at)]
      BY <1>5
    <2> QED BY <1>6, <2>1 DEF Solved
  <1>9. Proper(catalog', g) BY <1>5 DEF Proper
  <1>10. \A i \in 1..Len(stack') : i = 1 BY <1>1
  <1>11. \A i \in 1..Len(stack') : Refers(stack'[i], CatalogTables(catalog'))
    <2>1. Listed(<<>>) /\ Len(<<>>) = 0 BY Concats
    <2> QED BY <1>1, <1>10, <2>1 DEF Refers
  <1>12. InStack(g)' = {}
    <2>1. Contents(<<>>, <<>>, g) = {} BY DEF Contents, OfDirs, OfFiles
    <2>2. PICK f : f = stack'[1] OBVIOUS
    <2>3. Spread(f.path, {}) = {} BY SpreadIs
    <2>4. InFrame(f, 1, g) = {} BY <1>1, <2>1, <2>2, <2>3 DEF InFrame
    <2>5. InStack(g)' = UNION {InFrame(stack'[i], i, g) : i \in 1..Len(stack')} BY DEF InStack
    <2> QED BY <1>10, <2>2, <2>4, <2>5
  <1>13. UnderWay' = {} BY <1>1, <1>2 DEF UnderWay
  <1>14. ToSet(log') = {} BY <1>1, <1>2 DEF ToSet
  <1>15. Accounted(g)' BY <1>7, <1>8, <1>9, <1>11, <1>12, <1>13, <1>14 DEF Accounted
  <1>16. ChainInv' BY <1>10 DEF ChainInv
  <1> QED BY <1>1, <1>15, <1>16, CatalogNow

\* The table of a directory takes over what the directory accounted for.
LEMMA CatalogLeave ==
  ASSUME ArchiveInv, CatalogInv, CloseDir, Len(stack) # 1
  PROVE  CatalogInv'
  <1>1. PICK n, outer, f : outer = stack[n] /\ DirLeft(n, outer, f) BY AtCloseDir
  <1>2. /\ result = None /\ stack # <<>> /\ file = None /\ UNCHANGED <<file, log, result>>
        /\ catalog' = catalog \o Table(Frame.dirs, Frame.files, Len(catalog))
    BY DEF CloseDir, Walking
  <1>3. PICK g : Accounted(g) BY <1>2 DEF CatalogInv
  <1>4. /\ n \in Nat /\ n \in 1..n /\ Len(stack) = n + 1 /\ Len(stack') = n /\ stack'[n] = f
        /\ \A i \in 1..n : i # n => stack'[i] = stack[i]
    BY <1>1 DEF DirLeft, Left
  <1>5. PICK at, T, F : at = Len(catalog) /\ T = CatalogTables(catalog) /\ F = Frame OBVIOUS
  <1>6. PICK x : x = [name |-> Last(F.path), pos |-> at] OBVIOUS
  <1>7. /\ f.path = outer.path /\ f.files = outer.files /\ f.dirs = Append(outer.dirs, x)
    BY <1>1, <1>5, <1>6 DEF DirLeft, NotesTo
  <1>8. F = stack[n + 1] /\ F.path \in Seq(DOMAIN Hash) BY <1>2, <1>4, <1>5, AtWhich DEF ArchiveInv
  <1>9. \A i \in 1..(n + 1) : Refers(stack[i], T) BY <1>3, <1>4, <1>5 DEF Accounted
  <1>10. n + 1 \in 1..(n + 1) /\ n \in 1..(n + 1) /\ n + 1 # 1 BY <1>4
  <1>11. Refers(F, T) /\ Refers(outer, T) BY <1>1, <1>8, <1>9, <1>10
  <1>12. \E h : Adds(catalog, g, catalog', h, Contents(F.dirs, F.files, g))
    <2>1. PICK dirs, files : dirs = F.dirs /\ files = F.files OBVIOUS
    <2>2. /\ Listed(dirs) /\ Listed(files)
          /\ \A j \in 1..Len(dirs) : dirs[j].pos \in CatalogTables(catalog)
      BY <1>5, <1>11, <2>1 DEF Refers
    <2>3. Tabled(catalog) /\ Solved(catalog, g) BY <1>3 DEF Accounted
    <2>4. catalog' = catalog \o Table(dirs, files, Len(catalog)) BY <1>2, <1>5, <2>1
    <2>5. \E h : Adds(catalog, g, catalog', h, Contents(dirs, files, g)) BY ONLY <2>2, <2>3, <2>4, Extended
    <2> QED BY <2>1, <2>5
  <1>13. PICK h : Adds(catalog, g, catalog', h, Contents(F.dirs, F.files, g)) BY <1>12
  <1>14. PICK S : S = Contents(F.dirs, F.files, g) OBVIOUS
  <1>15. /\ Tabled(catalog') /\ Solved(catalog', h) /\ at \in CatalogTables(catalog')
         /\ CatalogTables(catalog') = T \cup {at} /\ h[at] = S /\ \A a \in T : h[a] = g[a]
    BY <1>5, <1>13, <1>14 DEF Adds
  <1>16. Proper(catalog, g) BY <1>3 DEF Accounted
  <1>17. \A e \in S : IsEntry(e)
    <2>1. \A j \in 1..Len(F.dirs) : F.dirs[j].pos \in CatalogTables(catalog) BY <1>5, <1>11 DEF Refers
    <2> QED BY <1>14, <1>16, <2>1, ContentsProper
  <1>18. Proper(catalog', h) BY <1>5, <1>15, <1>16, <1>17 DEF Proper
  <1>19. \A i \in 1..(n + 1) : InFrame(stack[i], i, h) = InFrame(stack[i], i, g)
    <2> TAKE i \in 1..(n + 1)
    <2>1. \A j \in 1..Len(stack[i].dirs) : h[stack[i].dirs[j].pos] = g[stack[i].dirs[j].pos]
      BY <1>9, <1>15 DEF Refers
    <2>2. Contents(stack[i].dirs, stack[i].files, h) = Contents(stack[i].dirs, stack[i].files, g)
      BY <2>1, ContentsStay
    <2> QED BY <2>2 DEF InFrame
  <1>20. PICK path, name : path = outer.path /\ name = Last(F.path) OBVIOUS
  <1>21. F.path = Append(path, name)
    <2>1. ChainInv BY DEF CatalogInv
    <2>2. stack[n + 1].path = Append(stack[n + 1 - 1].path, Last(stack[n + 1].path))
      BY <1>4, <1>10, <2>1 DEF ChainInv
    <2>3. n + 1 - 1 = n BY <1>4
    <2> QED BY <1>1, <1>8, <1>20, <2>2, <2>3
  <1>22. Listed(path)
    <2>1. FrameOk(stack[n], Len(log)) BY <1>4, <1>10 DEF ArchiveInv, StackInv
    <2>2. outer.path \in Seq(DOMAIN Hash) BY <1>1, <2>1, TreeTyped DEF FrameOk
    <2> QED BY <1>20, <2>2, IsListed
  <1>23. Spread(path, OfDir(x, h)) = {DirCalled(F.path)} \cup Spread(F.path, S)
    <2>1. x.name = name /\ x.pos = at BY <1>6, <1>20
    <2>2. \A e \in h[x.pos] : IsEntry(e) BY <1>15, <1>17, <2>1
    <2>3. Spread(path, OfDir(x, h)) = {DirCalled(F.path)} \cup Spread(F.path, h[x.pos])
      BY <1>21, <1>22, <2>1, <2>2, SpreadDir
    <2> QED BY <1>15, <2>1, <2>3
  <1>24. InFrame(F, n + 1, g) = {DirCalled(F.path)} \cup Spread(F.path, S) BY <1>10, <1>14 DEF InFrame
  <1>25. InFrame(f, n, h) = InFrame(outer, n, h) \cup InFrame(F, n + 1, g)
    <2>1. Listed(outer.dirs) BY <1>11 DEF Refers
    <2>2. Unites(Contents(f.dirs, f.files, h), Contents(outer.dirs, outer.files, h), OfDir(x, h))
      BY <1>7, <2>1, ContentsDir
    <2>3. Unites(InFrame(f, n, h), InFrame(outer, n, h), Spread(outer.path, OfDir(x, h)))
      BY <1>7, <2>2, FrameGains
    <2> QED BY <1>20, <1>23, <1>24, <2>3 DEF Unites
  <1>26. InStack(h)' = InStack(g)
    <2>1. InStack(h)' = UNION {InFrame(stack'[i], i, h) : i \in 1..n} BY <1>4 DEF InStack
    <2>2. InStack(g) = UNION {InFrame(stack[i], i, g) : i \in 1..(n + 1)} BY <1>4 DEF InStack
    <2>3. \A i \in 1..(n + 1) : i = n + 1 \/ i = n \/ (i \in 1..n /\ i # n) BY <1>4
    <2>4. \A i \in 1..n : i \in 1..(n + 1) BY <1>4
    <2>5. \A i \in 1..n : i # n => InFrame(stack'[i], i, h) = InFrame(stack[i], i, g) BY <1>4, <1>19, <2>4
    <2>6. InFrame(stack'[n], n, h) = InFrame(stack[n], n, g) \cup InFrame(stack[n + 1], n + 1, g)
      BY <1>1, <1>4, <1>8, <1>10, <1>19, <1>25
    <2> QED BY <1>4, <2>1, <2>2, <2>3, <2>4, <2>5, <2>6
  <1>27. UnderWay' = UnderWay BY <1>2 DEF UnderWay
  <1>28. (ToSet(log) = UnderWay \cup InStack(h))' BY <1>2, <1>3, <1>26, <1>27 DEF Accounted
  <1>29. \A i \in 1..n : Refers(stack'[i], CatalogTables(catalog'))
    <2> TAKE i \in 1..n
    <2>1. CASE i # n
      <3>1. Refers(stack[i], T) BY <1>4, <1>9
      <3>2. stack'[i] = stack[i] BY <1>4, <2>1
      <3> QED BY <1>15, <3>1, <3>2 DEF Refers
    <2>2. CASE i = n
      <3>1. Listed(outer.dirs) /\ Listed(outer.files) /\ \A j \in 1..Len(outer.dirs) : outer.dirs[j].pos \in T
        BY <1>11 DEF Refers
      <3>2. /\ Listed(f.dirs) /\ Len(f.dirs) = Len(outer.dirs) + 1 /\ Len(outer.dirs) \in Nat
            /\ \A j \in 1..Len(outer.dirs) : f.dirs[j] = outer.dirs[j]
            /\ f.dirs[Len(outer.dirs) + 1] = x
        BY <1>7, <3>1, ListedAppend, ListedHas
      <3>3. \A j \in 1..Len(f.dirs) : f.dirs[j].pos \in CatalogTables(catalog')
        <4> TAKE j \in 1..Len(f.dirs)
        <4>1. j \in 1..Len(outer.dirs) \/ j = Len(outer.dirs) + 1 BY <3>2
        <4>2. x.pos = at BY <1>6
        <4> QED BY <1>15, <3>1, <3>2, <4>1, <4>2
      <3>4. Refers(f, CatalogTables(catalog')) BY <1>7, <3>1, <3>2, <3>3 DEF Refers
      <3> QED BY <1>4, <2>2, <3>4
    <2> QED BY <2>1, <2>2
  <1>30. Accounted(h)' BY <1>4, <1>15, <1>18, <1>28, <1>29 DEF Accounted
  <1>31. ChainInv'
    <2>1. \A i \in 1..n : stack'[i].path = stack[i].path BY <1>1, <1>4, <1>7
    <2>2. ChainInv BY DEF CatalogInv
    <2>3. ASSUME NEW i \in 1..n, i # 1
          PROVE  stack'[i].path = Append(stack'[i - 1].path, Last(stack'[i].path))
      <3>1. i - 1 \in 1..n /\ i \in 1..Len(stack) BY <1>4, <2>3
      <3>2. stack[i].path = Append(stack[i - 1].path, Last(stack[i].path)) BY <2>2, <2>3, <3>1 DEF ChainInv
      <3> QED BY <2>1, <3>1, <3>2
    <2> QED BY <1>4, <2>3 DEF ChainInv
  <1> QED BY <1>2, <1>30, <1>31, CatalogNow

\* The last tables lead the reader to that of the root.
Finishes(data, g, dirs, files, at, table, whole) ==
  /\ Tabled(data) /\ Solved(data, g) /\ Listed(dirs) /\ Listed(files)
  /\ \A j \in 1..Len(dirs) : dirs[j].pos \in CatalogTables(data)
  /\ at = Len(data) /\ table = Table(dirs, files, at)
  /\ whole = data \o table \o Trailer(at, at + Len(table))

LEMMA TrailerLeads ==
  ASSUME NEW data, NEW g, NEW dirs, NEW files, NEW at, NEW table, NEW whole,
         Finishes(data, g, dirs, files, at, table, whole)
  PROVE  ParseCatalog(whole) = Contents(dirs, files, g)
  <1> USE DEF Finishes
  <1>1. PICK S : S = Contents(dirs, files, g) OBVIOUS
  <1>2. PICK inner : inner = data \o table OBVIOUS
  <1>3. PICK h : Adds(data, g, inner, h, S)
    <2>1. /\ Tabled(data) /\ Solved(data, g) /\ Listed(dirs) /\ Listed(files)
          /\ \A j \in 1..Len(dirs) : dirs[j].pos \in CatalogTables(data)
          /\ table = Table(dirs, files, Len(data))
      OBVIOUS
    <2>2. \E h : Adds(data, g, inner, h, Contents(dirs, files, g)) BY ONLY <1>2, <2>1, Extended
    <2> QED BY <1>1, <2>2
  <1>4. Tabled(inner) /\ Solved(inner, h) /\ at \in CatalogTables(inner) /\ h[at] = S BY <1>3 DEF Adds
  <1>5. PICK end : end = at + Len(table) OBVIOUS
  <1>6. Listed(table) BY TableIs DEF IsTable
  <1>7. Listed(data) /\ Listed(inner) BY <1>4 DEF Tabled
  <1>8. Len(inner) = end /\ at \in Nat /\ Len(table) \in Nat /\ Len(table) > 0 /\ end \in Nat
    <2>1. Len(inner) = Len(data) + Len(table) /\ Len(data) \in Nat /\ Len(table) \in Nat
      BY ONLY <1>2, <1>6, <1>7, Joined
    <2>2. at \in CatalogTables(inner) BY <1>4
    <2>3. at + 1 \in 1..Len(inner) BY <1>7, <2>2, TablesAre
    <2> QED BY <1>5, <2>1, <2>3
  <1>9. PICK x : x = [name |-> "archive", pos |-> at] OBVIOUS
  <1>10. PICK roots : roots = <<x>> OBVIOUS
  <1>11. Listed(roots) /\ Len(roots) = 1 /\ roots[1] = x BY <1>10, Single
  <1>12. Listed(<<>>) /\ Len(<<>>) = 0 BY Concats
  <1>13. PICK last : last = Table(roots, <<>>, end) OBVIOUS
  <1>14. PICK outer : outer = inner \o last OBVIOUS
  <1>15. \E k : Adds(inner, h, outer, k, Contents(roots, <<>>, h))
    <2>1. \A j \in 1..Len(roots) : roots[j].pos \in CatalogTables(inner)
      <3>1. x.pos = at BY <1>9
      <3> QED BY <1>4, <1>11, <3>1
    <2>2. last = Table(roots, <<>>, Len(inner)) BY <1>8, <1>13
    <2> QED BY ONLY <1>4, <1>11, <1>12, <1>14, <2>1, <2>2, Extended
  <1>16. PICK k : Adds(inner, h, outer, k, Contents(roots, <<>>, h)) BY <1>15
  <1>17. Tabled(outer) /\ Solved(outer, k) /\ k[at] = S BY <1>4, <1>16 DEF Adds
  <1>18. PICK pointer : pointer = [t |-> "pointer", to |-> end] OBVIOUS
  <1>19. pointer.t # "table" /\ pointer.to = end BY <1>18
  <1>20. whole = Append(outer, pointer)
    <2>1. Trailer(at, end) = last \o <<pointer>> BY <1>9, <1>10, <1>13, <1>18 DEF Trailer
    <2>2. PICK one : one = <<pointer>> OBVIOUS
    <2>3. Listed(one) BY <2>2, Single
    <2>4. Listed(last) BY <1>11, <1>12, <1>13, TableIs DEF IsTable
    <2>5. whole = inner \o (last \o one) BY <1>2, <1>5, <2>1, <2>2
    <2>6. (inner \o last) \o one = inner \o (last \o one) BY ONLY <1>7, <2>3, <2>4, ConcatAll
    <2>7. whole = outer \o one BY <1>14, <2>5, <2>6
    <2>8. Listed(outer) BY <1>17 DEF Tabled
    <2> QED BY <2>2, <2>7, <2>8, Concats
  <1>21. Tabled(whole) /\ Solved(whole, k) BY ONLY <1>17, <1>19, <1>20, Untabled
  <1>22. ParseCatalog(whole) = k[Last(whole).to - whole[Last(whole).to + 2].delta]
    BY ONLY <1>21, CatalogIs
  <1>23. /\ Listed(outer) /\ Len(outer) \in Nat /\ Len(outer) = end + 2 /\ outer[end + 2].delta = end - at
    <2>0. PICK none : none = <<>> OBVIOUS
    <2>9. IsTable(last, roots, none, end) BY <1>11, <1>12, <1>13, <2>0, TableIs
    <2>1. /\ Listed(last) /\ Len(last) = 1 + Len(roots) + Len(none)
          /\ \A j \in 1..Len(roots) :
               last[1 + j] = [t |-> "d", name |-> roots[j].name, delta |-> end - roots[j].pos]
      BY ONLY <2>9 DEF IsTable
    <2>2. Len(last) = 2 BY <1>11, <1>12, <2>0, <2>1
    <2>3. last[2].delta = end - at
      <3>1. 1 \in 1..Len(roots) /\ 1 + 1 = 2 BY <1>11
      <3>2. last[2] = [t |-> "d", name |-> x.name, delta |-> end - x.pos] BY <1>11, <2>1, <3>1
      <3> QED BY <1>9, <3>2
    <2>8. Listed(inner) /\ Listed(last) BY <1>7, <2>1
    <2>4. /\ Listed(outer) /\ Len(outer) = Len(inner) + Len(last)
          /\ \A i \in 1..Len(last) : outer[Len(inner) + i] = last[i]
      BY ONLY <1>14, <2>8, Joined
    <2>5. 2 \in 1..Len(last) BY <2>2
    <2>6. outer[end + 2] = last[2] BY <1>8, <2>4, <2>5
    <2> QED BY <1>8, <2>2, <2>3, <2>4, <2>6
  <1>24. /\ Len(whole) = end + 3 /\ whole[end + 3] = pointer /\ whole[end + 2] = outer[end + 2]
    <2>1. /\ Len(whole) = Len(outer) + 1 /\ whole[Len(outer) + 1] = pointer
          /\ \A i \in 1..Len(outer) : whole[i] = outer[i]
      <3>1. Listed(outer) BY <1>23
      <3> QED BY ONLY <1>20, <3>1, ListedAppend
    <2>2. end + 2 \in 1..Len(outer) /\ Len(outer) + 1 = end + 3 BY <1>8, <1>23
    <2> QED BY <2>1, <2>2
  <1>25. Last(whole).to = end BY <1>19, <1>24, LastIs
  <1>26. end - whole[end + 2].delta = at BY <1>8, <1>23, <1>24
  <1> QED BY <1>1, <1>17, <1>22, <1>25, <1>26

LEMMA CatalogClose ==
  ASSUME ArchiveInv, RootInv, CatalogInv, CloseDir
  PROVE  CatalogInv'
  <1>1. CASE Len(stack) # 1 BY <1>1, CatalogLeave
  <1>2. CASE Len(stack) = 1
    <2>1. PICK table : table = Table(Frame.dirs, Frame.files, Len(catalog)) OBVIOUS
    <2>2. /\ result = None /\ stack # <<>> /\ file = None /\ log' = log
          /\ catalog' = catalog \o table \o Trailer(Len(catalog), Len(catalog) + Len(table))
          /\ result' = "done" /\ stack' = <<>>
      BY <1>2, <2>1 DEF CloseDir, Walking
    <2>3. PICK g : Accounted(g) BY <2>2 DEF CatalogInv
    <2>4. PICK dirs, files : dirs = Frame.dirs /\ files = Frame.files OBVIOUS
    <2>5. Frame = stack[1] /\ 1 \in 1..Len(stack) BY <1>2, <2>2, AtWhich DEF ArchiveInv
    <2>6. Refers(Frame, CatalogTables(catalog)) BY <2>3, <2>5 DEF Accounted
    <2>7. /\ Listed(dirs) /\ Listed(files) /\ \A j \in 1..Len(dirs) : dirs[j].pos \in CatalogTables(catalog)
      BY <2>4, <2>6 DEF Refers
    <2>8. Tabled(catalog) /\ Solved(catalog, g) /\ Proper(catalog, g) /\ ToSet(log) = UnderWay \cup InStack(g)
      BY <2>3 DEF Accounted
    <2>9. ParseCatalog(catalog') = Contents(dirs, files, g)
      <3>1. PICK at : at = Len(catalog) OBVIOUS
      <3>2. table = Table(dirs, files, at) /\ catalog' = catalog \o table \o Trailer(at, at + Len(table))
        BY <2>1, <2>2, <2>4, <3>1
      <3>3. Tabled(catalog) /\ Solved(catalog, g) BY <2>8
      <3>4. PICK data, whole : data = catalog /\ whole = catalog' OBVIOUS
      <3>5. /\ Tabled(data) /\ Solved(data, g) /\ at = Len(data)
            /\ \A j \in 1..Len(dirs) : dirs[j].pos \in CatalogTables(data)
            /\ whole = data \o table \o Trailer(at, at + Len(table))
        BY <2>7, <3>1, <3>2, <3>3, <3>4
      <3>6. Listed(dirs) /\ Listed(files) /\ table = Table(dirs, files, at) BY <2>7, <3>2
      <3>7. Finishes(data, g, dirs, files, at, table, whole) BY ONLY <3>5, <3>6 DEF Finishes
      <3>8. ParseCatalog(whole) = Contents(dirs, files, g) BY ONLY <3>7, TrailerLeads
      <3> QED BY <3>4, <3>8
    <2>10. \A e \in Contents(dirs, files, g) : IsEntry(e) BY <2>7, <2>8, ContentsProper
    <2>11. Spread(<<>>, Contents(dirs, files, g)) = Contents(dirs, files, g) BY <2>10, SpreadNone
    <2>12. Frame.path = <<>> BY <2>2, <2>5 DEF RootInv
    <2>13. InFrame(Frame, 1, g) = Contents(dirs, files, g) BY <2>4, <2>11, <2>12 DEF InFrame
    <2>14. InStack(g) = InFrame(Frame, 1, g)
      <3>1. \A i \in 1..Len(stack) : i = 1 BY <1>2
      <3> QED BY <2>5, <3>1 DEF InStack
    <2>15. UnderWay = {} BY <2>2 DEF UnderWay
    <2>16. ParseCatalog(catalog') = ToSet(log') BY <2>2, <2>8, <2>9, <2>13, <2>14, <2>15
    <2>17. ChainInv'
      <3>1. Len(stack') = 0 BY <2>2
      <3> QED BY <3>1 DEF ChainInv
    <2> QED BY <2>2, <2>16, <2>17, ArchiveAssumption DEF CatalogInv
  <1> QED BY <1>1, <1>2

LEMMA CatalogStart == Init => CatalogInv
  <1> SUFFICES ASSUME Init PROVE CatalogInv OBVIOUS
  <1>1. stack = <<>> /\ result = None /\ Len(stack) = 0 BY DEF Init
  <1>2. result # "done" BY <1>1, ArchiveAssumption
  <1> QED BY <1>1, <1>2 DEF CatalogInv, ChainInv

LEMMA CatalogMoves ==
  ASSUME ArchiveInv, RootInv, WalkedInv, CatalogInv, [Next]_vars
  PROVE  CatalogInv'
  <1>1. CASE UNCHANGED vars BY <1>1, CatalogIdle
  <1>2. CASE Next
    <2>1. CASE Idle BY <2>1, CatalogIdle
    <2>2. CASE WriteRoot /\ fs[<<>>].kind = "dir" BY <2>2, CatalogRoot
    <2>3. CASE WriteVirtualFile BY <2>3, CatalogVirtual
    <2>4. CASE Exclude \/ SkipSystem \/ SkipLink \/ ReadError BY <2>4, CatalogPassOver
    <2>5. CASE EnterDir BY <2>5, CatalogEnter
    <2>6. CASE OpenFile BY <2>6, CatalogOpen
    <2>7. CASE ReadData BY <2>7, CatalogRead
    <2>8. CASE Pad \/ Probe BY <2>8, CatalogDone
    <2>9. CASE CloseDir BY <2>9, CatalogClose
    <2> QED BY <1>2, <2>1, <2>2, <2>3, <2>4, <2>5, <2>6, <2>7, <2>8, <2>9, IdleSteps
  <1> QED BY <1>1, <1>2

\* The inductive invariant of what the readers will find.
ReadersInv == ArchiveInv /\ RootInv /\ WalkedInv /\ CatalogInv

LEMMA ReadersInvariant == Spec => []ReadersInv
  <1>1. Init => ReadersInv BY ArchiveStart, RootStart, WalkedStart, CatalogStart DEF ReadersInv
  <1>2. ReadersInv /\ [Next]_vars => ReadersInv'
    BY ArchiveMoves, RootMovesOn, WalkedMoves, CatalogMoves DEF ReadersInv
  <1> QED BY <1>1, <1>2, PTL DEF Spec

\* Whatever changes while the folder is read, both readers find the entries that
\* were written: PXARReader.walk in the archive, ParseCatalog in the catalog.
THEOREM ReadersAgreeAlways == Spec => []ReadersAgree
  <1>1. ReadersInv => ReadersAgree BY WalkFinds DEF ReadersInv, ReadersAgree, CatalogInv
  <1> QED BY <1>1, ReadersInvariant, PTL

(***************************************************************************)
(*                     Functions defined by recursion                      *)
(***************************************************************************)

\* The values up to n of a function that is defined at k from its value at an
\* earlier place.
Begun(S, start, next, up, n) ==
  {g \in [0..n -> S] : g[0] = start /\ \A k \in 1..n : g[k] = next[<<k, g[up[k]]>>]}

LEMMA BegunAgree ==
  ASSUME NEW S, NEW start, NEW next, NEW up \in [Nat \ {0} -> Nat], \A k \in Nat \ {0} : up[k] < k,
         NEW m \in Nat, NEW n \in Nat, NEW g \in Begun(S, start, next, up, m),
         NEW h \in Begun(S, start, next, up, n), NEW i \in Nat, i <= m, i <= n
  PROVE  g[i] = h[i]
  <1> DEFINE T == {k \in Nat : k <= m /\ k <= n /\ g[k] # h[k]}
  <1>1. SUFFICES ASSUME T # {} PROVE FALSE
    OBVIOUS
  <1>2. PICK k : k \in T /\ \A j \in T : k <= j BY <1>1, LeastIsIn
  <1>3. k \in Nat /\ k <= m /\ k <= n /\ g[k] # h[k] BY <1>2
  <1>4. k # 0 BY <1>3 DEF Begun
  <1>5. k \in 1..m /\ k \in 1..n /\ up[k] \in Nat /\ up[k] < k BY <1>3, <1>4
  <1>6. g[k] = next[<<k, g[up[k]]>>] /\ h[k] = next[<<k, h[up[k]]>>] BY <1>5 DEF Begun
  <1>7. up[k] \notin T BY <1>2, <1>3, <1>5
  <1> QED BY <1>3, <1>5, <1>6, <1>7

LeadsBack(up) == up \in [Nat \ {0} -> Nat] /\ \A k \in Nat \ {0} : up[k] < k
Stays(next, S) == next \in [Nat \X S -> S]

Recurs(f, S, start, next, up) ==
  f \in [Nat -> S] /\ f[0] = start /\ \A n \in Nat \ {0} : f[n] = next[<<n, f[up[n]]>>]

\* A recursion that leads to earlier places defines a function.
LEMMA Recursion ==
  ASSUME NEW S, NEW start, start \in S, NEW next, Stays(next, S), NEW up, LeadsBack(up)
  PROVE  \E f : Recurs(f, S, start, next, up)
  <1>0. /\ next \in [Nat \X S -> S] /\ up \in [Nat \ {0} -> Nat]
        /\ \A k \in Nat \ {0} : up[k] < k
    BY DEF LeadsBack, Stays
  <1> DEFINE B(n) == Begun(S, start, next, up, n)
  <1>1. ASSUME NEW n \in Nat PROVE B(n) # {}
    <2> DEFINE T == {k \in Nat : B(k) = {}}
    <2>1. SUFFICES ASSUME T # {} PROVE FALSE
      OBVIOUS
    <2>2. PICK k : k \in T /\ \A j \in T : k <= j BY <2>1, LeastIsIn
    <2>3. k \in Nat /\ B(k) = {} BY <2>2
    <2>4. k # 0
      <3> SUFFICES ASSUME k = 0 PROVE FALSE
        OBVIOUS
      <3>1. [i \in 0..0 |-> start] \in B(0) BY DEF Begun
      <3> QED BY <2>3, <3>1
    <2>5. k - 1 \in Nat /\ ~(k <= k - 1) /\ k - 1 + 1 = k BY <2>3, <2>4
    <2>6. PICK g : g \in B(k - 1) BY <2>2, <2>5
    <2>7. /\ g \in [0..k - 1 -> S] /\ g[0] = start
          /\ \A j \in 1..k - 1 : g[j] = next[<<j, g[up[j]]>>]
      BY <2>6 DEF Begun
    <2>8. up[k] \in 0..k - 1 /\ \A j \in 1..k : up[j] \in 0..k - 1 BY <1>0, <2>3, <2>4, <2>5
    <2> DEFINE h == [j \in 0..k |-> IF j < k THEN g[j] ELSE next[<<k, g[up[k]]>>]]
    <2>9. next[<<k, g[up[k]]>>] \in S BY <1>0, <2>3, <2>7, <2>8
    <2>10. h \in [0..k -> S]
      <3>1. \A j \in 0..k : j < k => j \in 0..k - 1 BY <2>3
      <3> QED BY <2>7, <2>9, <3>1
    <2>11. h[0] = start BY <2>3, <2>4, <2>7
    <2>12. ASSUME NEW j \in 1..k PROVE h[j] = next[<<j, h[up[j]]>>]
      <3>1. up[j] \in 0..k /\ up[j] < k BY <1>0, <2>3, <2>8
      <3>2. h[up[j]] = g[up[j]] BY <3>1
      <3>3. j \in 0..k /\ h[j] = IF j < k THEN g[j] ELSE next[<<k, g[up[k]]>>] BY <2>3
      <3> HIDE DEF h
      <3>4. CASE j < k
        <4>1. j \in 1..k - 1 BY <2>3, <3>4
        <4>2. h[j] = g[j] BY <3>3, <3>4
        <4> QED BY <2>7, <3>2, <4>1, <4>2
      <3>5. CASE ~(j < k)
        <4>1. j = k BY <2>3, <3>5
        <4>2. h[j] = next[<<k, g[up[k]]>>] BY <3>3, <3>5
        <4> QED BY <3>2, <4>1, <4>2
      <3> QED BY <3>4, <3>5
    <2> HIDE DEF h
    <2>13. h \in B(k) BY <2>10, <2>11, <2>12 DEF Begun
    <2> QED BY <2>3, <2>13
  <1> DEFINE G(n) == CHOOSE g : g \in B(n)
             f == [n \in Nat |-> G(n)[n]]
  <1>2. \A n \in Nat : G(n) \in B(n) BY <1>1
  <1> HIDE DEF G
  <1>3. f \in [Nat -> S]
    <2> SUFFICES ASSUME NEW n \in Nat PROVE G(n)[n] \in S
      OBVIOUS
    <2>1. n \in 0..n /\ G(n) \in [0..n -> S] BY <1>2 DEF Begun
    <2> QED BY <2>1
  <1>4. f[0] = start BY <1>2 DEF Begun
  <1>5. ASSUME NEW n \in Nat \ {0} PROVE f[n] = next[<<n, f[up[n]]>>]
    <2>1. up[n] \in Nat /\ up[n] < n /\ n \in 1..n BY <1>0
    <2>2. G(n)[n] = next[<<n, G(n)[up[n]]>>] BY <1>2, <2>1 DEF Begun
    <2>3. G(n)[up[n]] = G(up[n])[up[n]]
      <3>1. G(n) \in B(n) /\ G(up[n]) \in B(up[n]) /\ up[n] <= n /\ up[n] <= up[n] BY <1>2, <2>1
      <3> QED BY <1>0, <2>1, <3>1, BegunAgree
    <2> QED BY <2>1, <2>2, <2>3
  <1> HIDE DEF f
  <1>6. Recurs(f, S, start, next, up) BY <1>3, <1>4, <1>5 DEF Recurs
  <1> QED BY <1>6

(***************************************************************************)
(*                     The layout of a goodbye table                       *)
(***************************************************************************)

LEMMA Halves ==
  ASSUME NEW k \in Nat
  PROVE  k \div 2 \in Nat /\ 2 * (k \div 2) <= k /\ k <= 2 * (k \div 2) + 1
  OBVIOUS

LEMMA PowerIs ==
  /\ PowerUpTo \in [Nat -> Nat \ {0}]
  /\ \A k \in Nat : PowerUpTo[k] = IF k <= 1 THEN 1 ELSE 2 * PowerUpTo[k \div 2]
  <1> DEFINE P == Nat \ {0}
             next == [w \in Nat \X P |-> IF w[1] <= 1 THEN 1 ELSE 2 * w[2]]
             up == [k \in Nat \ {0} |-> k \div 2]
  <1>1. 1 \in P /\ Stays(next, P) BY DEF Stays
  <1>2. LeadsBack(up) BY Halves DEF LeadsBack
  <1>3. PICK f \in [Nat -> P] : f[0] = 1 /\ \A n \in Nat \ {0} : f[n] = next[<<n, f[up[n]]>>]
    <2> HIDE DEF P, next, up
    <2>1. PICK f : Recurs(f, P, 1, next, up) BY ONLY <1>1, <1>2, Recursion
    <2> QED BY <2>1 DEF Recurs
  <1>4. f = [k \in Nat |-> IF k <= 1 THEN 1 ELSE 2 * f[k \div 2]]
    <2> SUFFICES ASSUME NEW k \in Nat PROVE f[k] = IF k <= 1 THEN 1 ELSE 2 * f[k \div 2]
      OBVIOUS
    <2>1. CASE k = 0 BY <1>3, <2>1
    <2>2. CASE k # 0
      <3>1. k \div 2 \in Nat /\ up[k] = k \div 2 BY <2>2, Halves
      <3>2. <<k, f[k \div 2]>> \in Nat \X P BY <3>1
      <3>3. f[k] = next[<<k, f[k \div 2]>>] BY <1>3, <2>2, <3>1
      <3>4. next[<<k, f[k \div 2]>>] = IF k <= 1 THEN 1 ELSE 2 * f[k \div 2] BY <3>2
      <3> QED BY <3>3, <3>4
    <2> QED BY <2>1, <2>2
  <1>5. PowerUpTo = [k \in Nat |-> IF k <= 1 THEN 1 ELSE 2 * PowerUpTo[k \div 2]]
    BY <1>4 DEF PowerUpTo
  <1>6. \A k \in Nat : PowerUpTo[k] = f[k]
    <2> DEFINE T == {k \in Nat : PowerUpTo[k] # f[k]}
    <2>1. SUFFICES ASSUME T # {} PROVE FALSE
      OBVIOUS
    <2>2. PICK k : k \in T /\ \A j \in T : k <= j BY <2>1, LeastIsIn
    <2>3. k \in Nat /\ PowerUpTo[k] # f[k] BY <2>2
    <2>4. /\ PowerUpTo[k] = IF k <= 1 THEN 1 ELSE 2 * PowerUpTo[k \div 2]
          /\ f[k] = IF k <= 1 THEN 1 ELSE 2 * f[k \div 2]
      BY <1>4, <1>5, <2>3
    <2>5. ~(k <= 1) BY <2>3, <2>4
    <2>6. k \div 2 \in Nat /\ ~(k <= k \div 2) BY <2>3, <2>5, Halves
    <2>7. PowerUpTo[k \div 2] = f[k \div 2] BY <2>2, <2>6
    <2> QED BY <2>3, <2>4, <2>7
  <1>7. PowerUpTo = f BY <1>5, <1>6
  <1> QED BY <1>3, <1>4, <1>7

LEMMA PowerBounds ==
  ASSUME NEW n \in Nat \ {0}
  PROVE  PowerUpTo[n] <= n /\ n < 2 * PowerUpTo[n]
  <1> DEFINE T == {k \in Nat \ {0} : ~(PowerUpTo[k] <= k /\ k < 2 * PowerUpTo[k])}
  <1>1. SUFFICES ASSUME T # {} PROVE FALSE
    OBVIOUS
  <1>2. PICK k : k \in T /\ \A j \in T : k <= j BY <1>1, LeastIsIn
  <1>3. k \in Nat \ {0} /\ ~(PowerUpTo[k] <= k /\ k < 2 * PowerUpTo[k]) BY <1>2
  <1>4. ~(k <= 1)
    <2> SUFFICES ASSUME k <= 1 PROVE FALSE
      OBVIOUS
    <2>1. k = 1 /\ PowerUpTo[k] = 1 BY <1>3, PowerIs
    <2> QED BY <1>3, <2>1
  <1>5. PICK h : h = k \div 2 OBVIOUS
  <1>6. h \in Nat \ {0} /\ 2 * h <= k /\ k <= 2 * h + 1 /\ ~(k <= h) BY <1>3, <1>4, <1>5, Halves
  <1>7. PICK p, q : p = PowerUpTo[h] /\ q = PowerUpTo[k] OBVIOUS
  <1>8. p <= h /\ h < 2 * p BY <1>2, <1>6, <1>7
  <1>9. p \in Nat /\ q = 2 * p BY <1>3, <1>4, <1>5, <1>6, <1>7, PowerIs
  <1>10. q <= k /\ k < 2 * q BY <1>3, <1>6, <1>8, <1>9
  <1> QED BY <1>3, <1>7, <1>10

\* The call of a slot from that of the one above it.
CallBelow(above, slot) ==
  LET k == BstRoot(above.n, above.p)
  IN  IF slot % 2 = 1 THEN [lo |-> above.lo, n |-> k, p |-> above.p \div 2]
      ELSE [lo |-> above.lo + k + 1, n |-> above.n - k - 1, p |-> above.p \div 2]

LEMMA CallsAre ==
  ASSUME NEW count \in Nat
  PROVE  /\ BstCalls(count)[0] = [lo |-> 0, n |-> count, p |-> PowerUpTo[count]]
         /\ \A slot \in Nat \ {0} :
              BstCalls(count)[slot] = CallBelow(BstCalls(count)[(slot - 1) \div 2], slot)
  <1> DEFINE S == [lo : Int, n : Int, p : Nat]
             top == [lo |-> 0, n |-> count, p |-> PowerUpTo[count]]
             next == [w \in Nat \X S |-> CallBelow(w[2], w[1])]
             up == [k \in Nat \ {0} |-> (k - 1) \div 2]
  <1>1. top \in S BY PowerIs
  <1>2. Stays(next, S)
    <2> USE DEF Stays
    <2> SUFFICES ASSUME NEW slot \in Nat, NEW c \in S PROVE CallBelow(c, slot) \in S
      OBVIOUS
    <2>1. c.lo \in Int /\ c.n \in Int /\ c.p \in Nat OBVIOUS
    <2>2. c.p \div 2 \in Nat BY <2>1, Halves
    <2>3. BstRoot(c.n, c.p) \in Int BY <2>1, <2>2 DEF BstRoot
    <2> QED BY <2>1, <2>2, <2>3 DEF CallBelow
  <1>3. LeadsBack(up)
    <2> USE DEF LeadsBack
    <2> SUFFICES ASSUME NEW k \in Nat \ {0} PROVE (k - 1) \div 2 \in Nat /\ (k - 1) \div 2 < k
      OBVIOUS
    <2>1. k - 1 \in Nat OBVIOUS
    <2> QED BY <2>1, Halves
  <1>4. PICK f \in [Nat -> S] : f[0] = top /\ \A n \in Nat \ {0} : f[n] = next[<<n, f[up[n]]>>]
    <2> HIDE DEF S, next, up, top
    <2>1. PICK f : Recurs(f, S, top, next, up) BY ONLY <1>1, <1>2, <1>3, Recursion
    <2> QED BY <2>1 DEF Recurs
  <1> DEFINE F(c) == [slot \in Nat |->
         IF slot = 0 THEN [lo |-> 0, n |-> count, p |-> PowerUpTo[count]]
         ELSE LET above == c[(slot - 1) \div 2]
                  k  == BstRoot(above.n, above.p)
              IN  IF slot % 2 = 1 THEN [lo |-> above.lo, n |-> k, p |-> above.p \div 2]
                  ELSE [lo |-> above.lo + k + 1, n |-> above.n - k - 1, p |-> above.p \div 2]]
  <1>5. \A c : \A slot \in Nat :
          F(c)[slot] = IF slot = 0 THEN top ELSE CallBelow(c[(slot - 1) \div 2], slot)
    BY DEF CallBelow
  <1>6. f = F(f)
    <2>1. ASSUME NEW slot \in Nat PROVE f[slot] = F(f)[slot]
      <3>1. CASE slot = 0 BY <1>4, <1>5, <3>1
      <3>2. CASE slot # 0
        <4>1. up[slot] = (slot - 1) \div 2 /\ (slot - 1) \div 2 \in Nat BY <1>3, <3>2 DEF LeadsBack
        <4>2. <<slot, f[(slot - 1) \div 2]>> \in Nat \X S BY <4>1
        <4>3. next[<<slot, f[(slot - 1) \div 2]>>] = CallBelow(f[(slot - 1) \div 2], slot) BY <4>2
        <4> HIDE DEF F, next, up
        <4> QED BY <1>4, <1>5, <3>2, <4>1, <4>3
      <3> QED BY <3>1, <3>2
    <2>2. F(f) = [slot \in Nat |-> F(f)[slot]] OBVIOUS
    <2> HIDE DEF F
    <2> QED BY <2>1, <2>2
  <1>7. BstCalls(count) = CHOOSE c : c = F(c) BY DEF BstCalls
  <1> HIDE DEF F
  <1>8. BstCalls(count) = F(BstCalls(count)) BY <1>6, <1>7
  <1>9. \A slot \in Nat : BstCalls(count)[slot] =
          IF slot = 0 THEN top ELSE CallBelow(BstCalls(count)[(slot - 1) \div 2], slot)
    BY <1>5, <1>8
  <1> QED BY <1>9

\* Every item has a place among the sorted ones, which have no others.
Sorts(sorted, items) ==
  /\ Len(sorted) = Len(items)
  /\ \A j \in 1..Len(items) : \E r \in 1..Len(items) : sorted[r] = items[j]
  /\ \A r \in 1..Len(items) : \E j \in 1..Len(items) : sorted[r] = items[j]
  /\ \A q, r \in 1..Len(items) : q < r => sorted[q].hash <= sorted[r].hash

Before(items, j) == {i \in DOMAIN items : Precedes(items, i, j)}

LEMMA BeforeIs ==
  ASSUME NEW items, NEW n \in Nat, DOMAIN items = 1..n, \A i \in 1..n : items[i].hash \in Nat
  PROVE  /\ \A j \in 1..n : Cardinality(Before(items, j)) \in 0..n - 1
         /\ \A i, j \in 1..n : Precedes(items, i, j)
              => Cardinality(Before(items, i)) < Cardinality(Before(items, j))
         /\ \A i, j \in 1..n : i # j => Precedes(items, i, j) \/ Precedes(items, j, i)
  <1>1. IsFiniteSet(1..n) /\ Cardinality(1..n) = n
    <2>1. 1 \in Int /\ n \in Int OBVIOUS
    <2>2. IsFiniteSet(1..n) /\ Cardinality(1..n) = IF 1 > n THEN 0 ELSE n - 1 + 1
      BY <2>1, FS_Interval
    <2> QED BY <2>2
  <1>2. ASSUME NEW j \in 1..n
        PROVE  /\ IsFiniteSet(Before(items, j)) /\ Before(items, j) \subseteq 1..n
               /\ j \notin Before(items, j) /\ Cardinality(Before(items, j)) \in 0..n - 1
    <2>1. PICK S, T : S = Before(items, j) /\ T = (1..n) \ {j} OBVIOUS
    <2>2. S \in SUBSET T BY <2>1 DEF Before, Precedes
    <2>3. IsFiniteSet(T) /\ Cardinality(T) = n - 1 BY <1>1, <2>1, FS_RemoveElement
    <2>4. IsFiniteSet(S) /\ Cardinality(S) <= n - 1 BY <2>2, <2>3, FS_Subset
    <2>5. Cardinality(S) \in Nat BY <2>4, FS_CardinalityType
    <2>6. Cardinality(S) \in 0..n - 1 BY <2>4, <2>5
    <2> QED BY <2>1, <2>2, <2>4, <2>6
  <1>3. ASSUME NEW i \in 1..n, NEW j \in 1..n, Precedes(items, i, j)
        PROVE  Cardinality(Before(items, i)) < Cardinality(Before(items, j))
    <2>1. PICK S, T : S = Before(items, i) /\ T = Before(items, j) OBVIOUS
    <2>2. S \in SUBSET T
      <3> SUFFICES ASSUME NEW k \in 1..n, Precedes(items, k, i) PROVE Precedes(items, k, j)
        BY <2>1 DEF Before
      <3>1. items[i].hash \in Nat /\ items[j].hash \in Nat /\ items[k].hash \in Nat OBVIOUS
      <3> QED BY <1>3, <3>1 DEF Precedes
    <2>3. i \in T /\ i \notin S BY <1>2, <1>3, <2>1 DEF Before
    <2>4. IsFiniteSet(T) /\ Cardinality(T) \in Nat /\ Cardinality(S) \in Nat BY <1>2, <2>1
    <2>5. Cardinality(S) <= Cardinality(T) /\ (Cardinality(T) = Cardinality(S) => T = S)
      BY <2>2, <2>4, FS_Subset
    <2>6. Cardinality(S) # Cardinality(T) BY <2>3, <2>5
    <2> QED BY <2>1, <2>4, <2>5, <2>6
  <1>4. ASSUME NEW i \in 1..n, NEW j \in 1..n, i # j
        PROVE  Precedes(items, i, j) \/ Precedes(items, j, i)
    <2>1. items[i].hash \in Nat /\ items[j].hash \in Nat /\ i \in Nat /\ j \in Nat OBVIOUS
    <2> QED BY <1>4, <2>1 DEF Precedes
  <1> QED BY <1>2, <1>3, <1>4

LEMMA ByHashSorts ==
  ASSUME NEW items, Listed(items), \A i \in 1..Len(items) : items[i].hash \in Nat
  PROVE  Sorts(ByHash(items), items)
  <1>1. PICK n : n = Len(items) OBVIOUS
  <1>2. n \in Nat /\ DOMAIN items = 1..n BY <1>1, ListedHas
  <1> DEFINE place(j) == Cardinality(Before(items, j)) + 1
             f == [j \in 1..n |-> place(j)]
             at(r) == CHOOSE j \in 1..n : place(j) = r
  <1>3. /\ \A j \in 1..n : place(j) \in 1..n
        /\ \A i, j \in 1..n : Precedes(items, i, j) => place(i) < place(j)
        /\ \A i, j \in 1..n : i # j => Precedes(items, i, j) \/ Precedes(items, j, i)
    <2>1. \A i \in 1..n : items[i].hash \in Nat BY <1>1
    <2>2. /\ \A j \in 1..n : Cardinality(Before(items, j)) \in 0..n - 1
          /\ \A i, j \in 1..n : Precedes(items, i, j)
               => Cardinality(Before(items, i)) < Cardinality(Before(items, j))
          /\ \A i, j \in 1..n : i # j => Precedes(items, i, j) \/ Precedes(items, j, i)
      BY <1>2, <2>1, BeforeIs
    <2> QED BY <1>2, <2>2
  <1>4. ByHash(items) = [r \in 1..n |-> items[at(r)]] BY <1>1, <1>2 DEF ByHash, Before
  <1> HIDE DEF place
  <1>5. f \in Injection(1..n, 1..n)
    <2>1. f \in [1..n -> 1..n] BY <1>3
    <2>2. \A i, j \in 1..n : f[i] = f[j] => i = j
      <3> SUFFICES ASSUME NEW i \in 1..n, NEW j \in 1..n, place(i) = place(j), i # j PROVE FALSE
        OBVIOUS
      <3>1. place(i) \in 1..n /\ place(j) \in 1..n BY <1>3
      <3> QED BY <1>3, <3>1
    <2> QED BY <2>1, <2>2 DEF Injection, IsInjective
  <1>6. f \in Surjection(1..n, 1..n)
    <2>1. IsFiniteSet(1..n)
      <3>1. 1 \in Int /\ n \in Int BY <1>2
      <3> QED BY <3>1, FS_Interval
    <2> HIDE DEF f
    <2> QED BY <1>5, <2>1, FS_Injection
  <1>7. \A r \in 1..n : at(r) \in 1..n /\ place(at(r)) = r
    <2>1. \A r \in 1..n : \E j \in 1..n : f[j] = r BY <1>6 DEF Surjection
    <2>2. \A r \in 1..n : \E j \in 1..n : place(j) = r BY <2>1
    <2> QED BY <2>2
  <1>8. \A j \in 1..n : at(place(j)) = j
    <2> SUFFICES ASSUME NEW j \in 1..n, at(place(j)) # j PROVE FALSE
      OBVIOUS
    <2>1. place(j) \in 1..n BY <1>3
    <2>2. PICK i : i = at(place(j)) OBVIOUS
    <2>3. i \in 1..n /\ place(i) = place(j) BY <1>7, <2>1, <2>2
    <2> HIDE DEF at
    <2> QED BY <1>3, <2>1, <2>2, <2>3
  <1> HIDE DEF at
  <1>9. PICK s : s = ByHash(items) OBVIOUS
  <1>10. Len(s) = n /\ \A r \in 1..n : s[r] = items[at(r)] BY <1>2, <1>4, <1>9
  <1>11. \A j \in 1..n : \E r \in 1..n : s[r] = items[j]
    <2> SUFFICES ASSUME NEW j \in 1..n PROVE s[place(j)] = items[j] /\ place(j) \in 1..n
      OBVIOUS
    <2> QED BY <1>3, <1>8, <1>10
  <1>12. \A r \in 1..n : \E j \in 1..n : s[r] = items[j] BY <1>7, <1>10
  <1>13. ASSUME NEW q \in 1..n, NEW r \in 1..n, q < r PROVE s[q].hash <= s[r].hash
    <2>1. PICK i, j : i = at(q) /\ j = at(r) OBVIOUS
    <2>2. i \in 1..n /\ j \in 1..n /\ place(i) = q /\ place(j) = r BY <1>7, <2>1
    <2>3. Precedes(items, i, j) BY <1>3, <1>13, <2>2
    <2>4. items[i].hash \in Nat /\ items[j].hash \in Nat BY <1>1, <2>2
    <2>5. items[i].hash <= items[j].hash BY <2>3, <2>4 DEF Precedes
    <2> QED BY <1>10, <2>1, <2>5
  <1> QED BY <1>1, <1>9, <1>10, <1>11, <1>12, <1>13 DEF Sorts

Clamped(v, p) == IF v < 0 THEN 0 ELSE IF v > p THEN p ELSE v

\* A slot in the row of q slots in which it is the one after j: a full tree below it,
\* and its share of the m items in the last row of all.
Shaped(count, full, slot, q, j, c) ==
  /\ q \in Nat \ {0} /\ j \in Nat /\ j < q /\ slot = q - 1 + j
  /\ c.lo \in Nat /\ c.lo + c.n <= count
  /\ \E x \in Nat \ {0} : c.p = PowerUpTo[x]
  /\ q * c.p = full
  /\ c.n = c.p - 1 + Clamped(count - full + 1 - j * c.p, c.p)

LEMMA Products ==
  ASSUME NEW j \in Nat, NEW half \in Nat
  PROVE  /\ (2 * j) * half = j * (2 * half) /\ (2 * j + 1) * half = j * (2 * half) + half
         /\ j * half \in Nat /\ (half > 0 => j <= j * half)
  OBVIOUS

LEMMA RootIs ==
  ASSUME NEW half \in Nat \ {0}, NEW p, p = 2 * half, NEW v \in Int, NEW n, n = p - 1 + Clamped(v, p)
  PROVE  /\ BstRoot(n, p) = half - 1 + Clamped(v, half)
         /\ n - BstRoot(n, p) - 1 = half - 1 + Clamped(v - half, half)
         /\ BstRoot(n, p) \in 0..n - 1
  <1>1. p \div 2 = half /\ p \in Nat /\ n \in Nat BY DEF Clamped
  <1>2. BstRoot(n, p) = IF n >= p - 1 + half THEN p - 1 ELSE p - 1 - (p - 1 + half - n)
    BY <1>1 DEF BstRoot
  <1> HIDE DEF BstRoot
  <1>3. CASE v >= half BY <1>1, <1>2, <1>3 DEF Clamped
  <1>4. CASE v < half BY <1>1, <1>2, <1>4 DEF Clamped
  <1> QED BY <1>3, <1>4

\* What the two calls below one are given.
Parts(c, l, r) ==
  /\ l = [lo |-> c.lo, n |-> BstRoot(c.n, c.p), p |-> c.p \div 2]
  /\ r = [lo |-> c.lo + BstRoot(c.n, c.p) + 1, n |-> c.n - BstRoot(c.n, c.p) - 1, p |-> c.p \div 2]

LEMMA BelowShaped ==
  ASSUME NEW count \in Nat, NEW full \in Nat, full <= count, NEW slot, NEW q, NEW j, NEW c,
         Shaped(count, full, slot, q, j, c), c.n >= 1, NEW l, NEW r, Parts(c, l, r)
  PROVE  /\ slot \in 0..count - 1 /\ BstRoot(c.n, c.p) \in 0..c.n - 1
         /\ l.n >= 1 => Shaped(count, full, 2 * slot + 1, 2 * q, 2 * j, l)
         /\ r.n >= 1 => Shaped(count, full, 2 * slot + 2, 2 * q, 2 * j + 1, r)
  <1>0. PICK k : /\ k = BstRoot(c.n, c.p)
                 /\ l = [lo |-> c.lo, n |-> k, p |-> c.p \div 2]
                 /\ r = [lo |-> c.lo + k + 1, n |-> c.n - k - 1, p |-> c.p \div 2]
    BY DEF Parts
  <1>1. PICK x \in Nat \ {0} : c.p = PowerUpTo[x] BY DEF Shaped
  <1>2. PICK p, n, lo, a, m : p = c.p /\ n = c.n /\ lo = c.lo /\ a = j * p /\ m = count - full + 1
    OBVIOUS
  <1>3. /\ q \in Nat \ {0} /\ j \in Nat /\ j < q /\ slot = q - 1 + j /\ lo \in Nat /\ lo + n <= count
        /\ q * p = full /\ n = p - 1 + Clamped(m - a, p)
    BY <1>2 DEF Shaped
  <1>4. p \in Nat \ {0} BY <1>1, <1>2, PowerIs
  <1>5. a \in Nat /\ m \in Nat /\ n \in Nat
    <2>1. a \in Nat BY <1>2, <1>3, <1>4, Products
    <2>2. m \in Nat BY <1>2
    <2> QED BY <1>3, <1>4, <2>1, <2>2 DEF Clamped
  <1>6. CASE x = 1
    <2>1. p = 1 BY <1>1, <1>2, <1>6, PowerIs
    <2>2. q = full /\ a = j BY <1>2, <1>3, <2>1
    <2>3. n = Clamped(m - j, 1) /\ n >= 1 BY <1>2, <1>3, <1>5, <2>1, <2>2 DEF Clamped
    <2>4. n = 1 /\ m - j >= 1 BY <1>3, <1>5, <2>3 DEF Clamped
    <2>5. slot \in 0..count - 1 BY <1>2, <1>3, <2>2, <2>4
    <2>6. k = 0
      <3>1. k = BstRoot(1, 1) BY <1>0, <1>2, <2>1, <2>4
      <3> QED BY <3>1 DEF BstRoot
    <2>7. l.n = 0 /\ r.n = 0 BY <1>0, <1>2, <2>4, <2>6
    <2> QED BY <1>0, <1>2, <2>4, <2>5, <2>6, <2>7
  <1>7. CASE x # 1
    <2>1. PICK y, half : y = x \div 2 /\ half = PowerUpTo[y] OBVIOUS
    <2>2. y \in Nat \ {0}
      <3>1. x \in Nat /\ x > 1 BY <1>7
      <3> QED BY <2>1, <3>1, Halves
    <2>3. half \in Nat \ {0} /\ p = 2 * half
      <3>1. x \in Nat /\ ~(x <= 1) BY <1>7
      <3>2. PowerUpTo[x] = 2 * PowerUpTo[x \div 2] BY <3>1, PowerIs
      <3> QED BY <1>1, <1>2, <2>1, <2>2, <3>2, PowerIs
    <2>4. p \div 2 = half BY <2>3
    <2>5. /\ k = half - 1 + Clamped(m - a, half) /\ n - k - 1 = half - 1 + Clamped(m - a - half, half)
          /\ k \in 0..n - 1
      <3>1. PICK v : v = m - a OBVIOUS
      <3>2. v \in Int BY <1>5, <3>1
      <3> QED BY <1>0, <1>2, <1>3, <2>3, <3>1, <3>2, RootIs
    <2>6. /\ (2 * q) * half = full /\ (2 * j) * half = a /\ (2 * j + 1) * half = a + half
          /\ 2 * q <= full
      <3>1. (2 * q) * half = q * (2 * half) /\ (2 * j) * half = j * (2 * half)
        BY <1>3, <2>3, Products
      <3>2. (2 * j + 1) * half = j * (2 * half) + half BY <1>3, <2>3, Products
      <3>3. 2 * q \in Nat /\ half > 0 BY <1>3, <2>3
      <3>4. 2 * q <= (2 * q) * half BY <2>3, <3>3, Products
      <3> QED BY <1>2, <1>3, <2>3, <3>1, <3>2, <3>4
    <2>7. slot \in 0..count - 1 BY <1>3, <2>6
    <2>8. l.lo = lo /\ l.n = k /\ l.p = half /\ r.lo = lo + k + 1 /\ r.n = n - k - 1 /\ r.p = half
      BY <1>0, <1>2, <2>4
    <2>9. \E z \in Nat \ {0} : half = PowerUpTo[z] BY <2>1, <2>2
    <2>10. Shaped(count, full, 2 * slot + 1, 2 * q, 2 * j, l)
      <3>1. /\ 2 * q \in Nat \ {0} /\ 2 * j \in Nat /\ 2 * j < 2 * q /\ 2 * slot + 1 = 2 * q - 1 + 2 * j
            /\ lo + k <= count
        BY <1>3, <1>5, <2>5
      <3> QED BY <1>2, <1>3, <2>5, <2>6, <2>8, <2>9, <3>1 DEF Shaped
    <2>11. Shaped(count, full, 2 * slot + 2, 2 * q, 2 * j + 1, r)
      <3>1. /\ 2 * q \in Nat \ {0} /\ 2 * j + 1 \in Nat /\ 2 * j + 1 < 2 * q
            /\ 2 * slot + 2 = 2 * q - 1 + (2 * j + 1)
            /\ lo + k + 1 \in Nat /\ (lo + k + 1) + (n - k - 1) <= count
        BY <1>3, <1>5, <2>5
      <3>2. n - k - 1 = half - 1 + Clamped(m - (a + half), half)
        <4>1. m - a - half = m - (a + half) BY <1>5, <2>3
        <4> QED BY <2>5, <4>1
      <3>3. r.n = r.p - 1 + Clamped(count - full + 1 - (2 * j + 1) * r.p, r.p)
        <4>1. PICK z : z = (2 * j + 1) * half OBVIOUS
        <4>2. z = a + half BY <2>6, <4>1
        <4> QED BY <1>2, <2>8, <3>2, <4>1, <4>2
      <3>4. (2 * q) * r.p = full /\ \E z \in Nat \ {0} : r.p = PowerUpTo[z] BY <2>6, <2>8, <2>9
      <3>5. r.lo \in Nat /\ r.lo + r.n <= count BY <2>8, <3>1
      <3> QED BY <3>1, <3>3, <3>4, <3>5 DEF Shaped
    <2> QED BY <1>0, <1>2, <2>5, <2>7, <2>10, <2>11
  <1> QED BY <1>6, <1>7

LEMMA TopShaped ==
  ASSUME NEW count \in Nat \ {0}
  PROVE  /\ PowerUpTo[count] \in Nat /\ PowerUpTo[count] <= count
         /\ Shaped(count, PowerUpTo[count], 0, 1, 0, BstCalls(count)[0])
         /\ BstCalls(count)[0].lo = 0 /\ BstCalls(count)[0].n = count
  <1>1. PICK full, c : full = PowerUpTo[count] /\ c = BstCalls(count)[0] OBVIOUS
  <1>2. full \in Nat \ {0} /\ full <= count /\ count < 2 * full BY <1>1, PowerIs, PowerBounds
  <1>3. c = [lo |-> 0, n |-> count, p |-> full] BY <1>1, CallsAre
  <1>4. c.lo = 0 /\ c.n = count /\ c.p = full BY <1>3
  <1>5. 0 * full = 0 /\ 1 * full = full BY <1>2
  <1>6. count = full - 1 + Clamped(count - full + 1 - 0, full) BY <1>2 DEF Clamped
  <1>7. \E x \in Nat \ {0} : c.p = PowerUpTo[x] BY <1>1, <1>4
  <1> QED BY <1>1, <1>2, <1>4, <1>5, <1>6, <1>7 DEF Shaped

\* One comparison of the search.
NextSlot(data, at, n, hash, i) ==
  IF i >= n \/ data[at + 2 + i].hash = hash THEN i
  ELSE IF hash < data[at + 2 + i].hash THEN 2 * i + 1 ELSE 2 * i + 2

Seeks(f, data, at, n, hash) ==
  f \in [Nat -> Nat] /\ f[0] = 0 /\ \A d \in Nat : f[d + 1] = NextSlot(data, at, n, hash, f[d])

LEMMA FindIs ==
  ASSUME NEW data, NEW at, NEW n \in Nat, NEW hash
  PROVE  \E f : /\ Seeks(f, data, at, n, hash)
                /\ f[n] < n /\ data[at + 2 + f[n]].hash = hash => Find(data, at, n, hash) = data[at + 2 + f[n]]
  <1> DEFINE S == Nat
             next == [w \in Nat \X S |-> NextSlot(data, at, n, hash, w[2])]
             up == [d \in Nat \ {0} |-> d - 1]
  <1>1. 0 \in S /\ Stays(next, S) BY DEF Stays, NextSlot
  <1>2. LeadsBack(up) BY DEF LeadsBack
  <1>3. PICK f \in [Nat -> Nat] : f[0] = 0 /\ \A d \in Nat \ {0} : f[d] = next[<<d, f[up[d]]>>]
    <2> HIDE DEF next, up, S
    <2>1. PICK f : Recurs(f, S, 0, next, up) BY ONLY <1>1, <1>2, Recursion
    <2> QED BY <2>1 DEF Recurs, S
  <1> DEFINE F(s) == [d \in Nat |->
               IF d = 0 THEN 0
               ELSE LET i == s[d - 1]
                    IN  IF i >= n \/ data[at + 2 + i].hash = hash THEN i
                        ELSE IF hash < data[at + 2 + i].hash THEN 2 * i + 1 ELSE 2 * i + 2]
             slot == CHOOSE s : s = F(s)
  <1>4. \A s : \A d \in Nat : F(s)[d] = IF d = 0 THEN 0 ELSE NextSlot(data, at, n, hash, s[d - 1])
    BY DEF NextSlot
  <1>5. f = F(f)
    <2>1. ASSUME NEW d \in Nat PROVE f[d] = F(f)[d]
      <3>1. CASE d = 0 BY <1>3, <1>4, <3>1
      <3>2. CASE d # 0
        <4>1. up[d] = d - 1 /\ d - 1 \in Nat BY <3>2
        <4>2. <<d, f[d - 1]>> \in Nat \X S BY <4>1
        <4>3. next[<<d, f[d - 1]>>] = NextSlot(data, at, n, hash, f[d - 1]) BY <4>2
        <4> HIDE DEF F, next, up
        <4> QED BY <1>3, <1>4, <3>2, <4>1, <4>3
      <3> QED BY <3>1, <3>2
    <2>2. F(f) = [d \in Nat |-> F(f)[d]] OBVIOUS
    <2> HIDE DEF F
    <2> QED BY <2>1, <2>2
  <1>6. Find(data, at, n, hash) =
          IF slot[n] < n /\ data[at + 2 + slot[n]].hash = hash THEN data[at + 2 + slot[n]] ELSE None
    BY DEF Find
  <1> HIDE DEF F
  <1>7. slot = F(slot) BY <1>5
  <1> HIDE DEF slot
  <1>8. \A d \in Nat : slot[d] = f[d]
    <2> DEFINE T == {d \in Nat : slot[d] # f[d]}
    <2>1. SUFFICES ASSUME T # {} PROVE FALSE
      OBVIOUS
    <2>2. PICK d : d \in T /\ \A e \in T : d <= e BY <2>1, LeastIsIn
    <2>3. d \in Nat /\ slot[d] # f[d] BY <2>2
    <2>4. /\ slot[d] = IF d = 0 THEN 0 ELSE NextSlot(data, at, n, hash, slot[d - 1])
          /\ f[d] = IF d = 0 THEN 0 ELSE NextSlot(data, at, n, hash, f[d - 1])
      BY <1>4, <1>5, <1>7, <2>3
    <2>5. d # 0 BY <2>3, <2>4
    <2>6. d - 1 \in Nat /\ ~(d <= d - 1) BY <2>3, <2>5
    <2>7. slot[d - 1] = f[d - 1] BY <2>2, <2>6
    <2> QED BY <2>3, <2>4, <2>7
  <1>9. Seeks(f, data, at, n, hash)
    <2>1. ASSUME NEW d \in Nat PROVE f[d + 1] = NextSlot(data, at, n, hash, f[d])
      <3>1. d + 1 \in Nat /\ d + 1 # 0 /\ d + 1 - 1 = d OBVIOUS
      <3>2. f[d + 1] = F(f)[d + 1] BY <1>5
      <3> QED BY <1>4, <3>1, <3>2
    <2> QED BY <1>3, <2>1 DEF Seeks
  <1>10. slot[n] = f[n] BY <1>8
  <1> QED BY <1>6, <1>9, <1>10

\* Where the item of a slot is among the sorted ones.
PlaceOf(count, slot) ==
  BstCalls(count)[slot].lo + BstRoot(BstCalls(count)[slot].n, BstCalls(count)[slot].p) + 1

Hits(count, sorted, hash, slot) ==
  /\ slot \in 0..count - 1 /\ PlaceOf(count, slot) \in 1..count
  /\ sorted[PlaceOf(count, slot)].hash = hash

\* The hash is among those below the slot, of which some are passed with every comparison.
Nears(count, sorted, hash, slot, d) ==
  \E q, j : /\ Shaped(count, PowerUpTo[count], slot, q, j, BstCalls(count)[slot])
            /\ BstCalls(count)[slot].n <= count - d
            /\ \E r \in 1..count : /\ BstCalls(count)[slot].lo < r
                                   /\ r <= BstCalls(count)[slot].lo + BstCalls(count)[slot].n
                                   /\ sorted[r].hash = hash

LEMMA Nearer ==
  ASSUME NEW count \in Nat \ {0}, NEW sorted, NEW hash \in Nat, NEW slot \in Nat, NEW d \in Nat,
         \A r \in 1..count : sorted[r].hash \in Nat,
         \A q, r \in 1..count : q < r => sorted[q].hash <= sorted[r].hash,
         NEW data, NEW at, \A i \in 0..count - 1 : data[at + 2 + i].hash = sorted[PlaceOf(count, i)].hash,
         Nears(count, sorted, hash, slot, d),
         NEW then, then = NextSlot(data, at, count, hash, slot)
  PROVE  Hits(count, sorted, hash, then) \/ Nears(count, sorted, hash, then, d + 1)
  <1>1. PICK q, j : /\ Shaped(count, PowerUpTo[count], slot, q, j, BstCalls(count)[slot])
                    /\ BstCalls(count)[slot].n <= count - d
                    /\ \E r \in 1..count : /\ BstCalls(count)[slot].lo < r
                                           /\ r <= BstCalls(count)[slot].lo + BstCalls(count)[slot].n
                                           /\ sorted[r].hash = hash
    BY DEF Nears
  <1>2. PICK c, full, k : c = BstCalls(count)[slot] /\ full = PowerUpTo[count] /\ k = BstRoot(c.n, c.p)
    OBVIOUS
  <1>3. PICK r \in 1..count : c.lo < r /\ r <= c.lo + c.n /\ sorted[r].hash = hash BY <1>1, <1>2
  <1>4. Shaped(count, full, slot, q, j, c) /\ c.n <= count - d BY <1>1, <1>2
  <1>5. full \in Nat /\ full <= count BY <1>2, TopShaped
  <1>6. c.lo \in Nat /\ c.lo + c.n <= count BY <1>4 DEF Shaped
  <1>7. c.n \in Nat
    <2>1. PICK x \in Nat \ {0} : c.p = PowerUpTo[x] BY <1>4 DEF Shaped
    <2>2. c.p \in Nat \ {0} BY <2>1, PowerIs
    <2>3. PICK v : v = j * c.p OBVIOUS
    <2>4. v \in Nat BY <1>4, <2>2, <2>3, Products DEF Shaped
    <2>5. c.n = c.p - 1 + Clamped(count - full + 1 - v, c.p) BY <1>4, <2>3 DEF Shaped
    <2> QED BY <1>5, <2>2, <2>4, <2>5 DEF Clamped
  <1>8. c.n >= 1 BY <1>3, <1>6, <1>7
  <1>9. PICK l, g : /\ l = [lo |-> c.lo, n |-> k, p |-> c.p \div 2]
                    /\ g = [lo |-> c.lo + k + 1, n |-> c.n - k - 1, p |-> c.p \div 2]
    OBVIOUS
  <1>10. /\ slot \in 0..count - 1 /\ k \in 0..c.n - 1
         /\ l.n >= 1 => Shaped(count, full, 2 * slot + 1, 2 * q, 2 * j, l)
         /\ g.n >= 1 => Shaped(count, full, 2 * slot + 2, 2 * q, 2 * j + 1, g)
    <2>1. Parts(c, l, g) BY <1>2, <1>9 DEF Parts
    <2>2. /\ slot \in 0..count - 1 /\ BstRoot(c.n, c.p) \in 0..c.n - 1
          /\ l.n >= 1 => Shaped(count, full, 2 * slot + 1, 2 * q, 2 * j, l)
          /\ g.n >= 1 => Shaped(count, full, 2 * slot + 2, 2 * q, 2 * j + 1, g)
      <3>1. count \in Nat OBVIOUS
      <3> QED BY ONLY <1>4, <1>5, <1>8, <2>1, <3>1, BelowShaped
    <2> QED BY <1>2, <2>2
  <1>11. BstCalls(count)[2 * slot + 1] = l
    <2>1. PICK s : s = 2 * slot + 1 OBVIOUS
    <2>2. s \in Nat \ {0} /\ (s - 1) \div 2 = slot /\ s % 2 = 1 BY <2>1
    <2>3. BstCalls(count)[s] = CallBelow(c, s) BY <1>2, <2>2, CallsAre
    <2> QED BY <1>2, <1>9, <2>1, <2>2, <2>3 DEF CallBelow
  <1>12. BstCalls(count)[2 * slot + 2] = g
    <2>1. PICK s : s = 2 * slot + 2 OBVIOUS
    <2>2. s \in Nat \ {0} /\ (s - 1) \div 2 = slot /\ s % 2 # 1 BY <2>1
    <2>3. BstCalls(count)[s] = CallBelow(c, s) BY <1>2, <2>2, CallsAre
    <2> QED BY <1>2, <1>9, <2>1, <2>2, <2>3 DEF CallBelow
  <1>13. PICK at1, found : at1 = c.lo + k + 1 /\ found = data[at + 2 + slot].hash OBVIOUS
  <1>14. at1 = PlaceOf(count, slot) /\ at1 \in 1..count /\ at1 \in Nat
    <2>1. at1 = PlaceOf(count, slot) BY <1>2, <1>13 DEF PlaceOf
    <2>2. at1 \in 1..count BY <1>6, <1>7, <1>10, <1>13
    <2> QED BY <2>1, <2>2
  <1>15. found = sorted[at1].hash /\ found \in Nat BY <1>10, <1>13, <1>14
  <1>16. CASE found = hash
    <2>1. then = slot BY <1>13, <1>16 DEF NextSlot
    <2> QED BY <1>10, <1>14, <1>15, <1>16, <2>1 DEF Hits
  <1>17. CASE hash < found
    <2>1. then = 2 * slot + 1 BY <1>10, <1>13, <1>15, <1>17 DEF NextSlot
    <2>2. r < at1
      <3> SUFFICES ASSUME ~(r < at1) PROVE FALSE
        OBVIOUS
      <3>1. r = at1 \/ at1 < r BY <1>14
      <3>2. sorted[at1].hash <= sorted[r].hash BY <1>14, <1>15, <3>1
      <3> QED BY <1>3, <1>15, <1>17, <3>2
    <2>3. l.lo = c.lo /\ l.n = k BY <1>9
    <2>4. l.lo < r /\ r <= l.lo + l.n /\ l.n >= 1 /\ l.n <= count - (d + 1)
      BY <1>3, <1>4, <1>6, <1>7, <1>10, <1>13, <2>2, <2>3
    <2> QED BY <1>2, <1>3, <1>10, <1>11, <2>1, <2>4 DEF Nears
  <1>18. CASE found < hash
    <2>1. then = 2 * slot + 2 BY <1>10, <1>13, <1>15, <1>18 DEF NextSlot
    <2>2. at1 < r
      <3> SUFFICES ASSUME ~(at1 < r) PROVE FALSE
        OBVIOUS
      <3>1. r = at1 \/ r < at1 BY <1>14
      <3>2. sorted[r].hash <= sorted[at1].hash BY <1>14, <1>15, <3>1
      <3> QED BY <1>3, <1>15, <1>18, <3>2
    <2>3. g.lo = c.lo + k + 1 /\ g.n = c.n - k - 1 BY <1>9
    <2>4. g.lo < r /\ r <= g.lo + g.n /\ g.n >= 1 /\ g.n <= count - (d + 1)
      BY <1>3, <1>4, <1>6, <1>7, <1>10, <1>13, <2>2, <2>3
    <2> QED BY <1>2, <1>3, <1>10, <1>12, <2>1, <2>4 DEF Nears
  <1> QED BY <1>15, <1>16, <1>17, <1>18

\* The table has the sorted items in its slots, and the hash is that of one.
Arranged(count, sorted, hash, data, at) ==
  /\ count \in Nat \ {0} /\ hash \in Nat
  /\ \A r \in 1..count : sorted[r].hash \in Nat
  /\ \A q, r \in 1..count : q < r => sorted[q].hash <= sorted[r].hash
  /\ \E r \in 1..count : sorted[r].hash = hash
  /\ \A i \in 0..count - 1 : data[at + 2 + i].hash = sorted[PlaceOf(count, i)].hash

Finds(count, sorted, hash, data, at, slot) ==
  Hits(count, sorted, hash, slot) /\ Find(data, at, count, hash) = data[at + 2 + slot]

LEMMA SearchHits ==
  ASSUME NEW count, NEW sorted, NEW hash, NEW data, NEW at, Arranged(count, sorted, hash, data, at)
  PROVE  \E slot : Finds(count, sorted, hash, data, at, slot)
  <1>0. /\ count \in Nat \ {0} /\ count \in Nat /\ hash \in Nat
        /\ \A r \in 1..count : sorted[r].hash \in Nat
        /\ \A q, r \in 1..count : q < r => sorted[q].hash <= sorted[r].hash
        /\ \E r \in 1..count : sorted[r].hash = hash
        /\ \A i \in 0..count - 1 : data[at + 2 + i].hash = sorted[PlaceOf(count, i)].hash
    BY DEF Arranged
  <1>1. PICK f : /\ Seeks(f, data, at, count, hash)
                 /\ f[count] < count /\ data[at + 2 + f[count]].hash = hash
                      => Find(data, at, count, hash) = data[at + 2 + f[count]]
    BY <1>0, FindIs
  <1>2. /\ f \in [Nat -> Nat] /\ f[0] = 0
        /\ \A d \in Nat : f[d + 1] = NextSlot(data, at, count, hash, f[d])
    BY <1>1 DEF Seeks
  <1> DEFINE Good(d) == Hits(count, sorted, hash, f[d]) \/ Nears(count, sorted, hash, f[d], d)
             T == {d \in Nat : ~Good(d)}
  <1>3. T = {}
    <2>1. SUFFICES ASSUME T # {} PROVE FALSE
      OBVIOUS
    <2>2. PICK d : d \in T /\ \A e \in T : d <= e BY <2>1, LeastIsIn
    <2>3. d \in Nat /\ ~Good(d) BY <2>2
    <2>4. CASE d = 0
      <3>1. PICK c : c = BstCalls(count)[0] OBVIOUS
      <3>2. Shaped(count, PowerUpTo[count], 0, 1, 0, c) /\ c.lo = 0 /\ c.n = count
        BY <1>0, <3>1, TopShaped
      <3>3. PICK r \in 1..count : sorted[r].hash = hash BY <1>0
      <3>4. c.lo < r /\ r <= c.lo + c.n /\ c.n <= count - 0 BY <1>0, <3>2
      <3>5. Nears(count, sorted, hash, 0, 0) BY <3>1, <3>2, <3>3, <3>4 DEF Nears
      <3> QED BY <1>2, <2>3, <2>4, <3>5
    <2>5. CASE d # 0
      <3>1. PICK e : e = d - 1 OBVIOUS
      <3>2. e \in Nat /\ ~(d <= e) /\ d = e + 1 BY <2>3, <2>5, <3>1
      <3>3. Good(e) BY <2>2, <3>2
      <3>4. f[d] = NextSlot(data, at, count, hash, f[e]) /\ f[e] \in Nat BY <1>2, <3>2
      <3>5. CASE Hits(count, sorted, hash, f[e])
        <4>1. f[e] \in 0..count - 1 /\ data[at + 2 + f[e]].hash = hash BY <1>0, <3>5 DEF Hits
        <4>2. f[d] = f[e] BY <1>0, <3>4, <4>1 DEF NextSlot
        <4> QED BY <2>3, <3>5, <4>2
      <3>6. CASE Nears(count, sorted, hash, f[e], e)
        <4> HIDE DEF T
        <4>1. Hits(count, sorted, hash, f[d]) \/ Nears(count, sorted, hash, f[d], e + 1)
          BY <1>0, <3>2, <3>4, <3>6, Nearer
        <4> QED BY <2>3, <3>2, <4>1
      <3> QED BY <3>3, <3>5, <3>6
    <2> QED BY <2>4, <2>5
  <1>4. Good(count) BY <1>0, <1>3
  <1>5. Hits(count, sorted, hash, f[count])
    <2> SUFFICES ASSUME Nears(count, sorted, hash, f[count], count) PROVE FALSE
      BY <1>4
    <2>1. PICK c : c = BstCalls(count)[f[count]] OBVIOUS
    <2>2. /\ c.n <= count - count
          /\ \E r \in 1..count : c.lo < r /\ r <= c.lo + c.n
          /\ \E q, j : Shaped(count, PowerUpTo[count], f[count], q, j, c)
      BY <2>1 DEF Nears
    <2>3. c.lo \in Nat BY <2>2 DEF Shaped
    <2>4. c.n \in Int
      <3>1. PICK q, j : Shaped(count, PowerUpTo[count], f[count], q, j, c) BY <2>2
      <3>2. PICK x \in Nat \ {0} : c.p = PowerUpTo[x] BY <3>1 DEF Shaped
      <3>3. c.p \in Nat \ {0} BY <3>2, PowerIs
      <3>4. PICK v, full : v = j * c.p /\ full = PowerUpTo[count] OBVIOUS
      <3>5. v \in Nat BY <3>1, <3>3, <3>4, Products DEF Shaped
      <3>6. full \in Nat BY <1>0, <3>4, PowerIs
      <3>7. c.n = c.p - 1 + Clamped(count - full + 1 - v, c.p) BY <3>1, <3>4 DEF Shaped
      <3> QED BY <1>0, <3>3, <3>5, <3>6, <3>7 DEF Clamped
    <2> QED BY <1>0, <2>2, <2>3, <2>4
  <1>6. f[count] \in 0..count - 1 /\ data[at + 2 + f[count]].hash = hash BY <1>0, <1>5 DEF Hits
  <1>7. f[count] < count BY <1>0, <1>6
  <1>8. Finds(count, sorted, hash, data, at, f[count]) BY <1>1, <1>5, <1>6, <1>7 DEF Finds
  <1> QED BY <1>8

\* Whatever hash one of the items has, the search finds an item that has it.
\* The items are in the table after so many cells.
InTable(items, n, data, at) ==
  /\ Listed(items) /\ n = Len(items) /\ at \in Nat
  /\ \A i \in 1..n : items[i].hash \in Nat
  /\ \A i \in 1..n : data[at + 1 + i].hash = Sorted(items)[i].hash

\* The search of a hash comes to an item that has it.
ComesTo(items, n, data, at, hash, s, m) ==
  /\ s \in 1..n /\ m \in 1..n
  /\ Sorted(items)[s] = items[m] /\ items[m].hash = hash
  /\ Find(data, at, n, hash) = data[at + 1 + s]

LEMMA SearchFinds ==
  ASSUME NEW items, NEW n, NEW data, NEW at, InTable(items, n, data, at),
         NEW j \in 1..n
  PROVE  \E s, m : ComesTo(items, n, data, at, items[j].hash, s, m)
  <1>0. /\ Listed(items) /\ n = Len(items) /\ at \in Nat
        /\ \A i \in 1..n : items[i].hash \in Nat
        /\ \A i \in 1..n : data[at + 1 + i].hash = Sorted(items)[i].hash
    BY DEF InTable
  <1>1. PICK sorted, hash : sorted = ByHash(items) /\ hash = items[j].hash OBVIOUS
  <1>2. n \in Nat \ {0} /\ hash \in Nat
    <2>1. n \in Nat BY <1>0, ListedHas
    <2> QED BY <1>0, <1>1, <2>1
  <1>3. Sorts(sorted, items)
    <2>1. \A i \in 1..Len(items) : items[i].hash \in Nat BY <1>0
    <2> QED BY <1>0, <1>1, <2>1, ByHashSorts
  <1>4. /\ Len(sorted) = n
        /\ \A k \in 1..n : \E r \in 1..n : sorted[r] = items[k]
        /\ \A r \in 1..n : \E k \in 1..n : sorted[r] = items[k]
        /\ \A q, r \in 1..n : q < r => sorted[q].hash <= sorted[r].hash
    BY <1>0, <1>3 DEF Sorts
  <1>5. \A r \in 1..n : sorted[r].hash \in Nat BY <1>0, <1>4
  <1>6. \E r \in 1..n : sorted[r].hash = hash BY <1>1, <1>4
  <1>7. \A i \in 1..n : Sorted(items)[i] = sorted[PlaceOf(n, i - 1)]
    BY <1>0, <1>1, <1>4 DEF Sorted, MakeBst, PlaceOf
  <1>8. \A i \in 0..n - 1 : data[at + 2 + i].hash = sorted[PlaceOf(n, i)].hash
    <2> SUFFICES ASSUME NEW i \in 0..n - 1
                 PROVE  data[at + 2 + i].hash = sorted[PlaceOf(n, i)].hash
      OBVIOUS
    <2>1. PICK k : k = i + 1 OBVIOUS
    <2>2. k \in 1..n /\ k - 1 = i /\ at + 1 + k = at + 2 + i BY <1>0, <1>2, <2>1
    <2>3. data[at + 1 + k].hash = Sorted(items)[k].hash /\ Sorted(items)[k] = sorted[PlaceOf(n, k - 1)]
      BY <1>0, <1>7, <2>2
    <2> QED BY <2>2, <2>3
  <1>9. PICK slot : Hits(n, sorted, hash, slot) /\ Find(data, at, n, hash) = data[at + 2 + slot]
    <2>1. \A q, r \in 1..n : q < r => sorted[q].hash <= sorted[r].hash BY <1>4
    <2>2. Arranged(n, sorted, hash, data, at) BY <1>0, <1>2, <1>5, <1>6, <1>8, <2>1 DEF Arranged
    <2>3. \E slot : Finds(n, sorted, hash, data, at, slot) BY <2>2, SearchHits
    <2> QED BY <2>3 DEF Finds
  <1>10. PICK s, r : s = slot + 1 /\ r = PlaceOf(n, slot) OBVIOUS
  <1>11. slot \in 0..n - 1 /\ r \in 1..n /\ sorted[r].hash = hash BY <1>9, <1>10 DEF Hits
  <1>12. s \in 1..n /\ s - 1 = slot /\ at + 1 + s = at + 2 + slot BY <1>0, <1>2, <1>10, <1>11
  <1>13. PICK m \in 1..n : sorted[r] = items[m] BY <1>4, <1>11
  <1>14. Sorted(items)[s] = items[m] BY <1>7, <1>10, <1>12, <1>13
  <1>15. items[m].hash = hash BY <1>11, <1>13
  <1>16. Find(data, at, n, hash) = data[at + 1 + s] BY <1>9, <1>12
  <1>17. ComesTo(items, n, data, at, hash, s, m) BY <1>12, <1>14, <1>15, <1>16 DEF ComesTo
  <1> QED BY <1>1, <1>17

(***************************************************************************)
(*             The names in the archive and the tables over them           *)
(***************************************************************************)

Filenames == {i \in DOMAIN archive : archive[i].t = "filename"}

\* An item leads to a name, and has its hash.
Leads(data, item) ==
  /\ item.start \in Nat /\ item.start < Len(data) /\ item.len \in Nat
  /\ \E name \in DOMAIN Hash : data[item.start + 1] = Filename(name) /\ item.hash = Hash[name]

\* The table of these items, for the directory whose entry comes after so many cells.
Ends(g, items, from) ==
  /\ Listed(items) /\ from \in Nat /\ from + 1 < g /\ g + Len(items) + 1 <= Len(archive)
  /\ archive[g] = Goodbye(Len(items)) /\ archive[from + 1] = DirEntry
  /\ archive[g + Len(items) + 1] = [t |-> "tail", offset |-> g - 1 - from, len |-> Len(items) + 2]
  /\ \A i \in 1..Len(items) : archive[g + i] = RelativeTo(Sorted(items)[i], g - 1)
  /\ \A i \in 1..Len(items) : Leads(archive, items[i]) /\ items[i].start < g - 1

Enclosed(f, end) == \E g \in Tables : g < end /\ DirOf(g) < f /\ f < g
IsItem(items, f) == \E j \in 1..Len(items) : items[j].start = f - 1

\* What is in the directory, and in no directory below it, is among the items.
Lists(g, items, from) ==
  /\ Ends(g, items, from)
  /\ \A f \in Filenames : from + 1 < f /\ f < g => Enclosed(f, g) \/ IsItem(items, f)

TablesInv == \A g \in Tables : \E items, from : Lists(g, items, from)

FrameHas(data, f) ==
  /\ f.start \in Nat /\ f.dirStart \in Nat /\ f.dirStart < Len(data)
  /\ data[f.dirStart + 1] = DirEntry
  /\ \A j \in 1..Len(f.items) : Leads(data, f.items[j])

SubdirHas(data, f) ==
  /\ f.dirStart = f.start + 1 /\ Last(f.path) \in DOMAIN Hash
  /\ data[f.start + 1] = Filename(Last(f.path))

FramesInv ==
  /\ \A i \in 1..Len(stack) : FrameHas(archive, stack[i]) /\ (i # 1 => SubdirHas(archive, stack[i]))
  /\ \A i, k \in 1..Len(stack) : i < k => stack[i].dirStart < stack[k].start

FileHere ==
  file # None =>
    /\ stack # <<>> /\ Frame.dirStart < file.start /\ file.start \in Nat /\ file.start < Len(archive)
    /\ Last(file.path) \in DOMAIN Hash /\ archive[file.start + 1] = Filename(Last(file.path))

Closed(f) == \E g \in Tables : DirOf(g) < f /\ f < g
NotedIn(i, f) ==
  /\ stack[i].dirStart + 1 < f /\ IsItem(stack[i].items, f)
  /\ \A k \in 1..Len(stack) : i < k => f <= stack[k].start
Opens(i, f) == i # 1 /\ f = stack[i].start + 1

\* A name is in a directory that is closed, or noted in one under way, or it is that
\* of a directory or of the file under way.
NamesInv ==
  \A f \in Filenames :
    \/ Closed(f)
    \/ \E i \in 1..Len(stack) : NotedIn(i, f) \/ Opens(i, f)
    \/ file # None /\ f = file.start + 1

GoodbyeInv == TablesInv /\ FramesInv /\ FileHere /\ NamesInv

Grows ==
  /\ Listed(archive) /\ Listed(archive') /\ Len(archive) <= Len(archive')
  /\ \A i \in 1..Len(archive) : archive'[i] = archive[i]

LEMMA DirIs ==
  ASSUME NEW g \in Nat, NEW items, NEW from, Ends(g, items, from)
  PROVE  /\ DirOf(g) = from + 1 /\ archive[g].size = Len(items) + 2
         /\ g + (Len(items) + 2) - 1 = g + Len(items) + 1
  <1>1. PICK n : n = Len(items) OBVIOUS
  <1>2. /\ n \in Nat /\ from \in Nat /\ archive[g] = Goodbye(n)
        /\ archive[g + n + 1] = [t |-> "tail", offset |-> g - 1 - from, len |-> n + 2]
    BY <1>1, ListedHas DEF Ends
  <1>3. archive[g].size = n + 2 /\ archive[g + n + 1].offset = g - 1 - from BY <1>2 DEF Goodbye
  <1>4. g + (n + 2) - 1 = g + n + 1 /\ g - (g - 1 - from) = from + 1 BY <1>2
  <1> QED BY <1>1, <1>3, <1>4 DEF DirOf

LEMMA TablesIn ==
  ASSUME Listed(archive)
  PROVE  /\ DOMAIN archive = 1..Len(archive) /\ Len(archive) \in Nat
         /\ \A g \in Tables : g \in Nat /\ g \in 1..Len(archive)
         /\ \A f \in Filenames : f \in Nat /\ f \in 1..Len(archive)
  BY ListedHas DEF Tables, Filenames

LEMMA GrowsOn ==
  ASSUME Grows
  PROVE  /\ \A item : Leads(archive, item) => Leads(archive', item)
         /\ \A g \in Tables : g \in Tables'
         /\ \A f \in Filenames : f \in Filenames'
         /\ \A f \in Filenames' : f <= Len(archive) => f \in Filenames
         /\ \A g \in Tables' : g <= Len(archive) => g \in Tables
         /\ \A g \in Nat : \A items, from : Ends(g, items, from) => Ends(g, items, from)'
  <1>1. /\ DOMAIN archive = 1..Len(archive) /\ DOMAIN archive' = 1..Len(archive')
        /\ Len(archive) \in Nat /\ Len(archive') \in Nat /\ Len(archive) <= Len(archive')
        /\ \A i \in 1..Len(archive) : archive'[i] = archive[i]
    BY ListedHas DEF Grows
  <1>2. ASSUME NEW item, Leads(archive, item) PROVE Leads(archive', item)
    <2>1. item.start + 1 \in 1..Len(archive) BY <1>1, <1>2 DEF Leads
    <2> QED BY <1>1, <1>2, <2>1 DEF Leads
  <1>3. \A g \in Tables : g \in Tables' BY <1>1 DEF Tables
  <1>4. \A f \in Filenames : f \in Filenames' BY <1>1 DEF Filenames
  <1>5. \A f \in Filenames' : f <= Len(archive) => f \in Filenames BY <1>1 DEF Filenames
  <1>6. \A g \in Tables' : g <= Len(archive) => g \in Tables BY <1>1 DEF Tables
  <1>7. ASSUME NEW g \in Nat, NEW items, NEW from, Ends(g, items, from) PROVE Ends(g, items, from)'
    <2>1. PICK n : n = Len(items) OBVIOUS
    <2>2. n \in Nat /\ Listed(items) /\ from \in Nat /\ from + 1 < g /\ g + n + 1 <= Len(archive)
      BY <1>7, <2>1, ListedHas DEF Ends
    <2>3. /\ g \in 1..Len(archive) /\ from + 1 \in 1..Len(archive) /\ g + n + 1 \in 1..Len(archive)
          /\ \A i \in 1..n : g + i \in 1..Len(archive)
          /\ g + n + 1 <= Len(archive')
      BY <1>1, <2>2
    <2>4. /\ archive'[g] = archive[g] /\ archive'[from + 1] = archive[from + 1]
          /\ archive'[g + n + 1] = archive[g + n + 1]
          /\ \A i \in 1..n : archive'[g + i] = archive[g + i]
      BY <1>1, <2>3
    <2>5. \A i \in 1..n : Leads(archive', items[i]) BY <1>2, <1>7, <2>1 DEF Ends
    <2> QED BY <1>7, <2>1, <2>2, <2>3, <2>4, <2>5 DEF Ends
  <1> QED BY <1>2, <1>3, <1>4, <1>5, <1>6, <1>7

LEMMA TablesStay ==
  ASSUME Grows, TablesInv
  PROVE  /\ \A g \in Tables : DirOf(g)' = DirOf(g) /\ \E items, from : Lists(g, items, from)'
         /\ \A f : Closed(f) => Closed(f)'
  <1>1. /\ DOMAIN archive = 1..Len(archive) /\ Len(archive) \in Nat
        /\ \A g \in Tables : g \in Nat /\ g \in 1..Len(archive)
        /\ \A g \in Tables : g \in Tables'
    BY TablesIn, GrowsOn DEF Grows
  <1>2. ASSUME NEW g \in Tables PROVE DirOf(g)' = DirOf(g)
    <2>1. PICK items, from : Ends(g, items, from) BY DEF TablesInv, Lists
    <2>2. DirOf(g) = from + 1 BY <1>1, <2>1, DirIs
    <2>3. Ends(g, items, from)' BY <1>1, <2>1, GrowsOn
    <2>4. PICK n : n = Len(items) OBVIOUS
    <2>5. /\ n \in Nat /\ from \in Nat /\ g \in Nat
          /\ archive'[g] = Goodbye(n)
          /\ archive'[g + n + 1] = [t |-> "tail", offset |-> g - 1 - from, len |-> n + 2]
      BY <1>1, <2>3, <2>4, ListedHas DEF Ends
    <2>6. archive'[g].size = n + 2 /\ archive'[g + n + 1].offset = g - 1 - from BY <2>5 DEF Goodbye
    <2>7. g + (n + 2) - 1 = g + n + 1 /\ g - (g - 1 - from) = from + 1 BY <2>5
    <2>8. DirOf(g)' = from + 1 BY <2>6, <2>7 DEF DirOf
    <2> QED BY <2>2, <2>8
  <1>3. \A f, end : Enclosed(f, end) => Enclosed(f, end)' BY <1>1, <1>2 DEF Enclosed
  <1>4. \A f : Closed(f) => Closed(f)' BY <1>1, <1>2 DEF Closed
  <1>5. ASSUME NEW g \in Tables PROVE \E items, from : Lists(g, items, from)'
    <2>1. PICK items, from : Lists(g, items, from) BY DEF TablesInv
    <2>2. Ends(g, items, from)' BY <1>1, <2>1, GrowsOn DEF Lists
    <2>3. ASSUME NEW f \in Filenames', from + 1 < f, f < g
          PROVE  Enclosed(f, g)' \/ IsItem(items, f)
      <3>1. f \in Nat BY TablesIn DEF Grows, Filenames
      <3>2. f <= Len(archive) BY <1>1, <2>3, <3>1
      <3>3. f \in Filenames BY <3>2, GrowsOn
      <3>4. Enclosed(f, g) \/ IsItem(items, f) BY <2>1, <2>3, <3>3 DEF Lists
      <3> QED BY <1>3, <3>4
    <2>4. Lists(g, items, from)' BY <2>2, <2>3 DEF Lists, IsItem
    <2> QED BY <2>4
  <1> QED BY <1>2, <1>4, <1>5

Gains(was, now) ==
  /\ now.path = was.path /\ now.start = was.start /\ now.dirStart = was.dirStart
  /\ Len(was.items) \in Nat /\ Len(now.items) \in Nat /\ Len(was.items) <= Len(now.items)
  /\ \A j \in 1..Len(was.items) : now.items[j] = was.items[j]

\* The first n frames stay, but for what is noted in them.
StackKeeps(n) ==
  /\ n \in Nat /\ n <= Len(stack) /\ Len(stack) \in Nat
  /\ \A i \in 1..n : /\ Gains(stack[i], stack'[i])
                     /\ \A j \in 1..Len(stack'[i].items) : Leads(archive', stack'[i].items[j])

LEMMA FramesStay ==
  ASSUME Grows, GoodbyeInv, NEW n, StackKeeps(n)
  PROVE  /\ \A i \in 1..n : FrameHas(archive', stack'[i]) /\ (i # 1 => SubdirHas(archive', stack'[i]))
         /\ \A i, k \in 1..n : i < k => stack'[i].dirStart < stack'[k].start
         /\ \A i \in 1..n : \A f : Opens(i, f) => Opens(i, f)'
         /\ \A i \in 1..n : \A f : IsItem(stack[i].items, f) => IsItem(stack'[i].items, f)
  <1>1. \A i \in 1..n : i \in 1..Len(stack) BY DEF StackKeeps
  <1>2. ASSUME NEW i \in 1..n
        PROVE  /\ FrameHas(archive', stack'[i]) /\ (i # 1 => SubdirHas(archive', stack'[i]))
               /\ \A f : Opens(i, f) => Opens(i, f)'
               /\ \A f : IsItem(stack[i].items, f) => IsItem(stack'[i].items, f)
    <2>1. PICK was, now : was = stack[i] /\ now = stack'[i] OBVIOUS
    <2>2. Gains(was, now) /\ \A j \in 1..Len(now.items) : Leads(archive', now.items[j])
      BY <2>1 DEF StackKeeps
    <2>3. FrameHas(archive, was) /\ (i # 1 => SubdirHas(archive, was)) BY <1>1, <2>1 DEF GoodbyeInv, FramesInv
    <2>4. /\ Len(archive) \in Nat /\ Len(archive') \in Nat /\ Len(archive) <= Len(archive')
          /\ \A k \in 1..Len(archive) : archive'[k] = archive[k]
      BY ListedHas DEF Grows
    <2>5. was.start \in Nat /\ was.dirStart \in Nat /\ was.dirStart < Len(archive)
      BY <2>3 DEF FrameHas
    <2>6. was.dirStart + 1 \in 1..Len(archive) /\ was.dirStart < Len(archive') BY <2>4, <2>5
    <2>7. FrameHas(archive', now) BY <2>2, <2>3, <2>4, <2>5, <2>6 DEF FrameHas, Gains
    <2>8. i # 1 => SubdirHas(archive', now)
      <3> SUFFICES ASSUME i # 1 PROVE SubdirHas(archive', now)
        OBVIOUS
      <3>1. was.start + 1 \in 1..Len(archive) BY <2>3, <2>4, <2>5 DEF SubdirHas
      <3> QED BY <2>2, <2>3, <2>4, <3>1 DEF SubdirHas, Gains
    <2>9. \A f : IsItem(was.items, f) => IsItem(now.items, f) BY <2>2 DEF IsItem, Gains
    <2>10. \A f : Opens(i, f) => Opens(i, f)' BY <2>1, <2>2 DEF Opens, Gains
    <2> QED BY <2>1, <2>7, <2>8, <2>9, <2>10
  <1>3. ASSUME NEW i \in 1..n, NEW k \in 1..n, i < k PROVE stack'[i].dirStart < stack'[k].start
    <2>1. stack[i].dirStart < stack[k].start BY <1>1, <1>3 DEF GoodbyeInv, FramesInv
    <2> QED BY <2>1 DEF StackKeeps, Gains
  <1> QED BY <1>2, <1>3

\* With no new frame, what is noted stays so.
LEMMA NotedStays ==
  ASSUME Grows, GoodbyeInv, NEW n, StackKeeps(n), Len(stack') = n, NEW i \in 1..n, NEW f, NotedIn(i, f)
  PROVE  NotedIn(i, f)'
  <1>1. stack'[i].dirStart = stack[i].dirStart /\ IsItem(stack[i].items, f)
    BY DEF StackKeeps, Gains, NotedIn
  <1>2. IsItem(stack'[i].items, f) BY <1>1, FramesStay
  <1>3. ASSUME NEW k \in 1..Len(stack'), i < k PROVE f <= stack'[k].start
    <2>1. k \in 1..n /\ k \in 1..Len(stack) BY DEF StackKeeps
    <2>2. stack'[k].start = stack[k].start BY <2>1 DEF StackKeeps, Gains
    <2>3. f <= stack[k].start BY <1>3, <2>1 DEF NotedIn
    <2> QED BY <2>2, <2>3
  <1> QED BY <1>1, <1>2, <1>3 DEF NotedIn

Same ==
  \A i \in 1..Len(stack) :
    /\ stack'[i].path = stack[i].path /\ stack'[i].start = stack[i].start
    /\ stack'[i].dirStart = stack[i].dirStart /\ stack'[i].items = stack[i].items

LEMMA SameKeeps ==
  ASSUME ArchiveInv, Grows, GoodbyeInv, Same
  PROVE  StackKeeps(Len(stack))
  <1>1. Len(stack) \in Nat BY ListedHas DEF ArchiveInv, StackInv
  <1>2. ASSUME NEW i \in 1..Len(stack)
        PROVE  /\ Gains(stack[i], stack'[i])
               /\ \A j \in 1..Len(stack'[i].items) : Leads(archive', stack'[i].items[j])
    <2>1. Len(stack[i].items) \in Nat BY ListedHas DEF ArchiveInv, StackInv, FrameOk
    <2>2. \A j \in 1..Len(stack[i].items) : Leads(archive, stack[i].items[j])
      BY DEF GoodbyeInv, FramesInv, FrameHas
    <2>3. \A j \in 1..Len(stack[i].items) : Leads(archive', stack[i].items[j]) BY <2>2, GrowsOn
    <2> QED BY <2>1, <2>3 DEF Same, Gains
  <1> QED BY <1>1, <1>2 DEF StackKeeps

\* An item is noted in the innermost frame.
Notes(item) ==
  /\ stack # <<>> /\ Leads(archive', item) /\ Frame.dirStart < item.start
  /\ \E f : /\ Replaced(f) /\ f.path = Frame.path /\ f.start = Frame.start
            /\ f.dirStart = Frame.dirStart /\ f.items = Append(Frame.items, item)

LEMMA NotesKeeps ==
  ASSUME ArchiveInv, Grows, GoodbyeInv, NEW item, Notes(item)
  PROVE  /\ StackKeeps(Len(stack)) /\ Len(stack') = Len(stack) /\ Len(stack) \in 1..Len(stack)
         /\ NotedIn(Len(stack), item.start + 1)'
  <1>1. Len(stack) \in Nat /\ Len(stack) \in 1..Len(stack) /\ Frame = stack[Len(stack)]
    BY AtWhich, ListedHas DEF ArchiveInv, StackInv, Notes
  <1>2. PICK f : /\ Replaced(f) /\ f.path = Frame.path /\ f.start = Frame.start
                 /\ f.dirStart = Frame.dirStart /\ f.items = Append(Frame.items, item)
    BY DEF Notes
  <1>3. PICK n, items : n = Len(Frame.items) /\ items = Frame.items OBVIOUS
  <1>4. Listed(items) BY <1>1, <1>3 DEF ArchiveInv, StackInv, FrameOk
  <1>5. /\ n \in Nat /\ Len(f.items) = n + 1 /\ f.items[n + 1] = item
        /\ \A j \in 1..n : f.items[j] = items[j]
    BY <1>2, <1>3, <1>4, ListedHas, ListedAppend
  <1>6. \A j \in 1..n : Leads(archive', items[j])
    <2>1. \A j \in 1..n : Leads(archive, items[j]) BY <1>1, <1>3 DEF GoodbyeInv, FramesInv, FrameHas
    <2> QED BY <2>1, GrowsOn
  <1>7. \A j \in 1..Len(f.items) : Leads(archive', f.items[j])
    <2>1. \A j \in 1..n + 1 : j \in 1..n \/ j = n + 1 BY <1>5
    <2> QED BY <1>5, <1>6, <2>1 DEF Notes
  <1>8. Gains(Frame, f) BY <1>2, <1>3, <1>5 DEF Gains
  <1>9. ASSUME NEW i \in 1..Len(stack)
        PROVE  /\ Gains(stack[i], stack'[i])
               /\ \A j \in 1..Len(stack'[i].items) : Leads(archive', stack'[i].items[j])
    <2>1. CASE i = Len(stack) BY <1>1, <1>2, <1>7, <1>8, <2>1 DEF Replaced
    <2>2. CASE i # Len(stack)
      <3>1. stack'[i] = stack[i] BY <1>2, <2>2 DEF Replaced
      <3>2. Len(stack[i].items) \in Nat BY ListedHas DEF ArchiveInv, StackInv, FrameOk
      <3>3. \A j \in 1..Len(stack[i].items) : Leads(archive, stack[i].items[j])
        BY DEF GoodbyeInv, FramesInv, FrameHas
      <3>4. \A j \in 1..Len(stack[i].items) : Leads(archive', stack[i].items[j]) BY <3>3, GrowsOn
      <3> QED BY <3>1, <3>2, <3>4 DEF Gains
    <2> QED BY <2>1, <2>2
  <1>10. StackKeeps(Len(stack)) BY <1>1, <1>9 DEF StackKeeps
  <1>11. Len(stack') = Len(stack) /\ stack'[Len(stack)] = f BY <1>2 DEF Replaced
  <1>12. IsItem(f.items, item.start + 1)
    <2>2. n + 1 \in 1..Len(f.items) BY <1>5
    <2>3. PICK from : from = item.start OBVIOUS
    <2>4. from \in Nat BY <2>3 DEF Notes, Leads
    <2>5. PICK k : k = n + 1 OBVIOUS
    <2>6. k \in 1..Len(f.items) /\ f.items[k] = item BY <1>5, <2>2, <2>5
    <2>7. f.items[k].start = (from + 1) - 1 BY <2>3, <2>4, <2>6
    <2>8. IsItem(f.items, from + 1) BY <2>6, <2>7 DEF IsItem
    <2> QED BY <2>3, <2>8
  <1>13. f.dirStart + 1 < item.start + 1
    <2>1. Frame.dirStart \in Nat BY <1>1 DEF GoodbyeInv, FramesInv, FrameHas
    <2>2. item.start \in Nat /\ Frame.dirStart < item.start BY DEF Notes, Leads
    <2> QED BY <1>2, <2>1, <2>2
  <1>14. NotedIn(Len(stack), item.start + 1)'
    <2>1. \A k \in 1..Len(stack') : ~(Len(stack) < k) BY <1>1, <1>11
    <2> QED BY <1>11, <1>12, <1>13, <2>1 DEF NotedIn
  <1> QED BY <1>1, <1>10, <1>11, <1>14

(***************************************************************************)
(*                              What is sent                               *)
(***************************************************************************)

Nameless(cell) == cell.t # "filename" /\ cell.t # "goodbye"
Heads(cells, name) ==
  /\ Listed(cells) /\ 1 \in 1..Len(cells) /\ cells[1] = Filename(name)
  /\ \A i \in 1..Len(cells) : i # 1 => Nameless(cells[i])

LEMMA FileHeads ==
  ASSUME NEW name, NEW n
  PROVE  Heads(FileHeader(name, n), name)
  <1>1. PICK cells : cells = FileHeader(name, n) OBVIOUS
  <1>2. /\ Listed(cells) /\ Len(cells) = 3 /\ cells[1] = Filename(name) /\ cells[2] = FileEntry
        /\ cells[3] = Payload(n)
    BY <1>1, HeaderIs
  <1>3. Nameless(FileEntry) /\ Nameless(Payload(n)) BY DEF Nameless, FileEntry, Payload
  <1>4. \A i \in 1..3 : i # 1 => i = 2 \/ i = 3 OBVIOUS
  <1>5. \A i \in 1..Len(cells) : i # 1 => Nameless(cells[i]) BY <1>2, <1>3, <1>4
  <1>6. Heads(cells, name) BY <1>2, <1>5 DEF Heads
  <1> QED BY <1>1, <1>6

LEMMA DirHeads ==
  ASSUME NEW name
  PROVE  Heads(<<Filename(name), DirEntry>>, name)
  <1>1. PICK cells : cells = <<Filename(name), DirEntry>> OBVIOUS
  <1>2. Listed(cells) /\ Len(cells) = 2 /\ cells[1] = Filename(name) /\ cells[2] = DirEntry
    BY <1>1, PlainCells DEF Plain
  <1>3. Nameless(DirEntry) BY DEF Nameless, DirEntry
  <1>4. \A i \in 1..2 : i # 1 => i = 2 OBVIOUS
  <1>5. Heads(cells, name) BY <1>2, <1>3, <1>4 DEF Heads
  <1> QED BY <1>1, <1>5

LEMMA VirtualHeads ==
  ASSUME NEW vf, vf.size \in Nat
  PROVE  Heads(VirtualCells(vf), vf.name)
  <1>1. PICK head, body, n : head = FileHeader(vf.name, vf.size) /\ n = vf.size /\ body = Cells(Data, n)
    OBVIOUS
  <1>2. PICK cells : cells = head \o body OBVIOUS
  <1>3. Heads(head, vf.name) BY <1>1, FileHeads
  <1>4. Listed(body) /\ Len(body) = n /\ n \in Nat /\ \A i \in 1..n : body[i] = Data
    BY <1>1, PlainCells DEF Plain, Cells
  <1>5. /\ Listed(cells) /\ Len(cells) = Len(head) + Len(body) /\ Len(head) \in Nat
        /\ \A i \in 1..Len(head) : cells[i] = head[i]
        /\ \A i \in 1..Len(body) : cells[Len(head) + i] = body[i]
    <2>1. Listed(head) /\ Listed(body) BY <1>3, <1>4 DEF Heads
    <2> QED BY <1>2, <2>1, Joined, ListedHas
  <1>6. Nameless(Data) BY DEF Nameless, Data
  <1>7. PICK m : m = Len(head) OBVIOUS
  <1>8. m \in Nat /\ 1 \in 1..m /\ 1 \in 1..m + n BY <1>3, <1>4, <1>5, <1>7 DEF Heads
  <1>9. ASSUME NEW i \in 1..m + n, i # 1 PROVE Nameless(cells[i])
    <2>1. CASE i <= m
      <3>1. i \in 1..m BY <1>8, <2>1
      <3> QED BY <1>3, <1>5, <1>7, <1>9, <3>1 DEF Heads
    <2>2. CASE ~(i <= m)
      <3>1. PICK k : k = i - m OBVIOUS
      <3>2. k \in 1..n /\ m + k = i BY <1>4, <1>8, <2>2, <3>1
      <3>3. cells[i] = Data BY <1>4, <1>5, <1>7, <3>2
      <3> QED BY <1>6, <3>3
    <2> QED BY <2>1, <2>2
  <1>10. Heads(cells, vf.name) BY <1>3, <1>4, <1>5, <1>7, <1>8, <1>9 DEF Heads
  <1> QED BY <1>1, <1>2, <1>10 DEF VirtualCells

Bare(cells) == Listed(cells) /\ \A i \in 1..Len(cells) : Nameless(cells[i])

LEMMA SentIn ==
  ASSUME ArchiveInv, NEW cells, Listed(cells), Send(cells)
  PROVE  /\ Grows /\ Len(archive) \in Nat /\ Len(archive') = Len(archive) + Len(cells)
         /\ \A i \in DOMAIN archive' : \/ i \in DOMAIN archive /\ archive'[i] = archive[i]
                                       \/ \E k \in 1..Len(cells) : /\ i = Len(archive) + k
                                                                   /\ archive'[i] = cells[k]
  <1>1. /\ Listed(archive') /\ Len(archive') = Len(archive) + Len(cells)
        /\ Len(archive) \in Nat /\ Len(cells) \in Nat
        /\ \A i \in 1..Len(archive) : archive'[i] = archive[i]
        /\ \A i \in 1..Len(cells) : archive'[Len(archive) + i] = cells[i]
    BY Sent
  <1>2. Listed(archive) BY DEF ArchiveInv, CellsInv
  <1>3. DOMAIN archive = 1..Len(archive) /\ DOMAIN archive' = 1..Len(archive')
    BY <1>1, <1>2, ListedHas
  <1>4. Grows BY <1>1, <1>2 DEF Grows
  <1>5. ASSUME NEW i \in DOMAIN archive', i \notin DOMAIN archive
        PROVE  \E k \in 1..Len(cells) : i = Len(archive) + k /\ archive'[i] = cells[k]
    <2>1. PICK n, m : n = Len(archive) /\ m = Len(cells) OBVIOUS
    <2>2. n \in Nat /\ m \in Nat /\ i \in 1..n + m /\ i \notin 1..n BY <1>1, <1>3, <1>5, <2>1
    <2>3. PICK k : k = i - n OBVIOUS
    <2>4. k \in 1..m /\ i = n + k BY <2>2, <2>3
    <2> QED BY <1>1, <2>1, <2>4
  <1> QED BY <1>1, <1>3, <1>4, <1>5

LEMMA SentBare ==
  ASSUME ArchiveInv, NEW cells, Bare(cells), Send(cells)
  PROVE  Grows /\ Filenames' \subseteq Filenames /\ Tables' \subseteq Tables
  BY SentIn DEF Bare, Nameless, Filenames, Tables

LEMMA SentHeads ==
  ASSUME ArchiveInv, NEW cells, NEW name, Heads(cells, name), Send(cells)
  PROVE  /\ Grows /\ Tables' \subseteq Tables /\ Len(archive) \in Nat /\ Len(archive) < Len(archive')
         /\ archive'[Len(archive) + 1] = Filename(name)
         /\ \A f \in Filenames' : f \in Filenames \/ f = Len(archive) + 1
  <1>1. Listed(cells) /\ 1 \in 1..Len(cells) /\ cells[1] = Filename(name)
    BY DEF Heads
  <1>2. \A i \in 1..Len(cells) : cells[i].t # "goodbye" /\ (cells[i].t = "filename" => i = 1)
    <2>1. Filename(name).t # "goodbye" BY DEF Filename
    <2> QED BY <2>1 DEF Heads, Nameless
  <1>3. /\ Grows /\ Len(archive) \in Nat /\ Len(archive') = Len(archive) + Len(cells)
        /\ \A i \in DOMAIN archive' : \/ i \in DOMAIN archive /\ archive'[i] = archive[i]
                                      \/ \E k \in 1..Len(cells) : /\ i = Len(archive) + k
                                                                  /\ archive'[i] = cells[k]
    BY <1>1, SentIn
  <1>4. archive'[Len(archive) + 1] = Filename(name) BY <1>1, Sent
  <1>5. Len(archive) < Len(archive') BY <1>1, <1>3, ListedHas
  <1>6. Tables' \subseteq Tables BY <1>2, <1>3 DEF Tables
  <1>7. \A f \in Filenames' : f \in Filenames \/ f = Len(archive) + 1 BY <1>2, <1>3 DEF Filenames
  <1> QED BY <1>3, <1>4, <1>5, <1>6, <1>7

LEMMA SentNothing ==
  ASSUME ArchiveInv, archive' = archive
  PROVE  Grows /\ Filenames' \subseteq Filenames /\ Tables' \subseteq Tables
  <1>1. Listed(archive) /\ Len(archive) \in Nat BY ListedHas DEF ArchiveInv, CellsInv
  <1> QED BY <1>1 DEF Grows, Filenames, Tables

LEMMA TablesKept ==
  ASSUME Grows, GoodbyeInv, Tables' \subseteq Tables
  PROVE  TablesInv'
  <1>1. \A g \in Tables : \E items, from : Lists(g, items, from)' BY TablesStay DEF GoodbyeInv
  <1> QED BY <1>1 DEF TablesInv

\* With no new frame, the frames and what was said of the names stay.
LEMMA FramesKept ==
  ASSUME ArchiveInv, Grows, GoodbyeInv, NEW n, n = Len(stack), StackKeeps(n), Len(stack') = n
  PROVE  FramesInv' /\ \A f : \A i \in 1..n : NotedIn(i, f) \/ Opens(i, f) => NotedIn(i, f)' \/ Opens(i, f)'
  <1>1. FramesInv' BY FramesStay DEF FramesInv
  <1>2. \A f : \A i \in 1..n : NotedIn(i, f) => NotedIn(i, f)' BY NotedStays
  <1>3. \A f : \A i \in 1..n : Opens(i, f) => Opens(i, f)' BY FramesStay
  <1> QED BY <1>1, <1>2, <1>3

NoFile == file = None \/ (file' # None /\ file'.start = file.start)

\* What was said of the names before stays so, but of that of the file under way.
LEMMA NamesKept ==
  ASSUME ArchiveInv, Grows, GoodbyeInv, NEW n, n = Len(stack), StackKeeps(n), Len(stack') = n,
         NEW f \in Filenames, NoFile \/ f # file.start + 1
  PROVE  \/ Closed(f)'
         \/ \E i \in 1..Len(stack') : NotedIn(i, f)' \/ Opens(i, f)'
         \/ (file # None /\ f = file.start + 1)'
  <1>1. \/ Closed(f)
        \/ \E i \in 1..Len(stack) : NotedIn(i, f) \/ Opens(i, f)
        \/ file # None /\ f = file.start + 1
    BY DEF GoodbyeInv, NamesInv
  <1>2. CASE Closed(f) BY <1>2, TablesStay DEF GoodbyeInv
  <1>3. CASE \E i \in 1..Len(stack) : NotedIn(i, f) \/ Opens(i, f) BY <1>3, FramesKept
  <1>4. CASE file # None /\ f = file.start + 1 BY <1>4 DEF NoFile
  <1> QED BY <1>1, <1>2, <1>3, <1>4

(***************************************************************************)
(*                                The steps                                *)
(***************************************************************************)

\* What each name of the archive is after a step that opens and closes no directory.
StillPlaced(f) ==
  \/ f \in Filenames /\ (NoFile \/ f # file.start + 1)
  \/ Len(stack) \in 1..Len(stack) /\ NotedIn(Len(stack), f)'
  \/ file' # None /\ f = file'.start + 1

LEMMA GoodbyeKept ==
  ASSUME ArchiveInv, Grows, GoodbyeInv, Tables' \subseteq Tables,
         StackKeeps(Len(stack)), Len(stack') = Len(stack), FileHere',
         \A f \in Filenames' : StillPlaced(f)
  PROVE  GoodbyeInv'
  <1>1. TablesInv' BY TablesKept
  <1>2. FramesInv' BY FramesKept
  <1>3. ASSUME NEW f \in Filenames'
        PROVE  \/ Closed(f)'
               \/ \E i \in 1..Len(stack') : NotedIn(i, f)' \/ Opens(i, f)'
               \/ (file # None /\ f = file.start + 1)'
    <2>1. CASE f \in Filenames /\ (NoFile \/ f # file.start + 1) BY <2>1, NamesKept
    <2>2. CASE Len(stack) \in 1..Len(stack) /\ NotedIn(Len(stack), f)' BY <2>2
    <2>3. CASE file' # None /\ f = file'.start + 1 BY <2>3
    <2> QED BY <1>3, <2>1, <2>2, <2>3 DEF StillPlaced
  <1>4. NamesInv' BY <1>3 DEF NamesInv
  <1> QED BY <1>1, <1>2, <1>4 DEF GoodbyeInv

LEMMA GoodbyeIdle ==
  ASSUME GoodbyeInv, archive' = archive, stack' = stack, file' = file
  PROVE  GoodbyeInv'
  <1>1. Filenames' = Filenames /\ Tables' = Tables BY DEF Filenames, Tables
  <1>2. \A g : DirOf(g)' = DirOf(g) BY DEF DirOf
  <1>3. TablesInv'
    <2>1. \A g, items, from : Ends(g, items, from) => Ends(g, items, from)' BY DEF Ends
    <2>2. \A f, end : Enclosed(f, end) => Enclosed(f, end)' BY <1>1, <1>2 DEF Enclosed
    <2>3. \A g, items, from : Lists(g, items, from) => Lists(g, items, from)'
      BY <1>1, <2>1, <2>2 DEF Lists
    <2> QED BY <1>1, <2>3 DEF GoodbyeInv, TablesInv
  <1>4. FramesInv' BY DEF GoodbyeInv, FramesInv
  <1>5. FileHere' BY DEF GoodbyeInv, FileHere, Frame
  <1>6. NamesInv'
    <2>1. \A f : Closed(f) => Closed(f)' BY <1>1, <1>2 DEF Closed
    <2>2. \A i, f : NotedIn(i, f) \/ Opens(i, f) => NotedIn(i, f)' \/ Opens(i, f)'
      BY DEF NotedIn, Opens
    <2> QED BY <1>1, <2>1, <2>2 DEF GoodbyeInv, NamesInv
  <1> QED BY <1>3, <1>4, <1>5, <1>6 DEF GoodbyeInv

LEMMA GoodbyePassOver ==
  ASSUME ArchiveInv, GoodbyeInv, Exclude \/ SkipSystem \/ SkipLink \/ ReadError
  PROVE  GoodbyeInv'
  <1>1. /\ AtChild /\ archive' = archive /\ file' = file
        /\ \E f : Replaced(f) /\ PopsTo(Frame, f) /\ f.items = Frame.items
    BY AtPassOver
  <1>2. PICK f : Replaced(f) /\ PopsTo(Frame, f) /\ f.items = Frame.items BY <1>1
  <1>3. stack # <<>> /\ file = None BY <1>1 DEF AtChild, Walking
  <1>4. Len(stack) \in Nat /\ Frame = stack[Len(stack)] BY <1>3, AtWhich DEF ArchiveInv
  <1>5. Same
    <2>1. ASSUME NEW i \in 1..Len(stack)
          PROVE  /\ stack'[i].path = stack[i].path /\ stack'[i].start = stack[i].start
                 /\ stack'[i].dirStart = stack[i].dirStart /\ stack'[i].items = stack[i].items
      <3>1. CASE i = Len(stack) BY <1>2, <1>4, <3>1 DEF Replaced, PopsTo
      <3>2. CASE i # Len(stack) BY <1>2, <3>2 DEF Replaced
      <3> QED BY <3>1, <3>2
    <2> QED BY <2>1 DEF Same
  <1>6. Grows /\ Filenames' \subseteq Filenames /\ Tables' \subseteq Tables BY <1>1, SentNothing
  <1>7. StackKeeps(Len(stack)) BY <1>5, <1>6, SameKeeps
  <1>8. FileHere' BY <1>1, <1>3 DEF FileHere
  <1>9. \A g \in Filenames' : StillPlaced(g) BY <1>3, <1>6 DEF StillPlaced, NoFile
  <1>10. Len(stack') = Len(stack) BY <1>2 DEF Replaced
  <1> QED BY <1>6, <1>7, <1>8, <1>9, <1>10, GoodbyeKept

LEMMA GoodbyeVirtual ==
  ASSUME ArchiveInv, RootInv, GoodbyeInv, WriteVirtualFile
  PROVE  GoodbyeInv'
  <1>1. PICK vf, f : Injects(vf, f) BY AtVirtual
  <1>2. /\ stack # <<>> /\ file = None /\ file' = None /\ vf.name \in DOMAIN Hash /\ vf.size \in Nat
        /\ Send(VirtualCells(vf)) /\ Replaced(f)
        /\ NotesTo(Frame, f, vf.name, Len(archive), Len(archive'))
    BY <1>1 DEF Injects, Walking
  <1>3. PICK cells, name, at, end :
          cells = VirtualCells(vf) /\ name = vf.name /\ at = Len(archive) /\ end = Len(archive')
    OBVIOUS
  <1>4. Heads(cells, name) /\ Send(cells) BY <1>2, <1>3, VirtualHeads
  <1>5. /\ Grows /\ Tables' \subseteq Tables /\ at \in Nat /\ at < end /\ end \in Nat
        /\ archive'[at + 1] = Filename(name)
        /\ \A g \in Filenames' : g \in Filenames \/ g = at + 1
    BY <1>3, <1>4, SentHeads, ListedHas DEF Grows
  <1>6. PICK item : item = ItemOf(name, at, end) OBVIOUS
  <1>7. item.hash = Hash[name] /\ item.start = at /\ item.len = end - at BY <1>6 DEF ItemOf
  <1>8. Leads(archive', item)
    <2>1. end - at \in Nat BY <1>5
    <2> QED BY <1>2, <1>3, <1>5, <1>7, <2>1 DEF Leads
  <1>9. Frame.dirStart < item.start
    <2>1. Len(stack) \in 1..Len(stack) /\ Frame = stack[Len(stack)]
      BY <1>2, AtWhich DEF ArchiveInv
    <2> QED BY <1>3, <1>7, <2>1 DEF GoodbyeInv, FramesInv, FrameHas
  <1>10. Notes(item) BY <1>2, <1>3, <1>6, <1>8, <1>9 DEF Notes, NotesTo
  <1>11. /\ StackKeeps(Len(stack)) /\ Len(stack') = Len(stack) /\ Len(stack) \in 1..Len(stack)
         /\ NotedIn(Len(stack), item.start + 1)'
    BY <1>5, <1>10, NotesKeeps
  <1>12. FileHere' BY <1>2 DEF FileHere
  <1>13. \A g \in Filenames' : StillPlaced(g) BY <1>2, <1>5, <1>7, <1>11 DEF StillPlaced, NoFile
  <1> QED BY <1>5, <1>11, <1>12, <1>13, GoodbyeKept

LEMMA GoodbyeOpen ==
  ASSUME ArchiveInv, GoodbyeInv, OpenFile, NEW child, child = Child, NEW n, n = fs[child].size
  PROVE  GoodbyeInv'
  <1>1. PICK name, at : name = Last(child) /\ at = Len(archive) OBVIOUS
  <1>2. /\ stack # <<>> /\ file = None /\ DOMAIN Frame.todo # {} /\ stack' = stack
        /\ Send(FileHeader(name, n))
        /\ file' = [path |-> child, declared |-> n, written |-> 0, start |-> at]
    BY <1>1 DEF OpenFile, AtWanted, AtChild, Walking
  <1>3. /\ child \in DOMAIN Tree \ {<<>>} /\ Len(stack) \in 1..Len(stack) /\ Len(stack) \in Nat
        /\ Frame = stack[Len(stack)] /\ name \in DOMAIN Hash
    <2>1. NameOrder \in Seq(DOMAIN Hash) BY ArchiveAssumption DEF ArchiveAssumption
    <2>2. \A k \in DOMAIN NameOrder : NameOrder[k] \in DOMAIN Hash BY <2>1
    <2> QED BY <1>1, <1>2, <2>2, AtWhich DEF ArchiveInv
  <1>4. /\ Grows /\ Tables' \subseteq Tables /\ at \in Nat /\ at < Len(archive')
        /\ archive'[at + 1] = Filename(name)
        /\ \A g \in Filenames' : g \in Filenames \/ g = at + 1
    <2>1. PICK cells : cells = FileHeader(name, n) OBVIOUS
    <2>2. Heads(cells, name) /\ Send(cells) BY <1>2, <2>1, FileHeads
    <2> QED BY <1>1, <2>2, SentHeads
  <1>5. file' # None
    <2>1. n \in Nat BY <1>3 DEF ArchiveInv, ArchiveTypes
    <2>2. file' \in [path : DOMAIN Tree, declared : Nat, written : Nat, start : Nat]
      BY <1>2, <1>3, <1>4, <2>1
    <2> QED BY <2>2, ArchiveAssumption DEF ArchiveAssumption
  <1>6. file'.start = at /\ file'.path = child BY <1>2
  <1>7. Same BY <1>2 DEF Same
  <1>8. StackKeeps(Len(stack)) BY <1>4, <1>7, SameKeeps
  <1>9. FileHere'
    <2>1. Frame' = Frame BY <1>2 DEF Frame
    <2>2. Frame.dirStart < at BY <1>1, <1>3 DEF GoodbyeInv, FramesInv, FrameHas
    <2> QED BY <1>1, <1>2, <1>3, <1>4, <1>6, <2>1, <2>2 DEF FileHere
  <1>10. \A g \in Filenames' : StillPlaced(g) BY <1>2, <1>4, <1>5, <1>6 DEF StillPlaced, NoFile
  <1>11. Len(stack') = Len(stack) BY <1>2
  <1> QED BY <1>4, <1>8, <1>9, <1>10, <1>11, GoodbyeKept

LEMMA GoodbyeRead ==
  ASSUME ArchiveInv, GoodbyeInv, ReadData
  PROVE  GoodbyeInv'
  <1>1. /\ file # None /\ Send(<<Data>>) /\ stack' = stack
        /\ file' = [file EXCEPT !.written = @ + 1]
    BY DEF ReadData, Reading
  <1>2. file = [path |-> file.path, declared |-> file.declared, written |-> file.written,
                start |-> file.start]
    BY <1>1 DEF ArchiveInv, FileInv
  <1>3. /\ file'.path = file.path /\ file'.start = file.start
        /\ file' = [path |-> file.path, declared |-> file.declared, written |-> file.written + 1,
                    start |-> file.start]
    BY <1>1, <1>2
  <1>4. /\ stack # <<>> /\ Frame.dirStart < file.start /\ file.start \in Nat
        /\ file.start < Len(archive) /\ Last(file.path) \in DOMAIN Hash
        /\ archive[file.start + 1] = Filename(Last(file.path))
    BY <1>1 DEF GoodbyeInv, FileHere
  <1>5. file' # None
    <2>1. /\ file.path = Child /\ DOMAIN Frame.todo # {} /\ file.declared \in Nat
          /\ file.written \in 0..file.declared
      BY <1>1 DEF ArchiveInv, FileInv
    <2>2. file.path \in DOMAIN Tree BY <1>4, <2>1, AtWhich DEF ArchiveInv
    <2>3. file' \in [path : DOMAIN Tree, declared : Nat, written : Nat, start : Nat]
      BY <1>3, <1>4, <2>1, <2>2
    <2> QED BY <2>3, ArchiveAssumption DEF ArchiveAssumption
  <1>6. Grows /\ Filenames' \subseteq Filenames /\ Tables' \subseteq Tables
    <2>1. PICK cells : cells = <<Data>> OBVIOUS
    <2>2. Listed(cells) /\ Len(cells) = 1 /\ cells[1] = Data BY <2>1, Single
    <2>3. Nameless(Data) BY DEF Nameless, Data
    <2>4. Bare(cells) BY <2>2, <2>3 DEF Bare
    <2> QED BY <1>1, <2>1, <2>4, SentBare
  <1>7. Same BY <1>1 DEF Same
  <1>8. StackKeeps(Len(stack)) BY <1>6, <1>7, SameKeeps
  <1>9. FileHere'
    <2>1. Frame' = Frame BY <1>1 DEF Frame
    <2>2. /\ Len(archive) \in Nat /\ Len(archive') \in Nat /\ Len(archive) <= Len(archive')
          /\ \A i \in 1..Len(archive) : archive'[i] = archive[i]
      BY <1>6, ListedHas DEF Grows
    <2>3. file.start + 1 \in 1..Len(archive) /\ file.start < Len(archive') BY <1>4, <2>2
    <2>4. archive'[file.start + 1] = Filename(Last(file.path)) BY <1>4, <2>2, <2>3
    <2> QED BY <1>1, <1>3, <1>4, <2>1, <2>3, <2>4 DEF FileHere
  <1>10. \A g \in Filenames' : StillPlaced(g) BY <1>3, <1>5, <1>6 DEF StillPlaced, NoFile
  <1>11. Len(stack') = Len(stack) BY <1>1
  <1> QED BY <1>6, <1>8, <1>9, <1>10, <1>11, GoodbyeKept

LEMMA GoodbyeFile ==
  ASSUME ArchiveInv, GoodbyeInv, file # None, FileDone(Len(archive')),
         NEW more, Bare(more), Send(more)
  PROVE  GoodbyeInv'
  <1>1. PICK end : end = Len(archive') OBVIOUS
  <1>2. PICK f : Completes(end, f) BY <1>1, AtFileDone
  <1>3. PICK name, from : name = Last(file.path) /\ from = file.start OBVIOUS
  <1>4. stack # <<>> /\ file' = None /\ Replaced(f) /\ NotesTo(Frame, f, name, from, end)
    BY <1>2, <1>3 DEF Completes
  <1>5. /\ Frame.dirStart < from /\ from \in Nat /\ from < Len(archive)
        /\ name \in DOMAIN Hash /\ archive[from + 1] = Filename(name)
    BY <1>3 DEF GoodbyeInv, FileHere
  <1>6. Grows /\ Filenames' \subseteq Filenames /\ Tables' \subseteq Tables BY SentBare
  <1>7. /\ Len(archive) \in Nat /\ end \in Nat /\ Len(archive) <= end
        /\ \A i \in 1..Len(archive) : archive'[i] = archive[i]
    BY <1>1, <1>6, ListedHas DEF Grows
  <1>8. PICK item : item = ItemOf(name, from, end) OBVIOUS
  <1>9. item.hash = Hash[name] /\ item.start = from /\ item.len = end - from BY <1>8 DEF ItemOf
  <1>10. Leads(archive', item)
    <2>1. end - from \in Nat /\ from < end /\ from + 1 \in 1..Len(archive) BY <1>5, <1>7
    <2> QED BY <1>1, <1>5, <1>7, <1>9, <2>1 DEF Leads
  <1>11. Notes(item) BY <1>4, <1>5, <1>8, <1>9, <1>10 DEF Notes, NotesTo
  <1>12. /\ StackKeeps(Len(stack)) /\ Len(stack') = Len(stack) /\ Len(stack) \in 1..Len(stack)
         /\ NotedIn(Len(stack), item.start + 1)'
    BY <1>6, <1>11, NotesKeeps
  <1>13. FileHere' BY <1>4 DEF FileHere
  <1>14. \A g \in Filenames' : StillPlaced(g) BY <1>3, <1>6, <1>9, <1>12 DEF StillPlaced
  <1> QED BY <1>6, <1>12, <1>13, <1>14, GoodbyeKept

LEMMA GoodbyeDone ==
  ASSUME ArchiveInv, GoodbyeInv, Pad \/ Probe
  PROVE  GoodbyeInv'
  <1>1. CASE Pad
    <2>1. file # None /\ FileDone(Len(archive')) BY <1>1 DEF Pad, Reading
    <2>2. PICK k : k = file.declared - file.written OBVIOUS
    <2>3. k \in Nat BY <2>1, <2>2 DEF ArchiveInv, FileInv
    <2>4. PICK s : s = Cells(Zero, k) OBVIOUS
    <2>5. s \in Seq({Zero}) /\ Len(s) = k /\ \A i \in 1..k : s[i] = Zero BY <2>3, <2>4 DEF Cells
    <2>6. Listed(s) BY <2>5, IsListed
    <2>7. Nameless(Zero) BY DEF Nameless, Zero
    <2>8. Bare(s) BY <2>5, <2>6, <2>7 DEF Bare
    <2>9. Send(s) BY <1>1, <2>2, <2>4 DEF Pad
    <2> QED BY <2>1, <2>8, <2>9, GoodbyeFile
  <1>2. CASE Probe
    <2>1. file # None /\ archive' = archive BY <1>2 DEF Probe, Reading
    <2>2. FileDone(Len(archive)) BY <1>2 DEF Probe
    <2>3. PICK s : s = <<>> OBVIOUS
    <2>4. Listed(s) /\ Len(s) = 0 BY <2>3, EmptySeq DEF Listed
    <2>5. Bare(s) BY <2>4 DEF Bare
    <2>6. Send(s)
      <3>1. archive \in Seq(ToSet(archive)) BY DEF ArchiveInv, CellsInv, Listed
      <3>2. archive \o s = archive BY <2>3, <3>1, ConcatEmptySeq
      <3> QED BY <2>1, <3>2 DEF Send
    <2>7. PICK end : end = Len(archive) OBVIOUS
    <2>8. FileDone(end) /\ end = Len(archive') BY <2>1, <2>2, <2>7
    <2>9. FileDone(Len(archive')) BY <2>8
    <2> QED BY <2>1, <2>5, <2>6, <2>9, GoodbyeFile
  <1> QED BY <1>1, <1>2

LEMMA GoodbyeRoot ==
  ASSUME ArchiveInv, WalkedInv, WriteRoot, fs[<<>>].kind = "dir"
  PROVE  GoodbyeInv'
  <1>1. /\ Send(<<DirEntry>>) /\ stack = <<>> /\ result = None /\ file' = file
        /\ Len(stack') = 1 /\ stack'[1].start = 0 /\ stack'[1].dirStart = 0
        /\ stack'[1].items = <<>>
    BY AtWriteRoot
  <1>2. archive = <<>> /\ file = None BY <1>1 DEF WalkedInv, ArchiveInv, FileInv
  <1>3. PICK cells : cells = <<DirEntry>> OBVIOUS
  <1>4. Listed(cells) /\ Len(cells) = 1 /\ cells[1] = DirEntry BY <1>3, Single
  <1>5. Nameless(DirEntry) BY DEF Nameless, DirEntry
  <1>6. Bare(cells) BY <1>4, <1>5 DEF Bare
  <1>7. Filenames' \subseteq Filenames /\ Tables' \subseteq Tables BY <1>1, <1>3, <1>6, SentBare
  <1>8. Len(archive) = 0 /\ Filenames = {} /\ Tables = {}
    <2>1. Len(archive) = 0 /\ DOMAIN archive = 1..0 BY <1>2, EmptySeq, LenProperties
    <2> QED BY <2>1 DEF Filenames, Tables
  <1>9. Len(archive') = 1 /\ archive'[1] = DirEntry
    <2>1. 1 \in 1..Len(cells) /\ Len(archive) + Len(cells) = 1 /\ Len(archive) + 1 = 1
      BY <1>4, <1>8
    <2> QED BY <1>1, <1>3, <1>4, <2>1, Sent
  <1>10. TablesInv' BY <1>7, <1>8 DEF TablesInv
  <1>11. NamesInv' BY <1>7, <1>8 DEF NamesInv
  <1>12. FileHere' BY <1>1, <1>2 DEF FileHere
  <1>13. FramesInv'
    <2>1. PICK f : f = stack'[1] OBVIOUS
    <2>2. Len(f.items) = 0 BY <1>1, <2>1, EmptySeq
    <2>3. 0 + 1 = 1 OBVIOUS
    <2>4. FrameHas(archive', f) BY <1>1, <1>9, <2>1, <2>2, <2>3 DEF FrameHas
    <2>5. \A i \in 1..1 : i = 1 OBVIOUS
    <2> QED BY <1>1, <2>1, <2>4, <2>5 DEF FramesInv
  <1> QED BY <1>10, <1>11, <1>12, <1>13 DEF GoodbyeInv

LEMMA GoodbyeEnter ==
  ASSUME ArchiveInv, GoodbyeInv, EnterDir
  PROVE  GoodbyeInv'
  <1>0. PICK name, child, f, inner : Enters(name, child, f, inner) BY AtEnterDir
  <1>1. /\ name = Last(Child) /\ child = Child /\ AtChild /\ file' = file
        /\ Send(<<Filename(name), DirEntry>>) /\ Entered(f, inner)
        /\ PopsTo(Frame, f) /\ f.items = Frame.items
        /\ inner.path = child /\ inner.start = Len(archive) /\ inner.dirStart = Len(archive) + 1
        /\ inner.items = <<>>
    BY <1>0 DEF Enters
  <1>2. stack # <<>> /\ file = None /\ DOMAIN Frame.todo # {} BY <1>1 DEF AtChild, Walking
  <1>3. PICK at, n : at = Len(archive) /\ n = Len(stack) OBVIOUS
  <1>4. n \in 1..n /\ n \in Nat /\ Frame = stack[n] /\ name \in DOMAIN Hash
    <2>1. NameOrder \in Seq(DOMAIN Hash) BY ArchiveAssumption DEF ArchiveAssumption
    <2>2. \A k \in DOMAIN NameOrder : NameOrder[k] \in DOMAIN Hash BY <2>1
    <2> QED BY <1>1, <1>2, <1>3, <2>2, AtWhich DEF ArchiveInv
  <1>5. PICK cells : cells = <<Filename(name), DirEntry>> OBVIOUS
  <1>6. /\ Grows /\ Tables' \subseteq Tables /\ at \in Nat /\ archive'[at + 1] = Filename(name)
        /\ \A g \in Filenames' : g \in Filenames \/ g = at + 1
    <2>1. Heads(cells, name) /\ Send(cells) BY <1>1, <1>5, DirHeads
    <2> QED BY <1>3, <2>1, SentHeads
  <1>7. Len(archive') = at + 2 /\ archive'[at + 2] = DirEntry
    <2>1. Listed(cells) /\ Len(cells) = 2 /\ cells[2] = DirEntry BY <1>5, PlainCells DEF Plain
    <2>2. 2 \in 1..Len(cells) BY <2>1
    <2> QED BY <1>1, <1>3, <1>5, <2>1, <2>2, Sent
  <1>8. Same
    <2>1. ASSUME NEW i \in 1..Len(stack)
          PROVE  /\ stack'[i].path = stack[i].path /\ stack'[i].start = stack[i].start
                 /\ stack'[i].dirStart = stack[i].dirStart /\ stack'[i].items = stack[i].items
      <3>1. CASE i = n BY <1>1, <1>3, <1>4, <3>1 DEF Entered, PopsTo
      <3>2. CASE i # n BY <1>1, <1>3, <3>2 DEF Entered
      <3> QED BY <3>1, <3>2
    <2> QED BY <2>1 DEF Same
  <1>9. StackKeeps(n) BY <1>3, <1>6, <1>8, SameKeeps
  <1>10. Len(stack') = n + 1 /\ stack'[n + 1] = inner BY <1>1, <1>3 DEF Entered
  <1>11. /\ \A i \in 1..n : FrameHas(archive', stack'[i]) /\ (i # 1 => SubdirHas(archive', stack'[i]))
         /\ \A i, k \in 1..n : i < k => stack'[i].dirStart < stack'[k].start
         /\ \A i \in 1..n : \A g : Opens(i, g) => Opens(i, g)'
         /\ \A i \in 1..n : \A g : IsItem(stack[i].items, g) => IsItem(stack'[i].items, g)
    BY <1>6, <1>9, FramesStay
  <1>12. \A i \in 1..n + 1 : i \in 1..n \/ i = n + 1 BY <1>4
  <1>13. FrameHas(archive', inner) /\ SubdirHas(archive', inner)
    <2>1. Len(inner.items) = 0 BY <1>1, EmptySeq
    <2>2. /\ at + 1 + 1 = at + 2 /\ at + 1 < at + 2 /\ at + 1 \in Nat BY <1>6
    <2>3. FrameHas(archive', inner) BY <1>1, <1>3, <1>6, <1>7, <2>1, <2>2 DEF FrameHas
    <2>4. SubdirHas(archive', inner) BY <1>1, <1>3, <1>4, <1>6 DEF SubdirHas
    <2> QED BY <2>3, <2>4
  <1>14. \A i \in 1..n : stack'[i].dirStart < inner.start
    <2>1. \A i \in 1..n : stack[i].dirStart < at
      BY <1>3 DEF GoodbyeInv, FramesInv, FrameHas
    <2> QED BY <1>1, <1>3, <1>8, <2>1 DEF Same
  <1>15. FramesInv'
    <2>1. \A i \in 1..n + 1 : FrameHas(archive', stack'[i]) /\ (i # 1 => SubdirHas(archive', stack'[i]))
      BY <1>10, <1>11, <1>12, <1>13
    <2>2. ASSUME NEW i \in 1..n + 1, NEW k \in 1..n + 1, i < k
          PROVE  stack'[i].dirStart < stack'[k].start
      <3>1. i \in 1..n BY <1>4, <2>2
      <3>2. CASE k \in 1..n BY <1>11, <2>2, <3>1, <3>2
      <3>3. CASE k = n + 1 BY <1>10, <1>14, <3>1, <3>3
      <3> QED BY <1>12, <3>2, <3>3
    <2> QED BY <1>10, <2>1, <2>2 DEF FramesInv
  <1>16. TablesInv' BY <1>6, TablesKept
  <1>17. FileHere' BY <1>1, <1>2 DEF FileHere
  <1>18. ASSUME NEW g \in Filenames, NEW i \in 1..n, NotedIn(i, g) PROVE NotedIn(i, g)'
    <2>1. g \in Nat /\ g <= at BY <1>3, TablesIn DEF ArchiveInv, CellsInv
    <2>2. stack'[i].dirStart + 1 < g /\ IsItem(stack'[i].items, g)
      BY <1>3, <1>8, <1>11, <1>18 DEF NotedIn, Same
    <2>3. ASSUME NEW k \in 1..n + 1, i < k PROVE g <= stack'[k].start
      <3>1. CASE k \in 1..n BY <1>3, <1>8, <1>18, <2>3, <3>1 DEF NotedIn, Same
      <3>2. CASE k = n + 1 BY <1>1, <1>3, <1>10, <2>1, <3>2
      <3> QED BY <1>12, <3>1, <3>2
    <2> QED BY <1>10, <2>2, <2>3 DEF NotedIn
  <1>19. Opens(n + 1, at + 1)'
    <2>1. n + 1 # 1 BY <1>4
    <2> QED BY <1>1, <1>3, <1>10, <2>1 DEF Opens
  <1>20. NamesInv'
    <2>1. ASSUME NEW g \in Filenames'
          PROVE  Closed(g)' \/ \E i \in 1..n + 1 : NotedIn(i, g)' \/ Opens(i, g)'
      <3>1. CASE g = at + 1
        <4>1. n + 1 \in 1..n + 1 BY <1>4
        <4> QED BY <1>19, <3>1, <4>1
      <3>2. CASE g \in Filenames
        <4>1. Closed(g) \/ \E i \in 1..n : NotedIn(i, g) \/ Opens(i, g)
          BY <1>2, <1>3, <3>2 DEF GoodbyeInv, NamesInv
        <4>2. CASE Closed(g) BY <1>6, <4>2, TablesStay DEF GoodbyeInv
        <4>3. CASE \E i \in 1..n : NotedIn(i, g) \/ Opens(i, g)
          <5>1. PICK i \in 1..n : NotedIn(i, g) \/ Opens(i, g) BY <4>3
          <5>2. NotedIn(i, g)' \/ Opens(i, g)' BY <1>11, <1>18, <3>2, <5>1
          <5>3. i \in 1..n + 1 BY <1>4
          <5> QED BY <5>2, <5>3
        <4> QED BY <4>1, <4>2, <4>3
      <3> QED BY <1>6, <3>1, <3>2
    <2> QED BY <1>10, <2>1 DEF NamesInv
  <1> QED BY <1>15, <1>16, <1>17, <1>20 DEF GoodbyeInv

\* The innermost directory gets its table.
LEMMA TableSent ==
  ASSUME ArchiveInv, GoodbyeInv, stack # <<>>, NEW items, NEW from, NEW g,
         items = Frame.items, from = Frame.dirStart, g = Len(archive) + 1,
         Send(GoodbyeTable(items, from))
  PROVE  /\ Grows /\ g \in Nat /\ from \in Nat /\ from + 1 < g /\ g < Len(archive')
         /\ Filenames' \subseteq Filenames
         /\ \A x \in Tables' : x \in Tables \/ x = g
         /\ g \in Tables' /\ Ends(g, items, from)'
  <1>1. PICK at, n, cells : at = Len(archive) /\ n = Len(items) /\ cells = GoodbyeTable(items, from)
    OBVIOUS
  <1>2. /\ Len(stack) \in 1..Len(stack) /\ Frame = stack[Len(stack)] /\ FrameOk(Frame, Len(log))
    BY AtWhich DEF ArchiveInv
  <1>3. FrameHas(archive, Frame) BY <1>2 DEF GoodbyeInv, FramesInv
  <1>4. /\ from \in Nat /\ from < at /\ archive[from + 1] = DirEntry /\ Listed(items)
        /\ \A j \in 1..n : Leads(archive, items[j])
    BY <1>1, <1>2, <1>3 DEF FrameHas, FrameOk
  <1>5. /\ Listed(cells) /\ Len(cells) = n + 2 /\ n \in Nat /\ cells[1] = Goodbye(n)
        /\ cells[n + 2] = [t |-> "tail", offset |-> at - from, len |-> n + 2]
        /\ \A i \in 1..n : cells[i + 1] = RelativeTo(Sorted(items)[i], at)
    BY <1>1, <1>4, GoodbyeIs
  <1>6. /\ Grows /\ at \in Nat /\ Len(archive') = at + Len(cells)
        /\ \A i \in DOMAIN archive' : \/ i \in DOMAIN archive /\ archive'[i] = archive[i]
                                      \/ \E k \in 1..Len(cells) : i = at + k /\ archive'[i] = cells[k]
    BY <1>1, <1>5, SentIn
  <1>7. \A i \in 1..Len(cells) : archive'[at + i] = cells[i] BY <1>1, <1>5, Sent
  <1>8. ASSUME NEW k \in 1..Len(cells)
        PROVE  cells[k].t # "filename" /\ (cells[k].t = "goodbye" => k = 1)
    <2>1. Goodbye(n).t # "filename" BY DEF Goodbye
    <2>2. CASE k = 1 BY <1>5, <2>1, <2>2
    <2>3. CASE k = n + 2 BY <1>5, <2>3
    <2>4. CASE k # 1 /\ k # n + 2
      <3>1. PICK i : i = k - 1 OBVIOUS
      <3>2. i \in 1..n /\ k = i + 1 BY <1>5, <2>4, <3>1
      <3>3. cells[k] = RelativeTo(Sorted(items)[i], at) BY <1>5, <3>2
      <3>4. cells[k].t = "item" BY <3>3 DEF RelativeTo
      <3> QED BY <3>4
    <2> QED BY <2>2, <2>3, <2>4
  <1>9. Filenames' \subseteq Filenames BY <1>6, <1>8 DEF Filenames
  <1>10. \A x \in Tables' : x \in Tables \/ x = g BY <1>1, <1>6, <1>8 DEF Tables
  <1>11. g \in Nat /\ from + 1 < g /\ g < Len(archive') /\ at = g - 1 /\ g = at + 1
    BY <1>1, <1>4, <1>5, <1>6
  <1>12. archive'[g] = Goodbye(n)
    <2>1. 1 \in 1..Len(cells) BY <1>5
    <2> QED BY <1>5, <1>7, <1>11, <2>1
  <1>13. g \in Tables'
    <2>1. g \in DOMAIN archive' BY <1>6, <1>11, ListedHas DEF Grows
    <2>2. archive'[g].t = "goodbye" BY <1>12 DEF Goodbye
    <2> QED BY <2>1, <2>2 DEF Tables
  <1>14. Ends(g, items, from)'
    <2>1. archive'[from + 1] = DirEntry
      <3>1. from + 1 \in 1..Len(archive) BY <1>1, <1>4, <1>6
      <3> QED BY <1>4, <1>6, <3>1 DEF Grows
    <2>2. archive'[g + n + 1] = [t |-> "tail", offset |-> g - 1 - from, len |-> n + 2]
      <3>1. n + 2 \in 1..Len(cells) /\ g + n + 1 = at + (n + 2) BY <1>5, <1>11
      <3> QED BY <1>5, <1>7, <1>11, <3>1
    <2>3. ASSUME NEW i \in 1..n PROVE archive'[g + i] = RelativeTo(Sorted(items)[i], g - 1)
      <3>1. i + 1 \in 1..Len(cells) /\ g + i = at + (i + 1) BY <1>5, <1>11
      <3> QED BY <1>5, <1>7, <1>11, <3>1
    <2>4. \A i \in 1..n : Leads(archive', items[i]) BY <1>4, <1>6, GrowsOn
    <2>5. \A i \in 1..n : items[i].start < g - 1 BY <1>1, <1>4, <1>11 DEF Leads
    <2>6. g + n + 1 <= Len(archive') BY <1>5, <1>6, <1>11
    <2> QED BY <1>1, <1>4, <1>11, <1>12, <2>1, <2>2, <2>3, <2>4, <2>5, <2>6 DEF Ends
  <1> QED BY <1>4, <1>6, <1>9, <1>10, <1>11, <1>13, <1>14

\* A name in the innermost directory, and in none that is closed, is noted there.
LEMMA InnermostNames ==
  ASSUME ArchiveInv, GoodbyeInv, stack # <<>>, file = None,
         NEW f \in Filenames, Frame.dirStart + 1 < f, ~Closed(f)
  PROVE  IsItem(Frame.items, f)
  <1>1. PICK n : n = Len(stack) OBVIOUS
  <1>2. n \in 1..n /\ n \in Nat /\ Frame = stack[n] BY <1>1, AtWhich DEF ArchiveInv
  <1>3. /\ f \in Nat /\ Frame.dirStart \in Nat /\ Frame.start \in Nat
        /\ n # 1 => Frame.dirStart = Frame.start + 1
    BY <1>1, <1>2, TablesIn DEF ArchiveInv, CellsInv, GoodbyeInv, FramesInv, FrameHas, SubdirHas
  <1>4. PICK i \in 1..n : NotedIn(i, f) \/ Opens(i, f) BY <1>1 DEF GoodbyeInv, NamesInv
  <1>5. CASE i = n
    <2>1. ~Opens(i, f) BY <1>2, <1>3, <1>5 DEF Opens
    <2> QED BY <1>2, <1>4, <1>5, <2>1 DEF NotedIn
  <1>6. CASE i # n
    <2>1. i < n /\ n # 1 /\ i \in Nat BY <1>2, <1>6
    <2>2. ~NotedIn(i, f)
      <3>1. NotedIn(i, f) => f <= Frame.start BY <1>1, <1>2, <2>1 DEF NotedIn
      <3> QED BY <1>3, <2>1, <3>1
    <2>3. ~Opens(i, f)
      <3>1. /\ stack[i].dirStart < Frame.start /\ stack[i].start \in Nat
            /\ i # 1 => stack[i].dirStart = stack[i].start + 1
        BY <1>1, <1>2, <2>1 DEF GoodbyeInv, FramesInv, FrameHas, SubdirHas
      <3>2. Opens(i, f) => f < Frame.start BY <3>1 DEF Opens
      <3> QED BY <1>3, <2>1, <3>2
    <2> QED BY <1>4, <2>2, <2>3
  <1> QED BY <1>5, <1>6

LEMMA TableListed ==
  ASSUME ArchiveInv, GoodbyeInv, stack # <<>>, file = None, NEW items, NEW from, NEW g,
         items = Frame.items, from = Frame.dirStart, g = Len(archive) + 1,
         Send(GoodbyeTable(items, from))
  PROVE  /\ TablesInv' /\ g \in Tables' /\ DirOf(g)' = from + 1
  <1>1. /\ Grows /\ g \in Nat /\ from \in Nat /\ from + 1 < g
        /\ Filenames' \subseteq Filenames /\ \A x \in Tables' : x \in Tables \/ x = g
        /\ g \in Tables' /\ Ends(g, items, from)'
    BY TableSent
  <1>2. /\ \A x \in Tables : DirOf(x)' = DirOf(x) /\ \E i, d : Lists(x, i, d)'
        /\ \A x \in Tables : x \in Tables'
    BY <1>1, TablesStay, GrowsOn DEF GoodbyeInv
  <1>3. ASSUME NEW f \in Filenames', from + 1 < f, f < g
        PROVE  Enclosed(f, g)' \/ IsItem(items, f)
    <2>1. f \in Filenames BY <1>1, <1>3
    <2>2. CASE Closed(f)
      <3>1. PICK x \in Tables : DirOf(x) < f /\ f < x BY <2>2 DEF Closed
      <3>2. x \in 1..Len(archive) /\ Len(archive) \in Nat BY TablesIn DEF ArchiveInv, CellsInv
      <3>3. x < g BY <3>2
      <3>4. Enclosed(f, g)' BY <1>2, <3>1, <3>3 DEF Enclosed
      <3> QED BY <3>4
    <2>3. CASE ~Closed(f) BY <1>3, <2>1, <2>3, InnermostNames
    <2> QED BY <2>2, <2>3
  <1>4. Lists(g, items, from)' BY <1>1, <1>3 DEF Lists
  <1>5. TablesInv' BY <1>1, <1>2, <1>4 DEF TablesInv
  <1>6. DirOf(g)' = from + 1
    <2>1. PICK n : n = Len(items) OBVIOUS
    <2>2. /\ n \in Nat /\ archive'[g] = Goodbye(n)
          /\ archive'[g + n + 1] = [t |-> "tail", offset |-> g - 1 - from, len |-> n + 2]
      BY <1>1, <2>1, ListedHas DEF Ends
    <2>3. archive'[g].size = n + 2 /\ archive'[g + n + 1].offset = g - 1 - from BY <2>2 DEF Goodbye
    <2>4. g + (n + 2) - 1 = g + n + 1 /\ g - (g - 1 - from) = from + 1 BY <1>1, <2>2
    <2> QED BY <2>3, <2>4 DEF DirOf
  <1> QED BY <1>1, <1>5, <1>6

\* The directory is noted in the one around it.
LEMMA OuterKeeps ==
  ASSUME ArchiveInv, Grows, GoodbyeInv, NEW m, NEW outer, NEW f, outer = stack[m], DirLeft(m, outer, f),
         NEW from, from = Frame.start
  PROVE  /\ m \in Nat /\ m \in 1..m /\ Len(stack) = m + 1 /\ Len(stack') = m /\ StackKeeps(m)
         /\ Frame.dirStart = from + 1 /\ from \in Nat /\ NotedIn(m, from + 1)'
  <1>1. /\ m \in Nat /\ m \in 1..m /\ Len(stack) = m + 1 /\ Len(stack') = m /\ stack'[m] = f
        /\ \A i \in 1..m : i # m => stack'[i] = stack[i]
    BY DEF DirLeft, Left
  <1>2. PICK name, end : name = Last(Frame.path) /\ end = Len(archive')
    OBVIOUS
  <1>3. PICK item : item = ItemOf(name, from, end) OBVIOUS
  <1>4. /\ f.path = outer.path /\ f.start = outer.start /\ f.dirStart = outer.dirStart
        /\ f.items = Append(outer.items, item)
    BY <1>2, <1>3 DEF DirLeft, NotesTo
  <1>5. \A i \in 1..m : i \in 1..Len(stack) BY <1>1
  <1>6. m + 1 \in 1..Len(stack) /\ m + 1 # 1 /\ m < m + 1 BY <1>1
  <1>7. Frame = stack[m + 1] BY <1>1 DEF Frame, Last
  <1>8. /\ from \in Nat /\ Frame.dirStart = from + 1 /\ from + 1 < Len(archive)
        /\ name \in DOMAIN Hash /\ archive[from + 1] = Filename(name)
    BY <1>2, <1>6, <1>7 DEF GoodbyeInv, FramesInv, FrameHas, SubdirHas
  <1>9. outer.dirStart < from /\ outer.dirStart \in Nat
    BY <1>1, <1>5, <1>6, <1>7 DEF GoodbyeInv, FramesInv, FrameHas
  <1>10. /\ Len(archive) \in Nat /\ end \in Nat /\ Len(archive) <= end
         /\ \A i \in 1..Len(archive) : archive'[i] = archive[i]
    BY <1>2, ListedHas DEF Grows
  <1>11. item.hash = Hash[name] /\ item.start = from /\ item.len = end - from BY <1>3 DEF ItemOf
  <1>12. Leads(archive', item)
    <2>1. end - from \in Nat /\ from < end /\ from + 1 \in 1..Len(archive) BY <1>8, <1>10
    <2> QED BY <1>2, <1>8, <1>10, <1>11, <2>1 DEF Leads
  <1>13. PICK items, n : items = outer.items /\ n = Len(items) OBVIOUS
  <1>14. Listed(items) BY <1>1, <1>5, <1>13 DEF ArchiveInv, StackInv, FrameOk
  <1>15. /\ n \in Nat /\ Len(f.items) = n + 1 /\ f.items[n + 1] = item
         /\ \A j \in 1..n : f.items[j] = items[j]
    BY <1>4, <1>13, <1>14, ListedHas, ListedAppend
  <1>16. \A j \in 1..Len(f.items) : Leads(archive', f.items[j])
    <2>1. \A j \in 1..n : Leads(archive, items[j])
      BY <1>1, <1>5, <1>13 DEF GoodbyeInv, FramesInv, FrameHas
    <2>2. \A j \in 1..n : Leads(archive', items[j]) BY <2>1, GrowsOn
    <2>3. \A j \in 1..n + 1 : j \in 1..n \/ j = n + 1 BY <1>15
    <2> QED BY <1>12, <1>15, <2>2, <2>3
  <1>17. Gains(outer, f) BY <1>4, <1>13, <1>15 DEF Gains
  <1>18. ASSUME NEW i \in 1..m
         PROVE  /\ Gains(stack[i], stack'[i])
                /\ \A j \in 1..Len(stack'[i].items) : Leads(archive', stack'[i].items[j])
    <2>1. CASE i = m BY <1>1, <1>16, <1>17, <2>1
    <2>2. CASE i # m
      <3>1. stack'[i] = stack[i] BY <1>1, <2>2
      <3>2. Len(stack[i].items) \in Nat BY <1>5, ListedHas DEF ArchiveInv, StackInv, FrameOk
      <3>3. \A j \in 1..Len(stack[i].items) : Leads(archive, stack[i].items[j])
        BY <1>5 DEF GoodbyeInv, FramesInv, FrameHas
      <3>4. \A j \in 1..Len(stack[i].items) : Leads(archive', stack[i].items[j]) BY <3>3, GrowsOn
      <3> QED BY <3>1, <3>2, <3>4 DEF Gains
    <2> QED BY <2>1, <2>2
  <1>19. StackKeeps(m)
    <2>1. m <= Len(stack) /\ Len(stack) \in Nat BY <1>1
    <2> QED BY <1>1, <1>18, <2>1 DEF StackKeeps
  <1>20. NotedIn(m, from + 1)'
    <2>1. PICK k : k = n + 1 OBVIOUS
    <2>2. k \in 1..Len(f.items) /\ f.items[k] = item BY <1>15, <2>1
    <2>3. f.items[k].start = (from + 1) - 1 BY <1>8, <1>11, <2>2
    <2>4. IsItem(f.items, from + 1) BY <2>2, <2>3 DEF IsItem
    <2>5. f.dirStart + 1 < from + 1 BY <1>4, <1>8, <1>9
    <2>6. \A x \in 1..m : ~(m < x) BY <1>1
    <2> QED BY <1>1, <2>4, <2>5, <2>6 DEF NotedIn
  <1> QED BY <1>1, <1>8, <1>19, <1>20

LEMMA GoodbyeClose ==
  ASSUME ArchiveInv, GoodbyeInv, CloseDir
  PROVE  GoodbyeInv'
  <1>1. PICK items, from, g : items = Frame.items /\ from = Frame.dirStart /\ g = Len(archive) + 1
    OBVIOUS
  <1>2. stack # <<>> /\ file = None /\ file' = None /\ Send(GoodbyeTable(items, from))
    BY <1>1 DEF CloseDir, Walking
  <1>3. /\ Grows /\ g \in Nat /\ from \in Nat /\ Filenames' \subseteq Filenames
    BY <1>1, <1>2, TableSent
  <1>4. TablesInv' /\ g \in Tables' /\ DirOf(g)' = from + 1 BY <1>1, <1>2, TableListed
  <1>5. FileHere' BY <1>2 DEF FileHere
  <1>6. \A f \in Filenames : f \in Nat /\ f < g
    <2>1. \A f \in Filenames : f \in Nat /\ f \in 1..Len(archive)
      BY TablesIn DEF ArchiveInv, CellsInv
    <2>2. Len(archive) \in Nat BY <1>3, ListedHas DEF Grows
    <2> QED BY <1>1, <2>1, <2>2
  <1>7. \A f \in Filenames : from + 1 < f => Closed(f)' BY <1>4, <1>6 DEF Closed
  <1>8. \A f : Closed(f) => Closed(f)' BY <1>3, TablesStay DEF GoodbyeInv
  <1>9. /\ Len(stack) \in Nat /\ Frame = stack[Len(stack)] BY <1>2, AtWhich DEF ArchiveInv
  <1>10. ASSUME NEW f \in Filenames, NotedIn(Len(stack), f) PROVE Closed(f)'
    BY <1>1, <1>7, <1>9, <1>10 DEF NotedIn
  <1>11. \A f \in Filenames : Closed(f) \/ \E i \in 1..Len(stack) : NotedIn(i, f) \/ Opens(i, f)
    BY <1>2 DEF GoodbyeInv, NamesInv
  <1>12. CASE Len(stack) = 1
    <2>1. stack' = <<>> BY <1>12 DEF CloseDir
    <2>2. Len(stack') = 0 BY <2>1, EmptySeq
    <2>3. FramesInv' BY <2>2 DEF FramesInv
    <2>4. ASSUME NEW f \in Filenames' PROVE Closed(f)'
      <3>1. f \in Filenames BY <1>3
      <3>2. \A i \in 1..Len(stack) : i = 1 /\ ~Opens(i, f) BY <1>12 DEF Opens
      <3> QED BY <1>8, <1>10, <1>11, <1>12, <3>1, <3>2
    <2>5. NamesInv' BY <2>4 DEF NamesInv
    <2> QED BY <1>4, <1>5, <2>3, <2>5 DEF GoodbyeInv
  <1>13. CASE Len(stack) # 1
    <2>0. PICK at : at = Frame.start OBVIOUS
    <2>1. PICK m, outer, f : outer = stack[m] /\ DirLeft(m, outer, f) BY <1>13, AtCloseDir
    <2>2. /\ m \in Nat /\ m \in 1..m /\ Len(stack) = m + 1 /\ Len(stack') = m /\ StackKeeps(m)
          /\ Frame.dirStart = at + 1 /\ at \in Nat /\ NotedIn(m, at + 1)'
      BY <1>3, <2>0, <2>1, OuterKeeps
    <2>3. /\ \A i \in 1..m : FrameHas(archive', stack'[i]) /\ (i # 1 => SubdirHas(archive', stack'[i]))
          /\ \A i, k \in 1..m : i < k => stack'[i].dirStart < stack'[k].start
          /\ \A i \in 1..m : \A x : Opens(i, x) => Opens(i, x)'
      BY <1>3, <2>2, FramesStay
    <2>4. FramesInv' BY <2>2, <2>3 DEF FramesInv
    <2>5. ASSUME NEW x \in Filenames' PROVE Closed(x)' \/ \E i \in 1..m : NotedIn(i, x)' \/ Opens(i, x)'
      <3>1. x \in Filenames BY <1>3
      <3>2. CASE Closed(x) BY <1>8, <3>2
      <3>3. CASE \E i \in 1..Len(stack) : NotedIn(i, x) \/ Opens(i, x)
        <4>1. PICK i \in 1..Len(stack) : NotedIn(i, x) \/ Opens(i, x) BY <3>3
        <4>2. CASE i = m + 1
          <5>1. CASE NotedIn(i, x) BY <1>10, <2>2, <3>1, <4>2, <5>1
          <5>2. CASE Opens(i, x)
            <6>1. x = at + 1 BY <1>9, <2>0, <2>2, <4>2, <5>2 DEF Opens
            <6> QED BY <2>2, <6>1
          <5> QED BY <4>1, <5>1, <5>2
        <4>3. CASE i # m + 1
          <5>1. i \in 1..m BY <2>2, <4>3
          <5>2. NotedIn(i, x) => NotedIn(i, x)' BY <1>3, <2>2, <5>1, NotedStays
          <5> QED BY <2>3, <4>1, <5>1, <5>2
        <4> QED BY <4>2, <4>3
      <3> QED BY <1>11, <3>1, <3>2, <3>3
    <2>6. NamesInv' BY <2>2, <2>5 DEF NamesInv
    <2> QED BY <1>4, <1>5, <2>4, <2>6 DEF GoodbyeInv
  <1> QED BY <1>12, <1>13

LEMMA GoodbyeStart == Init => GoodbyeInv
  <1> SUFFICES ASSUME Init PROVE GoodbyeInv
    OBVIOUS
  <1>1. archive = <<>> /\ stack = <<>> /\ file = None BY DEF Init
  <1>2. Len(stack) = 0 /\ DOMAIN archive = 1..0 BY <1>1, EmptySeq, LenProperties
  <1>3. Filenames = {} /\ Tables = {} BY <1>2 DEF Filenames, Tables
  <1> QED BY <1>1, <1>2, <1>3 DEF GoodbyeInv, TablesInv, FramesInv, FileHere, NamesInv

LEMMA GoodbyeMoves ==
  ASSUME ArchiveInv, RootInv, WalkedInv, GoodbyeInv, [Next]_vars
  PROVE  GoodbyeInv'
  <1>1. CASE Idle \/ UNCHANGED vars
    <2>1. archive' = archive /\ stack' = stack /\ file' = file BY <1>1 DEF Idle, vars
    <2> QED BY <2>1, GoodbyeIdle
  <1>2. CASE WriteRoot /\ fs[<<>>].kind = "dir" BY <1>2, GoodbyeRoot
  <1>3. CASE WriteVirtualFile BY <1>3, GoodbyeVirtual
  <1>4. CASE Exclude \/ SkipSystem \/ SkipLink \/ ReadError BY <1>4, GoodbyePassOver
  <1>5. CASE EnterDir BY <1>5, GoodbyeEnter
  <1>6. CASE OpenFile
    <2>1. PICK child, n : child = Child /\ n = fs[child].size OBVIOUS
    <2> QED BY <1>6, <2>1, GoodbyeOpen
  <1>7. CASE ReadData BY <1>7, GoodbyeRead
  <1>8. CASE Pad \/ Probe BY <1>8, GoodbyeDone
  <1>9. CASE CloseDir BY <1>9, GoodbyeClose
  <1> QED BY <1>1, <1>2, <1>3, <1>4, <1>5, <1>6, <1>7, <1>8, <1>9, IdleSteps

(***************************************************************************)
(*                        What the search comes to                         *)
(***************************************************************************)

LEMMA LeastOf ==
  ASSUME NEW S, \A x \in S : x \in Nat, S # {}
  PROVE  LET g == CHOOSE x \in S : \A y \in S : x <= y IN g \in S /\ \A y \in S : g <= y
  <1>1. \E g \in S : \A y \in S : g <= y
    <2>1. PICK w \in S : w \in Nat OBVIOUS
    <2>2. S \subseteq Nat OBVIOUS
    <2> QED BY <2>1, <2>2, LeastIsIn
  <1> QED BY <1>1

Finding(g, f) ==
  LET item == Find(archive, g - 1, archive[g].size - 2, Hash[archive[f].name])
  IN  item # None /\ archive[g - item.offset] = archive[f]

HashesDiffer == \A a, b \in DOMAIN Hash : Hash[a] = Hash[b] => a = b

LEMMA FoundIn ==
  ASSUME HashesDiffer, NEW g \in Nat, NEW items, NEW from, Ends(g, items, from),
         NEW f \in Nat, IsItem(items, f)
  PROVE  Finding(g, f)
  <1>1. PICK n, at, data : n = Len(items) /\ at = g - 1 /\ data = archive OBVIOUS
  <1>2. /\ Listed(items) /\ n \in Nat /\ from \in Nat /\ from + 1 < g
        /\ data[g] = Goodbye(n)
        /\ \A i \in 1..n : data[g + i] = RelativeTo(Sorted(items)[i], at)
        /\ \A i \in 1..n : Leads(data, items[i]) /\ items[i].start < at
    BY <1>1, ListedHas DEF Ends
  <1>3. at \in Nat /\ \A i \in Nat : at + 1 + i = g + i BY <1>1, <1>2
  <1>4. data[g].size - 2 = n
    <2>1. data[g].size = n + 2 BY <1>2 DEF Goodbye
    <2>2. (n + 2) - 2 = n BY <1>2
    <2> QED BY <2>1, <2>2
  <1>5. \A i \in 1..n : items[i].hash \in Nat
    <2>1. Hash \in [DOMAIN Hash -> Nat] BY ArchiveAssumption DEF ArchiveAssumption
    <2> QED BY <1>2, <2>1 DEF Leads
  <1>6. \A i \in 1..n : data[at + 1 + i].hash = Sorted(items)[i].hash
    <2>1. \A i \in 1..n : i \in Nat BY <1>2
    <2>2. \A x : RelativeTo(x, at).hash = x.hash BY DEF RelativeTo
    <2> QED BY <1>2, <1>3, <2>1, <2>2
  <1>7. PICK j \in 1..n : items[j].start = f - 1 BY <1>1 DEF IsItem
  <1>8. PICK name \in DOMAIN Hash : data[items[j].start + 1] = Filename(name) /\ items[j].hash = Hash[name]
    BY <1>2 DEF Leads
  <1>9. data[f] = Filename(name) /\ data[f].name = name
    <2>1. (f - 1) + 1 = f OBVIOUS
    <2>2. data[f] = Filename(name) BY <1>7, <1>8, <2>1
    <2> QED BY <2>2 DEF Filename
  <1>10. PICK s, m : ComesTo(items, n, data, at, items[j].hash, s, m)
    <2>1. InTable(items, n, data, at) BY <1>1, <1>2, <1>3, <1>5, <1>6 DEF InTable
    <2> QED BY <2>1, SearchFinds
  <1>11. /\ s \in 1..n /\ m \in 1..n
         /\ Sorted(items)[s] = items[m] /\ items[m].hash = items[j].hash
         /\ Find(data, at, n, items[j].hash) = data[at + 1 + s]
    BY <1>10 DEF ComesTo
  <1>12. PICK item : item = RelativeTo(items[m], at) OBVIOUS
  <1>13. Find(data, at, n, Hash[name]) = item
    <2>1. s \in Nat BY <1>2, <1>11
    <2> QED BY <1>2, <1>3, <1>8, <1>11, <1>12, <2>1
  <1>14. PICK start, len, hash : start = items[m].start /\ len = items[m].len /\ hash = items[m].hash
    OBVIOUS
  <1>15. start \in Nat /\ start < at /\ len \in Nat /\ hash \in Nat
    BY <1>2, <1>5, <1>11, <1>14 DEF Leads
  <1>16. item = [t |-> "item", hash |-> hash, offset |-> at - start, len |-> len]
    BY <1>12, <1>14 DEF RelativeTo
  <1>17. at - start \in Nat BY <1>3, <1>15
  <1>18. item # None
    <2>1. item \in [t : {"item"}, hash : Nat, offset : Nat, len : Nat] BY <1>15, <1>16, <1>17
    <2> QED BY <2>1, ArchiveAssumption DEF ArchiveAssumption
  <1>19. PICK other \in DOMAIN Hash : data[start + 1] = Filename(other) /\ hash = Hash[other]
    BY <1>2, <1>11, <1>14 DEF Leads
  <1>20. other = name BY <1>8, <1>11, <1>14, <1>19 DEF HashesDiffer
  <1>21. data[g - item.offset] = data[f]
    <2>1. item.offset = at - start BY <1>16
    <2>2. g - (at - start) = start + 1 BY <1>1, <1>15
    <2> QED BY <1>9, <1>19, <1>20, <2>1, <2>2
  <1> QED BY <1>1, <1>4, <1>9, <1>13, <1>18, <1>21 DEF Finding

LEMMA GoodbyeState ==
  ASSUME HashesDiffer, ArchiveInv, GoodbyeInv
  PROVE  GoodbyeFinds
  <1> SUFFICES ASSUME result = "done" PROVE GoodbyeFinds
    BY DEF GoodbyeFinds
  <1>1. stack = <<>> BY DEF ArchiveInv, EndInv
  <1>2. file = None BY <1>1 DEF ArchiveInv, FileInv
  <1>3. \A f \in Filenames : Closed(f)
    <2>1. Len(stack) = 0 BY <1>1, EmptySeq
    <2> QED BY <1>2, <2>1 DEF GoodbyeInv, NamesInv
  <1>4. /\ \A g \in Tables : g \in Nat /\ \A f \in Filenames : f \in Nat
    BY TablesIn DEF ArchiveInv, CellsInv
  <1>5. ASSUME NEW g \in Tables PROVE archive[DirOf(g)] = DirEntry
    <2>1. PICK items, from : Ends(g, items, from) BY DEF GoodbyeInv, TablesInv, Lists
    <2> QED BY <1>4, <2>1, DirIs DEF Ends
  <1>6. ASSUME NEW f \in Filenames
        PROVE  LET around == {g \in Tables : DirOf(g) < f /\ f < g}
               IN  Finding(CHOOSE x \in around : \A y \in around : x <= y, f)
    <2> DEFINE around == {g \in Tables : DirOf(g) < f /\ f < g}
    <2>1. around # {} BY <1>3 DEF Closed
    <2>2. \A g \in around : g \in Nat BY <1>4
    <2>3. \A g \in around : g \in Tables /\ DirOf(g) < f /\ f < g OBVIOUS
    <2>4. \A g \in Tables : DirOf(g) < f /\ f < g => g \in around OBVIOUS
    <2> HIDE DEF around
    <2>5. PICK g : g = CHOOSE x \in around : \A y \in around : x <= y OBVIOUS
    <2>6. g \in around /\ \A y \in around : g <= y BY <2>1, <2>2, <2>5, LeastOf
    <2>7. PICK items, from : Lists(g, items, from) BY <2>3, <2>6 DEF GoodbyeInv, TablesInv
    <2>8. g \in Nat /\ Ends(g, items, from) /\ DirOf(g) = from + 1
      BY <1>4, <2>3, <2>6, <2>7, DirIs DEF Lists
    <2>9. ~Enclosed(f, g)
      <3>1. ASSUME NEW h \in Tables, h < g, DirOf(h) < f, f < h PROVE FALSE
        <4>1. h \in around BY <2>4, <3>1
        <4>2. g <= h BY <2>6, <4>1
        <4> QED BY <1>4, <2>8, <3>1, <4>2
      <3> QED BY <3>1 DEF Enclosed
    <2>10. IsItem(items, f) BY <2>3, <2>6, <2>7, <2>8, <2>9 DEF Lists
    <2>11. f \in Nat BY <1>4, <2>3, <2>6
    <2>12. Finding(g, f) BY <2>8, <2>10, <2>11, FoundIn
    <2> QED BY <2>5, <2>12 DEF around
  <1> QED BY <1>5, <1>6 DEF GoodbyeFinds, Finding, Filenames

\* Whatever changes while the folder is read, each name of a finished archive is
\* found in the table that ends its directory (GoodbyeTable, MakeBst), as long as no two
\* names have the same hash.
THEOREM GoodbyeFindsAlways ==
  ASSUME HashesDiffer
  PROVE  Spec => []GoodbyeFinds
  <1> DEFINE I == ArchiveInv /\ RootInv /\ WalkedInv /\ GoodbyeInv
  <1>1. Init => I BY ArchiveStart, RootStart, WalkedStart, GoodbyeStart
  <1>2. I /\ [Next]_vars => I' BY ArchiveMoves, RootMovesOn, WalkedMoves, GoodbyeMoves
  <1>3. I => GoodbyeFinds BY GoodbyeState
  <1> HIDE DEF I
  <1> QED BY <1>1, <1>2, <1>3, PTL DEF Spec
==============================================================================
