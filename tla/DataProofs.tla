------------------------------ MODULE DataProofs ------------------------------
(***************************************************************************)
(* What holds of a restore and of the reading of byte ranges, whatever the *)
(* snapshot, the selection, the sizes of image, chunks, buffers and cache, *)
(* the number of goroutines, and whatever fails or is stopped.             *)
(***************************************************************************)
EXTENDS RestoreRun, ImageReader, TLAPS, FiniteSetTheorems, SequenceTheorems,
        WellFoundedInduction

(***************************************************************************)
(*                      Which entries a restore is for                     *)
(***************************************************************************)

LEMMA PrefixElements ==
  ASSUME NEW s \in Seq(Names), NEW t \in Seq(Names)
  PROVE  IsPrefix(s, t) <=> Len(s) <= Len(t) /\ \A i \in 1..Len(s) : s[i] = t[i]
BY DEF IsPrefix

LEMMA SubSeqIs ==
  ASSUME NEW S, NEW s \in Seq(S), NEW m \in Nat \ {0}, NEW n \in Nat, n <= Len(s), m <= n + 1
  PROVE  /\ SubSeq(s, m, n) \in Seq(S)
         /\ Len(SubSeq(s, m, n)) = n + 1 - m
         /\ \A i \in 1..(n + 1 - m) : SubSeq(s, m, n)[i] = s[m + i - 1]
  <1>1. \A i \in m..n : s[i] \in S OBVIOUS
  <1>2. /\ SubSeq(s, m, n) \in Seq(S)
        /\ Len(SubSeq(s, m, n)) = IF m <= n THEN n - m + 1 ELSE 0
        /\ \A i \in 1..n - m + 1 : SubSeq(s, m, n)[i] = s[m + i - 1]
    BY <1>1, SubSeqProperties
  <1> QED BY <1>2

LEMMA PrefixOrder ==
  ASSUME NEW s \in Seq(Names), NEW t \in Seq(Names), NEW u \in Seq(Names)
  PROVE  /\ IsPrefix(s, s)
         /\ IsPrefix(s, t) /\ IsPrefix(t, u) => IsPrefix(s, u)
         /\ IsPrefix(s, t) /\ IsPrefix(t, s) => s = t
  <1>1. IsPrefix(s, s) BY PrefixElements
  <1>2. ASSUME IsPrefix(s, t), IsPrefix(t, u) PROVE IsPrefix(s, u)
    BY <1>2, PrefixElements
  <1>3. ASSUME IsPrefix(s, t), IsPrefix(t, s) PROVE s = t
    BY <1>3, PrefixElements
  <1> QED BY <1>1, <1>2, <1>3

\* A set of numbers with a bound has a greatest element.
LEMMA GreatestIsIn ==
  ASSUME NEW S \in SUBSET Nat, S # {}, NEW bound \in Nat, \A n \in S : n <= bound
  PROVE  \E n \in S : \A m \in S : m <= n
  <1> DEFINE R == {p \in Nat \X Nat : p[1] < p[2]}
             Gaps == {bound - n : n \in S}
  <1>1. IsWellFoundedOn(R, Nat) BY NatLessThanWellFounded DEF OpToRel
  <1>2. Gaps \in SUBSET Nat /\ Gaps # {}
    <2>1. \A n \in S : bound - n \in Nat OBVIOUS
    <2> QED BY <2>1
  <1> HIDE DEF R, Gaps
  <1>3. \E x \in Gaps : \A y \in Gaps : ~ (<<y, x>> \in R) BY <1>1, <1>2, WFMin
  <1>4. \E x \in Gaps : \A y \in Gaps : x <= y
    <2>1. \E x \in Gaps : \A y \in Gaps : ~(y < x) BY <1>2, <1>3 DEF R
    <2> QED BY <1>2, <2>1
  <1>5. PICK n \in S : \A m \in S : bound - n <= bound - m BY <1>4 DEF Gaps
  <1>6. \A m \in S : m <= n BY <1>5
  <1> QED BY <1>6

LEMMA CommonPrefix ==
  ASSUME NEW S \in SUBSET Seq(Names), S # {}
  PROVE  /\ LongestCommonPrefix(S) \in Seq(Names)
         /\ \A s \in S : IsPrefix(LongestCommonPrefix(S), s)
  <1>1. \A s \in S : Prefixes(s) \subseteq Seq(Names) /\ <<>> \in Prefixes(s)
    <2>1. ASSUME NEW s \in S PROVE Prefixes(s) \subseteq Seq(Names)
      <3>1. s \in Seq(Names) /\ Len(s) \in Nat OBVIOUS
      <3>2. ASSUME NEW l \in 0..Len(s) PROVE SubSeq(s, 1, l) \in Seq(Names)
        <4>1. \A i \in 1..l : s[i] \in Names BY <3>1
        <4> QED BY <4>1, SubSeqProperties
      <3> QED BY <3>2 DEF Prefixes
    <2>2. ASSUME NEW s \in S PROVE <<>> \in Prefixes(s)
      <3>1. s \in Seq(Names) /\ Len(s) \in Nat /\ 0 \in 0..Len(s) OBVIOUS
      <3>2. SubSeq(s, 1, 0) = <<>> BY SubSeqEmpty
      <3> QED BY <3>1, <3>2 DEF Prefixes
    <2> QED BY <2>1, <2>2
  <1>2. /\ CommonPrefixes(S) \subseteq Seq(Names)
        /\ \A p \in CommonPrefixes(S), s \in S : IsPrefix(p, s)
    BY <1>1 DEF CommonPrefixes
  <1>3. <<>> \in CommonPrefixes(S)
    <2>1. ASSUME NEW s \in S PROVE IsPrefix(<<>>, s)
      <3>1. <<>> \in Seq(Names) /\ s \in Seq(Names) /\ Len(s) \in Nat OBVIOUS
      <3>2. Len(<<>>) <= Len(s) /\ \A i \in 1..Len(<<>>) : <<>>[i] = s[i] BY <3>1
      <3> QED BY <3>1, <3>2, PrefixElements
    <2> QED BY <1>1, <2>1 DEF CommonPrefixes
  <1>4. \E p \in CommonPrefixes(S) : \A q \in CommonPrefixes(S) : Len(q) <= Len(p)
    <2>1. PICK s \in S : TRUE OBVIOUS
    <2> DEFINE Lengths == {Len(p) : p \in CommonPrefixes(S)}
    <2>2. \A p \in CommonPrefixes(S) : Len(p) \in Nat /\ Len(p) <= Len(s)
      BY <1>2, <2>1 DEF IsPrefix
    <2>3. Lengths \in SUBSET Nat /\ Lengths # {} /\ \A n \in Lengths : n <= Len(s)
      BY <1>3, <2>2
    <2> HIDE DEF Lengths
    <2>4. \E n \in Lengths : \A m \in Lengths : m <= n
      <3>1. Len(s) \in Nat BY <2>1
      <3> QED BY <2>3, <3>1, GreatestIsIn
    <2> QED BY <2>4 DEF Lengths
  <1> QED BY <1>2, <1>4 DEF LongestCommonPrefix

\* The common folder of a selection leads to all of it, and is not all of it.
LEMMA AncestorLeads ==
  ASSUME NEW includes \in Selections, includes # {}
  PROVE  /\ CommonAncestorDir(includes) \in Seq(Names)
         /\ \A inc \in includes : IsPrefix(CommonAncestorDir(includes), inc)
         /\ includes # {CommonAncestorDir(includes)}
  <1>1. includes \subseteq Paths /\ IsFiniteSet(includes) BY RestoreAssumption
  <1>2. CASE Cardinality(includes) = 1
    <2>1. PICK inc : includes = {inc} BY <1>1, <1>2, FS_Singleton
    <2>2. CommonAncestorDir(includes) = Front(inc)
      BY <1>2, <2>1 DEF CommonAncestorDir
    <2>3. inc \in Seq(Names) /\ inc # <<>> BY <1>1, <2>1 DEF Paths
    <2>4. /\ Front(inc) \in Seq(Names) /\ Len(Front(inc)) = Len(inc) - 1
          /\ \A i \in 1..Len(inc) - 1 : Front(inc)[i] = inc[i]
      <3>1. Len(inc) - 1 \in Nat /\ Len(inc) - 1 <= Len(inc) /\ 1 <= (Len(inc) - 1) + 1
        BY <2>3
      <3>2. /\ Front(inc) \in Seq(Names) /\ Len(Front(inc)) = (Len(inc) - 1) + 1 - 1
            /\ \A i \in 1..(Len(inc) - 1) + 1 - 1 : Front(inc)[i] = inc[1 + i - 1]
        <4> DEFINE n == Len(inc) - 1
        <4>1. n \in Nat /\ n <= Len(inc) /\ 1 <= n + 1 BY <3>1
        <4> HIDE DEF n
        <4>2. /\ SubSeq(inc, 1, n) \in Seq(Names) /\ Len(SubSeq(inc, 1, n)) = n + 1 - 1
              /\ \A i \in 1..n + 1 - 1 : SubSeq(inc, 1, n)[i] = inc[1 + i - 1]
          BY <2>3, <4>1, SubSeqIs
        <4> QED BY <4>2 DEF n, Front
      <3> QED BY <3>1, <3>2
    <2>5. IsPrefix(Front(inc), inc) /\ Front(inc) # inc BY <2>3, <2>4, PrefixElements
    <2> QED BY <2>1, <2>2, <2>4, <2>5
  <1>3. CASE Cardinality(includes) # 1
    <2>1. CommonAncestorDir(includes) = LongestCommonPrefix(includes)
      BY <1>3 DEF CommonAncestorDir
    <2>2. includes # {CommonAncestorDir(includes)} BY <1>3, FS_Singleton
    <2> QED BY <1>1, <2>1, <2>2, CommonPrefix DEF Paths
  <1> QED BY <1>2, <1>3

Place(path) == Rewrite(asked.mode, asked.includes, path)
\* Everything goes to its own path, or the common folder is cut off.
Cut == asked.mode = "alternate_flat" /\ asked.includes # {}

LEMMA PlaceIs ==
  ASSUME asked.includes \in Selections, NEW path \in Paths
  PROVE  /\ ~Cut => ~Dropped(path) /\ Place(path) = path
         /\ Cut => LET dir == CommonAncestorDir(asked.includes) IN
              /\ Dropped(path) <=> ~IsStrictPrefix(dir, path)
              /\ ~Dropped(path) => /\ Len(dir) < Len(path)
                                   /\ Place(path) = SubSeq(path, Len(dir) + 1, Len(path))
  <1> DEFINE dir == CommonAncestorDir(asked.includes)
  <1>1. path \in Seq(Names) /\ path # <<>> BY DEF Paths
  <1>2. CASE ~Cut BY <1>1, <1>2 DEF Cut, Dropped, Place, Rewrite, Nowhere
  <1>3. CASE Cut
    <2>1. dir \in Seq(Names) BY <1>3, AncestorLeads DEF Cut
    <2>2. ASSUME IsStrictPrefix(dir, path)
          PROVE  Len(dir) < Len(path) /\ SubSeq(path, Len(dir) + 1, Len(path)) # <<>>
      <3>1. Len(dir) <= Len(path) /\ \A i \in 1..Len(dir) : dir[i] = path[i]
        BY <1>1, <2>1, <2>2, PrefixElements DEF IsStrictPrefix
      <3>2. Len(dir) # Len(path) BY <1>1, <2>1, <2>2, <3>1 DEF IsStrictPrefix
      <3>3. Len(dir) < Len(path) BY <1>1, <2>1, <3>1, <3>2
      <3>4. Len(SubSeq(path, Len(dir) + 1, Len(path))) = Len(path) + 1 - (Len(dir) + 1)
        BY <1>1, <2>1, <3>3, SubSeqIs
      <3>5. Len(SubSeq(path, Len(dir) + 1, Len(path))) # 0 BY <1>1, <2>1, <3>3, <3>4
      <3>6. Len(<<>>) = 0 OBVIOUS
      <3>7. SubSeq(path, Len(dir) + 1, Len(path)) # <<>> BY <3>5, <3>6, Zenon
      <3> QED BY <3>3, <3>7, Zenon
    <2>3. Place(path) = IF IsStrictPrefix(dir, path)
                          THEN SubSeq(path, Len(dir) + 1, Len(path)) ELSE Nowhere
      BY <1>3 DEF Cut, Place, Rewrite
    <2> QED BY <1>3, <2>2, <2>3 DEF Dropped, Place, Nowhere
  <1> QED BY <1>2, <1>3

\* What is selected is dropped only when the whole selection is below it.
LEMMA DroppedIsAbove ==
  ASSUME asked.includes \in Selections, NEW path \in Paths,
         PathSelected(path, asked.includes), Dropped(path)
  PROVE  /\ asked.includes # {}
         /\ \A inc \in asked.includes : ~Dropped(inc) => IsStrictPrefix(path, inc)
  <1> DEFINE dir == CommonAncestorDir(asked.includes)
  <1>1. Cut BY PlaceIs
  <1>2. asked.includes # {} /\ asked.includes \subseteq Paths
    BY <1>1, RestoreAssumption DEF Cut
  <1>3. PICK inc \in asked.includes : IsPrefix(inc, path) BY <1>2 DEF PathSelected
  <1>4. dir \in Seq(Names) /\ \A i \in asked.includes : IsPrefix(dir, i)
    BY <1>2, AncestorLeads
  <1>5. dir = path
    <2>1. inc \in Seq(Names) /\ path \in Seq(Names) BY <1>2 DEF Paths
    <2>2. IsPrefix(dir, path) BY <1>3, <1>4, <2>1, PrefixOrder
    <2>3. ~IsStrictPrefix(dir, path) BY <1>1, PlaceIs
    <2> QED BY <2>2, <2>3 DEF IsStrictPrefix
  <1>6. ASSUME NEW i \in asked.includes, ~Dropped(i) PROVE IsStrictPrefix(path, i)
    <2>1. i \in Paths BY <1>2
    <2>2. IsStrictPrefix(dir, i) BY <1>1, <1>6, <2>1, PlaceIs
    <2> QED BY <1>5, <2>2
  <1> QED BY <1>2, <1>6

\* Cutting off the common folder keeps what is a prefix of what.
LEMMA PlacePrefix ==
  ASSUME asked.includes \in Selections, NEW s \in Paths, NEW t \in Paths,
         ~Dropped(s), ~Dropped(t), IsPrefix(Place(s), Place(t))
  PROVE  IsPrefix(s, t)
  <1> DEFINE dir == CommonAncestorDir(asked.includes)
  <1>1. s \in Seq(Names) /\ t \in Seq(Names) BY DEF Paths
  <1>2. CASE ~Cut BY <1>2, PlaceIs
  <1>3. CASE Cut
    <2>1. dir \in Seq(Names) BY <1>3, AncestorLeads DEF Cut
    <2>2. /\ Len(dir) < Len(s) /\ Len(dir) < Len(t)
          /\ Place(s) = SubSeq(s, Len(dir) + 1, Len(s))
          /\ Place(t) = SubSeq(t, Len(dir) + 1, Len(t))
          /\ IsStrictPrefix(dir, s) /\ IsStrictPrefix(dir, t)
      BY <1>3, PlaceIs
    <2>3. \A i \in 1..Len(dir) : s[i] = dir[i] /\ t[i] = dir[i]
      BY <1>1, <2>1, <2>2, PrefixElements DEF IsStrictPrefix
    <2>4. /\ Place(s) \in Seq(Names) /\ Len(Place(s)) = Len(s) - Len(dir)
          /\ \A i \in 1..Len(s) - Len(dir) : Place(s)[i] = s[i + Len(dir)]
      <3>1. /\ Place(s) \in Seq(Names) /\ Len(Place(s)) = Len(s) + 1 - (Len(dir) + 1)
            /\ \A i \in 1..Len(s) + 1 - (Len(dir) + 1) : Place(s)[i] = s[Len(dir) + 1 + i - 1]
        BY <1>1, <2>1, <2>2, SubSeqIs
      <3>2. Len(dir) \in Nat /\ Len(s) \in Nat BY <1>1, <2>1
      <3>3. /\ Len(s) + 1 - (Len(dir) + 1) = Len(s) - Len(dir)
            /\ \A i \in 1..Len(s) - Len(dir) : Len(dir) + 1 + i - 1 = i + Len(dir)
        BY <3>2
      <3> QED BY <3>1, <3>3
    <2>5. /\ Place(t) \in Seq(Names) /\ Len(Place(t)) = Len(t) - Len(dir)
          /\ \A i \in 1..Len(t) - Len(dir) : Place(t)[i] = t[i + Len(dir)]
      <3>1. /\ Place(t) \in Seq(Names) /\ Len(Place(t)) = Len(t) + 1 - (Len(dir) + 1)
            /\ \A i \in 1..Len(t) + 1 - (Len(dir) + 1) : Place(t)[i] = t[Len(dir) + 1 + i - 1]
        BY <1>1, <2>1, <2>2, SubSeqIs
      <3>2. Len(dir) \in Nat /\ Len(t) \in Nat BY <1>1, <2>1
      <3>3. /\ Len(t) + 1 - (Len(dir) + 1) = Len(t) - Len(dir)
            /\ \A i \in 1..Len(t) - Len(dir) : Len(dir) + 1 + i - 1 = i + Len(dir)
        BY <3>2
      <3> QED BY <3>1, <3>3
    <2>6. /\ Len(Place(s)) <= Len(Place(t))
          /\ \A i \in 1..Len(Place(s)) : Place(s)[i] = Place(t)[i]
      BY <2>4, <2>5, PrefixElements
    <2>7. Len(s) <= Len(t) BY <1>1, <2>1, <2>4, <2>5, <2>6
    <2>8. ASSUME NEW i \in 1..Len(s) PROVE s[i] = t[i]
      <3>1. CASE i <= Len(dir) BY <1>1, <2>1, <2>3, <3>1
      <3>2. CASE i > Len(dir)
        <4>1. i - Len(dir) \in 1..Len(s) - Len(dir) /\ i - Len(dir) \in 1..Len(t) - Len(dir)
          BY <1>1, <2>1, <2>7, <3>2
        <4>2. (i - Len(dir)) + Len(dir) = i BY <2>1
        <4>3. s[i] = Place(s)[i - Len(dir)] /\ t[i] = Place(t)[i - Len(dir)]
          BY <2>4, <2>5, <4>1, <4>2
        <4> QED BY <2>4, <2>6, <4>1, <4>3
      <3> QED BY <1>1, <2>1, <3>1, <3>2
    <2> QED BY <1>1, <2>7, <2>8, PrefixElements
  <1> QED BY <1>2, <1>3

(***************************************************************************)
(*                               The restore                               *)
(***************************************************************************)

RestoreLabels == {"idle", "sidecar", "rewriter", "acls", "extract", "done", "dead"}
Sidecars == {"none", "home", "away", "foreign"}
SearchRecords ==
  [pc : {"idle", "assembling", "saving"}, cancelled : BOOLEAN, meta : Sidecars]

RestoreTypes ==
  /\ snapshot \in [meta : Sidecars, encrypted : BOOLEAN, blob : {TRUE}]
  /\ asked \in [mode : Modes, includes : Selections, overwrite : BOOLEAN,
                cross : BOOLEAN, acls : BOOLEAN, auth : {"secret", "ticket"}]
  /\ before \in [Files -> {"absent", "old"}]
  /\ disk \in [Files -> {"absent", "old", "new", "other"}]
  /\ search \in SearchRecords
  /\ pc \in RestoreLabels /\ next \in 1..Len(Entries) + 1
  /\ temp \in {"none", "empty", "whole"}
  /\ written \subseteq Index /\ failed \subseteq Index /\ kept \subseteq Index

\* The search has found no sidecar only when there is none, or it could not be read.
ListingInv ==
  /\ StoppedSearchLeavesNoTrace
  /\ search.pc = "saving" /\ ~search.cancelled /\ search.meta = "none" =>
       snapshot.meta = "none" \/ unread

Wants(i) == PathMatches(Entries[i].path, asked.includes) /\ ~Dropped(Entries[i].path)

\* A temporary file is for a file that may be replaced, or that was not there.
TargetInv ==
  /\ ~Overwrite => \A path \in Files : before[path] = "old" => disk[path] = "old"
  /\ temp # "none" => /\ Working /\ Wanted /\ ~Entry.dir
                      /\ ~Overwrite => before[Entry.path] # "old"

\* Every wanted entry behind the walk was written, failed, or was kept.
WalkInv ==
  /\ \A i \in Index : i < next /\ Wants(i) => i \in written \cup failed \cup kept
  /\ \A i \in written \cup failed \cup kept : i < next /\ Wants(i)
  /\ \A i \in written : ~Entries[i].dir => disk[Entries[i].path] = "new"
  /\ \A i \in kept : ~Overwrite /\ ~Entries[i].dir /\ disk[Entries[i].path] # "absent"

OutcomeInv == SuccessIsThere /\ (outcome = "ok" => pc = "done")

RestoreInv == RestoreTypes /\ ListingInv /\ TargetInv /\ WalkInv /\ OutcomeInv

LEMMA EntriesTyped ==
  ASSUME NEW i \in Index
  PROVE  /\ Entries[i].path \in Paths /\ Entries[i].dir \in BOOLEAN
         /\ ~Entries[i].dir => Entries[i].path \in Files
  <1>1. Entries[i] \in [path : Paths, dir : BOOLEAN]
    <2> DEFINE EntryRecords == [path : Paths, dir : BOOLEAN]
    <2>1. Entries \in Seq(EntryRecords) BY RestoreAssumption
    <2> HIDE DEF EntryRecords
    <2>2. Entries[i] \in EntryRecords BY <2>1 DEF Index
    <2> QED BY <2>2 DEF EntryRecords
  <1>2. Entries[i].path \in Paths /\ Entries[i].dir \in BOOLEAN BY <1>1
  <1>3. ~Entries[i].dir => Entries[i].path \in Files BY DEF Files
  <1> QED BY <1>2, <1>3

LEMMA RestoreStart ==
  ASSUME RestoreInit
  PROVE  RestoreInv
  <1>1. RestoreTypes
    <2>1. Len(Entries) \in Nat BY RestoreAssumption
    <2>2. 1 \in 1..Len(Entries) + 1 BY <2>1
    <2>3. disk \in [Files -> {"absent", "old", "new", "other"}] BY DEF RestoreInit
    <2>4. search \in SearchRecords BY DEF RestoreInit, NoSearch, SearchRecords, Sidecars
    <2> QED BY <2>2, <2>3, <2>4 DEF RestoreInit, RestoreTypes, RestoreLabels, Sidecars
  <1>2. ListingInv BY DEF RestoreInit, ListingInv, StoppedSearchLeavesNoTrace, NoSearch
  <1>3. TargetInv BY DEF RestoreInit, TargetInv
  <1>4. WalkInv BY DEF RestoreInit, WalkInv, Index
  <1>5. OutcomeInv BY DEF RestoreInit, OutcomeInv, SuccessIsThere
  <1> QED BY <1>1, <1>2, <1>3, <1>4, <1>5 DEF RestoreInv

\* A step that leaves the extraction where it is.
LEMMA Standing ==
  ASSUME RestoreInv, UNCHANGED <<given, next, extraction>>, pc # "done",
         temp = "none" \/ pc' = pc, pc' \in RestoreLabels,
         outcome' \in {outcome, "failed", "refused"},
         search' \in SearchRecords,
         ListingInv'
  PROVE  RestoreInv'
  <1>1. RestoreTypes' BY DEF RestoreInv, RestoreTypes, given, extraction, tally
  <1>2. TargetInv'
    BY DEF RestoreInv, TargetInv, given, extraction, Overwrite, Working, Wanted, Entry, Dropped
  <1>3. WalkInv'
    BY DEF RestoreInv, WalkInv, Wants, given, extraction, tally, Overwrite, Dropped
  <1>4. outcome # "ok" /\ outcome' # "ok" BY DEF RestoreInv, OutcomeInv
  <1>5. OutcomeInv' BY <1>4 DEF OutcomeInv, SuccessIsThere
  <1> QED BY <1>1, <1>2, <1>3, <1>5 DEF RestoreInv

LEMMA BeforeTheWalk ==
  ASSUME RestoreInv, pc # "extract"
  PROVE  temp = "none"
BY DEF RestoreInv, TargetInv, Working

\* Listing and searching.
LEMMA ListingMoves ==
  ASSUME RestoreInv,
         ListSnapshotContents \/ BeginSearch \/ CancelFileSearch \/ SearchAssembled \/ SearchSaves
  PROVE  RestoreInv'
  <1>1. /\ UNCHANGED <<given, next, extraction>> /\ pc' = pc /\ outcome' = outcome
        /\ pc # "done" /\ pc' \in RestoreLabels
    BY DEF ListSnapshotContents, BeginSearch, CancelFileSearch, SearchAssembled, SearchSaves,
           RestoreInv, RestoreTypes, RestoreLabels, Browsing
  <1>2. search' \in SearchRecords
    <2>1. search \in SearchRecords /\ snapshot.meta \in Sidecars
      BY DEF RestoreInv, RestoreTypes
    <2>2. NoSearch \in SearchRecords BY DEF NoSearch, SearchRecords, Sidecars
    <2>3. CASE ListSnapshotContents \/ SearchSaves
      BY <2>1, <2>2, <2>3 DEF ListSnapshotContents, SearchSaves
    <2>4. CASE BeginSearch BY <2>4 DEF BeginSearch, SearchRecords, Sidecars
    <2>5. CASE CancelFileSearch BY <2>1, <2>5 DEF CancelFileSearch, SearchRecords
    <2>6. CASE SearchAssembled
      BY <2>1, <2>2, <2>6 DEF SearchAssembled, SearchRecords
    <2> QED BY <2>3, <2>4, <2>5, <2>6
  <1>3. ListingInv'
    <2>1. CASE ListSnapshotContents
      BY <1>1, <2>1
      DEF ListSnapshotContents, RestoreInv, ListingInv, StoppedSearchLeavesNoTrace, SaveCache, given
    <2>2. CASE BeginSearch \/ CancelFileSearch
      <3>1. search \in SearchRecords BY DEF RestoreInv, RestoreTypes
      <3>2. cached' = cached /\ unread' = unread BY <2>2 DEF BeginSearch, CancelFileSearch
      <3>3. search'.pc = "saving" /\ ~search'.cancelled => search' = search
        BY <2>2, <3>1 DEF BeginSearch, CancelFileSearch, SearchRecords
      <3> QED BY <1>1, <3>2, <3>3
        DEF RestoreInv, ListingInv, StoppedSearchLeavesNoTrace, given
    <2>3. CASE SearchAssembled
      <3>1. search \in SearchRecords BY DEF RestoreInv, RestoreTypes
      <3>2. /\ cached' = cached /\ snapshot' = snapshot
            /\ StoppedSearchLeavesNoTrace
        BY <1>1, <2>3 DEF SearchAssembled, RestoreInv, ListingInv, given
      <3>3. unread' = unread \/ unread' = TRUE \/ unread' = (unread \/ TRUE)
                \/ unread' = (unread \/ FALSE)
        BY <2>3 DEF SearchAssembled, SearchReadFails
      <3>4. unread => unread' BY <3>3
      <3>5. CASE search' = NoSearch
        BY <3>2, <3>4, <3>5 DEF ListingInv, StoppedSearchLeavesNoTrace, NoSearch
      <3>6. CASE search' = [search EXCEPT !.pc = "saving", !.meta = snapshot.meta]
        <4>1. search'.meta = snapshot.meta BY <3>1, <3>6 DEF SearchRecords
        <4> QED BY <3>2, <3>4, <4>1 DEF ListingInv, StoppedSearchLeavesNoTrace
      <3>7. CASE search' = [search EXCEPT !.pc = "saving"] /\ SearchReadFails(TRUE)
        <4>1. search'.cancelled = search.cancelled BY <3>1, <3>7 DEF SearchRecords
        <4>2. search.cancelled \/ unread' BY <3>7 DEF SearchReadFails
        <4> QED BY <3>2, <3>4, <4>1, <4>2 DEF ListingInv, StoppedSearchLeavesNoTrace
      <3> QED BY <2>3, <3>5, <3>6, <3>7 DEF SearchAssembled
    <2>4. CASE SearchSaves
      BY <1>1, <2>4
      DEF SearchSaves, SaveCache, RestoreInv, RestoreTypes, ListingInv,
          StoppedSearchLeavesNoTrace, given, NoSearch
    <2> QED BY <2>1, <2>2, <2>3, <2>4
  <1> QED BY <1>1, <1>2, <1>3, Standing

\* What a restore does before it extracts, and a walk that breaks off.
LEMMA PreparationMoves ==
  ASSUME RestoreInv,
         BeginRestore \/ ReadSidecar \/ CheckRewriter \/ LoadAcls \/ WalkBreaks
  PROVE  RestoreInv'
  <1>1. /\ UNCHANGED <<given, next, extraction>> /\ pc # "done" /\ pc' \in RestoreLabels
        /\ outcome' \in {outcome, "failed", "refused"}
    BY DEF BeginRestore, ReadSidecar, CheckRewriter, LoadAcls, WalkBreaks, Refuse, Working,
           RestoreLabels
  <1>2. temp = "none"
    BY BeforeTheWalk DEF BeginRestore, ReadSidecar, CheckRewriter, LoadAcls, WalkBreaks
  <1>3. search' = search
    BY DEF BeginRestore, ReadSidecar, CheckRewriter, LoadAcls, WalkBreaks, listing
  <1>4. ListingInv'
    <2>1. CASE ReadSidecar
      BY <1>1, <1>3, <2>1
      DEF ReadSidecar, SaveCache, RestoreInv, ListingInv, StoppedSearchLeavesNoTrace, given
    <2>2. CASE BeginRestore \/ CheckRewriter \/ LoadAcls \/ WalkBreaks
      BY <1>1, <2>2
      DEF BeginRestore, CheckRewriter, LoadAcls, WalkBreaks, RestoreInv, ListingInv,
          StoppedSearchLeavesNoTrace, given, listing
    <2> QED BY <2>1, <2>2
  <1>5. search' \in SearchRecords
    BY <1>3 DEF RestoreInv, RestoreTypes
  <1> QED BY <1>1, <1>2, <1>4, <1>5, Standing

\* A step of the extraction leaves what was asked for, and the listing.
LEMMA Extracting ==
  ASSUME RestoreInv, UNCHANGED <<given, listing, outcome>>, outcome # "ok"
  PROVE  /\ ListingInv' /\ OutcomeInv'
         /\ \A i \in Index : Wants(i)' <=> Wants(i)
         /\ Overwrite' = Overwrite
         /\ RestoreTypes' <=> /\ disk' \in [Files -> {"absent", "old", "new", "other"}]
                              /\ pc' \in RestoreLabels /\ next' \in 1..Len(Entries) + 1
                              /\ temp' \in {"none", "empty", "whole"}
                              /\ written' \subseteq Index /\ failed' \subseteq Index
                              /\ kept' \subseteq Index
  <1>1. ListingInv' BY DEF RestoreInv, ListingInv, StoppedSearchLeavesNoTrace, given, listing
  <1>2. OutcomeInv' BY DEF OutcomeInv, SuccessIsThere
  <1> QED BY <1>1, <1>2 DEF RestoreInv, RestoreTypes, given, listing, Wants, Dropped, Overwrite

LEMMA Accounted ==
  ASSUME RestoreInv
  PROVE  \A i \in written \cup failed \cup kept : i \in Index
BY DEF RestoreInv, RestoreTypes

\* The walk goes on to the next entry: the wanted one it leaves behind is accounted for.
LEMMA WalksOn ==
  ASSUME RestoreInv, Working, NextEntry, temp' = "none",
         disk' = disk \/ (disk' = [disk EXCEPT ![Entry.path] = "new"] /\ temp = "whole"),
         written' \in {written, written \cup {next}}, failed' \in {failed, failed \cup {next}},
         kept' \in {kept, kept \cup {next}},
         Wanted <=> next \in written' \cup failed' \cup kept',
         next \in written' => Entry.dir \/ disk' = [disk EXCEPT ![Entry.path] = "new"],
         next \in kept' => ~Overwrite /\ ~Entry.dir /\ disk[Entry.path] # "absent"
  PROVE  RestoreInv'
  <1>1. Len(Entries) \in Nat /\ next \in Index /\ next \in Nat /\ Index \subseteq Nat
    BY RestoreAssumption DEF Working, RestoreInv, RestoreTypes, Index
  <1>2. /\ UNCHANGED <<given, listing, outcome>> /\ pc' = "extract" /\ next' = next + 1
        /\ outcome # "ok"
    BY DEF NextEntry, Working, RestoreInv, OutcomeInv
  <1>3. Wanted <=> Wants(next) BY DEF Wanted, Wants, Entry
  <1>4. \A path \in Files : disk'[path] \in {disk[path], "new"}
    BY DEF RestoreInv, RestoreTypes
  <1>5. disk' \in [Files -> {"absent", "old", "new", "other"}]
    BY <1>4 DEF RestoreInv, RestoreTypes
  <1>6. RestoreTypes'
    <2>1. next' \in 1..Len(Entries) + 1 BY <1>1, <1>2 DEF Index
    <2>2. pc' \in RestoreLabels BY <1>2 DEF RestoreLabels
    <2>3. written' \subseteq Index /\ failed' \subseteq Index /\ kept' \subseteq Index
      BY <1>1 DEF RestoreInv, RestoreTypes
    <2> QED BY <1>2, <1>5, <2>1, <2>2, <2>3, Extracting
  <1>7. TargetInv'
    <2>1. UNCHANGED <<given, Overwrite>> BY <1>2, Extracting
    <2>2. ASSUME ~Overwrite, NEW path \in Files, before[path] = "old" PROVE disk'[path] = "old"
      <3>1. disk[path] = "old" BY <2>2 DEF RestoreInv, TargetInv
      <3>2. disk' = disk \/ (disk' = [disk EXCEPT ![Entry.path] = "new"] /\ Entry.path # path)
        BY <2>2 DEF RestoreInv, TargetInv
      <3> QED BY <3>1, <3>2 DEF RestoreInv, RestoreTypes
    <2> QED BY <2>1, <2>2 DEF TargetInv, given
  <1>8. WalkInv'
    <2>1. /\ \A i \in Index : Wants(i)' <=> Wants(i)
          /\ Overwrite' = Overwrite
      BY <1>2, Extracting
    <2>2. \A i \in Index : i < next' => i < next \/ i = next BY <1>1, <1>2
    <2>3. /\ \A i \in written' : i = next \/ i \in written
          /\ \A i \in kept' : i = next \/ i \in kept
          /\ \A i \in failed' : i = next \/ i \in failed
          /\ next \notin written \cup kept \cup failed
      BY <1>1 DEF RestoreInv, WalkInv
    <2>4. \A i \in Index : i < next' /\ Wants(i)' => i \in written' \cup failed' \cup kept'
      BY <1>3, <2>1, <2>2 DEF RestoreInv, WalkInv
    <2>5. \A i \in written' \cup failed' \cup kept' : i < next' /\ Wants(i)'
      BY <1>1, <1>2, <1>3, <2>1, <2>3 DEF RestoreInv, WalkInv, RestoreTypes
    <2>6. ASSUME NEW i \in written', ~Entries[i].dir PROVE disk'[Entries[i].path] = "new"
      <3>1. i \in Index /\ Entries[i].path \in Files
        BY <1>1, <2>3, <2>6, EntriesTyped DEF RestoreInv, RestoreTypes
      <3>2. CASE i = next BY <2>6, <3>1, <3>2 DEF Entry, RestoreInv, RestoreTypes
      <3>3. CASE i \in written
        BY <1>4, <2>6, <3>1, <3>3 DEF RestoreInv, WalkInv
      <3> QED BY <2>3, <3>2, <3>3
    <2>7. ASSUME NEW i \in kept'
          PROVE  ~Overwrite' /\ ~Entries[i].dir /\ disk'[Entries[i].path] # "absent"
      <3>1. ~Overwrite /\ ~Entries[i].dir /\ disk[Entries[i].path] # "absent"
        BY <2>3, <2>7 DEF Entry, RestoreInv, WalkInv
      <3>2. Entries[i].path \in Files
        BY <1>1, <2>3, <3>1, EntriesTyped DEF RestoreInv, RestoreTypes
      <3> QED BY <1>4, <2>1, <3>1, <3>2
    <2> QED BY <2>4, <2>5, <2>6, <2>7 DEF WalkInv
  <1> QED BY <1>2, <1>6, <1>7, <1>8, Extracting DEF RestoreInv

\* One entry of the archive.
LEMMA EntryMoves ==
  ASSUME RestoreInv,
         PassEntry \/ MakeFolder \/ KeepFile \/ CreateTemp \/ CopyPayload \/ RenameIntoPlace
  PROVE  RestoreInv'
  <1>1. Working /\ next \notin written \cup failed \cup kept
    <2>1. next \in Nat BY RestoreAssumption DEF RestoreInv, RestoreTypes
    <2> QED BY <2>1 DEF PassEntry, MakeFolder, KeepFile, CreateTemp, CopyPayload, RenameIntoPlace,
                 RestoreInv, WalkInv
  <1>2. ASSUME FileFails, Wanted, ~Entry.dir PROVE RestoreInv'
    BY <1>1, <1>2, WalksOn DEF FileFails
  <1>3. CASE PassEntry
    BY <1>1, <1>3, WalksOn DEF PassEntry, tally, RestoreInv, TargetInv
  <1>4. CASE MakeFolder
    BY <1>1, <1>4, WalksOn DEF MakeFolder, RestoreInv, TargetInv
  <1>5. CASE KeepFile
    BY <1>1, <1>5, WalksOn DEF KeepFile
  <1>6. CASE RenameIntoPlace
    <2>1. Wanted /\ ~Entry.dir BY <1>6 DEF RenameIntoPlace, RestoreInv, TargetInv
    <2>2. CASE FileFails BY <1>2, <2>1, <2>2
    <2>3. CASE ~FileFails
      BY <1>1, <1>6, <2>1, <2>3, WalksOn DEF RenameIntoPlace
    <2> QED BY <2>2, <2>3
  <1>7. ASSUME CreateTemp \/ CopyPayload, ~FileFails PROVE RestoreInv'
    <2>1. /\ UNCHANGED <<given, listing, outcome, pc, next, disk, tally>> /\ outcome # "ok"
          /\ temp' \in {"none", "empty", "whole"}
      BY <1>1, <1>7 DEF CreateTemp, CopyPayload, Working, RestoreInv, OutcomeInv
    <2>2. RestoreTypes' BY <2>1, Extracting DEF RestoreInv, RestoreTypes, tally
    <2>3. Working /\ Wanted /\ ~Entry.dir /\ (~Overwrite => before[Entry.path] # "old")
      <3>1. CASE CreateTemp
        <4>1. Working /\ Wanted /\ ~Entry.dir /\ (Overwrite \/ disk[Entry.path] = "absent")
          BY <3>1 DEF CreateTemp
        <4>2. next \in Index /\ Entry = Entries[next]
          BY <4>1, RestoreAssumption DEF Working, RestoreInv, RestoreTypes, Index, Entry
        <4>3. Entry.path \in Files BY <4>1, <4>2, EntriesTyped
        <4> QED BY <4>1, <4>3 DEF RestoreInv, TargetInv
      <3>2. CASE CopyPayload BY <3>2 DEF CopyPayload, RestoreInv, TargetInv
      <3> QED BY <1>7, <3>1, <3>2
    <2>4. TargetInv'
      BY <2>1, <2>3
      DEF RestoreInv, TargetInv, given, Overwrite, Working, Wanted, Entry, Dropped
    <2>5. WalkInv'
      BY <2>1, Accounted, Extracting DEF RestoreInv, WalkInv, tally
    <2> QED BY <2>1, <2>2, <2>4, <2>5, Extracting DEF RestoreInv
  <1>8. CASE CreateTemp BY <1>2, <1>7, <1>8 DEF CreateTemp
  <1>9. CASE CopyPayload
    <2>1. Wanted /\ ~Entry.dir BY <1>9 DEF CopyPayload, RestoreInv, TargetInv
    <2> QED BY <1>2, <1>7, <1>9, <2>1
  <1> QED BY <1>3, <1>4, <1>5, <1>6, <1>8, <1>9

\* The application ends, or another program writes what was not there.
LEMMA OutsideMoves ==
  ASSUME RestoreInv, Crash \/ \E path \in Files : OtherWrites(path)
  PROVE  RestoreInv'
  <1>1. /\ UNCHANGED <<given, listing, outcome, next, tally>> /\ outcome # "ok"
    BY DEF Crash, OtherWrites, RestoreInv, OutcomeInv
  <1>2. CASE Crash
    <2>1. RestoreTypes'
      BY <1>1, <1>2, Extracting DEF Crash, RestoreInv, RestoreTypes, tally, RestoreLabels
    <2>2. TargetInv' BY <1>1, <1>2, Extracting DEF Crash, RestoreInv, TargetInv, given
    <2>3. WalkInv' BY <1>1, <1>2, Accounted, Extracting DEF Crash, RestoreInv, WalkInv, tally
    <2> QED BY <1>1, <2>1, <2>2, <2>3, Extracting DEF RestoreInv
  <1>3. ASSUME NEW path \in Files, OtherWrites(path) PROVE RestoreInv'
    <2>1. disk[path] = "absent" /\ disk' = [disk EXCEPT ![path] = "other"]
          /\ UNCHANGED <<pc, temp>>
      BY <1>3 DEF OtherWrites
    <2>2. \A f \in Files : disk'[f] = disk[f] \/ (disk[f] = "absent" /\ disk'[f] = "other")
      BY <2>1 DEF RestoreInv, RestoreTypes
    <2>3. disk' \in [Files -> {"absent", "old", "new", "other"}]
      BY <2>1 DEF RestoreInv, RestoreTypes
    <2>4. RestoreTypes' BY <1>1, <2>1, <2>3, Extracting DEF RestoreInv, RestoreTypes, tally
    <2>5. TargetInv'
      BY <1>1, <2>1, <2>2, Extracting
      DEF RestoreInv, TargetInv, given, Working, Wanted, Entry, Dropped
    <2>6. WalkInv'
      <3>1. \A i \in written \cup kept : ~Entries[i].dir => Entries[i].path \in Files
        BY EntriesTyped DEF RestoreInv, RestoreTypes
      <3>2. \A i \in Index : Wants(i)' <=> Wants(i) BY <1>1, Extracting
      <3>3. Overwrite' = Overwrite BY <1>1, Extracting
      <3>4. \A i \in written : ~Entries[i].dir => disk'[Entries[i].path] = "new"
        BY <2>2, <3>1 DEF RestoreInv, WalkInv
      <3>5. \A i \in kept : ~Overwrite /\ ~Entries[i].dir /\ disk'[Entries[i].path] # "absent"
        BY <2>2, <3>1 DEF RestoreInv, WalkInv
      <3>6. /\ \A i \in Index : i < next /\ Wants(i)' => i \in written \cup failed \cup kept
            /\ \A i \in written \cup failed \cup kept : i < next /\ Wants(i)'
        BY <3>2, Accounted DEF RestoreInv, WalkInv
      <3> QED BY <1>1, <3>3, <3>4, <3>5, <3>6 DEF WalkInv, tally
    <2> QED BY <1>1, <2>4, <2>5, <2>6, Extracting DEF RestoreInv
  <1> QED BY <1>2, <1>3

\* What no entry is below of is selected only if it is wanted, when something that was
\* selected has its place.
LEMMA SelectedIsWanted ==
  ASSUME asked.includes \in Selections, NEW k \in Index, ~Entries[k].dir,
         PathSelected(Entries[k].path, asked.includes),
         asked.includes # {} => \E inc \in asked.includes, i \in Index :
            ~Dropped(inc) /\ IsPrefix(inc, Entries[i].path)
  PROVE  Wants(k)
  <1> DEFINE path == Entries[k].path
  <1>1. path \in Paths /\ asked.includes \subseteq Paths
    BY EntriesTyped, RestoreAssumption
  <1>2. PathMatches(path, asked.includes) BY DEF PathSelected, PathMatches
  <1>3. ASSUME Dropped(path) PROVE FALSE
    <2>1. /\ asked.includes # {}
          /\ \A inc \in asked.includes : ~Dropped(inc) => IsStrictPrefix(path, inc)
      BY <1>1, <1>3, DroppedIsAbove
    <2>2. PICK inc \in asked.includes, i \in Index :
            ~Dropped(inc) /\ IsPrefix(inc, Entries[i].path)
      BY <2>1
    <2>3. /\ path \in Seq(Names) /\ inc \in Seq(Names) /\ Entries[i].path \in Seq(Names)
          /\ IsPrefix(path, inc) /\ path # inc
      BY <1>1, <2>1, <2>2, EntriesTyped DEF Paths, IsStrictPrefix
    <2>4. IsPrefix(path, Entries[i].path) BY <2>2, <2>3, PrefixOrder
    <2>5. path # Entries[i].path BY <2>2, <2>3, PrefixOrder
    <2> QED BY <2>4, <2>5, RestoreAssumption DEF IsStrictPrefix, Index
  <1> QED BY <1>2, <1>3 DEF Wants

\* "ok" is said when every entry was passed, none failed, and some of the selection was met.
LEMMA VerdictMoves ==
  ASSUME RestoreInv, Verdict
  PROVE  RestoreInv'
  <1>1. /\ UNCHANGED <<given, listing, next, extraction>> /\ pc = "extract" /\ pc' = "done"
        /\ next > Len(Entries)
    BY DEF Verdict, Refuse
  <1>2. temp = "none"
    BY <1>1, RestoreAssumption DEF RestoreInv, RestoreTypes, TargetInv, Working
  <1>3. /\ RestoreTypes' /\ ListingInv' /\ TargetInv' /\ WalkInv'
    <2>1. RestoreTypes'
      BY <1>1 DEF RestoreInv, RestoreTypes, given, listing, extraction, tally, RestoreLabels
    <2>2. ListingInv'
      BY <1>1 DEF RestoreInv, ListingInv, StoppedSearchLeavesNoTrace, given, listing
    <2>3. TargetInv'
      BY <1>1, <1>2 DEF RestoreInv, TargetInv, given, extraction, Overwrite
    <2>4. WalkInv'
      BY <1>1 DEF RestoreInv, WalkInv, Wants, given, extraction, tally, Overwrite, Dropped
    <2> QED BY <2>1, <2>2, <2>3, <2>4
  <1>4. asked.includes \in Selections /\ asked.includes \subseteq Paths
    BY RestoreAssumption DEF RestoreInv, RestoreTypes
  <1>5. CASE outcome' # "ok" BY <1>3, <1>5 DEF RestoreInv, OutcomeInv, SuccessIsThere
  <1>6. CASE outcome' = "ok"
    <2>1. /\ failed = {}
          /\ asked.includes # {} => \E inc \in asked.includes :
               /\ ~Dropped(inc)
               /\ \E i \in written \cup failed \cup kept :
                     IsPrefix(Place(inc), Place(Entries[i].path))
      BY <1>6 DEF Verdict, Refuse, Place
    <2>2. asked.includes # {} => \E inc \in asked.includes, i \in Index :
             ~Dropped(inc) /\ IsPrefix(inc, Entries[i].path)
      <3>1. SUFFICES ASSUME asked.includes # {}
                     PROVE  \E inc \in asked.includes, i \in Index :
                              ~Dropped(inc) /\ IsPrefix(inc, Entries[i].path)
        OBVIOUS
      <3>2. PICK inc \in asked.includes, i \in written \cup failed \cup kept :
              ~Dropped(inc) /\ IsPrefix(Place(inc), Place(Entries[i].path))
        BY <2>1, <3>1
      <3>3. i \in Index /\ ~Dropped(Entries[i].path)
        BY Accounted DEF RestoreInv, WalkInv, Wants
      <3>4. IsPrefix(inc, Entries[i].path)
        BY <1>4, <3>2, <3>3, EntriesTyped, PlacePrefix
      <3> QED BY <3>2, <3>3, <3>4
    <2>3. asked.includes = {} \/ \E i \in Index : PathSelected(Entries[i].path, asked.includes)
      BY <2>2 DEF PathSelected
    <2>4. ASSUME NEW path \in Files, PathSelected(path, asked.includes)
          PROVE  disk[path] = "new" \/ (~Overwrite /\ disk[path] \in {"old", "other"})
      <3>1. PICK k \in Index : ~Entries[k].dir /\ Entries[k].path = path BY DEF Files
      <3>2. Wants(k) BY <1>4, <2>2, <2>4, <3>1, SelectedIsWanted
      <3>3. k < next BY <1>1, RestoreAssumption DEF RestoreInv, RestoreTypes, Index
      <3>4. k \in written \cup kept BY <2>1, <3>2, <3>3 DEF RestoreInv, WalkInv
      <3> QED BY <3>1, <3>4 DEF RestoreInv, WalkInv, RestoreTypes
    <2>5. SuccessIsThere'
      BY <1>1, <2>3, <2>4 DEF SuccessIsThere, given, extraction, Overwrite
    <2> QED BY <1>1, <1>3, <2>5 DEF RestoreInv, OutcomeInv
  <1> QED BY <1>5, <1>6

LEMMA RestoreMoves ==
  ASSUME RestoreInv, [RestoreNext]_restoreVars
  PROVE  RestoreInv'
  <1>1. CASE RestoreNext
    BY <1>1, ListingMoves, PreparationMoves, EntryMoves, VerdictMoves, OutsideMoves
    DEF RestoreNext
  <1>2. CASE UNCHANGED restoreVars
    <2>1. RestoreTypes' BY <1>2 DEF restoreVars, RestoreInv, RestoreTypes
    <2>2. ListingInv'
      BY <1>2 DEF restoreVars, RestoreInv, ListingInv, StoppedSearchLeavesNoTrace
    <2>3. TargetInv'
      BY <1>2
      DEF restoreVars, RestoreInv, TargetInv, Overwrite, Working, Wanted, Entry, Dropped
    <2>4. WalkInv' BY <1>2 DEF restoreVars, RestoreInv, WalkInv, Wants, Overwrite, Dropped
    <2>5. OutcomeInv' BY <1>2 DEF restoreVars, RestoreInv, OutcomeInv, SuccessIsThere, Overwrite
    <2> QED BY <2>1, <2>2, <2>3, <2>4, <2>5 DEF RestoreInv
  <1> QED BY <1>1, <1>2

LEMMA RestoreInvariant == RestoreSpec => []RestoreInv
  <1>1. RestoreInit => RestoreInv BY RestoreStart
  <1>2. RestoreInv /\ [RestoreNext]_restoreVars => RestoreInv' BY RestoreMoves
  <1> QED BY <1>1, <1>2, PTL DEF RestoreSpec

\* Whatever fails, whoever writes beside it, and wherever it is closed, a restore leaves
\* each file of the destination as it was or whole, and replaces none it was not to replace
\* (ExtractWithRewriter).
THEOREM FilesAreWhole == RestoreSpec => []TargetsWhole
  <1>1. RestoreInv => TargetsWhole BY DEF RestoreInv, RestoreTypes, TargetInv, TargetsWhole
  <1> QED BY <1>1, RestoreInvariant, PTL

\* A restore that reports success has put every selected file in its place
\* (RestoreSnapshotInline).
THEOREM RestoredIsThere == RestoreSpec => []SuccessIsThere
  <1>1. RestoreInv => SuccessIsThere BY DEF RestoreInv, OutcomeInv
  <1> QED BY <1>1, RestoreInvariant, PTL

\* The cache says that a snapshot has no sidecar only if it has none or a read of it
\* failed, however often searches are stopped (SearchFilesInline).
THEOREM StopsAreForgotten == RestoreSpec => []StoppedSearchLeavesNoTrace
  <1>1. RestoreInv => StoppedSearchLeavesNoTrace BY DEF RestoreInv, ListingInv
  <1> QED BY <1>1, RestoreInvariant, PTL

(***************************************************************************)
(*                    Offsets, chunks and the bytes in them                *)
(***************************************************************************)

\* The bytes of the image from offset a, n of them.
Bytes(a, n) == [k \in 1..n |-> a + k]

LEMMA LesserOf ==
  ASSUME NEW a \in Nat, NEW b \in Nat
  PROVE  Min({a, b}) = IF a <= b THEN a ELSE b
BY DEF Min

LEMMA Division ==
  ASSUME NEW a \in Nat, NEW b \in Nat \ {0}
  PROVE  /\ a \div b \in Nat
         /\ (a \div b) * b <= a
         /\ a < (a \div b) * b + b
OBVIOUS

LEMMA Multiples ==
  ASSUME NEW i \in Nat, NEW k \in Nat, NEW b \in Nat \ {0}
  PROVE  /\ i * b \in Nat /\ (i + 1) * b = i * b + b
         /\ i < k => i * b + b <= k * b
         /\ i <= k => i * b <= k * b
OBVIOUS

\* What was read, and a part of a chunk behind it.
Spliced(got, data, from, to) == got \o SubSeq(data, from + 1, to)

\* From one to another offset in d bytes from offset s, which follow g bytes from offset off.
Follows(off, g, s, d, from, to, n) ==
  /\ off \in Nat /\ g \in Nat /\ s \in Nat /\ d \in Nat /\ from \in Nat /\ to \in Nat /\ n \in Nat
  /\ from <= to /\ to <= d /\ off + g = s + from /\ n = g + (to - from)

LEMMA BytesRead ==
  ASSUME NEW off, NEW g, NEW s, NEW d, NEW from, NEW to, NEW n, Follows(off, g, s, d, from, to, n)
  PROVE  Spliced(Bytes(off, g), Bytes(s, d), from, to) = Bytes(off, n)
  <1> DEFINE sub == SubSeq(Bytes(s, d), from + 1, to)
  <1>0. /\ off \in Nat /\ g \in Nat /\ s \in Nat /\ d \in Nat /\ from \in Nat /\ to \in Nat /\ n \in Nat
        /\ from <= to /\ to <= d /\ off + g = s + from /\ n = g + (to - from)
    BY DEF Follows
  <1>1. Bytes(off, g) \in Seq(Nat) /\ Len(Bytes(off, g)) = g BY <1>0 DEF Bytes
  <1>2. sub \in Seq(Nat) /\ Len(sub) = to - from /\ \A i \in 1..(to - from) : sub[i] = s + from + i
    <2>1. \A i \in 1..d : Bytes(s, d)[i] = s + i BY DEF Bytes
    <2>2. Bytes(s, d) \in Seq(Nat) /\ Len(Bytes(s, d)) = d BY <1>0 DEF Bytes
    <2>3. /\ sub \in Seq(Nat)
          /\ Len(sub) = to + 1 - (from + 1)
          /\ \A i \in 1..(to + 1 - (from + 1)) : sub[i] = Bytes(s, d)[(from + 1) + i - 1]
      <3>1. from + 1 \in Nat \ {0} /\ to <= d /\ from + 1 <= to + 1 BY <1>0
      <3> QED BY <1>0, <2>2, <3>1, SubSeqIs
    <2> QED BY <1>0, <2>1, <2>3
  <1> DEFINE all == Bytes(off, g) \o sub
  <1> HIDE DEF sub
  <1>3. /\ all \in Seq(Nat) /\ Len(all) = g + (to - from)
        /\ \A i \in 1..(g + (to - from)) : all[i] = IF i <= g THEN Bytes(off, g)[i] ELSE sub[i - g]
    <2> DEFINE b == Bytes(off, g)
    <2>1. b \in Seq(Nat) /\ sub \in Seq(Nat) /\ Len(b) = g /\ Len(sub) = to - from BY <1>1, <1>2
    <2> HIDE DEF b
    <2>2. /\ b \o sub \in Seq(Nat) /\ Len(b \o sub) = Len(b) + Len(sub)
          /\ \A i \in 1..Len(b) + Len(sub) : (b \o sub)[i] = IF i <= Len(b) THEN b[i] ELSE sub[i - Len(b)]
      BY <2>1, ConcatProperties
    <2>3. /\ b \o sub \in Seq(Nat) /\ Len(b \o sub) = g + (to - from)
          /\ \A i \in 1..(g + (to - from)) : (b \o sub)[i] = IF i <= g THEN b[i] ELSE sub[i - g]
      BY <2>1, <2>2
    <2> QED BY <2>3 DEF b
  <1>4. \A i \in 1..g : Bytes(off, g)[i] = off + i BY DEF Bytes
  <1> HIDE DEF all
  <1>5. ASSUME NEW i \in 1..n PROVE all[i] = off + i
    <2>1. i <= g => all[i] = off + i BY <1>0, <1>3, <1>4
    <2>2. ~(i <= g) => all[i] = off + i
      <3>1. ~(i <= g) => i - g \in 1..(to - from) BY <1>0
      <3>2. ~(i <= g) => all[i] = s + from + (i - g) BY <1>0, <1>2, <1>3, <3>1
      <3> QED BY <1>0, <3>2
    <2> QED BY <2>1, <2>2
  <1>6. all = Bytes(off, n)
    <2>1. all = [i \in 1..n |-> all[i]] BY <1>0, <1>3
    <2> QED BY <1>5, <2>1 DEF Bytes
  <1> QED BY <1>6 DEF sub, all, Spliced

LEMMA ListIs ==
  ASSUME NEW S, NEW n \in Nat, NEW f \in [1..n -> S]
  PROVE  f \in Seq(S) /\ Len(f) = n
OBVIOUS

\* The chunks of a fixed index begin at the multiples of its size, and reach its end.
LEMMA FixedChunks ==
  ASSUME index = "fixed"
  PROVE  /\ Ends \in Seq(Nat) /\ Len(Ends) \in Nat \ {0}
         /\ \A i \in 0..Len(Ends) - 1 :
              /\ i * ChunkSize \in Nat /\ i * ChunkSize < Total
              /\ StartOf(i) = i * ChunkSize
              /\ Ends[i + 1] = IF i * ChunkSize + ChunkSize <= Total
                               THEN i * ChunkSize + ChunkSize ELSE Total
         /\ \A i \in Nat : i * ChunkSize < Total => i < Len(Ends)
  <1> DEFINE n == (Total + ChunkSize - 1) \div ChunkSize
  <1> USE ImageAssumption
  <1>1. n \in Nat /\ n * ChunkSize <= Total + ChunkSize - 1 /\ Total + ChunkSize - 1 < n * ChunkSize + ChunkSize
    <2>1. Total + ChunkSize - 1 \in Nat OBVIOUS
    <2> QED BY <2>1, Division
  <1> HIDE DEF n
  <1>2. \A i \in Nat : i * ChunkSize \in Nat /\ (i + 1) * ChunkSize = i * ChunkSize + ChunkSize
    BY Multiples
  <1>3. Ends = [i \in 1..n |-> Min({i * ChunkSize, Total})] BY DEF Ends, FixedEnds, n
  <1>4. \A i \in 1..n : Ends[i] = IF i * ChunkSize <= Total THEN i * ChunkSize ELSE Total
    <2> TAKE i \in 1..n
    <2>1. i \in Nat /\ i * ChunkSize \in Nat BY <1>1, <1>2
    <2>2. Min({i * ChunkSize, Total}) = IF i * ChunkSize <= Total THEN i * ChunkSize ELSE Total
      BY <2>1, LesserOf
    <2> QED BY <1>3, <2>2
  <1>5. Ends \in Seq(Nat) /\ Len(Ends) = n
    <2>1. \A i \in 1..n : Ends[i] \in Nat BY <1>1, <1>2, <1>4
    <2>2. Ends \in [1..n -> Nat] BY <1>3, <2>1
    <2> QED BY <1>1, <2>2, ListIs
  <1>6. \A i \in Nat : i < n => i * ChunkSize < Total
    <2>1. \A i \in Nat : i < n => i * ChunkSize + ChunkSize <= n * ChunkSize
      BY <1>1, Multiples
    <2> QED BY <1>1, <1>2, <2>1
  <1>7. \A i \in Nat : i * ChunkSize < Total => i < n
    <2> TAKE i \in Nat
    <2>1. n <= i => n * ChunkSize <= i * ChunkSize BY <1>1, Multiples
    <2>2. n * ChunkSize \in Nat /\ i * ChunkSize \in Nat BY <1>1, <1>2
    <2> QED BY <1>1, <2>1, <2>2
  <1>8. n # 0
    <2>1. 0 * ChunkSize < Total OBVIOUS
    <2> QED BY <1>7, <2>1
  <1>9. ASSUME NEW i \in 0..n - 1
        PROVE  /\ i * ChunkSize \in Nat /\ i * ChunkSize < Total
               /\ StartOf(i) = i * ChunkSize
               /\ Ends[i + 1] = IF i * ChunkSize + ChunkSize <= Total
                                THEN i * ChunkSize + ChunkSize ELSE Total
    <2>1. i \in Nat /\ i < n /\ i + 1 \in 1..n BY <1>1
    <2>2. i * ChunkSize \in Nat /\ i * ChunkSize < Total BY <1>2, <1>6, <2>1
    <2>3. StartOf(i) = i * ChunkSize
      <3>1. CASE i = 0 BY <3>1 DEF StartOf
      <3>2. CASE i # 0
        <4>1. i \in 1..n BY <1>1, <2>1, <3>2
        <4> QED BY <1>4, <2>2, <3>2, <4>1 DEF StartOf
      <3> QED BY <3>1, <3>2
    <2>4. Ends[i + 1] = IF (i + 1) * ChunkSize <= Total THEN (i + 1) * ChunkSize ELSE Total
      BY <1>4, <2>1
    <2>5. (i + 1) * ChunkSize = i * ChunkSize + ChunkSize BY <1>2, <2>1
    <2> QED BY <2>2, <2>3, <2>4, <2>5
  <1> QED BY <1>1, <1>5, <1>7, <1>8, <1>9

\* Every chunk, of either index, holds some bytes of the image.
LEMMA Chunks ==
  ASSUME index \in {"fixed", "dynamic"}
  PROVE  /\ Ends \in Seq(Nat) /\ Len(Ends) \in Nat \ {0}
         /\ \A i \in 0..Len(Ends) - 1 :
              StartOf(i) \in Nat /\ Ends[i + 1] \in Nat /\ StartOf(i) < Ends[i + 1] /\ Ends[i + 1] <= Total
  <1>1. CASE index = "fixed"
    <2>1. ASSUME NEW i \in 0..Len(Ends) - 1
          PROVE  StartOf(i) \in Nat /\ Ends[i + 1] \in Nat /\ StartOf(i) < Ends[i + 1] /\ Ends[i + 1] <= Total
      <3>1. /\ i * ChunkSize \in Nat /\ i * ChunkSize < Total /\ StartOf(i) = i * ChunkSize
            /\ Ends[i + 1] = IF i * ChunkSize + ChunkSize <= Total
                             THEN i * ChunkSize + ChunkSize ELSE Total
        BY <1>1, FixedChunks
      <3> QED BY <3>1, ImageAssumption
    <2> QED BY <1>1, <2>1, FixedChunks
  <1>2. CASE index # "fixed"
    <2>1. Ends = DynamicEnds BY <1>2 DEF Ends
    <2>2. /\ Ends \in Seq(1..Total) /\ Ends # <<>>
          /\ \A i, k \in DOMAIN Ends : i < k => Ends[i] < Ends[k]
      BY <2>1, ImageAssumption
    <2>3. Len(Ends) \in Nat \ {0} /\ DOMAIN Ends = 1..Len(Ends) /\ Ends \in Seq(Nat)
          /\ \A i \in 1..Len(Ends) : Ends[i] \in 1..Total
      <3>1. Len(Ends) \in Nat /\ DOMAIN Ends = 1..Len(Ends) BY <2>2
      <3>2. Len(Ends) # 0 BY <2>2
      <3>3. \A i \in 1..Len(Ends) : Ends[i] \in 1..Total BY <2>2, ElementOfSeq
      <3>4. Ends \in Seq(Nat)
        <4>1. \A i \in 1..Len(Ends) : Ends[i] \in Nat BY <3>3
        <4>2. Ends \in [1..Len(Ends) -> 1..Total] BY <2>2, LenProperties
        <4>3. Ends \in [1..Len(Ends) -> Nat] BY <4>1, <4>2
        <4> QED BY <3>1, <4>3, ListIs
      <3> QED BY <3>1, <3>2, <3>3, <3>4
    <2>4. ASSUME NEW i \in 0..Len(Ends) - 1
          PROVE  StartOf(i) \in Nat /\ Ends[i + 1] \in Nat /\ StartOf(i) < Ends[i + 1] /\ Ends[i + 1] <= Total
      <3>1. i + 1 \in 1..Len(Ends) /\ (i # 0 => i \in 1..Len(Ends)) /\ i < i + 1 BY <2>3
      <3>2. Ends[i + 1] \in 1..Total /\ (i # 0 => Ends[i] \in 1..Total /\ Ends[i] < Ends[i + 1])
        BY <2>2, <2>3, <3>1
      <3> QED BY <3>2, ImageAssumption DEF StartOf
    <2> QED BY <2>3, <2>4
  <1> QED BY <1>1, <1>2

LEMMA ChunkIs ==
  ASSUME index \in {"fixed", "dynamic"}, NEW i \in 0..Len(Ends) - 1
  PROVE  /\ Chunk(i) = Bytes(StartOf(i), Ends[i + 1] - StartOf(i))
         /\ Front(Chunk(i)) = Bytes(StartOf(i), Ends[i + 1] - StartOf(i) - 1)
         /\ Chunk(i) # Front(Chunk(i)) /\ Chunk(i) \in Seq(Nat) /\ Front(Chunk(i)) \in Seq(Nat)
  <1> DEFINE a == StartOf(i)
             b == Ends[i + 1]
             c == Chunk(i)
  <1>1. a \in Nat /\ b \in Nat /\ a < b /\ b <= Total BY Chunks
  <1>2. Image \in Seq(Nat) /\ Len(Image) = Total /\ \A k \in 1..Total : Image[k] = k
    BY ImageAssumption DEF Image
  <1>3. c = SubSeq(Image, a + 1, b) BY DEF Chunk
  <1> HIDE DEF a, b, c
  <1>4. c \in Seq(Nat) /\ Len(c) = b - a /\ \A k \in 1..(b - a) : c[k] = a + k
    <2>1. a + 1 \in Nat \ {0} /\ b <= Len(Image) /\ a + 1 <= b + 1 BY <1>1, <1>2
    <2>2. /\ SubSeq(Image, a + 1, b) \in Seq(Nat) /\ Len(SubSeq(Image, a + 1, b)) = b + 1 - (a + 1)
          /\ \A k \in 1..(b + 1 - (a + 1)) : SubSeq(Image, a + 1, b)[k] = Image[(a + 1) + k - 1]
      BY <1>1, <1>2, <2>1, SubSeqIs
    <2> QED BY <1>1, <1>2, <1>3, <2>2
  <1>5. c = Bytes(a, b - a) BY <1>1, <1>4 DEF Bytes
  <1>6. /\ Front(c) \in Seq(Nat) /\ Len(Front(c)) = b - a - 1
        /\ \A k \in 1..(b - a - 1) : Front(c)[k] = a + k
    <2> DEFINE m == b - a - 1
    <2>1. m \in Nat /\ m <= Len(c) /\ 1 <= m + 1 /\ m = Len(c) - 1 BY <1>1, <1>4
    <2> HIDE DEF m
    <2>2. /\ SubSeq(c, 1, m) \in Seq(Nat) /\ Len(SubSeq(c, 1, m)) = m + 1 - 1
          /\ \A k \in 1..(m + 1 - 1) : SubSeq(c, 1, m)[k] = c[1 + k - 1]
      BY <1>4, <2>1, SubSeqIs
    <2>3. Front(c) = SubSeq(c, 1, m) BY <2>1 DEF Front
    <2>4. Front(c) \in Seq(Nat) /\ Len(Front(c)) = m /\ \A k \in 1..m : Front(c)[k] = a + k
      BY <1>1, <1>4, <2>1, <2>2, <2>3
    <2> QED BY <2>4 DEF m
  <1>7. Front(c) = Bytes(a, b - a - 1) BY <1>1, <1>6 DEF Bytes
  <1>8. c # Front(c) BY <1>1, <1>4, <1>6
  <1> QED BY <1>4, <1>5, <1>6, <1>7, <1>8 DEF a, b, c

(***************************************************************************)
(*                       What holds of every read                          *)
(***************************************************************************)

Pieces == [chunk : Nat, start : Nat, end : Nat]
From(p) == StartOf(p.chunk) + p.start
To(p) == StartOf(p.chunk) + p.end

\* The pieces still to be copied go from position a to position b without a gap.
LeadsOn(pieces, a, b) ==
  /\ pieces = <<>> => a = b
  /\ pieces # <<>> => From(pieces[1]) = a /\ To(pieces[Len(pieces)]) = b
  /\ \A k \in 1..Len(pieces) - 1 : To(pieces[k]) = From(pieces[k + 1])
  /\ \A k \in 1..Len(pieces) :
       /\ pieces[k].chunk \in 0..Len(Ends) - 1
       /\ pieces[k].start <= pieces[k].end
       /\ To(pieces[k]) <= Ends[pieces[k].chunk + 1] /\ To(pieces[k]) <= b

LEMMA TailLeads ==
  ASSUME index \in {"fixed", "dynamic"}, NEW pieces \in Seq(Pieces), pieces # <<>>,
         NEW a \in Nat, NEW b \in Nat, LeadsOn(pieces, a, b)
  PROVE  /\ Tail(pieces) \in Seq(Pieces)
         /\ LeadsOn(Tail(pieces), To(Head(pieces)), b)
  <1> DEFINE rest == Tail(pieces)
  <1>1. /\ rest \in Seq(Pieces) /\ Len(rest) = Len(pieces) - 1 /\ Len(pieces) \in Nat \ {0}
        /\ \A k \in 1..Len(rest) : rest[k] = pieces[k + 1]
        /\ Head(pieces) = pieces[1]
    BY HeadTailProperties
  <1> HIDE DEF rest
  <1>2. rest = <<>> => To(Head(pieces)) = b
    <2>1. rest = <<>> => Len(pieces) = 1 BY <1>1
    <2> QED BY <1>1, <2>1 DEF LeadsOn
  <1>3. ASSUME rest # <<>> PROVE From(rest[1]) = To(Head(pieces)) /\ To(rest[Len(rest)]) = b
    <2>1. Len(rest) \in Nat \ {0} BY <1>1, <1>3, EmptySeq
    <2>2. 1 \in 1..Len(pieces) - 1 /\ 1 \in 1..Len(rest) /\ Len(rest) \in 1..Len(rest) /\ Len(rest) + 1 = Len(pieces)
      BY <1>1, <2>1
    <2>3. rest[1] = pieces[1 + 1] /\ rest[Len(rest)] = pieces[Len(pieces)] BY <1>1, <2>2
    <2> QED BY <1>1, <2>2, <2>3 DEF LeadsOn
  <1>4. \A k \in 1..Len(rest) - 1 : To(rest[k]) = From(rest[k + 1])
    <2> TAKE k \in 1..Len(rest) - 1
    <2>1. k + 1 \in 1..Len(pieces) - 1 /\ k \in 1..Len(rest) /\ k + 1 \in 1..Len(rest) BY <1>1
    <2>2. rest[k] = pieces[k + 1] /\ rest[k + 1] = pieces[(k + 1) + 1] BY <1>1, <2>1
    <2> QED BY <2>1, <2>2 DEF LeadsOn
  <1>5. ASSUME NEW k \in 1..Len(rest)
        PROVE  /\ rest[k].chunk \in 0..Len(Ends) - 1
               /\ rest[k].start <= rest[k].end
               /\ To(rest[k]) <= Ends[rest[k].chunk + 1] /\ To(rest[k]) <= b
    <2>1. k + 1 \in 1..Len(pieces) /\ rest[k] = pieces[k + 1] BY <1>1
    <2> QED BY <2>1 DEF LeadsOn
  <1> QED BY <1>1, <1>2, <1>3, <1>4, <1>5 DEF LeadsOn, rest

\* Numbers: what is no more than a second, and not the second, is less than a third.
LEMMA Between == \A a, b, c \in Nat : a <= b /\ b <= c /\ b # a => a < c
  OBVIOUS

\* getChunksIndexes: the pieces of the chunks cover the range, in order.
LEMMA SlicesLead ==
  ASSUME index = "fixed", NEW off \in Nat, off < Total, NEW size \in Nat, off + size <= Total
  PROVE  /\ Slices(off, size) \in Seq(Pieces)
         /\ LeadsOn(Slices(off, size), off, off + size)
  <1> DEFINE first == off \div ChunkSize
             last == (off + size) \div ChunkSize
             n == last - first + 1
             all == [m \in 1..n |-> Slice(first + m - 1, off, size)]
             base == [i \in Nat |-> i * ChunkSize]
  <1> USE ImageAssumption
  <1>1. /\ first \in Nat /\ base[first] <= off /\ off < base[first] + ChunkSize
        /\ last \in Nat /\ base[last] <= off + size /\ off + size < base[last] + ChunkSize
    <2>1. off + size \in Nat OBVIOUS
    <2> QED BY <2>1, Division
  <1>2. \A i \in Nat : base[i] \in Nat BY Multiples
  <1>21. \A i, k \in Nat : i < k => base[i] + ChunkSize <= base[k] BY Multiples
  <1>22. \A i \in Nat : base[i + 1] = base[i] + ChunkSize BY Multiples
  <1>23. \A i \in Nat : base[i] = i * ChunkSize OBVIOUS
  <1> HIDE DEF first, last, base
  <1>3. first <= last
    <2>1. last < first => base[last] + ChunkSize <= base[first] BY <1>1, <1>21
    <2> QED BY <1>1, <1>2, <2>1
  <1>4. n \in Nat \ {0} BY <1>1, <1>3
  \* One piece.
  <1>5. ASSUME NEW i \in first..last
        PROVE  /\ Slice(i, off, size) \in Pieces
               /\ Slice(i, off, size).chunk = i
               /\ Slice(i, off, size).start = IF i = first THEN off - base[i] ELSE 0
               /\ Slice(i, off, size).end = IF i = last THEN off + size - base[i] ELSE ChunkSize
    <2>1. /\ i \in Nat /\ base[i] \in Nat
          /\ i # first => off < base[i]
          /\ i # last => base[i] + ChunkSize <= base[last]
      <3>1. i \in Nat /\ base[i] \in Nat /\ base[first] \in Nat BY <1>1, <1>2
      <3>2. i # first => base[first] + ChunkSize <= base[i] BY <1>1, <1>21, <3>1
      <3>3. i # last => base[i] + ChunkSize <= base[last] BY <1>1, <1>21, <3>1
      <3>4. i # first => off < base[i]
        <4>1. off < base[first] + ChunkSize BY <1>1
        <4> QED BY <3>1, <3>2, <4>1
      <3> QED BY <3>1, <3>3, <3>4
    <2>2. i = first => base[i] <= off BY <1>1
    <2>3. Slice(i, off, size).start = IF i = first THEN off - base[i] ELSE 0
      <3>1. base[i] = i * ChunkSize BY <1>23, <2>1
      <3>2. Slice(i, off, size).start = IF off > i * ChunkSize THEN off - i * ChunkSize ELSE 0
        BY DEF Slice
      <3> QED BY <2>1, <2>2, <3>1, <3>2
    <2>4. Slice(i, off, size).end = IF i = last THEN off + size - base[i] ELSE ChunkSize
      <3>1. i = last => base[i] <= off + size /\ off + size < base[i] + ChunkSize BY <1>1
      <3>2. i # last => base[i] + ChunkSize <= off + size BY <1>1, <1>2, <2>1
      <3>3. off + size > base[i] => Min({ChunkSize, off + size - base[i]}) =
              IF ChunkSize <= off + size - base[i] THEN ChunkSize ELSE off + size - base[i]
        <4>1. off + size > base[i] => off + size - base[i] \in Nat BY <2>1
        <4> QED BY <4>1, LesserOf
      <3>4. Slice(i, off, size).end =
              IF off + size > base[i] THEN Min({ChunkSize, off + size - base[i]}) ELSE 0
        <4>1. base[i] = i * ChunkSize BY <1>23, <2>1
        <4>2. Slice(i, off, size).end = IF off + size > i * ChunkSize
                                        THEN Min({ChunkSize, off + size - i * ChunkSize}) ELSE 0
          BY DEF Slice
        <4> QED BY <4>1, <4>2
      <3> QED BY <2>1, <3>1, <3>2, <3>3, <3>4
    <2>5. Slice(i, off, size).chunk = i BY DEF Slice
    <2>6. /\ Slice(i, off, size).start \in Nat /\ Slice(i, off, size).end \in Nat
      <3>1. i = first => off - base[i] \in Nat
        <4>1. base[i] \in Nat BY <2>1
        <4> QED BY <2>2, <4>1
      <3>2. i = last => off + size - base[i] \in Nat
        <4>1. base[i] \in Nat /\ off + size \in Nat BY <2>1
        <4>2. i = last => base[i] <= off + size BY <1>1
        <4> QED BY <4>1, <4>2
      <3>3. ChunkSize \in Nat OBVIOUS
      <3>4. Slice(i, off, size).start \in Nat
        <4>1. CASE i = first BY <2>3, <3>1, <4>1
        <4>2. CASE i # first BY <2>3, <4>2
        <4> QED BY <4>1, <4>2
      <3>5. Slice(i, off, size).end \in Nat
        <4>1. CASE i = last BY <2>4, <3>2, <4>1
        <4>2. CASE i # last BY <2>4, <3>3, <4>2
        <4> QED BY <4>1, <4>2
      <3> QED BY <3>4, <3>5
    <2>7. Slice(i, off, size) = [chunk |-> Slice(i, off, size).chunk,
                                 start |-> Slice(i, off, size).start, end |-> Slice(i, off, size).end]
      BY DEF Slice
    <2> QED BY <2>1, <2>3, <2>4, <2>5, <2>6, <2>7 DEF Pieces
  <1>6. /\ all \in Seq(Pieces) /\ Len(all) = n
        /\ \A m \in 1..n : all[m] = Slice(first + m - 1, off, size)
    <2>1. \A m \in 1..n : first + m - 1 \in first..last BY <1>1, <1>3
    <2>2. all \in [1..n -> Pieces] BY <1>5, <2>1
    <2> HIDE DEF all
    <2>3. all \in Seq(Pieces) /\ Len(all) = n BY <1>4, <2>2, ListIs
    <2> QED BY <2>3 DEF all
  <1> DEFINE empty == Last(all).end = Last(all).start
             count == IF empty THEN n - 1 ELSE n
             s == Slices(off, size)
  <1>7. Slices(off, size) = IF empty THEN Front(all) ELSE all
    <2>1. all # <<>> BY <1>4, <1>6
    <2> QED BY <2>1 DEF Slices, SlicesOf, first, last
  <1>8. Last(all) = Slice(last, off, size)
    <2>1. n \in 1..n /\ first + n - 1 = last BY <1>1, <1>4
    <2> QED BY <1>6, <2>1 DEF Last
  <1> HIDE DEF all
  <1>9. last \in first..last /\ first \in first..last BY <1>1, <1>3
  <1>10. empty <=> IF first = last THEN size = 0 ELSE off + size = base[last]
    <2>1. /\ Slice(last, off, size).start = IF last = first THEN off - base[last] ELSE 0
          /\ Slice(last, off, size).end = off + size - base[last]
      BY <1>5, <1>9
    <2>2. /\ Last(all).start = IF last = first THEN off - base[last] ELSE 0
          /\ Last(all).end = off + size - base[last]
      BY <1>8, <2>1
    <2>3. base[first] \in Nat /\ base[last] \in Nat BY <1>1, <1>2
    <2>4. (off + size - base[last] = off - base[last]) <=> size = 0 BY <2>3
    <2>5. (off + size - base[last] = 0) <=> off + size = base[last] BY <2>3
    <2> QED BY <2>2, <2>4, <2>5
  <1> HIDE DEF empty
  <1>11. count \in Nat /\ count <= n BY <1>4
  <1>12. /\ s \in Seq(Pieces) /\ Len(s) = count
         /\ \A k \in 1..count : s[k] = Slice(first + k - 1, off, size)
    <2>1. CASE ~empty BY <1>6, <1>7, <2>1
    <2>2. CASE empty
      <3>1. n - 1 \in Nat /\ n - 1 <= Len(all) /\ 1 <= (n - 1) + 1 BY <1>4, <1>6
      <3> DEFINE p == n - 1
      <3>2. p \in Nat /\ p <= Len(all) /\ 1 <= p + 1 BY <3>1
      <3> HIDE DEF p
      <3>3. /\ SubSeq(all, 1, p) \in Seq(Pieces) /\ Len(SubSeq(all, 1, p)) = p + 1 - 1
            /\ \A i \in 1..(p + 1 - 1) : SubSeq(all, 1, p)[i] = all[1 + i - 1]
        BY <1>6, <3>2, SubSeqIs
      <3>4. s = SubSeq(all, 1, p) BY <1>6, <1>7, <2>2 DEF Front, p
      <3>5. count = p /\ p <= n BY <1>4, <2>2 DEF p
      <3> QED BY <1>4, <1>6, <3>2, <3>3, <3>4, <3>5
    <2> QED BY <2>1, <2>2
  \* One piece that is kept.
  <1>13. ASSUME NEW k \in 1..count
         PROVE  LET i == first + k - 1 IN
                /\ i \in first..last /\ s[k].chunk = i /\ i \in 0..Len(Ends) - 1 /\ StartOf(i) = base[i]
                /\ s[k].start = IF i = first THEN off - base[i] ELSE 0
                /\ s[k].end = IF i = last THEN off + size - base[i] ELSE ChunkSize
                /\ i = last => count = n
    <2> DEFINE i == first + k - 1
    <2>1. i \in first..last /\ i \in Nat /\ (i = last => k = n) BY <1>1, <1>3, <1>11
    <2>2. i = last => ~empty /\ count = n BY <1>4, <2>1
    <2> HIDE DEF i
    <2>3. base[i] < Total
      <3>1. CASE i = last
        <4>1. i = first => base[i] < Total BY <1>1, <1>2, <2>1
        <4>2. i # first => base[i] < Total
          <5>1. i # first => off + size # base[i]
            <6>1. ~empty BY <2>2, <3>1
            <6>2. first # last => off + size # base[last] BY <1>10, <6>1
            <6> QED BY <6>2, <3>1
          <5>2. base[i] \in Nat /\ base[i] <= off + size BY <1>1, <1>2, <3>1
          <5>3. Total \in Nat BY DEF ImageAssumption
          <5>4. off + size \in Nat /\ off + size <= Total OBVIOUS
          <5> QED BY <5>1, <5>2, <5>3, <5>4, Between, Zenon
        <4> QED BY <4>1, <4>2
      <3>2. CASE i # last
        <4>1. base[i] + ChunkSize <= base[last] BY <1>1, <1>21, <2>1, <3>2
        <4> QED BY <1>1, <1>2, <2>1, <4>1
      <3> QED BY <3>1, <3>2
    <2>4. i * ChunkSize < Total BY <1>23, <2>1, <2>3
    <2>5. i < Len(Ends) BY <2>1, <2>4, FixedChunks
    <2>6. i \in 0..Len(Ends) - 1 BY <2>1, <2>5, FixedChunks
    <2>7. StartOf(i) = base[i] BY <2>6, FixedChunks DEF base
    <2>8. s[k] = Slice(i, off, size) BY <1>12 DEF i
    <2>9. /\ s[k].chunk = i
          /\ s[k].start = IF i = first THEN off - base[i] ELSE 0
          /\ s[k].end = IF i = last THEN off + size - base[i] ELSE ChunkSize
      BY <1>5, <2>1, <2>8
    <2>10. /\ i \in first..last /\ s[k].chunk = i /\ i \in 0..Len(Ends) - 1 /\ StartOf(i) = base[i]
           /\ s[k].start = IF i = first THEN off - base[i] ELSE 0
           /\ s[k].end = IF i = last THEN off + size - base[i] ELSE ChunkSize
           /\ i = last => count = n
      BY <2>1, <2>2, <2>6, <2>7, <2>9
    <2> QED BY <2>10 DEF i
  <1> HIDE DEF count, s
  <1>14. count \in {n - 1, n} BY DEF count
  \* How far a kept piece goes.
  <1>15. ASSUME NEW k \in 1..count
         PROVE  LET i == first + k - 1 IN
                /\ From(s[k]) = IF i = first THEN off ELSE base[i]
                /\ To(s[k]) = IF i = last THEN off + size ELSE base[i] + ChunkSize
                /\ s[k].chunk \in 0..Len(Ends) - 1 /\ s[k].start <= s[k].end
                /\ To(s[k]) <= Ends[s[k].chunk + 1] /\ To(s[k]) <= off + size
    <2> DEFINE i == first + k - 1
    <2>1. /\ i \in first..last /\ s[k].chunk = i /\ i \in 0..Len(Ends) - 1 /\ StartOf(i) = base[i]
          /\ s[k].start = IF i = first THEN off - base[i] ELSE 0
          /\ s[k].end = IF i = last THEN off + size - base[i] ELSE ChunkSize
      BY <1>13
    <2> HIDE DEF i
    <2>2. i \in Nat /\ base[i] \in Nat BY <1>1, <1>2, <2>1
    <2>3. i # last => base[i] + ChunkSize <= base[last] BY <1>1, <1>21, <2>1, <2>2
    <2>4. i # first => off < base[i]
      <3>1. i # first => base[first] + ChunkSize <= base[i] BY <1>1, <1>21, <2>1, <2>2
      <3> QED BY <1>1, <1>2, <2>2, <3>1
    <2>5. From(s[k]) = IF i = first THEN off ELSE base[i] BY <2>1, <2>2 DEF From
    <2>6. To(s[k]) = IF i = last THEN off + size ELSE base[i] + ChunkSize BY <2>1, <2>2 DEF To
    <2>7. s[k].start <= s[k].end
      <3>1. i = last => base[i] <= off + size BY <1>1
      <3>2. i = first => off < base[i] + ChunkSize /\ base[i] <= off BY <1>1
      <3>3. PICK here, from, to : here = base[i] /\ from = s[k].start /\ to = s[k].end OBVIOUS
      <3>4. here \in Nat BY <2>2, <3>3
      <3>5. from = IF i = first THEN off - here ELSE 0 BY <2>1, <3>3
      <3>6. to = IF i = last THEN off + size - here ELSE ChunkSize BY <2>1, <3>3
      <3>7. from <= off + size - here \/ i # last
        <4>1. i = last => here <= off + size BY <3>1, <3>3
        <4> QED BY <3>4, <3>5, <4>1
      <3>8. from <= ChunkSize
        <4>1. i = first => off < here + ChunkSize BY <3>2, <3>3
        <4> QED BY <3>4, <3>5, <4>1
      <3> QED BY <3>3, <3>6, <3>7, <3>8
    <2>8. Ends[i + 1] = IF base[i] + ChunkSize <= Total THEN base[i] + ChunkSize ELSE Total
      <3>1. base[i] = i * ChunkSize BY <1>23, <2>2
      <3>2. Ends[i + 1] = IF i * ChunkSize + ChunkSize <= Total
                          THEN i * ChunkSize + ChunkSize ELSE Total
        BY <2>1, FixedChunks
      <3> QED BY <3>1, <3>2
    <2>9. To(s[k]) <= off + size BY <1>1, <1>2, <2>2, <2>3, <2>6
    <2>10. To(s[k]) <= Ends[i + 1]
      <3>1. i = last => off + size < base[i] + ChunkSize BY <1>1
      <3> QED BY <1>1, <1>2, <2>2, <2>3, <2>6, <2>8, <3>1
    <2>11. /\ From(s[k]) = IF i = first THEN off ELSE base[i]
           /\ To(s[k]) = IF i = last THEN off + size ELSE base[i] + ChunkSize
           /\ s[k].chunk \in 0..Len(Ends) - 1 /\ s[k].start <= s[k].end
           /\ To(s[k]) <= Ends[s[k].chunk + 1] /\ To(s[k]) <= off + size
      BY <2>1, <2>5, <2>6, <2>7, <2>9, <2>10
    <2> QED BY <2>11 DEF i
  <1>16. s = <<>> => off = off + size
    <2>1. s = <<>> => count = 0 BY <1>12
    <2>2. count = 0 => n = 1 /\ empty BY <1>4 DEF count
    <2>3. n = 1 => first = last BY <1>1
    <2> QED BY <1>10, <2>1, <2>2, <2>3
  <1>17. ASSUME s # <<>> PROVE From(s[1]) = off /\ To(s[Len(s)]) = off + size
    <2>1. count \in Nat \ {0} BY <1>11, <1>12, <1>17, EmptySeq
    <2>2. 1 \in 1..count /\ count \in 1..count BY <2>1
    <2>3. From(s[1]) = off
      <3>1. first + 1 - 1 = first BY <1>1
      <3> QED BY <1>15, <2>2, <3>1
    <2>4. To(s[count]) = IF first + count - 1 = last THEN off + size ELSE base[first + count - 1] + ChunkSize
      BY <1>15, <2>2
    <2>5. CASE count = n BY <1>1, <1>12, <2>3, <2>4, <2>5
    <2>6. CASE count # n
      <3>1. count = n - 1 /\ empty BY <1>14, <2>6 DEF count
      <3>2. first # last /\ first + count - 1 = last - 1 /\ last - 1 \in Nat BY <1>1, <1>3, <2>1, <3>1
      <3>3. base[(last - 1) + 1] = base[last - 1] + ChunkSize BY <1>22, <3>2
      <3>4. (last - 1) + 1 = last /\ last - 1 # last BY <1>1
      <3> QED BY <1>10, <1>12, <2>3, <2>4, <3>1, <3>2, <3>3, <3>4
    <2> QED BY <2>5, <2>6
  <1>18. \A k \in 1..Len(s) - 1 : To(s[k]) = From(s[k + 1])
    <2> TAKE k \in 1..Len(s) - 1
    <2>1. k \in 1..count /\ k + 1 \in 1..count BY <1>11, <1>12
    <2> DEFINE i == first + k - 1
    <2>2. i \in Nat /\ first + (k + 1) - 1 = i + 1 /\ i # last /\ i + 1 # first
      BY <1>1, <1>11, <2>1
    <2>3. To(s[k]) = IF i = last THEN off + size ELSE base[i] + ChunkSize BY <1>15, <2>1
    <2>4. From(s[k + 1]) = IF i + 1 = first THEN off ELSE base[i + 1] BY <1>15, <2>1, <2>2
    <2> HIDE DEF i
    <2> QED BY <1>22, <2>2, <2>3, <2>4
  <1>19. \A k \in 1..Len(s) : /\ s[k].chunk \in 0..Len(Ends) - 1 /\ s[k].start <= s[k].end
                              /\ To(s[k]) <= Ends[s[k].chunk + 1] /\ To(s[k]) <= off + size
    BY <1>12, <1>15
  <1>20. s \in Seq(Pieces) /\ LeadsOn(s, off, off + size)
    BY <1>12, <1>16, <1>17, <1>18, <1>19 DEF LeadsOn
  <1> QED BY <1>20 DEF s

Reads == [pc : {"idle", "locking", "reading", "next", "fetching", "done"}, off : Nat, len : Nat,
          todo : Seq(Pieces), got : Seq(Nat), result : {Nil, "ok", "eof", "error"}]

ImageTypes ==
  /\ index \in {"fixed", "dynamic"}
  /\ lock \in Calls \cup {Nil}
  /\ call \in [Calls -> Reads]
  /\ readStopped \in BOOLEAN /\ reads \in Nat /\ fetchFaults \in Nat

\* What the cache of an image server may hold of a chunk: less than all of it only
\* after a fetch was cut short.
Held(i, faults) == {d \in {Chunk(i), Front(Chunk(i))} : d = Chunk(i) \/ faults > 0}

FixedCache(chunks, faults) ==
  /\ DOMAIN chunks \subseteq 0..Len(Ends) - 1
  /\ chunks = [i \in DOMAIN chunks |-> chunks[i]]
  /\ \A i \in DOMAIN chunks : chunks[i] \in [data : Held(i, faults), life : Nat]

Whole == {e \in [chunk : 0..Len(Ends) - 1, data : Seq(Nat)] : e.data = Chunk(e.chunk)}
DynamicCache(chunks) == chunks \in Seq(Whole)

CacheInv == IF index = "fixed" THEN FixedCache(cache, fetchFaults) ELSE DynamicCache(cache)

\* What was read so far is the image from the offset; a read that goes on has the pieces it
\* needs, or its position in a chunk, and the one over a fixed index holds the lock.
ReadInv(c) ==
  LET r == call[c] IN
  /\ r.got = Bytes(r.off, Len(r.got)) /\ Len(r.got) <= r.len /\ r.off + Len(r.got) <= Total
  /\ r.pc \in {"locking", "reading"} => index = "fixed" /\ r.off < Total
  /\ r.pc = "locking" => r.got = <<>>
  /\ r.pc = "reading" => lock = c /\ LeadsOn(r.todo, r.off + Len(r.got), r.off + Want(c))
  /\ r.pc \in {"next", "fetching"} => index = "dynamic"
  /\ r.pc = "fetching" => ~AtEnd(c)
  /\ r.pc = "done" =>
       /\ r.result = "ok" => Len(r.got) = r.len
       /\ r.result = "eof" => r.off + Len(r.got) = Total /\ (Len(r.got) < r.len \/ r.len = 0)
       /\ r.result = "error" => fetchFaults > 0 \/ readStopped

ImageInv == ImageTypes /\ CacheInv /\ \A c \in Calls : ReadInv(c)

LEMMA NoBytes ==
  ASSUME NEW a \in Nat
  PROVE  Bytes(a, 0) = <<>> /\ <<>> \in Seq(Nat) /\ Len(<<>>) = 0
  <1>1. Bytes(a, 0) \in [1..0 -> Nat] BY DEF Bytes
  <1>2. Bytes(a, 0) \in Seq(Nat) /\ Len(Bytes(a, 0)) = 0 BY <1>1, ListIs
  <1> QED BY <1>2, EmptySeq

LEMMA BytesTyped ==
  ASSUME NEW a \in Nat, NEW n \in Nat
  PROVE  Bytes(a, n) \in Seq(Nat) /\ Len(Bytes(a, n)) = n
  <1>1. Bytes(a, n) \in [1..n -> Nat] BY DEF Bytes
  <1> QED BY <1>1, ListIs

LEMMA ImageStart == ImageInit => ImageInv
  <1> SUFFICES ASSUME ImageInit PROVE ImageInv OBVIOUS
  <1>1. index \in {"fixed", "dynamic"} BY DEF ImageInit
  <1>2. <<>> \in Seq(Pieces) /\ <<>> \in Seq(Nat) /\ Len(<<>>) = 0 OBVIOUS
  <1>3. Idle \in Reads BY <1>2 DEF Idle, Reads
  <1>4. ImageTypes BY <1>3 DEF ImageInit, ImageTypes
  <1>5. CacheInv
    <2>1. cache = <<>> /\ DOMAIN <<>> = {} /\ <<>> \in Seq(Whole)
      BY DEF ImageInit
    <2>2. FixedCache(<<>>, fetchFaults) BY <2>1 DEF FixedCache
    <2>3. DynamicCache(<<>>) BY <1>2, <2>1 DEF DynamicCache
    <2> QED BY <2>1, <2>2, <2>3 DEF CacheInv
  <1>6. ASSUME NEW c \in Calls PROVE ReadInv(c)
    <2>1. call[c] = Idle BY DEF ImageInit
    <2>2. /\ call[c].pc = "idle" /\ call[c].off = 0 /\ call[c].len = 0 /\ call[c].got = <<>>
      BY <2>1 DEF Idle
    <2>3. <<>> = Bytes(0, 0) BY NoBytes
    <2> QED BY <1>2, <2>2, <2>3, ImageAssumption DEF ReadInv
  <1> QED BY <1>4, <1>5, <1>6 DEF ImageInv

\* What a step does not touch.
LEMMA ReadKept ==
  ASSUME ImageInv, index' = index, readStopped => readStopped', fetchFaults > 0 => fetchFaults' > 0,
         NEW c \in Calls, call'[c] = call[c], At(c, "reading") => lock' = lock
  PROVE  ReadInv(c)'
  <1>1. ReadInv(c) BY DEF ImageInv
  <1>2. Ends' = Ends BY DEF Ends
  <1>3. /\ Want(c)' = Want(c) /\ (AtEnd(c)' <=> AtEnd(c))
    BY DEF Want, AtEnd, Pos
  <1>4. LeadsOn(call[c].todo, call[c].off + Len(call[c].got), call[c].off + Want(c))' <=>
        LeadsOn(call[c].todo, call[c].off + Len(call[c].got), call[c].off + Want(c))
    BY <1>2, <1>3 DEF LeadsOn, From, To, StartOf
  <1> QED BY <1>1, <1>3, <1>4 DEF ReadInv, At

LEMMA CacheKept ==
  ASSUME ImageInv, index' = index, cache' = cache, fetchFaults > 0 => fetchFaults' > 0
  PROVE  CacheInv'
  <1>1. Ends' = Ends BY DEF Ends
  <1>2. \A i : Chunk(i)' = Chunk(i) BY <1>1 DEF Chunk, StartOf
  <1>3. CacheInv BY DEF ImageInv
  <1>4. CASE index = "fixed"
    <2>1. FixedCache(cache, fetchFaults) BY <1>3, <1>4 DEF CacheInv
    <2>2. FixedCache(cache, fetchFaults)' BY <1>1, <1>2, <2>1 DEF FixedCache, Held
    <2> QED BY <1>4, <2>2 DEF CacheInv
  <1>5. CASE index # "fixed"
    <2>1. DynamicCache(cache) BY <1>3, <1>5 DEF CacheInv
    <2>2. DynamicCache(cache)'
      <3>1. Whole' = Whole BY <1>1, <1>2 DEF Whole
      <3> QED BY <2>1, <3>1 DEF DynamicCache
    <2> QED BY <1>5, <2>2 DEF CacheInv
  <1> QED BY <1>4, <1>5

\* One call moves, and takes or leaves the lock only as the others allow.
LEMMA OneReads ==
  ASSUME ImageInv, index' = index, readStopped' = readStopped,
         reads' \in Nat, fetchFaults' \in Nat, fetchFaults <= fetchFaults',
         NEW c \in Calls, call' \in [Calls -> Reads],
         \A d \in Calls \ {c} : call'[d] = call[d],
         lock' \in {lock, c, Nil}, lock' # lock => lock \in {c, Nil},
         CacheInv', ReadInv(c)'
  PROVE  ImageInv'
  <1>1. ImageTypes' BY DEF ImageInv, ImageTypes
  <1>3. \A d \in Calls \ {c} : At(d, "reading") => lock' = lock
    BY ImageAssumption DEF ImageInv, ReadInv, At
  <1>4. fetchFaults > 0 => fetchFaults' > 0 BY DEF ImageInv, ImageTypes
  <1>5. \A d \in Calls : ReadInv(d)' BY <1>3, <1>4, ReadKept
  <1> QED BY <1>1, <1>5 DEF ImageInv

LEMMA BeginMoves ==
  ASSUME ImageInv, NEW c \in Calls, Begin(c)
  PROVE  ImageInv'
  <1>1. PICK off \in 0..Total, len \in Lens :
          LET fresh == [Idle EXCEPT !.off = off, !.len = len]
          IN  call' = [call EXCEPT ![c] =
                IF index = "dynamic" /\ readStopped THEN [fresh EXCEPT !.pc = "done", !.result = "error"]
                ELSE IF off >= Total THEN [fresh EXCEPT !.pc = "done", !.result = "eof"]
                ELSE [fresh EXCEPT !.pc = IF index = "fixed" THEN "locking" ELSE "next"]]
    BY DEF Begin
  <1>2. /\ reads' = reads + 1
        /\ index' = index /\ lock' = lock /\ cache' = cache
        /\ readStopped' = readStopped /\ fetchFaults' = fetchFaults
    BY DEF Begin
  <1>3. off \in Nat /\ len \in Nat /\ off <= Total BY ImageAssumption
  <1> DEFINE label == IF index = "dynamic" /\ readStopped THEN "done"
                   ELSE IF off >= Total THEN "done" ELSE IF index = "fixed" THEN "locking" ELSE "next"
             result == IF index = "dynamic" /\ readStopped THEN "error"
                       ELSE IF off >= Total THEN "eof" ELSE Nil
             fresh == [Idle EXCEPT !.off = off, !.len = len]
  <1>4. <<>> \in Seq(Pieces) /\ <<>> \in Seq(Nat) /\ Len(<<>>) = 0 /\ <<>> = Bytes(off, 0)
    BY <1>3, NoBytes
  <1>5. /\ fresh \in Reads /\ fresh.pc = "idle" /\ fresh.off = off /\ fresh.len = len
        /\ fresh.got = <<>> /\ fresh.result = Nil
    BY <1>3, <1>4 DEF Reads, Idle
  <1>6. call \in [Calls -> Reads] BY DEF ImageInv, ImageTypes
  <1>7. \E r \in Reads : /\ call' = [call EXCEPT ![c] = r]
                         /\ r.pc = label /\ r.off = off /\ r.len = len /\ r.got = <<>> /\ r.result = result
    <2> HIDE DEF fresh
    <2>1. CASE index = "dynamic" /\ readStopped
      <3> DEFINE r == [fresh EXCEPT !.pc = "done", !.result = "error"]
      <3>1. call' = [call EXCEPT ![c] = r] BY <1>1, <2>1 DEF fresh
      <3>2. /\ r \in Reads /\ r.pc = label /\ r.off = off /\ r.len = len /\ r.got = <<>>
            /\ r.result = result
        BY <1>5, <2>1 DEF Reads
      <3> QED BY <3>1, <3>2
    <2>2. CASE ~(index = "dynamic" /\ readStopped) /\ off >= Total
      <3> DEFINE r == [fresh EXCEPT !.pc = "done", !.result = "eof"]
      <3>1. call' = [call EXCEPT ![c] = r] BY <1>1, <2>2 DEF fresh
      <3>2. /\ r \in Reads /\ r.pc = label /\ r.off = off /\ r.len = len /\ r.got = <<>>
            /\ r.result = result
        BY <1>5, <2>2 DEF Reads
      <3> QED BY <3>1, <3>2
    <2>3. CASE ~(index = "dynamic" /\ readStopped) /\ ~(off >= Total)
      <3> DEFINE r == [fresh EXCEPT !.pc = IF index = "fixed" THEN "locking" ELSE "next"]
      <3>1. call' = [call EXCEPT ![c] = r] BY <1>1, <2>3 DEF fresh
      <3>2. /\ r \in Reads /\ r.pc = label /\ r.off = off /\ r.len = len /\ r.got = <<>>
            /\ r.result = result
        BY <1>5, <2>3 DEF Reads
      <3> QED BY <3>1, <3>2
    <2> QED BY <2>1, <2>2, <2>3
  <1>8. ReadInv(c)'
    <2>1. /\ call'[c].pc = label /\ call'[c].off = off /\ call'[c].len = len /\ call'[c].got = <<>>
          /\ call'[c].result = result
      BY <1>6, <1>7
    <2>2. label = "done" => /\ result # "ok" /\ (result = "eof" => off = Total)
                        /\ (result = "error" => readStopped)
      BY <1>3, ImageAssumption
    <2>3. /\ label \in {"locking", "reading"} => index = "fixed" /\ off < Total
          /\ label \in {"next", "fetching"} => index = "dynamic"
          /\ label \notin {"reading", "fetching"}
      BY <1>3, ImageAssumption DEF ImageInv, ImageTypes
    <2> HIDE DEF label, result
    <2> QED BY <1>2, <1>3, <1>4, <2>1, <2>2, <2>3 DEF ReadInv
  <1>9. CacheInv' BY <1>2, CacheKept DEF ImageInv, ImageTypes
  <1>10. reads' \in Nat /\ fetchFaults' \in Nat /\ fetchFaults <= fetchFaults'
    BY <1>2 DEF ImageInv, ImageTypes
  <1>11. call' \in [Calls -> Reads] /\ \A d \in Calls \ {c} : call'[d] = call[d]
    BY <1>6, <1>7
  <1> QED BY <1>2, <1>8, <1>9, <1>10, <1>11, OneReads

LEMMA LockMoves ==
  ASSUME ImageInv, NEW c \in Calls, Lock(c)
  PROVE  ImageInv'
  <1>1. /\ call[c].pc = "locking" /\ lock = Nil /\ lock' = c
        /\ call' = [call EXCEPT ![c].pc = "reading", ![c].todo = Slices(call[c].off, Want(c))]
        /\ index' = index /\ cache' = cache /\ reads' = reads
        /\ readStopped' = readStopped /\ fetchFaults' = fetchFaults
    BY DEF Lock, At
  <1>2. call[c] \in Reads /\ call \in [Calls -> Reads] BY DEF ImageInv, ImageTypes
  <1>3. /\ index = "fixed" /\ call[c].off < Total /\ call[c].got = <<>>
        /\ call[c].off \in Nat /\ call[c].len \in Nat
    BY <1>1, <1>2 DEF ImageInv, ReadInv, Reads
  <1>4. Want(c) \in Nat /\ call[c].off + Want(c) <= Total
    <2>1. Total - call[c].off \in Nat BY <1>3, ImageAssumption
    <2>2. Want(c) = IF call[c].len <= Total - call[c].off THEN call[c].len ELSE Total - call[c].off
      BY <1>3, <2>1, LesserOf DEF Want
    <2> QED BY <1>3, <2>1, <2>2, ImageAssumption
  <1> DEFINE off == call[c].off
             todo == Slices(off, Want(c))
             r == [call[c] EXCEPT !.pc = "reading", !.todo = todo]
  <1>5. todo \in Seq(Pieces) /\ LeadsOn(todo, off, off + Want(c)) BY <1>3, <1>4, SlicesLead
  <1>6. call' = [call EXCEPT ![c] = r] BY <1>1, <1>2
  <1> HIDE DEF todo
  <1>7. r \in Reads BY <1>2, <1>5 DEF Reads
  <1>8. call'[c] = r BY <1>2, <1>6
  <1>9. ReadInv(c)'
    <2>1. /\ call'[c].pc = "reading" /\ call'[c].off = off /\ call'[c].len = call[c].len
          /\ call'[c].got = <<>> /\ call'[c].todo = todo
      BY <1>2, <1>3, <1>8 DEF Reads
    <2>2. Len(<<>>) = 0 /\ <<>> = Bytes(off, 0) BY <1>3, NoBytes
    <2>3. Want(c)' = Want(c) BY <2>1 DEF Want
    <2>4. Ends' = Ends BY <1>1 DEF Ends
    <2>5. LeadsOn(call[c].todo, call[c].off + Len(call[c].got), call[c].off + Want(c))'
      <3>1. LeadsOn(todo, off + 0, off + Want(c)) BY <1>3, <1>5
      <3> QED BY <2>1, <2>2, <2>3, <2>4, <3>1 DEF LeadsOn, From, To, StartOf
    <2> HIDE DEF off
    <2> QED BY <1>1, <1>3, <2>1, <2>2, <2>5, ImageAssumption DEF ReadInv, off
  <1>10. CacheInv' BY <1>1, CacheKept DEF ImageInv, ImageTypes
  <1> HIDE DEF r
  <1>11. reads' \in Nat /\ fetchFaults' \in Nat /\ fetchFaults <= fetchFaults'
    BY <1>1 DEF ImageInv, ImageTypes
  <1>12. call' \in [Calls -> Reads] /\ \A d \in Calls \ {c} : call'[d] = call[d]
    BY <1>2, <1>6, <1>7
  <1> QED BY <1>1, <1>9, <1>10, <1>11, <1>12, OneReads

LEMMA EndedRead ==
  ASSUME ImageInv, index' = index, NEW c \in Calls, NEW result \in {"ok", "eof", "error"},
         call' = [call EXCEPT ![c] = Ended(c, result)],
         result = "ok" => Len(call[c].got) = call[c].len,
         result = "eof" => /\ call[c].off + Len(call[c].got) = Total
                           /\ Len(call[c].got) < call[c].len \/ call[c].len = 0,
         result = "error" => fetchFaults' > 0 \/ readStopped'
  PROVE  /\ call' \in [Calls -> Reads] /\ \A d \in Calls \ {c} : call'[d] = call[d]
         /\ ReadInv(c)'
  <1>1. call[c] \in Reads /\ call \in [Calls -> Reads] BY DEF ImageInv, ImageTypes
  <1> DEFINE r == Ended(c, result)
  <1>2. /\ r \in Reads /\ r.pc = "done" /\ r.off = call[c].off /\ r.len = call[c].len
        /\ r.got = call[c].got /\ r.result = result
    BY <1>1 DEF Ended, Reads
  <1>3. call' = [call EXCEPT ![c] = r] OBVIOUS
  <1> HIDE DEF r
  <1>4. /\ call' \in [Calls -> Reads] /\ call'[c] = r /\ \A d \in Calls \ {c} : call'[d] = call[d]
    BY <1>1, <1>2, <1>3
  <1>5. /\ call[c].got = Bytes(call[c].off, Len(call[c].got)) /\ Len(call[c].got) <= call[c].len
        /\ call[c].off + Len(call[c].got) <= Total
    BY DEF ImageInv, ReadInv
  <1>6. ReadInv(c)' BY <1>2, <1>4, <1>5 DEF ReadInv
  <1> QED BY <1>4, <1>6

\* The range of a read over a fixed index is cut at the end of the image.
LEMMA WantIs ==
  ASSUME ImageInv, NEW c \in Calls, At(c, "reading")
  PROVE  /\ index = "fixed" /\ lock = c /\ call[c] \in Reads /\ call[c].off < Total
         /\ Want(c) = IF call[c].len <= Total - call[c].off THEN call[c].len ELSE Total - call[c].off
         /\ Want(c) \in Nat /\ Len(call[c].got) \in Nat
         /\ LeadsOn(call[c].todo, call[c].off + Len(call[c].got), call[c].off + Want(c))
  <1>1. /\ index = "fixed" /\ lock = c /\ call[c] \in Reads /\ call[c].off < Total
        /\ LeadsOn(call[c].todo, call[c].off + Len(call[c].got), call[c].off + Want(c))
    BY DEF ImageInv, ImageTypes, ReadInv, At
  <1>2. call[c].off \in Nat /\ call[c].len \in Nat /\ call[c].got \in Seq(Nat) BY <1>1 DEF Reads
  <1>3. Total - call[c].off \in Nat BY <1>1, <1>2, ImageAssumption
  <1>4. Want(c) = IF call[c].len <= Total - call[c].off THEN call[c].len ELSE Total - call[c].off
    BY <1>2, <1>3, LesserOf DEF Want
  <1> QED BY <1>1, <1>2, <1>3, <1>4

LEMMA FinishMoves ==
  ASSUME ImageInv, NEW c \in Calls, FinishRead(c)
  PROVE  ImageInv'
  <1> DEFINE got == call[c].got
             result == IF Len(got) # Want(c) THEN "error" ELSE IF Want(c) < call[c].len THEN "eof" ELSE "ok"
  <1>1. /\ At(c, "reading") /\ call[c].todo = <<>> /\ lock' = Nil
        /\ cache' = Restrict(cache, {i \in DOMAIN cache : cache[i].life > 0})
        /\ call' = [call EXCEPT ![c] = Ended(c, result)]
        /\ index' = index /\ reads' = reads /\ readStopped' = readStopped /\ fetchFaults' = fetchFaults
    BY DEF FinishRead
  <1>2. /\ index = "fixed" /\ lock = c /\ call[c] \in Reads /\ call[c].off < Total
        /\ Want(c) = IF call[c].len <= Total - call[c].off THEN call[c].len ELSE Total - call[c].off
        /\ Want(c) \in Nat /\ Len(got) \in Nat
        /\ LeadsOn(call[c].todo, call[c].off + Len(got), call[c].off + Want(c))
    BY <1>1, WantIs
  <1>3. call[c].off \in Nat /\ call[c].len \in Nat BY <1>2 DEF Reads
  <1>4. Len(got) = Want(c)
    <2>1. call[c].off + Len(got) = call[c].off + Want(c) BY <1>1, <1>2 DEF LeadsOn
    <2> QED BY <1>2, <1>3, <2>1
  <1>5. /\ result \in {"ok", "eof", "error"} /\ result # "error"
        /\ result = "ok" => Len(got) = call[c].len
        /\ result = "eof" => call[c].off + Len(got) = Total /\ Len(got) < call[c].len
    BY <1>2, <1>3, <1>4, ImageAssumption
  <1> HIDE DEF result, got
  <1>6. /\ call' \in [Calls -> Reads] /\ \A d \in Calls \ {c} : call'[d] = call[d]
        /\ ReadInv(c)'
    BY <1>1, <1>5, EndedRead DEF got
  <1>7. CacheInv'
    <2>1. FixedCache(cache, fetchFaults) BY <1>2 DEF ImageInv, CacheInv
    <2> DEFINE alive == {i \in DOMAIN cache : cache[i].life > 0}
    <2>2. cache' = [i \in alive |-> cache[i]] /\ DOMAIN cache' = alive BY <1>1 DEF Restrict
    <2>3. FixedCache(cache', fetchFaults) BY <2>1, <2>2 DEF FixedCache
    <2>4. Ends' = Ends BY <1>1 DEF Ends
    <2>5. \A i : Held(i, fetchFaults)' = Held(i, fetchFaults) BY <1>1, <2>4 DEF Held, Chunk, StartOf
    <2>6. FixedCache(cache, fetchFaults)' BY <1>1, <2>3, <2>4, <2>5 DEF FixedCache
    <2> QED BY <1>1, <1>2, <2>6 DEF CacheInv
  <1>8. reads' \in Nat /\ fetchFaults' \in Nat /\ fetchFaults <= fetchFaults'
    BY <1>1 DEF ImageInv, ImageTypes
  <1> QED BY <1>1, <1>2, <1>6, <1>7, <1>8, OneReads

\* A piece is copied from a chunk that is in the cache, whole or cut short.
LEMMA SliceMoves ==
  ASSUME ImageInv, index' = index, readStopped' = readStopped, reads' = reads,
         fetchFaults' \in Nat, fetchFaults <= fetchFaults',
         NEW c \in Calls, At(c, "reading"), call[c].todo # <<>>,
         NEW chunks, FixedCache(chunks, fetchFaults'), Head(call[c].todo).chunk \in DOMAIN chunks,
         CopySlice(c, Head(call[c].todo), chunks)
  PROVE  ImageInv'
  <1> DEFINE off == call[c].off
             got == call[c].got
             todo == call[c].todo
             slice == Head(todo)
             data == chunks[slice.chunk].data
             from == StartOf(slice.chunk)
             most == Ends[slice.chunk + 1]
  <1>1. /\ index = "fixed" /\ lock = c /\ call[c] \in Reads /\ off < Total
        /\ Want(c) = IF call[c].len <= Total - off THEN call[c].len ELSE Total - off
        /\ Want(c) \in Nat /\ Len(got) \in Nat
        /\ LeadsOn(todo, off + Len(got), off + Want(c))
    BY WantIs
  <1>2. off \in Nat /\ call[c].len \in Nat /\ todo \in Seq(Pieces) BY <1>1 DEF Reads
  <1>3. slice = todo[1] /\ Len(todo) \in Nat \ {0} /\ slice \in Pieces BY <1>2, EmptySeq
  <1>4. /\ slice.chunk \in 0..Len(Ends) - 1 /\ slice.start <= slice.end
        /\ slice.start \in Nat /\ slice.end \in Nat
        /\ From(slice) = off + Len(got) /\ To(slice) <= off + Want(c) /\ To(slice) <= most
    BY <1>1, <1>3 DEF LeadsOn, Pieces
  <1>5. from \in Nat /\ most \in Nat /\ from < most /\ most <= Total BY <1>1, <1>4, Chunks
  <1>6. from + slice.start = off + Len(got) /\ from + slice.end = To(slice) BY <1>4 DEF From, To
  <1>7. chunks[slice.chunk] \in [data : Held(slice.chunk, fetchFaults'), life : Nat]
    BY DEF FixedCache
  <1>8. /\ data = Chunk(slice.chunk) \/ (data = Front(Chunk(slice.chunk)) /\ fetchFaults' > 0)
        /\ Chunk(slice.chunk) = Bytes(from, most - from)
        /\ Front(Chunk(slice.chunk)) = Bytes(from, most - from - 1)
    BY <1>1, <1>4, <1>7, ChunkIs DEF Held
  <1>9. PICK d \in Nat : data = Bytes(from, d) /\ (d = most - from \/ fetchFaults' > 0)
    <2>1. most - from \in Nat /\ most - from - 1 \in Nat BY <1>5
    <2> QED BY <1>8, <2>1
  <1>10. Len(data) = d BY <1>5, <1>9, BytesTyped
  <1>11. call \in [Calls -> Reads] BY DEF ImageInv, ImageTypes
  <1>12. got = Bytes(off, Len(got)) BY DEF ImageInv, ReadInv
  <1>13. Ends' = Ends BY DEF Ends
  <1>14. \A i, n : Held(i, n)' = Held(i, n') BY <1>13 DEF Held, Chunk, StartOf
  <1> HIDE DEF off, got, todo, slice, data, from, most
  <1>15. CASE slice.end > Len(data)
    <2>1. FailRead(c) /\ cache' = chunks BY <1>15 DEF CopySlice, slice, todo, data
    <2>2. fetchFaults' > 0
      <3>1. d = most - from => slice.end <= d BY <1>4, <1>5, <1>6
      <3> QED BY <1>4, <1>9, <1>10, <1>15, <3>1
    <2>3. call' = [call EXCEPT ![c] = Ended(c, "error")] /\ lock' = Nil BY <2>1 DEF FailRead
    <2>4. /\ call' \in [Calls -> Reads] /\ \A e \in Calls \ {c} : call'[e] = call[e]
          /\ ReadInv(c)'
      BY <2>2, <2>3, EndedRead
    <2>5. CacheInv'
      <3>1. FixedCache(cache, fetchFaults)' BY <1>13, <1>14, <2>1 DEF FixedCache
      <3> QED BY <1>1, <3>1 DEF CacheInv
    <2>6. reads' \in Nat BY DEF ImageInv, ImageTypes
    <2> QED BY <1>1, <2>3, <2>4, <2>5, <2>6, OneReads
  <1>16. CASE ~(slice.end > Len(data))
    <2> DEFINE now == got \o SubSeq(data, slice.start + 1, slice.end)
               r == [call[c] EXCEPT !.todo = Tail(todo), !.got = now]
    <2>1. /\ call' = [call EXCEPT ![c].todo = Tail(@),
                                  ![c].got = @ \o SubSeq(data, slice.start + 1, slice.end)]
          /\ cache' = [chunks EXCEPT ![slice.chunk].life = Life]
          /\ lock' = lock
      BY <1>16 DEF CopySlice, slice, todo, data
    <2>2. call' = [call EXCEPT ![c] = r] BY <1>11, <2>1 DEF got, todo
    <2>3. slice.end <= d BY <1>4, <1>10, <1>16
    <2> DEFINE g == Len(got)
               start == slice.start
               end == slice.end
    <2>20. /\ g \in Nat /\ off \in Nat /\ from \in Nat /\ start \in Nat /\ end \in Nat /\ start <= end
           /\ off + g = from + start /\ from + end = To(slice) /\ Want(c) \in Nat
      BY <1>1, <1>2, <1>4, <1>5, <1>6
    <2>21. got = Bytes(off, g) BY <1>12
    <2>22. end <= d BY <2>3
    <2> HIDE DEF g, start, end
    <2>4. now = Bytes(off, g + (end - start))
      <3> DEFINE n == g + (end - start)
      <3>0. n \in Nat /\ n = g + (end - start) BY <2>20
      <3> HIDE DEF n
      <3>1. Spliced(Bytes(off, g), Bytes(from, d), start, end) = Bytes(off, n)
        <4>1. Follows(off, g, from, d, start, end, n) BY <2>20, <2>22, <3>0 DEF Follows
        <4> QED BY <4>1, BytesRead
      <3>2. now = Spliced(got, data, start, end) BY DEF Spliced, now, start, end
      <3> QED BY <1>9, <2>21, <3>0, <3>1, <3>2
    <2> HIDE DEF now
    <2>5. now \in Seq(Nat) /\ Len(now) = g + (end - start)
          /\ now = Bytes(off, Len(now)) /\ Len(now) \in Nat
      <3>1. g + (end - start) \in Nat BY <2>20
      <3> QED BY <2>4, <2>20, <3>1, BytesTyped
    <2>6. off + Len(now) = To(slice)
      <3> DEFINE l == Len(now)
                 t == To(slice)
      <3>1. /\ l = g + (end - start) /\ off + g = from + start /\ from + end = t
            /\ g \in Nat /\ off \in Nat /\ from \in Nat /\ start \in Nat /\ end \in Nat
        BY <2>5, <2>20
      <3> HIDE DEF l, t
      <3>2. off + l = t BY <3>1
      <3> QED BY <3>2 DEF l, t
    <2>7. Len(now) <= call[c].len /\ off + Len(now) <= Total
      <3>1. off + Len(now) <= off + Want(c) BY <1>4, <2>6
      <3>2. Len(now) <= Want(c) BY <2>5, <2>20, <3>1
      <3>3. Want(c) <= call[c].len /\ off + Want(c) <= Total
        <4>1. Total - off \in Nat BY <1>1, <2>20, ImageAssumption
        <4> QED BY <1>1, <1>2, <2>20, <4>1, ImageAssumption
      <3>4. Len(now) <= call[c].len
        <4> DEFINE a == Len(now)
                   w == Want(c)
                   l == call[c].len
        <4>1. a \in Nat /\ w \in Nat /\ l \in Nat /\ a <= w /\ w <= l BY <1>2, <2>5, <2>20, <3>2, <3>3
        <4> HIDE DEF a, w, l
        <4>2. a <= l BY <4>1
        <4> QED BY <4>2 DEF a, l
      <3>5. off + Len(now) <= Total
        <4> DEFINE a == off + Len(now)
                   b == off + Want(c)
        <4>1. a \in Nat /\ b \in Nat /\ a <= b /\ b <= Total BY <2>5, <2>20, <3>1, <3>3
        <4> HIDE DEF a, b
        <4>2. a <= Total BY <4>1, ImageAssumption
        <4> QED BY <4>2 DEF a
      <3> QED BY <3>4, <3>5
    <2>8. Tail(todo) \in Seq(Pieces) /\ LeadsOn(Tail(todo), off + Len(now), off + Want(c))
      <3>1. todo # <<>> BY DEF todo
      <3>2. off + Len(got) \in Nat /\ off + Want(c) \in Nat BY <1>1, <1>2
      <3> QED BY <1>1, <1>2, <2>6, <3>1, <3>2, TailLeads DEF slice
    <2>9. /\ r \in Reads /\ r.pc = "reading" /\ r.off = off /\ r.len = call[c].len
          /\ r.todo = Tail(todo) /\ r.got = now
      BY <1>1, <2>5, <2>8 DEF Reads, At, off
    <2> HIDE DEF r
    <2>10. /\ call' \in [Calls -> Reads] /\ call'[c] = r
           /\ \A e \in Calls \ {c} : call'[e] = call[e]
      BY <1>11, <2>2, <2>9
    <2>11. ReadInv(c)'
      <3>1. Want(c)' = Want(c) BY <2>9, <2>10 DEF Want, off
      <3>2. LeadsOn(call[c].todo, call[c].off + Len(call[c].got), call[c].off + Want(c))'
        BY <1>13, <2>8, <2>9, <2>10, <3>1 DEF LeadsOn, From, To, StartOf
      <3> QED BY <1>1, <2>1, <2>5, <2>7, <2>9, <2>10, <3>2 DEF ReadInv
    <2>12. CacheInv'
      <3>1. chunks[slice.chunk] = [data |-> data, life |-> chunks[slice.chunk].life]
            /\ data \in Held(slice.chunk, fetchFaults')
        BY <1>7 DEF data
      <3>2. /\ DOMAIN cache' = DOMAIN chunks /\ cache' = [i \in DOMAIN cache' |-> cache'[i]]
            /\ \A i \in DOMAIN chunks : i # slice.chunk => cache'[i] = chunks[i]
            /\ slice.chunk \in DOMAIN chunks =>
                 cache'[slice.chunk] = [chunks[slice.chunk] EXCEPT !.life = Life]
        BY <2>1
      <3>3. [chunks[slice.chunk] EXCEPT !.life = Life] \in [data : Held(slice.chunk, fetchFaults'), life : Nat]
        BY <1>7, ImageAssumption
      <3>4. FixedCache(cache', fetchFaults') BY <3>2, <3>3 DEF FixedCache
      <3>5. FixedCache(cache, fetchFaults)' BY <1>13, <1>14, <3>4 DEF FixedCache
      <3> QED BY <1>1, <3>5 DEF CacheInv
    <2>13. reads' \in Nat BY DEF ImageInv, ImageTypes
    <2> QED BY <2>1, <2>10, <2>11, <2>12, <2>13, OneReads
  <1> QED BY <1>15, <1>16

LEMMA CachedMoves ==
  ASSUME ImageInv, NEW c \in Calls, ReadCached(c)
  PROVE  ImageInv'
  <1>1. /\ At(c, "reading") /\ call[c].todo # <<>> /\ Head(call[c].todo).chunk \in DOMAIN cache
        /\ CopySlice(c, Head(call[c].todo), cache)
        /\ index' = index /\ readStopped' = readStopped /\ reads' = reads /\ fetchFaults' = fetchFaults
    BY DEF ReadCached
  <1>2. index = "fixed" BY <1>1, WantIs
  <1>3. FixedCache(cache, fetchFaults') BY <1>1, <1>2 DEF ImageInv, CacheInv
  <1>4. fetchFaults' \in Nat /\ fetchFaults <= fetchFaults' BY <1>1 DEF ImageInv, ImageTypes
  <1> QED BY <1>1, <1>3, <1>4, SliceMoves

\* What a fetch gives: all of the chunk, or something else and one more fault.
LEMMA FetchGives ==
  ASSUME ImageInv, NEW chunk \in 0..Len(Ends) - 1, NEW data, Fetch(chunk, data)
  PROVE  /\ fetchFaults' \in Nat /\ fetchFaults <= fetchFaults'
         /\ data # Nil => data \in Held(chunk, fetchFaults')
         /\ data # Chunk(chunk) => fetchFaults' > 0
         /\ Chunk(chunk) # Nil
  <1>1. fetchFaults \in Nat /\ index \in {"fixed", "dynamic"} BY DEF ImageInv, ImageTypes
  <1>2. Chunk(chunk) \in Seq(Nat) BY <1>1, ChunkIs
  <1>3. CASE data = Chunk(chunk) /\ fetchFaults' = fetchFaults
    BY <1>1, <1>2, <1>3, ImageAssumption DEF Held
  <1>4. CASE data \in {Front(Chunk(chunk)), Nil} /\ fetchFaults' = fetchFaults + 1
    BY <1>1, <1>2, <1>4, ImageAssumption DEF Held
  <1> QED BY <1>3, <1>4 DEF Fetch, FetchFault

LEMMA FetchedMoves ==
  ASSUME ImageInv, NEW c \in Calls, ReadFetched(c)
  PROVE  ImageInv'
  <1> DEFINE slice == Head(call[c].todo)
             chunk == slice.chunk
             aged == [i \in DOMAIN cache |-> [cache[i] EXCEPT !.life = IF @ = 0 THEN 0 ELSE @ - 1]]
  <1>1. PICK data \in {Chunk(chunk), Front(Chunk(chunk)), Nil} :
          /\ Fetch(chunk, data)
          /\ IF data = Nil
               THEN FailRead(c) /\ UNCHANGED cache
               ELSE CopySlice(c, slice, [i \in DOMAIN cache \cup {slice.chunk} |->
                      IF i = slice.chunk THEN [data |-> data, life |-> Life] ELSE aged[i]])
    BY DEF ReadFetched
  <1>2. /\ At(c, "reading") /\ call[c].todo # <<>>
        /\ index' = index /\ readStopped' = readStopped /\ reads' = reads
    BY DEF ReadFetched
  <1>3. /\ index = "fixed" /\ lock = c /\ call[c] \in Reads
        /\ LeadsOn(call[c].todo, call[c].off + Len(call[c].got), call[c].off + Want(c))
    BY <1>2, WantIs
  <1>4. chunk \in 0..Len(Ends) - 1
    <2>1. call[c].todo \in Seq(Pieces) BY <1>3 DEF Reads
    <2>2. slice = call[c].todo[1] /\ Len(call[c].todo) \in Nat \ {0} BY <1>2, <2>1, EmptySeq
    <2> QED BY <1>3, <2>2 DEF LeadsOn
  <1> HIDE DEF chunk
  <1>5. /\ fetchFaults' \in Nat /\ fetchFaults <= fetchFaults'
        /\ data # Nil => data \in Held(chunk, fetchFaults')
        /\ data # Chunk(chunk) => fetchFaults' > 0
        /\ Chunk(chunk) # Nil
    BY <1>1, <1>4, FetchGives
  <1>6. CASE data = Nil
    <2>1. /\ call' = [call EXCEPT ![c] = Ended(c, "error")] /\ lock' = Nil /\ cache' = cache
          /\ fetchFaults' > 0
      BY <1>1, <1>5, <1>6 DEF FailRead
    <2>2. /\ call' \in [Calls -> Reads] /\ \A e \in Calls \ {c} : call'[e] = call[e]
          /\ ReadInv(c)'
      BY <1>2, <2>1, EndedRead
    <2>3. CacheInv' BY <1>2, <2>1, CacheKept
    <2>4. reads' \in Nat BY <1>2 DEF ImageInv, ImageTypes
    <2> QED BY <1>2, <1>3, <1>5, <2>1, <2>2, <2>3, <2>4, OneReads
  <1>7. CASE data # Nil
    <2> DEFINE new == [data |-> data, life |-> Life]
               chunks == [i \in DOMAIN cache \cup {chunk} |-> IF i = chunk THEN new ELSE aged[i]]
    <2>1. CopySlice(c, slice, chunks) BY <1>1, <1>7 DEF chunk
    <2>2. /\ DOMAIN chunks = {chunk} \cup DOMAIN cache /\ chunks = [i \in DOMAIN chunks |-> chunks[i]]
          /\ \A i \in DOMAIN chunks : chunks[i] = IF i = chunk THEN new ELSE aged[i] OBVIOUS
    <2> HIDE DEF chunks
    <2>3. FixedCache(cache, fetchFaults) BY <1>3 DEF ImageInv, CacheInv
    <2>4. ASSUME NEW i \in DOMAIN cache PROVE aged[i] \in [data : Held(i, fetchFaults'), life : Nat]
      <3>1. cache[i] \in [data : Held(i, fetchFaults), life : Nat] BY <2>3 DEF FixedCache
      <3>2. Held(i, fetchFaults) \subseteq Held(i, fetchFaults')
        BY <1>5 DEF Held, ImageInv, ImageTypes
      <3>3. cache[i].life \in Nat /\ (IF cache[i].life = 0 THEN 0 ELSE cache[i].life - 1) \in Nat
        BY <3>1
      <3> QED BY <3>1, <3>2, <3>3
    <2>5. new \in [data : Held(chunk, fetchFaults'), life : Nat] BY <1>5, <1>7, ImageAssumption
    <2> HIDE DEF new, aged
    <2>6. FixedCache(chunks, fetchFaults') BY <1>4, <2>2, <2>3, <2>4, <2>5 DEF FixedCache
    <2>7. slice.chunk \in DOMAIN chunks BY <2>2 DEF chunk
    <2> QED BY <1>2, <1>5, <2>1, <2>6, <2>7, SliceMoves
  <1> QED BY <1>6, <1>7

LEMMA LeastIsIn ==
  ASSUME NEW S \in SUBSET Nat, S # {}
  PROVE  Min(S) \in S /\ \A n \in S : Min(S) <= n
  <1> DEFINE R == {p \in Nat \X Nat : p[1] < p[2]}
  <1>1. IsWellFoundedOn(R, Nat) BY NatLessThanWellFounded DEF OpToRel
  <1> HIDE DEF R
  <1>2. \E x \in S : \A y \in S : ~ (<<y, x>> \in R) BY <1>1, WFMin
  <1>3. \E x \in S : \A y \in S : x <= y
    <2>1. \E x \in S : \A y \in S : ~(y < x) BY <1>2 DEF R
    <2> QED BY <2>1
  <1> QED BY <1>3 DEF Min

\* The chunk of a position of a dynamic index holds it.
LEMMA ChunkHolds ==
  ASSUME index = "dynamic", NEW pos \in Nat, pos < Total
  PROVE  /\ ChunkIndexAt(pos) \in 0..Len(Ends) - 1
         /\ StartOf(ChunkIndexAt(pos)) <= pos /\ pos < Ends[ChunkIndexAt(pos) + 1]
  <1> DEFINE S == {i \in DOMAIN Ends : Ends[i] > pos}
             m == Min(S)
  <1>1. Ends = DynamicEnds BY DEF Ends
  <1>2. /\ Ends \in Seq(Nat) /\ Len(Ends) \in Nat \ {0} /\ DOMAIN Ends = 1..Len(Ends)
        /\ \A i \in 1..Len(Ends) : Ends[i] \in Nat
    <2>1. Ends \in Seq(Nat) /\ Len(Ends) \in Nat \ {0} BY Chunks
    <2> QED BY <2>1, ElementOfSeq
  <1>3. Ends[Len(Ends)] = Total BY <1>1, ImageAssumption DEF Last
  <1>4. S \in SUBSET Nat /\ S # {}
    <2>1. Len(Ends) \in S BY <1>2, <1>3
    <2> QED BY <1>2, <2>1
  <1>5. m \in S /\ \A i \in S : m <= i BY <1>4, LeastIsIn
  <1>6. m \in 1..Len(Ends) /\ Ends[m] > pos BY <1>2, <1>5
  <1>7. ChunkIndexAt(pos) = m - 1 BY DEF ChunkIndexAt
  <1> HIDE DEF m
  <1>8. m # 1 => Ends[m - 1] <= pos
    <2>1. m # 1 => m - 1 \in 1..Len(Ends) /\ ~(m <= m - 1) BY <1>2, <1>6
    <2>2. m # 1 => m - 1 \notin S BY <1>5, <2>1
    <2> QED BY <1>2, <2>1, <2>2
  <1>9. StartOf(m - 1) <= pos
    <2>1. CASE m = 1
      <3>1. m - 1 = 0 BY <2>1
      <3> QED BY <3>1 DEF StartOf
    <2>2. CASE m # 1
      <3>1. m - 1 # 0 BY <1>6, <2>2
      <3> QED BY <1>8, <2>2, <3>1 DEF StartOf
    <2> QED BY <2>1, <2>2
  <1>10. m - 1 \in 0..Len(Ends) - 1 /\ (m - 1) + 1 = m BY <1>2, <1>6
  <1> QED BY <1>6, <1>7, <1>9, <1>10

LEMMA CacheKeepsWhole ==
  ASSUME ImageInv, index = "dynamic", NEW chunk \in 0..Len(Ends) - 1
  PROVE  /\ ToFront(chunk, Chunk(chunk)) \in Seq(Whole)
         /\ \A i \in Cached(chunk) : cache[i].data = Chunk(chunk)
  <1>1. cache \in Seq(Whole) BY DEF ImageInv, CacheInv, DynamicCache
  <1> DEFINE entry == [chunk |-> chunk, data |-> Chunk(chunk)]
             i == CHOOSE i \in Cached(chunk) : TRUE
             others == IF Cached(chunk) = {} THEN cache ELSE RemoveAt(cache, i)
             all == <<entry>> \o others
             n == Min({Len(all), CacheChunks})
  <1>2. entry \in Whole
    <2>1. Chunk(chunk) \in Seq(Nat) BY ChunkIs DEF ImageInv, ImageTypes
    <2> QED BY <2>1 DEF Whole
  <1>3. others \in Seq(Whole)
    <2>1. CASE Cached(chunk) = {} BY <1>1, <2>1
    <2>2. CASE Cached(chunk) # {}
      <3>1. i \in Cached(chunk) BY <2>2
      <3>2. i \in 1..Len(cache) /\ Len(cache) \in Nat BY <1>1, <3>1 DEF Cached
      <3> HIDE DEF i
      <3> DEFINE l == Len(cache)
                 a == i - 1
                 b == i + 1
      <3>3. /\ l \in Nat /\ l <= Len(cache) /\ a \in Nat /\ a <= Len(cache) /\ 1 <= a + 1
            /\ b \in Nat \ {0} /\ b <= l + 1
        BY <3>2
      <3> HIDE DEF l, a, b
      <3>4. SubSeq(cache, 1, a) \in Seq(Whole) BY <1>1, <3>3, SubSeqIs
      <3>5. SubSeq(cache, b, l) \in Seq(Whole) BY <1>1, <3>3, SubSeqIs
      <3>6. SubSeq(cache, 1, a) \o SubSeq(cache, b, l) \in Seq(Whole)
        BY <3>4, <3>5, ConcatProperties
      <3> QED BY <2>2, <3>6 DEF RemoveAt, a, b, l
    <2> QED BY <2>1, <2>2
  <1> HIDE DEF entry, others
  <1>4. all \in Seq(Whole) /\ Len(all) \in Nat
    <2>1. <<entry>> \in Seq(Whole) BY <1>2
    <2> QED BY <1>3, <2>1, ConcatProperties
  <1> HIDE DEF all
  <1>5. n \in Nat /\ n <= Len(all)
    <2>1. n = IF Len(all) <= CacheChunks THEN Len(all) ELSE CacheChunks
      BY <1>4, ImageAssumption, LesserOf
    <2> QED BY <1>4, <2>1, ImageAssumption
  <1> HIDE DEF n
  <1>6. SubSeq(all, 1, n) \in Seq(Whole)
    <2>1. 1 <= n + 1 BY <1>5
    <2> QED BY <1>4, <1>5, <2>1, SubSeqIs
  <1>7. ToFront(chunk, Chunk(chunk)) = SubSeq(all, 1, n)
    BY DEF ToFront, all, n, others, entry
  <1>8. \A k \in Cached(chunk) : cache[k].data = Chunk(chunk)
    <2> TAKE k \in Cached(chunk)
    <2>1. k \in 1..Len(cache) /\ cache[k].chunk = chunk BY <1>1 DEF Cached
    <2>2. cache[k] \in Whole BY <1>1, <2>1, ElementOfSeq
    <2> QED BY <2>1, <2>2 DEF Whole
  <1> QED BY <1>6, <1>7, <1>8

\* Where a read over a dynamic index goes on.
LEMMA OnTheWay ==
  ASSUME ImageInv, NEW c \in Calls, call[c].pc \in {"next", "fetching"}, ~AtEnd(c)
  PROVE  /\ index = "dynamic" /\ Pos(c) \in Nat /\ Pos(c) < Total
         /\ ChunkIndexAt(Pos(c)) \in 0..Len(Ends) - 1
         /\ Len(call[c].got) \in Nat /\ Len(call[c].got) < call[c].len
         /\ call[c].off \in Nat /\ call[c].len \in Nat
  <1>1. /\ index = "dynamic" /\ call[c] \in Reads /\ Len(call[c].got) <= call[c].len
    BY DEF ImageInv, ImageTypes, ReadInv
  <1>2. call[c].off \in Nat /\ call[c].len \in Nat /\ Len(call[c].got) \in Nat BY <1>1 DEF Reads
  <1>3. Len(call[c].got) # call[c].len /\ ~(Pos(c) >= Total) BY DEF AtEnd
  <1>4. Pos(c) \in Nat BY <1>2 DEF Pos
  <1>5. Pos(c) < Total BY <1>3, <1>4, ImageAssumption
  <1>6. ChunkIndexAt(Pos(c)) \in 0..Len(Ends) - 1 BY <1>1, <1>4, <1>5, ChunkHolds
  <1> QED BY <1>1, <1>2, <1>3, <1>4, <1>5, <1>6

LEMMA CopyMoves ==
  ASSUME ImageInv, NEW c \in Calls, call[c].pc \in {"next", "fetching"}, ~AtEnd(c), index' = index,
         call' = Copy(c, ChunkIndexAt(Pos(c)), Chunk(ChunkIndexAt(Pos(c))))
  PROVE  /\ call' \in [Calls -> Reads] /\ \A d \in Calls \ {c} : call'[d] = call[d]
         /\ ReadInv(c)'
  <1> DEFINE off == call[c].off
             len == call[c].len
             got == call[c].got
             g == Len(got)
             chunk == ChunkIndexAt(Pos(c))
             start == StartOf(chunk)
             most == Ends[chunk + 1]
             data == Chunk(chunk)
             from == Pos(c) - start
             n == Min({len - g, Len(data) - from})
             to == from + n
             now == got \o SubSeq(data, from + 1, to)
             r == [call[c] EXCEPT !.pc = "next", !.got = now]
  <1>1. /\ index = "dynamic" /\ Pos(c) \in Nat /\ Pos(c) < Total /\ chunk \in 0..Len(Ends) - 1
        /\ g \in Nat /\ g < len /\ off \in Nat /\ len \in Nat
    BY OnTheWay
  <1>2. call \in [Calls -> Reads] /\ call[c] \in Reads BY DEF ImageInv, ImageTypes
  <1>3. got = Bytes(off, g) BY DEF ImageInv, ReadInv
  <1>4. start <= Pos(c) /\ Pos(c) < most BY <1>1, ChunkHolds
  <1>5. start \in Nat /\ most \in Nat /\ start < most /\ most <= Total BY <1>1, Chunks
  <1>6. Pos(c) = off + g BY DEF Pos
  <1>7. call' = [call EXCEPT ![c] = r] BY <1>2 DEF Copy
  <1> HIDE DEF chunk, start, most, off, len, g
  <1>8. data = Bytes(start, most - start) BY <1>1, ChunkIs DEF chunk, start, most
  <1>9. Len(data) = most - start
    <2>1. most - start \in Nat BY <1>5
    <2> QED BY <1>5, <1>8, <2>1, BytesTyped
  <1>10. from \in Nat /\ from < most - start /\ off + g = start + from BY <1>1, <1>4, <1>5, <1>6
  <1>11. n = IF len - g <= most - start - from THEN len - g ELSE most - start - from
    <2>1. len - g \in Nat /\ most - start - from \in Nat BY <1>1, <1>5, <1>10
    <2> QED BY <1>9, <2>1, LesserOf
  <1> HIDE DEF from, data, n
  <1>12. n \in Nat /\ n <= len - g /\ from + n <= most - start BY <1>1, <1>5, <1>10, <1>11
  <1>13. now = Bytes(off, g + n)
    <2> DEFINE d == most - start
               m == g + n
    <2>1. d \in Nat /\ m \in Nat /\ to \in Nat /\ from <= to /\ to <= d /\ m = g + (to - from)
      BY <1>1, <1>5, <1>10, <1>12
    <2>2. data = Bytes(start, d) BY <1>8
    <2> HIDE DEF d, m, to
    <2>3. Follows(off, g, start, d, from, to, m) BY <1>1, <1>5, <1>10, <2>1 DEF Follows
    <2>4. Spliced(Bytes(off, g), Bytes(start, d), from, to) = Bytes(off, m) BY <2>3, BytesRead
    <2>5. now = Spliced(got, data, from, to) BY DEF Spliced
    <2>6. now = Bytes(off, m) BY <1>3, <2>2, <2>4, <2>5
    <2> QED BY <2>6 DEF m
  <1> HIDE DEF now
  <1>14. now \in Seq(Nat) /\ Len(now) = g + n /\ now = Bytes(off, Len(now))
    <2>1. g + n \in Nat BY <1>1, <1>12
    <2> QED BY <1>1, <1>13, <2>1, BytesTyped
  <1>15. Len(now) <= len /\ off + Len(now) <= Total
    <2>1. g + n <= len BY <1>1, <1>12
    <2>2. off + (g + n) <= most BY <1>1, <1>5, <1>10, <1>12
    <2>3. off + (g + n) \in Nat BY <1>1, <1>12
    <2> QED BY <1>5, <1>14, <2>1, <2>2, <2>3, ImageAssumption
  <1>16. r \in Reads /\ r.pc = "next" /\ r.off = off /\ r.len = len /\ r.got = now
    BY <1>2, <1>14 DEF Reads, off, len
  <1> HIDE DEF r
  <1>17. /\ call' \in [Calls -> Reads] /\ call'[c] = r
         /\ \A d \in Calls \ {c} : call'[d] = call[d]
    BY <1>2, <1>7, <1>16
  <1>18. ReadInv(c)' BY <1>1, <1>14, <1>15, <1>16, <1>17 DEF ReadInv
  <1> QED BY <1>17, <1>18

LEMMA FinishDynamicMoves ==
  ASSUME ImageInv, NEW c \in Calls, FinishDynamicRead(c)
  PROVE  ImageInv'
  <1> DEFINE result == IF Len(call[c].got) = call[c].len THEN "ok" ELSE "eof"
  <1>1. /\ At(c, "next") /\ AtEnd(c) /\ call' = [call EXCEPT ![c] = Ended(c, result)]
        /\ index' = index /\ lock' = lock /\ cache' = cache /\ readStopped' = readStopped
        /\ reads' = reads /\ fetchFaults' = fetchFaults
    BY DEF FinishDynamicRead
  <1>2. call[c] \in Reads /\ Len(call[c].got) <= call[c].len /\ call[c].off + Len(call[c].got) <= Total
    BY DEF ImageInv, ImageTypes, ReadInv
  <1>3. call[c].off \in Nat /\ call[c].len \in Nat /\ Len(call[c].got) \in Nat BY <1>2 DEF Reads
  <1>4. /\ result \in {"ok", "eof", "error"} /\ result # "error"
        /\ result = "ok" => Len(call[c].got) = call[c].len
        /\ result = "eof" => /\ call[c].off + Len(call[c].got) = Total
                            /\ Len(call[c].got) < call[c].len
    <2> DEFINE g == Len(call[c].got)
               off == call[c].off
               len == call[c].len
    <2>1. g = len \/ off + g >= Total BY <1>1 DEF AtEnd, Pos
    <2>2. g \in Nat /\ off \in Nat /\ len \in Nat /\ g <= len /\ off + g <= Total BY <1>2, <1>3
    <2> HIDE DEF g, off, len
    <2>3. g # len => g < len /\ off + g = Total BY <2>1, <2>2, ImageAssumption
    <2>4. result = IF g = len THEN "ok" ELSE "eof" BY DEF g, len
    <2> HIDE DEF result
    <2>5. /\ result \in {"ok", "eof", "error"} /\ result # "error"
          /\ result = "ok" => g = len
          /\ result = "eof" => off + g = Total /\ g < len
      BY <2>3, <2>4
    <2> QED BY <2>5 DEF g, off, len
  <1> HIDE DEF result
  <1>5. /\ call' \in [Calls -> Reads] /\ \A d \in Calls \ {c} : call'[d] = call[d]
        /\ ReadInv(c)'
    BY <1>1, <1>4, EndedRead
  <1>6. CacheInv' BY <1>1, CacheKept
  <1>7. reads' \in Nat /\ fetchFaults' \in Nat /\ fetchFaults <= fetchFaults'
    BY <1>1 DEF ImageInv, ImageTypes
  <1> QED BY <1>1, <1>5, <1>6, <1>7, OneReads

\* A call over a dynamic index puts a whole chunk in front of the cache.
LEMMA FrontMoves ==
  ASSUME ImageInv, NEW c \in Calls, call[c].pc \in {"next", "fetching"}, ~AtEnd(c), index' = index,
         cache' = ToFront(ChunkIndexAt(Pos(c)), Chunk(ChunkIndexAt(Pos(c))))
  PROVE  CacheInv'
  <1>1. index = "dynamic" /\ ChunkIndexAt(Pos(c)) \in 0..Len(Ends) - 1 BY OnTheWay
  <1>2. cache' \in Seq(Whole) BY <1>1, CacheKeepsWhole
  <1>3. Ends' = Ends BY DEF Ends
  <1>4. Whole' = Whole BY <1>3 DEF Whole, Chunk, StartOf
  <1> QED BY <1>1, <1>2, <1>4 DEF CacheInv, DynamicCache

LEMMA GetMoves ==
  ASSUME ImageInv, NEW c \in Calls, GetCached(c)
  PROVE  ImageInv'
  <1> DEFINE chunk == ChunkIndexAt(Pos(c))
             i == CHOOSE i \in Cached(chunk) : TRUE
  <1>1. /\ call[c].pc = "next" /\ ~AtEnd(c)
        /\ IF readStopped THEN call' = [call EXCEPT ![c] = Ended(c, "error")] /\ cache' = cache
           ELSE IF Cached(chunk) = {} THEN call' = [call EXCEPT ![c].pc = "fetching"] /\ cache' = cache
           ELSE cache' = ToFront(chunk, cache[i].data) /\ call' = Copy(c, chunk, cache[i].data)
        /\ index' = index /\ lock' = lock /\ readStopped' = readStopped
        /\ reads' = reads /\ fetchFaults' = fetchFaults
    BY DEF GetCached, At
  <1>2. reads' \in Nat /\ fetchFaults' \in Nat /\ fetchFaults <= fetchFaults'
    BY <1>1 DEF ImageInv, ImageTypes
  <1>3. call \in [Calls -> Reads] /\ call[c] \in Reads BY DEF ImageInv, ImageTypes
  <1>4. CASE readStopped
    <2>1. /\ call' \in [Calls -> Reads] /\ \A d \in Calls \ {c} : call'[d] = call[d]
          /\ ReadInv(c)'
      BY <1>1, <1>4, EndedRead
    <2>2. CacheInv' BY <1>1, <1>4, CacheKept
    <2> QED BY <1>1, <1>2, <2>1, <2>2, OneReads
  <1>5. CASE ~readStopped /\ Cached(chunk) = {}
    <2>1. call' = [call EXCEPT ![c].pc = "fetching"] /\ cache' = cache BY <1>1, <1>5
    <2> DEFINE r == [call[c] EXCEPT !.pc = "fetching"]
    <2>2. /\ r \in Reads /\ r.pc = "fetching" /\ r.off = call[c].off /\ r.len = call[c].len
          /\ r.got = call[c].got
      BY <1>3 DEF Reads
    <2>3. call' = [call EXCEPT ![c] = r] BY <1>3, <2>1
    <2> HIDE DEF r
    <2>4. /\ call' \in [Calls -> Reads] /\ call'[c] = r /\ \A d \in Calls \ {c} : call'[d] = call[d]
      BY <1>3, <2>2, <2>3
    <2>5. ~AtEnd(c)' BY <1>1, <2>2, <2>4 DEF AtEnd, Pos
    <2>6. /\ call[c].got = Bytes(call[c].off, Len(call[c].got)) /\ Len(call[c].got) <= call[c].len
          /\ call[c].off + Len(call[c].got) <= Total /\ index = "dynamic"
      BY <1>1 DEF ImageInv, ReadInv
    <2>7. ReadInv(c)' BY <1>1, <2>2, <2>4, <2>5, <2>6 DEF ReadInv
    <2>8. CacheInv' BY <1>1, <2>1, CacheKept
    <2> QED BY <1>1, <1>2, <2>4, <2>7, <2>8, OneReads
  <1>6. CASE ~readStopped /\ Cached(chunk) # {}
    <2>1. cache' = ToFront(chunk, cache[i].data) /\ call' = Copy(c, chunk, cache[i].data)
      BY <1>1, <1>6
    <2>2. i \in Cached(chunk) BY <1>6
    <2>3. cache[i].data = Chunk(chunk)
      <3>1. index = "dynamic" /\ chunk \in 0..Len(Ends) - 1 BY <1>1, OnTheWay
      <3> HIDE DEF i, chunk
      <3> QED BY <2>2, <3>1, CacheKeepsWhole
    <2>4. cache' = ToFront(chunk, Chunk(chunk)) /\ call' = Copy(c, chunk, Chunk(chunk))
      BY <2>1, <2>3
    <2>5. /\ call' \in [Calls -> Reads] /\ \A d \in Calls \ {c} : call'[d] = call[d]
          /\ ReadInv(c)'
      BY <1>1, <2>4, CopyMoves
    <2>6. CacheInv' BY <1>1, <2>4, FrontMoves
    <2> QED BY <1>1, <1>2, <2>5, <2>6, OneReads
  <1> QED BY <1>4, <1>5, <1>6

LEMMA PutMoves ==
  ASSUME ImageInv, NEW c \in Calls, PutFetched(c)
  PROVE  ImageInv'
  <1> DEFINE chunk == ChunkIndexAt(Pos(c))
  <1>1. PICK data \in {Chunk(chunk), Front(Chunk(chunk)), Nil} :
          /\ Fetch(chunk, data)
          /\ IF data = Chunk(chunk)
               THEN cache' = ToFront(chunk, data) /\ call' = Copy(c, chunk, data)
               ELSE call' = [call EXCEPT ![c] = Ended(c, "error")] /\ cache' = cache
    BY DEF PutFetched
  <1>2. /\ call[c].pc = "fetching" /\ index' = index /\ lock' = lock
        /\ readStopped' = readStopped /\ reads' = reads
    BY DEF PutFetched, At
  <1>3. ~AtEnd(c) BY <1>2 DEF ImageInv, ReadInv
  <1>4. chunk \in 0..Len(Ends) - 1 BY <1>2, <1>3, OnTheWay
  <1>5. /\ fetchFaults' \in Nat /\ fetchFaults <= fetchFaults'
        /\ data # Chunk(chunk) => fetchFaults' > 0
    <2> HIDE DEF chunk
    <2> QED BY <1>1, <1>4, FetchGives
  <1>6. reads' \in Nat BY <1>2 DEF ImageInv, ImageTypes
  <1>7. CASE data = Chunk(chunk)
    <2>1. cache' = ToFront(chunk, Chunk(chunk)) /\ call' = Copy(c, chunk, Chunk(chunk))
      BY <1>1, <1>7
    <2>2. /\ call' \in [Calls -> Reads] /\ \A d \in Calls \ {c} : call'[d] = call[d]
          /\ ReadInv(c)'
      BY <1>2, <1>3, <2>1, CopyMoves
    <2>3. CacheInv' BY <1>2, <1>3, <2>1, FrontMoves
    <2> QED BY <1>2, <1>5, <1>6, <2>2, <2>3, OneReads
  <1>8. CASE data # Chunk(chunk)
    <2>1. call' = [call EXCEPT ![c] = Ended(c, "error")] /\ cache' = cache /\ fetchFaults' > 0
      BY <1>1, <1>5, <1>8
    <2>2. /\ call' \in [Calls -> Reads] /\ \A d \in Calls \ {c} : call'[d] = call[d]
          /\ ReadInv(c)'
      BY <1>2, <2>1, EndedRead
    <2>3. CacheInv' BY <1>2, <2>1, CacheKept
    <2> QED BY <1>2, <1>5, <1>6, <2>2, <2>3, OneReads
  <1> QED BY <1>7, <1>8

LEMMA StopMoves ==
  ASSUME ImageInv, CancelReads
  PROVE  ImageInv'
  <1>1. /\ index' = index /\ lock' = lock /\ cache' = cache /\ call' = call /\ readStopped' = TRUE
        /\ reads' = reads /\ fetchFaults' = fetchFaults
    BY DEF CancelReads
  <1>2. ImageTypes' BY <1>1 DEF ImageInv, ImageTypes
  <1>3. CacheInv' BY <1>1, CacheKept
  <1>4. \A c \in Calls : ReadInv(c)' BY <1>1, ReadKept
  <1> QED BY <1>2, <1>3, <1>4 DEF ImageInv

LEMMA ImageMoves ==
  ASSUME ImageInv, [ImageNext]_imageVars
  PROVE  ImageInv'
  <1>1. CASE ImageNext
    BY <1>1, BeginMoves, LockMoves, CachedMoves, FetchedMoves, FinishMoves, FinishDynamicMoves,
       GetMoves, PutMoves, StopMoves
    DEF ImageNext
  <1>2. CASE UNCHANGED imageVars
    <2>1. /\ index' = index /\ lock' = lock /\ cache' = cache /\ call' = call
          /\ readStopped' = readStopped /\ reads' = reads /\ fetchFaults' = fetchFaults
      BY <1>2 DEF imageVars
    <2>2. ImageTypes' BY <2>1 DEF ImageInv, ImageTypes
    <2>3. CacheInv' BY <2>1, CacheKept
    <2>4. \A c \in Calls : ReadInv(c)' BY <2>1, ReadKept
    <2> QED BY <2>2, <2>3, <2>4 DEF ImageInv
  <1> QED BY <1>1, <1>2

LEMMA ImageInvariant == ImageSpec => []ImageInv
  <1>1. ImageInit => ImageInv BY ImageStart
  <1>2. ImageInv /\ [ImageNext]_imageVars => ImageInv' BY ImageMoves
  <1> QED BY <1>1, <1>2, PTL DEF ImageSpec

\* A read gives the bytes of the image from its offset, whatever the cache holds and
\* drops and whoever reads beside it, and fails only after a cancellation or a failed
\* fetch (FIDXServer.ReadAt, DIDXReaderAt.ReadAt).
THEOREM ReadsAreOfTheImage == ImageSpec => []ReadsImage
  <1>1. ASSUME ImageInv PROVE ReadsImage
    <2> SUFFICES ASSUME NEW c \in Calls, At(c, "done")
        PROVE LET r == call[c] IN
              /\ r.got = SubSeq(Image, r.off + 1, r.off + Len(r.got))
              /\ r.result = "ok" => Len(r.got) = r.len
              /\ r.result = "eof" => r.off + Len(r.got) = Total /\ (Len(r.got) < r.len \/ r.len = 0)
              /\ r.result = "error" => fetchFaults > 0 \/ readStopped
      BY DEF ReadsImage
    <2> DEFINE off == call[c].off
               got == call[c].got
               g == Len(got)
               to == off + g
    <2>1. /\ got = Bytes(off, g) /\ to <= Total
          /\ call[c].result = "ok" => g = call[c].len
          /\ call[c].result = "eof" => to = Total /\ (g < call[c].len \/ call[c].len = 0)
          /\ call[c].result = "error" => fetchFaults > 0 \/ readStopped
      BY <1>1 DEF ImageInv, ReadInv, At
    <2>2. off \in Nat /\ g \in Nat
      <3>1. call[c] \in Reads BY <1>1 DEF ImageInv, ImageTypes
      <3>2. got \in Seq(Nat) BY <3>1 DEF Reads
      <3> QED BY <3>1, <3>2 DEF Reads
    <2>3. Image \in Seq(Nat) /\ Len(Image) = Total /\ \A k \in 1..Total : Image[k] = k
      BY ImageAssumption DEF Image
    <2> HIDE DEF off, got, g
    <2>4. SubSeq(Image, off + 1, to) = Bytes(off, g)
      <3> DEFINE a == off + 1
                 s == SubSeq(Image, a, to)
      <3>1. a \in Nat \ {0} /\ to \in Nat /\ to <= Len(Image) /\ a <= to + 1 BY <2>1, <2>2, <2>3
      <3> HIDE DEF a, to
      <3>2. /\ s \in Seq(Nat) /\ Len(s) = to + 1 - a
            /\ \A i \in 1..(to + 1 - a) : s[i] = Image[a + i - 1]
        BY <2>3, <3>1, SubSeqIs
      <3> HIDE DEF s
      <3>3. /\ Len(s) = g /\ s = [i \in 1..g |-> s[i]]
            /\ \A i \in 1..g : s[i] = off + i
        <4>1. to + 1 - a = g BY <2>2 DEF a, to
        <4>2. s \in Seq(Nat) /\ Len(s) = g BY <3>2, <4>1
        <4>3. s = [i \in 1..g |-> s[i]] BY <4>2
        <4>4. ASSUME NEW i \in 1..g PROVE s[i] = off + i
          <5>1. s[i] = Image[a + i - 1] BY <3>2, <4>1
          <5>2. a + i - 1 = off + i /\ off + i \in 1..Total BY <2>1, <2>2, ImageAssumption DEF a, to
          <5> QED BY <2>3, <5>1, <5>2
        <4> QED BY <4>2, <4>3, <4>4
      <3>4. s = Bytes(off, g) BY <3>3 DEF Bytes
      <3> QED BY <3>4 DEF s, a
    <2>5. /\ got = SubSeq(Image, off + 1, to)
          /\ call[c].result = "ok" => g = call[c].len
          /\ call[c].result = "eof" => to = Total /\ (g < call[c].len \/ call[c].len = 0)
          /\ call[c].result = "error" => fetchFaults > 0 \/ readStopped
      BY <2>1, <2>4
    <2> QED BY <2>5 DEF off, got, g
  <1> QED BY <1>1, ImageInvariant, PTL
=============================================================================
