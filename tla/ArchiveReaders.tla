---------------------------- MODULE ArchiveReaders ----------------------------
(***************************************************************************)
(* What the two readers make of the streams of Archive: the walk of the    *)
(* archive from header to header (pxar_reader.go), the catalog from its    *)
(* end (catalog_reader.go), and the search in a goodbye table.             *)
(***************************************************************************)
EXTENDS Archive

\* PXARReader.walk: from header to header by the sizes they declare.
NewWalk == [off |-> 0, path |-> <<>>, outer |-> <<>>, name |-> None, pending |-> FALSE,
            root |-> FALSE, entries |-> <<>>, ok |-> TRUE]

Ahead(data, w) == data[w.off + 1]
Within(w) == Append(w.path, w.name)

Visit(w, h) ==
  CASE h.t = "filename" -> [w EXCEPT !.name = h.name]
    [] h.t = "entry" /\ ~h.dir -> [w EXCEPT !.pending = TRUE]
    [] h.t = "entry" /\ h.dir /\ ~w.root -> [w EXCEPT !.root = TRUE]
    [] h.t = "entry" /\ h.dir /\ w.root ->
         [w EXCEPT !.entries = Append(@, [path |-> Within(w), dir |-> TRUE, size |-> 0]),
                   !.outer = Append(@, w.path), !.path = Within(w),
                   !.name = None, !.pending = FALSE]
    [] h.t = "payload" /\ w.pending ->
         [w EXCEPT !.entries = Append(@, [path |-> Within(w), dir |-> FALSE, size |-> h.size - 1]),
                   !.name = None, !.pending = FALSE]
    [] h.t = "goodbye" /\ w.outer # <<>> ->
         [w EXCEPT !.path = Last(w.outer), !.outer = Front(@)]
    [] OTHER -> w

\* A header whose size is more than what is left ends the walk with an error.
NextHeader(data, w) ==
  IF ~w.ok \/ w.off >= Len(data) THEN w
  ELSE IF "size" \notin DOMAIN Ahead(data, w) \/ Ahead(data, w).size > Len(data) - w.off
    THEN [w EXCEPT !.ok = FALSE]
    ELSE [Visit(w, Ahead(data, w)) EXCEPT !.off = @ + Ahead(data, w).size]

\* There are no more headers than cells.
ListEntries(data) ==
  LET walk[n \in Nat] == IF n = 0 THEN NewWalk ELSE NextHeader(data, walk[n - 1])
  IN  walk[Len(data)]

\* What parseCatalogTable reads at an offset.
CatalogTables(data) == {at \in 0..Len(data) - 1 : data[at + 1].t = "table"}
Rows(data, at) == {data[at + 1 + i] : i \in 1..data[at + 1].len}

Broken == [path |-> <<>>, dir |-> FALSE, size |-> None]
Below(name, entries) == {[e EXCEPT !.path = <<name>> \o @] : e \in entries}

\* ParseCatalog: from the pointer at the end to the root, and down.
ParseCatalog(data) ==
  LET walk[at \in CatalogTables(data)] ==
        UNION {IF row.t = "f" THEN {[path |-> <<row.name>>, dir |-> FALSE, size |-> row.size]}
               ELSE IF row.delta <= 0 \/ at - row.delta \notin CatalogTables(data) THEN {Broken}
               ELSE {[path |-> <<row.name>>, dir |-> TRUE, size |-> 0]}
                      \cup Below(row.name, walk[at - row.delta]) :
               row \in Rows(data, at)}
      end == Last(data).to
  IN  walk[end - data[end + 2].delta]

\* The search of a hash in the goodbye table at an offset, with n items: the slot it
\* looks at after some comparisons, and what it finds.
Find(data, at, n, hash) ==
  LET slot[d \in Nat] ==
        IF d = 0 THEN 0
        ELSE LET i == slot[d - 1]
             IN  IF i >= n \/ data[at + 2 + i].hash = hash THEN i
                 ELSE IF hash < data[at + 2 + i].hash THEN 2 * i + 1 ELSE 2 * i + 2
      item == data[at + 2 + slot[n]]
  IN  IF slot[n] < n /\ item.hash = hash THEN item ELSE None

----------------------------------------------------------------------------
(* Properties *)

\* Whatever changes while the folder is read, the walk of the archive finds
\* exactly the entries that were written, and the catalog lists the same.
ReadersAgree ==
  result = "done" =>
    /\ ListEntries(archive).ok /\ ListEntries(archive).entries = log
    /\ ParseCatalog(catalog) = ToSet(log)

\* Every entry of a directory is found by its name in the table that ends the
\* directory, at a place where that name was written, and the table leads back to
\* its directory.
Tables == {g \in DOMAIN archive : archive[g].t = "goodbye"}
DirOf(g) == g - archive[g + archive[g].size - 1].offset

GoodbyeFinds ==
  result = "done" =>
    /\ \A g \in Tables : archive[DirOf(g)] = DirEntry
    /\ \A f \in {i \in DOMAIN archive : archive[i].t = "filename"} :
         LET around == {g \in Tables : DirOf(g) < f /\ f < g}
             g      == CHOOSE x \in around : \A y \in around : x <= y
             item   == Find(archive, g - 1, archive[g].size - 2, Hash[archive[f].name])
         IN  item # None /\ archive[g - item.offset] = archive[f]
==============================================================================
