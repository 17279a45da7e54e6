------------------------------ MODULE HdfStore ------------------------------
(***************************************************************************)
(* _hdf.py: an HDFStore over one file.  A file is a tree of groups, and a  *)
(* key the path to one; a group may hold a frame, as plain arrays (fixed)  *)
(* or as a table, and other groups beside it.  A frame has a column c of   *)
(* categories or of text, a column x of floats, or both, under one level   *)
(* of labels: the place of each row in the call that brought it.  A table  *)
(* keeps the codes of a categorical and its categories under a path of     *)
(* their own.  The option io.hdf.dropna_table is left off, and index names *)
(* and widths asked for in advance are left out.  What may be missing is   *)
(* a sequence of one or of none.                                           *)
(***************************************************************************)
EXTENDS Integers, Sequences, SequencesExt, FiniteSets, FiniteSetsExt

CONSTANTS Keys,         \* paths, as sequences of names
          Selector, Other,      \* the two an append_to_multiple splits over
          Frames,       \* what the caller writes
          Droppable,    \* those of them it also appends with dropna
          Wheres,       \* the rows a clause may pick, counted from 0
          Spans,        \* the values of start and stop
          Sizes,        \* the values of chunksize
          MaxCalls      \* bound: how many calls write or remove

VARIABLES file,         \* the groups of the file, by path
          mode, is_open,
          told,         \* ghost: the rows each key was given
          paired,       \* ghost: only whole append_to_multiple calls wrote the two
          chunks,       \* a TableIterator under way
          calls

vars == <<file, mode, is_open, told, paired, chunks, calls>>

NA == "NA"
NanRep == "nan"
None == <<>>

Init == /\ file = [p \in {} |-> None]
        /\ mode = "a" /\ is_open = TRUE
        /\ told = [k \in Keys |-> None]
        /\ paired = TRUE
        /\ chunks = None
        /\ calls = 0
-----------------------------------------------------------------------------
(* The tree, as PyTables keeps it.  A group is known by when it was made.  *)

remove_node(f, p) == [q \in {q \in DOMAIN f : ~ IsPrefix(p, q)} |-> f[q]]

create_nodes(f, p) ==
  LET new == {SubSeq(p, 1, i) : i \in 1 .. Len(p)} \ DOMAIN f
  IN  [q \in new \cup DOMAIN f |->
         IF q \in new THEN [type |-> "none", leaf |-> None, made |-> calls] ELSE f[q]]

remove_rows(rows, start, stop) ==
  SubSeq(rows, 1, Min({start, Len(rows)})) \o SubSeq(rows, stop + 1, Len(rows))
-----------------------------------------------------------------------------
(* Reading.                                                                *)

MetadataPath(p) == p \o <<"meta", "c", "meta">>

read_metadata(f, p) ==
  IF MetadataPath(p) \in DOMAIN f THEN f[MetadataPath(p)].leaf ELSE None

HoldsTable(f, p) == p \in DOMAIN f /\ f[p].type = "frame_table" /\ f[p].leaf # None

\* A code past the categories is an error; without metadata there are none.
Decoded(rows, c, metadata) ==
  LET known == IF metadata = None THEN <<>> ELSE metadata[1].rows
  IN  IF c # "cat" THEN <<rows>>
      ELSE IF \E i \in DOMAIN rows : rows[i].c >= Len(known) THEN None
      ELSE <<[i \in DOMAIN rows |->
                [rows[i] EXCEPT !.c = IF @ = -1 THEN NA ELSE known[@ + 1]]]>>

read_fixed(leaf) == <<leaf.rows>>
read_table(leaf, metadata) == Decoded(leaf.rows, leaf.c, metadata)

\* What get(key) answers, nothing when it raises.
get(f, p) ==
  IF p \notin DOMAIN f \/ f[p].leaf = None THEN None
  ELSE IF f[p].type = "frame" THEN read_fixed(f[p].leaf[1])
  ELSE read_table(f[p].leaf[1], read_metadata(f, p))
-----------------------------------------------------------------------------
(* Writing: the file after it, whether the rows are in it and whether the  *)
(* call returned.                                                          *)

Refused(f) == [file |-> f, landed |-> FALSE, ok |-> FALSE]
Returned(f) == [file |-> f, landed |-> TRUE, ok |-> TRUE]

\* A categorical is found out after the labels are written: what is left
\* has a type and cannot be read.
WriteFixed(f, p, frame, rows) ==
  IF frame.c = "cat" THEN Refused(f)
  ELSE Returned([f EXCEPT ![p].leaf = <<[rows |-> rows]>>])

TextWidth(rows) ==
  Max({1} \cup {Len(IF rows[i].c = NA THEN NanRep ELSE rows[i].c) : i \in DOMAIN rows})

\* The columns and their types have to be those of the table,
Matches(leaf, frame) == leaf.c = frame.c /\ leaf.x = frame.x
\* and so has the room for text.
Fits(leaf, frame, rows) == frame.c = "text" => TextWidth(rows) <= leaf.width

\* The table as it stands, or with the columns of a frame.
create_axes(f, p, frame, rows) ==
  IF f[p].leaf # None THEN f[p].leaf[1]
  ELSE [c |-> frame.c, x |-> frame.x, rows |-> <<>>,
        width |-> IF frame.c = "text" THEN TextWidth(rows) ELSE 0]

\* Slip: the same categories, in whatever order.
validate_metadata_as_sets(f, p, frame) ==
  frame.c = "cat" /\ read_metadata(f, p) # None =>
    ToSet(read_metadata(f, p)[1].rows) = ToSet(frame.cats)

validate_metadata(f, p, frame) ==
  frame.c = "cat" /\ read_metadata(f, p) # None =>
    read_metadata(f, p)[1].rows = frame.cats

\* A put of the labels as a table; no labels are nothing to put.
write_metadata(f, p, frame) ==
  LET q == MetadataPath(p)
  IN  IF frame.c # "cat" \/ frame.cats = <<>> THEN f
      ELSE [create_nodes(remove_node(f, q), q) EXCEPT
              ![q].type = "series_table", ![q].leaf = <<[rows |-> frame.cats]>>]

Encoded(rows, frame) ==
  LET code(v) == IF v = NA THEN -1
                 ELSE (CHOOSE j \in DOMAIN frame.cats : frame.cats[j] = v) - 1
  IN  IF frame.c # "cat" THEN rows
      ELSE [i \in DOMAIN rows |-> [rows[i] EXCEPT !.c = code(@)]]

\* The mask looks at the columns of two dimensions: text and codes have one.
Unmasked(rows, frame, dropna) ==
  IF dropna /\ frame.x THEN SelectSeq(rows, LAMBDA r : r.x # NA) ELSE rows

\* An index over x, which is no data column, is refused once the rows are in.
WriteTable(f, p, frame, rows, dropna, index) ==
  LET leaf == create_axes(f, p, frame, rows)
      new == Encoded(Unmasked(rows, frame, dropna), frame)
      written == [write_metadata(f, p, frame) EXCEPT
                    ![p].leaf = <<[leaf EXCEPT !.rows = @ \o new]>>]
  IN  IF Matches(leaf, frame) /\ Fits(leaf, frame, rows) /\ validate_metadata(f, p, frame)
        THEN [Returned(written) EXCEPT !.ok = ~ (index = "x" /\ frame.x)]
        ELSE Refused(f)

\* What is no frame is found out after the old one is gone.
write_to_group(f, p, frame, rows, format, append, dropna, index) ==
  LET g == create_nodes(IF append THEN f ELSE remove_node(f, p), p)
      type == IF g[p].type # "none" THEN g[p].type
              ELSE IF format = "table" THEN "frame_table" ELSE "frame"
      typed == [g EXCEPT ![p].type = type]
      fixed == type = "frame"
      shut == fixed \/ (format = "fixed" /\ g[p].leaf # None)
  IN  IF rows = <<>> /\ (format = "table" \/ append)
        THEN [file |-> f, landed |-> FALSE, ok |-> TRUE]
      ELSE IF frame.c = "list" \/ (append /\ shut) THEN Refused(g)
      ELSE IF fixed THEN WriteFixed(typed, p, frame, rows)
      ELSE WriteTable(typed, p, frame, rows, dropna, index)
-----------------------------------------------------------------------------
(* copy, into a new file: every key that holds something, the metadata of  *)
(* the tables among them, with the groups above it first.                  *)

CopyKey(f, copied, p) ==
  LET node == f[p]
      table == node.type = "frame_table"
      metadata == read_metadata(f, p)
      frame == IF ~ table THEN [c |-> "none"]
               ELSE [c |-> node.leaf[1].c, x |-> node.leaf[1].x,
                     cats |-> IF metadata = None THEN <<>> ELSE metadata[1].rows]
      rows == get(f, p)[1]
  IN  IF node.type = "series_table"
        THEN [create_nodes(remove_node(copied, p), p) EXCEPT
                ![p].type = node.type, ![p].leaf = node.leaf]
        ELSE write_to_group(copied, p, frame, rows, IF table THEN "table" ELSE "fixed",
                            table, FALSE, "all").file

Held(f) == {p \in DOMAIN f : f[p].type # "none"}
\* Slip: the deepest first.
InOrderUpwards(paths) == SetToSortSeq(paths, LAMBDA p, q : Len(p) > Len(q))

InOrder(paths) == SetToSortSeq(paths, LAMBDA p, q : Len(p) < Len(q))

\* What cannot be read, or turned back into what was written, stops it.
copy(f) ==
  IF \E p \in Held(f) : f[p].type # "series_table" /\ get(f, p) = None THEN None
  ELSE <<FoldLeft(LAMBDA copied, p : CopyKey(f, copied, p), [p \in {} |-> None],
                  InOrder(Held(f)))>>
-----------------------------------------------------------------------------
(* The calls.                                                              *)

Writable == is_open /\ mode # "r" /\ calls < MaxCalls
Call == Writable /\ calls' = calls + 1 /\ UNCHANGED <<mode, is_open>>

RowsOf(frame) ==
  [i \in DOMAIN frame.rows |->
     [at |-> <<calls, i>>, c |-> frame.rows[i][1], x |-> frame.rows[i][2]]]

\* "Leave out rows that are all missing when writing HDF5."
AllMissing(frame, r) == (frame.c # "none" => r.c = NA) /\ (frame.x => r.x = NA)
Promised(frame, rows, dropna) ==
  SelectSeq(rows, LAMBDA r : ~ (dropna /\ AllMissing(frame, r)))

Gone(t, k) == [j \in Keys |-> IF IsPrefix(k, j) THEN None ELSE t[j]]
Given(t, k, rows) == [t EXCEPT ![k] = IF @ = None THEN <<rows>> ELSE <<@[1] \o rows>>]

Direct(k) == paired' = (paired /\ k \notin {Selector, Other})

\* An empty frame in the table format is no call at all.
put(k, frame, format, index) ==
  LET rows == RowsOf(frame)
      r == write_to_group(file, k, frame, rows, format, FALSE, FALSE, index)
  IN  /\ Call
      /\ file' = r.file
      /\ told' = CASE rows = <<>> /\ format = "table" -> told
                   [] r.landed -> Given(Gone(told, k), k, rows)
                   [] OTHER -> Gone(told, k)
      /\ paired' = (paired /\ \A j \in {Selector, Other} : ~ IsPrefix(k, j))
      /\ UNCHANGED chunks

append(k, frame, format, dropna, index) ==
  LET rows == RowsOf(frame)
      r == write_to_group(file, k, frame, rows, format, TRUE, dropna, index)
  IN  /\ Call
      /\ dropna => frame \in Droppable
      /\ file' = r.file
      /\ told' = IF r.landed THEN Given(told, k, Promised(frame, rows, dropna)) ELSE told
      /\ Direct(k)
      /\ UNCHANGED chunks

\* c goes to the selector and x to the other, whichever is first in the dict.
Part(frame, k) == IF k = Selector THEN [frame EXCEPT !.x = FALSE]
                  ELSE [frame EXCEPT !.c = "none", !.cats = <<>>]
HalfOf(r, k) == IF k = Selector THEN [r EXCEPT !.x = NA] ELSE [r EXCEPT !.c = NA]

\* The n-th of some places, from the lowest.
Nth(places, n) == CHOOSE i \in places : Cardinality({j \in places : j <= i}) = n

\* Slip: each half leaves out the rows that are missing in it.
PartRowsOnTheirOwn(rows, k, dropna) ==
  LET kept == {i \in DOMAIN rows :
                 dropna => IF k = Selector THEN rows[i].c # NA ELSE rows[i].x # NA}
  IN  [n \in 1 .. Cardinality(kept) |-> HalfOf(rows[Nth(kept, n)], k)]

\* A row goes to neither when it is all missing in one of them.
PartRows(rows, k, dropna) ==
  LET kept == {i \in DOMAIN rows : dropna => rows[i].c # NA /\ rows[i].x # NA}
  IN  [n \in 1 .. Cardinality(kept) |-> HalfOf(rows[Nth(kept, n)], k)]

append_to_multiple(frame, first, dropna) ==
  LET second == IF first = Selector THEN Other ELSE Selector
      rows(k) == PartRows(RowsOf(frame), k, dropna)
      write(f, k) == write_to_group(f, k, Part(frame, k), rows(k), "table",
                                    TRUE, FALSE, "all")
      r == write(file, first)
      s == IF r.ok THEN write(r.file, second) ELSE Refused(r.file)
      after(t, w, k) == IF w.landed THEN Given(t, k, rows(k)) ELSE t
  IN  /\ Call
      /\ file' = s.file
      /\ told' = after(after(told, r, first), s, second)
      /\ paired' = (paired /\ (s.ok \/ ~ r.landed))
      /\ UNCHANGED chunks

Without(rows, positions) ==
  LET keep == SetToSortSeq((0 .. Len(rows) - 1) \ positions, <)
  IN  [i \in DOMAIN keep |-> rows[keep[i] + 1]]

Within(span, n) == IF span = <<>> THEN 0 .. n - 1
                   ELSE span[1] .. Min({span[2], n}) - 1

\* Slip: the first run first, which moves the ones behind it.
delete_forward(rows, picked) ==
  LET values == SetToSortSeq(picked, <)
  IN  FoldLeft(LAMBDA kept, v : remove_rows(kept, v, v + 1), rows, values)

\* AppendableTable.delete: whole runs of rows, the last run first.
delete(rows, picked) ==
  LET values == SetToSortSeq(picked, <)
      starts == SetToSortSeq({i \in DOMAIN values :
                                i = 1 \/ values[i] - values[i - 1] > 1}, <)
      end(g) == IF g = Len(starts) THEN Len(values) ELSE starts[g + 1] - 1
  IN  FoldRight(LAMBDA g, kept : remove_rows(kept, values[starts[g]], values[end(g)] + 1),
                [g \in DOMAIN starts |-> g], rows)

\* where is a clause that picks rows, or none; a key that cannot be read can
\* only be removed whole.
remove(k, where, span) ==
  LET whole == where = <<>> /\ span = <<>>
      rows == file[k].leaf[1].rows
      picked == where[1] \cap Within(span, Len(rows))
      gone == IF where # <<>> THEN picked ELSE Within(span, Len(rows))
  IN  /\ Call
      /\ k \in DOMAIN file
      /\ \/ whole \/ HoldsTable(file, k)
         \/ file[k].type = "none" /\ where = <<>>
      /\ IF whole \/ file[k].type = "none"
           THEN /\ file' = remove_node(file, k)
                /\ told' = Gone(told, k)
                /\ paired' = (paired /\ \A j \in {Selector, Other} : ~ IsPrefix(k, j))
                /\ UNCHANGED chunks
           ELSE /\ file' = [file EXCEPT ![k].leaf[1].rows =
                              IF where # <<>> THEN delete(@, picked)
                              ELSE remove_rows(@, span[1], span[2])]
                /\ told' = [told EXCEPT ![k][1] = Without(@, gone)]
                /\ Direct(k)
                /\ chunks' = IF chunks # <<>> /\ chunks[1].key = k /\ gone # {}
                             THEN [chunks EXCEPT ![1].moved = TRUE] ELSE chunks
-----------------------------------------------------------------------------
(* Reading a table in chunks, with other calls between two of them.        *)

RowsAt(rows, positions) == [i \in DOMAIN positions |-> rows[positions[i] + 1]]

\* The rows of a clause are found now, over all of the table, and read later.
select_in_chunks(k, where, span, size) ==
  LET n == Len(file[k].leaf[1].rows)
      picked == IF where = <<>> THEN 0 .. n - 1 ELSE where[1] \cap 0 .. n - 1
  IN  /\ is_open /\ chunks = None
      /\ HoldsTable(file, k)
      /\ chunks' = <<[key |-> k, made |-> file[k].made,
                      metadata |-> read_metadata(file, k),
                      coordinates |-> SetToSortSeq(picked, <), size |-> size,
                      current |-> IF span = <<>> THEN 0 ELSE span[1],
                      stop |-> IF span = <<>> THEN n ELSE Min({n, span[2]}),
                      got |-> <<>>, moved |-> FALSE, both |-> where # <<>> /\ span # <<>>,
                      asked |-> RowsAt(told[k][1],
                                       SetToSortSeq(picked \cap Within(span, n), <))]>>
      /\ UNCHANGED <<file, mode, is_open, told, paired, calls>>

\* Slip: the places of the rows of the chunk, for the rows of the clause.
WantedByPlace(it, stop) == [i \in 1 .. stop - it.current |-> it.current + i - 1]

Wanted(it, stop) ==
  SubSeq(it.coordinates, it.current + 1, Min({stop, Len(it.coordinates)}))

\* The group was removed, or a row is past the end: the reader raises.
next_chunk ==
  LET it == chunks[1]
      stop == Min({it.current + it.size, it.stop})
      wanted == Wanted(it, stop)
      node == file[it.key]
      there == it.key \in DOMAIN file /\ node.made = it.made
      read == Decoded(RowsAt(node.leaf[1].rows, wanted), node.leaf[1].c, it.metadata)
      fails == \/ ~ there
               \/ \E i \in DOMAIN wanted : wanted[i] >= Len(node.leaf[1].rows)
               \/ read = None
  IN  /\ is_open /\ chunks # None /\ it.current < it.stop
      /\ chunks' = IF fails THEN None
                   ELSE <<[it EXCEPT !.current = stop, !.got = @ \o read[1]]>>
      /\ UNCHANGED <<file, mode, is_open, told, paired, calls>>

drop_chunks == /\ chunks # None
               /\ chunks' = None
               /\ UNCHANGED <<file, mode, is_open, told, paired, calls>>
-----------------------------------------------------------------------------
\* PossibleDataLossError: not a file that is open, unless w was its mode too.
open(m) ==
  /\ ~ (m = "w" /\ mode # "w" /\ is_open)
  /\ mode' = m /\ is_open' = TRUE
  /\ file' = IF m = "w" THEN [p \in {} |-> None] ELSE file
  /\ told' = IF m = "w" THEN [k \in Keys |-> None] ELSE told
  /\ chunks' = None
  /\ UNCHANGED <<paired, calls>>

close == /\ is_open /\ is_open' = FALSE
         /\ chunks' = None
         /\ UNCHANGED <<file, mode, told, paired, calls>>

Next ==
  \/ \E k \in Keys, frame \in Frames, index \in {"all", "x"} :
       \/ \E format \in {"fixed", "table"} : put(k, frame, format, index)
       \/ \E format \in {"fixed", "table"}, dropna \in BOOLEAN :
            append(k, frame, format, dropna, index)
  \/ \E frame \in {frame \in Frames : frame.x /\ frame.c # "none"},
        first \in {Selector, Other}, dropna \in BOOLEAN :
       append_to_multiple(frame, first, dropna)
  \/ \E k \in Keys, where \in {<<>>} \cup {<<S>> : S \in Wheres}, span \in {<<>>} \cup Spans :
       \/ remove(k, where, span)
       \/ \E size \in Sizes : select_in_chunks(k, where, span, size)
  \/ next_chunk \/ drop_chunks
  \/ (\E m \in {"a", "r", "w"} : open(m)) \/ close

Spec == Init /\ [][Next]_vars
-----------------------------------------------------------------------------
TypeOK ==
  /\ \A p \in DOMAIN file :
       /\ file[p].type \in {"none", "frame", "frame_table", "series_table"}
       /\ Front(p) # <<>> => Front(p) \in DOMAIN file
  /\ mode \in {"a", "r", "w"}
  /\ calls \in 0 .. MaxCalls

(***************************************************************************)
(* get() answers, for every key and after every call, returned or refused, *)
(* the rows the caller gave it, in order and with their values: those put  *)
(* there last, then those appended with the ones that are all missing left *)
(* out, less those removed; and it raises where nothing was given, where   *)
(* a group above was put or removed, or where a put was refused.           *)
(***************************************************************************)
StoreReadsAsTold == TypeOK /\ \A k \in Keys : get(file, k) = told[k]

(***************************************************************************)
(* The chunks of a selection, in their order, are the selection as it was  *)
(* when they were asked for, whatever is appended to the table meanwhile   *)
(* and as long as no row is removed from it, by a clause or by a range.    *)
(***************************************************************************)
ChunksAreTheSelection ==
  chunks # None /\ ~ chunks[1].moved /\ ~ chunks[1].both =>
    /\ IsPrefix(chunks[1].got, chunks[1].asked)
    /\ chunks[1].current >= chunks[1].stop => chunks[1].got = chunks[1].asked

(***************************************************************************)
(* A copy of the file, when there is nothing half written in it, reads as  *)
(* the file does under every key: the frames below a frame are not lost,   *)
(* and a categorical finds the categories that are a key of their own.     *)
(* Only a table without rows is left behind.                               *)
(***************************************************************************)
CopiesReadTheSame ==
  copy(file) # None => \A k \in Keys :
    \/ get(copy(file)[1], k) = get(file, k)
    \/ get(file, k) = <<<<>>>> /\ get(copy(file)[1], k) = None

(***************************************************************************)
(* Two tables that only append_to_multiple writes hold the halves of the   *)
(* same rows, place by place, which is how select_as_multiple reads them.  *)
(***************************************************************************)
HalvesMatch ==
  LET labels(k) == IF get(file, k) = None THEN <<>>
                   ELSE [i \in DOMAIN get(file, k)[1] |-> get(file, k)[1][i].at]
  IN  paired => labels(Selector) = labels(Other)
=============================================================================
