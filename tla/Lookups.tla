-------------------------------- MODULE Lookups --------------------------------
(***************************************************************************)
(* Labels looked up in an index (IndexMixin and reindex of                 *)
(* src/python/firepanda/_pandas.py): every position of a label, the label  *)
(* as of another, the rows between two labels walked either way, and the   *)
(* positions a reindex reads from.                                         *)
(***************************************************************************)
EXTENDS IndexJoin

CONSTANTS Owners, Targets

\* Labels are numbers, and no label is a missing one's.
ASSUME LabelsAssumption == Owners \subseteq Seq(Int) /\ Targets \subseteq Int \ {Gap}

VARIABLES owner, asked
lookupVars == <<owner, asked>>

NotAsked == [of |-> "nothing"]
Open == -98         \* the end a slice leaves out
Missing == -97      \* the answer before every label

Ordered2(labels) == Rises(labels) \/ Falls(labels)

(* The first row at the label or past it, and the first past it; labels in *)
(* no order are looked up, and have to be there once.                      *)
SliceBound(labels, label, side) ==
  LET before(l) == IF Rises(labels) THEN l < label ELSE l > label
      hits == {i \in DOMAIN labels : labels[i] = label}
  IN  IF Ordered2(labels)
      THEN Cardinality({i \in DOMAIN labels : before(labels[i]) \/ (side = "right" /\ labels[i] = label)})
      ELSE IF Cardinality(hits) # 1 THEN Nowhere
      ELSE (CHOOSE i \in hits : TRUE) - (IF side = "left" THEN 1 ELSE 0)

(* Slip: a backward slice that runs through the first row stops one early. *)
WrappedNever(bound, height) == bound

(* -1 means the last row to a slice, so a bound before the first row goes  *)
(* down by the length as well.                                             *)
Wrapped(bound, height) == IF bound = -1 THEN bound - height ELSE bound

SliceLocs(labels, start, end, forward) ==
  LET low(label, side) == IF label = Open THEN 0 ELSE SliceBound(labels, label, side)
      high(label, side) == IF label = Open THEN Len(labels) ELSE SliceBound(labels, label, side)
      bounds == IF forward THEN <<low(start, "left"), high(end, "right")>>
                ELSE <<low(end, "left"), high(start, "right")>>
  IN  IF Nowhere \in ToSet(bounds) THEN Unanswered
      ELSE IF forward THEN bounds
      ELSE <<Wrapped(bounds[2] - 1, Len(labels)), Wrapped(bounds[1] - 1, Len(labels))>>

(* The rows a slice reads, by Python's rule for its three numbers.         *)
SliceRows(n, bounds, step) ==
  LET clamped(b) == LET c == IF b < 0 THEN b + n ELSE b
                    IN  IF step > 0 THEN Max({0, Min({c, n})}) ELSE Max({-1, Min({c, n - 1})})
      first == clamped(bounds[1])
      last == clamped(bounds[2])
      taken == {k \in 0 .. n : IF step > 0 THEN first + k * step < last ELSE first + k * step > last}
  IN  [k \in 1 .. Cardinality(taken) |-> first + (k - 1) * step]

Sliced ==
  \E start, end \in Targets \cup {Open}, step \in {-2, -1, 1, 2} :
    LET bounds == SliceLocs(owner, start, end, step > 0)
    IN  /\ bounds # Unanswered
        /\ asked' = [of |-> "slice", start |-> start, end |-> end, step |-> step,
                     rows |-> SliceRows(Len(owner), bounds, step)]
        /\ UNCHANGED owner

(* Every position of each label, and the targets that are not there.       *)
GetIndexerNonUnique ==
  \E target \in UNION {[1 .. k -> Targets \cup {Gap}] : k \in 0 .. 2} :
    /\ asked' = [of |-> "indexer", target |-> target,
                 found |-> FlattenSeq([t \in DOMAIN target |->
                   LET places == RowsWith(owner, target[t])
                   IN  IF places = <<>> THEN <<Nowhere>> ELSE places]),
                 absent |-> AtPlaces([t \in DOMAIN target |-> t - 1],
                                     {t \in DOMAIN target : target[t] \notin ToSet(owner)})]
    /\ UNCHANGED owner

(* The label itself when it is there, or the one before it in the index.   *)
AsofLabel(labels, label) ==
  LET rising == Rises(labels)
      at == Cardinality({i \in DOMAIN labels : IF rising THEN labels[i] < label ELSE labels[i] > label})
  IN  IF ~Ordered2(labels) THEN Nowhere
      ELSE IF label \in ToSet(labels) THEN label
      ELSE IF ~Distinct(labels) THEN Nowhere
      ELSE IF at = 0 THEN Missing ELSE labels[at]

Asof ==
  \E label \in Targets :
    /\ AsofLabel(owner, label) # Nowhere
    /\ asked' = [of |-> "asof", label |-> label, found |-> AsofLabel(owner, label)]
    /\ UNCHANGED owner

(* Slip: the place among the kept rows is answered for the row.            *)
AsofLocsAmongKept(labels, keep, label) ==
  Max({0, Cardinality({i \in keep : labels[i] <= label})}) - 1

(* The last of the rows a mask keeps at or before each label.  Labels in   *)
(* order are assumed, and a label before the first one kept has no row.    *)
AsofLocs(labels, keep, label) ==
  LET places == Sorted(keep, <)
      reached == Cardinality({i \in keep : labels[i] <= label})
      at == IF reached > 0 THEN reached - 1 ELSE 0
      first == IF keep = {} THEN labels[1] ELSE labels[places[1]]
  IN  IF at = 0 /\ label < first THEN Nowhere ELSE places[at + 1] - 1

AsofMasked ==
  \E label \in Targets, keep \in SUBSET DOMAIN owner :
    /\ Rises(owner) /\ keep # {}
    /\ asked' = [of |-> "masked", label |-> label, keep |-> keep,
                 found |-> AsofLocs(owner, keep, label)]
    /\ UNCHANGED owner

Reindexed ==
  \E target \in UNION {[1 .. k -> Targets \cup {Gap}] : k \in 1 .. 3},
     method \in Methods, limit \in {Unlimited, 1}, tolerance \in {Unlimited, 0, 1} :
    /\ method = "exact" => limit = Unlimited /\ tolerance = Unlimited
    /\ Positions(owner, target, method, limit, tolerance) # Unanswered
    /\ asked' = [of |-> "reindex", target |-> target, method |-> method, limit |-> limit,
                 tolerance |-> tolerance, places |-> Positions(owner, target, method, limit, tolerance)]
    /\ UNCHANGED owner

LookupInit == owner \in Owners /\ asked = NotAsked

LookupNext ==
  asked = NotAsked /\ (Sliced \/ GetIndexerNonUnique \/ Asof \/ AsofMasked \/ Reindexed)

LookupSpec == LookupInit /\ [][LookupNext]_lookupVars
-----------------------------------------------------------------------------
(* Whether one label comes at or after another along an ordered index.     *)
Reaches(label, other) == IF Rises(owner) THEN label >= other ELSE label <= other

(* A slice by labels reads, from the first to the last it walks past, the  *)
(* rows of an ordered index that lie between the two labels, both of them  *)
(* included, whichever way the index is ordered and the slice is walked.   *)
SlicesReadWhatLiesBetween ==
  asked.of = "slice" /\ Ordered2(owner) =>
    LET from == IF asked.step > 0 THEN asked.start ELSE asked.end
        to == IF asked.step > 0 THEN asked.end ELSE asked.start
        between == {i \in DOMAIN owner : /\ from = Open \/ Reaches(owner[i], from)
                                         /\ to = Open \/ Reaches(to, owner[i])}
        walked == IF asked.step > 0 THEN Sorted(between, <) ELSE Sorted(between, >)
        stride == IF asked.step > 0 THEN asked.step ELSE -asked.step
    IN  asked.rows = [k \in 1 .. (Len(walked) + stride - 1) \div stride |-> walked[(k - 1) * stride + 1] - 1]

(* The places a label may be filled from on the side its method names.     *)
Beside(label) ==
  {i \in DOMAIN owner :
     CASE asked.method = "pad" -> Reaches(label, owner[i])
       [] asked.method = "backfill" -> Reaches(owner[i], label)
       [] asked.method = "nearest" -> TRUE
       [] OTHER -> owner[i] = label}

FilledFrom(t) == asked.places[t] # Nowhere /\ owner[asked.places[t] + 1] # asked.target[t]

(* A reindex reads a label that is there from its own row, and another     *)
(* from no farther a row than its method has; what it leaves empty was out *)
(* of tolerance or past the limit, and a limit is kept; the nearest of two *)
(* neighbours may be used up by a limit, and then the other is read.       *)
ReindexReadsTheNearest ==
  asked.of = "reindex" =>
    \A t \in DOMAIN asked.target :
      LET label == asked.target[t]
          place == asked.places[t]
          near(i) == Distance(owner[i], label)
      IN  IF label = Gap THEN place # Nowhere => owner[place + 1] = Gap
          ELSE IF label \in ToSet(owner) THEN owner[place + 1] = label
          ELSE IF place # Nowhere
          THEN /\ place + 1 \in Beside(label)
               /\ asked.method # "nearest" \/ asked.limit = Unlimited =>
                    \A i \in Beside(label) :
                      \/ near(place + 1) < near(i)
                      \/ near(place + 1) = near(i) /\ owner[i] <= owner[place + 1]
               /\ asked.tolerance # Unlimited => near(place + 1) <= asked.tolerance
               /\ asked.limit # Unlimited /\ asked.method # "nearest" =>
                    Cardinality({u \in DOMAIN asked.target : FilledFrom(u) /\ asked.places[u] = place}) <= asked.limit
          ELSE \/ Beside(label) = {} \/ asked.limit # Unlimited
               \/ asked.tolerance # Unlimited /\ \A i \in Beside(label) :
                    near(i) > asked.tolerance \/ \E j \in Beside(label) : near(j) <= near(i) /\ near(j) > asked.tolerance

(* The ways to look labels up agree: as of a label is what padding reads,  *)
(* and as of it among the rows of a mask the last of them at or before it. *)
LookupsAgree ==
  /\ asked.of = "asof" /\ Distinct(owner) =>
       LET place == Positions(owner, <<asked.label>>, "pad", Unlimited, Unlimited)[1]
       IN  asked.found = IF place = Nowhere THEN Missing ELSE owner[place + 1]
  /\ asked.of = "masked" =>
       LET kept == {i \in asked.keep : owner[i] <= asked.label}
       IN  asked.found = IF kept = {} THEN Nowhere ELSE Max(kept) - 1

(* Every position of some labels are the rows a left join of them lines up. *)
PositionsAreAJoin ==
  asked.of = "indexer" =>
    asked.found = PlacesOf(Joined(asked.target, owner, "left", FALSE, TRUE).theirs, owner)
===============================================================================
