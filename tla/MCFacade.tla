------------------------------ MODULE MCFacade ------------------------------
(***************************************************************************)
(* The Python facade on small instances, one part of it in each behaviour: *)
(* the one that part names takes its steps and the others rest.  Of what   *)
(* keeps state between calls: a table written over a connection, frames of *)
(* no row, one and three, written whole, in twos, in chunks of none and    *)
(* backwards; two options with patterns for either, both and neither;      *)
(* means of up to four rows; a store of two keys, one below the other.  Of *)
(* the row labels: ranges, joins, merges and lookups.                      *)
(***************************************************************************)
EXTENDS SqlTables, RangeIndex, Merges, Lookups

CONSTANTS Parts,        \* "sql", "options", "mean", "store", "range", "join", ...
          Legal, Default, Patterns, Short, OptionCalls, MaxDepth,
          Numbers, MaxRows, Mins,
          StoreKeys, Selector, Other,
          StoreFrames, StoreDroppable, Wheres, Spans, Sizes, StoreCalls

VARIABLES part,
          values, contexts, found,                        \* of Options
          window, old_weight, last, fed, again, shown,    \* of OnlineMean
          file, mode, is_open, told, paired, chunks, writes     \* of HdfStore

option_vars == <<values, contexts, found>>
mean_vars == <<window, old_weight, last, fed, again, shown>>
store_vars == <<file, mode, is_open, told, paired, chunks, writes>>
label_vars == <<rangeIndexVars, joinVars, mergeVars, lookupVars>>

MCChunks == {<<>>, <<-1>>, <<0>>, <<2>>}

Mean == INSTANCE OnlineMean

ASSUME MeanAssumption == Mins \subseteq Nat
-----------------------------------------------------------------------------
\* Both options are found by the pattern of both, and none by the empty one.
MaxRowsOption == "max_rows"
Width == "width"
MCPatterns == {{MaxRowsOption}, {Width}, {MaxRowsOption, Width}, {}}
MCOptionCalls ==
  LET pair(pat, v) == <<pat, v>>
      rows(v) == pair({MaxRowsOption}, v)
      width(v) == pair({Width}, v)
  IN  {<<rows(1)>>, <<width(1)>>, <<width(0), rows(-1)>>, <<rows(1), rows(-1)>>,
       <<rows(1), width(-1)>>, <<width(1), pair({MaxRowsOption, Width}, 0)>>}

MCLegal == [o \in {MaxRowsOption, Width} |-> IF o = Width THEN {0, 1} ELSE {0, 1, -1}]
MCDefault == [o \in {MaxRowsOption, Width} |-> 0]
MCShort == {{MaxRowsOption, Width}}

Opt == INSTANCE Options WITH Calls <- OptionCalls

\* Every option has a value to start with, which its check lets through, and
\* pairs come one after another.
ASSUME OptionsAssumption ==
  /\ DOMAIN Default = DOMAIN Legal
  /\ Default = [key \in DOMAIN Legal |-> Default[key]]
  /\ \A key \in DOMAIN Legal : Default[key] \in Legal[key]
  /\ \A pairs \in OptionCalls : Len(pairs) \in Nat /\ DOMAIN pairs = 1 .. Len(pairs)
-----------------------------------------------------------------------------
(* A key and one below it.  Two categoricals whose categories are in other *)
(* orders and one without any, text as wide as a later one and narrower,   *)
(* floats with a row that is all missing, no rows, and what is no frame.   *)
Frame(c, cats, x, rows) == [c |-> c, cats |-> cats, x |-> x, rows |-> rows]
Key == <<"t">>
KeyBelow == <<"t", "u">>
MCStoreKeys == {Key, KeyBelow}
Ascending == Frame("cat", <<"p", "q">>, TRUE, <<<<"q", "1">>, <<"NA", "1">>>>)
Descending == Frame("cat", <<"q", "p">>, TRUE, <<<<"p", "1">>>>)
Bare == Frame("cat", <<>>, TRUE, <<<<"NA", "1">>>>)
Narrow == Frame("text", <<>>, TRUE, <<<<"p", "1">>, <<"q", "1">>>>)
Wide == Frame("text", <<>>, TRUE, <<<<"NA", "1">>>>)
Floats == Frame("none", <<>>, TRUE, <<<<"NA", "1">>, <<"NA", "NA">>, <<"NA", "1">>>>)
Labelled == Frame("text", <<>>, TRUE, <<<<"p", "NA">>>>)
NoRows == Frame("cat", <<"p", "q">>, TRUE, <<>>)
NoFrame == Frame("list", <<>>, FALSE, <<<<"NA", "NA">>>>)

MCStoreFrames == {Ascending, Descending, Bare, Narrow, Wide, Floats, NoRows, NoFrame}
MCFloats == {Floats}
MCLabelled == {Labelled}
MCSpans == {<<0, 1>>, <<1, 4>>}

Store == INSTANCE HdfStore WITH
  Keys <- StoreKeys,
  Frames <- StoreFrames, Droppable <- StoreDroppable, MaxCalls <- StoreCalls,
  calls <- writes

IsSequence(s) == Len(s) \in Nat /\ s = [i \in 1 .. Len(s) |-> s[i]]

\* A frame is split over two keys, no part of a key has the name that metadata
\* is kept under, and a categorical has every value among its categories.
ASSUME StoreAssumption ==
  /\ {Selector, Other} \subseteq StoreKeys /\ Selector # Other
  /\ \A key \in StoreKeys : /\ IsSequence(key) /\ key # <<>>
                            /\ \A i \in DOMAIN key : key[i] # "meta"
  /\ \A frame \in StoreFrames :
       /\ frame = Frame(frame.c, frame.cats, frame.x, frame.rows)
       /\ IsSequence(frame.rows) /\ IsSequence(frame.cats)
       /\ frame.c = "cat" => \A i \in DOMAIN frame.rows :
            \/ frame.rows[i][1] = Store!NA
            \/ \E j \in DOMAIN frame.cats : frame.cats[j] = frame.rows[i][1]
-----------------------------------------------------------------------------
UpTo(n, S) == UNION {[1 .. k -> S] : k \in 0 .. n}

(* Rising and falling, of one label and of none, with steps that divide    *)
(* each other and steps that do not.                                       *)
MCRanges ==
  {Triple(0, 3, 1), Triple(5, -2, -3), Triple(1, 8, 2), Triple(2, 2, 1), Triple(4, 0, -2)}
MCOthers ==
  {Ranged(Triple(-1, 6, 3)), Ranged(Triple(6, -3, -2)), Ranged(Triple(0, 4, 1)),
   Plain(<<3, 1, 3>>), Plain(<<>>)}

(* Every two indexes of up to three labels, in any order, with repeats and *)
(* with gaps.                                                              *)
MCSides == [left : UpTo(3, {1, 2, Gap}), right : UpTo(3, {1, 2, 3, Gap})]

(* Frames of up to two rows with two key columns, and frames in key order  *)
(* for the merges that need one.                                           *)
TwoKeys == {1, 2, Gap} \X {1, Gap}
InKeyOrder(n, keys, groups) == {s \in UpTo(n, keys \X groups) : Rises(Column(s, 1))}
MCFrames ==
  [left : UpTo(2, TwoKeys), right : UpTo(2, TwoKeys)] \cup
  [left : InKeyOrder(2, {2, 4}, {1}), right : InKeyOrder(3, {1, 2, 4}, {1, 2})]
MCTolerances == {Unlimited, 1}

MCOwners == UpTo(3, {1, 3, 5, Gap}) \cup {<<1, 4, 5, 9>>, <<9, 5, 4, 1>>}
MCTargets == 0 .. 6
-----------------------------------------------------------------------------
RangeIndexRests == rangeIndex = Plain(<<>>) /\ plain = <<>> /\ steps = 0
JoinRests == sides = [left |-> <<>>, right |-> <<>>] /\ joined = NotJoined
MergeRests == frames = [left |-> <<>>, right |-> <<>>] /\ merged = NotMerged
LookupRests == owner = <<>> /\ asked = NotAsked

FacadeInit ==
  /\ part \in Parts
  /\ Init /\ Opt!Init /\ Mean!Init /\ Store!Init
  /\ part # "mean" => window = [adjust |-> TRUE, ignore_na |-> TRUE, least |-> 1]
  /\ IF part = "range" THEN RangeIndexInit ELSE RangeIndexRests
  /\ IF part = "join" THEN JoinInit ELSE JoinRests
  /\ IF part = "merge" THEN MergeInit ELSE MergeRests
  /\ IF part = "lookup" THEN LookupInit ELSE LookupRests

StateNext ==
  \/ part = "sql" /\ Next /\ UNCHANGED <<option_vars, mean_vars, store_vars>>
  \/ part = "options" /\ Opt!Next /\ UNCHANGED <<vars, mean_vars, store_vars>>
  \/ part = "mean" /\ Mean!Next /\ UNCHANGED <<vars, option_vars, store_vars>>
  \/ part = "store" /\ Store!Next /\ UNCHANGED <<vars, option_vars, mean_vars>>

LabelNext ==
  \/ part = "range" /\ RangeIndexNext /\ UNCHANGED <<joinVars, mergeVars, lookupVars>>
  \/ part = "join" /\ JoinNext /\ UNCHANGED <<rangeIndexVars, mergeVars, lookupVars>>
  \/ part = "merge" /\ MergeNext /\ UNCHANGED <<rangeIndexVars, joinVars, lookupVars>>
  \/ part = "lookup" /\ LookupNext /\ UNCHANGED <<rangeIndexVars, joinVars, mergeVars>>

FacadeNext ==
  /\ UNCHANGED part
  /\ \/ StateNext /\ UNCHANGED label_vars
     \/ LabelNext /\ UNCHANGED <<vars, option_vars, mean_vars, store_vars>>

FacadeSpec ==
  FacadeInit /\
  [][FacadeNext]_<<part, vars, option_vars, mean_vars, store_vars, label_vars>>
-----------------------------------------------------------------------------
(***************************************************************************)
(* Leaving a context gives the options it names their values on entry.     *)
(***************************************************************************)
ContextsPutBack == Opt!ContextsPutBack

(***************************************************************************)
(* A mean fed in calls shows what one call over all of the rows shows.     *)
(***************************************************************************)
CarriesOn == Mean!CarriesOn
CutsAgree == Mean!CutsAgree

(***************************************************************************)
(* A key of a store reads as the rows given to it, whatever was refused.   *)
(***************************************************************************)
StoreReadsAsTold == Store!StoreReadsAsTold

(***************************************************************************)
(* The chunks of a selection are the selection, whatever is appended.      *)
(***************************************************************************)
ChunksAreTheSelection == Store!ChunksAreTheSelection

(***************************************************************************)
(* A copy of a store reads as the store does.                              *)
(***************************************************************************)
CopiesReadTheSame == Store!CopiesReadTheSame

(***************************************************************************)
(* The two tables of append_to_multiple hold halves of the same rows.      *)
(***************************************************************************)
HalvesMatch == Store!HalvesMatch

(***************************************************************************)
(* A merge pairs the rows whose keys are equal, a missing key with a       *)
(* missing one; and over an order it takes, for each row, the rows nearest *)
(* to its key on the side asked for: an asof merge within its reach, and a *)
(* filled merge of two frames in order the last at or before it.           *)
(***************************************************************************)
MergesReadTheirRows ==
  MergesPairTheirRows /\ AsofReadsTheNearest /\ OrderedReadsAsOf

(***************************************************************************)
(* A join lines up the rows whose labels are equal, and every position of  *)
(* a label in an index are the rows a left join lines it up with.          *)
(***************************************************************************)
JoinsLineUp == JoinsPairTheirRows /\ PositionsAreAJoin

(***************************************************************************)
(* A slice by labels reads the rows between its bounds, and the ways to    *)
(* look labels up read the rows that padding reads.                        *)
(***************************************************************************)
LabelsReadTheirRows == SlicesReadWhatLiesBetween /\ LookupsAgree
=============================================================================
