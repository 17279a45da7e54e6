------------------------------ MODULE Options -------------------------------
(***************************************************************************)
(* _config.py: the options and the contexts that set them for a while.  A  *)
(* pattern is the set of options it is found in, the one of its own when   *)
(* it is a full name.  Contexts are left in the order they nest.           *)
(***************************************************************************)
EXTENDS Integers, Sequences, SequencesExt, FiniteSetsExt

CONSTANTS Legal,        \* the values each option's check lets through
          Default,      \* the value each starts with
          Patterns,     \* the patterns it tries
          Short,        \* those of fewer than four characters
          Calls,        \* the pairs of pattern and value it passes
          MaxDepth      \* bound: how deep contexts nest

Registered == DOMAIN Legal

VARIABLES values,       \* _VALUES
          contexts,     \* the contexts open, the innermost last: what each undoes
          found         \* ghost: what each of them found, and what it names

vars == <<values, contexts, found>>

Init == values = Default /\ contexts = <<>> /\ found = <<>>

IsOne(pat) == \E key \in Registered : pat = {key}
one_key(pat) == CHOOSE key \in Registered : pat = {key}

Sets(pair) == IsOne(pair[1]) /\ pair[2] \in Legal[one_key(pair[1])]

\* The pairs that set an option: those before the first that raises.
Setting(pairs, key) ==
  {i \in DOMAIN pairs : /\ \A j \in 1 .. i : Sets(pairs[j])
                        /\ one_key(pairs[i][1]) = key}

\* They are set one after another.
Set(held, pairs) ==
  [key \in Registered |-> IF Setting(pairs, key) = {} THEN held[key]
                          ELSE pairs[Max(Setting(pairs, key))][2]]

set_option(pairs) == values' = Set(values, pairs) /\ UNCHANGED <<contexts, found>>

reset_option(pat) ==
  /\ pat # {} /\ (pat \in Short => IsOne(pat))
  /\ values' = [key \in Registered |-> IF key \in pat THEN Default[key]
                                       ELSE values[key]]
  /\ UNCHANGED <<contexts, found>>

\* Slip: each value is looked up as its turn comes to be set.
UndoOfInTurn(pairs) ==
  [i \in DOMAIN pairs |->
     <<pairs[i][1], Set(values, SubSeq(pairs, 1, i - 1))[one_key(pairs[i][1])]>>]

\* Every value is looked up before any is set: nothing is set if one raises.
UndoOf(pairs) ==
  [i \in DOMAIN pairs |-> <<pairs[i][1], values[one_key(pairs[i][1])]>>]

Known(pairs) == \A i \in DOMAIN pairs : IsOne(pairs[i][1])
Named(pairs) == {one_key(pairs[i][1]) : i \in DOMAIN pairs}

Enter(pairs) == /\ Len(contexts) < MaxDepth
                /\ Known(pairs) /\ \A i \in DOMAIN pairs : Sets(pairs[i])
                /\ values' = Set(values, pairs)
                /\ contexts' = Append(contexts, UndoOf(pairs))
                /\ found' = Append(found, <<values, Named(pairs)>>)

\* A value fails its check: what was set before it is undone at once.
EnterFails(pairs) == /\ Known(pairs) /\ \E i \in DOMAIN pairs : ~Sets(pairs[i])
                     /\ values' = Set(Set(values, pairs), UndoOf(pairs))
                     /\ UNCHANGED <<contexts, found>>

Exit == /\ contexts # <<>>
        /\ values' = Set(values, Last(contexts))
        /\ contexts' = Front(contexts)
        /\ found' = Front(found)

Next == \/ \E pairs \in Calls : \/ set_option(pairs)
                                \/ Enter(pairs) \/ EnterFails(pairs)
        \/ \E pat \in Patterns : reset_option(pat)
        \/ Exit

Spec == Init /\ [][Next]_vars
-----------------------------------------------------------------------------
(***************************************************************************)
(* "Set options for the length of a with block and put them back after     *)
(* it": leaving a context gives each option it names, under however many   *)
(* patterns, the value it had on entry whatever was set and reset inside,  *)
(* and leaves the others as they are; an entry that fails changes nothing. *)
(***************************************************************************)
ContextsPutBack ==
  [][/\ Exit => values' = [key \in Registered |->
                             IF key \in Last(found)[2] THEN Last(found)[1][key]
                             ELSE values[key]]
     /\ \A pairs \in Calls : EnterFails(pairs) => values' = values]_vars
=============================================================================
