---------------------------- MODULE ConfigLoader ----------------------------
(***************************************************************************)
(* LoadGameConfig reads units.conf line by line into the settings and the  *)
(* units that the engine is driven by.                                     *)
(*                                                                         *)
(* A line is a record: does it start with "{", does it contain "}", and    *)
(* its items.  An item is a piece of the value of a key; it is named when  *)
(* the line writes "key=" before it, and is not when it continues, on a    *)
(* line of its own, a list begun on a line before.  A scalar is a          *)
(* set of one piece; a key without a value holds the empty set.            *)
(***************************************************************************)
EXTENDS Naturals, Sequences

CONSTANTS
  UnitKey,     \* the cases of parseUnitField, "id" among them
  SettingKey,  \* the cases of LoadGameConfig
  Piece,       \* the pieces of values
  File         \* units.conf

Key == UnitKey \union SettingKey

VARIABLES
  next,         \* the line that is scanned next
  settings,     \* cfg, without its units
  units,        \* cfg.Units, as a set of units
  inUnitBlock,
  currentUnit

vars == <<next, settings, units, inUnitBlock, currentUnit>>

line == File[next]

Named(items, k) == \E i \in items : i.key = k /\ i.named

Value(items, k) == {i.piece : i \in {i \in items : i.key = k}}

\* The keys of ks that the items name take the values written for them.
Parsed(old, items, ks) ==
  [k \in ks |-> IF Named(items, k) THEN Value(items, k) ELSE old[k]]

NewUnit == [k \in UnitKey |-> {}]

Init ==
  /\ next = 1
  /\ settings = [k \in SettingKey |-> {}]
  /\ units = {}
  /\ inUnitBlock = FALSE
  /\ currentUnit = NewUnit

\* What the end of a block does: the unit so far is stored, unless it has no id.
Stored(unit) ==
  IF unit["id"] = {} THEN units
  ELSE {u \in units : u["id"] # unit["id"]} \union {unit}

\* A line outside of all blocks, or the one that ends a block.
OutsideBlock ==
  /\ inUnitBlock' = FALSE
  /\ currentUnit' = NewUnit

ReadUnitLine ==
  LET inside == inUnitBlock \/ line.opens
      unit   == IF line.opens THEN NewUnit ELSE currentUnit
  IN  \/ /\ inside /\ line.closes
         /\ units' = Stored(unit)
         /\ OutsideBlock
      \/ /\ inside /\ ~line.closes
         /\ inUnitBlock' = TRUE
         /\ currentUnit' = Parsed(unit, line.items, UnitKey)
         /\ UNCHANGED units
      \/ /\ ~inside
         /\ OutsideBlock
         /\ UNCHANGED units

ReadLine ==
  /\ next \in DOMAIN File
  /\ settings' = Parsed(settings, line.items, SettingKey)
  /\ ReadUnitLine
  /\ next' = next + 1

Next == ReadLine

Spec == Init /\ [][Next]_vars
-----------------------------------------------------------------------------
Loaded == next = Len(File) + 1

\* The block a line belongs to starts with the last line up to it that opens one.
BlockOf(n) == CHOOSE m \in 1..n : /\ File[m].opens
                                  /\ \A l \in (m+1)..n : ~File[l].opens

Written(first) ==
  LET items == UNION {File[n].items :
                        n \in {n \in DOMAIN File : n >= first /\ BlockOf(n) = first}}
  IN  [k \in UnitKey |-> Value(items, k)]

(***************************************************************************)
(* The loaded units are the written ones, every key with its whole value.  *)
(* The code ends the block before it parses the line with the brace, and   *)
(* reads a list only as far as its first line goes: what else is written   *)
(* there is lost.                                                          *)
(***************************************************************************)
UnitsAreLoaded ==
  Loaded => units = {Written(n) : n \in {n \in DOMAIN File : File[n].opens}}
=============================================================================
