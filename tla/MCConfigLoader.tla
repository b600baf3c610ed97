--------------------------- MODULE MCConfigLoader ---------------------------
(***************************************************************************)
(* A units.conf of three units in the layout of the repository's           *)
(* (config/units.conf): the first line of a block has the id, the last one *)
(* fields and the brace, and Saruman's list of paths runs over three lines.*)
(***************************************************************************)
EXTENDS ConfigLoader

Field(k, p) == [key |-> k, named |-> TRUE, piece |-> p]
Continued(k, p) == [key |-> k, named |-> FALSE, piece |-> p]

MCLine(opens, closes, items) == [opens |-> opens, closes |-> closes, items |-> items]
First(id) == MCLine(TRUE, FALSE, {Field("id", id)})
Middle(items) == MCLine(FALSE, FALSE, items)
Last(items) == MCLine(FALSE, TRUE, items)

MCUnitKey == {"id", "strength", "maiaAbilityPaths", "canFortify", "cooldown"}
MCSettingKey == {"maxTurns", "hiddenUntilTurn"}
MCPiece == {"gondorArmy", "gandalf", "saruman", "two", "three", "four", "five", "forty",
            "true", "fangorn", "fords", "edoras"}

MCFile == <<
  Middle({Field("hiddenUntilTurn", "three")}),
  Middle({Field("maxTurns", "forty")}),
  First("gondorArmy"),
  Middle({Field("strength", "five")}),
  Last({Field("canFortify", "true")}),
  First("gandalf"),
  Middle({Field("strength", "four")}),
  Last({Field("cooldown", "three")}),
  First("saruman"),
  Middle({Field("strength", "four")}),
  Middle({Field("maiaAbilityPaths", "fangorn")}),
  Middle({Continued("maiaAbilityPaths", "fords")}),
  Middle({Continued("maiaAbilityPaths", "edoras")}),
  Last({Field("cooldown", "two")}) >>
=============================================================================
