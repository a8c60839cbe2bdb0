-------------------------------- MODULE Names --------------------------------
(***************************************************************************)
(* resource_name.py and the keys of identifiers.py: names as the blueprint *)
(* writes them, as the account spells them, and as sets and dictionaries   *)
(* of URNs tell them apart.                                                *)
(*                                                                         *)
(* A Text is the spelling of a name without quotes; a PyString is what the *)
(* code is handed, a text that may stand in double quotes.                 *)
(***************************************************************************)
CONSTANTS
  Text,
  Upper,         \* str.upper
  Identifiers,   \* the texts FullyQualifiedIdentifier parses
  Plain          \* the texts ^[A-Z_][A-Z0-9_]*$ matches

ASSUME NamesAssumption ==
  /\ Upper \in [Text -> Text]
  /\ \A t \in Text : Upper[Upper[t]] = Upper[t]
  /\ Plain \subseteq Identifiers
  /\ Identifiers \subseteq Text
  /\ \A t \in Plain : Upper[t] = t

PyString == [text : Text, quotes : BOOLEAN]
Bare(t) == [text |-> t, quotes |-> FALSE]
InQuotes(t) == [text |-> t, quotes |-> TRUE]

ResourceNames == [name : Text, quoted : BOOLEAN]

_name_should_be_quoted(t) == t \notin Identifiers

\* ResourceName.__init__
ResourceName(s) ==
  [name |-> s.text, quoted |-> s.quotes \/ _name_should_be_quoted(s.text)]

\* ResourceName.__str__, which __hash__ hashes too.
Str(n) == IF n.quoted THEN InQuotes(n.name) ELSE Bare(Upper[n.name])

\* ResourceName.__eq__
Eq(m, n) ==
  \/ m.quoted /\ n.quoted /\ m.name = n.name
  \/ ~ m.quoted /\ ~ n.quoted /\ Upper[m.name] = Upper[n.name]
  \/ m.quoted /\ ~ n.quoted /\ m.name = Upper[n.name]
  \/ ~ m.quoted /\ n.quoted /\ Upper[m.name] = n.name

resource_name_from_snowflake_metadata(t) ==
  ResourceName(IF t \in Plain THEN Bare(t) ELSE InQuotes(t))

\* What a name means in a statement: quoted as it is spelled, else in capitals.
Denotes(n) == IF n.quoted THEN n.name ELSE Upper[n.name]

\* The name a declaration writes is the one a listing finds under the same key.
Canonical(s) ==
  Str(ResourceName(s)) = Str(resource_name_from_snowflake_metadata(Denotes(ResourceName(s))))
=============================================================================
