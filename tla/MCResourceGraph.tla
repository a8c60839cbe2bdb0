--------------------------- MODULE MCResourceGraph ---------------------------
(***************************************************************************)
(* Small blueprints: nested and named containers, two databases, defaults, *)
(* scopes, duplicates, requirements by name and by object.                 *)
(***************************************************************************)
EXTENDS ResourceGraph

No == "-"

declare(type, name, database, schema) ==
  [type |-> type, name |-> name, database |-> database, schema |-> schema,
   parent |-> No, requires |-> <<>>, uses |-> {}]

named_(type, name, database, schema) ==
  [type |-> type, name |-> name, database |-> database, schema |-> schema]

\* One database with a schema in it as YAML nests them; the rest name them in part.
Nested ==
  [a |-> declare("DATABASE", "A", No, No),
   s |-> [declare("SCHEMA", "S", No, No) EXCEPT !.parent = "a"],
   t |-> declare("TABLE", "T", "A", "S"),
   u |-> [declare("TABLE", "U", No, "S") EXCEPT
            !.requires = <<named_("TABLE", "T", "A", "S"), named_("TABLE", "X", No, No)>>],
   v |-> [declare("VIEW", "V", No, No) EXCEPT !.uses = {"t"}]]

\* Two databases with schemas and tables of the same names.
TwoDatabases ==
  [a |-> declare("DATABASE", "A", No, No),
   s |-> declare("SCHEMA", "S", "B", No),
   t |-> declare("TABLE", "T", "A", "S"),
   u |-> [declare("TABLE", "T", "B", "S") EXCEPT !.requires = <<named_("TABLE", "T", "A", "S")>>],
   w |-> declare("TABLE", "T", "B", No)]

\* Nothing but names, or not even those; two of them name the same table.
Defaults ==
  [s |-> declare("SCHEMA", "S", No, No),
   t |-> declare("TABLE", "T", No, "S"),
   u |-> declare("TABLE", "T", No, "S"),
   v |-> [declare("VIEW", "V", No, No) EXCEPT !.uses = {"w"}],
   w |-> declare("TABLE", "W", No, No)]

\* Objects as containers, the same database twice, a role.
Objects ==
  [a |-> declare("DATABASE", "A", No, No),
   b |-> declare("DATABASE", "A", No, No),
   s |-> declare("SCHEMA", "S", "A", No),
   t |-> [declare("TABLE", "T", No, No) EXCEPT !.parent = "s"],
   u |-> [declare("TABLE", "U", No, No) EXCEPT !.parent = "a"],
   r |-> declare("ROLE", "R", No, No)]

\* A schema twice.
Twice ==
  [s |-> declare("SCHEMA", "S", "A", No),
   x |-> declare("SCHEMA", "S", No, No),
   t |-> declare("TABLE", "T", No, No)]

MCBlueprints == {Nested, TwoDatabases, Defaults, Objects, Twice}

in(scope, database, schema, session) ==
  [scope |-> scope, database |-> database, schema |-> schema, session |-> session]

MCSettings == {in("ACCOUNT", No, No, No), in("ACCOUNT", No, No, "A"),
               in("DATABASE", "A", No, No), in("SCHEMA", "A", "S", No),
               in("SCHEMA", No, "S", "A")}
=============================================================================
