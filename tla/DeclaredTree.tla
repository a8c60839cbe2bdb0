---------------------------- MODULE DeclaredTree ----------------------------
(***************************************************************************)
(* What a blueprint declares, and where: every resource that is staged,    *)
(* with what hangs together with it, in the database and schema it names,  *)
(* inherits or is given by default.  One step turns the staged resources   *)
(* into that tree, or refuses them for a reason.  A place is a type with a *)
(* database, a schema and a name.                                          *)
(***************************************************************************)
EXTENDS Naturals, FiniteSets, Sequences

CONSTANT NoName

AccountScoped == {"DATABASE", "ROLE"}

VARIABLES
  blueprint,      \* id -> the declaration of a resource
  settings,       \* scope, database and schema of the blueprint, database of the session
  staged,         \* the ids in the order they were added
  tree,           \* place -> the id of the resource that is there
  outcome         \* "staging", "built" or "refused"

\* A resource is staged together with all that shares its topmost container object.
Eldest(d) ==
  LET up[e \in DOMAIN blueprint] ==
        IF blueprint[e].parent = NoName THEN e ELSE up[blueprint[e].parent]
  IN  up[d]

Together == {d \in DOMAIN blueprint : \E i \in DOMAIN staged : Eldest(d) = Eldest(staged[i])}

Named(T) == {d \in Together : blueprint[d].type \in T}

DatabaseNames ==
  {blueprint[d].name : d \in Named({"DATABASE"})}
    \cup ({blueprint[d].database : d \in Together} \ {NoName})

AccountNames == {<<"DATABASE", n>> : n \in DatabaseNames}
                  \cup {<<"ROLE", blueprint[d].name>> : d \in Named({"ROLE"})}

isScoped == settings.scope # "ACCOUNT" /\ settings.database # NoName

Databases ==
  IF isScoped /\ AccountNames = {} THEN {settings.database}
  ELSE IF DatabaseNames = {} THEN ({settings.session} \ {NoName})
  ELSE DatabaseNames

\* Neither a database nor a schema is said for d.
isDangling(d) ==
  /\ blueprint[d].type \notin AccountScoped
  /\ NoName = blueprint[d].parent /\ NoName = blueprint[d].database

hasNoSchema(d) == isDangling(d) /\ blueprint[d].schema = NoName /\ blueprint[d].type # "SCHEMA"

DatabaseOf(d) ==
  LET e == blueprint[Eldest(d)]
  IN  IF e.type = "DATABASE" THEN e.name
      ELSE IF e.type = "ROLE" THEN NoName
      ELSE IF e.database # NoName THEN e.database
      ELSE CHOOSE n \in Databases : TRUE

SchemaOf(d) ==
  LET c == blueprint[d]
  IN  IF c.type \in AccountScoped \cup {"SCHEMA"} THEN NoName
      ELSE IF c.parent # NoName /\ blueprint[c.parent].type = "SCHEMA"
        THEN blueprint[c.parent].name
      ELSE IF c.schema # NoName THEN c.schema
      ELSE IF hasNoSchema(d) /\ settings.scope = "SCHEMA" /\ settings.schema # NoName
        THEN settings.schema
      ELSE "PUBLIC"

Place(d) == [type |-> blueprint[d].type, name |-> blueprint[d].name,
             database |-> IF blueprint[d].type \in AccountScoped THEN NoName ELSE DatabaseOf(d),
             schema |-> SchemaOf(d)]

\* Objects that are not staged and hang on nothing, but are required by what is
\* staged: they go where the one that requires them is.
Requiring(e) == {d \in Together : e \in blueprint[d].uses /\ SchemaOf(d) # NoName}

Adopted == {e \in DOMAIN blueprint \ Together : hasNoSchema(e) /\ Requiring(e) # {}}

PlaceBeside(d, e) == [Place(d) EXCEPT !.type = blueprint[e].type, !.name = blueprint[e].name]

isOrphaned == Cardinality(Databases) # 1 /\ \E d \in Together : isDangling(Eldest(d))

isDuplicated == \E d, e \in Named(AccountScoped \cup {"SCHEMA"}) : d # e /\ Place(d) = Place(e)

isOutOfScope == isScoped /\ AccountNames \notin {{}, {<<"DATABASE", settings.database>>}}

\* A schema scope whose schema nothing mentions, in a database something mentions.
isWithoutSchema ==
  /\ settings.scope = "SCHEMA" /\ settings.schema \notin {NoName, "PUBLIC"}
  /\ AccountNames # {} \/ ~ isScoped
  /\ \E d \in Together : hasNoSchema(d)
  /\ \A d \in Together : /\ blueprint[d].schema # settings.schema
                         /\ blueprint[d].type = "SCHEMA" => blueprint[d].name # settings.schema

isRefusable == isOrphaned \/ isOutOfScope \/ isDuplicated \/ isWithoutSchema

Init ==
  /\ staged = <<>>
  /\ tree = <<>>
  /\ outcome = "staging"

Stage ==
  /\ outcome = "staging"
  /\ \E d \in DOMAIN blueprint : staged' = Append(staged, d)
  /\ UNCHANGED <<tree, outcome>>

Build ==
  /\ outcome = "staging" /\ ~ isRefusable
  /\ outcome' = "built"
  /\ \E by \in [Adopted -> Together] :
       LET placeOf(d) == IF d \in Adopted THEN PlaceBeside(by[d], d) ELSE Place(d)
       IN  /\ \A e \in Adopted : by[e] \in Requiring(e)
           /\ DOMAIN tree' = {placeOf(d) : d \in Together \cup Adopted}
           /\ \A p \in DOMAIN tree' : tree'[p] \in Together \cup Adopted /\ placeOf(tree'[p]) = p
  /\ UNCHANGED staged

Refuse ==
  /\ outcome = "staging" /\ isRefusable
  /\ outcome' = "refused"
  /\ UNCHANGED <<staged, tree>>

Next == (Stage \/ Build \/ Refuse) /\ UNCHANGED <<blueprint, settings>>

vars == <<blueprint, settings, staged, tree, outcome>>

Spec == Init /\ [][Next]_vars
=============================================================================
