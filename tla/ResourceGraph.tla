--------------------------- MODULE ResourceGraph ---------------------------
(***************************************************************************)
(* Blueprint._build_resource_graph and Manifest.add: from the resources a  *)
(* program or a YAML file constructs, in whatever order they are staged,   *)
(* to one tree under the account and to the manifest.                      *)
(*                                                                         *)
(* Objects live in a heap.  A declared resource d is the object <<d>>; the *)
(* pointers its constructor makes extend that path.  A pointer stands for  *)
(* something known by its name only; a name given twice makes two pointers *)
(* and perhaps a resource besides, which the build has to bring together.  *)
(***************************************************************************)
EXTENDS Naturals, FiniteSets, Sequences, SequencesExt

CONSTANTS
  NoName,
  Blueprints,      \* the sets of declarations to be tried: functions from ids
  Settings         \* scopes of a blueprint and databases of a session

None == <<>>                       \* no object
Account == <<"ACCOUNT">>

AccountScoped == {"DATABASE", "ROLE"}
ScopeOf(type) ==
  CASE type = "ACCOUNT" -> "organization"
    [] type \in AccountScoped -> "account"
    [] type = "SCHEMA" -> "database"
    [] OTHER -> "schema"

VARIABLES
  blueprint,       \* id -> [type, name, database, schema, parent, requires, uses]
  settings,        \* [scope, database, schema, session]
  staged,          \* Blueprint._staged: ids in the order of Blueprint.add
  phase,           \* what the build does next
  heap,            \* object -> [type, name, pointer, container, items, refs]
  scoped,          \* the lists of _split_by_scope
  available_scopes,\* <<database, schema>> -> schema object
  manifest,        \* URN -> the object planned for it
  manifest_refs    \* references between URNs

vars == <<blueprint, settings, staged, phase, heap, scoped, available_scopes,
          manifest, manifest_refs>>

-----------------------------------------------------------------------------
(* Containers and their items. *)

\* Every item the build adds is in no container or in a pointer, so add never
\* refuses one.  An item that leaves a pointer this way stays in its list.
add(h, box, item) ==
  [h EXCEPT ![box].items = Append(@, item),
            ![item].container = box, ![item].refs = @ \cup {box}]

addAll(h, box, items) == FoldLeft(LAMBDA g, o : add(g, box, o), h, items)

\* Resource.__eq__: pointers are equal by name and type.
equals(h, o, p) ==
  \/ o = p
  \/ /\ h[o].pointer /\ h[p].pointer
     /\ h[o].name = h[p].name /\ h[o].type = h[p].type

remove_StillListed(h, box, item) ==
  [h EXCEPT ![item].container = None, ![item].refs = {r \in @ : ~ equals(h, r, box)}]

remove(h, box, item) ==
  [h EXCEPT ![box].items = SelectSeq(@, LAMBDA o : o # item),
            ![item].container = None,
            ![item].refs = {r \in @ : ~ equals(h, r, box)}]

itemsOf(h, box, type) == SelectSeq(h[box].items, LAMBDA o : h[o].type = type)

\* The first item of that name; its absence is the KeyError of find.
Found(h, box, type, name) ==
  SelectSeq(itemsOf(h, box, type), LAMBDA o : h[o].name = name)

newObject(h, o, type, name, pointer) ==
  LET alone == [type |-> type, name |-> name, pointer |-> pointer,
                container |-> None, items |-> <<>>, refs |-> {}]
      public == Append(o, "PUBLIC")
  IN  IF type = "DATABASE"
        THEN add([p \in DOMAIN h \cup {o, public} |->
                    IF p = o THEN alone
                    ELSE IF p = public THEN [alone EXCEPT !.type = "SCHEMA", !.name = "PUBLIC"]
                    ELSE h[p]], o, public)
        ELSE [p \in DOMAIN h \cup {o} |-> IF p = o THEN alone ELSE h[p]]

\* A constructor with the names _register_scope makes pointers of.
construct(h, o, c, pointer) ==
  LET db == Append(o, "database")
      sch == Append(o, "schema")
      self == newObject(h, o, c.type, c.name, pointer)
      withDatabase == IF c.database = NoName THEN self
                      ELSE newObject(self, db, "DATABASE", c.database, TRUE)
      withSchema == IF c.schema = NoName THEN withDatabase
                    ELSE newObject(withDatabase, sch, "SCHEMA", c.schema, TRUE)
      joined == IF NoName \in {c.database, c.schema} THEN withSchema
                ELSE add(withSchema, db, sch)
  IN  IF c.schema # NoName THEN add(joined, sch, o)
      ELSE IF c.database = NoName THEN joined
      ELSE IF c.type = "SCHEMA" THEN add(joined, db, o)
      ELSE add(joined, Append(db, "PUBLIC"), o)

\* requires: pointers by name, as in YAML; uses: the objects of other declarations.
withRequirements(h, d) ==
  LET c == blueprint[d]
      ref(i) == <<d, "requires", i>>
      made == FoldLeft(LAMBDA g, i : construct(g, ref(i), c.requires[i], TRUE), h,
                       [i \in DOMAIN c.requires |-> i])
  IN  [made EXCEPT ![<<d>>].refs = @ \cup {ref(i) : i \in DOMAIN c.requires}
                                     \cup {<<u>> : u \in c.uses}]

\* database.add(schema), or a container object given to the constructor.
withParent(h, d) ==
  LET c == blueprint[d]
      box == IF blueprint[c.parent].type = "DATABASE" /\ c.type # "SCHEMA"
               THEN <<c.parent, "PUBLIC">> ELSE <<c.parent>>
  IN  IF c.parent = NoName THEN h ELSE add(h, box, <<d>>)

Constructed ==
  LET ids == SetToSeq(DOMAIN blueprint)
      alone == FoldLeft(LAMBDA h, d : construct(h, <<d>>, blueprint[d], FALSE), <<>>, ids)
  IN  FoldLeft(withParent, FoldLeft(withRequirements, alone, ids), ids)

Root(h, o) ==
  LET up[p \in DOMAIN h] == IF h[p].container = None THEN p ELSE up[h[p].container]
  IN  up[o]

Walk(h, o) ==
  LET walk[p \in DOMAIN h] ==
        <<p>> \o FlattenSeq([i \in DOMAIN h[p].items |-> walk[h[p].items[i]]])
  IN  walk[o]

-----------------------------------------------------------------------------
Init ==
  /\ blueprint \in Blueprints
  /\ settings \in Settings
  /\ staged = <<>>
  /\ phase = "staging"
  /\ heap = Constructed
  /\ scoped = [account |-> <<>>, database |-> <<>>, schema |-> <<>>]
  /\ available_scopes = <<>>
  /\ manifest = <<>>
  /\ manifest_refs = {}

\* Every step of the build leaves these alone but where it says otherwise.
input == <<blueprint, settings, staged>>
output == <<manifest, manifest_refs>>

Raise(exception) ==
  /\ phase' = exception
  /\ UNCHANGED <<input, heap, scoped, available_scopes, output>>

Stage(d) ==
  /\ phase = "staging"
  /\ d \notin Range(staged)
  /\ staged' = Append(staged, d)
  /\ UNCHANGED <<blueprint, settings, phase, heap, scoped, available_scopes, output>>

SplitByScope ==
  /\ phase = "staging" /\ staged # <<>>
  /\ LET routed == FlattenSeq([i \in DOMAIN staged |-> Walk(heap, Root(heap, <<staged[i]>>))])
         once == FoldLeft(LAMBDA s, o : IF Contains(s, o) THEN s ELSE Append(s, o), <<>>, routed)
         list(scope) == SelectSeq(once, LAMBDA o : ScopeOf(heap[o].type) = scope)
     IN  scoped' = [account |-> list("account"), database |-> list("database"),
                    schema |-> list("schema")]
  /\ heap' = newObject(heap, Account, "ACCOUNT", "ACCOUNT", TRUE)
  /\ phase' = "merging"
  /\ UNCHANGED <<input, available_scopes, output>>

_merge(h, primary, pointer) ==
  LET box == h[pointer].container
      apart == IF box = None THEN h ELSE remove(h, box, pointer)
  IN  FoldLeft(LAMBDA g, o : add(remove(g, pointer, o), primary, o), apart, h[pointer].items)

_merge_pointers_AsGiven(h, resources) ==
  LET primaries(m, o) == SelectSeq(m.namespace, LAMBDA p : h[p].type = h[o].type
                                                            /\ h[p].name = h[o].name)
      enter(m, o) ==
        LET like == primaries(m, o)
        IN  IF like = <<>> THEN [m EXCEPT !.namespace = Append(@, o)]
            ELSE IF h[o].pointer THEN [m EXCEPT !.heap = _merge(@, Head(like), o)]
            ELSE [m EXCEPT !.duplicate = @ \/ Head(like) # o]
  IN  FoldLeft(enter, [heap |-> h, namespace |-> <<>>, duplicate |-> FALSE], resources)

\* The first of each type and name, resources before pointers, takes the items
\* of the pointers like it.
_merge_pointers(h, resources) ==
  LET isPointer(o) == h[o].pointer
      pointersLast == SelectSeq(resources, LAMBDA o : ~ isPointer(o))
                        \o SelectSeq(resources, isPointer)
      primaries(m, o) == SelectSeq(m.namespace, LAMBDA p : h[p].type = h[o].type
                                                            /\ h[p].name = h[o].name)
      enter(m, o) ==
        LET like == primaries(m, o)
        IN  IF like = <<>> THEN [m EXCEPT !.namespace = Append(@, o)]
            ELSE IF isPointer(o) THEN [m EXCEPT !.heap = _merge(@, Head(like), o)]
            ELSE [m EXCEPT !.duplicate = @ \/ Head(like) # o]
  IN  FoldLeft(enter, [heap |-> h, namespace |-> <<>>, duplicate |-> FALSE], pointersLast)

\* Account scoped pointers are merged, and all that is left goes under the account.
MergeAccountScoped ==
  /\ phase = "merging"
  /\ LET merged == _merge_pointers(heap, scoped.account)
     IN  \/ /\ merged.duplicate
            /\ Raise("DuplicateResource")
         \/ /\ ~ merged.duplicate
            /\ heap' = addAll(merged.heap, Account, merged.namespace)
            /\ scoped' = [scoped EXCEPT !.account = merged.namespace]
            /\ phase' = "scoping"
            /\ UNCHANGED <<input, available_scopes, output>>

databases == itemsOf(heap, Account, "DATABASE")

isScoped == settings.scope # "ACCOUNT" /\ settings.database # NoName

isOutsideScope ==
  /\ isScoped
  /\ \/ Len(scoped.account) > 1
     \/ /\ Len(scoped.account) = 1
        /\ LET only == heap[scoped.account[1]]
           IN  only.type # "DATABASE" \/ only.name # settings.database

named == <<"ACCOUNT", "database">>

\* A pointer to the database of that name, under the account.
withDatabaseNamed(name) ==
  add(newObject(heap, named, "DATABASE", name, TRUE), Account, named)

ScopedDatabase ==
  LET schema == Append(named, "schema")
      h == withDatabaseNamed(settings.database)
  IN  IF settings.schema = NoName THEN h
      ELSE add(newObject(h, schema, "SCHEMA", settings.schema, TRUE), named, schema)

\* The database of the scope, or of the session where none is staged.
ChooseDatabase ==
  /\ phase = "scoping"
  /\ LET isNeeded == databases = <<>> /\ Len(scoped.database) + Len(scoped.schema) > 0
         chosen == IF isScoped /\ scoped.account = <<>> THEN ScopedDatabase
                   ELSE IF isNeeded THEN withDatabaseNamed(settings.session)
                   ELSE heap
         isMissing == ~ isScoped /\ isNeeded /\ settings.session = NoName
     IN  \/ isOutsideScope /\ Raise("RuntimeError")
         \/ isMissing /\ Raise("OrphanResource")
         \/ /\ ~ isOutsideScope /\ ~ isMissing
            /\ heap' = chosen
            /\ phase' = "attaching"
            /\ UNCHANGED <<input, scoped, available_scopes, output>>

AttachDatabaseScoped ==
  /\ phase = "attaching"
  /\ LET orphans == SelectSeq(scoped.database, LAMBDA o : heap[o].container = None)
     IN  \/ /\ orphans # <<>> /\ Len(databases) # 1
            /\ Raise("OrphanResource")
         \/ /\ orphans = <<>> \/ Len(databases) = 1
            /\ heap' = IF orphans = <<>> THEN heap ELSE addAll(heap, databases[1], orphans)
            /\ phase' = "merging databases"
            /\ UNCHANGED <<input, scoped, available_scopes, output>>

MergeDatabases ==
  /\ phase = "merging databases"
  /\ LET merge(m, db) ==
           LET next == _merge_pointers(m.heap, m.heap[db].items)
           IN  [heap |-> next.heap, duplicate |-> m.duplicate \/ next.duplicate]
         merged == FoldLeft(merge, [heap |-> heap, duplicate |-> FALSE], databases)
         schemas == UNION {Range(itemsOf(merged.heap, db, "SCHEMA")) : db \in Range(databases)}
         scope(s) == <<heap[heap[s].container].name, heap[s].name>>
     IN  \/ /\ merged.duplicate
            /\ Raise("DuplicateResource")
         \/ /\ ~ merged.duplicate
            /\ heap' = merged.heap
            /\ available_scopes' = [n \in {scope(s) : s \in schemas} |->
                                      CHOOSE s \in schemas : scope(s) = n]
            /\ phase' = "placing"
            /\ UNCHANGED <<input, scoped, output>>

\* Where a schema scoped resource goes, if anywhere: an empty answer is a KeyError.
SchemaFor(o) ==
  LET box == heap[o].container
  IN  IF box = None
        THEN Found(heap, databases[1], "SCHEMA",
                   IF settings.scope = "SCHEMA" /\ settings.schema # NoName
                     THEN settings.schema ELSE "PUBLIC")
        ELSE <<available_scopes[<<heap[heap[box].container].name, heap[box].name>>]>>

isDangling(o) == heap[o].container = None

\* A schema pointer in a database pointer: what is in it joins the schema found
\* for it.  By now every schema pointer is in a database under the account, so
\* the branches of the loop for one that is not have nothing to do.
isPointedTo(o) ==
  LET box == heap[o].container
  IN  box # None /\ heap[box].pointer /\ heap[heap[box].container].pointer

\* A required object without a container goes where the one that requires it is.
withReferences(h, o) ==
  LET box == h[o].container
      loose == {r \in h[o].refs : h[r].container = None
                                   /\ ScopeOf(h[r].type) = ScopeOf(h[o].type)}
  IN  addAll(h, box, SetToSeq(loose))

PlaceResource ==
  /\ phase = "placing" /\ scoped.schema # <<>>
  /\ LET o == Head(scoped.schema)
     IN  \/ /\ isDangling(o) /\ Len(databases) # 1
            /\ Raise("OrphanResource")
         \/ /\ isDangling(o) /\ Len(databases) = 1
            /\ SchemaFor(o) = <<>>
            /\ Raise("KeyError")
         \/ /\ isDangling(o) => Len(databases) = 1 /\ SchemaFor(o) # <<>>
            /\ heap' = withReferences(IF isDangling(o) \/ isPointedTo(o)
                                        THEN add(heap, Head(SchemaFor(o)), o)
                                        ELSE heap, o)
            /\ scoped' = [scoped EXCEPT !.schema = Tail(@)]
            /\ UNCHANGED <<input, phase, available_scopes, output>>

\* The name a URN gives an object, from the containers above it.
URN(h, o) ==
  LET box == h[o].container
      nameOf(p) == IF p = None THEN NoName ELSE h[p].name
      scope == ScopeOf(h[o].type)
  IN  [type |-> h[o].type, name |-> h[o].name,
       database |-> CASE scope = "database" -> nameOf(box)
                      [] scope = "schema" /\ box # None -> nameOf(h[box].container)
                      [] OTHER -> NoName,
       schema |-> IF scope = "schema" THEN nameOf(box) ELSE NoName]

_create_grandparent_refs_None(h) == h

_create_grandparent_refs(h) ==
  [o \in DOMAIN h |->
     IF ScopeOf(h[o].type) = "schema" /\ Contains(Walk(h, Account), o)
       THEN [h[o] EXCEPT !.refs = @ \cup {h[h[o].container].container}]
       ELSE h[o]]

Manifest_add_NoPointers(h, m, o) ==
  LET urn == URN(h, o)
      refs == {<<urn, URN(h, r)>> : r \in h[o].refs}
  IN  IF urn \in DOMAIN m.resources THEN m
      ELSE IF h[o].pointer THEN [m EXCEPT !.refs = @ \cup refs]
      ELSE [resources |-> [u \in DOMAIN m.resources \cup {urn} |->
                             IF u = urn THEN o ELSE m.resources[u]],
            refs |-> m.refs \cup refs]

\* Manifest.add: the first object of a URN stays, with its references.
Manifest_add(h, m, o) ==
  LET urn == URN(h, o)
  IN  IF urn \in DOMAIN m.resources THEN m
      ELSE [resources |-> [u \in DOMAIN m.resources \cup {urn} |->
                             IF u = urn THEN o ELSE m.resources[u]],
            refs |-> m.refs \cup {<<urn, URN(h, r)>> : r \in h[o].refs}]

GenerateManifest ==
  /\ phase = "placing" /\ scoped.schema = <<>>
  /\ heap' = _create_grandparent_refs(heap)
  /\ LET m == FoldLeft(LAMBDA n, o : Manifest_add(heap', n, o),
                       [resources |-> <<>>, refs |-> {}], Walk(heap', Account))
     IN  manifest' = m.resources /\ manifest_refs' = m.refs
  /\ phase' = "built"
  /\ UNCHANGED <<input, scoped, available_scopes>>

Next ==
  \/ \E d \in DOMAIN blueprint : Stage(d)
  \/ SplitByScope
  \/ MergeAccountScoped
  \/ ChooseDatabase
  \/ AttachDatabaseScoped
  \/ MergeDatabases
  \/ PlaceResource
  \/ GenerateManifest

Spec == Init /\ [][Next]_vars
-----------------------------------------------------------------------------
Exceptions == {"DuplicateResource", "RuntimeError", "OrphanResource", "KeyError"}

TypeOK ==
  /\ Range(staged) \subseteq DOMAIN blueprint
  /\ phase \in {"staging", "merging", "scoping", "attaching", "merging databases",
                "placing", "built"} \cup Exceptions
  /\ \A o \in DOMAIN heap : /\ heap[o].container \in DOMAIN heap \cup {None}
                            /\ Range(heap[o].items) \cup heap[o].refs \subseteq DOMAIN heap
  /\ \A n \in DOMAIN scoped : Range(scoped[n]) \subseteq DOMAIN heap
  /\ Range(available_scopes) \cup Range(manifest) \subseteq DOMAIN heap
  /\ \A r \in manifest_refs : r[1] \in DOMAIN manifest

\* The merging moves items between boxes and PlaceResource adds to a second one
\* what a first still lists.  In the tree that is planned, every object is an
\* item of one box, the one it calls its container.
OneHome ==
  phase = "built" =>
    LET inTree == Range(Walk(heap, Account))
    IN  \A o \in inTree \ {Account} :
          {box \in inTree : Contains(heap[box].items, o)} = {heap[o].container}

\* Merging drops references to the pointers it dissolves.  Whatever is planned
\* still references the container it ended in, and the database above it, and
\* both are planned: the sort puts them first.
ContainersPlanned ==
  phase = "built" =>
    \A u \in {v \in DOMAIN manifest : manifest[v] # Account} :
      LET box == heap[manifest[u]].container
          above == IF ScopeOf(u.type) = "schema" THEN {box, heap[box].container} ELSE {box}
      IN  \A c \in above : /\ URN(heap, c) \in DOMAIN manifest
                           /\ <<u, URN(heap, c)>> \in manifest_refs

Planned == [u \in {v \in DOMAIN manifest : ~ heap[manifest[v]].pointer /\ Len(manifest[v]) = 1}
              |-> manifest[u][1]]

Outcome == IF phase \in Exceptions THEN "refused" ELSE IF phase = "built" THEN "built" ELSE "staging"

\* In whatever order resources are staged, and however often a name is given,
\* the build implements the one step of DeclaredTree: nothing lost, everything
\* where it was declared, and no refusal without one of the reasons.
Contract == INSTANCE DeclaredTree WITH tree <- Planned, outcome <- Outcome

ImplementsDeclaredTree == Contract!Spec
=============================================================================
