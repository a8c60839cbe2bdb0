-------------------------------- MODULE Claims --------------------------------
(***************************************************************************)
(* What a scoped run drops: what the docs of the repository say, and how   *)
(* far the code goes.                                                      *)
(***************************************************************************)
EXTENDS Blueprint

\* docs/blueprint.md: with scope, "Snowbytes will limit which resources are
\* allowed and limit where those resources are located within Snowflake".
isInside(u) ==
  /\ cfg.scope = "DATABASE" => u \in Below(cfg.database)
  /\ cfg.scope = "SCHEMA" => \E s \in Below(cfg.database) :
       Type[s] = "SCHEMA" /\ SchemaName[s] = cfg.schema /\ u \in Below(s)

\* So what a run drops is inside the database or schema it is scoped to.
DropsInScope ==
  [][ mishaps' = mishaps =>
        \A u \in URN : obj[u] # Absent /\ obj'[u] = Absent => isInside(u) ]_vars

-----------------------------------------------------------------------------
\* u is in a database or schema, or is one, that the manifest does not have.
isBelowUndeclared(u, type) ==
  \E d \in ofType(type) \ DOMAIN cfg.manifest : u \in Below(d)

\* How far a scoped run reaches.  A database that is named is looked into and
\* remains; a schema that is named is looked for in every database, and remains
\* there; without a name the databases or schemas themselves are up for dropping.
isReached(u) ==
  /\ cfg.scope = "DATABASE" =>
       IF cfg.database = NoURN THEN isBelowUndeclared(u, "DATABASE")
       ELSE u \in Below(cfg.database) \ {cfg.database}
  /\ cfg.scope = "SCHEMA" =>
       IF cfg.schema = "NONE" THEN isBelowUndeclared(u, "SCHEMA")
       ELSE Type[u] \in SchemaScoped /\ SchemaName[Container[u]] = cfg.schema

\* What a run drops, and all that goes with it, is within the reach of its scope:
\* no role, grant or user ever, and nothing of another database if one is named.
DropsWithinReach ==
  [][ mishaps' = mishaps =>
        \A u \in URN : obj[u] # Absent /\ obj'[u] = Absent => isReached(u) ]_vars
=============================================================================
