------------------------------- MODULE MCGrants -------------------------------
(***************************************************************************)
(* Blueprints of a few grants and the accounts they meet.                  *)
(***************************************************************************)
EXTENDS Grants

\* An ordinary name, the same in small letters, one that does not parse (a mail
\* address), and one that parses and that the account needs not quote.
MCText == {"FOO", "foo", "f@o", "F@O", "BAR", "A$B", "SYSADMIN"}
MCUpper == [t \in MCText |->
  CASE t = "foo" -> "FOO" [] t = "f@o" -> "F@O" [] OTHER -> t]
MCIdentifiers == {"FOO", "foo", "BAR", "A$B", "SYSADMIN"}
MCPlain == {"FOO", "BAR", "SYSADMIN"}

on(type, name) == [type |-> type, in |-> "NONE", name |-> name]
collection(type, in) == [type |-> type, in |-> in, name |-> in]

tbl == on("TABLE", "TBL")
tbl2 == on("TABLE", "TBL2")
stage == on("STAGE", "STG")
integration == on("STORAGE INTEGRATION", "INT")
tables == collection("TABLE", "SCHEMA")
db_tables == collection("TABLE", "DATABASE")
schemas == collection("SCHEMA", "DATABASE")
stages == collection("STAGE", "SCHEMA")
role == on("ROLE", "R")
db_role == on("DATABASE ROLE", "DR")

MCAllPrivs == [t \in {"TABLE"} |-> {"SELECT", "INSERT"}]
MCContents == [c \in {tables, stages} |-> IF c = tables THEN {tbl, tbl2} ELSE {stage}]
MCIntegrationTypes == {"STORAGE INTEGRATION"}
MCSystemRoles == {"SYSADMIN"}
MCObjectTypes == {"TABLE", "STAGE", "SCHEMA", "ROLE", "DATABASE ROLE", "STORAGE INTEGRATION",
                  "INTEGRATION"}

to(type, s) == [type |-> type, name |-> s]
declare(kind, priv, o, t) ==
  [kind |-> kind, priv |-> priv, on |-> o, to |-> t, option |-> FALSE]
optional(d) == [d EXCEPT !.option = TRUE]
grant(kind, priv, o, t) == [kind |-> kind, priv |-> priv, on |-> o, to |-> t]

foo == to("ROLE", Bare("FOO"))
small_foo == to("ROLE", Bare("foo"))
mail == to("ROLE", Bare("f@o"))
dollar == to("ROLE", Bare("A$B"))
FOO == to("ROLE", "FOO")
SYSADMIN == to("ROLE", "SYSADMIN")

-----------------------------------------------------------------------------
\* Blueprints, each with the grants its account may hold besides.
additive(declared, others) ==
  [declared |-> declared, run_mode |-> "CREATE_OR_UPDATE", allowlist |-> {}, others |-> others]
sync(allowlist, declared, others) ==
  [declared |-> declared, run_mode |-> "SYNC", allowlist |-> allowlist, others |-> others]

\* All privileges, an option, a future grant and what there is of a schema.
privileges == additive(
  {declare("GRANT", "ALL", tbl, foo), optional(declare("GRANT", "USAGE", stage, small_foo)),
   declare("GRANT_ON_ALL", "SELECT", tables, foo)},
  {grant("GRANT", "OWNERSHIP", tbl, FOO)})

\* READ and WRITE on a stage and on those of a schema, and WRITE alone.
reads_and_writes ==
  {declare(k, p, IF k = "GRANT" THEN stage ELSE stages, foo) :
     k \in {"GRANT", "FUTURE_GRANT"}, p \in {"READ", "WRITE"}}
on_stages == additive(reads_and_writes, {})
on_all_stages == additive({declare("GRANT_ON_ALL", p, stages, foo) : p \in {"READ", "WRITE"}}, {})
write_only == additive({declare("GRANT", "WRITE", stage, foo)}, {grant("GRANT", "READ", stage, FOO)})

\* Names in every spelling, and what sync mode is not to touch.
names == sync({"GRANT"},
  {declare("GRANT", "SELECT", tbl, small_foo), declare("GRANT", "SELECT", tbl, mail)},
  {grant("GRANT", "INSERT", tbl, FOO), grant("GRANT", "OWNERSHIP", tbl, FOO),
   grant("GRANT", "SELECT", tbl, SYSADMIN), grant("GRANT", "SELECT", tbl, to("ROLE", "foo")),
   grant("GRANT", "SELECT", tbl, to("DATABASE ROLE", "FOO")),
   grant("GRANT", "USAGE", role, FOO)})

future == sync({"GRANT", "FUTURE_GRANT"},
  {declare("GRANT", "SELECT", tbl, foo), declare("FUTURE_GRANT", "SELECT", tables, foo),
   declare("FUTURE_GRANT", "USAGE", schemas, mail)},
  {grant("FUTURE_GRANT", "OWNERSHIP", tables, FOO), grant("FUTURE_GRANT", "USAGE", schemas, FOO)})

roles == sync({"ROLE_GRANT", "DATABASE_ROLE_GRANT"},
  {declare("ROLE_GRANT", "USAGE", role, foo),
   declare("ROLE_GRANT", "USAGE", role, to("USER", Bare("FOO"))),
   declare("DATABASE_ROLE_GRANT", "USAGE", db_role, small_foo)},
  {grant("ROLE_GRANT", "USAGE", role, SYSADMIN),
   grant("ROLE_GRANT", "USAGE", on("ROLE", "SYSADMIN"), FOO)})

\* The account has a user with a name in small letters.
small_user == sync({"ROLE_GRANT"},
  {declare("ROLE_GRANT", "USAGE", role, foo)},
  {grant("ROLE_GRANT", "USAGE", role, to("USER", "foo"))})

\* Declarations sync mode does not recognize, beside one it does.
unrecognized == sync({"GRANT", "FUTURE_GRANT"},
  {declare("GRANT", "ALL", tbl, foo), declare("GRANT", "SELECT", tbl, foo),
   declare("GRANT", "USAGE", integration, foo), declare("GRANT", "SELECT", tbl2, dollar),
   declare("FUTURE_GRANT", "SELECT", db_tables, foo)}, {})

\* What needs a quoted name, given without a need to quote it.
quoted_role == additive(
  {declare("ROLE_GRANT", "USAGE", role, dollar),
   declare("ROLE_GRANT", "USAGE", role, to("USER", InQuotes("FOO")))}, {})

unlistable == sync({"GRANT_ON_ALL", "GRANT"}, {declare("GRANT_ON_ALL", "SELECT", tables, foo)}, {})

\* A user named by a mail address is granted a role.
quoted_user == sync({"ROLE_GRANT"},
  {declare("ROLE_GRANT", "USAGE", role, to("USER", Bare("f@o"))),
   declare("ROLE_GRANT", "USAGE", role, foo)}, {})

MCConfigs == {privileges, on_stages, on_all_stages, write_only, names, future, roles,
              small_user, unrecognized, quoted_role, unlistable, quoted_user}
QuotedUser == {quoted_user}

-----------------------------------------------------------------------------
\* At first any of the grants are held.
MCAccounts(c) ==
  {[g \in G |-> FALSE] : G \in SUBSET Grantable(c)}
=============================================================================
