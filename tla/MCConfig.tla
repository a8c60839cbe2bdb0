------------------------------ MODULE MCConfig ------------------------------
(***************************************************************************)
(* Three files, each with one of sixteen contents chosen to meet: blocks   *)
(* to join, a null block, two specs of one var, settings of either side.   *)
(***************************************************************************)
EXTENDS Config, TLC

CONSTANTS f1, f2, f3

MCFile == {f1, f2, f3}

Item(name, nested) == [name |-> name, nested |-> nested, each |-> NotEach]
Each(name, var) == [name |-> name, nested |-> 0, each |-> var]

Strings(s) == [type |-> "list", of |-> s]
Str(s) == [type |-> "string", of |-> s]
Number == [type |-> "int", of |-> <<>>]

Var(name, type, default) == [name |-> name, type |-> type, default |-> default]

Types(s) == Items(s)

MCContents == {
  EmptyFile, Ignored,
  \* Blocks of resources, with those nested in them, and one that is null.
  ("roles" :> Items(<<Item("r", 0)>>)),
  ("roles" :> Null) @@ ("users" :> Items(<<Item("u", 1)>>)),
  ("databases" :> Items(<<Item("d", 1)>>)) @@ ("role_grants" :> Items(<<Item("g", 2)>>)),
  ("role_grants" :> Items(<<Item("h", 0)>>)),
  ("databases" :> Null),
  \* A var that two files specify, and a block that repeats over it.
  ("vars" :> Items(<<Var("v", "list", Strings(<<"a", "b">>))>>))
    @@ ("roles" :> Items(<<Each("e", "v")>>)),
  ("vars" :> Items(<<Var("v", "string", NoDefault)>>)),
  ("warehouses" :> Items(<<Each("w", "v")>>)),
  \* Settings.
  ("run_mode" :> Text("SYNC")) @@ ("allowlist" :> Types(<<"ROLE", "USER">>))
    @@ ("name" :> Items(<<"m">>)),
  ("name" :> Items(<<"n">>)),
  ("allowlist" :> Types(<<"DATABASE", "SCHEMA", "ROLE_GRANT">>)) @@ ("dry_run" :> Text("yes")),
  ("scope" :> Text("DATABASE")) @@ ("database" :> Text("d")),
  ("database" :> Null) @@ ("dry_run" :> Text("no")),
  \* A key nobody reads.
  ("rolls" :> Items(<<Item("r", 0)>>))
}

None == [x \in {} |-> Number]

Command(flags, given, env) ==
  [command |-> "apply", path |-> TRUE, saved |-> FALSE,
   flags |-> flags, vars |-> given, env |-> env]

MCCommands == {
  Command(Empty, None, None),
  Command("dry_run" :> Text("yes"), "v" :> Strings(<<"x", "y">>), None),
  Command("run_mode" :> Text("SYNC"), "v" :> Str(<<"x", "y">>), None),
  Command(("run_mode" :> Text("SYNC"))
            @@ ("allowlist" :> Types(<<"ROLE", "USER", "ROLE_GRANT", "WAREHOUSE">>)),
          "v" :> Number, None),
  Command(("scope" :> Text("SCHEMA")) @@ ("schema" :> Text("s"))
            @@ ("database" :> Text("e")),
          None, "v" :> Str(<<"x">>)),
  Command("database" :> Text("e"), None, None),
  Command(("scope" :> Text("ACCOUNT")) @@ ("allowlist" :> Null),
          "var_v" :> Number, "v" :> Str(<<"x">>)),
  [Command("run_mode" :> Text("SYNC"), None, None) EXCEPT !.command = "plan"],
  [Command(Empty, None, None) EXCEPT !.command = "plan", !.path = FALSE],
  [Command("dry_run" :> Text("yes"), None, "v" :> Str(<<"x">>))
     EXCEPT !.path = FALSE, !.saved = TRUE],
  [Command(("run_mode" :> Text("SYNC")) @@ ("schema" :> Text("")), None, None)
     EXCEPT !.path = FALSE, !.saved = TRUE],
  [Command(Empty, None, None) EXCEPT !.saved = TRUE]
}

Alike == Permutations(MCFile)
=============================================================================
