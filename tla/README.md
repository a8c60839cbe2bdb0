# Snowbytes in TLA+

Snowbytes reads a *blueprint* (resources declared in YAML or Python), compares it
with a Snowflake account, plans the changes and executes them as SQL. This
directory holds TLA+ models of that core, the TLC runs that check them, and
proofs checked by TLAPS. Paths below are relative to the repository
(`src/snowbytes/...`); line numbers of every definition are in `PROJECT.json`
under `map`.

## The system

| Part | State it keeps | Operations | Hard to get right |
|---|---|---|---|
| Topological sort (`blueprint.py: topological_sort`) | in-degrees, edges, queue, visited list of one call | one call per plan | counters exact, no node lost, cycles told from orders, over sets of no fixed order |
| Planner (`blueprint.py: _create_*_refs, diff, _plan, execution_strategy_for_change, sql_commands_for_change`) | none: functions of manifest, remote state and session | references, diff, sort, conformity, compile | the order of a plan makes the roles available that its changes need |
| Runs (`Blueprint.plan`, `Blueprint.apply`) | session (active role), cached session context, plan, queue of SQL | fetch, plan, compile, execute | others change the account meanwhile; a run may die or be refused half-way and is simply started again |
| Lifecycle (`lifecycle.py`) | none | the SQL of create, update, drop, transfer | `update__default` renders one field of the delta |
| Data provider (`data_provider.py`) | a memo of sessions, an index by `id()` | fetch and list by SHOW statements | many statements, no snapshot; memo and index outlive what they describe |
| Client (`client.py`) | the execution cache, the active role | execute | cache keyed by role and text; USE ROLE skipped by comparison |
| Configuration (`cli.py`, `gitops.py`, `blueprint_config.py`, `var.py`) | the files merged so far | reading files, merging, joining flags, vars and environment, checks | files come in any order; precedence; duplicates; nulls |
| Grants (`resources/grant.py`, `resources/role_grant.py`, their part of `data_provider.py`, `blueprint.py`, `privs.py`) | none | list, fetch, diff, grant, revoke | a grant is found again by a key made of strings; sync mode revokes what it does not find |
| Resource graph (`Blueprint._build_resource_graph`, `resources/resource.py`) | containers, references, the finalized flag | add, require, merge pointers, finalize | duplicates and pointers collapse into one node |
| Names (`resource_name.py`, `identifiers.py`) | none | equality, hash, parsing, reading back from metadata | equality across quoting against the hash |
| Resource classes and props (`resources/*.py`, `props.py`) | declarations: 69 classes, the metadata of their fields, how SQL says them | compare, render | spec, props, lifecycle and fetch of a class are four lists of the same fields, kept apart |
| Parser, data types | tables | | text |
| Export, connector, API, Permifrost adapter | none | I/O | |

How they interact: the CLI collects a configuration and calls
`Blueprint.plan`/`apply`. `plan` clears the execution cache, fetches the session
context (memoized per session), finalizes the graph into a manifest with
references, fetches the remote state, diffs, sorts and checks conformity.
`apply` compiles the whole plan into SQL first and then executes the statements
in order on the same session. All state that survives a run is in the account.

What makes each part correct: the sort returns an order with what is referenced
first, or raises only for a graph without one; the planner's order never lets a
statement run before the role or the container it needs; a run does to the
account only what the manifest (or sync mode) justifies; runs repeated after
drifts and crashes bring the account where the blueprint says; the spec, the props,
the lifecycle functions and the fetch of a class agree on its fields; an export or a
cached lookup shows the account as it is; a declared grant and the same grant in
the account have one key; what a configuration comes to does not depend on the
order in which a directory lists its files, and loses nothing on the way.

## Modules

| Module | Models |
|---|---|
| `TopologicalOrder` | the orders `_plan` may give the URNs, and a certificate (`IsKnot`) that there is none |
| `SortContract` | what the planner relies on when it calls the sort: one step, an order or `NotADAGException` |
| `TopologicalSort` | the loops of `topological_sort`, one action per turn |
| `TopologicalSort_proofs` | the theorems about it |
| `Resources` | the vocabulary: types, containers, scopes, owners, fields |
| `Planner` | the pure part of `blueprint.py` and `lifecycle.py`, as operators |
| `Planner_proofs` | what plans are made of, and in which order; induction over sequences for both |
| `Snowflake` | external: what a statement does to the account and when it is refused |
| `Reconcile` | abstract specification: what a blueprint may do to an account |
| `Blueprint` | runs of plan and apply, composing `Planner` and `Snowflake` |
| `SavedPlan` | plans that outlive their run: kept by the caller of `plan`, or in a file |
| `Blueprint_proofs` | the theorems about `Blueprint`, `SavedPlan` and `Claims` |
| `DeclaredTree` | what a blueprint declares, and where, in one step |
| `ResourceGraph` | how the graph of staged resources is built and becomes a manifest |
| `ExecutionCache` | what a plan reads: the cache of `client.execute`, the index of grants, `_show_users` |
| `ExecutionCache_proofs` | the theorems about it |
| `Catalogue` | the 69 resource classes: fields, metadata, props |
| `DataProvider` | what each fetch function returns |
| `Lifecycle` | one resource of one class, field by field: plans, statements, account, next fetch |
| `Lifecycle_proofs` | the theorems about it, and what each class of the catalogue promises |
| `Names` | quoting, equality, hash and text of a name, and names read back from metadata |
| `Names_proofs` | what the names promise |
| `GrantRows` | the grants an account holds, and what a declaration asks for |
| `GrantPolicy` | abstract specification: what a blueprint may do to the grants of an account |
| `Grants` | runs of a blueprint of grants: list, fetch, diff, grant, revoke |
| `Grants_proofs` | the theorems about them |
| `Config` | from files, flags and environment to a `BlueprintConfig` |
| `Config_proofs` | the theorems about it |
| `Claims` | what a scoped run drops: as the docs state it, and as far as the code goes |
| `MCTopologicalSort`, `MCBlueprint`, `MCSavedPlan`, `MCResourceGraph`, `MCExecutionCache`, `MCLifecycle`, `MCGrants`, `MCConfig` | small instances for TLC |

### Correspondence with the code

`TopologicalSort`: `CountReference`, `ScanNode`, `GetNode`, `RelaxEdge`,
`FinishNode`, `Return` are the bodies of the loops. Python iterates over sets in
an order of no account, so each loop takes its elements in any order; the queue
is FIFO.

`Planner`: a resource is a URN with a type, a container, an owner and a few
numbered fields whose kind says what their metadata says: `plain`, `unmanaged`
(not fetchable, known after apply, ignored), `create` (triggers a CREATE) or
`replace`. A manifest maps URNs to resources (maybe implicit) and pointers. The
URN of a ROLE resource doubles as the role's name. `Plans` is the set of plans
`_plan` may return: the numbering of the sort leaves URNs without references to
each other in any order, so every linear extension is a possible plan.
`execution_role`, `transfer_ownership` and `sql_commands_for_change` follow
`execution_strategy_for_change` and `sql_commands_for_change`; a statement is a
record (`USE ROLE`, `CREATE`, `ALTER`, `GRANT OWNERSHIP`, `DROP`), a GRANT ROLE
being the CREATE and a REVOKE the DROP of a role grant. `destructive_rank` has
no part for the two entries of the sort key that compare the bound methods
`urn.database` and `urn.schema` with `None`: they are the same for every change.

`Blueprint`: `StartRun` opens a session and generates the manifest,
`FetchRemoteState` fetches and checks the references, `MakePlan` diffs, sorts
and checks (`_raise_for_nonconforming_plan`), `BeginApply` checks that the
session's user is not dropped, `CompileChange` is a turn of
`compile_plan_to_sql`, `ExecuteStatement` a turn of the loop of `apply`, with
the errors it steps over and the ones it raises. `StartRunOnSameSession` is a
second run on a session whose context `fetch_session` still has in its memo.
`Crash` kills the process, `Drift` is somebody else changing the account,
`SkipInvalidGrant` an ownership grant Snowflake refuses with the code `apply`
logs and ignores.

`Snowflake` follows the rules the docstring of `sql_commands_for_change` states:
USE ROLE needs a role the user has, CREATE looks at the active role alone and
what it inherits, all else at every role of the user. Roles inherit along role
grants and the system hierarchy. Which of the two "exists already" codes comes
back is left open, as `client.py` leaves it open.

`Reconcile` knows nothing of runs, sessions and plans: one step creates an asked
for resource, sets a field to the value asked for, gives a resource to the owner
asked for, or drops something sync mode may drop. `Blueprint` implements it
under the mapping that keeps `obj`, `cfg` and the count of mishaps and forgets the rest.
`mishaps` is kept so that a change of the account by others (`Mishap`) is told from
one by the tool: a step of the tool leaves the count as it is, and has to be one
of the justified ones.

`SavedPlan` extends `Blueprint` with the two places a plan may wait in: `kept`,
the list the caller of `Blueprint.plan` holds (`ReturnPlan`, `ApplyKept`), and
`file` (`WritePlan` for `snowbytes plan --out`, `ApplyFile` for `snowbytes apply
--plan`, `FailToLoad` when `plan_from_dict` raises). `apply` with a plan given
starts at `BeginApply`: nothing is fetched. `CompileSaved` adds to the loop of
`compile_plan_to_sql` what it does to the caller's list: `update__default` pops a
field out of the delta of the change itself. A crash loses `kept`, not `file`.

`ResourceGraph` keeps Python's objects in a `heap`: containers, items and
references change by `add`, `remove` and `find` as in `ResourceContainer`. A
declaration is what a constructor is given: names for a database and a schema
(which become pointers, with the PUBLIC pointer a database pointer comes with), a
container object (`parent`), what it requires by name (`requires`, as in YAML)
and by object (`uses`). All objects are constructed at first; `Stage` is
`Blueprint.add`, in any order and of any part, and the other actions are the
sections of `_build_resource_graph` in the order of the code, `PlaceResource`
being one turn of its last loop. `GenerateManifest` adds the grandparent
references and fills the manifest. Owners are the business of `Planner`.
`DeclaredTree` says in one step where each declared resource has to be and for
which reasons a blueprint may be refused; `tree` is the manifest without its
pointers and implicit schemas.

`ExecutionCache` has the globals of the process: `cache` maps a role and a
statement to a list, `index` maps the id of a list to what was indexed for it
and `session_role`, `available_roles` are the memo of `fetch_session`. The id of
a list nobody refers to any more may be given to a new one (`Fresh`): the lists
that live are those of the cache. `answers` is a history variable: for every
role and statement, what Snowflake would have answered at some time since the
plan began. Contents are opaque; a statement is one of three kinds, because
`SHOW GRANTS TO ROLE` turns "does not exist" into an empty list and `SHOW USERS`
shows less to a role without MANAGE GRANTS.

`Catalogue` gives each class a record: `fields` in the order of the dataclass
(the order in which a delta is made, and from whose end it is taken), and what
differs from a field with a default that is fetched and said as `field = value`.
`DataProvider` gives each fetch function the keys of the dictionary it returns.
Where a function branches on the kind of object there is one definition per
class. The two modules are lists, as the code they model is; `Lifecycle` is what
is done with them.

`Lifecycle` follows one resource. `declared` and `object` are the fields that
have another value than the default, in the blueprint and in the account:
`Manifest` and `Remote` are what the two sides of `_diff_resource_data` then
hold. `MakePlan` is `diff` for this resource, with what makes a plan raise in the
order it is met (`Errors`, `Fails`); `CreateResource`, `UpdateResource`,
`TransferOwnership` and their failures are an apply of that plan. `Popped` is the
field the statement of an update is about. A fetch that lacks a key gives the
default of the spec, as `resource_cls.spec(**data)` does. People edit the blueprint
(`Redeclare`) and the account (`Drift`, `MadeElsewhere`, `Dropped`) between runs.

What is assumed of Snowflake there: an object is created with the defaults of the
specs; `SET field = value` and `UNSET field` are taken for every field that a
CREATE says in that form; a statement that ends in SET is refused; of a clause or a
keyword it may take or refuse the ALTER. Fields are independent, though a few
defaults of the code depend on other fields (those of a task), and a field has two
values, because the code only asks whether two are equal. The conversion of values
is not modelled: a value that is fetched in another form than it was declared in
would differ in every plan, and no run shows it.

`Names` has the two spellings the code compares: what a declaration is given (a
`PyString`, a text that may stand in quotes) and what the account has (a `Text`).
`Str` is the text of a `ResourceName`, which is also what it is hashed by, so two
URNs are one key of a dictionary if their `Str` are equal, and are equal in Python
if `Eq`. The alphabet is a parameter: `Identifiers` are the texts
`FullyQualifiedIdentifier` parses, `Plain` those the expression for metadata matches.

`GrantRows` maps each grant the account holds to its grant option. `Means` says
which of them a declaration asks for: several for ALL and for a grant on all of a
collection. `GrantRow` is what a row of the account looks like, `Drifts` what others
do to the rows. `Granted`, `Revoked` and `Refused` are external, as far as the code
counts on them: a grant made again keeps its option, WRITE on a stage needs READ.

`Grants` runs a blueprint against those rows. `ListKind` is `list_resource` of one
type of the allowlist, `FetchListed` and `FetchDeclared` fetch one URN each, so that
others may come between any two of them; `MakePlan` is diff, order, conformity check
and compilation; `ExecuteAddition` and `ExecuteDrop` are one statement each, and
`SkipInvalidGrant` is a GRANT the account refuses with `INVALID_GRANT_ERR`, which `apply`
logs and steps over (`blueprint.py:1005`). The plan
is the set of its remaining changes; `MayComeNext` is the one reference between
grants (WRITE after READ on stages) and `ExecuteDrop` has the order of drops. An
answer has its rows in any order, which matters where the code takes the first one.
The cache below the fetch is the subject of `ExecutionCache`: here a fetch sees the
account as it is at its step.

`GrantPolicy` knows neither runs nor keys: a step grants what is declared, or, in sync
mode, revokes something sync mode lists and no recognizable declaration asks for.
`Recognized` (`GrantRows`) says which declarations those are.

`Config` takes the command apart as the code does: `Start` and `StartFails` are the
usage checks and the walk, `MergeFile` one turn of the loop over `crawl` with
`merge_configs`, in any order (`os.walk` gives the order of the file system),
`Collect` is `collect_blueprint_config` with the resources of each block, `PostInit`
`BlueprintConfig.__post_init__`. `ApplySaved` is `apply --plan`, which has no files.
What an error does is always the same: the command ends, `refused`. A resource is its
type, its name and the number of the item it was nested in or made for.

## Runs

| Run | Question | Bounds |
|---|---|---|
| `sort` | do the loops keep their counters, implement the contract and end? | all 512 graphs on 3 URNs, cycles and self-references included |
| `runs` | create-or-update, sync and scoped sync: no refusals in an undisturbed run, complete effect, right role, only justified changes, drops within the reach of the scope | 7 blueprints (three scoped: a database, a schema, databases with none named), accounts with any closed part of the tree, any mix of two owners, wrong and unmanaged fields; 1 mishap (crash, drift or refused grant); sessions reused |
| `live` | do repeated runs converge, does each run end? | the tree and a sync blueprint; 1 mishap |
| `saved_plan` | is a plan that is applied late, or twice, to an account changed meanwhile still justified? Do refused blueprints leave the account alone? | a repair, the same dry, two sync blueprints and one blueprint per reason to refuse; a field that replaces; 1 mishap; plans kept and in a file |
| `graph` | is what is staged planned, once, where it was declared, and refused only for a reason? | 5 blueprints of 5 or 6 resources in every order and part, 5 scopes and sessions |
| `cache` | does the cache answer with anything older than the plan, or meant for another role? Are users read in full? | 2 roles, 3 statements (one of each kind), 5 ids up to symmetry, 2 plans, 1 change of the account, sessions reused |
| `lifecycle` | do spec, props, lifecycle and fetch of each class fit together, when people change blueprint and account between runs? | all 69 classes, both editions, with and without the default `ignore_changes`; 2 fields declared or drifted |
| `grants` | do runs do to the grants only what the blueprint justifies, stop only for a reason, leave the account as declared, and then rest? | 12 blueprints, for every kind of grant and in both modes, with names in every spelling; any part of the declared and of the foreign grants held at first; 1 mishap (a grant with or without option, a revoke, a crash, a GRANT refused as invalid and stepped over) between any two steps |
| `config` | does the order of files decide anything? Is anything of files, flags or vars lost? | 3 files with any of 16 contents each, 12 command lines with their environments, every order; files symmetric |
| `quoted_user`, `starved`, `other_database` | claims of docs and comments the code does not meet; see *Findings* | small |

Why the bounds are enough: a plan's hazards come from a chain of at most four
things (upper role grant, lower role grant, container, content) and from two
owners; each blueprint has such a chain. One mishap is enough to leave every
half-done state, because runs can be repeated without bound and a second crash
only leaves a state the first could leave. Three URNs have every shape of graph
the loops tell apart (shared references, chains, cycles, self-references); more
is for the proof. An update is about one field and the others wait, so two fields
at a time show what one does to another; that a class has many fields is a matter
of which two. Grants do not affect each other, except READ and WRITE on a stage and
what is under one key, so a blueprint of two to four has every meeting of two, and a mishap
between any two steps of a run has every interleaving with one change by others. Merging
works key by key on what is merged so far and one more file; two files have every
meeting of two values and the third the order of such meetings.

Properties:

* `PlanOrdered`: in every plan, and in what is left of it while it is compiled, drops
  come last, no change precedes one it references, and a resource has at most one
  change, or an alteration and then a transfer.
* `CleanRunSucceeds`: whatever was left behind, a run nobody disturbs, with a
  session of its own, raises nothing: the references, the sort, the simulated
  roles and the chosen execution roles fit together.
* `CleanRunSettles`: such a run leaves every resource created, owned as asked
  and with at least one wrong field put right, and sync leaves nothing over.
* `ActsAsOwner`: an ALTER or a DROP of such a run is executed by the owner at
  that moment.
* `ImplementsReconcile`: with crashes, drifts, stale sessions and refused
  statements, every step the tool makes is one the blueprint justifies.
* `Converges`, `RunsEnd`: under fairness.
* `DropsWithinReach`: what a run drops, with all that goes with it, is below the database
  it is scoped to, in a schema of the name it is scoped to, or, where none is named, an
  undeclared database or schema. `DropsInScope` is what the docs say: inside that database
  or schema. Run `other_database` refutes it.
* `LookupsAreCurrent`: what a fetch finds in the cache is an answer Snowflake
  would have given that role at some time since the plan began; `UsersInFull`:
  users are read with all their columns while the active role is the memoized one.
* `ImplementsDeclaredTree`, `OneHome`, `ContainersPlanned`: for the resource graph.
* `PlansCleanly`: a plan for an object of the class can be made at all;
  `NoDriftMissed`: an empty plan means that what is compared is equal;
  `CreatedMatches`, `UpdateSettles`: what a run has created or altered is not
  planned again; `Settles`: left alone, every object of ordinary fields becomes
  what is declared. The exceptions are listed, per class, in `Unplannable`,
  `NotRead` and `NotCreated` (`Lifecycle`), see *Findings*.
* `RefusedForAReason`: a run nobody disturbs comes to its end, or for a reason that is
  listed (`CannotSettle`); `CleanRunSettles`: when it has ended, what is declared is
  granted and, in sync mode, nothing else that is listed; `NothingToDo`: then the next
  plan is empty, whatever the order of the answers.
* `ImplementsPolicy`: with changes by others between any two statements and with
  crashes, no run revokes what is declared or foreign to it, or grants what is not
  declared; `Converges`: under fairness the grants become as declared and stay so.
* `SameInAnyOrder`: the walk's order decides nothing, except for a key that is null in
  one file and not in another, for a var that two files specify, and for a setting other
  than the allowlist that two files give as a list.
* `NothingLost`: every resource of every file, every setting of a file and every entry
  of an allowlist is in the accepted config (a resource lost here would be dropped by
  a run in sync mode); `FlagsInForce`: so is every flag, `--dry-run` among them.
* `SyncIsLimited`: sync mode has an allowlist that somebody wrote and that covers every
  resource, the nested ones too; `VarsAsSpecified`: vars have their declared types,
  and a default only where nothing was given.
* for the sort: `KahnInv`, `ImplementsContract`, `SortReturns`.

`CleanRunSucceeds` is checked for accounts in which the upper grant of a chain
is there if the lower one is, and for role trees given as Role objects; the
findings say what happens otherwise.

Fairness: `WF_vars(ToolStep)` because the loops of one run go on by themselves;
`WF_vars(StartRun)` because the tool is run again and again (a CI job on every
push or schedule), and for the same reason `WF_vars(Apply)` in `Lifecycle`. Drifts, crashes and refused grants have no fairness and are
bounded by `MaxMishaps`, so the account is left alone eventually; without that
nothing could converge; `Settles` says so itself (`<>[][Apply]_vars`). In `Grants` too
`WF_vars(ToolStep)`, of which `StartRun` is a part: the same two reasons. For the sort `WF_vars(Next)`: a call in a thread that
runs.

Each property of a passing run has a mutant, an operator `X_Something` beside
the definition `X` with a bug put in, that violates it (`PROJECT.json`,
`mutants`).

## Findings

Each is a run TLC ends with a counterexample.

1. `quoted_user`: a listed role grant has the name of its user as the account spells it
   in its key, a declared one the quoted name of it (`"f@o"`). The two are equal and
   hash apart, so sync mode revokes the role it declares for a user named by a mail
   address, and the next run grants it again.
2. `starved`: one apply repairs one field of a resource (`update__default` pops the
   last field of the delta). Repeated runs get there (`Converges`), but not if that
   field is one the fetch does not read: a table with a declared
   `max_data_extension_time_in_days` has it altered in every run, and the drift of
   a field before it stays for ever.
3. `other_database`: with scope SCHEMA the code compares the schema of what is listed by
   its name alone (`blueprint.py:631`), so sync mode drops a table of another database
   that has a schema of that name. `src/docs/blueprint.md:52` says "Limit Snowbytes's scope
   to a single database or schema", and `:58` that a schema goes with a `database`.

The properties of the passing runs leave out what follows, by a condition on the
accounts or blueprints of the run that is named there:

* The role for a CREATE is the fetched owner of the container, which the plan may
  have transferred by then (no blueprint of `runs` creates in a database it takes
  over).
* An object without a schema that is required by one in another schema is in
  PUBLIC or beside it, depending on which was staged first; and resources of a
  schema with one name are not refused as duplicates but all except one discarded
  (the blueprints of `graph` have the second, of which `Build` allows any).
* Some classes cannot be planned once such an object exists (`Unplannable`): there
  is no fetch function of that name, the fetch returns keys the spec has not or
  lacks some it needs, raises for that kind of object, or the manifest has dropped
  fields the diff looks up (`OAuthSecret`).
* Some fields are compared and never read (`NotRead`), so that drift goes unseen
  and a declared value is planned in every run; some are filled in by Snowflake or
  not said by the CREATE (`NotCreated`), so that the next plan has them.
* Fields no prop renders, clauses and keywords may be refused in an ALTER, and the
  run stops there (`Ordinary` leaves them out); so does the transfer of a share or a
  notebook.
* Compiling a plan consumes the deltas of the caller's list, so that the same plan
  raises `KeyError` when it is applied after a dry run (`CompileSaved`; in
  `saved_plan` for safety only).
* Grants of a role tree are ordered only if grantees are `Role` objects; given by
  name they may be planned lower grant first (`role_objects`, `_create_ownership_refs`).
* `available_roles` is not closed over grants that exist already: after the upper
  grant of a chain was revoked each run raises `MissingPrivilegeException`
  (`unbroken` in `MCBlueprint`).
* An allowlist without SCHEMA refuses the transfer of the implicit PUBLIC schema
  that an interrupted run left undone, for ever (`database_only`, in `saved_plan`
  for safety only).
* `_show_users` asks the memoized role and not the active one, so on a session an
  apply has used it may list users in part (`role = session_role` in
  `UsersInFull`).
* `_INDEX` is keyed by the id of a list that may be freed at once (the one returned for
  a role that does not exist) and is never cleared, so one role's grants may be looked
  up in the index of another's (`data_provider.py:174`).
* What is required by its name alone goes where the resource that requires it is, even
  if the blueprint declares it elsewhere and its turn comes later.
* Scope DATABASE is accepted without a database; sync mode then lists what has none
  (`None != None` is false at `blueprint.py:629`) and drops databases that are not declared;
  scope SCHEMA without a schema, in the same way, schemas (`isReached` says so; the first is
  in `runs`).
* `plan_from_dict` reads the key `container` of a create (`blueprint.py:143`), which
  `CreateResource.to_dict` does not write: a plan file with a create in it raises
  `KeyError` when it is loaded (`FailToLoad` in `SavedPlan`).

Of grants (`Recognized`, `CannotSettle`):

* Sync mode grants and revokes by turns what it lists under another key than it is
  declared under: ALL, grants on integrations, future grants in a database on anything
  but schemas (`data_provider.py:2570`), and grants to a name that is not declared the way
  the listing spells it (`Canonical`).
* Grants on all of a collection have no list function, so sync mode with
  that type in its allowlist raises, and no fetch, so they are made in every run
  (`data_provider.py:1313`).
* A grant held with another option than declared stops every run, "Grants cannot be
  updated" (`blueprint.py:570`); so does a role grant to a name with other quotes
  (`lifecycle.py:314`). The option of a future grant is never rendered.
* A user with a name in small letters who holds a listed role makes sync mode raise
  `MissingResourceException` (`blueprint.py:636`), because the listed name is looked up
  in capitals.
* `fetch_database_role_grant` returns the first grantee of the database role, whoever it
  is (`data_provider.py:953`), so with several of them sync mode may revoke the one that
  is declared; and a role granted to a grantee listed under a name in small letters is
  looked up under the name in capitals, which may be another's, and declared
  (`Distinguishable`; the accounts of `grants` have neither).

* WRITE on a stage waits for READ declared by the same class only
  (`_create_stage_privilege_refs`): with WRITE in a `Grant` and READ in a `GrantOnAll`, or
  as ALL, the plan may grant WRITE first, which Snowflake refuses (`ReadsAlike`).
* `fetch_grant` compares the option of the first row only (`data_provider.py:1279`), so
  ALL WITH GRANT OPTION over rows with and without it counts as settled (`OneOption`).

Of configurations (`OrderMatters`, `OneSided`, `BadBlock`):

* A null block and a list of the same key are merged in one order of files and
  refused in the other; of two specs of a var the first file's decides.
* A `name`, `database`, `schema` or `dry_run` that is a list in two files is joined in the
  order of the walk, and nothing refuses a list there. The proof of `SameInAnyOrder` came
  upon this case; the run has it since.
* A scope, database or schema in a file hides the flag of that name, without a word.
* `SNOWBYTES_VAR_FRUIT` arrives as `var_fruit`: ten characters are cut off a prefix of
  fourteen, though `src/docs/blueprint.md:115` sets `fruit` that way.
* An empty allowlist is none; the allowlists of files widen each other; a null
  `databases`, `users`, `role_grants` or `database_role_grants` is an error; a `for_each`
  over a string makes a resource of each character.

## Proofs

`TopologicalSort_proofs` proves, for every finite set of URNs (`URNAssumption`)
and a `NoNode` outside it (`NoNodeAssumption`):

* `SortTypeOK`: `Spec => []TypeOK`. That in-degrees stay natural numbers is not
  a matter of types: it needs the count of live references.
* `KahnCorrect`: `Spec => []KahnInv`. The inductive invariant is `TypeOK /\
  KahnInv`; neither is inductive alone. `DegreesExact` says an in-degree is the
  number of references whose source is not expanded yet or is being expanded and
  has not reached this edge; `QueueExact` that a node is queued, once, when that
  number reaches 0; `DependentsFirst` that what references a visited node was
  visited before. When the queue is empty and a node is missing, the nodes not
  visited are a knot: each has a live reference, from a node not visited. When
  none is missing the reversed list is an order.
* `SortImplementsContract`: `Spec => Contract!Spec`, `Return` being the
  contract's `Sort` or `Raise` and all else a stutter.

`ExecutionCache_proofs` proves, for any roles, statements, answers and ids under
`RolesAssumption`, `TextsAssumption`, `AnswersAssumption`, `BoundsAssumption`:

* `CacheTypeOK`: `Spec => []TypeOK`; the part that is not a matter of types is
  that no error is ever in the cache.
* `CacheCorrect`: `Spec => []LookupsAreCurrent`, from the invariant `CacheCurrent`
  (every entry, not only the last one looked up, is an answer since the plan
  began) and `answers` holding the present answer while a plan reads.
* `UsersCorrect`: `Spec => []UsersInFull`. The invariant adds that only an entry
  for `SHOW USERS` under a role without MANAGE GRANTS is partial (`CacheInFull`).

`Names_proofs` proves, for every alphabet with an idempotent `Upper` and in which
`Plain` texts are identifiers in capitals (`NamesAssumption`):

* `EqIsSameObject`: two names are equal exactly if they denote the same object.
* `MetadataDenotesItself`: a name read back from a listing denotes what was listed.
* `SameKeySameObject`: names with one text, and so one hash, denote one object: no two
  objects are taken for one. The converse is what fails in `quoted_user`.
* `CanonicalNames`: a declared name has the key of its listing exactly if it is
  unquoted and plain in capitals, or quoted and not plain. This is the condition
  `Recognized` puts on grants.

Each follows by cases on the quoting; there is no state and no induction.

`Grants_proofs` proves, for all blueprints of declarations as the classes and the
account make them (`GrantsAssumption`, with `Declaration`: what a grant is on is a
resource type, role grants are for USAGE, the grants of an account are those somebody
makes; `ObjectTypesAssumption`, `NamesAssumption`):

* `GrantsTypeOK`: `Spec => []TypeOK`. The invariant adds `Phases`: between runs nothing is
  left to list or fetch and nothing remembered of a fetch, types are listed in sync mode
  only, what is to be fetched is declared once the listing is over, and is all fetched
  when a plan is executed.
* `GrantsImplementPolicy`: `Spec /\ []Distinguishable => ImplementsPolicy`. That a REVOKE
  is justified has to be known when the listing was made, many steps and changes by
  others before: `TodoListed` says that a URN waiting to be fetched is declared or one
  sync mode may list, `RemoteJustified` that a fetched grant that is not in the manifest
  is `Revocable` and not of a recognized declaration, `DropsJustified` the same of the
  planned revokes. All three only speak of `cfg`, so no change of the account disturbs
  them. The lemma they rest on is that the key a row is listed under is the key of
  every recognized declaration that asks for it (`Canonical`, from `Names_proofs`).
* `DeclaredGrantsStay`: under `Ordinary` (every declaration recognized) nothing declared
  is revoked at all: the claim `quoted_user` refutes, with the condition it needs.

* `NothingToDoOnceSettled`: `Spec /\ []Apart => []NothingToDo`. A row that a recognized
  declaration asks for is listed under the declaration's key (`ListedAsDeclared`), and
  what is found under that key is what it asks for and no more (`FoundIfRecognized`).
* `FailsForAReason`: `Spec /\ []Apart /\ []ReadsAlike => []RefusedForAReason`. The
  invariant `RefusalInv` says what an undisturbed run knows: what is to be fetched was
  listed for a row that is held (`ListedHeld`), what was fetched is of the account
  (`RemoteFound`), until the last grant is made whatever is declared is held or in the
  plan (`InHand`), and a planned update is one no statement helps (`UpdatesStuck`), which
  no GRANT of the same plan changes (`StaysStuck`).
* `RunsSettle`: `Spec /\ []Apart /\ []Distinguishable /\ []Unfolded /\ []OneOption =>
  []CleanRunSettles`. The invariant `SettlingInv` follows every row sync mode may revoke
  through the listing (`KeysCovered`) into the plan (`LeftToDrop`): its key finds that
  row and no other (`FetchedIsListed`) and is the key of no declaration that does not ask
  for it (`UndeclaredIsNoKey`); and what is declared and lasts is as declared or still
  to be granted (`LastingInHand`), which a justified REVOKE does not undo.

The hypotheses of these theorems were found by the proofs; TLC finds each of them true in
every state of run `grants`, so that none is empty. `Apart` and `Unfolded` are about the
account: no database has the name of a schema (a future grant is fetched by type and name
of its container alone), a database role has one grantee, and no grantee's name folds to
another's. `ReadsAlike` and `OneOption` are about the blueprint and state
what the code does not handle, see *Findings*.

`Distinguishable` too was found by the proof: without it a step is not justified. When a
role grant that sync mode listed is fetched, what comes back may be another's: a
database role with several grantees gives the first of them, and a grantee listed under
a name in small letters is looked up in capitals. It is a condition on the account, and
holds in every state of run `grants` by the accounts of its blueprints.

`Config_proofs` proves, for any number of files, any contents and any commands
(`ConfigAssumption`: the files are finitely many, what is read are nulls, scalars and
lists, and flags are settings),
each as `Spec => []...`: `ConfigTypeOK`, `FlagsStayInForce`, `SyncStaysLimited`,
`VarsStayAsSpecified` and `NothingIsLost`. The invariant that carries them is
`IInv`: what is merged so far has exactly the keys of the files read, each list holds the
items of every file's list and is made of nothing else, and a value that is no list is
the one of every file that has a value (`Merged`, by `Kept` and `Given`); files are unread
only while merging (`Phases`); a collected config is `collect_blueprint_config` of what is
merged, or that of a saved plan (`Collected`); an accepted one passed `__post_init__`
(`Checked`). Nothing is folded: a file read keeps its part whatever is merged later, and
the order never comes in. `OrderDoesNotMatter` (`Spec => []SameInAnyOrder`) is about the
order itself. Unless `OrderMatters`, what is merged is the sum of the files merged
(`SumOf`: one file's value, or a list of all their items, in which each var keeps its first
spec), whatever the order (`SumStep`); two sums of the same files agree up to the order of
their lists (`SumsAgree`), and of configs that agree the same is refused, or the same config
made (`CollectAgrees`, `ConfigsAgree`). A refused command is refused for what the files say
(`Reason`), and when some order merges all files and knows all keys, every order does
(`MergeSafe`). That the recursive function of `MergedInOrder` exists is proved from `Least`
(`MergesInOrder`), and that an order has every file from the library's theorems on
cardinality (`Orders`). `VarsStayAsSpecified` needs that the first spec of a name exists,
for which the lemma `Least` derives the least-number principle from the library's theorem
on well-founded orders.

`Planner_proofs` and `Blueprint_proofs` prove, for any finite set of resources of any
types, any blueprints, accounts and drifts:

* `BlueprintTypeOK`: `Spec => []TypeOK`. Of the account this says that whatever a run
  executes, system roles stay and everything keeps its database and schema
  (`AccountStates`).
* `PlansStayOrdered`: `Spec => []PlanOrdered`. The plan is sorted when it is made
  (`PlanSorted`: what precedes is related to what follows by `Earlier`, first for a
  linear extension, then for the changes of each resource put one after the other),
  references are part of what the extension respects (`RefsReach`), and compiling takes
  changes off the front.
* `BlueprintImplementsReconcile`: `Spec => ImplementsReconcile`, and
  `SavedPlansImplementReconcile`: the same of `SavedSpec`, where a plan is applied long
  after it was made, perhaps twice.
* `DropsStayWithinReach`: `Spec => DropsWithinReach`, and `SavedPlansDropWithinReach`: the
  same of `SavedSpec`.

Assumed of the constants is what the classes of the code guarantee:
`ResourcesAssumption` (what is in a database or schema has one of that type as its
container, as `RESOURCE_SCOPES` has it; a role grant is of a role, to a role or the
session's user; a resource has a field; no schema is called `NONE`, which stands for the lack of a name)
and `BlueprintAssumption` (a configuration that
`__post_init__` accepts, a manifest with the containers of what is in it, an owner
for every class that has one, by the default of its spec, and accounts of the shape of
`AccountStates`). TLC evaluates both in every run of `Blueprint` and `SavedPlan`.

The inductive invariant `RunInv` has three parts. `Typed` is what `TypeOK` says of
single variables. `Justified` says that a run carries along why it may do what it
is about to do: the fetched state has only what the manifest has or sync mode lists
(`isRemote`), the rest of the plan is a sequence of `Conforming(cfg)`, and the queue one of
`Statements(cfg)`: creates, alterations and transfers of what the manifest asks for
and drops of what sync mode may drop, with their data. Neither set mentions the account,
so no drift between fetch, plan and execution disturbs them; this is why the
refinement holds of stale and saved plans. `Checked` is the test on the session's
user, which has to hold of the plan from `BeginApply` on, because a DROP of that user is
no statement of a blueprint. Then `EffectOfStatement` says what a justified statement
does to any account when it is not refused (`Creation`, `Alteration`, `Handover`,
`Removal`), `EffectAccount` that this leaves an account, and `EffectReconciles` that it
is a step of `Reconcile`. For saved plans `SavedInv` adds that a plan kept or in a file
is a sequence of such changes, which `Consumed`, a delta with a field taken out, does
not alter.

The reach of a scope comes from both filters of the code: what is listed passed the
comparison of names (`isStray`), and what is planned passed the check of its type
(`Conforming`). Neither is enough where no database or schema is named: then the names
compared are those of whatever has none, and only the type keeps roles and warehouses out.
So the rest of the plan, and a plan kept or in a file, is a sequence of `Conforming` changes,
and a DROP is a statement of `mayDrop`. `DroppedInReach` adds what goes with a drop: what is
below it, and nothing else, as no role and no user can be dropped in a scoped run.

The library's induction theorems take an operator, which the provers cannot
instantiate. `Planner_proofs` therefore derives induction over the numbers up to `m` for a
set (`UpTo`) and recursion for a function (`Recursion`) from the theorem on well-founded
orders, which takes sets, and uses them for `SortOrders`, `Needed`, `Only` and
`FlattenSeq`.

A proof attempt corrected the model: definitions whose CASE had overlapping arms
(`Created`, `Dropped`, `DatabaseOf`, `SchemaOf`, `withContainers`) do not say which one is
taken, though TLC takes the first. They are IF chains now. It also showed that
`Reconcile` asked too much: a field of kind `create` has an implicit resource created,
and a role grant that exists is granted again.

`Lifecycle_proofs` proves, for any set of classes, any declarations and any number of
fields that are touched, with nothing assumed of the constants:

* `TypeCorrect`: `Spec => []TypeOK`.
* `PlanRaisesForAReason`: `Spec => []PlansCleanly`; `EmptyPlanMeansNoDrift`:
  `Spec => []NoDriftMissed`.
* `CreateLeavesNothing`: `Spec => CreatedMatches`; `UpdateTakesOneOff`:
  `Spec => UpdateSettles`.
* `UnplannableRaises`: the converse of the exceptions. Of a class in `Unplannable` whose
  object is in the account every plan raises, so the set leaves out nothing that works.

What depends on the tables is one lemma, `CatalogueIsTabled`: each of the 69 records,
with its fetch function, is `Tabled`: `Hopeless` exactly if it is in `Unplannable`, and
else what it fetches and compares fits its spec (`Readable`). It is proved class by
class, by computation. The theorems follow from `Tabled` and `TypeOK` alone, which is
inductive: they are about one plan, or one statement and the plan after it, and a
field matches in the next plan exactly if the statement was about it, or it did before.

Only model-checked: `SortReturns`, `Converges`, `RunsEnd`, `Settles` (liveness is
out of the prover's reach). `CleanRunSucceeds`, `CleanRunSettles` and `ActsAsOwner` of
`Blueprint` relate each statement to the account and to the roles a whole plan makes available,
and do not hold of all blueprints (*Findings*), so they are about those of the runs. All
about `ResourceGraph` is model-checked: its steps walk and fold a heap of containers, and
what such a walk reaches is a matter of induction over data.

## Not modelled, and why

* The text of SQL, its parsing, data types, the conversion of values: no state, no
  order. For the same reason: resources declared as SQL or as GRANT statements, the
  parsing of qualified identifiers and URNs.
* Tag references, stage privileges of other types than grants, renames.
* The role a grant is executed as (`blueprint.py:1056`), one privilege granted by several
  grantors, the listing of grants to database roles. The roles, users and objects grants
  are about are there; that they are made first is in `Planner` for role grants.
* In `Blueprint` a fetch is one step; what others change meanwhile appears as a drift
  before or after it. `Grants` and `ExecutionCache` have it statement by statement.
* Rendering of vars in strings, `requires`, ill-typed settings, YAML syntax.
* Connector, export, API, adapter, policy: I/O, text or values.

## Plan

Order of work, most important behaviour first:

1. (done) `TopologicalSort` with contract and proofs; `Planner`, `Snowflake`,
   `Reconcile`, `Blueprint`, claims and scope.
2. (done) `ExecutionCache`, with proofs.
3. (done) `SavedPlan`.
4. (done) `ResourceGraph`, implementing `DeclaredTree`.
5. (done) `Names`, with proofs.
6. (done) `Grants`, implementing `GrantPolicy`.
7. (done) `Config`.
8. (done) `Catalogue`, `DataProvider`, `Lifecycle`; left: the values that change
   form between declaration and fetch (sizes, lists whose order is not kept,
   quoted names).
9. (done) Theorems about `Names`, `Grants`, `Config` and `Lifecycle`.
10. (done) Theorems about `Blueprint`: its type invariant, the order of its plans, the
    step simulation of `Reconcile`, the scope of drops; about `SavedPlan`.
11. Theorems about `ResourceGraph`.
12. Grants of roles to users in the order of a plan, which only role-to-role grants are
    part of (`blueprint.py:863`); the role a grant is executed as; export.
