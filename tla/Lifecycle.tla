------------------------------ MODULE Lifecycle ------------------------------
(***************************************************************************)
(* One resource of one class, field by field: what a scheduled blueprint   *)
(* plans for it, the SQL lifecycle makes of the plan, and what Snowflake   *)
(* and the fetch of the next run do with that, while people change the     *)
(* blueprint and the account.                                              *)
(*                                                                         *)
(* A field has two values in an account, the one its spec has by default   *)
(* and another.  Snowflake is taken to have the defaults of the specs, and *)
(* to accept `SET field = value` and `UNSET field` of every field its      *)
(* CREATE takes in that form; of a clause, of a keyword and of a field     *)
(* with no property it may refuse them.                                    *)
(***************************************************************************)
EXTENDS Catalogue, DataProvider, SequencesExt

CONSTANTS
  Classes,      \* the classes the resource may be of
  MaxTouched    \* bound: fields that are declared or set in the account

ASSUME ClassesAssumption == Classes \subseteq {c.name : c \in Catalogue}
ASSUME MaxTouchedAssumption == MaxTouched \in Nat

VARIABLES
  class,      \* the class of the resource
  fetched,    \* what its fetch function returns
  edition,    \* edition of the account
  ignoring,   \* lifecycle.ignore_changes of the declaration
  declared,   \* fields declared with another value than the default
  present,    \* whether the account has the object
  object,     \* fields that have another value than the default there
  outcome     \* how the last run ended

vars == <<class, fetched, edition, ignoring, declared, present, object,
          outcome>>

kind == <<class, fetched, edition, ignoring>>

-----------------------------------------------------------------------------
\* What the two sides of a comparison hold

Fields == Range(class.fields) \ class.fixed

\* The edition is not looked at.
Supported_AnyEdition == Fields

\* ResourceSpec.to_dict: the fields this edition does not have are left out.
Supported ==
  IF edition = "STANDARD" THEN Fields \ class.enterprise ELSE Fields

Default(f) == IF f \in class.nullable THEN "None" ELSE "default"

Manifest(f) == IF f \in declared THEN "given" ELSE Default(f)

\* resource_cls.spec(**data): what the fetch does not say is at its default.
Remote(f) ==
  IF f \in fetched.keys /\ f \in object THEN "given"
  ELSE IF f \in fetched.always THEN "server"
  ELSE Default(f)

\* OAuthSecret.to_dict drops the half of the fields the secret is not about.
dropped ==
  IF class.name # "OAuthSecret" THEN {}
  ELSE IF "oauth_scopes" \in declared
       THEN {"oauth_refresh_token", "oauth_refresh_token_expiry_time"}
       ELSE {"oauth_scopes"}

\* fetch_scanner_package only looks at the packages that are enabled.
Visible == present /\ (class.name = "ScannerPackage" => "enabled" \notin object)

-----------------------------------------------------------------------------
\* The plan

\* diff._diff_resource_data, without the owner
Delta == {f \in Supported \ {"owner"} : Remote(f) # Manifest(f)}

Ignored == class.unfetchable \cup class.ignore_changes \cup ignoring

ToUpdate == Delta \ Ignored

ToTransfer ==
  "owner" \in Fields \ Ignored /\ Remote("owner") # Manifest("owner")

\* What makes a plan raise, in the order it is met.
Errors ==
  <<"WrongEdition", "NoFetchFunction", "Unsupported", "TypeError", "KeyError",
    "NotImplemented", "NonConforming">>

Fails(error) ==
  CASE error = "WrongEdition" -> \* to_dict of the declaration
         declared \ Supported # {}
    [] error = "NoFetchFunction" -> fetched.error = error
    [] error = "Unsupported" -> Visible /\ fetched.error = error
    [] error = "TypeError" -> \* spec(**data), with a key too many or too few
         Visible /\ ~ (/\ fetched.keys \subseteq Range(class.fields)
                      /\ class.required \subseteq fetched.keys)
    [] error = "KeyError" -> \* rhs[field_name]
         Visible /\ dropped # {}
    [] error = "NotImplemented" -> \* replace_resource
         Visible /\ Delta \cap class.triggers_replacement # {}
    [] error = "NonConforming" -> \* _raise_for_nonconforming_plan
         ~ Visible /\ edition \notin class.edition

failing == {i \in DOMAIN Errors : Fails(Errors[i])}
PlanError == IF failing = {} THEN "none" ELSE Errors[Min(failing)]

\* The plan of the resource.
MakePlan == [error |-> PlanError, create |-> ~ Visible,
             update |-> ToUpdate, transfer |-> ToTransfer]

-----------------------------------------------------------------------------
\* The statement of an update: it is about one field of the delta

Popped(delta) ==
  IF class.name = "PythonStoredProcedure" /\ "execute_as" \in delta
  THEN "execute_as"
  ELSE class.fields[Max({i \in DOMAIN class.fields :
                           class.fields[i] \in delta})]

Unset(f) == Manifest(f) = "None"

Raises(f) ==
  \/ class.name = "Schema" /\ f = "transient"
  \/ class.name \in {"Table", "SnowflakeIcebergTable"} /\ f = "columns"

\* The state of a task is set like its other fields.
HasVerb_NoState(f) ==
  \/ class.name \in {"AccountParameter", "ScannerPackage"}
  \/ class.name = "Schema" /\ ~ Unset(f)
  \/ class.name = "Task" /\ f \in {"as_", "when"}
  \/ class.name = "PythonStoredProcedure" /\ f = "execute_as"

\* Updates with a statement of their own, whatever the props say.
HasVerb(f) ==
  \/ class.name \in {"AccountParameter", "ScannerPackage"}
  \/ class.name = "Schema" /\ ~ Unset(f)
  \/ class.name = "Task" /\ f \in {"as_", "when", "state"}
  \/ class.name = "PythonStoredProcedure" /\ f = "execute_as"

\* props.render says nothing of it: the statement ends in SET.
IsEmpty(f) ==
  /\ ~ HasVerb(f) /\ ~ Unset(f)
  /\ f \in class.unrendered \/ f \in class.flags \ declared

\* SET field = value, or UNSET field.
IsPlain(f) ==
  HasVerb(f) \/ f \notin class.unrendered \cup class.clauses
                            \cup class.flags

\* What Snowflake may do with the statement.
Accepts(f) ==
  IF IsEmpty(f) THEN {FALSE} ELSE IF IsPlain(f) THEN {TRUE} ELSE BOOLEAN

-----------------------------------------------------------------------------
\* Runs of the blueprint

PlanFails(plan) ==
  /\ plan.error # "none"
  /\ outcome' = plan.error
  /\ UNCHANGED <<kind, declared, present, object>>

\* The role that made it keeps it.
created_NoTransfer == declared \ (class.unrendered \cup {"owner"})

\* lifecycle.create_resource, and GRANT OWNERSHIP to the owner.
created ==
  CASE class.name = "ScannerPackage" -> object \ {"enabled"}
    [] class.name \in {"AccountParameter", "TagReference"} -> declared
    [] OTHER -> declared \ class.unrendered

CreateResource(plan) ==
  /\ plan.error = "none" /\ plan.create
  /\ present' = TRUE
  /\ object' = created
  /\ outcome' = "applied"
  /\ UNCHANGED <<kind, declared>>

\* A notebook can only be made by its owner, which has to own the schema too.
CreateFails(plan) ==
  /\ plan.error = "none" /\ plan.create
  /\ class.name = "Notebook" /\ "owner" \in declared
  /\ outcome' = "raised"
  /\ UNCHANGED <<kind, declared, present, object>>

\* There is no UNSET.
Written_NoUnset(fields) == object \cup (declared \cap fields)

\* The account gets what is declared for these fields.
Written(fields) == (object \ fields) \cup (declared \cap fields)

\* The change of the owner is the last of a plan.  Of these it cannot be.
CanTransfer == class.name \notin {"Share", "Notebook"}
Transferred(plan) == IF plan.transfer /\ CanTransfer THEN {"owner"} ELSE {}
Applied(plan) ==
  IF plan.transfer => CanTransfer THEN "applied" ELSE "refused"

\* lifecycle.update_resource, and lifecycle.transfer_resource after it.
UpdateResource(plan) ==
  /\ plan.error = "none" /\ ~ plan.create /\ plan.update # {}
  /\ LET f == Popped(plan.update)
     IN ~ Raises(f) /\ TRUE \in Accepts(f)
        /\ object' = Written({f} \cup Transferred(plan))
  /\ outcome' = Applied(plan)
  /\ UNCHANGED <<kind, declared, present>>

\* No statement of the plan is executed, or none after the update.
UpdateFails(plan) ==
  /\ plan.error = "none" /\ ~ plan.create /\ plan.update # {}
  /\ LET f == Popped(plan.update)
     IN \/ Raises(f) /\ outcome' = "raised"
        \/ ~ Raises(f) /\ FALSE \in Accepts(f) /\ outcome' = "refused"
  /\ UNCHANGED <<kind, declared, present, object>>

TransferOwnership(plan) ==
  /\ plan.error = "none" /\ ~ plan.create
  /\ plan.update = {} /\ plan.transfer
  /\ object' = Written(Transferred(plan))
  /\ outcome' = Applied(plan)
  /\ UNCHANGED <<kind, declared, present>>

NothingToDo(plan) ==
  /\ plan.error = "none" /\ ~ plan.create
  /\ plan.update = {} /\ ~ plan.transfer
  /\ outcome' = "applied"
  /\ UNCHANGED <<kind, declared, present, object>>

Apply ==
  \E plan \in {MakePlan} :
    \/ PlanFails(plan)
    \/ CreateResource(plan)
    \/ CreateFails(plan)
    \/ UpdateResource(plan)
    \/ UpdateFails(plan)
    \/ TransferOwnership(plan)
    \/ NothingToDo(plan)

-----------------------------------------------------------------------------
\* People: who edit the blueprint, and who change the account

Toggle(f, fields) == IF f \in fields THEN fields \ {f} ELSE fields \cup {f}

\* What the checks of the class let a declaration say.
IsValid(fields) ==
  /\ \A pair \in class.exclusive : ~ pair \subseteq fields
  /\ class.name = "OAuthSecret" /\ "oauth_refresh_token" \in fields =>
       "oauth_refresh_token_expiry_time" \in fields

InBound(touched) == Cardinality(touched) <= MaxTouched

Redeclare(f) ==
  /\ declared' = Toggle(f, declared)
  /\ IsValid(declared')
  /\ InBound(declared' \cup object)
  /\ outcome' = "none"
  /\ UNCHANGED <<kind, present, object>>

Drift(f) ==
  /\ present
  /\ f \in Fields
  /\ edition = "STANDARD" => f \notin class.enterprise
  /\ object' = Toggle(f, object)
  /\ InBound(declared \cup object')
  /\ outcome' = "none"
  /\ UNCHANGED <<kind, declared, present>>

MadeElsewhere ==
  /\ ~ present
  /\ edition \in class.edition
  /\ present' = TRUE
  /\ outcome' = "none"
  /\ UNCHANGED <<kind, declared, object>>

Dropped ==
  /\ present
  /\ present' = FALSE
  /\ object' = {}
  /\ outcome' = "none"
  /\ UNCHANGED <<kind, declared>>

People ==
  \/ \E f \in Fields : Redeclare(f) \/ Drift(f)
  \/ MadeElsewhere
  \/ Dropped

-----------------------------------------------------------------------------
Init ==
  /\ class \in {c \in Catalogue : c.name \in Classes}
  /\ fetched = Fetch(class.name)
  /\ edition \in {"STANDARD", "ENTERPRISE"}
  /\ ignoring \in {class.lifecycle, {}}
  /\ declared = {}
  /\ present = FALSE
  /\ object = {}
  /\ outcome = "none"

Next == Apply \/ People

\* The blueprint is applied again and again (a pipeline that runs it).
Spec == Init /\ [][Next]_vars /\ WF_vars(Apply)

-----------------------------------------------------------------------------
(***************************************************************************)
(* What can be said of every class, and the exceptions.                    *)
(***************************************************************************)

\* Once they are in the account a plan with them raises, or raises anyway.
Unplannable ==
  {"ExternalFunction", "FailoverGroup", "HybridTable", "SessionPolicy",
   "OAuthSecret", "PythonUDF", "Service",
   "SnowflakePartnerOAuthSecurityIntegration",
   "AWSOutboundNotificationIntegration", "GCPOutboundNotificationIntegration",
   "AzureOutboundNotificationIntegration",
   "GCPInboundNotificationIntegration", "AzureInboundNotificationIntegration"}

\* Fields a blueprint compares and no fetch reads.
NotRead ==
  CASE class.name = "AzureStorageIntegration" -> {"storage_blocked_locations"}
    [] class.name = "EventTable" -> {"default_ddl_collation",
         "max_data_extension_time_in_days"}
    [] class.name = "JavascriptUDF" -> {"external_access_integrations",
         "handler", "imports", "null_handling", "packages",
         "runtime_version", "secrets"}
    [] class.name = "MaterializedView" -> {"copy_grants"}
    [] class.name = "Notebook" -> {"default_version"}
    [] class.name = "Pipe" -> {"aws_sns_topic"}
    [] class.name = "ReplicationGroup" -> {"allowed_shares",
         "ignore_edition_check"}
    [] class.name = "SnowservicesOAuthSecurityIntegration" -> {"comment"}
    [] class.name = "Table" -> {"constraints", "row_access_policy",
         "data_retention_time_in_days", "max_data_extension_time_in_days"}
    [] class.name = "Task" -> {"when"}
    [] class.name = "User" -> {"rsa_public_key_2"}
    [] class.name = "View" -> {"recursive", "volatile"}
    [] OTHER -> {}

\* Fields that Snowflake fills in, or that no part of a CREATE is about: the
\* plan after it has them.
NotCreated ==
  CASE class.name = "EventTable" -> {"data_retention_time_in_days"}
    [] class.name = "JavascriptUDF" -> {"secure", "volatility"}
    [] class.name = "PythonStoredProcedure" -> {"null_handling"}
    [] class.name = "ReplicationGroup" -> {"allowed_databases"}
    [] class.name = "ScannerPackage" -> {"enabled", "schedule"}
    [] class.name = "Sequence" -> {"start", "increment"}
    [] class.name = "Task" -> {"state"}
    [] class.name = "View" -> {"columns"}
    [] OTHER -> {}

Agreed == Visible /\ PlanError = "none" /\ ToUpdate = {} /\ ~ ToTransfer

\* The account never has what its edition does not, nor a field of an object it
\* does not have, and a declaration is one the class takes: resource.py:205
\* refuses the first before any statement of the plan is made.
TypeOK ==
  /\ class \in {c \in Catalogue : c.name \in Classes}
  /\ fetched = Fetch(class.name)
  /\ edition \in {"STANDARD", "ENTERPRISE"}
  /\ ignoring \in {class.lifecycle, {}}
  /\ declared \subseteq Fields /\ IsValid(declared)
  /\ present \in BOOLEAN
  /\ object \subseteq IF present THEN Fields ELSE {}
  /\ edition = "STANDARD" => object \cap class.enterprise = {}
  /\ outcome \in {"none", "applied", "raised", "refused"} \cup Range(Errors)

\* Specs, fetch functions and manifests agree on the fields of a class: except
\* for the unplannable ones a plan raises only for the edition, and for the
\* imports of a procedure (blueprint.py:638, 1315, 1390).
PlansCleanly ==
  \/ class.name \in Unplannable
  \/ PlanError \in {"none", "WrongEdition", "NonConforming"}
  \/ PlanError = "NotImplemented" /\ class.name = "PythonStoredProcedure"

\* An empty plan is right: every field of the object that is compared, and that
\* some fetch reads, is what is declared, so no drift goes unseen.
NoDriftMissed ==
  Agreed =>
    \A f \in Supported \ (Ignored \cup NotRead) :
      f \in declared <=> f \in object

\* A CREATE says all there is to say (spec, props and fetch of the class): the
\* plan after it is empty, but for the fields that are not read or not created.
CreatedMatches ==
  [][ outcome' = "applied" /\ ~ Visible /\ Visible' =>
        \/ class.name \in Unplannable
        \/ ToUpdate' \subseteq NotRead \cup NotCreated /\ ~ ToTransfer' ]_vars

\* An update that Snowflake took is not planned again, and brings no other: each
\* apply takes one field off the delta (lifecycle.py:274).
UpdateSettles ==
  [][ outcome' = "applied" /\ Visible /\ Visible' /\ ToUpdate # {} =>
        LET f == Popped(ToUpdate)
        IN \/ f \in NotRead \cup NotCreated
           \/ ToUpdate' = ToUpdate \ {f} /\ ~ ToTransfer' ]_vars

\* Fields an update can say: those with a property `field = value`, and those
\* with a statement of their own.
Sayable ==
  (Supported \ (class.unrendered \cup class.clauses \cup class.flags))
    \cup CASE class.name = "AccountParameter" -> {"value"}
           [] class.name = "ScannerPackage" -> {"schedule"}
           [] class.name = "Schema" -> {"managed_access"}
           [] class.name = "Task" -> {"as_", "state"}
           [] class.name = "PythonStoredProcedure" -> {"execute_as"}
           [] OTHER -> {}

\* All that was declared, and all that is not at its default, can be changed.
Ordinary ==
  /\ class.name \notin Unplannable
  /\ edition \in class.edition
  /\ fetched.always \subseteq Ignored
  /\ declared \cup object \subseteq
       (Sayable \ (NotRead \cup class.triggers_replacement))
         \ IF CanTransfer THEN {} ELSE {"owner"}

\* README.md:37: "Generates the right SQL to make your config and account match".
\* So when people stop, the fields that are read and can be said match, even if
\* others that can be said are not read.
ReadFieldsMatch ==
  Visible /\ \A f \in Sayable \cap fetched.keys : Remote(f) = Manifest(f)

ReadFieldsSettle ==
  <>[][Apply]_vars /\ <>[](declared \cup object \subseteq Sayable) =>
    <>[]ReadFieldsMatch

\* When people stop, runs end with nothing to do: one field at a time, then the
\* owner, an object of ordinary fields becomes what is declared.
Settles == <>[][Apply]_vars /\ <>[]Ordinary => <>[]Agreed

=============================================================================
