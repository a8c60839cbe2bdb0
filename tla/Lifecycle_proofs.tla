-------------------------- MODULE Lifecycle_proofs --------------------------
(***************************************************************************)
(* Theorems about the life of one resource, for any set of classes and any *)
(* number of fields that are declared or have drifted.                     *)
(*                                                                         *)
(* What depends on the class is proved once, of each class of the          *)
(* catalogue with its fetch function (CatalogueIsTabled): nothing is       *)
(* assumed of the tables.  The rest reasons about a class that is so.      *)
(***************************************************************************)
EXTENDS Lifecycle, NaturalsInduction, WellFoundedInduction, TLAPS

\* Once its object is in the account a plan of such a class raises.
Hopeless ==
  \/ fetched.error \in {"NoFetchFunction", "Unsupported"}
  \/ ~ fetched.keys \subseteq Range(class.fields)
  \/ ~ class.required \subseteq fetched.keys
  \/ class.name = "OAuthSecret"

\* Every field of the spec that a plan may update is read, and one with a value
\* of its own, or that no part of the CREATE is about, is among the exceptions.
Readable ==
  \A f \in Fields
        \ (class.unfetchable \cup class.ignore_changes \cup NotRead) :
    /\ f \in fetched.keys
    /\ f \notin NotCreated =>
         /\ f \notin fetched.always
         /\ f \in class.unrendered =>
              class.name \in {"AccountParameter", "TagReference"}

\* What the spec, the props and the fetch function of a class have to do with
\* each other, as far as the plans of its resources depend on it.
Tabled ==
  /\ DOMAIN class.fields \subseteq 1 .. 24
  /\ {} \notin class.exclusive
  /\ "owner" \notin NotRead \cup NotCreated
  /\ class.name = "ScannerPackage" => Fields \subseteq NotCreated
  /\ class.name \in Unplannable => Hopeless
  /\ class.name \notin Unplannable =>
       /\ ~ Hopeless
       /\ class.name # "PythonStoredProcedure" =>
            class.triggers_replacement = {}
       /\ fetched.error = "none"
       /\ Readable

-----------------------------------------------------------------------------
\* Each class of the catalogue, with its fetch function, is so.
LEMMA CatalogueIsTabled ==
  ASSUME class \in Catalogue, fetched = Fetch(class.name)
  PROVE  Tabled
<1> USE DEF Tabled, Hopeless, Readable, Fields, Range, NotRead, NotCreated,
            Unplannable, Class, Fetch, Found, Unsupported, NoFetchFunction,
            fetch_alone, fetch_catalog_integration, fetch_file_format,
            fetch_function, fetch_notification_integration, fetch_secret,
            fetch_security_integration, fetch_stage,
            fetch_storage_integration, fetch_stream
<1>1. CASE class = AccountParameter
  BY <1>1 DEF AccountParameter, fetch_account_parameter
<1>2. CASE class = AggregationPolicy
  BY <1>2 DEF AggregationPolicy, fetch_aggregation_policy
<1>3. CASE class = Alert
  BY <1>3 DEF Alert, fetch_alert
<1>4. CASE class = APIIntegration
  BY <1>4 DEF APIIntegration, fetch_api_integration
<1>5. CASE class = AuthenticationPolicy
  BY <1>5 DEF AuthenticationPolicy, fetch_authentication_policy
<1>6. CASE class = GlueCatalogIntegration
  BY <1>6 DEF GlueCatalogIntegration
<1>7. CASE class = ObjectStoreCatalogIntegration
  BY <1>7 DEF ObjectStoreCatalogIntegration
<1>8. CASE class = ComputePool
  BY <1>8 DEF ComputePool, fetch_compute_pool
<1>9. CASE class = Database
  BY <1>9 DEF Database, fetch_database
<1>10. CASE class = DynamicTable
  BY <1>10 DEF DynamicTable, fetch_dynamic_table
<1>11. CASE class = EventTable
  BY <1>11 DEF EventTable, fetch_event_table
<1>12. CASE class = ExternalAccessIntegration
  BY <1>12 DEF ExternalAccessIntegration, fetch_external_access_integration
<1>13. CASE class = ExternalFunction
  BY <1>13 DEF ExternalFunction
<1>14. CASE class = ExternalVolume
  BY <1>14 DEF ExternalVolume, fetch_external_volume
<1>15. CASE class = FailoverGroup
  BY <1>15 DEF FailoverGroup
<1>16. CASE class = CSVFileFormat
  BY <1>16 DEF CSVFileFormat
<1>17. CASE class = JSONFileFormat
  BY <1>17 DEF JSONFileFormat
<1>18. CASE class = ParquetFileFormat
  BY <1>18 DEF ParquetFileFormat
<1>19. CASE class = JavascriptUDF
  BY <1>19 DEF JavascriptUDF
<1>20. CASE class = PythonUDF
  BY <1>20 DEF PythonUDF
<1>21. CASE class = HybridTable
  BY <1>21 DEF HybridTable
<1>22. CASE class = SnowflakeIcebergTable
  BY <1>22 DEF SnowflakeIcebergTable, fetch_iceberg_table
<1>23. CASE class = ImageRepository
  BY <1>23 DEF ImageRepository, fetch_image_repository
<1>24. CASE class = MaskingPolicy
  BY <1>24 DEF MaskingPolicy, fetch_masking_policy
<1>25. CASE class = MaterializedView
  BY <1>25 DEF MaterializedView, fetch_materialized_view
<1>26. CASE class = NetworkPolicy
  BY <1>26 DEF NetworkPolicy, fetch_network_policy
<1>27. CASE class = NetworkRule
  BY <1>27 DEF NetworkRule, fetch_network_rule
<1>28. CASE class = Notebook
  BY <1>28 DEF Notebook, fetch_notebook
<1>29. CASE class = EmailNotificationIntegration
  BY <1>29 DEF EmailNotificationIntegration
<1>30. CASE class = AWSOutboundNotificationIntegration
  BY <1>30 DEF AWSOutboundNotificationIntegration
<1>31. CASE class = GCPOutboundNotificationIntegration
  BY <1>31 DEF GCPOutboundNotificationIntegration
<1>32. CASE class = AzureOutboundNotificationIntegration
  BY <1>32 DEF AzureOutboundNotificationIntegration
<1>33. CASE class = GCPInboundNotificationIntegration
  BY <1>33 DEF GCPInboundNotificationIntegration
<1>34. CASE class = AzureInboundNotificationIntegration
  BY <1>34 DEF AzureInboundNotificationIntegration
<1>35. CASE class = PackagesPolicy
  BY <1>35 DEF PackagesPolicy, fetch_packages_policy
<1>36. CASE class = PasswordPolicy
  BY <1>36 DEF PasswordPolicy, fetch_password_policy
<1>37. CASE class = Pipe
  BY <1>37 DEF Pipe, fetch_pipe
<1>38. CASE class = PythonStoredProcedure
  BY <1>38 DEF PythonStoredProcedure, fetch_procedure
<1>39. CASE class = ReplicationGroup
  BY <1>39 DEF ReplicationGroup, fetch_replication_group
<1>40. CASE class = ResourceMonitor
  BY <1>40 DEF ResourceMonitor, fetch_resource_monitor
<1>41. CASE class = Role
  BY <1>41 DEF Role, fetch_role
<1>42. CASE class = DatabaseRole
  BY <1>42 DEF DatabaseRole, fetch_database_role
<1>43. CASE class = ScannerPackage
  BY <1>43 DEF ScannerPackage, fetch_scanner_package
<1>44. CASE class = Schema
  BY <1>44 DEF Schema, fetch_schema
<1>45. CASE class = PasswordSecret
  BY <1>45 DEF PasswordSecret
<1>46. CASE class = GenericSecret
  BY <1>46 DEF GenericSecret
<1>47. CASE class = OAuthSecret
  BY <1>47 DEF OAuthSecret
<1>48. CASE class = SnowflakePartnerOAuthSecurityIntegration
  BY <1>48 DEF SnowflakePartnerOAuthSecurityIntegration
<1>49. CASE class = SnowservicesOAuthSecurityIntegration
  BY <1>49 DEF SnowservicesOAuthSecurityIntegration
<1>50. CASE class = APIAuthenticationSecurityIntegration
  BY <1>50 DEF APIAuthenticationSecurityIntegration
<1>51. CASE class = Sequence
  BY <1>51 DEF Sequence, fetch_sequence
<1>52. CASE class = Service
  <2>1. "owner" \notin Range(class.fields)
    BY <1>52 DEF Service
  <2>2. "owner" \in fetched.keys
    BY <1>52 DEF Service, fetch_service
  <2>3. /\ class.name = "Service" /\ class.exclusive = {}
        /\ DOMAIN class.fields \subseteq 1 .. 24
    BY <1>52 DEF Service
  <2>4. "owner" \notin NotRead \cup NotCreated
    BY <2>3
  <2> QED
    BY <2>1, <2>2, <2>3, <2>4
<1>53. CASE class = SessionPolicy
  BY <1>53 DEF SessionPolicy
<1>54. CASE class = Share
  BY <1>54 DEF Share, fetch_share
<1>55. CASE class = InternalStage
  BY <1>55 DEF InternalStage
<1>56. CASE class = ExternalStage
  BY <1>56 DEF ExternalStage
<1>57. CASE class = S3StorageIntegration
  BY <1>57 DEF S3StorageIntegration
<1>58. CASE class = GCSStorageIntegration
  BY <1>58 DEF GCSStorageIntegration
<1>59. CASE class = AzureStorageIntegration
  BY <1>59 DEF AzureStorageIntegration
<1>60. CASE class = TableStream
  BY <1>60 DEF TableStream
<1>61. CASE class = StageStream
  BY <1>61 DEF StageStream
<1>62. CASE class = ViewStream
  BY <1>62 DEF ViewStream
<1>63. CASE class = Table
  BY <1>63 DEF Table, fetch_table
<1>64. CASE class = Tag
  BY <1>64 DEF Tag, fetch_tag
<1>65. CASE class = TagReference
  BY <1>65 DEF TagReference, fetch_tag_reference
<1>66. CASE class = Task
  BY <1>66 DEF Task, fetch_task
<1>67. CASE class = User
  BY <1>67 DEF User, fetch_user
<1>68. CASE class = View
  BY <1>68 DEF View, fetch_view
<1>69. CASE class = Warehouse
  BY <1>69 DEF Warehouse, fetch_warehouse
<1> HIDE DEF Tabled
<1> QED
  BY <1>1, <1>2, <1>3, <1>4, <1>5, <1>6, <1>7, <1>8, <1>9, <1>10, <1>11,
     <1>12, <1>13, <1>14, <1>15, <1>16, <1>17, <1>18, <1>19, <1>20, <1>21,
     <1>22, <1>23, <1>24, <1>25, <1>26, <1>27, <1>28, <1>29, <1>30, <1>31,
     <1>32, <1>33, <1>34, <1>35, <1>36, <1>37, <1>38, <1>39, <1>40, <1>41,
     <1>42, <1>43, <1>44, <1>45, <1>46, <1>47, <1>48, <1>49, <1>50, <1>51,
     <1>52, <1>53, <1>54, <1>55, <1>56, <1>57, <1>58, <1>59, <1>60, <1>61,
     <1>62, <1>63, <1>64, <1>65, <1>66, <1>67, <1>68, <1>69, Zenon
     DEF Catalogue

-----------------------------------------------------------------------------
(***************************************************************************)
(* What Min and Max choose, so what the plan raises first and what an      *)
(* update is about.                                                        *)
(***************************************************************************)

LEMMA Least ==
  ASSUME NEW S \in SUBSET Nat, S # {}
  PROVE  \E m \in S : \A x \in S : m <= x
<1> DEFINE R == {ss \in Nat \X Nat : ss[1] < ss[2]}
<1>1. IsWellFoundedOn(R, Nat)
  BY NatLessThanWellFounded DEF OpToRel
<1>2. PICK m \in S : \A y \in S : ~ (<<y, m>> \in R)
  <2> HIDE DEF R
  <2> QED
    BY <1>1, WFMin
<1>3. ASSUME NEW x \in S
      PROVE  m <= x
  <2>1. x \in Nat /\ m \in Nat /\ ~ (<<x, m>> \in R)
    BY <1>2
  <2>2. ~ (x < m)
    BY <2>1
  <2> QED
    BY <2>1, <2>2
<1> QED
  BY <1>3

LEMMA Greatest ==
  ASSUME NEW n \in Nat, NEW S \in SUBSET (1 .. n), S # {}
  PROVE  \E m \in S : \A x \in S : m >= x
<1> DEFINE T == {n - i : i \in S}
<1>1. T \in SUBSET Nat /\ T # {}
  <2>1. PICK x : x \in S
    OBVIOUS
  <2>2. n - x \in T
    BY <2>1
  <2> QED
    BY <2>2
<1>2. PICK t \in T : \A u \in T : t <= u
  BY <1>1, Least
<1>3. PICK m \in S : t = n - m
  BY <1>2
<1>4. ASSUME NEW x \in S
      PROVE  m >= x
  <2>1. n - x \in T
    OBVIOUS
  <2>2. n - m <= n - x
    BY <1>2, <1>3, <2>1
  <2> QED
    BY <2>2
<1> QED
  BY <1>4

\* The field an update is about is one of its delta.
LEMMA PopsOfDelta ==
  ASSUME Tabled, NEW delta \in SUBSET Range(class.fields), delta # {}
  PROVE  Popped(delta) \in delta
<1> DEFINE places == {i \in DOMAIN class.fields : class.fields[i] \in delta}
<1>1. places \in SUBSET (1 .. 24) /\ places # {}
  BY DEF Tabled, Range
<1>2. PICK m \in places : \A x \in places : m >= x
  <2> HIDE DEF places
  <2> QED
    BY <1>1, Greatest
<1>3. Max(places) \in places
  <2> HIDE DEF places
  <2> QED
    BY <1>2 DEF Max
<1> QED
  BY <1>3 DEF Popped

\* A plan that does not raise has passed every check.
LEMMA NothingFails ==
  ASSUME PlanError = "none"
  PROVE  \A i \in DOMAIN Errors : ~ Fails(Errors[i])
<1>1. failing \in SUBSET Nat
  BY DEF failing, Errors
<1>2. ASSUME failing # {}
      PROVE  FALSE
  <2>1. Min(failing) \in failing
    BY <1>1, <1>2, Least DEF Min
  <2>2. Errors[Min(failing)] # "none"
    BY <2>1 DEF failing, Errors
  <2> QED
    BY <1>2, <2>2 DEF PlanError
<1> QED
  BY <1>2 DEF failing

\* A plan that raises, raises for something that does not pass.
LEMMA SomethingFails ==
  ASSUME PlanError # "none"
  PROVE  PlanError \in Range(Errors) /\ Fails(PlanError)
<1>1. failing # {} /\ failing \in SUBSET Nat
  BY DEF failing, PlanError, Errors
<1>2. Min(failing) \in failing
  BY <1>1, Least DEF Min
<1> QED
  BY <1>1, <1>2 DEF failing, PlanError, Range

LEMMA PlanPasses ==
  ASSUME PlanError = "none"
  PROVE  /\ declared \subseteq Supported
         /\ Visible => /\ fetched.error # "NoFetchFunction"
                       /\ fetched.error # "Unsupported"
                       /\ fetched.keys \subseteq Range(class.fields)
                       /\ class.required \subseteq fetched.keys
                       /\ dropped = {}
<1>1. \A i \in 1 .. 7 : ~ Fails(Errors[i])
  BY NothingFails DEF Errors
<1>2. /\ ~ Fails("WrongEdition") /\ ~ Fails("NoFetchFunction")
      /\ ~ Fails("Unsupported") /\ ~ Fails("TypeError") /\ ~ Fails("KeyError")
  BY <1>1 DEF Errors
<1> QED
  BY <1>2 DEF Fails

\* So an object that can be planned for is of a class that agrees with its
\* fetch function.
LEMMA VisibleIsReadable ==
  ASSUME Tabled, PlanError = "none", Visible
  PROVE  class.name \notin Unplannable /\ Readable
<1>1. ~ Hopeless
  BY PlanPasses DEF Hopeless, dropped
<1> QED
  BY <1>1 DEF Tabled

\* What the actions read of the plan of the resource.
LEMMA PlanParts ==
  ASSUME NEW plan \in {MakePlan}
  PROVE  /\ plan.error = PlanError /\ plan.update = ToUpdate
         /\ plan.create = ~ Visible /\ plan.transfer = ToTransfer
<1>1. plan.error = PlanError /\ plan.update = ToUpdate
  BY DEF MakePlan
<1>2. plan.create = ~ Visible
  BY DEF MakePlan, Visible
<1>3. plan.transfer = ToTransfer
  BY DEF MakePlan
<1> QED
  BY <1>1, <1>2, <1>3

-----------------------------------------------------------------------------
(***************************************************************************)
(* The type invariant.                                                     *)
(***************************************************************************)

LEMMA TypesAreTabled ==
  ASSUME TypeOK
  PROVE  Tabled
BY CatalogueIsTabled DEF TypeOK

LEMMA TypeInit ==
  ASSUME Init
  PROVE  TypeOK
<1>1. class \in Catalogue /\ fetched = Fetch(class.name)
  BY DEF Init
<1>2. {} \notin class.exclusive
  BY <1>1, CatalogueIsTabled DEF Tabled
<1>3. IsValid({})
  <2>1. \A pair \in class.exclusive : ~ pair \subseteq {}
    BY <1>2
  <2> QED
    BY <2>1 DEF IsValid
<1> QED
  BY <1>3 DEF Init, TypeOK

\* Nothing but its fields is ever created, and of these only what the edition
\* has: a declaration with more makes the plan raise.
LEMMA CreatedIsOfEdition ==
  ASSUME TypeOK, PlanError = "none"
  PROVE  /\ created \subseteq Fields
         /\ edition = "STANDARD" => created \cap class.enterprise = {}
<1>1. declared \subseteq Supported
  BY PlanPasses
<1>2. created \subseteq object \cup declared
  BY DEF created
<1>3. object \subseteq Fields
  BY DEF TypeOK
<1> QED
  BY <1>1, <1>2, <1>3 DEF TypeOK, Supported

LEMMA WrittenIsOfEdition ==
  ASSUME TypeOK, PlanError = "none", NEW fields
  PROVE  /\ Written(fields) \subseteq Fields
         /\ edition = "STANDARD" => Written(fields) \cap class.enterprise = {}
<1>1. declared \subseteq Supported
  BY PlanPasses
<1>2. Written(fields) \subseteq object \cup declared
  BY DEF Written
<1>3. object \subseteq Fields
  BY DEF TypeOK
<1> QED
  BY <1>1, <1>2, <1>3 DEF TypeOK, Supported

LEMMA TypeNext ==
  ASSUME TypeOK, [Next]_vars
  PROVE  TypeOK'
<1> DEFINE Outcomes ==
      {"none", "applied", "raised", "refused"} \cup Range(Errors)
<1>a. Outcomes' = Outcomes
  BY DEF Errors, Range
<1>b. ASSUME kind' = kind
      PROVE  Fields' = Fields /\ \A fields : IsValid(fields)' = IsValid(fields)
  BY <1>b DEF kind, Fields, Range, IsValid
<1> HIDE DEF Outcomes
<1>c. ASSUME kind' = kind, declared' = declared, present' \in BOOLEAN,
             object' \subseteq IF present' THEN Fields ELSE {},
             edition = "STANDARD" => object' \cap class.enterprise = {},
             outcome' \in Outcomes
      PROVE  TypeOK'
  <2>1. Fields' = Fields /\ IsValid(declared)' = IsValid(declared)
    BY <1>b, <1>c
  <2>2. outcome' \in Outcomes'
    BY <1>a, <1>c
  <2> QED
    BY <1>c, <2>1, <2>2 DEF TypeOK, kind, Outcomes
<1>1. ASSUME NEW plan \in {MakePlan}, PlanFails(plan)
      PROVE  TypeOK'
  <2>1. outcome' \in Outcomes
    BY <1>1, SomethingFails DEF PlanFails, MakePlan, Outcomes
  <2> QED
    BY <1>1, <1>c, <2>1 DEF PlanFails, TypeOK, kind
<1>2. ASSUME NEW plan \in {MakePlan}, CreateResource(plan)
      PROVE  TypeOK'
  BY <1>2, <1>c, CreatedIsOfEdition
     DEF CreateResource, MakePlan, TypeOK, kind, Outcomes
<1>3. ASSUME NEW plan \in {MakePlan}, CreateFails(plan)
      PROVE  TypeOK'
  BY <1>3, <1>c DEF CreateFails, TypeOK, kind, Outcomes
<1>4. ASSUME NEW plan \in {MakePlan}, UpdateResource(plan)
      PROVE  TypeOK'
  <2>a. Visible /\ PlanError = "none"
    BY <1>4, PlanParts DEF UpdateResource
  <2>1. present /\ PlanError = "none"
    BY <2>a DEF Visible
  <2>2. PICK fields : object' = Written(fields)
    BY <1>4 DEF UpdateResource
  <2>3. outcome' \in Outcomes
    BY <1>4 DEF UpdateResource, Applied, Outcomes
  <2> QED
    BY <1>4, <1>c, <2>1, <2>2, <2>3, WrittenIsOfEdition
       DEF UpdateResource, TypeOK, kind
<1>5. ASSUME NEW plan \in {MakePlan}, UpdateFails(plan)
      PROVE  TypeOK'
  BY <1>5, <1>c DEF UpdateFails, TypeOK, kind, Outcomes
<1>6. ASSUME NEW plan \in {MakePlan}, TransferOwnership(plan)
      PROVE  TypeOK'
  <2>a. Visible /\ PlanError = "none"
    BY <1>6, PlanParts DEF TransferOwnership
  <2>1. present /\ PlanError = "none"
    BY <2>a DEF Visible
  <2>2. outcome' \in Outcomes
    BY <1>6 DEF TransferOwnership, Applied, Outcomes
  <2> QED
    BY <1>6, <1>c, <2>1, <2>2, WrittenIsOfEdition
       DEF TransferOwnership, TypeOK, kind
<1>7. ASSUME NEW plan \in {MakePlan}, NothingToDo(plan)
      PROVE  TypeOK'
  BY <1>7, <1>c DEF NothingToDo, TypeOK, kind, Outcomes
<1>8. ASSUME NEW f \in Fields, Redeclare(f)
      PROVE  TypeOK'
  <2>1. declared' \subseteq Fields /\ IsValid(declared')
    BY <1>8 DEF Redeclare, Toggle, TypeOK
  <2>2. Fields' = Fields /\ (IsValid(declared))'
    BY <1>8, <1>b, <2>1 DEF Redeclare, kind, IsValid
  <2>3. outcome' \in Outcomes'
    BY <1>8, <1>a DEF Redeclare, Outcomes
  <2> QED
    BY <1>8, <2>1, <2>2, <2>3 DEF Redeclare, TypeOK, kind, Outcomes
<1>9. ASSUME NEW f \in Fields, Drift(f)
      PROVE  TypeOK'
  BY <1>9, <1>c DEF Drift, Toggle, TypeOK, kind, Outcomes
<1>10. CASE MadeElsewhere
  BY <1>10, <1>c DEF MadeElsewhere, TypeOK, kind, Outcomes
<1>11. CASE Dropped
  BY <1>11, <1>c DEF Dropped, TypeOK, kind, Outcomes
<1>12. CASE UNCHANGED vars
  BY <1>12, <1>c DEF vars, TypeOK, kind, Outcomes
<1> QED
  BY <1>1, <1>2, <1>3, <1>4, <1>5, <1>6, <1>7, <1>8, <1>9, <1>10, <1>11,
     <1>12 DEF Next, Apply, People

\* Whatever is declared, and whatever becomes of the object, the account has
\* only fields of the class that its edition has, and a declaration is one the
\* class takes, however many fields it touches (resource.py:205).
THEOREM TypeCorrect == Spec => []TypeOK
<1>1. Init => TypeOK
  BY TypeInit
<1>2. TypeOK /\ [Next]_vars => TypeOK'
  BY TypeNext
<1> QED
  BY <1>1, <1>2, PTL DEF Spec

-----------------------------------------------------------------------------
(***************************************************************************)
(* What a plan says.                                                       *)
(***************************************************************************)

LEMMA CleanPlan ==
  ASSUME TypeOK
  PROVE  PlansCleanly
<1> SUFFICES ASSUME class.name \notin Unplannable,
                    PlanError \notin {"none", "WrongEdition", "NonConforming"}
             PROVE  /\ PlanError = "NotImplemented"
                    /\ class.name = "PythonStoredProcedure"
  BY DEF PlansCleanly
<1>1. Fails(PlanError) /\ PlanError \in Range(Errors)
  BY SomethingFails
<1>2. PlanError \in {"NoFetchFunction", "Unsupported", "TypeError", "KeyError",
                     "NotImplemented"}
  BY <1>1 DEF Errors, Range
<1>3. Tabled
  BY TypesAreTabled
<1>4. ~ Hopeless /\ fetched.error = "none"
  BY <1>3 DEF Tabled
<1>5. dropped = {}
  BY <1>4 DEF dropped, Hopeless
<1>6. PlanError = "NotImplemented"
  BY <1>1, <1>2, <1>4, <1>5 DEF Fails, Hopeless
<1>7. class.triggers_replacement # {}
  BY <1>1, <1>6 DEF Fails
<1> QED
  BY <1>3, <1>6, <1>7 DEF Tabled

\* The two sides of a comparison agree on a field that is read when it is
\* declared and there, or neither: unless Snowflake has a value of its own.
LEMMA FieldMatches ==
  ASSUME NEW f \in fetched.keys
  PROVE  Remote(f) = Manifest(f) <=>
           /\ f \in declared <=> f \in object
           /\ f \notin declared => f \notin fetched.always
BY DEF Remote, Manifest, Default

LEMMA FieldMatchesNext ==
  ASSUME NEW f \in fetched.keys, kind' = kind
  PROVE  Remote(f)' = Manifest(f)' <=>
           /\ f \in declared' <=> f \in object'
           /\ f \notin declared' => f \notin fetched.always
BY DEF Remote, Manifest, Default, kind

\* A field that a plan compares and that is no exception is read.
LEMMA IsRead ==
  ASSUME Tabled, Readable, NEW f \in Supported \ (Ignored \cup NotRead)
  PROVE  f \in fetched.keys
BY DEF Readable, Supported, Ignored

LEMMA NoDrift ==
  ASSUME TypeOK
  PROVE  NoDriftMissed
<1> SUFFICES ASSUME Agreed, NEW f \in Supported \ (Ignored \cup NotRead)
             PROVE  f \in declared <=> f \in object
  BY DEF NoDriftMissed
<1>1. Readable
  BY TypesAreTabled, VisibleIsReadable DEF Agreed
<1>2. f \in fetched.keys
  BY <1>1, IsRead, TypesAreTabled
<1>3. Remote(f) = Manifest(f)
  BY DEF Agreed, ToUpdate, ToTransfer, Delta, Supported
<1> QED
  BY <1>2, <1>3, FieldMatches

\* The tables of the code agree: a plan for a class that can be planned raises
\* for the edition only, or for the imports of a procedure (blueprint.py:638,
\* 1315, 1390).
THEOREM PlanRaisesForAReason == Spec => []PlansCleanly
<1>1. TypeOK => PlansCleanly
  BY CleanPlan
<1> QED
  BY <1>1, TypeCorrect, PTL

\* An empty plan is right: each field that is compared, and that some fetch
\* reads, is in the account what the declaration says (blueprint.py:663).
THEOREM EmptyPlanMeansNoDrift == Spec => []NoDriftMissed
<1>1. TypeOK => NoDriftMissed
  BY NoDrift
<1> QED
  BY <1>1, TypeCorrect, PTL

-----------------------------------------------------------------------------
(***************************************************************************)
(* What the plan says after a run.                                         *)
(***************************************************************************)

LEMMA KindStays ==
  ASSUME kind' = kind
  PROVE  /\ Supported' = Supported /\ Fields' = Fields /\ Ignored' = Ignored
         /\ NotRead' = NotRead /\ NotCreated' = NotCreated
BY DEF kind, Supported, Fields, Range, Ignored, NotRead, NotCreated

\* The plan of the next run, for the same resource.
LEMMA NextPlan ==
  ASSUME kind' = kind
  PROVE  /\ ToUpdate' = {f \in Supported \ ({"owner"} \cup Ignored) :
                           Remote(f)' # Manifest(f)'}
         /\ ToTransfer' => /\ "owner" \in Fields \ Ignored
                           /\ Remote("owner")' # Manifest("owner")'
<1>1. Supported' = Supported /\ Fields' = Fields /\ Ignored' = Ignored
  BY KindStays
<1>2. Delta' = {f \in Supported \ {"owner"} : Remote(f)' # Manifest(f)'}
  BY <1>1 DEF Delta
<1> QED
  BY <1>1, <1>2 DEF ToUpdate, ToTransfer

\* A field that the account now has as it is declared is not planned again.
LEMMA WrittenFieldMatches ==
  ASSUME Tabled, Readable, kind' = kind, declared' = declared,
         NEW f \in Fields \ (Ignored \cup NotRead \cup NotCreated),
         f \in object' <=> f \in declared
  PROVE  Remote(f)' = Manifest(f)'
<1>1. f \in fetched.keys /\ f \notin fetched.always
  BY DEF Readable, Ignored
<1> QED
  BY <1>1, FieldMatchesNext

\* One that is left alone is planned as before.
LEMMA KeptFieldIsKept ==
  ASSUME kind' = kind, declared' = declared, NEW f,
         f \in object' <=> f \in object
  PROVE  Remote(f)' = Remote(f) /\ Manifest(f)' = Manifest(f)
BY DEF Remote, Manifest, Default, kind

LEMMA CreatedFieldMatches ==
  ASSUME Tabled, Readable, kind' = kind, declared' = declared,
         object' = created,
         NEW f \in Fields \ (Ignored \cup NotRead \cup NotCreated)
  PROVE  Remote(f)' = Manifest(f)'
<1>1. class.name # "ScannerPackage"
  BY DEF Tabled
<1>2. f \in class.unrendered =>
        class.name \in {"AccountParameter", "TagReference"}
  BY DEF Readable, Ignored
<1>3. f \in created <=> f \in declared
  BY <1>1, <1>2 DEF created
<1> QED
  BY <1>3, WrittenFieldMatches

\* The steps that end a run well.
LEMMA AppliedStep ==
  ASSUME Next, outcome' = "applied"
  PROVE  \E plan \in {MakePlan} :
           \/ CreateResource(plan)
           \/ UpdateResource(plan)
           \/ TransferOwnership(plan)
           \/ NothingToDo(plan)
<1>1. ~ People
  BY DEF People, Redeclare, Drift, MadeElsewhere, Dropped
<1>2. ASSUME NEW plan \in {MakePlan}, PlanFails(plan)
      PROVE  FALSE
  <2>1. PlanError # "none" /\ PlanError = "applied"
    BY <1>2, PlanParts DEF PlanFails
  <2> QED
    BY <2>1, SomethingFails DEF Errors, Range
<1> QED
  BY <1>1, <1>2 DEF Next, Apply, CreateFails, UpdateFails

\* What CreatedMatches says of a step.
Matched ==
  outcome' = "applied" /\ ~ Visible /\ Visible' =>
    \/ class.name \in Unplannable
    \/ ToUpdate' \subseteq NotRead \cup NotCreated /\ ~ ToTransfer'

LEMMA CreateMatches ==
  ASSUME TypeOK, Next
  PROVE  Matched
<1> SUFFICES ASSUME outcome' = "applied", ~ Visible, Visible',
                    class.name \notin Unplannable
             PROVE  /\ ToUpdate' \subseteq NotRead \cup NotCreated
                    /\ ~ ToTransfer'
  BY DEF Matched
<1>1. PICK plan \in {MakePlan} : CreateResource(plan)
  BY AppliedStep, PlanParts DEF UpdateResource, TransferOwnership, NothingToDo
<1>2. kind' = kind /\ declared' = declared /\ object' = created
  BY <1>1 DEF CreateResource
<1>3. Tabled /\ Readable
  BY TypesAreTabled DEF Tabled
<1>4. ASSUME NEW f \in ToUpdate', f \notin NotRead \cup NotCreated
      PROVE  FALSE
  <2>1. f \in Supported \ Ignored /\ Remote(f)' # Manifest(f)'
    BY <1>2, <1>4, NextPlan
  <2>2. f \in Fields \ (Ignored \cup NotRead \cup NotCreated)
    BY <1>4, <2>1 DEF Supported
  <2> QED
    BY <1>2, <1>3, <2>1, <2>2, CreatedFieldMatches
<1>5. ASSUME ToTransfer'
      PROVE  FALSE
  <2>1. "owner" \in Fields \ Ignored /\ Remote("owner")' # Manifest("owner")'
    BY <1>2, <1>5, NextPlan
  <2>2. "owner" \in Fields \ (Ignored \cup NotRead \cup NotCreated)
    BY <1>3, <2>1 DEF Tabled
  <2> QED
    BY <1>2, <1>3, <2>1, <2>2, CreatedFieldMatches
<1> QED
  BY <1>4, <1>5

\* What UpdateSettles says of a step.
Settled ==
  outcome' = "applied" /\ Visible /\ Visible' /\ ToUpdate # {} =>
    LET f == Popped(ToUpdate)
    IN \/ f \in NotRead \cup NotCreated
       \/ ToUpdate' = ToUpdate \ {f} /\ ~ ToTransfer'

LEMMA UpdateMatches ==
  ASSUME TypeOK, Next
  PROVE  Settled
<1> SUFFICES ASSUME outcome' = "applied", Visible, Visible', ToUpdate # {},
                    Popped(ToUpdate) \notin NotRead \cup NotCreated
             PROVE  /\ ToUpdate' = ToUpdate \ {Popped(ToUpdate)}
                    /\ ~ ToTransfer'
  BY DEF Settled
<1>1. PICK plan \in {MakePlan} : UpdateResource(plan)
  BY AppliedStep, PlanParts DEF CreateResource, TransferOwnership, NothingToDo
<1>2. PlanError = "none"
  BY <1>1, PlanParts DEF UpdateResource
<1>3. Tabled /\ Readable
  BY <1>2, TypesAreTabled, VisibleIsReadable
<1>4. Popped(ToUpdate) \in ToUpdate
  <2>1. ToUpdate \in SUBSET Range(class.fields)
    BY DEF ToUpdate, Delta, Supported, Fields
  <2> QED
    BY <1>3, <2>1, PopsOfDelta
<1>5. PICK f \in ToUpdate : f = Popped(ToUpdate)
  BY <1>4
<1>6. /\ kind' = kind /\ declared' = declared
      /\ object' = Written({f} \cup Transferred(plan))
      /\ Applied(plan) = "applied"
  BY <1>1, <1>5, PlanParts DEF UpdateResource
<1>7. f \in Fields \ (Ignored \cup NotRead \cup NotCreated) /\ f # "owner"
  BY <1>5 DEF ToUpdate, Delta, Supported
<1>8. Remote(f)' = Manifest(f)'
  <2>1. f \in object' <=> f \in declared
    BY <1>6 DEF Written
  <2> QED
    BY <1>6, <1>3, <1>7, <2>1, WrittenFieldMatches
<1>9. ASSUME NEW g, g # f, g # "owner"
      PROVE  Remote(g)' = Remote(g) /\ Manifest(g)' = Manifest(g)
  <2>1. g \in object' <=> g \in object
    BY <1>6, <1>9 DEF Written, Transferred
  <2> QED
    BY <1>6, <2>1, KeptFieldIsKept
<1>10. ToUpdate' = ToUpdate \ {f}
  <2>1. ToUpdate' = {g \in Supported \ ({"owner"} \cup Ignored) :
                       Remote(g)' # Manifest(g)'}
    BY <1>6, NextPlan
  <2>2. ToUpdate = {g \in Supported \ ({"owner"} \cup Ignored) :
                      Remote(g) # Manifest(g)}
    BY DEF ToUpdate, Delta
  <2> QED
    BY <1>8, <1>9, <2>1, <2>2
<1>11. ASSUME ToTransfer'
      PROVE  FALSE
  <2>1. "owner" \in Fields \ Ignored /\ Remote("owner")' # Manifest("owner")'
    BY <1>6, <1>11, NextPlan
  <2>2. CASE ToTransfer
    <3>1. Transferred(plan) = {"owner"}
      BY <1>6, <2>2, PlanParts DEF Transferred, Applied
    <3>2. "owner" \in object' <=> "owner" \in declared
      BY <1>6, <3>1 DEF Written
    <3>3. "owner" \in Fields \ (Ignored \cup NotRead \cup NotCreated)
      BY <1>3, <2>1 DEF Tabled
    <3> QED
      BY <1>6, <1>3, <2>1, <3>2, <3>3, WrittenFieldMatches
  <2>3. CASE ~ ToTransfer
    <3>1. Transferred(plan) = {}
      BY <2>3, PlanParts DEF Transferred
    <3>2. "owner" \in object' <=> "owner" \in object
      BY <1>6, <1>7, <3>1 DEF Written
    <3>3. Remote("owner") # Manifest("owner")
      BY <1>6, <2>1, <3>2, KeptFieldIsKept
    <3> QED
      BY <2>1, <2>3, <3>3 DEF ToTransfer
  <2> QED
    BY <2>2, <2>3
<1> QED
  BY <1>10, <1>11, <1>5

\* A CREATE says all there is to say: the plan that follows it is empty, but
\* for the fields that are not read or not created (lifecycle.py:28).
THEOREM CreateLeavesNothing == Spec => CreatedMatches
<1>1. TypeOK /\ [Next]_vars => [Matched]_vars
  BY CreateMatches
<1> QED
  BY <1>1, TypeCorrect, PTL DEF Spec, CreatedMatches, Matched

\* An update takes its field off the plan and brings no other, and the owner is
\* right after it, so each run is closer to the declaration (lifecycle.py:274).
THEOREM UpdateTakesOneOff == Spec => UpdateSettles
<1>1. TypeOK /\ [Next]_vars => [Settled]_vars
  BY UpdateMatches
<1> QED
  BY <1>1, TypeCorrect, PTL DEF Spec, UpdateSettles, Settled

\* The exceptions are no weakening: of a class among them, once its object is in
\* the account, every plan raises (blueprint.py:638, data_provider.py:608).
THEOREM UnplannableRaises ==
  Spec => [](Visible /\ class.name \in Unplannable => PlanError # "none")
<1>1. TypeOK => (Visible /\ class.name \in Unplannable => PlanError # "none")
  BY TypesAreTabled, VisibleIsReadable
<1> QED
  BY <1>1, TypeCorrect, PTL
=============================================================================
