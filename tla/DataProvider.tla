---------------------------- MODULE DataProvider ----------------------------
(***************************************************************************)
(* What data_provider reads back of a resource: for each fetch function,   *)
(* the keys of the dictionary it returns, and which of them have a value   *)
(* whatever was declared.  A blueprint builds the spec of the class from   *)
(* that dictionary, so a key the spec lacks is an error, and a field the   *)
(* dictionary lacks gets the default of the spec.                          *)
(***************************************************************************)
EXTENDS TLC

\* A function that returns these keys.  `always` are the fields that are None
\* in the spec by default and for which Snowflake has a value of its own.
Found(keys) == [keys |-> keys, always |-> {}, error |-> "none"]

\* A function that meets a kind of object it raises for.
Unsupported == [Found({}) EXCEPT !.error = "Unsupported"]

\* A label for which there is no function: getattr raises, object or not.
NoFetchFunction == [Found({}) EXCEPT !.error = "NoFetchFunction"]

fetch_account_parameter == Found({"value"})

fetch_aggregation_policy == Found({"body", "owner"})

fetch_alert ==
  Found({"warehouse", "schedule", "comment", "condition", "then", "owner"})

fetch_api_integration ==
  Found({"api_provider", "api_aws_role_arn", "enabled",
         "api_allowed_prefixes", "api_blocked_prefixes", "owner", "comment"})

fetch_authentication_policy ==
  Found({"authentication_methods", "mfa_authentication_methods",
         "mfa_enrollment", "client_types", "security_integrations", "comment",
         "owner"})

fetch_catalog_integration ==
  [GlueCatalogIntegration |-> Found({"catalog_source", "catalog_namespace",
        "table_format", "glue_aws_role_arn", "glue_catalog_id", "glue_region",
        "enabled", "owner", "comment"}),
   ObjectStoreCatalogIntegration |-> Found({"catalog_source", "table_format",
        "enabled", "owner", "comment"})]

fetch_compute_pool ==
  Found({"owner", "min_nodes", "max_nodes", "instance_family", "auto_resume",
         "auto_suspend_secs", "comment"})

fetch_database ==
  Found({"data_retention_time_in_days", "comment", "transient", "owner",
         "max_data_extension_time_in_days", "external_volume", "catalog",
         "default_ddl_collation"})

fetch_database_role == Found({"owner", "database", "comment"})

fetch_dynamic_table ==
  Found({"owner", "warehouse", "refresh_mode", "initialize", "target_lag",
         "comment", "columns", "as_"})

fetch_event_table ==
  [Found({"comment", "cluster_by", "data_retention_time_in_days",
          "change_tracking", "owner"})
   EXCEPT !.always = {"data_retention_time_in_days"}]

fetch_external_access_integration ==
  Found({"allowed_network_rules", "allowed_api_authentication_integrations",
         "allowed_authentication_secrets", "enabled", "owner", "comment"})

fetch_external_volume ==
  Found({"owner", "storage_locations", "allow_writes", "comment"})

fetch_file_format ==
  [CSVFileFormat |-> Found({"type", "owner", "field_delimiter", "skip_header",
        "null_if", "empty_field_as_null", "compression", "record_delimiter",
        "file_extension", "parse_header", "skip_blank_lines", "date_format",
        "time_format", "timestamp_format", "binary_format", "escape",
        "escape_unenclosed_field", "trim_space",
        "field_optionally_enclosed_by", "error_on_column_count_mismatch",
        "replace_invalid_characters", "skip_byte_order_mark", "encoding",
        "comment"}),
   ParquetFileFormat |-> Found({"type", "owner", "comment", "compression",
        "binary_as_text", "trim_space", "replace_invalid_characters",
        "null_if"}),
   JSONFileFormat |-> Found({"type", "owner", "comment", "compression",
        "date_format", "time_format", "timestamp_format", "binary_format",
        "trim_space", "null_if", "file_extension", "enable_octal",
        "allow_duplicate", "strip_outer_array", "strip_null_values",
        "replace_invalid_characters", "ignore_utf8_errors",
        "skip_byte_order_mark"})]

fetch_function ==
  [PythonUDF |-> Found({"secure", "args", "returns", "language", "comment",
        "volatility", "as_", "owner"}),
   JavascriptUDF |-> [Found({"secure", "args", "returns", "language",
        "comment", "volatility", "as_", "owner"}) EXCEPT !.always = {"secure",
        "volatility"}]]

fetch_iceberg_table ==
  Found({"owner", "columns", "external_volume", "catalog", "base_location",
         "catalog_sync", "storage_serialization_policy",
         "data_retention_time_in_days", "max_data_extension_time_in_days",
         "default_ddl_collation", "comment"})

fetch_image_repository == Found({"owner"})

fetch_masking_policy ==
  Found({"owner", "args", "returns", "body", "comment",
         "exempt_other_policies"})

fetch_materialized_view ==
  [Found({"owner", "secure", "columns", "cluster_by", "comment", "as_"})
   EXCEPT !.always = {"columns"}]

fetch_network_policy ==
  Found({"allowed_network_rule_list", "blocked_network_rule_list",
         "allowed_ip_list", "blocked_ip_list", "comment", "owner"})

fetch_network_rule ==
  Found({"owner", "type", "value_list", "mode", "comment"})

fetch_notebook == Found({"main_file", "query_warehouse", "comment", "owner"})

fetch_notification_integration ==
  [EmailNotificationIntegration |-> Found({"type", "enabled",
        "allowed_recipients", "owner", "comment"}),
   AWSOutboundNotificationIntegration |-> Unsupported,
   GCPOutboundNotificationIntegration |-> Unsupported,
   AzureOutboundNotificationIntegration |-> Unsupported,
   GCPInboundNotificationIntegration |-> Unsupported,
   AzureInboundNotificationIntegration |-> Unsupported]

fetch_packages_policy ==
  Found({"language", "allowlist", "blocklist",
         "additional_creation_blocklist", "comment", "owner"})

fetch_password_policy ==
  Found({"password_min_length", "password_max_length",
         "password_min_upper_case_chars", "password_min_lower_case_chars",
         "password_min_numeric_chars", "password_min_special_chars",
         "password_min_age_days", "password_max_age_days",
         "password_max_retries", "password_lockout_time_mins",
         "password_history", "comment", "owner"})

fetch_pipe ==
  Found({"as_", "owner", "error_integration", "integration", "comment"})

fetch_procedure ==
  Found({"args", "comment", "execute_as", "external_access_integrations",
         "handler", "imports", "language", "null_handling", "owner",
         "packages", "returns", "runtime_version", "secure", "as_"})

fetch_role == Found({"comment", "owner"})

fetch_scanner_package == Found({"enabled", "schedule"})

fetch_schema ==
  Found({"transient", "owner", "managed_access",
         "data_retention_time_in_days", "max_data_extension_time_in_days",
         "default_ddl_collation", "comment"})

fetch_secret ==
  [PasswordSecret |-> Found({"secret_type", "username", "comment", "owner"}),
   GenericSecret |-> Found({"secret_type", "comment", "owner"}),
   OAuthSecret |-> Found({"api_authentication", "secret_type", "oauth_scopes",
        "oauth_refresh_token_expiry_time", "comment", "owner"})]

fetch_security_integration ==
  [APIAuthenticationSecurityIntegration |-> Found({"type", "auth_type",
        "enabled", "oauth_token_endpoint", "oauth_client_auth_method",
        "oauth_client_id", "oauth_grant", "oauth_access_token_validity",
        "oauth_allowed_scopes", "comment", "owner"}),
   SnowservicesOAuthSecurityIntegration |-> Found({"type", "oauth_client",
        "enabled", "owner"}),
   SnowflakePartnerOAuthSecurityIntegration |-> Unsupported]

fetch_sequence ==
  [Found({"owner", "start", "increment", "comment"})
   EXCEPT !.always = {"start", "increment"}]

fetch_service ==
  Found({"compute_pool", "external_access_integrations", "auto_resume",
         "min_instances", "max_instances", "query_warehouse", "comment",
         "owner"})

fetch_share == Found({"owner", "comment"})

fetch_stage ==
  [ExternalStage |-> Found({"url", "owner", "type", "storage_integration",
        "directory", "comment"}),
   InternalStage |-> Found({"owner", "type", "directory", "comment"})]

fetch_storage_integration ==
  [S3StorageIntegration |-> Found({"type", "enabled", "comment", "owner",
        "storage_provider", "storage_aws_role_arn",
        "storage_allowed_locations", "storage_blocked_locations",
        "storage_aws_object_acl"}),
   GCSStorageIntegration |-> Found({"type", "enabled", "comment", "owner",
        "storage_provider", "storage_allowed_locations",
        "storage_blocked_locations"}),
   AzureStorageIntegration |-> Found({"type", "enabled", "comment", "owner",
        "storage_provider", "storage_allowed_locations", "azure_tenant_id"})]

fetch_stream ==
  [TableStream |-> Found({"comment", "append_only", "on_table", "owner"}),
   ViewStream |-> Found({"comment", "append_only", "on_view", "owner"}),
   StageStream |-> Found({"on_stage", "owner", "comment"})]

fetch_tag == Found({"owner", "comment", "allowed_values"})

fetch_task ==
  Found({"warehouse", "schedule", "config", "allow_overlapping_execution",
         "user_task_managed_initial_warehouse_size", "user_task_timeout_ms",
         "suspend_task_after_num_failures", "error_integration", "state",
         "owner", "comment", "after", "as_"})

fetch_replication_group ==
  [Found({"object_types", "allowed_integration_types", "allowed_accounts",
          "allowed_databases", "replication_schedule", "owner"})
   EXCEPT !.always = {"allowed_databases"}]

fetch_resource_monitor ==
  Found({"owner", "credit_quota", "frequency", "start_timestamp",
         "end_timestamp", "notify_users"})

fetch_table ==
  Found({"columns", "cluster_by", "transient", "owner", "comment",
         "enable_schema_evolution", "default_ddl_collation",
         "change_tracking"})

fetch_tag_reference == Found({"object_name", "object_domain", "tags"})

fetch_user ==
  Found({"login_name", "display_name", "first_name", "middle_name",
         "last_name", "email", "comment", "disabled", "must_change_password",
         "default_warehouse", "default_namespace", "default_role",
         "default_secondary_roles", "type", "rsa_public_key",
         "network_policy", "owner"})

\* With the clustering key, as for a materialized view.
fetch_view_Clustered ==
  Found({"owner", "secure", "columns", "cluster_by", "change_tracking",
         "comment", "as_"})

fetch_view ==
  [Found({"owner", "secure", "columns", "change_tracking", "comment", "as_"})
   EXCEPT !.always = {"columns"}]

\* auto_suspend is forgotten.
fetch_warehouse_NoSuspend ==
  Found({"owner", "warehouse_type", "warehouse_size", "auto_resume",
         "comment", "resource_monitor", "enable_query_acceleration",
         "query_acceleration_max_scale_factor", "max_cluster_count",
         "min_cluster_count", "scaling_policy", "max_concurrency_level",
         "statement_queued_timeout_in_seconds",
         "statement_timeout_in_seconds"})

fetch_warehouse ==
  Found({"owner", "warehouse_type", "warehouse_size", "auto_suspend",
         "auto_resume", "comment", "resource_monitor",
         "enable_query_acceleration", "query_acceleration_max_scale_factor",
         "max_cluster_count", "min_cluster_count", "scaling_policy",
         "max_concurrency_level", "statement_queued_timeout_in_seconds",
         "statement_timeout_in_seconds"})

\* The functions that are about one class.
fetch_alone ==
  [APIIntegration |-> fetch_api_integration,
   AccountParameter |-> fetch_account_parameter,
   AggregationPolicy |-> fetch_aggregation_policy,
   Alert |-> fetch_alert,
   AuthenticationPolicy |-> fetch_authentication_policy,
   ComputePool |-> fetch_compute_pool,
   Database |-> fetch_database,
   DatabaseRole |-> fetch_database_role,
   DynamicTable |-> fetch_dynamic_table,
   EventTable |-> fetch_event_table,
   ExternalAccessIntegration |-> fetch_external_access_integration,
   ExternalFunction |-> NoFetchFunction,
   ExternalVolume |-> fetch_external_volume,
   FailoverGroup |-> NoFetchFunction,
   HybridTable |-> NoFetchFunction,
   ImageRepository |-> fetch_image_repository,
   MaskingPolicy |-> fetch_masking_policy,
   MaterializedView |-> fetch_materialized_view,
   NetworkPolicy |-> fetch_network_policy,
   NetworkRule |-> fetch_network_rule,
   Notebook |-> fetch_notebook,
   PackagesPolicy |-> fetch_packages_policy,
   PasswordPolicy |-> fetch_password_policy,
   Pipe |-> fetch_pipe,
   PythonStoredProcedure |-> fetch_procedure,
   ReplicationGroup |-> fetch_replication_group,
   ResourceMonitor |-> fetch_resource_monitor,
   Role |-> fetch_role,
   ScannerPackage |-> fetch_scanner_package,
   Schema |-> fetch_schema,
   Sequence |-> fetch_sequence,
   Service |-> fetch_service,
   SessionPolicy |-> NoFetchFunction,
   Share |-> fetch_share,
   SnowflakeIcebergTable |-> fetch_iceberg_table,
   Table |-> fetch_table,
   Tag |-> fetch_tag,
   TagReference |-> fetch_tag_reference,
   Task |-> fetch_task,
   User |-> fetch_user,
   View |-> fetch_view,
   Warehouse |-> fetch_warehouse]

\* data_provider.fetch_resource: the function for the label of the type, and in
\* it the dictionary for the class.
Fetch(name) ==
  CASE name \in DOMAIN fetch_catalog_integration ->
         fetch_catalog_integration[name]
    [] name \in DOMAIN fetch_file_format -> fetch_file_format[name]
    [] name \in DOMAIN fetch_function -> fetch_function[name]
    [] name \in DOMAIN fetch_notification_integration ->
         fetch_notification_integration[name]
    [] name \in DOMAIN fetch_secret -> fetch_secret[name]
    [] name \in DOMAIN fetch_security_integration ->
         fetch_security_integration[name]
    [] name \in DOMAIN fetch_stage -> fetch_stage[name]
    [] name \in DOMAIN fetch_storage_integration ->
         fetch_storage_integration[name]
    [] name \in DOMAIN fetch_stream -> fetch_stream[name]
    [] OTHER -> fetch_alone[name]
=============================================================================
