----------------------------- MODULE Catalogue -----------------------------
(***************************************************************************)
(* The resource classes of snowbytes.resources: for each, its spec (the    *)
(* dataclass whose fields a blueprint compares) and its props (which of    *)
(* those fields the SQL of a create or an alter can say, and how).  The    *)
(* name is left out, being part of the resource's identity.  Classes that  *)
(* only appear inside another (columns, storage locations), grants (whose  *)
(* fields all belong to their URN) and Account (refused by a blueprint)    *)
(* are not here.                                                           *)
(***************************************************************************)
EXTENDS Sequences

\* A class whose fields all have a default that is not None, can be fetched and
\* are said as `field = value`.  Its definition then says what is different:
\*   required     fields without a default
\*   needed       fields with a default that no create can do without
\*   fixed        fields with one legal value, or part of the identity
\*   nullable     fields that are None unless they are declared
\*   unfetchable, triggers_replacement, ignore_changes, enterprise
\*                fields with that metadata
\*   lifecycle    the ignore_changes a declaration has unless it says otherwise
\*   exclusive    pairs of fields that may not both be declared
\*   unrendered   fields the props do not know
\*   clauses      fields whose prop is a clause of its own, not `field = value`
\*   flags        fields whose prop is a keyword for true and nothing for false
\*   edition      the editions that have this kind of resource
Class(name, fields) ==
  [name |-> name, fields |-> fields,
   required |-> {}, needed |-> {}, fixed |-> {}, nullable |-> {},
   unfetchable |-> {}, triggers_replacement |-> {}, ignore_changes |-> {},
   enterprise |-> {}, lifecycle |-> {}, exclusive |-> {}, unrendered |-> {},
   clauses |-> {}, flags |-> {}, edition |-> {"STANDARD", "ENTERPRISE"}]

AccountParameter ==
  [Class("AccountParameter", <<"value">>)
   EXCEPT !.required = {"value"},
          !.unrendered = {"value"}]

AggregationPolicy ==
  [Class("AggregationPolicy", <<"body", "owner">>)
   EXCEPT !.required = {"body"},
          !.clauses = {"body"},
          !.edition = {"ENTERPRISE"}]

Alert ==
  [Class("Alert",
     <<"warehouse", "schedule", "condition", "then", "owner", "comment">>)
   EXCEPT !.required = {"warehouse", "schedule", "condition", "then"},
          !.nullable = {"comment"},
          !.clauses = {"condition", "then"}]

APIIntegration ==
  [Class("APIIntegration",
     <<"api_provider", "api_aws_role_arn", "enabled", "api_allowed_prefixes",
       "api_blocked_prefixes", "api_key", "owner", "comment">>)
   EXCEPT !.required = {"api_provider", "api_aws_role_arn", "enabled",
              "api_allowed_prefixes"},
          !.nullable = {"api_blocked_prefixes", "api_key", "comment"},
          !.unfetchable = {"api_key"}]

AuthenticationPolicy ==
  [Class("AuthenticationPolicy",
     <<"authentication_methods", "mfa_authentication_methods",
       "mfa_enrollment", "client_types", "security_integrations", "comment",
       "owner">>)
   EXCEPT !.nullable = {"comment"}]

GlueCatalogIntegration ==
  [Class("GlueCatalogIntegration",
     <<"glue_aws_role_arn", "glue_catalog_id", "catalog_namespace", "enabled",
       "catalog_source", "table_format", "glue_region", "owner", "comment">>)
   EXCEPT !.required = {"glue_aws_role_arn", "glue_catalog_id",
              "catalog_namespace", "enabled"},
          !.fixed = {"catalog_source", "table_format"},
          !.nullable = {"glue_region", "comment"}]

ObjectStoreCatalogIntegration ==
  [Class("ObjectStoreCatalogIntegration",
     <<"catalog_source", "table_format", "enabled", "comment", "owner">>)
   EXCEPT !.fixed = {"catalog_source", "table_format"},
          !.nullable = {"comment"}]

ComputePool ==
  [Class("ComputePool",
     <<"owner", "min_nodes", "max_nodes", "instance_family", "auto_resume",
       "initially_suspended", "auto_suspend_secs", "comment">>)
   EXCEPT !.needed = {"min_nodes", "max_nodes", "instance_family"},
          !.nullable = {"initially_suspended", "comment"},
          !.unfetchable = {"initially_suspended"},
          !.edition = {"ENTERPRISE"}]

Database ==
  [Class("Database",
     <<"transient", "owner", "data_retention_time_in_days",
       "max_data_extension_time_in_days", "external_volume", "catalog",
       "default_ddl_collation", "comment">>)
   EXCEPT !.nullable = {"external_volume", "catalog", "default_ddl_collation",
              "comment"},
          !.flags = {"transient"}]

DynamicTable ==
  [Class("DynamicTable",
     <<"columns", "target_lag", "warehouse", "as_", "refresh_mode",
       "initialize", "comment", "owner">>)
   EXCEPT !.required = {"columns", "target_lag", "warehouse", "as_"},
          !.nullable = {"comment"},
          !.clauses = {"columns", "as_"}]

EventTable ==
  [Class("EventTable",
     <<"cluster_by", "data_retention_time_in_days",
       "max_data_extension_time_in_days", "change_tracking",
       "default_ddl_collation", "copy_grants", "comment", "owner">>)
   EXCEPT !.nullable = {"cluster_by", "data_retention_time_in_days",
              "max_data_extension_time_in_days", "default_ddl_collation",
              "copy_grants", "comment"},
          !.unfetchable = {"copy_grants"},
          !.clauses = {"cluster_by"},
          !.flags = {"copy_grants"}]

ExternalAccessIntegration ==
  [Class("ExternalAccessIntegration",
     <<"allowed_network_rules", "allowed_api_authentication_integrations",
       "allowed_authentication_secrets", "enabled", "comment", "owner">>)
   EXCEPT !.required = {"allowed_network_rules"},
          !.nullable = {"allowed_api_authentication_integrations",
              "allowed_authentication_secrets", "comment"}]

ExternalFunction ==
  [Class("ExternalFunction",
     <<"returns", "api_integration", "as_", "secure", "args", "not_null",
       "null_handling", "volatility", "comment", "headers", "max_batch_rows",
       "compression", "request_translator", "response_translator", "owner">>)
   EXCEPT !.required = {"returns", "api_integration", "as_"},
          !.nullable = {"args", "null_handling", "volatility", "comment",
              "headers", "max_batch_rows", "compression",
              "request_translator", "response_translator"},
          !.unrendered = {"not_null"},
          !.clauses = {"returns", "as_", "args", "null_handling",
              "volatility"},
          !.flags = {"secure"}]

ExternalVolume ==
  [Class("ExternalVolume",
     <<"owner", "storage_locations", "allow_writes", "comment">>)
   EXCEPT !.needed = {"storage_locations"},
          !.nullable = {"comment"}]

FailoverGroup ==
  [Class("FailoverGroup",
     <<"object_types", "allowed_accounts", "allowed_databases",
       "allowed_shares", "allowed_integration_types", "ignore_edition_check",
       "replication_schedule", "owner">>)
   EXCEPT !.required = {"object_types", "allowed_accounts"},
          !.nullable = {"allowed_databases", "allowed_shares",
              "allowed_integration_types", "ignore_edition_check",
              "replication_schedule"},
          !.flags = {"ignore_edition_check"}]

CSVFileFormat ==
  [Class("CSVFileFormat",
     <<"owner", "type", "compression", "record_delimiter", "field_delimiter",
       "file_extension", "parse_header", "skip_header", "skip_blank_lines",
       "date_format", "time_format", "timestamp_format", "binary_format",
       "escape", "escape_unenclosed_field", "trim_space",
       "field_optionally_enclosed_by", "null_if",
       "error_on_column_count_mismatch", "replace_invalid_characters",
       "empty_field_as_null", "skip_byte_order_mark", "encoding", "comment">>)
   EXCEPT !.fixed = {"type"},
          !.nullable = {"file_extension", "escape",
              "field_optionally_enclosed_by", "comment"}]

JSONFileFormat ==
  [Class("JSONFileFormat",
     <<"owner", "type", "compression", "date_format", "time_format",
       "timestamp_format", "binary_format", "trim_space", "null_if",
       "file_extension", "enable_octal", "allow_duplicate",
       "strip_outer_array", "strip_null_values", "replace_invalid_characters",
       "ignore_utf8_errors", "skip_byte_order_mark", "comment">>)
   EXCEPT !.fixed = {"type"},
          !.nullable = {"null_if", "file_extension", "comment"}]

ParquetFileFormat ==
  [Class("ParquetFileFormat",
     <<"owner", "type", "compression", "binary_as_text", "trim_space",
       "replace_invalid_characters", "null_if", "comment">>)
   EXCEPT !.fixed = {"type"},
          !.nullable = {"null_if", "comment"}]

JavascriptUDF ==
  [Class("JavascriptUDF",
     <<"args", "returns", "as_", "language", "comment", "copy_grants",
       "external_access_integrations", "handler", "imports", "null_handling",
       "owner", "packages", "runtime_version", "secrets", "secure",
       "volatility">>)
   EXCEPT !.required = {"args", "returns", "as_"},
          !.fixed = {"language"},
          !.nullable = {"comment", "copy_grants",
              "external_access_integrations", "handler", "imports",
              "null_handling", "packages", "runtime_version", "secrets",
              "secure", "volatility"},
          !.unfetchable = {"copy_grants"},
          !.unrendered = {"copy_grants", "external_access_integrations",
              "handler", "imports", "packages", "runtime_version", "secrets"},
          !.clauses = {"args", "returns", "as_", "null_handling",
              "volatility"},
          !.flags = {"secure"}]

PythonUDF ==
  [Class("PythonUDF",
     <<"returns", "runtime_version", "handler", "args", "language", "as_",
       "comment", "copy_grants", "external_access_integrations", "imports",
       "null_handling", "owner", "packages", "secrets", "secure",
       "volatility">>)
   EXCEPT !.required = {"returns", "runtime_version", "handler", "args"},
          !.fixed = {"language"},
          !.nullable = {"as_", "comment", "copy_grants",
              "external_access_integrations", "imports", "null_handling",
              "packages", "secrets", "volatility"},
          !.unfetchable = {"copy_grants"},
          !.unrendered = {"copy_grants", "secrets"},
          !.clauses = {"returns", "args", "as_", "null_handling",
              "volatility"},
          !.flags = {"secure"}]

HybridTable ==
  [Class("HybridTable", <<"columns", "owner", "comment">>)
   EXCEPT !.required = {"columns"},
          !.nullable = {"comment"},
          !.clauses = {"columns"}]

SnowflakeIcebergTable ==
  [Class("SnowflakeIcebergTable",
     <<"columns", "owner", "external_volume", "catalog", "base_location",
       "catalog_sync", "storage_serialization_policy",
       "data_retention_time_in_days", "max_data_extension_time_in_days",
       "change_tracking", "default_ddl_collation", "comment">>)
   EXCEPT !.required = {"columns"},
          !.nullable = {"external_volume", "base_location", "catalog_sync",
              "change_tracking", "default_ddl_collation", "comment"},
          !.unfetchable = {"change_tracking"},
          !.lifecycle = {"columns"},
          !.clauses = {"columns"}]

ImageRepository ==
  [Class("ImageRepository", <<"owner">>)
   EXCEPT !.edition = {"ENTERPRISE"}]

MaskingPolicy ==
  [Class("MaskingPolicy",
     <<"args", "returns", "body", "comment", "exempt_other_policies",
       "owner">>)
   EXCEPT !.required = {"args", "returns", "body"},
          !.nullable = {"comment"},
          !.clauses = {"args", "returns", "body"},
          !.edition = {"ENTERPRISE"}]

MaterializedView ==
  [Class("MaterializedView",
     <<"owner", "secure", "columns", "copy_grants", "cluster_by", "comment",
       "as_">>)
   EXCEPT !.needed = {"as_"},
          !.nullable = {"columns", "cluster_by", "comment"},
          !.ignore_changes = {"columns"},
          !.clauses = {"columns", "cluster_by", "as_"},
          !.flags = {"secure", "copy_grants"},
          !.edition = {"ENTERPRISE"}]

NetworkPolicy ==
  [Class("NetworkPolicy",
     <<"allowed_network_rule_list", "blocked_network_rule_list",
       "allowed_ip_list", "blocked_ip_list", "comment", "owner">>)
   EXCEPT !.nullable = {"allowed_network_rule_list",
              "blocked_network_rule_list", "allowed_ip_list",
              "blocked_ip_list", "comment"}]

NetworkRule ==
  [Class("NetworkRule", <<"type", "value_list", "mode", "comment", "owner">>)
   EXCEPT !.required = {"type"},
          !.nullable = {"value_list", "comment"}]

Notebook ==
  [Class("Notebook",
     <<"from_", "main_file", "comment", "default_version", "query_warehouse",
       "owner">>)
   EXCEPT !.nullable = {"from_", "main_file", "comment", "default_version",
              "query_warehouse"},
          !.unfetchable = {"from_"},
          !.clauses = {"from_"}]

EmailNotificationIntegration ==
  [Class("EmailNotificationIntegration",
     <<"enabled", "allowed_recipients", "type", "owner", "comment">>)
   EXCEPT !.required = {"enabled", "allowed_recipients"},
          !.fixed = {"type"},
          !.nullable = {"comment"}]

AWSOutboundNotificationIntegration ==
  [Class("AWSOutboundNotificationIntegration",
     <<"enabled", "aws_sns_topic_arn", "aws_sns_role_arn", "direction",
       "type", "notification_provider", "owner", "comment">>)
   EXCEPT !.required = {"enabled", "aws_sns_topic_arn", "aws_sns_role_arn"},
          !.fixed = {"direction", "type", "notification_provider"},
          !.nullable = {"comment"}]

GCPOutboundNotificationIntegration ==
  [Class("GCPOutboundNotificationIntegration",
     <<"enabled", "gcp_pubsub_topic_name", "direction", "type",
       "notification_provider", "owner", "comment">>)
   EXCEPT !.required = {"enabled", "gcp_pubsub_topic_name"},
          !.fixed = {"direction", "type", "notification_provider"},
          !.nullable = {"comment"}]

AzureOutboundNotificationIntegration ==
  [Class("AzureOutboundNotificationIntegration",
     <<"enabled", "azure_event_grid_topic_endpoint", "azure_tenant_id",
       "direction", "type", "notification_provider", "owner", "comment">>)
   EXCEPT !.required = {"enabled", "azure_event_grid_topic_endpoint",
              "azure_tenant_id"},
          !.fixed = {"direction", "type", "notification_provider"},
          !.nullable = {"comment"}]

GCPInboundNotificationIntegration ==
  [Class("GCPInboundNotificationIntegration",
     <<"enabled", "gcp_pubsub_subscription_name", "direction", "type",
       "notification_provider", "owner", "comment">>)
   EXCEPT !.required = {"enabled", "gcp_pubsub_subscription_name"},
          !.fixed = {"direction", "type", "notification_provider"},
          !.nullable = {"comment"}]

AzureInboundNotificationIntegration ==
  [Class("AzureInboundNotificationIntegration",
     <<"enabled", "azure_storage_queue_primary_uri", "azure_tenant_id",
       "direction", "type", "notification_provider", "owner", "comment">>)
   EXCEPT !.required = {"enabled", "azure_storage_queue_primary_uri",
              "azure_tenant_id"},
          !.fixed = {"direction", "type", "notification_provider"},
          !.nullable = {"comment"}]

PackagesPolicy ==
  [Class("PackagesPolicy",
     <<"language", "allowlist", "blocklist", "additional_creation_blocklist",
       "comment", "owner">>)
   EXCEPT !.fixed = {"language"},
          !.nullable = {"allowlist", "blocklist",
              "additional_creation_blocklist", "comment"}]

PasswordPolicy ==
  [Class("PasswordPolicy",
     <<"password_min_length", "password_max_length",
       "password_min_upper_case_chars", "password_min_lower_case_chars",
       "password_min_numeric_chars", "password_min_special_chars",
       "password_min_age_days", "password_max_age_days",
       "password_max_retries", "password_lockout_time_mins",
       "password_history", "comment", "owner">>)
   EXCEPT !.nullable = {"comment"}]

Pipe ==
  [Class("Pipe",
     <<"as_", "owner", "auto_ingest", "error_integration", "aws_sns_topic",
       "integration", "comment">>)
   EXCEPT !.required = {"as_"},
          !.nullable = {"auto_ingest", "error_integration", "aws_sns_topic",
              "integration", "comment"},
          !.unfetchable = {"auto_ingest"},
          !.clauses = {"as_"}]

PythonStoredProcedure ==
  [Class("PythonStoredProcedure",
     <<"args", "returns", "runtime_version", "packages", "handler",
       "language", "as_", "comment", "copy_grants", "execute_as",
       "external_access_integrations", "imports", "null_handling", "owner",
       "secure">>)
   EXCEPT !.required = {"args", "returns", "runtime_version", "packages",
              "handler"},
          !.fixed = {"language"},
          !.nullable = {"as_", "copy_grants", "external_access_integrations",
              "imports"},
          !.unfetchable = {"copy_grants"},
          !.triggers_replacement = {"imports"},
          !.unrendered = {"null_handling"},
          !.clauses = {"args", "returns", "as_", "execute_as"},
          !.flags = {"copy_grants", "secure"}]

ReplicationGroup ==
  [Class("ReplicationGroup",
     <<"object_types", "allowed_accounts", "allowed_databases",
       "allowed_shares", "allowed_integration_types", "ignore_edition_check",
       "replication_schedule", "owner">>)
   EXCEPT !.required = {"object_types", "allowed_accounts"},
          !.nullable = {"allowed_databases", "allowed_shares",
              "allowed_integration_types", "ignore_edition_check",
              "replication_schedule"},
          !.flags = {"ignore_edition_check"},
          !.edition = {"ENTERPRISE"}]

ResourceMonitor ==
  [Class("ResourceMonitor",
     <<"owner", "credit_quota", "frequency", "start_timestamp",
       "end_timestamp", "notify_users">>)
   EXCEPT !.nullable = {"credit_quota", "frequency", "start_timestamp",
              "end_timestamp", "notify_users"}]

Role ==
  [Class("Role", <<"owner", "comment">>)
   EXCEPT !.nullable = {"comment"}]

DatabaseRole ==
  [Class("DatabaseRole", <<"database", "owner", "comment">>)
   EXCEPT !.fixed = {"database"},
          !.nullable = {"comment"}]

ScannerPackage ==
  [Class("ScannerPackage", <<"enabled", "schedule">>)
   EXCEPT !.unrendered = {"enabled", "schedule"}]

Schema ==
  [Class("Schema",
     <<"transient", "managed_access", "data_retention_time_in_days",
       "max_data_extension_time_in_days", "default_ddl_collation", "owner",
       "comment">>)
   EXCEPT !.nullable = {"default_ddl_collation", "comment"},
          !.flags = {"transient", "managed_access"}]

PasswordSecret ==
  [Class("PasswordSecret",
     <<"secret_type", "username", "password", "comment", "owner">>)
   EXCEPT !.fixed = {"secret_type"},
          !.nullable = {"username", "password", "comment"},
          !.unfetchable = {"password"}]

GenericSecret ==
  [Class("GenericSecret",
     <<"secret_type", "secret_string", "comment", "owner">>)
   EXCEPT !.fixed = {"secret_type"},
          !.nullable = {"secret_string", "comment"},
          !.unfetchable = {"secret_string"}]

OAuthSecret ==
  [Class("OAuthSecret",
     <<"api_authentication", "secret_type", "oauth_scopes",
       "oauth_refresh_token", "oauth_refresh_token_expiry_time", "comment",
       "owner">>)
   EXCEPT !.required = {"api_authentication"},
          !.fixed = {"secret_type"},
          !.nullable = {"oauth_scopes", "oauth_refresh_token",
              "oauth_refresh_token_expiry_time", "comment"},
          !.unfetchable = {"oauth_refresh_token"},
          !.exclusive = {{"oauth_scopes", "oauth_refresh_token"},
              {"oauth_scopes", "oauth_refresh_token_expiry_time"}}]

SnowflakePartnerOAuthSecurityIntegration ==
  [Class("SnowflakePartnerOAuthSecurityIntegration",
     <<"type", "enabled", "oauth_client", "oauth_client_secret",
       "oauth_redirect_uri", "oauth_issue_refresh_tokens",
       "oauth_refresh_token_validity", "comment", "owner">>)
   EXCEPT !.needed = {"oauth_client"},
          !.fixed = {"type"},
          !.nullable = {"oauth_client_secret", "oauth_redirect_uri",
              "comment"},
          !.unfetchable = {"oauth_client_secret", "oauth_redirect_uri"}]

SnowservicesOAuthSecurityIntegration ==
  [Class("SnowservicesOAuthSecurityIntegration",
     <<"type", "oauth_client", "enabled", "comment", "owner">>)
   EXCEPT !.fixed = {"type", "oauth_client"},
          !.nullable = {"comment"}]

APIAuthenticationSecurityIntegration ==
  [Class("APIAuthenticationSecurityIntegration",
     <<"type", "auth_type", "enabled", "oauth_token_endpoint",
       "oauth_client_auth_method", "oauth_client_id", "oauth_client_secret",
       "oauth_grant", "oauth_access_token_validity", "oauth_allowed_scopes",
       "comment", "owner">>)
   EXCEPT !.fixed = {"type", "auth_type"},
          !.nullable = {"oauth_token_endpoint", "oauth_client_id",
              "oauth_client_secret", "oauth_grant",
              "oauth_access_token_validity", "oauth_allowed_scopes",
              "comment"},
          !.unfetchable = {"oauth_client_secret"}]

Sequence ==
  [Class("Sequence", <<"owner", "start", "increment", "comment">>)
   EXCEPT !.nullable = {"start", "increment", "comment"},
          !.clauses = {"start", "increment"}]

Service ==
  [Class("Service",
     <<"compute_pool", "stage", "yaml_file_stage_path", "specification",
       "external_access_integrations", "auto_resume", "min_instances",
       "max_instances", "query_warehouse", "comment">>)
   EXCEPT !.required = {"compute_pool"},
          !.nullable = {"stage", "yaml_file_stage_path", "specification",
              "external_access_integrations", "min_instances",
              "max_instances", "query_warehouse", "comment"},
          !.unfetchable = {"stage", "yaml_file_stage_path", "specification"},
          !.unrendered = {"stage", "yaml_file_stage_path"},
          !.clauses = {"compute_pool", "specification"},
          !.edition = {"ENTERPRISE"}]

SessionPolicy ==
  [Class("SessionPolicy",
     <<"session_idle_timeout_mins", "session_ui_idle_timeout_mins",
       "comment">>)
   EXCEPT !.nullable = {"session_idle_timeout_mins",
              "session_ui_idle_timeout_mins", "comment"}]

Share ==
  [Class("Share", <<"owner", "comment">>)
   EXCEPT !.nullable = {"comment"}]

InternalStage ==
  [Class("InternalStage",
     <<"owner", "type", "encryption", "directory", "comment">>)
   EXCEPT !.fixed = {"type"},
          !.nullable = {"encryption", "comment"},
          !.unfetchable = {"encryption"}]

ExternalStage ==
  [Class("ExternalStage",
     <<"url", "owner", "type", "storage_integration", "credentials",
       "encryption", "directory", "comment">>)
   EXCEPT !.required = {"url"},
          !.fixed = {"type"},
          !.nullable = {"storage_integration", "credentials", "encryption",
              "comment"},
          !.unfetchable = {"credentials", "encryption"}]

S3StorageIntegration ==
  [Class("S3StorageIntegration",
     <<"enabled", "storage_aws_role_arn", "storage_allowed_locations",
       "storage_blocked_locations", "storage_provider",
       "storage_aws_object_acl", "type", "owner", "comment">>)
   EXCEPT !.required = {"enabled", "storage_aws_role_arn",
              "storage_allowed_locations"},
          !.fixed = {"storage_provider", "type"},
          !.nullable = {"storage_blocked_locations", "storage_aws_object_acl",
              "comment"}]

GCSStorageIntegration ==
  [Class("GCSStorageIntegration",
     <<"enabled", "storage_allowed_locations", "storage_blocked_locations",
       "storage_provider", "type", "owner", "comment">>)
   EXCEPT !.required = {"enabled", "storage_allowed_locations"},
          !.fixed = {"storage_provider", "type"},
          !.nullable = {"storage_blocked_locations", "comment"}]

AzureStorageIntegration ==
  [Class("AzureStorageIntegration",
     <<"enabled", "azure_tenant_id", "storage_allowed_locations",
       "storage_blocked_locations", "storage_provider", "type", "owner",
       "comment">>)
   EXCEPT !.required = {"enabled", "azure_tenant_id",
              "storage_allowed_locations"},
          !.fixed = {"storage_provider", "type"},
          !.nullable = {"storage_blocked_locations", "comment"}]

TableStream ==
  [Class("TableStream",
     <<"on_table", "owner", "copy_grants", "at", "before", "append_only",
       "show_initial_rows", "comment">>)
   EXCEPT !.required = {"on_table"},
          !.nullable = {"copy_grants", "at", "before", "show_initial_rows",
              "comment"},
          !.unfetchable = {"copy_grants", "at", "before",
              "show_initial_rows"},
          !.clauses = {"on_table", "at", "before"},
          !.flags = {"copy_grants"}]

StageStream ==
  [Class("StageStream", <<"on_stage", "owner", "copy_grants", "comment">>)
   EXCEPT !.required = {"on_stage"},
          !.nullable = {"copy_grants", "comment"},
          !.unfetchable = {"copy_grants"},
          !.clauses = {"on_stage"},
          !.flags = {"copy_grants"}]

ViewStream ==
  [Class("ViewStream",
     <<"on_view", "owner", "copy_grants", "at", "before", "append_only",
       "show_initial_rows", "comment">>)
   EXCEPT !.required = {"on_view"},
          !.nullable = {"copy_grants", "at", "before", "show_initial_rows",
              "comment"},
          !.unfetchable = {"copy_grants", "at", "before",
              "show_initial_rows"},
          !.clauses = {"on_view", "at", "before"},
          !.flags = {"copy_grants"}]

Table ==
  [Class("Table",
     <<"columns", "constraints", "transient", "cluster_by",
       "enable_schema_evolution", "data_retention_time_in_days",
       "max_data_extension_time_in_days", "change_tracking",
       "default_ddl_collation", "copy_grants", "row_access_policy", "owner",
       "comment">>)
   EXCEPT !.required = {"columns"},
          !.nullable = {"constraints", "cluster_by",
              "data_retention_time_in_days",
              "max_data_extension_time_in_days", "default_ddl_collation",
              "copy_grants", "row_access_policy", "comment"},
          !.unfetchable = {"copy_grants"},
          !.lifecycle = {"columns"},
          !.unrendered = {"constraints", "row_access_policy"},
          !.clauses = {"columns", "cluster_by"},
          !.flags = {"transient", "copy_grants"}]

Tag ==
  [Class("Tag", <<"owner", "comment", "allowed_values">>)
   EXCEPT !.nullable = {"comment", "allowed_values"},
          !.clauses = {"allowed_values"},
          !.edition = {"ENTERPRISE"}]

TagReference ==
  [Class("TagReference", <<"object_name", "object_domain", "tags">>)
   EXCEPT !.required = {"tags"},
          !.fixed = {"object_name", "object_domain"},
          !.unrendered = {"tags"},
          !.edition = {"ENTERPRISE"}]

Task ==
  [Class("Task",
     <<"owner", "warehouse", "user_task_managed_initial_warehouse_size",
       "schedule", "config", "allow_overlapping_execution",
       "user_task_timeout_ms", "suspend_task_after_num_failures",
       "error_integration", "copy_grants", "comment", "after", "when",
       "state", "as_">>)
   EXCEPT !.needed = {"as_"},
          !.nullable = {"warehouse", "schedule", "config",
              "error_integration", "copy_grants", "comment", "after", "when"},
          !.unfetchable = {"copy_grants"},
          !.unrendered = {"state"},
          !.clauses = {"after", "when", "as_"},
          !.flags = {"copy_grants"},
          !.exclusive = {{"warehouse",
              "user_task_managed_initial_warehouse_size"}}]

User ==
  [Class("User",
     <<"owner", "password", "login_name", "display_name", "first_name",
       "middle_name", "last_name", "email", "must_change_password",
       "disabled", "days_to_expiry", "mins_to_unlock", "default_warehouse",
       "default_namespace", "default_role", "default_secondary_roles",
       "mins_to_bypass_mfa", "rsa_public_key", "rsa_public_key_2", "comment",
       "network_policy", "type">>)
   EXCEPT !.nullable = {"password", "first_name", "middle_name", "last_name",
              "email", "days_to_expiry", "mins_to_unlock",
              "default_warehouse", "default_namespace", "default_role",
              "default_secondary_roles", "mins_to_bypass_mfa",
              "rsa_public_key", "rsa_public_key_2", "comment",
              "network_policy"},
          !.unfetchable = {"password", "days_to_expiry", "mins_to_unlock",
              "mins_to_bypass_mfa"}]

View ==
  [Class("View",
     <<"owner", "secure", "volatile", "recursive", "columns",
       "change_tracking", "copy_grants", "comment", "as_">>)
   EXCEPT !.needed = {"as_"},
          !.nullable = {"volatile", "recursive", "columns", "comment"},
          !.unfetchable = {"copy_grants"},
          !.lifecycle = {"columns"},
          !.clauses = {"columns", "as_"},
          !.flags = {"secure", "volatile", "recursive", "copy_grants"}]

Warehouse ==
  [Class("Warehouse",
     <<"owner", "warehouse_type", "warehouse_size", "max_cluster_count",
       "min_cluster_count", "scaling_policy", "auto_suspend", "auto_resume",
       "initially_suspended", "resource_monitor", "comment",
       "enable_query_acceleration", "query_acceleration_max_scale_factor",
       "max_concurrency_level", "statement_queued_timeout_in_seconds",
       "statement_timeout_in_seconds">>)
   EXCEPT !.nullable = {"resource_monitor", "comment"},
          !.unfetchable = {"initially_suspended"},
          !.enterprise = {"max_cluster_count", "min_cluster_count",
              "scaling_policy", "enable_query_acceleration",
              "query_acceleration_max_scale_factor"}]

\* Every class a blueprint of these can hold.
Catalogue ==
  {AccountParameter, AggregationPolicy, Alert, APIIntegration,
   AuthenticationPolicy, GlueCatalogIntegration,
   ObjectStoreCatalogIntegration, ComputePool, Database, DynamicTable,
   EventTable, ExternalAccessIntegration, ExternalFunction, ExternalVolume,
   FailoverGroup, CSVFileFormat, JSONFileFormat, ParquetFileFormat,
   JavascriptUDF, PythonUDF, HybridTable, SnowflakeIcebergTable,
   ImageRepository, MaskingPolicy, MaterializedView, NetworkPolicy,
   NetworkRule, Notebook, EmailNotificationIntegration,
   AWSOutboundNotificationIntegration, GCPOutboundNotificationIntegration,
   AzureOutboundNotificationIntegration, GCPInboundNotificationIntegration,
   AzureInboundNotificationIntegration, PackagesPolicy, PasswordPolicy,
   Pipe, PythonStoredProcedure, ReplicationGroup, ResourceMonitor, Role,
   DatabaseRole, ScannerPackage, Schema, PasswordSecret, GenericSecret,
   OAuthSecret, SnowflakePartnerOAuthSecurityIntegration,
   SnowservicesOAuthSecurityIntegration,
   APIAuthenticationSecurityIntegration, Sequence, Service, SessionPolicy,
   Share, InternalStage, ExternalStage, S3StorageIntegration,
   GCSStorageIntegration, AzureStorageIntegration, TableStream, StageStream,
   ViewStream, Table, Tag, TagReference, Task, User, View, Warehouse}
=============================================================================
