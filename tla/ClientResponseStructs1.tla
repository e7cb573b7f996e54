----------------------- MODULE ClientResponseStructs1 -----------------------
(***************************************************************************)
(* The struct declarations generated for the Responses of the first half of *)
(* the patterns, AUDIT_LOG_LIST_RESPONSE to GET_USER_RESPONSE,             *)
(* of src/generated/client.ts (lines 8859-9318), given as the Request      *)
(* declarations are.                                                       *)
(***************************************************************************)
EXTENDS ShapeTypes

\* AUDIT_LOG_LIST_RESPONSE__MOGENIUS_OPERATOR_SRC_CORE_RESPONSE
AUDIT_LOG_LIST_RESPONSE__MOGENIUS_OPERATOR_SRC_CORE_RESPONSE == [name |-> <<"AUDIT_LOG_LIST_RESPONSE__MOGENIUS_OPERATOR_SRC_CORE_RESPONSE">>, fields |-> <<<<"data", <<"AUDIT_LOG_LIST_RESPONSE__MOGENIUS_OPERATOR_SRC_STORE_AUDITLOGRESPONSE">>>>, <<"message", <<"string">>>>, <<"status", <<"string">>>>>>]

\* AUDIT_LOG_LIST_RESPONSE__MOGENIUS_OPERATOR_SRC_CORE_RESULTMOGENIUS_OPERATOR_SRC_CORE_REQUEST34_MOGENIUS_OPERATOR_SRC_CORE_RESPONSE35
AUDIT_LOG_LIST_RESPONSE__MOGENIUS_OPERATOR_SRC_CORE_RESULTMOGENIUS_OPERATOR_SRC_CORE_REQUEST34_MOGENIUS_OPERATOR_SRC_CORE_RESPONSE35 == [name |-> <<"AUDIT_LOG_LIST_RESPONSE__MOGENIUS_OPERATOR_SRC_CORE_RESULTMOGENIUS_OPERATOR_SRC_CORE_REQUEST34_MOGENIUS_OPERATOR_SRC_CORE_RESPONSE35">>, fields |-> <<<<"data", <<"AUDIT_LOG_LIST_RESPONSE__MOGENIUS_OPERATOR_SRC_CORE_RESPONSE">>>>, <<"message", <<"string">>>>, <<"status", <<"string">>>>>>]

\* AUDIT_LOG_LIST_RESPONSE__MOGENIUS_OPERATOR_SRC_STORE_AUDITLOGENTRY
AUDIT_LOG_LIST_RESPONSE__MOGENIUS_OPERATOR_SRC_STORE_AUDITLOGENTRY == [name |-> <<"AUDIT_LOG_LIST_RESPONSE__MOGENIUS_OPERATOR_SRC_STORE_AUDITLOGENTRY">>, fields |-> <<<<"createdAt", <<"AUDIT_LOG_LIST_RESPONSE__TIME_TIME">>>>, <<"diff", <<"string">>>>, <<"error", <<"string">>>>, <<"pattern", <<"string">>>>, <<"payload", <<"any">>>>, <<"result", <<"any">>>>, <<"user", <<"AUDIT_LOG_LIST_RESPONSE__MOGENIUS_OPERATOR_SRC_STRUCTS_USER">>>>, <<"workspace", <<"string">>>>>>]

\* A generator slip: the declaration without its last field.
AuditLogResponseDroppedField == [name |-> <<"AUDIT_LOG_LIST_RESPONSE__MOGENIUS_OPERATOR_SRC_STORE_AUDITLOGRESPONSE">>, fields |-> <<<<"data", <<"AUDIT_LOG_LIST_RESPONSE__MOGENIUS_OPERATOR_SRC_STORE_AUDITLOGENTRY", "[]">>>>>>]

\* AUDIT_LOG_LIST_RESPONSE__MOGENIUS_OPERATOR_SRC_STORE_AUDITLOGRESPONSE
AUDIT_LOG_LIST_RESPONSE__MOGENIUS_OPERATOR_SRC_STORE_AUDITLOGRESPONSE == [name |-> <<"AUDIT_LOG_LIST_RESPONSE__MOGENIUS_OPERATOR_SRC_STORE_AUDITLOGRESPONSE">>, fields |-> <<<<"data", <<"AUDIT_LOG_LIST_RESPONSE__MOGENIUS_OPERATOR_SRC_STORE_AUDITLOGENTRY", "[]">>>>, <<"totalCount", <<"number">>>>>>]

\* AUDIT_LOG_LIST_RESPONSE__MOGENIUS_OPERATOR_SRC_STRUCTS_USER
AUDIT_LOG_LIST_RESPONSE__MOGENIUS_OPERATOR_SRC_STRUCTS_USER == [name |-> <<"AUDIT_LOG_LIST_RESPONSE__MOGENIUS_OPERATOR_SRC_STRUCTS_USER">>, fields |-> <<<<"email", <<"string">>>>, <<"firstName", <<"string">>>>, <<"lastName", <<"string">>>>, <<"source", <<"string">>>>>>]

\* AUDIT_LOG_LIST_RESPONSE__TIME_TIME
AUDIT_LOG_LIST_RESPONSE__TIME_TIME == [name |-> <<"AUDIT_LOG_LIST_RESPONSE__TIME_TIME">>, fields |-> <<>>]

\* CLUSTER_ARGO_CD_APPLICATION_REFRESH_RESPONSE__MOGENIUS_OPERATOR_SRC_CORE_RESULTMOGENIUS_OPERATOR_SRC_ARGOCD_ARGOCDAPPLICATIONREFRESHREQUEST_BOOL
CLUSTER_ARGO_CD_APPLICATION_REFRESH_RESPONSE__MOGENIUS_OPERATOR_SRC_CORE_RESULTMOGENIUS_OPERATOR_SRC_ARGOCD_ARGOCDAPPLICATIONREFRESHREQUEST_BOOL == [name |-> <<"CLUSTER_ARGO_CD_APPLICATION_REFRESH_RESPONSE__MOGENIUS_OPERATOR_SRC_CORE_RESULTMOGENIUS_OPERATOR_SRC_ARGOCD_ARGOCDAPPLICATIONREFRESHREQUEST_BOOL">>, fields |-> <<<<"data", <<"boolean">>>>, <<"message", <<"string">>>>, <<"status", <<"string">>>>>>]

\* CLUSTER_ARGO_CD_CREATE_API_TOKEN_RESPONSE__MOGENIUS_OPERATOR_SRC_CORE_RESULTMOGENIUS_OPERATOR_SRC_ARGOCD_ARGOCDCREATEAPITOKENREQUEST_BOOL
CLUSTER_ARGO_CD_CREATE_API_TOKEN_RESPONSE__MOGENIUS_OPERATOR_SRC_CORE_RESULTMOGENIUS_OPERATOR_SRC_ARGOCD_ARGOCDCREATEAPITOKENREQUEST_BOOL == [name |-> <<"CLUSTER_ARGO_CD_CREATE_API_TOKEN_RESPONSE__MOGENIUS_OPERATOR_SRC_CORE_RESULTMOGENIUS_OPERATOR_SRC_ARGOCD_ARGOCDCREATEAPITOKENREQUEST_BOOL">>, fields |-> <<<<"data", <<"boolean">>>>, <<"message", <<"string">>>>, <<"status", <<"string">>>>>>]

\* CLUSTER_CLEAR_VALKEY_CACHE_RESPONSE__MOGENIUS_OPERATOR_SRC_CORE_RESULTMOGENIUS_OPERATOR_SRC_CORE_REQUEST5_STRING
CLUSTER_CLEAR_VALKEY_CACHE_RESPONSE__MOGENIUS_OPERATOR_SRC_CORE_RESULTMOGENIUS_OPERATOR_SRC_CORE_REQUEST5_STRING == [name |-> <<"CLUSTER_CLEAR_VALKEY_CACHE_RESPONSE__MOGENIUS_OPERATOR_SRC_CORE_RESULTMOGENIUS_OPERATOR_SRC_CORE_REQUEST5_STRING">>, fields |-> <<<<"data", <<"string">>>>, <<"message", <<"string">>>>, <<"status", <<"string">>>>>>]

\* CLUSTER_COMPONENT_LOG_STREAM_CONNECTION_REQUEST_RESPONSE__ANON_STRUCT_1
CLUSTER_COMPONENT_LOG_STREAM_CONNECTION_REQUEST_RESPONSE__ANON_STRUCT_1 == [name |-> <<"CLUSTER_COMPONENT_LOG_STREAM_CONNECTION_REQUEST_RESPONSE__ANON_STRUCT_1">>, fields |-> <<>>]

\* CLUSTER_COMPONENT_LOG_STREAM_CONNECTION_REQUEST_RESPONSE__MOGENIUS_OPERATOR_SRC_CORE_RESULTMOGENIUS_OPERATOR_SRC_XTERM_COMPONENTLOGCONNECTIONREQUEST_MOGENIUS_OPERATOR_SRC_CORE_VOID
CLUSTER_COMPONENT_LOG_STREAM_CONNECTION_REQUEST_RESPONSE__MOGENIUS_OPERATOR_SRC_CORE_RESULTMOGENIUS_OPERATOR_SRC_XTERM_COMPONENTLOGCONNECTIONREQUEST_MOGENIUS_OPERATOR_SRC_CORE_VOID == [name |-> <<"CLUSTER_COMPONENT_LOG_STREAM_CONNECTION_REQUEST_RESPONSE__MOGENIUS_OPERATOR_SRC_CORE_RESULTMOGENIUS_OPERATOR_SRC_XTERM_COMPONENTLOGCONNECTIONREQUEST_MOGENIUS_OPERATOR_SRC_CORE_VOID">>, fields |-> <<<<"data", <<"CLUSTER_COMPONENT_LOG_STREAM_CONNECTION_REQUEST_RESPONSE__ANON_STRUCT_1", "|", "undefined">>>>, <<"message", <<"string">>>>, <<"status", <<"string">>>>>>]

\* CLUSTER_FORCE_DISCONNECT_RESPONSE__MOGENIUS_OPERATOR_SRC_CORE_RESULTMOGENIUS_OPERATOR_SRC_CORE_VOID_BOOL
CLUSTER_FORCE_DISCONNECT_RESPONSE__MOGENIUS_OPERATOR_SRC_CORE_RESULTMOGENIUS_OPERATOR_SRC_CORE_VOID_BOOL == [name |-> <<"CLUSTER_FORCE_DISCONNECT_RESPONSE__MOGENIUS_OPERATOR_SRC_CORE_RESULTMOGENIUS_OPERATOR_SRC_CORE_VOID_BOOL">>, fields |-> <<<<"data", <<"boolean">>>>, <<"message", <<"string">>>>, <<"status", <<"string">>>>>>]

\* CLUSTER_FORCE_RECONNECT_RESPONSE__MOGENIUS_OPERATOR_SRC_CORE_RESULTMOGENIUS_OPERATOR_SRC_CORE_VOID_BOOL
CLUSTER_FORCE_RECONNECT_RESPONSE__MOGENIUS_OPERATOR_SRC_CORE_RESULTMOGENIUS_OPERATOR_SRC_CORE_VOID_BOOL == [name |-> <<"CLUSTER_FORCE_RECONNECT_RESPONSE__MOGENIUS_OPERATOR_SRC_CORE_RESULTMOGENIUS_OPERATOR_SRC_CORE_VOID_BOOL">>, fields |-> <<<<"data", <<"boolean">>>>, <<"message", <<"string">>>>, <<"status", <<"string">>>>>>]

\* CLUSTER_HELM_CHART_INSTALL_RESPONSE__MOGENIUS_OPERATOR_SRC_CORE_RESULTMOGENIUS_OPERATOR_SRC_HELM_HELMCHARTINSTALLUPGRADEREQUEST_STRING
CLUSTER_HELM_CHART_INSTALL_RESPONSE__MOGENIUS_OPERATOR_SRC_CORE_RESULTMOGENIUS_OPERATOR_SRC_HELM_HELMCHARTINSTALLUPGRADEREQUEST_STRING == [name |-> <<"CLUSTER_HELM_CHART_INSTALL_RESPONSE__MOGENIUS_OPERATOR_SRC_CORE_RESULTMOGENIUS_OPERATOR_SRC_HELM_HELMCHARTINSTALLUPGRADEREQUEST_STRING">>, fields |-> <<<<"data", <<"string">>>>, <<"message", <<"string">>>>, <<"status", <<"string">>>>>>]

\* CLUSTER_HELM_CHART_INSTALL_OCI_RESPONSE__MOGENIUS_OPERATOR_SRC_CORE_RESULTMOGENIUS_OPERATOR_SRC_HELM_HELMCHARTOCIINSTALLUPGRADEREQUEST_STRING
CLUSTER_HELM_CHART_INSTALL_OCI_RESPONSE__MOGENIUS_OPERATOR_SRC_CORE_RESULTMOGENIUS_OPERATOR_SRC_HELM_HELMCHARTOCIINSTALLUPGRADEREQUEST_STRING == [name |-> <<"CLUSTER_HELM_CHART_INSTALL_OCI_RESPONSE__MOGENIUS_OPERATOR_SRC_CORE_RESULTMOGENIUS_OPERATOR_SRC_HELM_HELMCHARTOCIINSTALLUPGRADEREQUEST_STRING">>, fields |-> <<<<"data", <<"string">>>>, <<"message", <<"string">>>>, <<"status", <<"string">>>>>>]

\* CLUSTER_HELM_CHART_REMOVE_RESPONSE__MOGENIUS_OPERATOR_SRC_CORE_RESULTMOGENIUS_OPERATOR_SRC_HELM_HELMREPOREMOVEREQUEST_STRING
CLUSTER_HELM_CHART_REMOVE_RESPONSE__MOGENIUS_OPERATOR_SRC_CORE_RESULTMOGENIUS_OPERATOR_SRC_HELM_HELMREPOREMOVEREQUEST_STRING == [name |-> <<"CLUSTER_HELM_CHART_REMOVE_RESPONSE__MOGENIUS_OPERATOR_SRC_CORE_RESULTMOGENIUS_OPERATOR_SRC_HELM_HELMREPOREMOVEREQUEST_STRING">>, fields |-> <<<<"data", <<"string">>>>, <<"message", <<"string">>>>, <<"status", <<"string">>>>>>]

\* CLUSTER_HELM_CHART_SEARCH_RESPONSE__MOGENIUS_OPERATOR_SRC_CORE_RESULTMOGENIUS_OPERATOR_SRC_HELM_HELMCHARTSEARCHREQUEST_MOGENIUS_OPERATOR_SRC_HELM_HELMCHARTINFO
CLUSTER_HELM_CHART_SEARCH_RESPONSE__MOGENIUS_OPERATOR_SRC_CORE_RESULTMOGENIUS_OPERATOR_SRC_HELM_HELMCHARTSEARCHREQUEST_MOGENIUS_OPERATOR_SRC_HELM_HELMCHARTINFO == [name |-> <<"CLUSTER_HELM_CHART_SEARCH_RESPONSE__MOGENIUS_OPERATOR_SRC_CORE_RESULTMOGENIUS_OPERATOR_SRC_HELM_HELMCHARTSEARCHREQUEST_MOGENIUS_OPERATOR_SRC_HELM_HELMCHARTINFO">>, fields |-> <<<<"data", <<"CLUSTER_HELM_CHART_SEARCH_RESPONSE__MOGENIUS_OPERATOR_SRC_HELM_HELMCHARTINFO", "[]">>>>, <<"message", <<"string">>>>, <<"status", <<"string">>>>>>]

\* CLUSTER_HELM_CHART_SEARCH_RESPONSE__MOGENIUS_OPERATOR_SRC_HELM_HELMCHARTINFO
CLUSTER_HELM_CHART_SEARCH_RESPONSE__MOGENIUS_OPERATOR_SRC_HELM_HELMCHARTINFO == [name |-> <<"CLUSTER_HELM_CHART_SEARCH_RESPONSE__MOGENIUS_OPERATOR_SRC_HELM_HELMCHARTINFO">>, fields |-> <<<<"app_version", <<"string">>>>, <<"description", <<"string">>>>, <<"name", <<"string">>>>, <<"version", <<"string">>>>>>]

\* CLUSTER_HELM_CHART_SHOW_RESPONSE__MOGENIUS_OPERATOR_SRC_CORE_RESULTMOGENIUS_OPERATOR_SRC_HELM_HELMCHARTSHOWREQUEST_STRING
CLUSTER_HELM_CHART_SHOW_RESPONSE__MOGENIUS_OPERATOR_SRC_CORE_RESULTMOGENIUS_OPERATOR_SRC_HELM_HELMCHARTSHOWREQUEST_STRING == [name |-> <<"CLUSTER_HELM_CHART_SHOW_RESPONSE__MOGENIUS_OPERATOR_SRC_CORE_RESULTMOGENIUS_OPERATOR_SRC_HELM_HELMCHARTSHOWREQUEST_STRING">>, fields |-> <<<<"data", <<"string">>>>, <<"message", <<"string">>>>, <<"status", <<"string">>>>>>]

\* CLUSTER_HELM_CHART_VERSIONS_RESPONSE__MOGENIUS_OPERATOR_SRC_CORE_RESULTMOGENIUS_OPERATOR_SRC_HELM_HELMCHARTVERSIONREQUEST_MOGENIUS_OPERATOR_SRC_HELM_HELMCHARTINFO
CLUSTER_HELM_CHART_VERSIONS_RESPONSE__MOGENIUS_OPERATOR_SRC_CORE_RESULTMOGENIUS_OPERATOR_SRC_HELM_HELMCHARTVERSIONREQUEST_MOGENIUS_OPERATOR_SRC_HELM_HELMCHARTINFO == [name |-> <<"CLUSTER_HELM_CHART_VERSIONS_RESPONSE__MOGENIUS_OPERATOR_SRC_CORE_RESULTMOGENIUS_OPERATOR_SRC_HELM_HELMCHARTVERSIONREQUEST_MOGENIUS_OPERATOR_SRC_HELM_HELMCHARTINFO">>, fields |-> <<<<"data", <<"CLUSTER_HELM_CHART_VERSIONS_RESPONSE__MOGENIUS_OPERATOR_SRC_HELM_HELMCHARTINFO", "[]">>>>, <<"message", <<"string">>>>, <<"status", <<"string">>>>>>]

\* CLUSTER_HELM_CHART_VERSIONS_RESPONSE__MOGENIUS_OPERATOR_SRC_HELM_HELMCHARTINFO
CLUSTER_HELM_CHART_VERSIONS_RESPONSE__MOGENIUS_OPERATOR_SRC_HELM_HELMCHARTINFO == [name |-> <<"CLUSTER_HELM_CHART_VERSIONS_RESPONSE__MOGENIUS_OPERATOR_SRC_HELM_HELMCHARTINFO">>, fields |-> <<<<"app_version", <<"string">>>>, <<"description", <<"string">>>>, <<"name", <<"string">>>>, <<"version", <<"string">>>>>>]

\* CLUSTER_HELM_RELEASE_GET_RESPONSE__MOGENIUS_OPERATOR_SRC_CORE_RESULTMOGENIUS_OPERATOR_SRC_HELM_HELMRELEASEGETREQUEST_STRING
CLUSTER_HELM_RELEASE_GET_RESPONSE__MOGENIUS_OPERATOR_SRC_CORE_RESULTMOGENIUS_OPERATOR_SRC_HELM_HELMRELEASEGETREQUEST_STRING == [name |-> <<"CLUSTER_HELM_RELEASE_GET_RESPONSE__MOGENIUS_OPERATOR_SRC_CORE_RESULTMOGENIUS_OPERATOR_SRC_HELM_HELMRELEASEGETREQUEST_STRING">>, fields |-> <<<<"data", <<"string">>>>, <<"message", <<"string">>>>, <<"status", <<"string">>>>>>]

\* CLUSTER_HELM_RELEASE_GET_WORKLOADS_RESPONSE__K8S_IO_APIMACHINERY_PKG_APIS_META_V1_UNSTRUCTURED_UNSTRUCTURED
CLUSTER_HELM_RELEASE_GET_WORKLOADS_RESPONSE__K8S_IO_APIMACHINERY_PKG_APIS_META_V1_UNSTRUCTURED_UNSTRUCTURED == [name |-> <<"CLUSTER_HELM_RELEASE_GET_WORKLOADS_RESPONSE__K8S_IO_APIMACHINERY_PKG_APIS_META_V1_UNSTRUCTURED_UNSTRUCTURED">>, fields |-> <<<<"Object", <<"Record", "<", "string", ",", "any", ">">>>>>>]

\* CLUSTER_HELM_RELEASE_GET_WORKLOADS_RESPONSE__MOGENIUS_OPERATOR_SRC_CORE_RESULTMOGENIUS_OPERATOR_SRC_HELM_HELMRELEASEGETWORKLOADSREQUEST_K8S_IO_APIMACHINERY_PKG_APIS_META_V1_UNSTRUCTURED_UNSTRUCTURED
CLUSTER_HELM_RELEASE_GET_WORKLOADS_RESPONSE__MOGENIUS_OPERATOR_SRC_CORE_RESULTMOGENIUS_OPERATOR_SRC_HELM_HELMRELEASEGETWORKLOADSREQUEST_K8S_IO_APIMACHINERY_PKG_APIS_META_V1_UNSTRUCTURED_UNSTRUCTURED == [name |-> <<"CLUSTER_HELM_RELEASE_GET_WORKLOADS_RESPONSE__MOGENIUS_OPERATOR_SRC_CORE_RESULTMOGENIUS_OPERATOR_SRC_HELM_HELMRELEASEGETWORKLOADSREQUEST_K8S_IO_APIMACHINERY_PKG_APIS_META_V1_UNSTRUCTURED_UNSTRUCTURED">>, fields |-> <<<<"data", <<"CLUSTER_HELM_RELEASE_GET_WORKLOADS_RESPONSE__K8S_IO_APIMACHINERY_PKG_APIS_META_V1_UNSTRUCTURED_UNSTRUCTURED", "[]">>>>, <<"message", <<"string">>>>, <<"status", <<"string">>>>>>]

\* CLUSTER_HELM_RELEASE_HISTORY_RESPONSE__HELM_SH_HELM_V4_PKG_CHART_COMMON_FILE
CLUSTER_HELM_RELEASE_HISTORY_RESPONSE__HELM_SH_HELM_V4_PKG_CHART_COMMON_FILE == [name |-> <<"CLUSTER_HELM_RELEASE_HISTORY_RESPONSE__HELM_SH_HELM_V4_PKG_CHART_COMMON_FILE">>, fields |-> <<<<"data", <<"number", "[]">>>>, <<"modtime", <<"CLUSTER_HELM_RELEASE_HISTORY_RESPONSE__TIME_TIME">>>>, <<"name", <<"string">>>>>>]

\* CLUSTER_HELM_RELEASE_HISTORY_RESPONSE__HELM_SH_HELM_V4_PKG_CHART_V2_CHART
CLUSTER_HELM_RELEASE_HISTORY_RESPONSE__HELM_SH_HELM_V4_PKG_CHART_V2_CHART == [name |-> <<"CLUSTER_HELM_RELEASE_HISTORY_RESPONSE__HELM_SH_HELM_V4_PKG_CHART_V2_CHART">>, fields |-> <<<<"files", <<"CLUSTER_HELM_RELEASE_HISTORY_RESPONSE__HELM_SH_HELM_V4_PKG_CHART_COMMON_FILE", "|", "undefined", "[]">>>>, <<"lock", <<"CLUSTER_HELM_RELEASE_HISTORY_RESPONSE__HELM_SH_HELM_V4_PKG_CHART_V2_LOCK", "|", "undefined">>>>, <<"metadata", <<"CLUSTER_HELM_RELEASE_HISTORY_RESPONSE__HELM_SH_HELM_V4_PKG_CHART_V2_METADATA", "|", "undefined">>>>, <<"modtime", <<"CLUSTER_HELM_RELEASE_HISTORY_RESPONSE__TIME_TIME">>>>, <<"schema", <<"number", "[]">>>>, <<"schemamodtime", <<"CLUSTER_HELM_RELEASE_HISTORY_RESPONSE__TIME_TIME">>>>, <<"templates", <<"CLUSTER_HELM_RELEASE_HISTORY_RESPONSE__HELM_SH_HELM_V4_PKG_CHART_COMMON_FILE", "|", "undefined", "[]">>>>, <<"values", <<"Record", "<", "string", ",", "any", ">">>>>>>]

\* CLUSTER_HELM_RELEASE_HISTORY_RESPONSE__HELM_SH_HELM_V4_PKG_CHART_V2_DEPENDENCY
CLUSTER_HELM_RELEASE_HISTORY_RESPONSE__HELM_SH_HELM_V4_PKG_CHART_V2_DEPENDENCY == [name |-> <<"CLUSTER_HELM_RELEASE_HISTORY_RESPONSE__HELM_SH_HELM_V4_PKG_CHART_V2_DEPENDENCY">>, fields |-> <<<<"alias", <<"string">>>>, <<"condition", <<"string">>>>, <<"enabled", <<"boolean">>>>, <<"import-values", <<"any", "[]">>>>, <<"name", <<"string">>>>, <<"repository", <<"string">>>>, <<"tags", <<"string", "[]">>>>, <<"version", <<"string">>>>>>]

\* CLUSTER_HELM_RELEASE_HISTORY_RESPONSE__HELM_SH_HELM_V4_PKG_CHART_V2_LOCK
CLUSTER_HELM_RELEASE_HISTORY_RESPONSE__HELM_SH_HELM_V4_PKG_CHART_V2_LOCK == [name |-> <<"CLUSTER_HELM_RELEASE_HISTORY_RESPONSE__HELM_SH_HELM_V4_PKG_CHART_V2_LOCK">>, fields |-> <<<<"dependencies", <<"CLUSTER_HELM_RELEASE_HISTORY_RESPONSE__HELM_SH_HELM_V4_PKG_CHART_V2_DEPENDENCY", "|", "undefined", "[]">>>>, <<"digest", <<"string">>>>, <<"generated", <<"CLUSTER_HELM_RELEASE_HISTORY_RESPONSE__TIME_TIME">>>>>>]

\* CLUSTER_HELM_RELEASE_HISTORY_RESPONSE__HELM_SH_HELM_V4_PKG_CHART_V2_MAINTAINER
CLUSTER_HELM_RELEASE_HISTORY_RESPONSE__HELM_SH_HELM_V4_PKG_CHART_V2_MAINTAINER == [name |-> <<"CLUSTER_HELM_RELEASE_HISTORY_RESPONSE__HELM_SH_HELM_V4_PKG_CHART_V2_MAINTAINER">>, fields |-> <<<<"email", <<"string">>>>, <<"name", <<"string">>>>, <<"url", <<"string">>>>>>]

\* CLUSTER_HELM_RELEASE_HISTORY_RESPONSE__HELM_SH_HELM_V4_PKG_CHART_V2_METADATA
CLUSTER_HELM_RELEASE_HISTORY_RESPONSE__HELM_SH_HELM_V4_PKG_CHART_V2_METADATA == [name |-> <<"CLUSTER_HELM_RELEASE_HISTORY_RESPONSE__HELM_SH_HELM_V4_PKG_CHART_V2_METADATA">>, fields |-> <<<<"annotations", <<"Record", "<", "string", ",", "string", ">">>>>, <<"apiVersion", <<"string">>>>, <<"appVersion", <<"string">>>>, <<"condition", <<"string">>>>, <<"dependencies", <<"CLUSTER_HELM_RELEASE_HISTORY_RESPONSE__HELM_SH_HELM_V4_PKG_CHART_V2_DEPENDENCY", "|", "undefined", "[]">>>>, <<"deprecated", <<"boolean">>>>, <<"description", <<"string">>>>, <<"home", <<"string">>>>, <<"icon", <<"string">>>>, <<"keywords", <<"string", "[]">>>>, <<"kubeVersion", <<"string">>>>, <<"maintainers", <<"CLUSTER_HELM_RELEASE_HISTORY_RESPONSE__HELM_SH_HELM_V4_PKG_CHART_V2_MAINTAINER", "|", "undefined", "[]">>>>, <<"name", <<"string">>>>, <<"sources", <<"string", "[]">>>>, <<"tags", <<"string">>>>, <<"type", <<"string">>>>, <<"version", <<"string">>>>>>]

\* CLUSTER_HELM_RELEASE_HISTORY_RESPONSE__HELM_SH_HELM_V4_PKG_RELEASE_V1_HOOK
CLUSTER_HELM_RELEASE_HISTORY_RESPONSE__HELM_SH_HELM_V4_PKG_RELEASE_V1_HOOK == [name |-> <<"CLUSTER_HELM_RELEASE_HISTORY_RESPONSE__HELM_SH_HELM_V4_PKG_RELEASE_V1_HOOK">>, fields |-> <<<<"delete_policies", <<"string", "[]">>>>, <<"events", <<"string", "[]">>>>, <<"kind", <<"string">>>>, <<"last_run", <<"CLUSTER_HELM_RELEASE_HISTORY_RESPONSE__HELM_SH_HELM_V4_PKG_RELEASE_V1_HOOKEXECUTION">>>>, <<"manifest", <<"string">>>>, <<"name", <<"string">>>>, <<"output_log_policies", <<"string", "[]">>>>, <<"path", <<"string">>>>, <<"weight", <<"number">>>>>>]

\* CLUSTER_HELM_RELEASE_HISTORY_RESPONSE__HELM_SH_HELM_V4_PKG_RELEASE_V1_HOOKEXECUTION
CLUSTER_HELM_RELEASE_HISTORY_RESPONSE__HELM_SH_HELM_V4_PKG_RELEASE_V1_HOOKEXECUTION == [name |-> <<"CLUSTER_HELM_RELEASE_HISTORY_RESPONSE__HELM_SH_HELM_V4_PKG_RELEASE_V1_HOOKEXECUTION">>, fields |-> <<<<"completed_at", <<"CLUSTER_HELM_RELEASE_HISTORY_RESPONSE__TIME_TIME">>>>, <<"phase", <<"string">>>>, <<"started_at", <<"CLUSTER_HELM_RELEASE_HISTORY_RESPONSE__TIME_TIME">>>>>>]

\* CLUSTER_HELM_RELEASE_HISTORY_RESPONSE__HELM_SH_HELM_V4_PKG_RELEASE_V1_INFO
CLUSTER_HELM_RELEASE_HISTORY_RESPONSE__HELM_SH_HELM_V4_PKG_RELEASE_V1_INFO == [name |-> <<"CLUSTER_HELM_RELEASE_HISTORY_RESPONSE__HELM_SH_HELM_V4_PKG_RELEASE_V1_INFO">>, fields |-> <<<<"deleted", <<"CLUSTER_HELM_RELEASE_HISTORY_RESPONSE__TIME_TIME">>>>, <<"description", <<"string">>>>, <<"first_deployed", <<"CLUSTER_HELM_RELEASE_HISTORY_RESPONSE__TIME_TIME">>>>, <<"last_deployed", <<"CLUSTER_HELM_RELEASE_HISTORY_RESPONSE__TIME_TIME">>>>, <<"notes", <<"string">>>>, <<"resources", <<"Record", "<", "string", ",", "any", "[]", ">">>>>, <<"status", <<"string">>>>>>]

\* CLUSTER_HELM_RELEASE_HISTORY_RESPONSE__HELM_SH_HELM_V4_PKG_RELEASE_V1_RELEASE
CLUSTER_HELM_RELEASE_HISTORY_RESPONSE__HELM_SH_HELM_V4_PKG_RELEASE_V1_RELEASE == [name |-> <<"CLUSTER_HELM_RELEASE_HISTORY_RESPONSE__HELM_SH_HELM_V4_PKG_RELEASE_V1_RELEASE">>, fields |-> <<<<"apply_method", <<"string">>>>, <<"chart", <<"CLUSTER_HELM_RELEASE_HISTORY_RESPONSE__HELM_SH_HELM_V4_PKG_CHART_V2_CHART", "|", "undefined">>>>, <<"config", <<"Record", "<", "string", ",", "any", ">">>>>, <<"hooks", <<"CLUSTER_HELM_RELEASE_HISTORY_RESPONSE__HELM_SH_HELM_V4_PKG_RELEASE_V1_HOOK", "|", "undefined", "[]">>>>, <<"info", <<"CLUSTER_HELM_RELEASE_HISTORY_RESPONSE__HELM_SH_HELM_V4_PKG_RELEASE_V1_INFO", "|", "undefined">>>>, <<"manifest", <<"string">>>>, <<"name", <<"string">>>>, <<"namespace", <<"string">>>>, <<"version", <<"number">>>>>>]

\* CLUSTER_HELM_RELEASE_HISTORY_RESPONSE__MOGENIUS_OPERATOR_SRC_CORE_RESULTMOGENIUS_OPERATOR_SRC_HELM_HELMRELEASEHISTORYREQUEST_HELM_SH_HELM_V4_PKG_RELEASE_V1_RELEASE
CLUSTER_HELM_RELEASE_HISTORY_RESPONSE__MOGENIUS_OPERATOR_SRC_CORE_RESULTMOGENIUS_OPERATOR_SRC_HELM_HELMRELEASEHISTORYREQUEST_HELM_SH_HELM_V4_PKG_RELEASE_V1_RELEASE == [name |-> <<"CLUSTER_HELM_RELEASE_HISTORY_RESPONSE__MOGENIUS_OPERATOR_SRC_CORE_RESULTMOGENIUS_OPERATOR_SRC_HELM_HELMRELEASEHISTORYREQUEST_HELM_SH_HELM_V4_PKG_RELEASE_V1_RELEASE">>, fields |-> <<<<"data", <<"CLUSTER_HELM_RELEASE_HISTORY_RESPONSE__HELM_SH_HELM_V4_PKG_RELEASE_V1_RELEASE", "[]">>>>, <<"message", <<"string">>>>, <<"status", <<"string">>>>>>]

\* CLUSTER_HELM_RELEASE_HISTORY_RESPONSE__TIME_TIME
CLUSTER_HELM_RELEASE_HISTORY_RESPONSE__TIME_TIME == [name |-> <<"CLUSTER_HELM_RELEASE_HISTORY_RESPONSE__TIME_TIME">>, fields |-> <<>>]

\* CLUSTER_HELM_RELEASE_LINK_RESPONSE__MOGENIUS_OPERATOR_SRC_CORE_RESULTMOGENIUS_OPERATOR_SRC_HELM_HELMRELEASELINKREQUEST_STRING
CLUSTER_HELM_RELEASE_LINK_RESPONSE__MOGENIUS_OPERATOR_SRC_CORE_RESULTMOGENIUS_OPERATOR_SRC_HELM_HELMRELEASELINKREQUEST_STRING == [name |-> <<"CLUSTER_HELM_RELEASE_LINK_RESPONSE__MOGENIUS_OPERATOR_SRC_CORE_RESULTMOGENIUS_OPERATOR_SRC_HELM_HELMRELEASELINKREQUEST_STRING">>, fields |-> <<<<"data", <<"string">>>>, <<"message", <<"string">>>>, <<"status", <<"string">>>>>>]

\* CLUSTER_HELM_RELEASE_LIST_RESPONSE__HELM_SH_HELM_V4_PKG_CHART_COMMON_FILE
CLUSTER_HELM_RELEASE_LIST_RESPONSE__HELM_SH_HELM_V4_PKG_CHART_COMMON_FILE == [name |-> <<"CLUSTER_HELM_RELEASE_LIST_RESPONSE__HELM_SH_HELM_V4_PKG_CHART_COMMON_FILE">>, fields |-> <<<<"data", <<"number", "[]">>>>, <<"modtime", <<"CLUSTER_HELM_RELEASE_LIST_RESPONSE__TIME_TIME">>>>, <<"name", <<"string">>>>>>]

\* CLUSTER_HELM_RELEASE_LIST_RESPONSE__HELM_SH_HELM_V4_PKG_CHART_V2_CHART
CLUSTER_HELM_RELEASE_LIST_RESPONSE__HELM_SH_HELM_V4_PKG_CHART_V2_CHART == [name |-> <<"CLUSTER_HELM_RELEASE_LIST_RESPONSE__HELM_SH_HELM_V4_PKG_CHART_V2_CHART">>, fields |-> <<<<"files", <<"CLUSTER_HELM_RELEASE_LIST_RESPONSE__HELM_SH_HELM_V4_PKG_CHART_COMMON_FILE", "|", "undefined", "[]">>>>, <<"lock", <<"CLUSTER_HELM_RELEASE_LIST_RESPONSE__HELM_SH_HELM_V4_PKG_CHART_V2_LOCK", "|", "undefined">>>>, <<"metadata", <<"CLUSTER_HELM_RELEASE_LIST_RESPONSE__HELM_SH_HELM_V4_PKG_CHART_V2_METADATA", "|", "undefined">>>>, <<"modtime", <<"CLUSTER_HELM_RELEASE_LIST_RESPONSE__TIME_TIME">>>>, <<"schema", <<"number", "[]">>>>, <<"schemamodtime", <<"CLUSTER_HELM_RELEASE_LIST_RESPONSE__TIME_TIME">>>>, <<"templates", <<"CLUSTER_HELM_RELEASE_LIST_RESPONSE__HELM_SH_HELM_V4_PKG_CHART_COMMON_FILE", "|", "undefined", "[]">>>>, <<"values", <<"Record", "<", "string", ",", "any", ">">>>>>>]

\* CLUSTER_HELM_RELEASE_LIST_RESPONSE__HELM_SH_HELM_V4_PKG_CHART_V2_DEPENDENCY
CLUSTER_HELM_RELEASE_LIST_RESPONSE__HELM_SH_HELM_V4_PKG_CHART_V2_DEPENDENCY == [name |-> <<"CLUSTER_HELM_RELEASE_LIST_RESPONSE__HELM_SH_HELM_V4_PKG_CHART_V2_DEPENDENCY">>, fields |-> <<<<"alias", <<"string">>>>, <<"condition", <<"string">>>>, <<"enabled", <<"boolean">>>>, <<"import-values", <<"any", "[]">>>>, <<"name", <<"string">>>>, <<"repository", <<"string">>>>, <<"tags", <<"string", "[]">>>>, <<"version", <<"string">>>>>>]

\* CLUSTER_HELM_RELEASE_LIST_RESPONSE__HELM_SH_HELM_V4_PKG_CHART_V2_LOCK
CLUSTER_HELM_RELEASE_LIST_RESPONSE__HELM_SH_HELM_V4_PKG_CHART_V2_LOCK == [name |-> <<"CLUSTER_HELM_RELEASE_LIST_RESPONSE__HELM_SH_HELM_V4_PKG_CHART_V2_LOCK">>, fields |-> <<<<"dependencies", <<"CLUSTER_HELM_RELEASE_LIST_RESPONSE__HELM_SH_HELM_V4_PKG_CHART_V2_DEPENDENCY", "|", "undefined", "[]">>>>, <<"digest", <<"string">>>>, <<"generated", <<"CLUSTER_HELM_RELEASE_LIST_RESPONSE__TIME_TIME">>>>>>]

\* CLUSTER_HELM_RELEASE_LIST_RESPONSE__HELM_SH_HELM_V4_PKG_CHART_V2_MAINTAINER
CLUSTER_HELM_RELEASE_LIST_RESPONSE__HELM_SH_HELM_V4_PKG_CHART_V2_MAINTAINER == [name |-> <<"CLUSTER_HELM_RELEASE_LIST_RESPONSE__HELM_SH_HELM_V4_PKG_CHART_V2_MAINTAINER">>, fields |-> <<<<"email", <<"string">>>>, <<"name", <<"string">>>>, <<"url", <<"string">>>>>>]

\* CLUSTER_HELM_RELEASE_LIST_RESPONSE__HELM_SH_HELM_V4_PKG_CHART_V2_METADATA
CLUSTER_HELM_RELEASE_LIST_RESPONSE__HELM_SH_HELM_V4_PKG_CHART_V2_METADATA == [name |-> <<"CLUSTER_HELM_RELEASE_LIST_RESPONSE__HELM_SH_HELM_V4_PKG_CHART_V2_METADATA">>, fields |-> <<<<"annotations", <<"Record", "<", "string", ",", "string", ">">>>>, <<"apiVersion", <<"string">>>>, <<"appVersion", <<"string">>>>, <<"condition", <<"string">>>>, <<"dependencies", <<"CLUSTER_HELM_RELEASE_LIST_RESPONSE__HELM_SH_HELM_V4_PKG_CHART_V2_DEPENDENCY", "|", "undefined", "[]">>>>, <<"deprecated", <<"boolean">>>>, <<"description", <<"string">>>>, <<"home", <<"string">>>>, <<"icon", <<"string">>>>, <<"keywords", <<"string", "[]">>>>, <<"kubeVersion", <<"string">>>>, <<"maintainers", <<"CLUSTER_HELM_RELEASE_LIST_RESPONSE__HELM_SH_HELM_V4_PKG_CHART_V2_MAINTAINER", "|", "undefined", "[]">>>>, <<"name", <<"string">>>>, <<"sources", <<"string", "[]">>>>, <<"tags", <<"string">>>>, <<"type", <<"string">>>>, <<"version", <<"string">>>>>>]

\* CLUSTER_HELM_RELEASE_LIST_RESPONSE__HELM_SH_HELM_V4_PKG_RELEASE_V1_HOOK
CLUSTER_HELM_RELEASE_LIST_RESPONSE__HELM_SH_HELM_V4_PKG_RELEASE_V1_HOOK == [name |-> <<"CLUSTER_HELM_RELEASE_LIST_RESPONSE__HELM_SH_HELM_V4_PKG_RELEASE_V1_HOOK">>, fields |-> <<<<"delete_policies", <<"string", "[]">>>>, <<"events", <<"string", "[]">>>>, <<"kind", <<"string">>>>, <<"last_run", <<"CLUSTER_HELM_RELEASE_LIST_RESPONSE__HELM_SH_HELM_V4_PKG_RELEASE_V1_HOOKEXECUTION">>>>, <<"manifest", <<"string">>>>, <<"name", <<"string">>>>, <<"output_log_policies", <<"string", "[]">>>>, <<"path", <<"string">>>>, <<"weight", <<"number">>>>>>]

\* CLUSTER_HELM_RELEASE_LIST_RESPONSE__HELM_SH_HELM_V4_PKG_RELEASE_V1_HOOKEXECUTION
CLUSTER_HELM_RELEASE_LIST_RESPONSE__HELM_SH_HELM_V4_PKG_RELEASE_V1_HOOKEXECUTION == [name |-> <<"CLUSTER_HELM_RELEASE_LIST_RESPONSE__HELM_SH_HELM_V4_PKG_RELEASE_V1_HOOKEXECUTION">>, fields |-> <<<<"completed_at", <<"CLUSTER_HELM_RELEASE_LIST_RESPONSE__TIME_TIME">>>>, <<"phase", <<"string">>>>, <<"started_at", <<"CLUSTER_HELM_RELEASE_LIST_RESPONSE__TIME_TIME">>>>>>]

\* CLUSTER_HELM_RELEASE_LIST_RESPONSE__HELM_SH_HELM_V4_PKG_RELEASE_V1_INFO
CLUSTER_HELM_RELEASE_LIST_RESPONSE__HELM_SH_HELM_V4_PKG_RELEASE_V1_INFO == [name |-> <<"CLUSTER_HELM_RELEASE_LIST_RESPONSE__HELM_SH_HELM_V4_PKG_RELEASE_V1_INFO">>, fields |-> <<<<"deleted", <<"CLUSTER_HELM_RELEASE_LIST_RESPONSE__TIME_TIME">>>>, <<"description", <<"string">>>>, <<"first_deployed", <<"CLUSTER_HELM_RELEASE_LIST_RESPONSE__TIME_TIME">>>>, <<"last_deployed", <<"CLUSTER_HELM_RELEASE_LIST_RESPONSE__TIME_TIME">>>>, <<"notes", <<"string">>>>, <<"resources", <<"Record", "<", "string", ",", "any", "[]", ">">>>>, <<"status", <<"string">>>>>>]

\* CLUSTER_HELM_RELEASE_LIST_RESPONSE__MOGENIUS_OPERATOR_SRC_CORE_RESULTMOGENIUS_OPERATOR_SRC_HELM_HELMRELEASELISTREQUEST_MOGENIUS_OPERATOR_SRC_HELM_HELMRELEASE
CLUSTER_HELM_RELEASE_LIST_RESPONSE__MOGENIUS_OPERATOR_SRC_CORE_RESULTMOGENIUS_OPERATOR_SRC_HELM_HELMRELEASELISTREQUEST_MOGENIUS_OPERATOR_SRC_HELM_HELMRELEASE == [name |-> <<"CLUSTER_HELM_RELEASE_LIST_RESPONSE__MOGENIUS_OPERATOR_SRC_CORE_RESULTMOGENIUS_OPERATOR_SRC_HELM_HELMRELEASELISTREQUEST_MOGENIUS_OPERATOR_SRC_HELM_HELMRELEASE">>, fields |-> <<<<"data", <<"CLUSTER_HELM_RELEASE_LIST_RESPONSE__MOGENIUS_OPERATOR_SRC_HELM_HELMRELEASE", "|", "undefined", "[]">>>>, <<"message", <<"string">>>>, <<"status", <<"string">>>>>>]

\* CLUSTER_HELM_RELEASE_LIST_RESPONSE__MOGENIUS_OPERATOR_SRC_HELM_HELMRELEASE
CLUSTER_HELM_RELEASE_LIST_RESPONSE__MOGENIUS_OPERATOR_SRC_HELM_HELMRELEASE == [name |-> <<"CLUSTER_HELM_RELEASE_LIST_RESPONSE__MOGENIUS_OPERATOR_SRC_HELM_HELMRELEASE">>, fields |-> <<<<"chart", <<"CLUSTER_HELM_RELEASE_LIST_RESPONSE__HELM_SH_HELM_V4_PKG_CHART_V2_CHART", "|", "undefined">>>>, <<"config", <<"Record", "<", "string", ",", "any", ">">>>>, <<"hooks", <<"CLUSTER_HELM_RELEASE_LIST_RESPONSE__HELM_SH_HELM_V4_PKG_RELEASE_V1_HOOK", "|", "undefined", "[]">>>>, <<"info", <<"CLUSTER_HELM_RELEASE_LIST_RESPONSE__HELM_SH_HELM_V4_PKG_RELEASE_V1_INFO", "|", "undefined">>>>, <<"manifest", <<"string">>>>, <<"name", <<"string">>>>, <<"namespace", <<"string">>>>, <<"repoName", <<"string">>>>, <<"version", <<"number">>>>>>]

\* CLUSTER_HELM_RELEASE_LIST_RESPONSE__TIME_TIME
CLUSTER_HELM_RELEASE_LIST_RESPONSE__TIME_TIME == [name |-> <<"CLUSTER_HELM_RELEASE_LIST_RESPONSE__TIME_TIME">>, fields |-> <<>>]

\* CLUSTER_HELM_RELEASE_ROLLBACK_RESPONSE__MOGENIUS_OPERATOR_SRC_CORE_RESULTMOGENIUS_OPERATOR_SRC_HELM_HELMRELEASEROLLBACKREQUEST_STRING
CLUSTER_HELM_RELEASE_ROLLBACK_RESPONSE__MOGENIUS_OPERATOR_SRC_CORE_RESULTMOGENIUS_OPERATOR_SRC_HELM_HELMRELEASEROLLBACKREQUEST_STRING == [name |-> <<"CLUSTER_HELM_RELEASE_ROLLBACK_RESPONSE__MOGENIUS_OPERATOR_SRC_CORE_RESULTMOGENIUS_OPERATOR_SRC_HELM_HELMRELEASEROLLBACKREQUEST_STRING">>, fields |-> <<<<"data", <<"string">>>>, <<"message", <<"string">>>>, <<"status", <<"string">>>>>>]

\* CLUSTER_HELM_RELEASE_STATUS_RESPONSE__MOGENIUS_OPERATOR_SRC_CORE_RESULTMOGENIUS_OPERATOR_SRC_HELM_HELMRELEASESTATUSREQUEST_MOGENIUS_OPERATOR_SRC_HELM_HELMRELEASESTATUSINFO
CLUSTER_HELM_RELEASE_STATUS_RESPONSE__MOGENIUS_OPERATOR_SRC_CORE_RESULTMOGENIUS_OPERATOR_SRC_HELM_HELMRELEASESTATUSREQUEST_MOGENIUS_OPERATOR_SRC_HELM_HELMRELEASESTATUSINFO == [name |-> <<"CLUSTER_HELM_RELEASE_STATUS_RESPONSE__MOGENIUS_OPERATOR_SRC_CORE_RESULTMOGENIUS_OPERATOR_SRC_HELM_HELMRELEASESTATUSREQUEST_MOGENIUS_OPERATOR_SRC_HELM_HELMRELEASESTATUSINFO">>, fields |-> <<<<"data", <<"CLUSTER_HELM_RELEASE_STATUS_RESPONSE__MOGENIUS_OPERATOR_SRC_HELM_HELMRELEASESTATUSINFO", "|", "undefined">>>>, <<"message", <<"string">>>>, <<"status", <<"string">>>>>>]

\* CLUSTER_HELM_RELEASE_STATUS_RESPONSE__MOGENIUS_OPERATOR_SRC_HELM_HELMRELEASESTATUSINFO
CLUSTER_HELM_RELEASE_STATUS_RESPONSE__MOGENIUS_OPERATOR_SRC_HELM_HELMRELEASESTATUSINFO == [name |-> <<"CLUSTER_HELM_RELEASE_STATUS_RESPONSE__MOGENIUS_OPERATOR_SRC_HELM_HELMRELEASESTATUSINFO">>, fields |-> <<<<"chart", <<"string">>>>, <<"lastDeployed", <<"CLUSTER_HELM_RELEASE_STATUS_RESPONSE__TIME_TIME">>>>, <<"name", <<"string">>>>, <<"namespace", <<"string">>>>, <<"status", <<"string">>>>, <<"version", <<"number">>>>>>]

\* CLUSTER_HELM_RELEASE_STATUS_RESPONSE__TIME_TIME
CLUSTER_HELM_RELEASE_STATUS_RESPONSE__TIME_TIME == [name |-> <<"CLUSTER_HELM_RELEASE_STATUS_RESPONSE__TIME_TIME">>, fields |-> <<>>]

\* CLUSTER_HELM_RELEASE_UNINSTALL_RESPONSE__MOGENIUS_OPERATOR_SRC_CORE_RESULTMOGENIUS_OPERATOR_SRC_HELM_HELMRELEASEUNINSTALLREQUEST_STRING
CLUSTER_HELM_RELEASE_UNINSTALL_RESPONSE__MOGENIUS_OPERATOR_SRC_CORE_RESULTMOGENIUS_OPERATOR_SRC_HELM_HELMRELEASEUNINSTALLREQUEST_STRING == [name |-> <<"CLUSTER_HELM_RELEASE_UNINSTALL_RESPONSE__MOGENIUS_OPERATOR_SRC_CORE_RESULTMOGENIUS_OPERATOR_SRC_HELM_HELMRELEASEUNINSTALLREQUEST_STRING">>, fields |-> <<<<"data", <<"string">>>>, <<"message", <<"string">>>>, <<"status", <<"string">>>>>>]

\* CLUSTER_HELM_RELEASE_UPGRADE_RESPONSE__MOGENIUS_OPERATOR_SRC_CORE_RESULTMOGENIUS_OPERATOR_SRC_HELM_HELMCHARTINSTALLUPGRADEREQUEST_STRING
CLUSTER_HELM_RELEASE_UPGRADE_RESPONSE__MOGENIUS_OPERATOR_SRC_CORE_RESULTMOGENIUS_OPERATOR_SRC_HELM_HELMCHARTINSTALLUPGRADEREQUEST_STRING == [name |-> <<"CLUSTER_HELM_RELEASE_UPGRADE_RESPONSE__MOGENIUS_OPERATOR_SRC_CORE_RESULTMOGENIUS_OPERATOR_SRC_HELM_HELMCHARTINSTALLUPGRADEREQUEST_STRING">>, fields |-> <<<<"data", <<"string">>>>, <<"message", <<"string">>>>, <<"status", <<"string">>>>>>]

\* CLUSTER_HELM_REPO_ADD_RESPONSE__MOGENIUS_OPERATOR_SRC_CORE_RESULTMOGENIUS_OPERATOR_SRC_HELM_HELMREPOADDREQUEST_STRING
CLUSTER_HELM_REPO_ADD_RESPONSE__MOGENIUS_OPERATOR_SRC_CORE_RESULTMOGENIUS_OPERATOR_SRC_HELM_HELMREPOADDREQUEST_STRING == [name |-> <<"CLUSTER_HELM_REPO_ADD_RESPONSE__MOGENIUS_OPERATOR_SRC_CORE_RESULTMOGENIUS_OPERATOR_SRC_HELM_HELMREPOADDREQUEST_STRING">>, fields |-> <<<<"data", <<"string">>>>, <<"message", <<"string">>>>, <<"status", <<"string">>>>>>]

\* CLUSTER_HELM_REPO_LIST_RESPONSE__MOGENIUS_OPERATOR_SRC_CORE_RESULTMOGENIUS_OPERATOR_SRC_CORE_VOID_MOGENIUS_OPERATOR_SRC_HELM_HELMENTRYWITHOUTPASSWORD
CLUSTER_HELM_REPO_LIST_RESPONSE__MOGENIUS_OPERATOR_SRC_CORE_RESULTMOGENIUS_OPERATOR_SRC_CORE_VOID_MOGENIUS_OPERATOR_SRC_HELM_HELMENTRYWITHOUTPASSWORD == [name |-> <<"CLUSTER_HELM_REPO_LIST_RESPONSE__MOGENIUS_OPERATOR_SRC_CORE_RESULTMOGENIUS_OPERATOR_SRC_CORE_VOID_MOGENIUS_OPERATOR_SRC_HELM_HELMENTRYWITHOUTPASSWORD">>, fields |-> <<<<"data", <<"CLUSTER_HELM_REPO_LIST_RESPONSE__MOGENIUS_OPERATOR_SRC_HELM_HELMENTRYWITHOUTPASSWORD", "|", "undefined", "[]">>>>, <<"message", <<"string">>>>, <<"status", <<"string">>>>>>]

\* CLUSTER_HELM_REPO_LIST_RESPONSE__MOGENIUS_OPERATOR_SRC_HELM_HELMENTRYWITHOUTPASSWORD
CLUSTER_HELM_REPO_LIST_RESPONSE__MOGENIUS_OPERATOR_SRC_HELM_HELMENTRYWITHOUTPASSWORD == [name |-> <<"CLUSTER_HELM_REPO_LIST_RESPONSE__MOGENIUS_OPERATOR_SRC_HELM_HELMENTRYWITHOUTPASSWORD">>, fields |-> <<<<"insecure_skip_tls_verify", <<"boolean">>>>, <<"name", <<"string">>>>, <<"pass_credentials_all", <<"boolean">>>>, <<"url", <<"string">>>>>>]

\* CLUSTER_HELM_REPO_PATCH_RESPONSE__MOGENIUS_OPERATOR_SRC_CORE_RESULTMOGENIUS_OPERATOR_SRC_HELM_HELMREPOPATCHREQUEST_STRING
CLUSTER_HELM_REPO_PATCH_RESPONSE__MOGENIUS_OPERATOR_SRC_CORE_RESULTMOGENIUS_OPERATOR_SRC_HELM_HELMREPOPATCHREQUEST_STRING == [name |-> <<"CLUSTER_HELM_REPO_PATCH_RESPONSE__MOGENIUS_OPERATOR_SRC_CORE_RESULTMOGENIUS_OPERATOR_SRC_HELM_HELMREPOPATCHREQUEST_STRING">>, fields |-> <<<<"data", <<"string">>>>, <<"message", <<"string">>>>, <<"status", <<"string">>>>>>]

\* CLUSTER_HELM_REPO_UPDATE_RESPONSE__MOGENIUS_OPERATOR_SRC_CORE_RESULTMOGENIUS_OPERATOR_SRC_CORE_VOID_MOGENIUS_OPERATOR_SRC_HELM_HELMENTRYSTATUS
CLUSTER_HELM_REPO_UPDATE_RESPONSE__MOGENIUS_OPERATOR_SRC_CORE_RESULTMOGENIUS_OPERATOR_SRC_CORE_VOID_MOGENIUS_OPERATOR_SRC_HELM_HELMENTRYSTATUS == [name |-> <<"CLUSTER_HELM_REPO_UPDATE_RESPONSE__MOGENIUS_OPERATOR_SRC_CORE_RESULTMOGENIUS_OPERATOR_SRC_CORE_VOID_MOGENIUS_OPERATOR_SRC_HELM_HELMENTRYSTATUS">>, fields |-> <<<<"data", <<"CLUSTER_HELM_REPO_UPDATE_RESPONSE__MOGENIUS_OPERATOR_SRC_HELM_HELMENTRYSTATUS", "[]">>>>, <<"message", <<"string">>>>, <<"status", <<"string">>>>>>]

\* CLUSTER_HELM_REPO_UPDATE_RESPONSE__MOGENIUS_OPERATOR_SRC_HELM_HELMENTRYSTATUS
CLUSTER_HELM_REPO_UPDATE_RESPONSE__MOGENIUS_OPERATOR_SRC_HELM_HELMENTRYSTATUS == [name |-> <<"CLUSTER_HELM_REPO_UPDATE_RESPONSE__MOGENIUS_OPERATOR_SRC_HELM_HELMENTRYSTATUS">>, fields |-> <<<<"entry", <<"CLUSTER_HELM_REPO_UPDATE_RESPONSE__MOGENIUS_OPERATOR_SRC_HELM_HELMENTRYWITHOUTPASSWORD", "|", "undefined">>>>, <<"message", <<"string">>>>, <<"status", <<"string">>>>>>]

\* CLUSTER_HELM_REPO_UPDATE_RESPONSE__MOGENIUS_OPERATOR_SRC_HELM_HELMENTRYWITHOUTPASSWORD
CLUSTER_HELM_REPO_UPDATE_RESPONSE__MOGENIUS_OPERATOR_SRC_HELM_HELMENTRYWITHOUTPASSWORD == [name |-> <<"CLUSTER_HELM_REPO_UPDATE_RESPONSE__MOGENIUS_OPERATOR_SRC_HELM_HELMENTRYWITHOUTPASSWORD">>, fields |-> <<<<"insecure_skip_tls_verify", <<"boolean">>>>, <<"name", <<"string">>>>, <<"pass_credentials_all", <<"boolean">>>>, <<"url", <<"string">>>>>>]

\* CLUSTER_LIST_PERSISTENT_VOLUME_CLAIMS_RESPONSE__K8S_IO_API_CORE_V1_MODIFYVOLUMESTATUS
CLUSTER_LIST_PERSISTENT_VOLUME_CLAIMS_RESPONSE__K8S_IO_API_CORE_V1_MODIFYVOLUMESTATUS == [name |-> <<"CLUSTER_LIST_PERSISTENT_VOLUME_CLAIMS_RESPONSE__K8S_IO_API_CORE_V1_MODIFYVOLUMESTATUS">>, fields |-> <<<<"status", <<"string">>>>, <<"targetVolumeAttributesClassName", <<"string">>>>>>]

\* CLUSTER_LIST_PERSISTENT_VOLUME_CLAIMS_RESPONSE__K8S_IO_API_CORE_V1_PERSISTENTVOLUMECLAIM
CLUSTER_LIST_PERSISTENT_VOLUME_CLAIMS_RESPONSE__K8S_IO_API_CORE_V1_PERSISTENTVOLUMECLAIM == [name |-> <<"CLUSTER_LIST_PERSISTENT_VOLUME_CLAIMS_RESPONSE__K8S_IO_API_CORE_V1_PERSISTENTVOLUMECLAIM">>, fields |-> <<<<"TypeMeta", <<"CLUSTER_LIST_PERSISTENT_VOLUME_CLAIMS_RESPONSE__K8S_IO_APIMACHINERY_PKG_APIS_META_V1_TYPEMETA">>>>, <<"metadata", <<"CLUSTER_LIST_PERSISTENT_VOLUME_CLAIMS_RESPONSE__K8S_IO_APIMACHINERY_PKG_APIS_META_V1_OBJECTMETA">>>>, <<"spec", <<"CLUSTER_LIST_PERSISTENT_VOLUME_CLAIMS_RESPONSE__K8S_IO_API_CORE_V1_PERSISTENTVOLUMECLAIMSPEC">>>>, <<"status", <<"CLUSTER_LIST_PERSISTENT_VOLUME_CLAIMS_RESPONSE__K8S_IO_API_CORE_V1_PERSISTENTVOLUMECLAIMSTATUS">>>>>>]

\* CLUSTER_LIST_PERSISTENT_VOLUME_CLAIMS_RESPONSE__K8S_IO_API_CORE_V1_PERSISTENTVOLUMECLAIMCONDITION
CLUSTER_LIST_PERSISTENT_VOLUME_CLAIMS_RESPONSE__K8S_IO_API_CORE_V1_PERSISTENTVOLUMECLAIMCONDITION == [name |-> <<"CLUSTER_LIST_PERSISTENT_VOLUME_CLAIMS_RESPONSE__K8S_IO_API_CORE_V1_PERSISTENTVOLUMECLAIMCONDITION">>, fields |-> <<<<"lastProbeTime", <<"CLUSTER_LIST_PERSISTENT_VOLUME_CLAIMS_RESPONSE__K8S_IO_APIMACHINERY_PKG_APIS_META_V1_TIME">>>>, <<"lastTransitionTime", <<"CLUSTER_LIST_PERSISTENT_VOLUME_CLAIMS_RESPONSE__K8S_IO_APIMACHINERY_PKG_APIS_META_V1_TIME">>>>, <<"message", <<"string">>>>, <<"reason", <<"string">>>>, <<"status", <<"string">>>>, <<"type", <<"string">>>>>>]

\* CLUSTER_LIST_PERSISTENT_VOLUME_CLAIMS_RESPONSE__K8S_IO_API_CORE_V1_PERSISTENTVOLUMECLAIMSPEC
CLUSTER_LIST_PERSISTENT_VOLUME_CLAIMS_RESPONSE__K8S_IO_API_CORE_V1_PERSISTENTVOLUMECLAIMSPEC == [name |-> <<"CLUSTER_LIST_PERSISTENT_VOLUME_CLAIMS_RESPONSE__K8S_IO_API_CORE_V1_PERSISTENTVOLUMECLAIMSPEC">>, fields |-> <<<<"accessModes", <<"string", "[]">>>>, <<"dataSource", <<"CLUSTER_LIST_PERSISTENT_VOLUME_CLAIMS_RESPONSE__K8S_IO_API_CORE_V1_TYPEDLOCALOBJECTREFERENCE", "|", "undefined">>>>, <<"dataSourceRef", <<"CLUSTER_LIST_PERSISTENT_VOLUME_CLAIMS_RESPONSE__K8S_IO_API_CORE_V1_TYPEDOBJECTREFERENCE", "|", "undefined">>>>, <<"resources", <<"CLUSTER_LIST_PERSISTENT_VOLUME_CLAIMS_RESPONSE__K8S_IO_API_CORE_V1_VOLUMERESOURCEREQUIREMENTS">>>>, <<"selector", <<"CLUSTER_LIST_PERSISTENT_VOLUME_CLAIMS_RESPONSE__K8S_IO_APIMACHINERY_PKG_APIS_META_V1_LABELSELECTOR", "|", "undefined">>>>, <<"storageClassName", <<"string", "|", "undefined">>>>, <<"volumeAttributesClassName", <<"string", "|", "undefined">>>>, <<"volumeMode", <<"string", "|", "undefined">>>>, <<"volumeName", <<"string">>>>>>]

\* CLUSTER_LIST_PERSISTENT_VOLUME_CLAIMS_RESPONSE__K8S_IO_API_CORE_V1_PERSISTENTVOLUMECLAIMSTATUS
CLUSTER_LIST_PERSISTENT_VOLUME_CLAIMS_RESPONSE__K8S_IO_API_CORE_V1_PERSISTENTVOLUMECLAIMSTATUS == [name |-> <<"CLUSTER_LIST_PERSISTENT_VOLUME_CLAIMS_RESPONSE__K8S_IO_API_CORE_V1_PERSISTENTVOLUMECLAIMSTATUS">>, fields |-> <<<<"accessModes", <<"string", "[]">>>>, <<"allocatedResourceStatuses", <<"Record", "<", "string", ",", "string", ">">>>>, <<"allocatedResources", <<"Record", "<", "string", ",", "CLUSTER_LIST_PERSISTENT_VOLUME_CLAIMS_RESPONSE__K8S_IO_APIMACHINERY_PKG_API_RESOURCE_QUANTITY", ">">>>>, <<"capacity", <<"Record", "<", "string", ",", "CLUSTER_LIST_PERSISTENT_VOLUME_CLAIMS_RESPONSE__K8S_IO_APIMACHINERY_PKG_API_RESOURCE_QUANTITY", ">">>>>, <<"conditions", <<"CLUSTER_LIST_PERSISTENT_VOLUME_CLAIMS_RESPONSE__K8S_IO_API_CORE_V1_PERSISTENTVOLUMECLAIMCONDITION", "[]">>>>, <<"currentVolumeAttributesClassName", <<"string", "|", "undefined">>>>, <<"modifyVolumeStatus", <<"CLUSTER_LIST_PERSISTENT_VOLUME_CLAIMS_RESPONSE__K8S_IO_API_CORE_V1_MODIFYVOLUMESTATUS", "|", "undefined">>>>, <<"phase", <<"string">>>>>>]

\* CLUSTER_LIST_PERSISTENT_VOLUME_CLAIMS_RESPONSE__K8S_IO_API_CORE_V1_TYPEDLOCALOBJECTREFERENCE
CLUSTER_LIST_PERSISTENT_VOLUME_CLAIMS_RESPONSE__K8S_IO_API_CORE_V1_TYPEDLOCALOBJECTREFERENCE == [name |-> <<"CLUSTER_LIST_PERSISTENT_VOLUME_CLAIMS_RESPONSE__K8S_IO_API_CORE_V1_TYPEDLOCALOBJECTREFERENCE">>, fields |-> <<<<"apiGroup", <<"string", "|", "undefined">>>>, <<"kind", <<"string">>>>, <<"name", <<"string">>>>>>]

\* CLUSTER_LIST_PERSISTENT_VOLUME_CLAIMS_RESPONSE__K8S_IO_API_CORE_V1_TYPEDOBJECTREFERENCE
CLUSTER_LIST_PERSISTENT_VOLUME_CLAIMS_RESPONSE__K8S_IO_API_CORE_V1_TYPEDOBJECTREFERENCE == [name |-> <<"CLUSTER_LIST_PERSISTENT_VOLUME_CLAIMS_RESPONSE__K8S_IO_API_CORE_V1_TYPEDOBJECTREFERENCE">>, fields |-> <<<<"apiGroup", <<"string", "|", "undefined">>>>, <<"kind", <<"string">>>>, <<"name", <<"string">>>>, <<"namespace", <<"string", "|", "undefined">>>>>>]

\* CLUSTER_LIST_PERSISTENT_VOLUME_CLAIMS_RESPONSE__K8S_IO_API_CORE_V1_VOLUMERESOURCEREQUIREMENTS
CLUSTER_LIST_PERSISTENT_VOLUME_CLAIMS_RESPONSE__K8S_IO_API_CORE_V1_VOLUMERESOURCEREQUIREMENTS == [name |-> <<"CLUSTER_LIST_PERSISTENT_VOLUME_CLAIMS_RESPONSE__K8S_IO_API_CORE_V1_VOLUMERESOURCEREQUIREMENTS">>, fields |-> <<<<"limits", <<"Record", "<", "string", ",", "CLUSTER_LIST_PERSISTENT_VOLUME_CLAIMS_RESPONSE__K8S_IO_APIMACHINERY_PKG_API_RESOURCE_QUANTITY", ">">>>>, <<"requests", <<"Record", "<", "string", ",", "CLUSTER_LIST_PERSISTENT_VOLUME_CLAIMS_RESPONSE__K8S_IO_APIMACHINERY_PKG_API_RESOURCE_QUANTITY", ">">>>>>>]

\* CLUSTER_LIST_PERSISTENT_VOLUME_CLAIMS_RESPONSE__K8S_IO_APIMACHINERY_PKG_API_RESOURCE_QUANTITY
CLUSTER_LIST_PERSISTENT_VOLUME_CLAIMS_RESPONSE__K8S_IO_APIMACHINERY_PKG_API_RESOURCE_QUANTITY == [name |-> <<"CLUSTER_LIST_PERSISTENT_VOLUME_CLAIMS_RESPONSE__K8S_IO_APIMACHINERY_PKG_API_RESOURCE_QUANTITY">>, fields |-> <<<<"Format", <<"string">>>>>>]

\* CLUSTER_LIST_PERSISTENT_VOLUME_CLAIMS_RESPONSE__K8S_IO_APIMACHINERY_PKG_APIS_META_V1_FIELDSV1
CLUSTER_LIST_PERSISTENT_VOLUME_CLAIMS_RESPONSE__K8S_IO_APIMACHINERY_PKG_APIS_META_V1_FIELDSV1 == [name |-> <<"CLUSTER_LIST_PERSISTENT_VOLUME_CLAIMS_RESPONSE__K8S_IO_APIMACHINERY_PKG_APIS_META_V1_FIELDSV1">>, fields |-> <<>>]

\* CLUSTER_LIST_PERSISTENT_VOLUME_CLAIMS_RESPONSE__K8S_IO_APIMACHINERY_PKG_APIS_META_V1_LABELSELECTOR
CLUSTER_LIST_PERSISTENT_VOLUME_CLAIMS_RESPONSE__K8S_IO_APIMACHINERY_PKG_APIS_META_V1_LABELSELECTOR == [name |-> <<"CLUSTER_LIST_PERSISTENT_VOLUME_CLAIMS_RESPONSE__K8S_IO_APIMACHINERY_PKG_APIS_META_V1_LABELSELECTOR">>, fields |-> <<<<"matchExpressions", <<"CLUSTER_LIST_PERSISTENT_VOLUME_CLAIMS_RESPONSE__K8S_IO_APIMACHINERY_PKG_APIS_META_V1_LABELSELECTORREQUIREMENT", "[]">>>>, <<"matchLabels", <<"Record", "<", "string", ",", "string", ">">>>>>>]

\* CLUSTER_LIST_PERSISTENT_VOLUME_CLAIMS_RESPONSE__K8S_IO_APIMACHINERY_PKG_APIS_META_V1_LABELSELECTORREQUIREMENT
CLUSTER_LIST_PERSISTENT_VOLUME_CLAIMS_RESPONSE__K8S_IO_APIMACHINERY_PKG_APIS_META_V1_LABELSELECTORREQUIREMENT == [name |-> <<"CLUSTER_LIST_PERSISTENT_VOLUME_CLAIMS_RESPONSE__K8S_IO_APIMACHINERY_PKG_APIS_META_V1_LABELSELECTORREQUIREMENT">>, fields |-> <<<<"key", <<"string">>>>, <<"operator", <<"string">>>>, <<"values", <<"string", "[]">>>>>>]

\* CLUSTER_LIST_PERSISTENT_VOLUME_CLAIMS_RESPONSE__K8S_IO_APIMACHINERY_PKG_APIS_META_V1_MANAGEDFIELDSENTRY
CLUSTER_LIST_PERSISTENT_VOLUME_CLAIMS_RESPONSE__K8S_IO_APIMACHINERY_PKG_APIS_META_V1_MANAGEDFIELDSENTRY == [name |-> <<"CLUSTER_LIST_PERSISTENT_VOLUME_CLAIMS_RESPONSE__K8S_IO_APIMACHINERY_PKG_APIS_META_V1_MANAGEDFIELDSENTRY">>, fields |-> <<<<"apiVersion", <<"string">>>>, <<"fieldsType", <<"string">>>>, <<"fieldsV1", <<"CLUSTER_LIST_PERSISTENT_VOLUME_CLAIMS_RESPONSE__K8S_IO_APIMACHINERY_PKG_APIS_META_V1_FIELDSV1", "|", "undefined">>>>, <<"manager", <<"string">>>>, <<"operation", <<"string">>>>, <<"subresource", <<"string">>>>, <<"time", <<"CLUSTER_LIST_PERSISTENT_VOLUME_CLAIMS_RESPONSE__K8S_IO_APIMACHINERY_PKG_APIS_META_V1_TIME", "|", "undefined">>>>>>]

\* CLUSTER_LIST_PERSISTENT_VOLUME_CLAIMS_RESPONSE__K8S_IO_APIMACHINERY_PKG_APIS_META_V1_OBJECTMETA
CLUSTER_LIST_PERSISTENT_VOLUME_CLAIMS_RESPONSE__K8S_IO_APIMACHINERY_PKG_APIS_META_V1_OBJECTMETA == [name |-> <<"CLUSTER_LIST_PERSISTENT_VOLUME_CLAIMS_RESPONSE__K8S_IO_APIMACHINERY_PKG_APIS_META_V1_OBJECTMETA">>, fields |-> <<<<"annotations", <<"Record", "<", "string", ",", "string", ">">>>>, <<"creationTimestamp", <<"CLUSTER_LIST_PERSISTENT_VOLUME_CLAIMS_RESPONSE__K8S_IO_APIMACHINERY_PKG_APIS_META_V1_TIME">>>>, <<"deletionGracePeriodSeconds", <<"number", "|", "undefined">>>>, <<"deletionTimestamp", <<"CLUSTER_LIST_PERSISTENT_VOLUME_CLAIMS_RESPONSE__K8S_IO_APIMACHINERY_PKG_APIS_META_V1_TIME", "|", "undefined">>>>, <<"finalizers", <<"string", "[]">>>>, <<"generateName", <<"string">>>>, <<"generation", <<"number">>>>, <<"labels", <<"Record", "<", "string", ",", "string", ">">>>>, <<"managedFields", <<"CLUSTER_LIST_PERSISTENT_VOLUME_CLAIMS_RESPONSE__K8S_IO_APIMACHINERY_PKG_APIS_META_V1_MANAGEDFIELDSENTRY", "[]">>>>, <<"name", <<"string">>>>, <<"namespace", <<"string">>>>, <<"ownerReferences", <<"CLUSTER_LIST_PERSISTENT_VOLUME_CLAIMS_RESPONSE__K8S_IO_APIMACHINERY_PKG_APIS_META_V1_OWNERREFERENCE", "[]">>>>, <<"resourceVersion", <<"string">>>>, <<"selfLink", <<"string">>>>, <<"uid", <<"string">>>>>>]

\* CLUSTER_LIST_PERSISTENT_VOLUME_CLAIMS_RESPONSE__K8S_IO_APIMACHINERY_PKG_APIS_META_V1_OWNERREFERENCE
CLUSTER_LIST_PERSISTENT_VOLUME_CLAIMS_RESPONSE__K8S_IO_APIMACHINERY_PKG_APIS_META_V1_OWNERREFERENCE == [name |-> <<"CLUSTER_LIST_PERSISTENT_VOLUME_CLAIMS_RESPONSE__K8S_IO_APIMACHINERY_PKG_APIS_META_V1_OWNERREFERENCE">>, fields |-> <<<<"apiVersion", <<"string">>>>, <<"blockOwnerDeletion", <<"boolean", "|", "undefined">>>>, <<"controller", <<"boolean", "|", "undefined">>>>, <<"kind", <<"string">>>>, <<"name", <<"string">>>>, <<"uid", <<"string">>>>>>]

\* CLUSTER_LIST_PERSISTENT_VOLUME_CLAIMS_RESPONSE__K8S_IO_APIMACHINERY_PKG_APIS_META_V1_TIME
CLUSTER_LIST_PERSISTENT_VOLUME_CLAIMS_RESPONSE__K8S_IO_APIMACHINERY_PKG_APIS_META_V1_TIME == [name |-> <<"CLUSTER_LIST_PERSISTENT_VOLUME_CLAIMS_RESPONSE__K8S_IO_APIMACHINERY_PKG_APIS_META_V1_TIME">>, fields |-> <<<<"Time", <<"CLUSTER_LIST_PERSISTENT_VOLUME_CLAIMS_RESPONSE__TIME_TIME">>>>>>]

\* CLUSTER_LIST_PERSISTENT_VOLUME_CLAIMS_RESPONSE__K8S_IO_APIMACHINERY_PKG_APIS_META_V1_TYPEMETA
CLUSTER_LIST_PERSISTENT_VOLUME_CLAIMS_RESPONSE__K8S_IO_APIMACHINERY_PKG_APIS_META_V1_TYPEMETA == [name |-> <<"CLUSTER_LIST_PERSISTENT_VOLUME_CLAIMS_RESPONSE__K8S_IO_APIMACHINERY_PKG_APIS_META_V1_TYPEMETA">>, fields |-> <<<<"apiVersion", <<"string">>>>, <<"kind", <<"string">>>>>>]

\* CLUSTER_LIST_PERSISTENT_VOLUME_CLAIMS_RESPONSE__MOGENIUS_OPERATOR_SRC_CORE_RESULTMOGENIUS_OPERATOR_SRC_SERVICES_CLUSTERLISTWORKLOADS_K8S_IO_API_CORE_V1_PERSISTENTVOLUMECLAIM
CLUSTER_LIST_PERSISTENT_VOLUME_CLAIMS_RESPONSE__MOGENIUS_OPERATOR_SRC_CORE_RESULTMOGENIUS_OPERATOR_SRC_SERVICES_CLUSTERLISTWORKLOADS_K8S_IO_API_CORE_V1_PERSISTENTVOLUMECLAIM == [name |-> <<"CLUSTER_LIST_PERSISTENT_VOLUME_CLAIMS_RESPONSE__MOGENIUS_OPERATOR_SRC_CORE_RESULTMOGENIUS_OPERATOR_SRC_SERVICES_CLUSTERLISTWORKLOADS_K8S_IO_API_CORE_V1_PERSISTENTVOLUMECLAIM">>, fields |-> <<<<"data", <<"CLUSTER_LIST_PERSISTENT_VOLUME_CLAIMS_RESPONSE__K8S_IO_API_CORE_V1_PERSISTENTVOLUMECLAIM", "[]">>>>, <<"message", <<"string">>>>, <<"status", <<"string">>>>>>]

\* CLUSTER_LIST_PERSISTENT_VOLUME_CLAIMS_RESPONSE__TIME_TIME
CLUSTER_LIST_PERSISTENT_VOLUME_CLAIMS_RESPONSE__TIME_TIME == [name |-> <<"CLUSTER_LIST_PERSISTENT_VOLUME_CLAIMS_RESPONSE__TIME_TIME">>, fields |-> <<>>]

\* CLUSTER_MACHINE_STATS_RESPONSE__MOGENIUS_OPERATOR_SRC_CORE_RESULTMOGENIUS_OPERATOR_SRC_CORE_REQUEST16_MOGENIUS_OPERATOR_SRC_STRUCTS_MACHINESTATS
CLUSTER_MACHINE_STATS_RESPONSE__MOGENIUS_OPERATOR_SRC_CORE_RESULTMOGENIUS_OPERATOR_SRC_CORE_REQUEST16_MOGENIUS_OPERATOR_SRC_STRUCTS_MACHINESTATS == [name |-> <<"CLUSTER_MACHINE_STATS_RESPONSE__MOGENIUS_OPERATOR_SRC_CORE_RESULTMOGENIUS_OPERATOR_SRC_CORE_REQUEST16_MOGENIUS_OPERATOR_SRC_STRUCTS_MACHINESTATS">>, fields |-> <<<<"data", <<"CLUSTER_MACHINE_STATS_RESPONSE__MOGENIUS_OPERATOR_SRC_STRUCTS_MACHINESTATS", "[]">>>>, <<"message", <<"string">>>>, <<"status", <<"string">>>>>>]

\* CLUSTER_MACHINE_STATS_RESPONSE__MOGENIUS_OPERATOR_SRC_STRUCTS_MACHINESTATS
CLUSTER_MACHINE_STATS_RESPONSE__MOGENIUS_OPERATOR_SRC_STRUCTS_MACHINESTATS == [name |-> <<"CLUSTER_MACHINE_STATS_RESPONSE__MOGENIUS_OPERATOR_SRC_STRUCTS_MACHINESTATS">>, fields |-> <<<<"btfSupport", <<"boolean">>>>>>]

\* CLUSTER_RESOURCE_INFO_RESPONSE__MOGENIUS_OPERATOR_SRC_CORE_CLUSTERRESOURCEINFO
CLUSTER_RESOURCE_INFO_RESPONSE__MOGENIUS_OPERATOR_SRC_CORE_CLUSTERRESOURCEINFO == [name |-> <<"CLUSTER_RESOURCE_INFO_RESPONSE__MOGENIUS_OPERATOR_SRC_CORE_CLUSTERRESOURCEINFO">>, fields |-> <<<<"cniConfig", <<"CLUSTER_RESOURCE_INFO_RESPONSE__MOGENIUS_OPERATOR_SRC_STRUCTS_CNIDATA", "[]">>>>, <<"country", <<"CLUSTER_RESOURCE_INFO_RESPONSE__MOGENIUS_OPERATOR_SRC_UTILS_COUNTRYDETAILS", "|", "undefined">>>>, <<"error", <<"string", "[]">>>>, <<"loadBalancerExternalIps", <<"string", "[]">>>>, <<"nodeStats", <<"CLUSTER_RESOURCE_INFO_RESPONSE__MOGENIUS_OPERATOR_SRC_DTOS_NODESTAT", "[]">>>>, <<"provider", <<"string">>>>>>]

\* CLUSTER_RESOURCE_INFO_RESPONSE__MOGENIUS_OPERATOR_SRC_CORE_RESULTMOGENIUS_OPERATOR_SRC_CORE_VOID_MOGENIUS_OPERATOR_SRC_CORE_CLUSTERRESOURCEINFO3
CLUSTER_RESOURCE_INFO_RESPONSE__MOGENIUS_OPERATOR_SRC_CORE_RESULTMOGENIUS_OPERATOR_SRC_CORE_VOID_MOGENIUS_OPERATOR_SRC_CORE_CLUSTERRESOURCEINFO3 == [name |-> <<"CLUSTER_RESOURCE_INFO_RESPONSE__MOGENIUS_OPERATOR_SRC_CORE_RESULTMOGENIUS_OPERATOR_SRC_CORE_VOID_MOGENIUS_OPERATOR_SRC_CORE_CLUSTERRESOURCEINFO3">>, fields |-> <<<<"data", <<"CLUSTER_RESOURCE_INFO_RESPONSE__MOGENIUS_OPERATOR_SRC_CORE_CLUSTERRESOURCEINFO">>>>, <<"message", <<"string">>>>, <<"status", <<"string">>>>>>]

\* CLUSTER_RESOURCE_INFO_RESPONSE__MOGENIUS_OPERATOR_SRC_DTOS_NODESTAT
CLUSTER_RESOURCE_INFO_RESPONSE__MOGENIUS_OPERATOR_SRC_DTOS_NODESTAT == [name |-> <<"CLUSTER_RESOURCE_INFO_RESPONSE__MOGENIUS_OPERATOR_SRC_DTOS_NODESTAT">>, fields |-> <<<<"architecture", <<"string">>>>, <<"cpuInCores", <<"number">>>>, <<"cpuInCoresLimited", <<"number">>>>, <<"cpuInCoresRequested", <<"number">>>>, <<"cpuInCoresUtilized", <<"number">>>>, <<"ephemeralInBytes", <<"number">>>>, <<"kubletVersion", <<"string">>>>, <<"machineStats", <<"CLUSTER_RESOURCE_INFO_RESPONSE__MOGENIUS_OPERATOR_SRC_STRUCTS_MACHINESTATS", "|", "undefined">>>>, <<"maschineId", <<"string">>>>, <<"maxPods", <<"number">>>>, <<"memoryInBytes", <<"number">>>>, <<"memoryInBytesLimited", <<"number">>>>, <<"memoryInBytesRequested", <<"number">>>>, <<"memoryInBytesUtilized", <<"number">>>>, <<"name", <<"string">>>>, <<"osImage", <<"string">>>>, <<"osKernelVersion", <<"string">>>>, <<"osType", <<"string">>>>, <<"totalPods", <<"number">>>>>>]

\* CLUSTER_RESOURCE_INFO_RESPONSE__MOGENIUS_OPERATOR_SRC_STRUCTS_CNICAPABILITIES
CLUSTER_RESOURCE_INFO_RESPONSE__MOGENIUS_OPERATOR_SRC_STRUCTS_CNICAPABILITIES == [name |-> <<"CLUSTER_RESOURCE_INFO_RESPONSE__MOGENIUS_OPERATOR_SRC_STRUCTS_CNICAPABILITIES">>, fields |-> <<<<"bandwidth", <<"boolean">>>>, <<"portMappings", <<"boolean">>>>>>]

\* CLUSTER_RESOURCE_INFO_RESPONSE__MOGENIUS_OPERATOR_SRC_STRUCTS_CNIDATA
CLUSTER_RESOURCE_INFO_RESPONSE__MOGENIUS_OPERATOR_SRC_STRUCTS_CNIDATA == [name |-> <<"CLUSTER_RESOURCE_INFO_RESPONSE__MOGENIUS_OPERATOR_SRC_STRUCTS_CNIDATA">>, fields |-> <<<<"cniVersion", <<"string">>>>, <<"name", <<"string">>>>, <<"node", <<"string">>>>, <<"plugins", <<"CLUSTER_RESOURCE_INFO_RESPONSE__MOGENIUS_OPERATOR_SRC_STRUCTS_PLUGIN", "[]">>>>>>]

\* CLUSTER_RESOURCE_INFO_RESPONSE__MOGENIUS_OPERATOR_SRC_STRUCTS_CNIIPAM
CLUSTER_RESOURCE_INFO_RESPONSE__MOGENIUS_OPERATOR_SRC_STRUCTS_CNIIPAM == [name |-> <<"CLUSTER_RESOURCE_INFO_RESPONSE__MOGENIUS_OPERATOR_SRC_STRUCTS_CNIIPAM">>, fields |-> <<<<"type", <<"string">>>>>>]

\* CLUSTER_RESOURCE_INFO_RESPONSE__MOGENIUS_OPERATOR_SRC_STRUCTS_CNIPOLICY
CLUSTER_RESOURCE_INFO_RESPONSE__MOGENIUS_OPERATOR_SRC_STRUCTS_CNIPOLICY == [name |-> <<"CLUSTER_RESOURCE_INFO_RESPONSE__MOGENIUS_OPERATOR_SRC_STRUCTS_CNIPOLICY">>, fields |-> <<<<"type", <<"string">>>>>>]

\* CLUSTER_RESOURCE_INFO_RESPONSE__MOGENIUS_OPERATOR_SRC_STRUCTS_MACHINESTATS
CLUSTER_RESOURCE_INFO_RESPONSE__MOGENIUS_OPERATOR_SRC_STRUCTS_MACHINESTATS == [name |-> <<"CLUSTER_RESOURCE_INFO_RESPONSE__MOGENIUS_OPERATOR_SRC_STRUCTS_MACHINESTATS">>, fields |-> <<<<"btfSupport", <<"boolean">>>>>>]

\* CLUSTER_RESOURCE_INFO_RESPONSE__MOGENIUS_OPERATOR_SRC_STRUCTS_PLUGIN
CLUSTER_RESOURCE_INFO_RESPONSE__MOGENIUS_OPERATOR_SRC_STRUCTS_PLUGIN == [name |-> <<"CLUSTER_RESOURCE_INFO_RESPONSE__MOGENIUS_OPERATOR_SRC_STRUCTS_PLUGIN">>, fields |-> <<<<"capabilities", <<"CLUSTER_RESOURCE_INFO_RESPONSE__MOGENIUS_OPERATOR_SRC_STRUCTS_CNICAPABILITIES", "|", "undefined">>>>, <<"datastore_type", <<"string">>>>, <<"ipam", <<"CLUSTER_RESOURCE_INFO_RESPONSE__MOGENIUS_OPERATOR_SRC_STRUCTS_CNIIPAM", "|", "undefined">>>>, <<"log_file_path", <<"string">>>>, <<"log_level", <<"string">>>>, <<"mtu", <<"number">>>>, <<"nodename", <<"string">>>>, <<"policy", <<"CLUSTER_RESOURCE_INFO_RESPONSE__MOGENIUS_OPERATOR_SRC_STRUCTS_CNIPOLICY", "|", "undefined">>>>, <<"snat", <<"boolean", "|", "undefined">>>>, <<"type", <<"string">>>>>>]

\* CLUSTER_RESOURCE_INFO_RESPONSE__MOGENIUS_OPERATOR_SRC_UTILS_COUNTRYDETAILS
CLUSTER_RESOURCE_INFO_RESPONSE__MOGENIUS_OPERATOR_SRC_UTILS_COUNTRYDETAILS == [name |-> <<"CLUSTER_RESOURCE_INFO_RESPONSE__MOGENIUS_OPERATOR_SRC_UTILS_COUNTRYDETAILS">>, fields |-> <<<<"capitalCity", <<"string">>>>, <<"capitalCityLat", <<"number">>>>, <<"capitalCityLng", <<"number">>>>, <<"code", <<"string">>>>, <<"code3", <<"string">>>>, <<"continent", <<"string">>>>, <<"currency", <<"string">>>>, <<"currencyName", <<"string">>>>, <<"domainTld", <<"string">>>>, <<"isActive", <<"boolean">>>>, <<"isEuMember", <<"boolean">>>>, <<"isoId", <<"number">>>>, <<"languages", <<"string", "[]">>>>, <<"name", <<"string">>>>, <<"phoneNumberPrefix", <<"string">>>>, <<"taxPercent", <<"number">>>>>>]

\* CREATE_GRANT_RESPONSE__MOGENIUS_OPERATOR_SRC_CORE_RESULTMOGENIUS_OPERATOR_SRC_CORE_REQUEST29_STRING
CREATE_GRANT_RESPONSE__MOGENIUS_OPERATOR_SRC_CORE_RESULTMOGENIUS_OPERATOR_SRC_CORE_REQUEST29_STRING == [name |-> <<"CREATE_GRANT_RESPONSE__MOGENIUS_OPERATOR_SRC_CORE_RESULTMOGENIUS_OPERATOR_SRC_CORE_REQUEST29_STRING">>, fields |-> <<<<"data", <<"string">>>>, <<"message", <<"string">>>>, <<"status", <<"string">>>>>>]

\* CREATE_NEW_WORKLOAD_RESPONSE__K8S_IO_APIMACHINERY_PKG_APIS_META_V1_UNSTRUCTURED_UNSTRUCTURED
CREATE_NEW_WORKLOAD_RESPONSE__K8S_IO_APIMACHINERY_PKG_APIS_META_V1_UNSTRUCTURED_UNSTRUCTURED == [name |-> <<"CREATE_NEW_WORKLOAD_RESPONSE__K8S_IO_APIMACHINERY_PKG_APIS_META_V1_UNSTRUCTURED_UNSTRUCTURED">>, fields |-> <<<<"Object", <<"Record", "<", "string", ",", "any", ">">>>>>>]

\* CREATE_NEW_WORKLOAD_RESPONSE__MOGENIUS_OPERATOR_SRC_CORE_RESULTMOGENIUS_OPERATOR_SRC_UTILS_WORKLOADCHANGEREQUEST_K8S_IO_APIMACHINERY_PKG_APIS_META_V1_UNSTRUCTURED_UNSTRUCTURED
CREATE_NEW_WORKLOAD_RESPONSE__MOGENIUS_OPERATOR_SRC_CORE_RESULTMOGENIUS_OPERATOR_SRC_UTILS_WORKLOADCHANGEREQUEST_K8S_IO_APIMACHINERY_PKG_APIS_META_V1_UNSTRUCTURED_UNSTRUCTURED == [name |-> <<"CREATE_NEW_WORKLOAD_RESPONSE__MOGENIUS_OPERATOR_SRC_CORE_RESULTMOGENIUS_OPERATOR_SRC_UTILS_WORKLOADCHANGEREQUEST_K8S_IO_APIMACHINERY_PKG_APIS_META_V1_UNSTRUCTURED_UNSTRUCTURED">>, fields |-> <<<<"data", <<"CREATE_NEW_WORKLOAD_RESPONSE__K8S_IO_APIMACHINERY_PKG_APIS_META_V1_UNSTRUCTURED_UNSTRUCTURED", "|", "undefined">>>>, <<"message", <<"string">>>>, <<"status", <<"string">>>>>>]

\* CREATE_USER_RESPONSE__MOGENIUS_OPERATOR_SRC_CORE_RESULTMOGENIUS_OPERATOR_SRC_CORE_REQUEST24_STRING
CREATE_USER_RESPONSE__MOGENIUS_OPERATOR_SRC_CORE_RESULTMOGENIUS_OPERATOR_SRC_CORE_REQUEST24_STRING == [name |-> <<"CREATE_USER_RESPONSE__MOGENIUS_OPERATOR_SRC_CORE_RESULTMOGENIUS_OPERATOR_SRC_CORE_REQUEST24_STRING">>, fields |-> <<<<"data", <<"string">>>>, <<"message", <<"string">>>>, <<"status", <<"string">>>>>>]

\* CREATE_WORKSPACE_RESPONSE__MOGENIUS_OPERATOR_SRC_CORE_RESULTMOGENIUS_OPERATOR_SRC_CORE_REQUEST18_STRING
CREATE_WORKSPACE_RESPONSE__MOGENIUS_OPERATOR_SRC_CORE_RESULTMOGENIUS_OPERATOR_SRC_CORE_REQUEST18_STRING == [name |-> <<"CREATE_WORKSPACE_RESPONSE__MOGENIUS_OPERATOR_SRC_CORE_RESULTMOGENIUS_OPERATOR_SRC_CORE_REQUEST18_STRING">>, fields |-> <<<<"data", <<"string">>>>, <<"message", <<"string">>>>, <<"status", <<"string">>>>>>]

\* DELETE_GRANT_RESPONSE__MOGENIUS_OPERATOR_SRC_CORE_RESULTMOGENIUS_OPERATOR_SRC_CORE_REQUEST32_STRING
DELETE_GRANT_RESPONSE__MOGENIUS_OPERATOR_SRC_CORE_RESULTMOGENIUS_OPERATOR_SRC_CORE_REQUEST32_STRING == [name |-> <<"DELETE_GRANT_RESPONSE__MOGENIUS_OPERATOR_SRC_CORE_RESULTMOGENIUS_OPERATOR_SRC_CORE_REQUEST32_STRING">>, fields |-> <<<<"data", <<"string">>>>, <<"message", <<"string">>>>, <<"status", <<"string">>>>>>]

\* DELETE_USER_RESPONSE__MOGENIUS_OPERATOR_SRC_CORE_RESULTMOGENIUS_OPERATOR_SRC_CORE_REQUEST27_STRING
DELETE_USER_RESPONSE__MOGENIUS_OPERATOR_SRC_CORE_RESULTMOGENIUS_OPERATOR_SRC_CORE_REQUEST27_STRING == [name |-> <<"DELETE_USER_RESPONSE__MOGENIUS_OPERATOR_SRC_CORE_RESULTMOGENIUS_OPERATOR_SRC_CORE_REQUEST27_STRING">>, fields |-> <<<<"data", <<"string">>>>, <<"message", <<"string">>>>, <<"status", <<"string">>>>>>]

\* DELETE_WORKLOAD_RESPONSE__ANON_STRUCT_1
DELETE_WORKLOAD_RESPONSE__ANON_STRUCT_1 == [name |-> <<"DELETE_WORKLOAD_RESPONSE__ANON_STRUCT_1">>, fields |-> <<>>]

\* DELETE_WORKLOAD_RESPONSE__MOGENIUS_OPERATOR_SRC_CORE_RESULTMOGENIUS_OPERATOR_SRC_UTILS_WORKLOADSINGLEREQUEST_MOGENIUS_OPERATOR_SRC_CORE_VOID
DELETE_WORKLOAD_RESPONSE__MOGENIUS_OPERATOR_SRC_CORE_RESULTMOGENIUS_OPERATOR_SRC_UTILS_WORKLOADSINGLEREQUEST_MOGENIUS_OPERATOR_SRC_CORE_VOID == [name |-> <<"DELETE_WORKLOAD_RESPONSE__MOGENIUS_OPERATOR_SRC_CORE_RESULTMOGENIUS_OPERATOR_SRC_UTILS_WORKLOADSINGLEREQUEST_MOGENIUS_OPERATOR_SRC_CORE_VOID">>, fields |-> <<<<"data", <<"DELETE_WORKLOAD_RESPONSE__ANON_STRUCT_1", "|", "undefined">>>>, <<"message", <<"string">>>>, <<"status", <<"string">>>>>>]

\* DELETE_WORKSPACE_RESPONSE__MOGENIUS_OPERATOR_SRC_CORE_RESULTMOGENIUS_OPERATOR_SRC_CORE_REQUEST22_STRING
DELETE_WORKSPACE_RESPONSE__MOGENIUS_OPERATOR_SRC_CORE_RESULTMOGENIUS_OPERATOR_SRC_CORE_REQUEST22_STRING == [name |-> <<"DELETE_WORKSPACE_RESPONSE__MOGENIUS_OPERATOR_SRC_CORE_RESULTMOGENIUS_OPERATOR_SRC_CORE_REQUEST22_STRING">>, fields |-> <<<<"data", <<"string">>>>, <<"message", <<"string">>>>, <<"status", <<"string">>>>>>]

\* DESCRIBE_RESPONSE__ANON_STRUCT_2
DESCRIBE_RESPONSE__ANON_STRUCT_2 == [name |-> <<"DESCRIBE_RESPONSE__ANON_STRUCT_2">>, fields |-> <<<<"buildType", <<"string">>>>, <<"version", <<"DESCRIBE_RESPONSE__MOGENIUS_OPERATOR_SRC_VERSION_VERSION">>>>>>]

\* DESCRIBE_RESPONSE__ANON_STRUCT_4
DESCRIBE_RESPONSE__ANON_STRUCT_4 == [name |-> <<"DESCRIBE_RESPONSE__ANON_STRUCT_4">>, fields |-> <<>>]

\* DESCRIBE_RESPONSE__MOGENIUS_OPERATOR_SRC_CORE_PATTERNCONFIG
DESCRIBE_RESPONSE__MOGENIUS_OPERATOR_SRC_CORE_PATTERNCONFIG == [name |-> <<"DESCRIBE_RESPONSE__MOGENIUS_OPERATOR_SRC_CORE_PATTERNCONFIG">>, fields |-> <<<<"deprecated", <<"boolean">>>>, <<"deprecatedMessage", <<"string">>>>, <<"legacyResponseLayout", <<"boolean">>>>, <<"needsUser", <<"boolean">>>>, <<"requestSchema", <<"DESCRIBE_RESPONSE__MOGENIUS_OPERATOR_SRC_SCHEMA_SCHEMA", "|", "undefined">>>>, <<"responseSchema", <<"DESCRIBE_RESPONSE__MOGENIUS_OPERATOR_SRC_SCHEMA_SCHEMA", "|", "undefined">>>>>>]

\* DESCRIBE_RESPONSE__MOGENIUS_OPERATOR_SRC_CORE_RESPONSE
DESCRIBE_RESPONSE__MOGENIUS_OPERATOR_SRC_CORE_RESPONSE == [name |-> <<"DESCRIBE_RESPONSE__MOGENIUS_OPERATOR_SRC_CORE_RESPONSE">>, fields |-> <<<<"buildInfo", <<"DESCRIBE_RESPONSE__ANON_STRUCT_2">>>>, <<"features", <<"DESCRIBE_RESPONSE__ANON_STRUCT_4">>>>, <<"patterns", <<"Record", "<", "string", ",", "DESCRIBE_RESPONSE__MOGENIUS_OPERATOR_SRC_CORE_PATTERNCONFIG", ">">>>>>>]

\* DESCRIBE_RESPONSE__MOGENIUS_OPERATOR_SRC_CORE_RESULTMOGENIUS_OPERATOR_SRC_CORE_VOID_MOGENIUS_OPERATOR_SRC_CORE_RESPONSE2
DESCRIBE_RESPONSE__MOGENIUS_OPERATOR_SRC_CORE_RESULTMOGENIUS_OPERATOR_SRC_CORE_VOID_MOGENIUS_OPERATOR_SRC_CORE_RESPONSE2 == [name |-> <<"DESCRIBE_RESPONSE__MOGENIUS_OPERATOR_SRC_CORE_RESULTMOGENIUS_OPERATOR_SRC_CORE_VOID_MOGENIUS_OPERATOR_SRC_CORE_RESPONSE2">>, fields |-> <<<<"data", <<"DESCRIBE_RESPONSE__MOGENIUS_OPERATOR_SRC_CORE_RESPONSE">>>>, <<"message", <<"string">>>>, <<"status", <<"string">>>>>>]

\* DESCRIBE_RESPONSE__MOGENIUS_OPERATOR_SRC_SCHEMA_SCHEMA
DESCRIBE_RESPONSE__MOGENIUS_OPERATOR_SRC_SCHEMA_SCHEMA == [name |-> <<"DESCRIBE_RESPONSE__MOGENIUS_OPERATOR_SRC_SCHEMA_SCHEMA">>, fields |-> <<<<"structs", <<"Record", "<", "string", ",", "DESCRIBE_RESPONSE__MOGENIUS_OPERATOR_SRC_SCHEMA_STRUCTLAYOUT", ">">>>>, <<"typeInfo", <<"DESCRIBE_RESPONSE__MOGENIUS_OPERATOR_SRC_SCHEMA_TYPEINFO", "|", "undefined">>>>>>]

\* DESCRIBE_RESPONSE__MOGENIUS_OPERATOR_SRC_SCHEMA_STRUCTLAYOUT
DESCRIBE_RESPONSE__MOGENIUS_OPERATOR_SRC_SCHEMA_STRUCTLAYOUT == [name |-> <<"DESCRIBE_RESPONSE__MOGENIUS_OPERATOR_SRC_SCHEMA_STRUCTLAYOUT">>, fields |-> <<<<"name", <<"string">>>>, <<"properties", <<"Record", "<", "string", ",", "DESCRIBE_RESPONSE__MOGENIUS_OPERATOR_SRC_SCHEMA_TYPEINFO", "|", "undefined", ">">>>>>>]

\* DESCRIBE_RESPONSE__MOGENIUS_OPERATOR_SRC_SCHEMA_TYPEINFO
DESCRIBE_RESPONSE__MOGENIUS_OPERATOR_SRC_SCHEMA_TYPEINFO == [name |-> <<"DESCRIBE_RESPONSE__MOGENIUS_OPERATOR_SRC_SCHEMA_TYPEINFO">>, fields |-> <<<<"elementType", <<"DESCRIBE_RESPONSE__MOGENIUS_OPERATOR_SRC_SCHEMA_TYPEINFO", "|", "undefined">>>>, <<"keyType", <<"DESCRIBE_RESPONSE__MOGENIUS_OPERATOR_SRC_SCHEMA_TYPEINFO", "|", "undefined">>>>, <<"pointer", <<"boolean">>>>, <<"structRef", <<"string">>>>, <<"type", <<"string">>>>, <<"valueType", <<"DESCRIBE_RESPONSE__MOGENIUS_OPERATOR_SRC_SCHEMA_TYPEINFO", "|", "undefined">>>>>>]

\* DESCRIBE_RESPONSE__MOGENIUS_OPERATOR_SRC_VERSION_VERSION
DESCRIBE_RESPONSE__MOGENIUS_OPERATOR_SRC_VERSION_VERSION == [name |-> <<"DESCRIBE_RESPONSE__MOGENIUS_OPERATOR_SRC_VERSION_VERSION">>, fields |-> <<<<"arch", <<"string">>>>, <<"branch", <<"string">>>>, <<"buildTimestamp", <<"string">>>>, <<"gitCommitHash", <<"string">>>>, <<"os", <<"string">>>>, <<"version", <<"string">>>>>>]

\* DESCRIBE_WORKLOAD_RESPONSE__MOGENIUS_OPERATOR_SRC_CORE_RESULTMOGENIUS_OPERATOR_SRC_UTILS_WORKLOADSINGLEREQUEST_STRING
DESCRIBE_WORKLOAD_RESPONSE__MOGENIUS_OPERATOR_SRC_CORE_RESULTMOGENIUS_OPERATOR_SRC_UTILS_WORKLOADSINGLEREQUEST_STRING == [name |-> <<"DESCRIBE_WORKLOAD_RESPONSE__MOGENIUS_OPERATOR_SRC_CORE_RESULTMOGENIUS_OPERATOR_SRC_UTILS_WORKLOADSINGLEREQUEST_STRING">>, fields |-> <<<<"data", <<"string">>>>, <<"message", <<"string">>>>, <<"status", <<"string">>>>>>]

\* FILES_CHMOD_RESPONSE__MOGENIUS_OPERATOR_SRC_CORE_RESULTMOGENIUS_OPERATOR_SRC_CORE_REQUEST13_BOOL
FILES_CHMOD_RESPONSE__MOGENIUS_OPERATOR_SRC_CORE_RESULTMOGENIUS_OPERATOR_SRC_CORE_REQUEST13_BOOL == [name |-> <<"FILES_CHMOD_RESPONSE__MOGENIUS_OPERATOR_SRC_CORE_RESULTMOGENIUS_OPERATOR_SRC_CORE_REQUEST13_BOOL">>, fields |-> <<<<"data", <<"boolean">>>>, <<"message", <<"string">>>>, <<"status", <<"string">>>>>>]

\* FILES_CHOWN_RESPONSE__MOGENIUS_OPERATOR_SRC_CORE_RESULTMOGENIUS_OPERATOR_SRC_CORE_REQUEST12_BOOL
FILES_CHOWN_RESPONSE__MOGENIUS_OPERATOR_SRC_CORE_RESULTMOGENIUS_OPERATOR_SRC_CORE_REQUEST12_BOOL == [name |-> <<"FILES_CHOWN_RESPONSE__MOGENIUS_OPERATOR_SRC_CORE_RESULTMOGENIUS_OPERATOR_SRC_CORE_REQUEST12_BOOL">>, fields |-> <<<<"data", <<"boolean">>>>, <<"message", <<"string">>>>, <<"status", <<"string">>>>>>]

\* FILES_CREATE_FOLDER_RESPONSE__MOGENIUS_OPERATOR_SRC_CORE_RESULTMOGENIUS_OPERATOR_SRC_CORE_REQUEST10_BOOL
FILES_CREATE_FOLDER_RESPONSE__MOGENIUS_OPERATOR_SRC_CORE_RESULTMOGENIUS_OPERATOR_SRC_CORE_REQUEST10_BOOL == [name |-> <<"FILES_CREATE_FOLDER_RESPONSE__MOGENIUS_OPERATOR_SRC_CORE_RESULTMOGENIUS_OPERATOR_SRC_CORE_REQUEST10_BOOL">>, fields |-> <<<<"data", <<"boolean">>>>, <<"message", <<"string">>>>, <<"status", <<"string">>>>>>]

\* FILES_DELETE_RESPONSE__MOGENIUS_OPERATOR_SRC_CORE_RESULTMOGENIUS_OPERATOR_SRC_CORE_REQUEST14_BOOL
FILES_DELETE_RESPONSE__MOGENIUS_OPERATOR_SRC_CORE_RESULTMOGENIUS_OPERATOR_SRC_CORE_REQUEST14_BOOL == [name |-> <<"FILES_DELETE_RESPONSE__MOGENIUS_OPERATOR_SRC_CORE_RESULTMOGENIUS_OPERATOR_SRC_CORE_REQUEST14_BOOL">>, fields |-> <<<<"data", <<"boolean">>>>, <<"message", <<"string">>>>, <<"status", <<"string">>>>>>]

\* FILES_DOWNLOAD_RESPONSE__MOGENIUS_OPERATOR_SRC_CORE_RESULTMOGENIUS_OPERATOR_SRC_CORE_REQUEST15_MOGENIUS_OPERATOR_SRC_SERVICES_FILESDOWNLOADRESPONSE
FILES_DOWNLOAD_RESPONSE__MOGENIUS_OPERATOR_SRC_CORE_RESULTMOGENIUS_OPERATOR_SRC_CORE_REQUEST15_MOGENIUS_OPERATOR_SRC_SERVICES_FILESDOWNLOADRESPONSE == [name |-> <<"FILES_DOWNLOAD_RESPONSE__MOGENIUS_OPERATOR_SRC_CORE_RESULTMOGENIUS_OPERATOR_SRC_CORE_REQUEST15_MOGENIUS_OPERATOR_SRC_SERVICES_FILESDOWNLOADRESPONSE">>, fields |-> <<<<"data", <<"FILES_DOWNLOAD_RESPONSE__MOGENIUS_OPERATOR_SRC_SERVICES_FILESDOWNLOADRESPONSE">>>>, <<"message", <<"string">>>>, <<"status", <<"string">>>>>>]

\* FILES_DOWNLOAD_RESPONSE__MOGENIUS_OPERATOR_SRC_SERVICES_FILESDOWNLOADRESPONSE
FILES_DOWNLOAD_RESPONSE__MOGENIUS_OPERATOR_SRC_SERVICES_FILESDOWNLOADRESPONSE == [name |-> <<"FILES_DOWNLOAD_RESPONSE__MOGENIUS_OPERATOR_SRC_SERVICES_FILESDOWNLOADRESPONSE">>, fields |-> <<<<"error", <<"string">>>>, <<"sizeInBytes", <<"number">>>>>>]

\* FILES_INFO_RESPONSE__MOGENIUS_OPERATOR_SRC_CORE_RESULTMOGENIUS_OPERATOR_SRC_DTOS_PERSISTENTFILEREQUESTDTO_MOGENIUS_OPERATOR_SRC_DTOS_PERSISTENTFILEDTO
FILES_INFO_RESPONSE__MOGENIUS_OPERATOR_SRC_CORE_RESULTMOGENIUS_OPERATOR_SRC_DTOS_PERSISTENTFILEREQUESTDTO_MOGENIUS_OPERATOR_SRC_DTOS_PERSISTENTFILEDTO == [name |-> <<"FILES_INFO_RESPONSE__MOGENIUS_OPERATOR_SRC_CORE_RESULTMOGENIUS_OPERATOR_SRC_DTOS_PERSISTENTFILEREQUESTDTO_MOGENIUS_OPERATOR_SRC_DTOS_PERSISTENTFILEDTO">>, fields |-> <<<<"data", <<"FILES_INFO_RESPONSE__MOGENIUS_OPERATOR_SRC_DTOS_PERSISTENTFILEDTO">>>>, <<"message", <<"string">>>>, <<"status", <<"string">>>>>>]

\* FILES_INFO_RESPONSE__MOGENIUS_OPERATOR_SRC_DTOS_PERSISTENTFILEDTO
FILES_INFO_RESPONSE__MOGENIUS_OPERATOR_SRC_DTOS_PERSISTENTFILEDTO == [name |-> <<"FILES_INFO_RESPONSE__MOGENIUS_OPERATOR_SRC_DTOS_PERSISTENTFILEDTO">>, fields |-> <<<<"contentType", <<"string">>>>, <<"createdAt", <<"string">>>>, <<"extension", <<"string">>>>, <<"hash", <<"string">>>>, <<"mimeType", <<"string">>>>, <<"mode", <<"string">>>>, <<"modifiedAt", <<"string">>>>, <<"name", <<"string">>>>, <<"relativePath", <<"string">>>>, <<"size", <<"string">>>>, <<"sizeInBytes", <<"number">>>>, <<"type", <<"string">>>>, <<"uid_gid", <<"string">>>>>>]

\* FILES_LIST_RESPONSE__MOGENIUS_OPERATOR_SRC_CORE_RESULTMOGENIUS_OPERATOR_SRC_CORE_REQUEST9_MOGENIUS_OPERATOR_SRC_DTOS_PERSISTENTFILEDTO
FILES_LIST_RESPONSE__MOGENIUS_OPERATOR_SRC_CORE_RESULTMOGENIUS_OPERATOR_SRC_CORE_REQUEST9_MOGENIUS_OPERATOR_SRC_DTOS_PERSISTENTFILEDTO == [name |-> <<"FILES_LIST_RESPONSE__MOGENIUS_OPERATOR_SRC_CORE_RESULTMOGENIUS_OPERATOR_SRC_CORE_REQUEST9_MOGENIUS_OPERATOR_SRC_DTOS_PERSISTENTFILEDTO">>, fields |-> <<<<"data", <<"FILES_LIST_RESPONSE__MOGENIUS_OPERATOR_SRC_DTOS_PERSISTENTFILEDTO", "[]">>>>, <<"message", <<"string">>>>, <<"status", <<"string">>>>>>]

\* FILES_LIST_RESPONSE__MOGENIUS_OPERATOR_SRC_DTOS_PERSISTENTFILEDTO
FILES_LIST_RESPONSE__MOGENIUS_OPERATOR_SRC_DTOS_PERSISTENTFILEDTO == [name |-> <<"FILES_LIST_RESPONSE__MOGENIUS_OPERATOR_SRC_DTOS_PERSISTENTFILEDTO">>, fields |-> <<<<"contentType", <<"string">>>>, <<"createdAt", <<"string">>>>, <<"extension", <<"string">>>>, <<"hash", <<"string">>>>, <<"mimeType", <<"string">>>>, <<"mode", <<"string">>>>, <<"modifiedAt", <<"string">>>>, <<"name", <<"string">>>>, <<"relativePath", <<"string">>>>, <<"size", <<"string">>>>, <<"sizeInBytes", <<"number">>>>, <<"type", <<"string">>>>, <<"uid_gid", <<"string">>>>>>]

\* FILES_RENAME_RESPONSE__MOGENIUS_OPERATOR_SRC_CORE_RESULTMOGENIUS_OPERATOR_SRC_CORE_REQUEST11_BOOL
FILES_RENAME_RESPONSE__MOGENIUS_OPERATOR_SRC_CORE_RESULTMOGENIUS_OPERATOR_SRC_CORE_REQUEST11_BOOL == [name |-> <<"FILES_RENAME_RESPONSE__MOGENIUS_OPERATOR_SRC_CORE_RESULTMOGENIUS_OPERATOR_SRC_CORE_REQUEST11_BOOL">>, fields |-> <<<<"data", <<"boolean">>>>, <<"message", <<"string">>>>, <<"status", <<"string">>>>>>]

\* GET_GRANT_RESPONSE__K8S_IO_APIMACHINERY_PKG_APIS_META_V1_FIELDSV1
GET_GRANT_RESPONSE__K8S_IO_APIMACHINERY_PKG_APIS_META_V1_FIELDSV1 == [name |-> <<"GET_GRANT_RESPONSE__K8S_IO_APIMACHINERY_PKG_APIS_META_V1_FIELDSV1">>, fields |-> <<>>]

\* GET_GRANT_RESPONSE__K8S_IO_APIMACHINERY_PKG_APIS_META_V1_MANAGEDFIELDSENTRY
GET_GRANT_RESPONSE__K8S_IO_APIMACHINERY_PKG_APIS_META_V1_MANAGEDFIELDSENTRY == [name |-> <<"GET_GRANT_RESPONSE__K8S_IO_APIMACHINERY_PKG_APIS_META_V1_MANAGEDFIELDSENTRY">>, fields |-> <<<<"apiVersion", <<"string">>>>, <<"fieldsType", <<"string">>>>, <<"fieldsV1", <<"GET_GRANT_RESPONSE__K8S_IO_APIMACHINERY_PKG_APIS_META_V1_FIELDSV1", "|", "undefined">>>>, <<"manager", <<"string">>>>, <<"operation", <<"string">>>>, <<"subresource", <<"string">>>>, <<"time", <<"GET_GRANT_RESPONSE__K8S_IO_APIMACHINERY_PKG_APIS_META_V1_TIME", "|", "undefined">>>>>>]

\* GET_GRANT_RESPONSE__K8S_IO_APIMACHINERY_PKG_APIS_META_V1_OBJECTMETA
GET_GRANT_RESPONSE__K8S_IO_APIMACHINERY_PKG_APIS_META_V1_OBJECTMETA == [name |-> <<"GET_GRANT_RESPONSE__K8S_IO_APIMACHINERY_PKG_APIS_META_V1_OBJECTMETA">>, fields |-> <<<<"annotations", <<"Record", "<", "string", ",", "string", ">">>>>, <<"creationTimestamp", <<"GET_GRANT_RESPONSE__K8S_IO_APIMACHINERY_PKG_APIS_META_V1_TIME">>>>, <<"deletionGracePeriodSeconds", <<"number", "|", "undefined">>>>, <<"deletionTimestamp", <<"GET_GRANT_RESPONSE__K8S_IO_APIMACHINERY_PKG_APIS_META_V1_TIME", "|", "undefined">>>>, <<"finalizers", <<"string", "[]">>>>, <<"generateName", <<"string">>>>, <<"generation", <<"number">>>>, <<"labels", <<"Record", "<", "string", ",", "string", ">">>>>, <<"managedFields", <<"GET_GRANT_RESPONSE__K8S_IO_APIMACHINERY_PKG_APIS_META_V1_MANAGEDFIELDSENTRY", "[]">>>>, <<"name", <<"string">>>>, <<"namespace", <<"string">>>>, <<"ownerReferences", <<"GET_GRANT_RESPONSE__K8S_IO_APIMACHINERY_PKG_APIS_META_V1_OWNERREFERENCE", "[]">>>>, <<"resourceVersion", <<"string">>>>, <<"selfLink", <<"string">>>>, <<"uid", <<"string">>>>>>]

\* GET_GRANT_RESPONSE__K8S_IO_APIMACHINERY_PKG_APIS_META_V1_OWNERREFERENCE
GET_GRANT_RESPONSE__K8S_IO_APIMACHINERY_PKG_APIS_META_V1_OWNERREFERENCE == [name |-> <<"GET_GRANT_RESPONSE__K8S_IO_APIMACHINERY_PKG_APIS_META_V1_OWNERREFERENCE">>, fields |-> <<<<"apiVersion", <<"string">>>>, <<"blockOwnerDeletion", <<"boolean", "|", "undefined">>>>, <<"controller", <<"boolean", "|", "undefined">>>>, <<"kind", <<"string">>>>, <<"name", <<"string">>>>, <<"uid", <<"string">>>>>>]

\* GET_GRANT_RESPONSE__K8S_IO_APIMACHINERY_PKG_APIS_META_V1_TIME
GET_GRANT_RESPONSE__K8S_IO_APIMACHINERY_PKG_APIS_META_V1_TIME == [name |-> <<"GET_GRANT_RESPONSE__K8S_IO_APIMACHINERY_PKG_APIS_META_V1_TIME">>, fields |-> <<<<"Time", <<"GET_GRANT_RESPONSE__TIME_TIME">>>>>>]

\* GET_GRANT_RESPONSE__K8S_IO_APIMACHINERY_PKG_APIS_META_V1_TYPEMETA
GET_GRANT_RESPONSE__K8S_IO_APIMACHINERY_PKG_APIS_META_V1_TYPEMETA == [name |-> <<"GET_GRANT_RESPONSE__K8S_IO_APIMACHINERY_PKG_APIS_META_V1_TYPEMETA">>, fields |-> <<<<"apiVersion", <<"string">>>>, <<"kind", <<"string">>>>>>]

\* GET_GRANT_RESPONSE__MOGENIUS_OPERATOR_SRC_CORE_RESULTMOGENIUS_OPERATOR_SRC_CORE_REQUEST30_MOGENIUS_OPERATOR_SRC_CRDS_V1ALPHA1_GRANT
GET_GRANT_RESPONSE__MOGENIUS_OPERATOR_SRC_CORE_RESULTMOGENIUS_OPERATOR_SRC_CORE_REQUEST30_MOGENIUS_OPERATOR_SRC_CRDS_V1ALPHA1_GRANT == [name |-> <<"GET_GRANT_RESPONSE__MOGENIUS_OPERATOR_SRC_CORE_RESULTMOGENIUS_OPERATOR_SRC_CORE_REQUEST30_MOGENIUS_OPERATOR_SRC_CRDS_V1ALPHA1_GRANT">>, fields |-> <<<<"data", <<"GET_GRANT_RESPONSE__MOGENIUS_OPERATOR_SRC_CRDS_V1ALPHA1_GRANT", "|", "undefined">>>>, <<"message", <<"string">>>>, <<"status", <<"string">>>>>>]

\* GET_GRANT_RESPONSE__MOGENIUS_OPERATOR_SRC_CRDS_V1ALPHA1_GRANT
GET_GRANT_RESPONSE__MOGENIUS_OPERATOR_SRC_CRDS_V1ALPHA1_GRANT == [name |-> <<"GET_GRANT_RESPONSE__MOGENIUS_OPERATOR_SRC_CRDS_V1ALPHA1_GRANT">>, fields |-> <<<<"TypeMeta", <<"GET_GRANT_RESPONSE__K8S_IO_APIMACHINERY_PKG_APIS_META_V1_TYPEMETA">>>>, <<"metadata", <<"GET_GRANT_RESPONSE__K8S_IO_APIMACHINERY_PKG_APIS_META_V1_OBJECTMETA">>>>, <<"spec", <<"GET_GRANT_RESPONSE__MOGENIUS_OPERATOR_SRC_CRDS_V1ALPHA1_GRANTSPEC">>>>, <<"status", <<"GET_GRANT_RESPONSE__MOGENIUS_OPERATOR_SRC_CRDS_V1ALPHA1_GRANTSTATUS">>>>>>]

\* GET_GRANT_RESPONSE__MOGENIUS_OPERATOR_SRC_CRDS_V1ALPHA1_GRANTSPEC
GET_GRANT_RESPONSE__MOGENIUS_OPERATOR_SRC_CRDS_V1ALPHA1_GRANTSPEC == [name |-> <<"GET_GRANT_RESPONSE__MOGENIUS_OPERATOR_SRC_CRDS_V1ALPHA1_GRANTSPEC">>, fields |-> <<<<"grantee", <<"string">>>>, <<"role", <<"string">>>>, <<"targetName", <<"string">>>>, <<"targetType", <<"string">>>>>>]

\* GET_GRANT_RESPONSE__MOGENIUS_OPERATOR_SRC_CRDS_V1ALPHA1_GRANTSTATUS
GET_GRANT_RESPONSE__MOGENIUS_OPERATOR_SRC_CRDS_V1ALPHA1_GRANTSTATUS == [name |-> <<"GET_GRANT_RESPONSE__MOGENIUS_OPERATOR_SRC_CRDS_V1ALPHA1_GRANTSTATUS">>, fields |-> <<>>]

\* GET_GRANT_RESPONSE__TIME_TIME
GET_GRANT_RESPONSE__TIME_TIME == [name |-> <<"GET_GRANT_RESPONSE__TIME_TIME">>, fields |-> <<>>]

\* GET_GRANTS_RESPONSE__K8S_IO_APIMACHINERY_PKG_APIS_META_V1_FIELDSV1
GET_GRANTS_RESPONSE__K8S_IO_APIMACHINERY_PKG_APIS_META_V1_FIELDSV1 == [name |-> <<"GET_GRANTS_RESPONSE__K8S_IO_APIMACHINERY_PKG_APIS_META_V1_FIELDSV1">>, fields |-> <<>>]

\* GET_GRANTS_RESPONSE__K8S_IO_APIMACHINERY_PKG_APIS_META_V1_MANAGEDFIELDSENTRY
GET_GRANTS_RESPONSE__K8S_IO_APIMACHINERY_PKG_APIS_META_V1_MANAGEDFIELDSENTRY == [name |-> <<"GET_GRANTS_RESPONSE__K8S_IO_APIMACHINERY_PKG_APIS_META_V1_MANAGEDFIELDSENTRY">>, fields |-> <<<<"apiVersion", <<"string">>>>, <<"fieldsType", <<"string">>>>, <<"fieldsV1", <<"GET_GRANTS_RESPONSE__K8S_IO_APIMACHINERY_PKG_APIS_META_V1_FIELDSV1", "|", "undefined">>>>, <<"manager", <<"string">>>>, <<"operation", <<"string">>>>, <<"subresource", <<"string">>>>, <<"time", <<"GET_GRANTS_RESPONSE__K8S_IO_APIMACHINERY_PKG_APIS_META_V1_TIME", "|", "undefined">>>>>>]

\* GET_GRANTS_RESPONSE__K8S_IO_APIMACHINERY_PKG_APIS_META_V1_OBJECTMETA
GET_GRANTS_RESPONSE__K8S_IO_APIMACHINERY_PKG_APIS_META_V1_OBJECTMETA == [name |-> <<"GET_GRANTS_RESPONSE__K8S_IO_APIMACHINERY_PKG_APIS_META_V1_OBJECTMETA">>, fields |-> <<<<"annotations", <<"Record", "<", "string", ",", "string", ">">>>>, <<"creationTimestamp", <<"GET_GRANTS_RESPONSE__K8S_IO_APIMACHINERY_PKG_APIS_META_V1_TIME">>>>, <<"deletionGracePeriodSeconds", <<"number", "|", "undefined">>>>, <<"deletionTimestamp", <<"GET_GRANTS_RESPONSE__K8S_IO_APIMACHINERY_PKG_APIS_META_V1_TIME", "|", "undefined">>>>, <<"finalizers", <<"string", "[]">>>>, <<"generateName", <<"string">>>>, <<"generation", <<"number">>>>, <<"labels", <<"Record", "<", "string", ",", "string", ">">>>>, <<"managedFields", <<"GET_GRANTS_RESPONSE__K8S_IO_APIMACHINERY_PKG_APIS_META_V1_MANAGEDFIELDSENTRY", "[]">>>>, <<"name", <<"string">>>>, <<"namespace", <<"string">>>>, <<"ownerReferences", <<"GET_GRANTS_RESPONSE__K8S_IO_APIMACHINERY_PKG_APIS_META_V1_OWNERREFERENCE", "[]">>>>, <<"resourceVersion", <<"string">>>>, <<"selfLink", <<"string">>>>, <<"uid", <<"string">>>>>>]

\* GET_GRANTS_RESPONSE__K8S_IO_APIMACHINERY_PKG_APIS_META_V1_OWNERREFERENCE
GET_GRANTS_RESPONSE__K8S_IO_APIMACHINERY_PKG_APIS_META_V1_OWNERREFERENCE == [name |-> <<"GET_GRANTS_RESPONSE__K8S_IO_APIMACHINERY_PKG_APIS_META_V1_OWNERREFERENCE">>, fields |-> <<<<"apiVersion", <<"string">>>>, <<"blockOwnerDeletion", <<"boolean", "|", "undefined">>>>, <<"controller", <<"boolean", "|", "undefined">>>>, <<"kind", <<"string">>>>, <<"name", <<"string">>>>, <<"uid", <<"string">>>>>>]

\* GET_GRANTS_RESPONSE__K8S_IO_APIMACHINERY_PKG_APIS_META_V1_TIME
GET_GRANTS_RESPONSE__K8S_IO_APIMACHINERY_PKG_APIS_META_V1_TIME == [name |-> <<"GET_GRANTS_RESPONSE__K8S_IO_APIMACHINERY_PKG_APIS_META_V1_TIME">>, fields |-> <<<<"Time", <<"GET_GRANTS_RESPONSE__TIME_TIME">>>>>>]

\* GET_GRANTS_RESPONSE__K8S_IO_APIMACHINERY_PKG_APIS_META_V1_TYPEMETA
GET_GRANTS_RESPONSE__K8S_IO_APIMACHINERY_PKG_APIS_META_V1_TYPEMETA == [name |-> <<"GET_GRANTS_RESPONSE__K8S_IO_APIMACHINERY_PKG_APIS_META_V1_TYPEMETA">>, fields |-> <<<<"apiVersion", <<"string">>>>, <<"kind", <<"string">>>>>>]

\* GET_GRANTS_RESPONSE__MOGENIUS_OPERATOR_SRC_CORE_RESULTMOGENIUS_OPERATOR_SRC_CORE_REQUEST28_MOGENIUS_OPERATOR_SRC_CRDS_V1ALPHA1_GRANT
GET_GRANTS_RESPONSE__MOGENIUS_OPERATOR_SRC_CORE_RESULTMOGENIUS_OPERATOR_SRC_CORE_REQUEST28_MOGENIUS_OPERATOR_SRC_CRDS_V1ALPHA1_GRANT == [name |-> <<"GET_GRANTS_RESPONSE__MOGENIUS_OPERATOR_SRC_CORE_RESULTMOGENIUS_OPERATOR_SRC_CORE_REQUEST28_MOGENIUS_OPERATOR_SRC_CRDS_V1ALPHA1_GRANT">>, fields |-> <<<<"data", <<"GET_GRANTS_RESPONSE__MOGENIUS_OPERATOR_SRC_CRDS_V1ALPHA1_GRANT", "[]">>>>, <<"message", <<"string">>>>, <<"status", <<"string">>>>>>]

\* GET_GRANTS_RESPONSE__MOGENIUS_OPERATOR_SRC_CRDS_V1ALPHA1_GRANT
GET_GRANTS_RESPONSE__MOGENIUS_OPERATOR_SRC_CRDS_V1ALPHA1_GRANT == [name |-> <<"GET_GRANTS_RESPONSE__MOGENIUS_OPERATOR_SRC_CRDS_V1ALPHA1_GRANT">>, fields |-> <<<<"TypeMeta", <<"GET_GRANTS_RESPONSE__K8S_IO_APIMACHINERY_PKG_APIS_META_V1_TYPEMETA">>>>, <<"metadata", <<"GET_GRANTS_RESPONSE__K8S_IO_APIMACHINERY_PKG_APIS_META_V1_OBJECTMETA">>>>, <<"spec", <<"GET_GRANTS_RESPONSE__MOGENIUS_OPERATOR_SRC_CRDS_V1ALPHA1_GRANTSPEC">>>>, <<"status", <<"GET_GRANTS_RESPONSE__MOGENIUS_OPERATOR_SRC_CRDS_V1ALPHA1_GRANTSTATUS">>>>>>]

\* GET_GRANTS_RESPONSE__MOGENIUS_OPERATOR_SRC_CRDS_V1ALPHA1_GRANTSPEC
GET_GRANTS_RESPONSE__MOGENIUS_OPERATOR_SRC_CRDS_V1ALPHA1_GRANTSPEC == [name |-> <<"GET_GRANTS_RESPONSE__MOGENIUS_OPERATOR_SRC_CRDS_V1ALPHA1_GRANTSPEC">>, fields |-> <<<<"grantee", <<"string">>>>, <<"role", <<"string">>>>, <<"targetName", <<"string">>>>, <<"targetType", <<"string">>>>>>]

\* GET_GRANTS_RESPONSE__MOGENIUS_OPERATOR_SRC_CRDS_V1ALPHA1_GRANTSTATUS
GET_GRANTS_RESPONSE__MOGENIUS_OPERATOR_SRC_CRDS_V1ALPHA1_GRANTSTATUS == [name |-> <<"GET_GRANTS_RESPONSE__MOGENIUS_OPERATOR_SRC_CRDS_V1ALPHA1_GRANTSTATUS">>, fields |-> <<>>]

\* GET_GRANTS_RESPONSE__TIME_TIME
GET_GRANTS_RESPONSE__TIME_TIME == [name |-> <<"GET_GRANTS_RESPONSE__TIME_TIME">>, fields |-> <<>>]

\* GET_LABELED_WORKLOAD_LIST_RESPONSE__K8S_IO_APIMACHINERY_PKG_APIS_META_V1_UNSTRUCTURED_UNSTRUCTURED
GET_LABELED_WORKLOAD_LIST_RESPONSE__K8S_IO_APIMACHINERY_PKG_APIS_META_V1_UNSTRUCTURED_UNSTRUCTURED == [name |-> <<"GET_LABELED_WORKLOAD_LIST_RESPONSE__K8S_IO_APIMACHINERY_PKG_APIS_META_V1_UNSTRUCTURED_UNSTRUCTURED">>, fields |-> <<<<"Object", <<"Record", "<", "string", ",", "any", ">">>>>>>]

\* GET_LABELED_WORKLOAD_LIST_RESPONSE__K8S_IO_APIMACHINERY_PKG_APIS_META_V1_UNSTRUCTURED_UNSTRUCTUREDLIST
GET_LABELED_WORKLOAD_LIST_RESPONSE__K8S_IO_APIMACHINERY_PKG_APIS_META_V1_UNSTRUCTURED_UNSTRUCTUREDLIST == [name |-> <<"GET_LABELED_WORKLOAD_LIST_RESPONSE__K8S_IO_APIMACHINERY_PKG_APIS_META_V1_UNSTRUCTURED_UNSTRUCTUREDLIST">>, fields |-> <<<<"Object", <<"Record", "<", "string", ",", "any", ">">>>>, <<"items", <<"GET_LABELED_WORKLOAD_LIST_RESPONSE__K8S_IO_APIMACHINERY_PKG_APIS_META_V1_UNSTRUCTURED_UNSTRUCTURED", "[]">>>>>>]

\* GET_LABELED_WORKLOAD_LIST_RESPONSE__MOGENIUS_OPERATOR_SRC_CORE_RESULTMOGENIUS_OPERATOR_SRC_KUBERNETES_GETUNSTRUCTUREDLABELEDRESOURCELISTREQUEST_K8S_IO_APIMACHINERY_PKG_APIS_META_V1_UNSTRUCTURED_UNSTRUCTUREDLIST
GET_LABELED_WORKLOAD_LIST_RESPONSE__MOGENIUS_OPERATOR_SRC_CORE_RESULTMOGENIUS_OPERATOR_SRC_KUBERNETES_GETUNSTRUCTUREDLABELEDRESOURCELISTREQUEST_K8S_IO_APIMACHINERY_PKG_APIS_META_V1_UNSTRUCTURED_UNSTRUCTUREDLIST == [name |-> <<"GET_LABELED_WORKLOAD_LIST_RESPONSE__MOGENIUS_OPERATOR_SRC_CORE_RESULTMOGENIUS_OPERATOR_SRC_KUBERNETES_GETUNSTRUCTUREDLABELEDRESOURCELISTREQUEST_K8S_IO_APIMACHINERY_PKG_APIS_META_V1_UNSTRUCTURED_UNSTRUCTUREDLIST">>, fields |-> <<<<"data", <<"GET_LABELED_WORKLOAD_LIST_RESPONSE__K8S_IO_APIMACHINERY_PKG_APIS_META_V1_UNSTRUCTURED_UNSTRUCTUREDLIST">>>>, <<"message", <<"string">>>>, <<"status", <<"string">>>>>>]

\* GET_NAMESPACE_WORKLOAD_LIST_RESPONSE__K8S_IO_APIMACHINERY_PKG_APIS_META_V1_UNSTRUCTURED_UNSTRUCTURED
GET_NAMESPACE_WORKLOAD_LIST_RESPONSE__K8S_IO_APIMACHINERY_PKG_APIS_META_V1_UNSTRUCTURED_UNSTRUCTURED == [name |-> <<"GET_NAMESPACE_WORKLOAD_LIST_RESPONSE__K8S_IO_APIMACHINERY_PKG_APIS_META_V1_UNSTRUCTURED_UNSTRUCTURED">>, fields |-> <<<<"Object", <<"Record", "<", "string", ",", "any", ">">>>>>>]

\* GET_NAMESPACE_WORKLOAD_LIST_RESPONSE__MOGENIUS_OPERATOR_SRC_CORE_RESULTMOGENIUS_OPERATOR_SRC_KUBERNETES_GETUNSTRUCTUREDNAMESPACERESOURCELISTREQUEST_K8S_IO_APIMACHINERY_PKG_APIS_META_V1_UNSTRUCTURED_UNSTRUCTURED
GET_NAMESPACE_WORKLOAD_LIST_RESPONSE__MOGENIUS_OPERATOR_SRC_CORE_RESULTMOGENIUS_OPERATOR_SRC_KUBERNETES_GETUNSTRUCTUREDNAMESPACERESOURCELISTREQUEST_K8S_IO_APIMACHINERY_PKG_APIS_META_V1_UNSTRUCTURED_UNSTRUCTURED == [name |-> <<"GET_NAMESPACE_WORKLOAD_LIST_RESPONSE__MOGENIUS_OPERATOR_SRC_CORE_RESULTMOGENIUS_OPERATOR_SRC_KUBERNETES_GETUNSTRUCTUREDNAMESPACERESOURCELISTREQUEST_K8S_IO_APIMACHINERY_PKG_APIS_META_V1_UNSTRUCTURED_UNSTRUCTURED">>, fields |-> <<<<"data", <<"GET_NAMESPACE_WORKLOAD_LIST_RESPONSE__K8S_IO_APIMACHINERY_PKG_APIS_META_V1_UNSTRUCTURED_UNSTRUCTURED", "[]">>>>, <<"message", <<"string">>>>, <<"status", <<"string">>>>>>]

\* GET_NODES_METRICS_RESPONSE__MOGENIUS_OPERATOR_SRC_CORE_NODEMETRICS
GET_NODES_METRICS_RESPONSE__MOGENIUS_OPERATOR_SRC_CORE_NODEMETRICS == [name |-> <<"GET_NODES_METRICS_RESPONSE__MOGENIUS_OPERATOR_SRC_CORE_NODEMETRICS">>, fields |-> <<<<"cpu", <<"Record", "<", "string", ",", "any", ">">>>>, <<"memory", <<"Record", "<", "string", ",", "any", ">">>>>, <<"nodeName", <<"string">>>>, <<"traffic", <<"GET_NODES_METRICS_RESPONSE__MOGENIUS_OPERATOR_SRC_NETWORKMONITOR_PODNETWORKSTATS", "[]">>>>>>]

\* GET_NODES_METRICS_RESPONSE__MOGENIUS_OPERATOR_SRC_CORE_RESPONSE
GET_NODES_METRICS_RESPONSE__MOGENIUS_OPERATOR_SRC_CORE_RESPONSE == [name |-> <<"GET_NODES_METRICS_RESPONSE__MOGENIUS_OPERATOR_SRC_CORE_RESPONSE">>, fields |-> <<<<"nodes", <<"GET_NODES_METRICS_RESPONSE__MOGENIUS_OPERATOR_SRC_CORE_NODEMETRICS", "[]">>>>>>]

\* GET_NODES_METRICS_RESPONSE__MOGENIUS_OPERATOR_SRC_CORE_RESULTMOGENIUS_OPERATOR_SRC_CORE_VOID_MOGENIUS_OPERATOR_SRC_CORE_RESPONSE38
GET_NODES_METRICS_RESPONSE__MOGENIUS_OPERATOR_SRC_CORE_RESULTMOGENIUS_OPERATOR_SRC_CORE_VOID_MOGENIUS_OPERATOR_SRC_CORE_RESPONSE38 == [name |-> <<"GET_NODES_METRICS_RESPONSE__MOGENIUS_OPERATOR_SRC_CORE_RESULTMOGENIUS_OPERATOR_SRC_CORE_VOID_MOGENIUS_OPERATOR_SRC_CORE_RESPONSE38">>, fields |-> <<<<"data", <<"GET_NODES_METRICS_RESPONSE__MOGENIUS_OPERATOR_SRC_CORE_RESPONSE">>>>, <<"message", <<"string">>>>, <<"status", <<"string">>>>>>]

\* GET_NODES_METRICS_RESPONSE__MOGENIUS_OPERATOR_SRC_NETWORKMONITOR_PODNETWORKSTATS
GET_NODES_METRICS_RESPONSE__MOGENIUS_OPERATOR_SRC_NETWORKMONITOR_PODNETWORKSTATS == [name |-> <<"GET_NODES_METRICS_RESPONSE__MOGENIUS_OPERATOR_SRC_NETWORKMONITOR_PODNETWORKSTATS">>, fields |-> <<<<"createdAt", <<"GET_NODES_METRICS_RESPONSE__TIME_TIME">>>>, <<"namespace", <<"string">>>>, <<"pod", <<"string">>>>, <<"receivedBytes", <<"number">>>>, <<"receivedPackets", <<"number">>>>, <<"receivedStartBytes", <<"number">>>>, <<"transmitBytes", <<"number">>>>, <<"transmitPackets", <<"number">>>>, <<"transmitStartBytes", <<"number">>>>>>]

\* GET_NODES_METRICS_RESPONSE__TIME_TIME
GET_NODES_METRICS_RESPONSE__TIME_TIME == [name |-> <<"GET_NODES_METRICS_RESPONSE__TIME_TIME">>, fields |-> <<>>]

\* GET_USER_RESPONSE__K8S_IO_API_RBAC_V1_SUBJECT
GET_USER_RESPONSE__K8S_IO_API_RBAC_V1_SUBJECT == [name |-> <<"GET_USER_RESPONSE__K8S_IO_API_RBAC_V1_SUBJECT">>, fields |-> <<<<"apiGroup", <<"string">>>>, <<"kind", <<"string">>>>, <<"name", <<"string">>>>, <<"namespace", <<"string">>>>>>]

\* GET_USER_RESPONSE__K8S_IO_APIMACHINERY_PKG_APIS_META_V1_FIELDSV1
GET_USER_RESPONSE__K8S_IO_APIMACHINERY_PKG_APIS_META_V1_FIELDSV1 == [name |-> <<"GET_USER_RESPONSE__K8S_IO_APIMACHINERY_PKG_APIS_META_V1_FIELDSV1">>, fields |-> <<>>]

=============================================================================
