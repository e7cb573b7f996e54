----------------------- MODULE ClientResponseAliases ------------------------
(***************************************************************************)
(* The Response aliases of src/generated/client.ts (lines 372-8857), in    *)
(* source order, given as the Request aliases are.                         *)
(***************************************************************************)
EXTENDS ShapeTypes, TLC

\* A generator slip: the Response alias declared as the struct type of
\* the pattern's Request.
AuditLogListResponseAsRequest ==
    [root    |-> GStruct("AUDIT_LOG_LIST_RESPONSE__MOGENIUS_OPERATOR_SRC_CORE_RESULTMOGENIUS_OPERATOR_SRC_CORE_REQUEST34_MOGENIUS_OPERATOR_SRC_CORE_RESPONSE35"),
     type    |-> <<"AUDIT_LOG_LIST_REQUEST__MOGENIUS_OPERATOR_SRC_CORE_REQUEST">>,
     structs |-> "AUDIT_LOG_LIST_RESPONSE__MOGENIUS_OPERATOR_SRC_CORE_RESPONSE" :> <<<<"data", GStruct("AUDIT_LOG_LIST_RESPONSE__MOGENIUS_OPERATOR_SRC_STORE_AUDITLOGRESPONSE")>>, <<"message", GStr>>, <<"status", GStr>>>> @@
                 "AUDIT_LOG_LIST_RESPONSE__MOGENIUS_OPERATOR_SRC_CORE_RESULTMOGENIUS_OPERATOR_SRC_CORE_REQUEST34_MOGENIUS_OPERATOR_SRC_CORE_RESPONSE35" :> <<<<"data", GStruct("AUDIT_LOG_LIST_RESPONSE__MOGENIUS_OPERATOR_SRC_CORE_RESPONSE")>>, <<"message", GStr>>, <<"status", GStr>>>> @@
                 "AUDIT_LOG_LIST_RESPONSE__MOGENIUS_OPERATOR_SRC_STORE_AUDITLOGENTRY" :> <<<<"createdAt", GStruct("AUDIT_LOG_LIST_RESPONSE__TIME_TIME")>>, <<"diff", GStr>>, <<"error", GStr>>, <<"pattern", GStr>>, <<"payload", GPtr(GAny)>>, <<"result", GPtr(GAny)>>, <<"user", GStruct("AUDIT_LOG_LIST_RESPONSE__MOGENIUS_OPERATOR_SRC_STRUCTS_USER")>>, <<"workspace", GStr>>>> @@
                 "AUDIT_LOG_LIST_RESPONSE__MOGENIUS_OPERATOR_SRC_STORE_AUDITLOGRESPONSE" :> <<<<"data", GArray(GStruct("AUDIT_LOG_LIST_RESPONSE__MOGENIUS_OPERATOR_SRC_STORE_AUDITLOGENTRY"))>>, <<"totalCount", GInt>>>> @@
                 "AUDIT_LOG_LIST_RESPONSE__MOGENIUS_OPERATOR_SRC_STRUCTS_USER" :> <<<<"email", GStr>>, <<"firstName", GStr>>, <<"lastName", GStr>>, <<"source", GStr>>>> @@
                 "AUDIT_LOG_LIST_RESPONSE__TIME_TIME" :> <<>>]

\* AUDIT_LOG_LIST_RESPONSE: the Go schema of its doc comment and the alias.
AUDIT_LOG_LIST_RESPONSE ==
    [root    |-> GStruct("AUDIT_LOG_LIST_RESPONSE__MOGENIUS_OPERATOR_SRC_CORE_RESULTMOGENIUS_OPERATOR_SRC_CORE_REQUEST34_MOGENIUS_OPERATOR_SRC_CORE_RESPONSE35"),
     type    |-> <<"AUDIT_LOG_LIST_RESPONSE__MOGENIUS_OPERATOR_SRC_CORE_RESULTMOGENIUS_OPERATOR_SRC_CORE_REQUEST34_MOGENIUS_OPERATOR_SRC_CORE_RESPONSE35">>,
     structs |-> "AUDIT_LOG_LIST_RESPONSE__MOGENIUS_OPERATOR_SRC_CORE_RESPONSE" :> <<<<"data", GStruct("AUDIT_LOG_LIST_RESPONSE__MOGENIUS_OPERATOR_SRC_STORE_AUDITLOGRESPONSE")>>, <<"message", GStr>>, <<"status", GStr>>>> @@
                 "AUDIT_LOG_LIST_RESPONSE__MOGENIUS_OPERATOR_SRC_CORE_RESULTMOGENIUS_OPERATOR_SRC_CORE_REQUEST34_MOGENIUS_OPERATOR_SRC_CORE_RESPONSE35" :> <<<<"data", GStruct("AUDIT_LOG_LIST_RESPONSE__MOGENIUS_OPERATOR_SRC_CORE_RESPONSE")>>, <<"message", GStr>>, <<"status", GStr>>>> @@
                 "AUDIT_LOG_LIST_RESPONSE__MOGENIUS_OPERATOR_SRC_STORE_AUDITLOGENTRY" :> <<<<"createdAt", GStruct("AUDIT_LOG_LIST_RESPONSE__TIME_TIME")>>, <<"diff", GStr>>, <<"error", GStr>>, <<"pattern", GStr>>, <<"payload", GPtr(GAny)>>, <<"result", GPtr(GAny)>>, <<"user", GStruct("AUDIT_LOG_LIST_RESPONSE__MOGENIUS_OPERATOR_SRC_STRUCTS_USER")>>, <<"workspace", GStr>>>> @@
                 "AUDIT_LOG_LIST_RESPONSE__MOGENIUS_OPERATOR_SRC_STORE_AUDITLOGRESPONSE" :> <<<<"data", GArray(GStruct("AUDIT_LOG_LIST_RESPONSE__MOGENIUS_OPERATOR_SRC_STORE_AUDITLOGENTRY"))>>, <<"totalCount", GInt>>>> @@
                 "AUDIT_LOG_LIST_RESPONSE__MOGENIUS_OPERATOR_SRC_STRUCTS_USER" :> <<<<"email", GStr>>, <<"firstName", GStr>>, <<"lastName", GStr>>, <<"source", GStr>>>> @@
                 "AUDIT_LOG_LIST_RESPONSE__TIME_TIME" :> <<>>]

\* CLUSTER_ARGO_CD_APPLICATION_REFRESH_RESPONSE: the Go schema of its doc comment and the alias.
CLUSTER_ARGO_CD_APPLICATION_REFRESH_RESPONSE ==
    [root    |-> GStruct("CLUSTER_ARGO_CD_APPLICATION_REFRESH_RESPONSE__MOGENIUS_OPERATOR_SRC_CORE_RESULTMOGENIUS_OPERATOR_SRC_ARGOCD_ARGOCDAPPLICATIONREFRESHREQUEST_BOOL"),
     type    |-> <<"CLUSTER_ARGO_CD_APPLICATION_REFRESH_RESPONSE__MOGENIUS_OPERATOR_SRC_CORE_RESULTMOGENIUS_OPERATOR_SRC_ARGOCD_ARGOCDAPPLICATIONREFRESHREQUEST_BOOL">>,
     structs |-> "CLUSTER_ARGO_CD_APPLICATION_REFRESH_RESPONSE__MOGENIUS_OPERATOR_SRC_CORE_RESULTMOGENIUS_OPERATOR_SRC_ARGOCD_ARGOCDAPPLICATIONREFRESHREQUEST_BOOL" :> <<<<"data", GBool>>, <<"message", GStr>>, <<"status", GStr>>>>]

\* CLUSTER_ARGO_CD_CREATE_API_TOKEN_RESPONSE: the Go schema of its doc comment and the alias.
CLUSTER_ARGO_CD_CREATE_API_TOKEN_RESPONSE ==
    [root    |-> GStruct("CLUSTER_ARGO_CD_CREATE_API_TOKEN_RESPONSE__MOGENIUS_OPERATOR_SRC_CORE_RESULTMOGENIUS_OPERATOR_SRC_ARGOCD_ARGOCDCREATEAPITOKENREQUEST_BOOL"),
     type    |-> <<"CLUSTER_ARGO_CD_CREATE_API_TOKEN_RESPONSE__MOGENIUS_OPERATOR_SRC_CORE_RESULTMOGENIUS_OPERATOR_SRC_ARGOCD_ARGOCDCREATEAPITOKENREQUEST_BOOL">>,
     structs |-> "CLUSTER_ARGO_CD_CREATE_API_TOKEN_RESPONSE__MOGENIUS_OPERATOR_SRC_CORE_RESULTMOGENIUS_OPERATOR_SRC_ARGOCD_ARGOCDCREATEAPITOKENREQUEST_BOOL" :> <<<<"data", GBool>>, <<"message", GStr>>, <<"status", GStr>>>>]

\* CLUSTER_CLEAR_VALKEY_CACHE_RESPONSE: the Go schema of its doc comment and the alias.
CLUSTER_CLEAR_VALKEY_CACHE_RESPONSE ==
    [root    |-> GStruct("CLUSTER_CLEAR_VALKEY_CACHE_RESPONSE__MOGENIUS_OPERATOR_SRC_CORE_RESULTMOGENIUS_OPERATOR_SRC_CORE_REQUEST5_STRING"),
     type    |-> <<"CLUSTER_CLEAR_VALKEY_CACHE_RESPONSE__MOGENIUS_OPERATOR_SRC_CORE_RESULTMOGENIUS_OPERATOR_SRC_CORE_REQUEST5_STRING">>,
     structs |-> "CLUSTER_CLEAR_VALKEY_CACHE_RESPONSE__MOGENIUS_OPERATOR_SRC_CORE_RESULTMOGENIUS_OPERATOR_SRC_CORE_REQUEST5_STRING" :> <<<<"data", GStr>>, <<"message", GStr>>, <<"status", GStr>>>>]

\* CLUSTER_COMPONENT_LOG_STREAM_CONNECTION_REQUEST_RESPONSE: the Go schema of its doc comment and the alias.
CLUSTER_COMPONENT_LOG_STREAM_CONNECTION_REQUEST_RESPONSE ==
    [root    |-> GStruct("CLUSTER_COMPONENT_LOG_STREAM_CONNECTION_REQUEST_RESPONSE__MOGENIUS_OPERATOR_SRC_CORE_RESULTMOGENIUS_OPERATOR_SRC_XTERM_COMPONENTLOGCONNECTIONREQUEST_MOGENIUS_OPERATOR_SRC_CORE_VOID"),
     type    |-> <<"CLUSTER_COMPONENT_LOG_STREAM_CONNECTION_REQUEST_RESPONSE__MOGENIUS_OPERATOR_SRC_CORE_RESULTMOGENIUS_OPERATOR_SRC_XTERM_COMPONENTLOGCONNECTIONREQUEST_MOGENIUS_OPERATOR_SRC_CORE_VOID">>,
     structs |-> "CLUSTER_COMPONENT_LOG_STREAM_CONNECTION_REQUEST_RESPONSE__ANON_STRUCT_1" :> <<>> @@
                 "CLUSTER_COMPONENT_LOG_STREAM_CONNECTION_REQUEST_RESPONSE__MOGENIUS_OPERATOR_SRC_CORE_RESULTMOGENIUS_OPERATOR_SRC_XTERM_COMPONENTLOGCONNECTIONREQUEST_MOGENIUS_OPERATOR_SRC_CORE_VOID" :> <<<<"data", GPtr(GStruct("CLUSTER_COMPONENT_LOG_STREAM_CONNECTION_REQUEST_RESPONSE__ANON_STRUCT_1"))>>, <<"message", GStr>>, <<"status", GStr>>>>]

\* CLUSTER_FORCE_DISCONNECT_RESPONSE: the Go schema of its doc comment and the alias.
CLUSTER_FORCE_DISCONNECT_RESPONSE ==
    [root    |-> GStruct("CLUSTER_FORCE_DISCONNECT_RESPONSE__MOGENIUS_OPERATOR_SRC_CORE_RESULTMOGENIUS_OPERATOR_SRC_CORE_VOID_BOOL"),
     type    |-> <<"CLUSTER_FORCE_DISCONNECT_RESPONSE__MOGENIUS_OPERATOR_SRC_CORE_RESULTMOGENIUS_OPERATOR_SRC_CORE_VOID_BOOL">>,
     structs |-> "CLUSTER_FORCE_DISCONNECT_RESPONSE__MOGENIUS_OPERATOR_SRC_CORE_RESULTMOGENIUS_OPERATOR_SRC_CORE_VOID_BOOL" :> <<<<"data", GBool>>, <<"message", GStr>>, <<"status", GStr>>>>]

\* CLUSTER_FORCE_RECONNECT_RESPONSE: the Go schema of its doc comment and the alias.
CLUSTER_FORCE_RECONNECT_RESPONSE ==
    [root    |-> GStruct("CLUSTER_FORCE_RECONNECT_RESPONSE__MOGENIUS_OPERATOR_SRC_CORE_RESULTMOGENIUS_OPERATOR_SRC_CORE_VOID_BOOL"),
     type    |-> <<"CLUSTER_FORCE_RECONNECT_RESPONSE__MOGENIUS_OPERATOR_SRC_CORE_RESULTMOGENIUS_OPERATOR_SRC_CORE_VOID_BOOL">>,
     structs |-> "CLUSTER_FORCE_RECONNECT_RESPONSE__MOGENIUS_OPERATOR_SRC_CORE_RESULTMOGENIUS_OPERATOR_SRC_CORE_VOID_BOOL" :> <<<<"data", GBool>>, <<"message", GStr>>, <<"status", GStr>>>>]

\* CLUSTER_HELM_CHART_INSTALL_RESPONSE: the Go schema of its doc comment and the alias.
CLUSTER_HELM_CHART_INSTALL_RESPONSE ==
    [root    |-> GStruct("CLUSTER_HELM_CHART_INSTALL_RESPONSE__MOGENIUS_OPERATOR_SRC_CORE_RESULTMOGENIUS_OPERATOR_SRC_HELM_HELMCHARTINSTALLUPGRADEREQUEST_STRING"),
     type    |-> <<"CLUSTER_HELM_CHART_INSTALL_RESPONSE__MOGENIUS_OPERATOR_SRC_CORE_RESULTMOGENIUS_OPERATOR_SRC_HELM_HELMCHARTINSTALLUPGRADEREQUEST_STRING">>,
     structs |-> "CLUSTER_HELM_CHART_INSTALL_RESPONSE__MOGENIUS_OPERATOR_SRC_CORE_RESULTMOGENIUS_OPERATOR_SRC_HELM_HELMCHARTINSTALLUPGRADEREQUEST_STRING" :> <<<<"data", GStr>>, <<"message", GStr>>, <<"status", GStr>>>>]

\* CLUSTER_HELM_CHART_INSTALL_OCI_RESPONSE: the Go schema of its doc comment and the alias.
CLUSTER_HELM_CHART_INSTALL_OCI_RESPONSE ==
    [root    |-> GStruct("CLUSTER_HELM_CHART_INSTALL_OCI_RESPONSE__MOGENIUS_OPERATOR_SRC_CORE_RESULTMOGENIUS_OPERATOR_SRC_HELM_HELMCHARTOCIINSTALLUPGRADEREQUEST_STRING"),
     type    |-> <<"CLUSTER_HELM_CHART_INSTALL_OCI_RESPONSE__MOGENIUS_OPERATOR_SRC_CORE_RESULTMOGENIUS_OPERATOR_SRC_HELM_HELMCHARTOCIINSTALLUPGRADEREQUEST_STRING">>,
     structs |-> "CLUSTER_HELM_CHART_INSTALL_OCI_RESPONSE__MOGENIUS_OPERATOR_SRC_CORE_RESULTMOGENIUS_OPERATOR_SRC_HELM_HELMCHARTOCIINSTALLUPGRADEREQUEST_STRING" :> <<<<"data", GStr>>, <<"message", GStr>>, <<"status", GStr>>>>]

\* CLUSTER_HELM_CHART_REMOVE_RESPONSE: the Go schema of its doc comment and the alias.
CLUSTER_HELM_CHART_REMOVE_RESPONSE ==
    [root    |-> GStruct("CLUSTER_HELM_CHART_REMOVE_RESPONSE__MOGENIUS_OPERATOR_SRC_CORE_RESULTMOGENIUS_OPERATOR_SRC_HELM_HELMREPOREMOVEREQUEST_STRING"),
     type    |-> <<"CLUSTER_HELM_CHART_REMOVE_RESPONSE__MOGENIUS_OPERATOR_SRC_CORE_RESULTMOGENIUS_OPERATOR_SRC_HELM_HELMREPOREMOVEREQUEST_STRING">>,
     structs |-> "CLUSTER_HELM_CHART_REMOVE_RESPONSE__MOGENIUS_OPERATOR_SRC_CORE_RESULTMOGENIUS_OPERATOR_SRC_HELM_HELMREPOREMOVEREQUEST_STRING" :> <<<<"data", GStr>>, <<"message", GStr>>, <<"status", GStr>>>>]

\* CLUSTER_HELM_CHART_SEARCH_RESPONSE: the Go schema of its doc comment and the alias.
CLUSTER_HELM_CHART_SEARCH_RESPONSE ==
    [root    |-> GStruct("CLUSTER_HELM_CHART_SEARCH_RESPONSE__MOGENIUS_OPERATOR_SRC_CORE_RESULTMOGENIUS_OPERATOR_SRC_HELM_HELMCHARTSEARCHREQUEST_MOGENIUS_OPERATOR_SRC_HELM_HELMCHARTINFO"),
     type    |-> <<"CLUSTER_HELM_CHART_SEARCH_RESPONSE__MOGENIUS_OPERATOR_SRC_CORE_RESULTMOGENIUS_OPERATOR_SRC_HELM_HELMCHARTSEARCHREQUEST_MOGENIUS_OPERATOR_SRC_HELM_HELMCHARTINFO">>,
     structs |-> "CLUSTER_HELM_CHART_SEARCH_RESPONSE__MOGENIUS_OPERATOR_SRC_CORE_RESULTMOGENIUS_OPERATOR_SRC_HELM_HELMCHARTSEARCHREQUEST_MOGENIUS_OPERATOR_SRC_HELM_HELMCHARTINFO" :> <<<<"data", GArray(GStruct("CLUSTER_HELM_CHART_SEARCH_RESPONSE__MOGENIUS_OPERATOR_SRC_HELM_HELMCHARTINFO"))>>, <<"message", GStr>>, <<"status", GStr>>>> @@
                 "CLUSTER_HELM_CHART_SEARCH_RESPONSE__MOGENIUS_OPERATOR_SRC_HELM_HELMCHARTINFO" :> <<<<"app_version", GStr>>, <<"description", GStr>>, <<"name", GStr>>, <<"version", GStr>>>>]

\* CLUSTER_HELM_CHART_SHOW_RESPONSE: the Go schema of its doc comment and the alias.
CLUSTER_HELM_CHART_SHOW_RESPONSE ==
    [root    |-> GStruct("CLUSTER_HELM_CHART_SHOW_RESPONSE__MOGENIUS_OPERATOR_SRC_CORE_RESULTMOGENIUS_OPERATOR_SRC_HELM_HELMCHARTSHOWREQUEST_STRING"),
     type    |-> <<"CLUSTER_HELM_CHART_SHOW_RESPONSE__MOGENIUS_OPERATOR_SRC_CORE_RESULTMOGENIUS_OPERATOR_SRC_HELM_HELMCHARTSHOWREQUEST_STRING">>,
     structs |-> "CLUSTER_HELM_CHART_SHOW_RESPONSE__MOGENIUS_OPERATOR_SRC_CORE_RESULTMOGENIUS_OPERATOR_SRC_HELM_HELMCHARTSHOWREQUEST_STRING" :> <<<<"data", GStr>>, <<"message", GStr>>, <<"status", GStr>>>>]

\* CLUSTER_HELM_CHART_VERSIONS_RESPONSE: the Go schema of its doc comment and the alias.
CLUSTER_HELM_CHART_VERSIONS_RESPONSE ==
    [root    |-> GStruct("CLUSTER_HELM_CHART_VERSIONS_RESPONSE__MOGENIUS_OPERATOR_SRC_CORE_RESULTMOGENIUS_OPERATOR_SRC_HELM_HELMCHARTVERSIONREQUEST_MOGENIUS_OPERATOR_SRC_HELM_HELMCHARTINFO"),
     type    |-> <<"CLUSTER_HELM_CHART_VERSIONS_RESPONSE__MOGENIUS_OPERATOR_SRC_CORE_RESULTMOGENIUS_OPERATOR_SRC_HELM_HELMCHARTVERSIONREQUEST_MOGENIUS_OPERATOR_SRC_HELM_HELMCHARTINFO">>,
     structs |-> "CLUSTER_HELM_CHART_VERSIONS_RESPONSE__MOGENIUS_OPERATOR_SRC_CORE_RESULTMOGENIUS_OPERATOR_SRC_HELM_HELMCHARTVERSIONREQUEST_MOGENIUS_OPERATOR_SRC_HELM_HELMCHARTINFO" :> <<<<"data", GArray(GStruct("CLUSTER_HELM_CHART_VERSIONS_RESPONSE__MOGENIUS_OPERATOR_SRC_HELM_HELMCHARTINFO"))>>, <<"message", GStr>>, <<"status", GStr>>>> @@
                 "CLUSTER_HELM_CHART_VERSIONS_RESPONSE__MOGENIUS_OPERATOR_SRC_HELM_HELMCHARTINFO" :> <<<<"app_version", GStr>>, <<"description", GStr>>, <<"name", GStr>>, <<"version", GStr>>>>]

\* CLUSTER_HELM_RELEASE_GET_RESPONSE: the Go schema of its doc comment and the alias.
CLUSTER_HELM_RELEASE_GET_RESPONSE ==
    [root    |-> GStruct("CLUSTER_HELM_RELEASE_GET_RESPONSE__MOGENIUS_OPERATOR_SRC_CORE_RESULTMOGENIUS_OPERATOR_SRC_HELM_HELMRELEASEGETREQUEST_STRING"),
     type    |-> <<"CLUSTER_HELM_RELEASE_GET_RESPONSE__MOGENIUS_OPERATOR_SRC_CORE_RESULTMOGENIUS_OPERATOR_SRC_HELM_HELMRELEASEGETREQUEST_STRING">>,
     structs |-> "CLUSTER_HELM_RELEASE_GET_RESPONSE__MOGENIUS_OPERATOR_SRC_CORE_RESULTMOGENIUS_OPERATOR_SRC_HELM_HELMRELEASEGETREQUEST_STRING" :> <<<<"data", GStr>>, <<"message", GStr>>, <<"status", GStr>>>>]

\* CLUSTER_HELM_RELEASE_GET_WORKLOADS_RESPONSE: the Go schema of its doc comment and the alias.
CLUSTER_HELM_RELEASE_GET_WORKLOADS_RESPONSE ==
    [root    |-> GStruct("CLUSTER_HELM_RELEASE_GET_WORKLOADS_RESPONSE__MOGENIUS_OPERATOR_SRC_CORE_RESULTMOGENIUS_OPERATOR_SRC_HELM_HELMRELEASEGETWORKLOADSREQUEST_K8S_IO_APIMACHINERY_PKG_APIS_META_V1_UNSTRUCTURED_UNSTRUCTURED"),
     type    |-> <<"CLUSTER_HELM_RELEASE_GET_WORKLOADS_RESPONSE__MOGENIUS_OPERATOR_SRC_CORE_RESULTMOGENIUS_OPERATOR_SRC_HELM_HELMRELEASEGETWORKLOADSREQUEST_K8S_IO_APIMACHINERY_PKG_APIS_META_V1_UNSTRUCTURED_UNSTRUCTURED">>,
     structs |-> "CLUSTER_HELM_RELEASE_GET_WORKLOADS_RESPONSE__K8S_IO_APIMACHINERY_PKG_APIS_META_V1_UNSTRUCTURED_UNSTRUCTURED" :> <<<<"Object", GMap(GStr, GPtr(GAny))>>>> @@
                 "CLUSTER_HELM_RELEASE_GET_WORKLOADS_RESPONSE__MOGENIUS_OPERATOR_SRC_CORE_RESULTMOGENIUS_OPERATOR_SRC_HELM_HELMRELEASEGETWORKLOADSREQUEST_K8S_IO_APIMACHINERY_PKG_APIS_META_V1_UNSTRUCTURED_UNSTRUCTURED" :> <<<<"data", GArray(GStruct("CLUSTER_HELM_RELEASE_GET_WORKLOADS_RESPONSE__K8S_IO_APIMACHINERY_PKG_APIS_META_V1_UNSTRUCTURED_UNSTRUCTURED"))>>, <<"message", GStr>>, <<"status", GStr>>>>]

\* CLUSTER_HELM_RELEASE_HISTORY_RESPONSE: the Go schema of its doc comment and the alias.
CLUSTER_HELM_RELEASE_HISTORY_RESPONSE ==
    [root    |-> GStruct("CLUSTER_HELM_RELEASE_HISTORY_RESPONSE__MOGENIUS_OPERATOR_SRC_CORE_RESULTMOGENIUS_OPERATOR_SRC_HELM_HELMRELEASEHISTORYREQUEST_HELM_SH_HELM_V4_PKG_RELEASE_V1_RELEASE"),
     type    |-> <<"CLUSTER_HELM_RELEASE_HISTORY_RESPONSE__MOGENIUS_OPERATOR_SRC_CORE_RESULTMOGENIUS_OPERATOR_SRC_HELM_HELMRELEASEHISTORYREQUEST_HELM_SH_HELM_V4_PKG_RELEASE_V1_RELEASE">>,
     structs |-> "CLUSTER_HELM_RELEASE_HISTORY_RESPONSE__HELM_SH_HELM_V4_PKG_CHART_COMMON_FILE" :> <<<<"data", GArray(GUint)>>, <<"modtime", GStruct("CLUSTER_HELM_RELEASE_HISTORY_RESPONSE__TIME_TIME")>>, <<"name", GStr>>>> @@
                 "CLUSTER_HELM_RELEASE_HISTORY_RESPONSE__HELM_SH_HELM_V4_PKG_CHART_V2_CHART" :> <<<<"files", GArray(GPtr(GStruct("CLUSTER_HELM_RELEASE_HISTORY_RESPONSE__HELM_SH_HELM_V4_PKG_CHART_COMMON_FILE")))>>, <<"lock", GPtr(GStruct("CLUSTER_HELM_RELEASE_HISTORY_RESPONSE__HELM_SH_HELM_V4_PKG_CHART_V2_LOCK"))>>, <<"metadata", GPtr(GStruct("CLUSTER_HELM_RELEASE_HISTORY_RESPONSE__HELM_SH_HELM_V4_PKG_CHART_V2_METADATA"))>>, <<"modtime", GStruct("CLUSTER_HELM_RELEASE_HISTORY_RESPONSE__TIME_TIME")>>, <<"schema", GArray(GUint)>>, <<"schemamodtime", GStruct("CLUSTER_HELM_RELEASE_HISTORY_RESPONSE__TIME_TIME")>>, <<"templates", GArray(GPtr(GStruct("CLUSTER_HELM_RELEASE_HISTORY_RESPONSE__HELM_SH_HELM_V4_PKG_CHART_COMMON_FILE")))>>, <<"values", GMap(GStr, GPtr(GAny))>>>> @@
                 "CLUSTER_HELM_RELEASE_HISTORY_RESPONSE__HELM_SH_HELM_V4_PKG_CHART_V2_DEPENDENCY" :> <<<<"alias", GStr>>, <<"condition", GStr>>, <<"enabled", GBool>>, <<"import-values", GArray(GPtr(GAny))>>, <<"name", GStr>>, <<"repository", GStr>>, <<"tags", GArray(GStr)>>, <<"version", GStr>>>> @@
                 "CLUSTER_HELM_RELEASE_HISTORY_RESPONSE__HELM_SH_HELM_V4_PKG_CHART_V2_LOCK" :> <<<<"dependencies", GArray(GPtr(GStruct("CLUSTER_HELM_RELEASE_HISTORY_RESPONSE__HELM_SH_HELM_V4_PKG_CHART_V2_DEPENDENCY")))>>, <<"digest", GStr>>, <<"generated", GStruct("CLUSTER_HELM_RELEASE_HISTORY_RESPONSE__TIME_TIME")>>>> @@
                 "CLUSTER_HELM_RELEASE_HISTORY_RESPONSE__HELM_SH_HELM_V4_PKG_CHART_V2_MAINTAINER" :> <<<<"email", GStr>>, <<"name", GStr>>, <<"url", GStr>>>> @@
                 "CLUSTER_HELM_RELEASE_HISTORY_RESPONSE__HELM_SH_HELM_V4_PKG_CHART_V2_METADATA" :> <<<<"annotations", GMap(GStr, GStr)>>, <<"apiVersion", GStr>>, <<"appVersion", GStr>>, <<"condition", GStr>>, <<"dependencies", GArray(GPtr(GStruct("CLUSTER_HELM_RELEASE_HISTORY_RESPONSE__HELM_SH_HELM_V4_PKG_CHART_V2_DEPENDENCY")))>>, <<"deprecated", GBool>>, <<"description", GStr>>, <<"home", GStr>>, <<"icon", GStr>>, <<"keywords", GArray(GStr)>>, <<"kubeVersion", GStr>>, <<"maintainers", GArray(GPtr(GStruct("CLUSTER_HELM_RELEASE_HISTORY_RESPONSE__HELM_SH_HELM_V4_PKG_CHART_V2_MAINTAINER")))>>, <<"name", GStr>>, <<"sources", GArray(GStr)>>, <<"tags", GStr>>, <<"type", GStr>>, <<"version", GStr>>>> @@
                 "CLUSTER_HELM_RELEASE_HISTORY_RESPONSE__HELM_SH_HELM_V4_PKG_RELEASE_V1_HOOK" :> <<<<"delete_policies", GArray(GStr)>>, <<"events", GArray(GStr)>>, <<"kind", GStr>>, <<"last_run", GStruct("CLUSTER_HELM_RELEASE_HISTORY_RESPONSE__HELM_SH_HELM_V4_PKG_RELEASE_V1_HOOKEXECUTION")>>, <<"manifest", GStr>>, <<"name", GStr>>, <<"output_log_policies", GArray(GStr)>>, <<"path", GStr>>, <<"weight", GInt>>>> @@
                 "CLUSTER_HELM_RELEASE_HISTORY_RESPONSE__HELM_SH_HELM_V4_PKG_RELEASE_V1_HOOKEXECUTION" :> <<<<"completed_at", GStruct("CLUSTER_HELM_RELEASE_HISTORY_RESPONSE__TIME_TIME")>>, <<"phase", GStr>>, <<"started_at", GStruct("CLUSTER_HELM_RELEASE_HISTORY_RESPONSE__TIME_TIME")>>>> @@
                 "CLUSTER_HELM_RELEASE_HISTORY_RESPONSE__HELM_SH_HELM_V4_PKG_RELEASE_V1_INFO" :> <<<<"deleted", GStruct("CLUSTER_HELM_RELEASE_HISTORY_RESPONSE__TIME_TIME")>>, <<"description", GStr>>, <<"first_deployed", GStruct("CLUSTER_HELM_RELEASE_HISTORY_RESPONSE__TIME_TIME")>>, <<"last_deployed", GStruct("CLUSTER_HELM_RELEASE_HISTORY_RESPONSE__TIME_TIME")>>, <<"notes", GStr>>, <<"resources", GMap(GStr, GArray(GPtr(GAny)))>>, <<"status", GStr>>>> @@
                 "CLUSTER_HELM_RELEASE_HISTORY_RESPONSE__HELM_SH_HELM_V4_PKG_RELEASE_V1_RELEASE" :> <<<<"apply_method", GStr>>, <<"chart", GPtr(GStruct("CLUSTER_HELM_RELEASE_HISTORY_RESPONSE__HELM_SH_HELM_V4_PKG_CHART_V2_CHART"))>>, <<"config", GMap(GStr, GPtr(GAny))>>, <<"hooks", GArray(GPtr(GStruct("CLUSTER_HELM_RELEASE_HISTORY_RESPONSE__HELM_SH_HELM_V4_PKG_RELEASE_V1_HOOK")))>>, <<"info", GPtr(GStruct("CLUSTER_HELM_RELEASE_HISTORY_RESPONSE__HELM_SH_HELM_V4_PKG_RELEASE_V1_INFO"))>>, <<"manifest", GStr>>, <<"name", GStr>>, <<"namespace", GStr>>, <<"version", GInt>>>> @@
                 "CLUSTER_HELM_RELEASE_HISTORY_RESPONSE__MOGENIUS_OPERATOR_SRC_CORE_RESULTMOGENIUS_OPERATOR_SRC_HELM_HELMRELEASEHISTORYREQUEST_HELM_SH_HELM_V4_PKG_RELEASE_V1_RELEASE" :> <<<<"data", GArray(GStruct("CLUSTER_HELM_RELEASE_HISTORY_RESPONSE__HELM_SH_HELM_V4_PKG_RELEASE_V1_RELEASE"))>>, <<"message", GStr>>, <<"status", GStr>>>> @@
                 "CLUSTER_HELM_RELEASE_HISTORY_RESPONSE__TIME_TIME" :> <<>>]

\* CLUSTER_HELM_RELEASE_LINK_RESPONSE: the Go schema of its doc comment and the alias.
CLUSTER_HELM_RELEASE_LINK_RESPONSE ==
    [root    |-> GStruct("CLUSTER_HELM_RELEASE_LINK_RESPONSE__MOGENIUS_OPERATOR_SRC_CORE_RESULTMOGENIUS_OPERATOR_SRC_HELM_HELMRELEASELINKREQUEST_STRING"),
     type    |-> <<"CLUSTER_HELM_RELEASE_LINK_RESPONSE__MOGENIUS_OPERATOR_SRC_CORE_RESULTMOGENIUS_OPERATOR_SRC_HELM_HELMRELEASELINKREQUEST_STRING">>,
     structs |-> "CLUSTER_HELM_RELEASE_LINK_RESPONSE__MOGENIUS_OPERATOR_SRC_CORE_RESULTMOGENIUS_OPERATOR_SRC_HELM_HELMRELEASELINKREQUEST_STRING" :> <<<<"data", GStr>>, <<"message", GStr>>, <<"status", GStr>>>>]

\* CLUSTER_HELM_RELEASE_LIST_RESPONSE: the Go schema of its doc comment and the alias.
CLUSTER_HELM_RELEASE_LIST_RESPONSE ==
    [root    |-> GStruct("CLUSTER_HELM_RELEASE_LIST_RESPONSE__MOGENIUS_OPERATOR_SRC_CORE_RESULTMOGENIUS_OPERATOR_SRC_HELM_HELMRELEASELISTREQUEST_MOGENIUS_OPERATOR_SRC_HELM_HELMRELEASE"),
     type    |-> <<"CLUSTER_HELM_RELEASE_LIST_RESPONSE__MOGENIUS_OPERATOR_SRC_CORE_RESULTMOGENIUS_OPERATOR_SRC_HELM_HELMRELEASELISTREQUEST_MOGENIUS_OPERATOR_SRC_HELM_HELMRELEASE">>,
     structs |-> "CLUSTER_HELM_RELEASE_LIST_RESPONSE__HELM_SH_HELM_V4_PKG_CHART_COMMON_FILE" :> <<<<"data", GArray(GUint)>>, <<"modtime", GStruct("CLUSTER_HELM_RELEASE_LIST_RESPONSE__TIME_TIME")>>, <<"name", GStr>>>> @@
                 "CLUSTER_HELM_RELEASE_LIST_RESPONSE__HELM_SH_HELM_V4_PKG_CHART_V2_CHART" :> <<<<"files", GArray(GPtr(GStruct("CLUSTER_HELM_RELEASE_LIST_RESPONSE__HELM_SH_HELM_V4_PKG_CHART_COMMON_FILE")))>>, <<"lock", GPtr(GStruct("CLUSTER_HELM_RELEASE_LIST_RESPONSE__HELM_SH_HELM_V4_PKG_CHART_V2_LOCK"))>>, <<"metadata", GPtr(GStruct("CLUSTER_HELM_RELEASE_LIST_RESPONSE__HELM_SH_HELM_V4_PKG_CHART_V2_METADATA"))>>, <<"modtime", GStruct("CLUSTER_HELM_RELEASE_LIST_RESPONSE__TIME_TIME")>>, <<"schema", GArray(GUint)>>, <<"schemamodtime", GStruct("CLUSTER_HELM_RELEASE_LIST_RESPONSE__TIME_TIME")>>, <<"templates", GArray(GPtr(GStruct("CLUSTER_HELM_RELEASE_LIST_RESPONSE__HELM_SH_HELM_V4_PKG_CHART_COMMON_FILE")))>>, <<"values", GMap(GStr, GPtr(GAny))>>>> @@
                 "CLUSTER_HELM_RELEASE_LIST_RESPONSE__HELM_SH_HELM_V4_PKG_CHART_V2_DEPENDENCY" :> <<<<"alias", GStr>>, <<"condition", GStr>>, <<"enabled", GBool>>, <<"import-values", GArray(GPtr(GAny))>>, <<"name", GStr>>, <<"repository", GStr>>, <<"tags", GArray(GStr)>>, <<"version", GStr>>>> @@
                 "CLUSTER_HELM_RELEASE_LIST_RESPONSE__HELM_SH_HELM_V4_PKG_CHART_V2_LOCK" :> <<<<"dependencies", GArray(GPtr(GStruct("CLUSTER_HELM_RELEASE_LIST_RESPONSE__HELM_SH_HELM_V4_PKG_CHART_V2_DEPENDENCY")))>>, <<"digest", GStr>>, <<"generated", GStruct("CLUSTER_HELM_RELEASE_LIST_RESPONSE__TIME_TIME")>>>> @@
                 "CLUSTER_HELM_RELEASE_LIST_RESPONSE__HELM_SH_HELM_V4_PKG_CHART_V2_MAINTAINER" :> <<<<"email", GStr>>, <<"name", GStr>>, <<"url", GStr>>>> @@
                 "CLUSTER_HELM_RELEASE_LIST_RESPONSE__HELM_SH_HELM_V4_PKG_CHART_V2_METADATA" :> <<<<"annotations", GMap(GStr, GStr)>>, <<"apiVersion", GStr>>, <<"appVersion", GStr>>, <<"condition", GStr>>, <<"dependencies", GArray(GPtr(GStruct("CLUSTER_HELM_RELEASE_LIST_RESPONSE__HELM_SH_HELM_V4_PKG_CHART_V2_DEPENDENCY")))>>, <<"deprecated", GBool>>, <<"description", GStr>>, <<"home", GStr>>, <<"icon", GStr>>, <<"keywords", GArray(GStr)>>, <<"kubeVersion", GStr>>, <<"maintainers", GArray(GPtr(GStruct("CLUSTER_HELM_RELEASE_LIST_RESPONSE__HELM_SH_HELM_V4_PKG_CHART_V2_MAINTAINER")))>>, <<"name", GStr>>, <<"sources", GArray(GStr)>>, <<"tags", GStr>>, <<"type", GStr>>, <<"version", GStr>>>> @@
                 "CLUSTER_HELM_RELEASE_LIST_RESPONSE__HELM_SH_HELM_V4_PKG_RELEASE_V1_HOOK" :> <<<<"delete_policies", GArray(GStr)>>, <<"events", GArray(GStr)>>, <<"kind", GStr>>, <<"last_run", GStruct("CLUSTER_HELM_RELEASE_LIST_RESPONSE__HELM_SH_HELM_V4_PKG_RELEASE_V1_HOOKEXECUTION")>>, <<"manifest", GStr>>, <<"name", GStr>>, <<"output_log_policies", GArray(GStr)>>, <<"path", GStr>>, <<"weight", GInt>>>> @@
                 "CLUSTER_HELM_RELEASE_LIST_RESPONSE__HELM_SH_HELM_V4_PKG_RELEASE_V1_HOOKEXECUTION" :> <<<<"completed_at", GStruct("CLUSTER_HELM_RELEASE_LIST_RESPONSE__TIME_TIME")>>, <<"phase", GStr>>, <<"started_at", GStruct("CLUSTER_HELM_RELEASE_LIST_RESPONSE__TIME_TIME")>>>> @@
                 "CLUSTER_HELM_RELEASE_LIST_RESPONSE__HELM_SH_HELM_V4_PKG_RELEASE_V1_INFO" :> <<<<"deleted", GStruct("CLUSTER_HELM_RELEASE_LIST_RESPONSE__TIME_TIME")>>, <<"description", GStr>>, <<"first_deployed", GStruct("CLUSTER_HELM_RELEASE_LIST_RESPONSE__TIME_TIME")>>, <<"last_deployed", GStruct("CLUSTER_HELM_RELEASE_LIST_RESPONSE__TIME_TIME")>>, <<"notes", GStr>>, <<"resources", GMap(GStr, GArray(GPtr(GAny)))>>, <<"status", GStr>>>> @@
                 "CLUSTER_HELM_RELEASE_LIST_RESPONSE__MOGENIUS_OPERATOR_SRC_CORE_RESULTMOGENIUS_OPERATOR_SRC_HELM_HELMRELEASELISTREQUEST_MOGENIUS_OPERATOR_SRC_HELM_HELMRELEASE" :> <<<<"data", GArray(GPtr(GStruct("CLUSTER_HELM_RELEASE_LIST_RESPONSE__MOGENIUS_OPERATOR_SRC_HELM_HELMRELEASE")))>>, <<"message", GStr>>, <<"status", GStr>>>> @@
                 "CLUSTER_HELM_RELEASE_LIST_RESPONSE__MOGENIUS_OPERATOR_SRC_HELM_HELMRELEASE" :> <<<<"chart", GPtr(GStruct("CLUSTER_HELM_RELEASE_LIST_RESPONSE__HELM_SH_HELM_V4_PKG_CHART_V2_CHART"))>>, <<"config", GMap(GStr, GPtr(GAny))>>, <<"hooks", GArray(GPtr(GStruct("CLUSTER_HELM_RELEASE_LIST_RESPONSE__HELM_SH_HELM_V4_PKG_RELEASE_V1_HOOK")))>>, <<"info", GPtr(GStruct("CLUSTER_HELM_RELEASE_LIST_RESPONSE__HELM_SH_HELM_V4_PKG_RELEASE_V1_INFO"))>>, <<"manifest", GStr>>, <<"name", GStr>>, <<"namespace", GStr>>, <<"repoName", GStr>>, <<"version", GInt>>>> @@
                 "CLUSTER_HELM_RELEASE_LIST_RESPONSE__TIME_TIME" :> <<>>]

\* CLUSTER_HELM_RELEASE_ROLLBACK_RESPONSE: the Go schema of its doc comment and the alias.
CLUSTER_HELM_RELEASE_ROLLBACK_RESPONSE ==
    [root    |-> GStruct("CLUSTER_HELM_RELEASE_ROLLBACK_RESPONSE__MOGENIUS_OPERATOR_SRC_CORE_RESULTMOGENIUS_OPERATOR_SRC_HELM_HELMRELEASEROLLBACKREQUEST_STRING"),
     type    |-> <<"CLUSTER_HELM_RELEASE_ROLLBACK_RESPONSE__MOGENIUS_OPERATOR_SRC_CORE_RESULTMOGENIUS_OPERATOR_SRC_HELM_HELMRELEASEROLLBACKREQUEST_STRING">>,
     structs |-> "CLUSTER_HELM_RELEASE_ROLLBACK_RESPONSE__MOGENIUS_OPERATOR_SRC_CORE_RESULTMOGENIUS_OPERATOR_SRC_HELM_HELMRELEASEROLLBACKREQUEST_STRING" :> <<<<"data", GStr>>, <<"message", GStr>>, <<"status", GStr>>>>]

\* CLUSTER_HELM_RELEASE_STATUS_RESPONSE: the Go schema of its doc comment and the alias.
CLUSTER_HELM_RELEASE_STATUS_RESPONSE ==
    [root    |-> GStruct("CLUSTER_HELM_RELEASE_STATUS_RESPONSE__MOGENIUS_OPERATOR_SRC_CORE_RESULTMOGENIUS_OPERATOR_SRC_HELM_HELMRELEASESTATUSREQUEST_MOGENIUS_OPERATOR_SRC_HELM_HELMRELEASESTATUSINFO"),
     type    |-> <<"CLUSTER_HELM_RELEASE_STATUS_RESPONSE__MOGENIUS_OPERATOR_SRC_CORE_RESULTMOGENIUS_OPERATOR_SRC_HELM_HELMRELEASESTATUSREQUEST_MOGENIUS_OPERATOR_SRC_HELM_HELMRELEASESTATUSINFO">>,
     structs |-> "CLUSTER_HELM_RELEASE_STATUS_RESPONSE__MOGENIUS_OPERATOR_SRC_CORE_RESULTMOGENIUS_OPERATOR_SRC_HELM_HELMRELEASESTATUSREQUEST_MOGENIUS_OPERATOR_SRC_HELM_HELMRELEASESTATUSINFO" :> <<<<"data", GPtr(GStruct("CLUSTER_HELM_RELEASE_STATUS_RESPONSE__MOGENIUS_OPERATOR_SRC_HELM_HELMRELEASESTATUSINFO"))>>, <<"message", GStr>>, <<"status", GStr>>>> @@
                 "CLUSTER_HELM_RELEASE_STATUS_RESPONSE__MOGENIUS_OPERATOR_SRC_HELM_HELMRELEASESTATUSINFO" :> <<<<"chart", GStr>>, <<"lastDeployed", GStruct("CLUSTER_HELM_RELEASE_STATUS_RESPONSE__TIME_TIME")>>, <<"name", GStr>>, <<"namespace", GStr>>, <<"status", GStr>>, <<"version", GInt>>>> @@
                 "CLUSTER_HELM_RELEASE_STATUS_RESPONSE__TIME_TIME" :> <<>>]

\* CLUSTER_HELM_RELEASE_UNINSTALL_RESPONSE: the Go schema of its doc comment and the alias.
CLUSTER_HELM_RELEASE_UNINSTALL_RESPONSE ==
    [root    |-> GStruct("CLUSTER_HELM_RELEASE_UNINSTALL_RESPONSE__MOGENIUS_OPERATOR_SRC_CORE_RESULTMOGENIUS_OPERATOR_SRC_HELM_HELMRELEASEUNINSTALLREQUEST_STRING"),
     type    |-> <<"CLUSTER_HELM_RELEASE_UNINSTALL_RESPONSE__MOGENIUS_OPERATOR_SRC_CORE_RESULTMOGENIUS_OPERATOR_SRC_HELM_HELMRELEASEUNINSTALLREQUEST_STRING">>,
     structs |-> "CLUSTER_HELM_RELEASE_UNINSTALL_RESPONSE__MOGENIUS_OPERATOR_SRC_CORE_RESULTMOGENIUS_OPERATOR_SRC_HELM_HELMRELEASEUNINSTALLREQUEST_STRING" :> <<<<"data", GStr>>, <<"message", GStr>>, <<"status", GStr>>>>]

\* CLUSTER_HELM_RELEASE_UPGRADE_RESPONSE: the Go schema of its doc comment and the alias.
CLUSTER_HELM_RELEASE_UPGRADE_RESPONSE ==
    [root    |-> GStruct("CLUSTER_HELM_RELEASE_UPGRADE_RESPONSE__MOGENIUS_OPERATOR_SRC_CORE_RESULTMOGENIUS_OPERATOR_SRC_HELM_HELMCHARTINSTALLUPGRADEREQUEST_STRING"),
     type    |-> <<"CLUSTER_HELM_RELEASE_UPGRADE_RESPONSE__MOGENIUS_OPERATOR_SRC_CORE_RESULTMOGENIUS_OPERATOR_SRC_HELM_HELMCHARTINSTALLUPGRADEREQUEST_STRING">>,
     structs |-> "CLUSTER_HELM_RELEASE_UPGRADE_RESPONSE__MOGENIUS_OPERATOR_SRC_CORE_RESULTMOGENIUS_OPERATOR_SRC_HELM_HELMCHARTINSTALLUPGRADEREQUEST_STRING" :> <<<<"data", GStr>>, <<"message", GStr>>, <<"status", GStr>>>>]

\* CLUSTER_HELM_REPO_ADD_RESPONSE: the Go schema of its doc comment and the alias.
CLUSTER_HELM_REPO_ADD_RESPONSE ==
    [root    |-> GStruct("CLUSTER_HELM_REPO_ADD_RESPONSE__MOGENIUS_OPERATOR_SRC_CORE_RESULTMOGENIUS_OPERATOR_SRC_HELM_HELMREPOADDREQUEST_STRING"),
     type    |-> <<"CLUSTER_HELM_REPO_ADD_RESPONSE__MOGENIUS_OPERATOR_SRC_CORE_RESULTMOGENIUS_OPERATOR_SRC_HELM_HELMREPOADDREQUEST_STRING">>,
     structs |-> "CLUSTER_HELM_REPO_ADD_RESPONSE__MOGENIUS_OPERATOR_SRC_CORE_RESULTMOGENIUS_OPERATOR_SRC_HELM_HELMREPOADDREQUEST_STRING" :> <<<<"data", GStr>>, <<"message", GStr>>, <<"status", GStr>>>>]

\* CLUSTER_HELM_REPO_LIST_RESPONSE: the Go schema of its doc comment and the alias.
CLUSTER_HELM_REPO_LIST_RESPONSE ==
    [root    |-> GStruct("CLUSTER_HELM_REPO_LIST_RESPONSE__MOGENIUS_OPERATOR_SRC_CORE_RESULTMOGENIUS_OPERATOR_SRC_CORE_VOID_MOGENIUS_OPERATOR_SRC_HELM_HELMENTRYWITHOUTPASSWORD"),
     type    |-> <<"CLUSTER_HELM_REPO_LIST_RESPONSE__MOGENIUS_OPERATOR_SRC_CORE_RESULTMOGENIUS_OPERATOR_SRC_CORE_VOID_MOGENIUS_OPERATOR_SRC_HELM_HELMENTRYWITHOUTPASSWORD">>,
     structs |-> "CLUSTER_HELM_REPO_LIST_RESPONSE__MOGENIUS_OPERATOR_SRC_CORE_RESULTMOGENIUS_OPERATOR_SRC_CORE_VOID_MOGENIUS_OPERATOR_SRC_HELM_HELMENTRYWITHOUTPASSWORD" :> <<<<"data", GArray(GPtr(GStruct("CLUSTER_HELM_REPO_LIST_RESPONSE__MOGENIUS_OPERATOR_SRC_HELM_HELMENTRYWITHOUTPASSWORD")))>>, <<"message", GStr>>, <<"status", GStr>>>> @@
                 "CLUSTER_HELM_REPO_LIST_RESPONSE__MOGENIUS_OPERATOR_SRC_HELM_HELMENTRYWITHOUTPASSWORD" :> <<<<"insecure_skip_tls_verify", GBool>>, <<"name", GStr>>, <<"pass_credentials_all", GBool>>, <<"url", GStr>>>>]

\* CLUSTER_HELM_REPO_PATCH_RESPONSE: the Go schema of its doc comment and the alias.
CLUSTER_HELM_REPO_PATCH_RESPONSE ==
    [root    |-> GStruct("CLUSTER_HELM_REPO_PATCH_RESPONSE__MOGENIUS_OPERATOR_SRC_CORE_RESULTMOGENIUS_OPERATOR_SRC_HELM_HELMREPOPATCHREQUEST_STRING"),
     type    |-> <<"CLUSTER_HELM_REPO_PATCH_RESPONSE__MOGENIUS_OPERATOR_SRC_CORE_RESULTMOGENIUS_OPERATOR_SRC_HELM_HELMREPOPATCHREQUEST_STRING">>,
     structs |-> "CLUSTER_HELM_REPO_PATCH_RESPONSE__MOGENIUS_OPERATOR_SRC_CORE_RESULTMOGENIUS_OPERATOR_SRC_HELM_HELMREPOPATCHREQUEST_STRING" :> <<<<"data", GStr>>, <<"message", GStr>>, <<"status", GStr>>>>]

\* CLUSTER_HELM_REPO_UPDATE_RESPONSE: the Go schema of its doc comment and the alias.
CLUSTER_HELM_REPO_UPDATE_RESPONSE ==
    [root    |-> GStruct("CLUSTER_HELM_REPO_UPDATE_RESPONSE__MOGENIUS_OPERATOR_SRC_CORE_RESULTMOGENIUS_OPERATOR_SRC_CORE_VOID_MOGENIUS_OPERATOR_SRC_HELM_HELMENTRYSTATUS"),
     type    |-> <<"CLUSTER_HELM_REPO_UPDATE_RESPONSE__MOGENIUS_OPERATOR_SRC_CORE_RESULTMOGENIUS_OPERATOR_SRC_CORE_VOID_MOGENIUS_OPERATOR_SRC_HELM_HELMENTRYSTATUS">>,
     structs |-> "CLUSTER_HELM_REPO_UPDATE_RESPONSE__MOGENIUS_OPERATOR_SRC_CORE_RESULTMOGENIUS_OPERATOR_SRC_CORE_VOID_MOGENIUS_OPERATOR_SRC_HELM_HELMENTRYSTATUS" :> <<<<"data", GArray(GStruct("CLUSTER_HELM_REPO_UPDATE_RESPONSE__MOGENIUS_OPERATOR_SRC_HELM_HELMENTRYSTATUS"))>>, <<"message", GStr>>, <<"status", GStr>>>> @@
                 "CLUSTER_HELM_REPO_UPDATE_RESPONSE__MOGENIUS_OPERATOR_SRC_HELM_HELMENTRYSTATUS" :> <<<<"entry", GPtr(GStruct("CLUSTER_HELM_REPO_UPDATE_RESPONSE__MOGENIUS_OPERATOR_SRC_HELM_HELMENTRYWITHOUTPASSWORD"))>>, <<"message", GStr>>, <<"status", GStr>>>> @@
                 "CLUSTER_HELM_REPO_UPDATE_RESPONSE__MOGENIUS_OPERATOR_SRC_HELM_HELMENTRYWITHOUTPASSWORD" :> <<<<"insecure_skip_tls_verify", GBool>>, <<"name", GStr>>, <<"pass_credentials_all", GBool>>, <<"url", GStr>>>>]

\* CLUSTER_LIST_PERSISTENT_VOLUME_CLAIMS_RESPONSE: the Go schema of its doc comment and the alias.
CLUSTER_LIST_PERSISTENT_VOLUME_CLAIMS_RESPONSE ==
    [root    |-> GStruct("CLUSTER_LIST_PERSISTENT_VOLUME_CLAIMS_RESPONSE__MOGENIUS_OPERATOR_SRC_CORE_RESULTMOGENIUS_OPERATOR_SRC_SERVICES_CLUSTERLISTWORKLOADS_K8S_IO_API_CORE_V1_PERSISTENTVOLUMECLAIM"),
     type    |-> <<"CLUSTER_LIST_PERSISTENT_VOLUME_CLAIMS_RESPONSE__MOGENIUS_OPERATOR_SRC_CORE_RESULTMOGENIUS_OPERATOR_SRC_SERVICES_CLUSTERLISTWORKLOADS_K8S_IO_API_CORE_V1_PERSISTENTVOLUMECLAIM">>,
     structs |-> "CLUSTER_LIST_PERSISTENT_VOLUME_CLAIMS_RESPONSE__K8S_IO_API_CORE_V1_MODIFYVOLUMESTATUS" :> <<<<"status", GStr>>, <<"targetVolumeAttributesClassName", GStr>>>> @@
                 "CLUSTER_LIST_PERSISTENT_VOLUME_CLAIMS_RESPONSE__K8S_IO_API_CORE_V1_PERSISTENTVOLUMECLAIM" :> <<<<"TypeMeta", GStruct("CLUSTER_LIST_PERSISTENT_VOLUME_CLAIMS_RESPONSE__K8S_IO_APIMACHINERY_PKG_APIS_META_V1_TYPEMETA")>>, <<"metadata", GStruct("CLUSTER_LIST_PERSISTENT_VOLUME_CLAIMS_RESPONSE__K8S_IO_APIMACHINERY_PKG_APIS_META_V1_OBJECTMETA")>>, <<"spec", GStruct("CLUSTER_LIST_PERSISTENT_VOLUME_CLAIMS_RESPONSE__K8S_IO_API_CORE_V1_PERSISTENTVOLUMECLAIMSPEC")>>, <<"status", GStruct("CLUSTER_LIST_PERSISTENT_VOLUME_CLAIMS_RESPONSE__K8S_IO_API_CORE_V1_PERSISTENTVOLUMECLAIMSTATUS")>>>> @@
                 "CLUSTER_LIST_PERSISTENT_VOLUME_CLAIMS_RESPONSE__K8S_IO_API_CORE_V1_PERSISTENTVOLUMECLAIMCONDITION" :> <<<<"lastProbeTime", GStruct("CLUSTER_LIST_PERSISTENT_VOLUME_CLAIMS_RESPONSE__K8S_IO_APIMACHINERY_PKG_APIS_META_V1_TIME")>>, <<"lastTransitionTime", GStruct("CLUSTER_LIST_PERSISTENT_VOLUME_CLAIMS_RESPONSE__K8S_IO_APIMACHINERY_PKG_APIS_META_V1_TIME")>>, <<"message", GStr>>, <<"reason", GStr>>, <<"status", GStr>>, <<"type", GStr>>>> @@
                 "CLUSTER_LIST_PERSISTENT_VOLUME_CLAIMS_RESPONSE__K8S_IO_API_CORE_V1_PERSISTENTVOLUMECLAIMSPEC" :> <<<<"accessModes", GArray(GStr)>>, <<"dataSource", GPtr(GStruct("CLUSTER_LIST_PERSISTENT_VOLUME_CLAIMS_RESPONSE__K8S_IO_API_CORE_V1_TYPEDLOCALOBJECTREFERENCE"))>>, <<"dataSourceRef", GPtr(GStruct("CLUSTER_LIST_PERSISTENT_VOLUME_CLAIMS_RESPONSE__K8S_IO_API_CORE_V1_TYPEDOBJECTREFERENCE"))>>, <<"resources", GStruct("CLUSTER_LIST_PERSISTENT_VOLUME_CLAIMS_RESPONSE__K8S_IO_API_CORE_V1_VOLUMERESOURCEREQUIREMENTS")>>, <<"selector", GPtr(GStruct("CLUSTER_LIST_PERSISTENT_VOLUME_CLAIMS_RESPONSE__K8S_IO_APIMACHINERY_PKG_APIS_META_V1_LABELSELECTOR"))>>, <<"storageClassName", GPtr(GStr)>>, <<"volumeAttributesClassName", GPtr(GStr)>>, <<"volumeMode", GPtr(GStr)>>, <<"volumeName", GStr>>>> @@
                 "CLUSTER_LIST_PERSISTENT_VOLUME_CLAIMS_RESPONSE__K8S_IO_API_CORE_V1_PERSISTENTVOLUMECLAIMSTATUS" :> <<<<"accessModes", GArray(GStr)>>, <<"allocatedResourceStatuses", GMap(GStr, GStr)>>, <<"allocatedResources", GMap(GStr, GStruct("CLUSTER_LIST_PERSISTENT_VOLUME_CLAIMS_RESPONSE__K8S_IO_APIMACHINERY_PKG_API_RESOURCE_QUANTITY"))>>, <<"capacity", GMap(GStr, GStruct("CLUSTER_LIST_PERSISTENT_VOLUME_CLAIMS_RESPONSE__K8S_IO_APIMACHINERY_PKG_API_RESOURCE_QUANTITY"))>>, <<"conditions", GArray(GStruct("CLUSTER_LIST_PERSISTENT_VOLUME_CLAIMS_RESPONSE__K8S_IO_API_CORE_V1_PERSISTENTVOLUMECLAIMCONDITION"))>>, <<"currentVolumeAttributesClassName", GPtr(GStr)>>, <<"modifyVolumeStatus", GPtr(GStruct("CLUSTER_LIST_PERSISTENT_VOLUME_CLAIMS_RESPONSE__K8S_IO_API_CORE_V1_MODIFYVOLUMESTATUS"))>>, <<"phase", GStr>>>> @@
                 "CLUSTER_LIST_PERSISTENT_VOLUME_CLAIMS_RESPONSE__K8S_IO_API_CORE_V1_TYPEDLOCALOBJECTREFERENCE" :> <<<<"apiGroup", GPtr(GStr)>>, <<"kind", GStr>>, <<"name", GStr>>>> @@
                 "CLUSTER_LIST_PERSISTENT_VOLUME_CLAIMS_RESPONSE__K8S_IO_API_CORE_V1_TYPEDOBJECTREFERENCE" :> <<<<"apiGroup", GPtr(GStr)>>, <<"kind", GStr>>, <<"name", GStr>>, <<"namespace", GPtr(GStr)>>>> @@
                 "CLUSTER_LIST_PERSISTENT_VOLUME_CLAIMS_RESPONSE__K8S_IO_API_CORE_V1_VOLUMERESOURCEREQUIREMENTS" :> <<<<"limits", GMap(GStr, GStruct("CLUSTER_LIST_PERSISTENT_VOLUME_CLAIMS_RESPONSE__K8S_IO_APIMACHINERY_PKG_API_RESOURCE_QUANTITY"))>>, <<"requests", GMap(GStr, GStruct("CLUSTER_LIST_PERSISTENT_VOLUME_CLAIMS_RESPONSE__K8S_IO_APIMACHINERY_PKG_API_RESOURCE_QUANTITY"))>>>> @@
                 "CLUSTER_LIST_PERSISTENT_VOLUME_CLAIMS_RESPONSE__K8S_IO_APIMACHINERY_PKG_API_RESOURCE_QUANTITY" :> <<<<"Format", GStr>>>> @@
                 "CLUSTER_LIST_PERSISTENT_VOLUME_CLAIMS_RESPONSE__K8S_IO_APIMACHINERY_PKG_APIS_META_V1_FIELDSV1" :> <<>> @@
                 "CLUSTER_LIST_PERSISTENT_VOLUME_CLAIMS_RESPONSE__K8S_IO_APIMACHINERY_PKG_APIS_META_V1_LABELSELECTOR" :> <<<<"matchExpressions", GArray(GStruct("CLUSTER_LIST_PERSISTENT_VOLUME_CLAIMS_RESPONSE__K8S_IO_APIMACHINERY_PKG_APIS_META_V1_LABELSELECTORREQUIREMENT"))>>, <<"matchLabels", GMap(GStr, GStr)>>>> @@
                 "CLUSTER_LIST_PERSISTENT_VOLUME_CLAIMS_RESPONSE__K8S_IO_APIMACHINERY_PKG_APIS_META_V1_LABELSELECTORREQUIREMENT" :> <<<<"key", GStr>>, <<"operator", GStr>>, <<"values", GArray(GStr)>>>> @@
                 "CLUSTER_LIST_PERSISTENT_VOLUME_CLAIMS_RESPONSE__K8S_IO_APIMACHINERY_PKG_APIS_META_V1_MANAGEDFIELDSENTRY" :> <<<<"apiVersion", GStr>>, <<"fieldsType", GStr>>, <<"fieldsV1", GPtr(GStruct("CLUSTER_LIST_PERSISTENT_VOLUME_CLAIMS_RESPONSE__K8S_IO_APIMACHINERY_PKG_APIS_META_V1_FIELDSV1"))>>, <<"manager", GStr>>, <<"operation", GStr>>, <<"subresource", GStr>>, <<"time", GPtr(GStruct("CLUSTER_LIST_PERSISTENT_VOLUME_CLAIMS_RESPONSE__K8S_IO_APIMACHINERY_PKG_APIS_META_V1_TIME"))>>>> @@
                 "CLUSTER_LIST_PERSISTENT_VOLUME_CLAIMS_RESPONSE__K8S_IO_APIMACHINERY_PKG_APIS_META_V1_OBJECTMETA" :> <<<<"annotations", GMap(GStr, GStr)>>, <<"creationTimestamp", GStruct("CLUSTER_LIST_PERSISTENT_VOLUME_CLAIMS_RESPONSE__K8S_IO_APIMACHINERY_PKG_APIS_META_V1_TIME")>>, <<"deletionGracePeriodSeconds", GPtr(GInt)>>, <<"deletionTimestamp", GPtr(GStruct("CLUSTER_LIST_PERSISTENT_VOLUME_CLAIMS_RESPONSE__K8S_IO_APIMACHINERY_PKG_APIS_META_V1_TIME"))>>, <<"finalizers", GArray(GStr)>>, <<"generateName", GStr>>, <<"generation", GInt>>, <<"labels", GMap(GStr, GStr)>>, <<"managedFields", GArray(GStruct("CLUSTER_LIST_PERSISTENT_VOLUME_CLAIMS_RESPONSE__K8S_IO_APIMACHINERY_PKG_APIS_META_V1_MANAGEDFIELDSENTRY"))>>, <<"name", GStr>>, <<"namespace", GStr>>, <<"ownerReferences", GArray(GStruct("CLUSTER_LIST_PERSISTENT_VOLUME_CLAIMS_RESPONSE__K8S_IO_APIMACHINERY_PKG_APIS_META_V1_OWNERREFERENCE"))>>, <<"resourceVersion", GStr>>, <<"selfLink", GStr>>, <<"uid", GStr>>>> @@
                 "CLUSTER_LIST_PERSISTENT_VOLUME_CLAIMS_RESPONSE__K8S_IO_APIMACHINERY_PKG_APIS_META_V1_OWNERREFERENCE" :> <<<<"apiVersion", GStr>>, <<"blockOwnerDeletion", GPtr(GBool)>>, <<"controller", GPtr(GBool)>>, <<"kind", GStr>>, <<"name", GStr>>, <<"uid", GStr>>>> @@
                 "CLUSTER_LIST_PERSISTENT_VOLUME_CLAIMS_RESPONSE__K8S_IO_APIMACHINERY_PKG_APIS_META_V1_TIME" :> <<<<"Time", GStruct("CLUSTER_LIST_PERSISTENT_VOLUME_CLAIMS_RESPONSE__TIME_TIME")>>>> @@
                 "CLUSTER_LIST_PERSISTENT_VOLUME_CLAIMS_RESPONSE__K8S_IO_APIMACHINERY_PKG_APIS_META_V1_TYPEMETA" :> <<<<"apiVersion", GStr>>, <<"kind", GStr>>>> @@
                 "CLUSTER_LIST_PERSISTENT_VOLUME_CLAIMS_RESPONSE__MOGENIUS_OPERATOR_SRC_CORE_RESULTMOGENIUS_OPERATOR_SRC_SERVICES_CLUSTERLISTWORKLOADS_K8S_IO_API_CORE_V1_PERSISTENTVOLUMECLAIM" :> <<<<"data", GArray(GStruct("CLUSTER_LIST_PERSISTENT_VOLUME_CLAIMS_RESPONSE__K8S_IO_API_CORE_V1_PERSISTENTVOLUMECLAIM"))>>, <<"message", GStr>>, <<"status", GStr>>>> @@
                 "CLUSTER_LIST_PERSISTENT_VOLUME_CLAIMS_RESPONSE__TIME_TIME" :> <<>>]

\* CLUSTER_MACHINE_STATS_RESPONSE: the Go schema of its doc comment and the alias.
CLUSTER_MACHINE_STATS_RESPONSE ==
    [root    |-> GStruct("CLUSTER_MACHINE_STATS_RESPONSE__MOGENIUS_OPERATOR_SRC_CORE_RESULTMOGENIUS_OPERATOR_SRC_CORE_REQUEST16_MOGENIUS_OPERATOR_SRC_STRUCTS_MACHINESTATS"),
     type    |-> <<"CLUSTER_MACHINE_STATS_RESPONSE__MOGENIUS_OPERATOR_SRC_CORE_RESULTMOGENIUS_OPERATOR_SRC_CORE_REQUEST16_MOGENIUS_OPERATOR_SRC_STRUCTS_MACHINESTATS">>,
     structs |-> "CLUSTER_MACHINE_STATS_RESPONSE__MOGENIUS_OPERATOR_SRC_CORE_RESULTMOGENIUS_OPERATOR_SRC_CORE_REQUEST16_MOGENIUS_OPERATOR_SRC_STRUCTS_MACHINESTATS" :> <<<<"data", GArray(GStruct("CLUSTER_MACHINE_STATS_RESPONSE__MOGENIUS_OPERATOR_SRC_STRUCTS_MACHINESTATS"))>>, <<"message", GStr>>, <<"status", GStr>>>> @@
                 "CLUSTER_MACHINE_STATS_RESPONSE__MOGENIUS_OPERATOR_SRC_STRUCTS_MACHINESTATS" :> <<<<"btfSupport", GBool>>>>]

\* CLUSTER_RESOURCE_INFO_RESPONSE: the Go schema of its doc comment and the alias.
CLUSTER_RESOURCE_INFO_RESPONSE ==
    [root    |-> GStruct("CLUSTER_RESOURCE_INFO_RESPONSE__MOGENIUS_OPERATOR_SRC_CORE_RESULTMOGENIUS_OPERATOR_SRC_CORE_VOID_MOGENIUS_OPERATOR_SRC_CORE_CLUSTERRESOURCEINFO3"),
     type    |-> <<"CLUSTER_RESOURCE_INFO_RESPONSE__MOGENIUS_OPERATOR_SRC_CORE_RESULTMOGENIUS_OPERATOR_SRC_CORE_VOID_MOGENIUS_OPERATOR_SRC_CORE_CLUSTERRESOURCEINFO3">>,
     structs |-> "CLUSTER_RESOURCE_INFO_RESPONSE__MOGENIUS_OPERATOR_SRC_CORE_CLUSTERRESOURCEINFO" :> <<<<"cniConfig", GArray(GStruct("CLUSTER_RESOURCE_INFO_RESPONSE__MOGENIUS_OPERATOR_SRC_STRUCTS_CNIDATA"))>>, <<"country", GPtr(GStruct("CLUSTER_RESOURCE_INFO_RESPONSE__MOGENIUS_OPERATOR_SRC_UTILS_COUNTRYDETAILS"))>>, <<"error", GArray(GStr)>>, <<"loadBalancerExternalIps", GArray(GStr)>>, <<"nodeStats", GArray(GStruct("CLUSTER_RESOURCE_INFO_RESPONSE__MOGENIUS_OPERATOR_SRC_DTOS_NODESTAT"))>>, <<"provider", GStr>>>> @@
                 "CLUSTER_RESOURCE_INFO_RESPONSE__MOGENIUS_OPERATOR_SRC_CORE_RESULTMOGENIUS_OPERATOR_SRC_CORE_VOID_MOGENIUS_OPERATOR_SRC_CORE_CLUSTERRESOURCEINFO3" :> <<<<"data", GStruct("CLUSTER_RESOURCE_INFO_RESPONSE__MOGENIUS_OPERATOR_SRC_CORE_CLUSTERRESOURCEINFO")>>, <<"message", GStr>>, <<"status", GStr>>>> @@
                 "CLUSTER_RESOURCE_INFO_RESPONSE__MOGENIUS_OPERATOR_SRC_DTOS_NODESTAT" :> <<<<"architecture", GStr>>, <<"cpuInCores", GInt>>, <<"cpuInCoresLimited", GFloat>>, <<"cpuInCoresRequested", GFloat>>, <<"cpuInCoresUtilized", GFloat>>, <<"ephemeralInBytes", GInt>>, <<"kubletVersion", GStr>>, <<"machineStats", GPtr(GStruct("CLUSTER_RESOURCE_INFO_RESPONSE__MOGENIUS_OPERATOR_SRC_STRUCTS_MACHINESTATS"))>>, <<"maschineId", GStr>>, <<"maxPods", GInt>>, <<"memoryInBytes", GInt>>, <<"memoryInBytesLimited", GInt>>, <<"memoryInBytesRequested", GInt>>, <<"memoryInBytesUtilized", GInt>>, <<"name", GStr>>, <<"osImage", GStr>>, <<"osKernelVersion", GStr>>, <<"osType", GStr>>, <<"totalPods", GInt>>>> @@
                 "CLUSTER_RESOURCE_INFO_RESPONSE__MOGENIUS_OPERATOR_SRC_STRUCTS_CNICAPABILITIES" :> <<<<"bandwidth", GBool>>, <<"portMappings", GBool>>>> @@
                 "CLUSTER_RESOURCE_INFO_RESPONSE__MOGENIUS_OPERATOR_SRC_STRUCTS_CNIDATA" :> <<<<"cniVersion", GStr>>, <<"name", GStr>>, <<"node", GStr>>, <<"plugins", GArray(GStruct("CLUSTER_RESOURCE_INFO_RESPONSE__MOGENIUS_OPERATOR_SRC_STRUCTS_PLUGIN"))>>>> @@
                 "CLUSTER_RESOURCE_INFO_RESPONSE__MOGENIUS_OPERATOR_SRC_STRUCTS_CNIIPAM" :> <<<<"type", GStr>>>> @@
                 "CLUSTER_RESOURCE_INFO_RESPONSE__MOGENIUS_OPERATOR_SRC_STRUCTS_CNIPOLICY" :> <<<<"type", GStr>>>> @@
                 "CLUSTER_RESOURCE_INFO_RESPONSE__MOGENIUS_OPERATOR_SRC_STRUCTS_MACHINESTATS" :> <<<<"btfSupport", GBool>>>> @@
                 "CLUSTER_RESOURCE_INFO_RESPONSE__MOGENIUS_OPERATOR_SRC_STRUCTS_PLUGIN" :> <<<<"capabilities", GPtr(GStruct("CLUSTER_RESOURCE_INFO_RESPONSE__MOGENIUS_OPERATOR_SRC_STRUCTS_CNICAPABILITIES"))>>, <<"datastore_type", GStr>>, <<"ipam", GPtr(GStruct("CLUSTER_RESOURCE_INFO_RESPONSE__MOGENIUS_OPERATOR_SRC_STRUCTS_CNIIPAM"))>>, <<"log_file_path", GStr>>, <<"log_level", GStr>>, <<"mtu", GInt>>, <<"nodename", GStr>>, <<"policy", GPtr(GStruct("CLUSTER_RESOURCE_INFO_RESPONSE__MOGENIUS_OPERATOR_SRC_STRUCTS_CNIPOLICY"))>>, <<"snat", GPtr(GBool)>>, <<"type", GStr>>>> @@
                 "CLUSTER_RESOURCE_INFO_RESPONSE__MOGENIUS_OPERATOR_SRC_UTILS_COUNTRYDETAILS" :> <<<<"capitalCity", GStr>>, <<"capitalCityLat", GFloat>>, <<"capitalCityLng", GFloat>>, <<"code", GStr>>, <<"code3", GStr>>, <<"continent", GStr>>, <<"currency", GStr>>, <<"currencyName", GStr>>, <<"domainTld", GStr>>, <<"isActive", GBool>>, <<"isEuMember", GBool>>, <<"isoId", GInt>>, <<"languages", GArray(GStr)>>, <<"name", GStr>>, <<"phoneNumberPrefix", GStr>>, <<"taxPercent", GFloat>>>>]

\* CREATE_GRANT_RESPONSE: the Go schema of its doc comment and the alias.
CREATE_GRANT_RESPONSE ==
    [root    |-> GStruct("CREATE_GRANT_RESPONSE__MOGENIUS_OPERATOR_SRC_CORE_RESULTMOGENIUS_OPERATOR_SRC_CORE_REQUEST29_STRING"),
     type    |-> <<"CREATE_GRANT_RESPONSE__MOGENIUS_OPERATOR_SRC_CORE_RESULTMOGENIUS_OPERATOR_SRC_CORE_REQUEST29_STRING">>,
     structs |-> "CREATE_GRANT_RESPONSE__MOGENIUS_OPERATOR_SRC_CORE_RESULTMOGENIUS_OPERATOR_SRC_CORE_REQUEST29_STRING" :> <<<<"data", GStr>>, <<"message", GStr>>, <<"status", GStr>>>>]

\* CREATE_NEW_WORKLOAD_RESPONSE: the Go schema of its doc comment and the alias.
CREATE_NEW_WORKLOAD_RESPONSE ==
    [root    |-> GStruct("CREATE_NEW_WORKLOAD_RESPONSE__MOGENIUS_OPERATOR_SRC_CORE_RESULTMOGENIUS_OPERATOR_SRC_UTILS_WORKLOADCHANGEREQUEST_K8S_IO_APIMACHINERY_PKG_APIS_META_V1_UNSTRUCTURED_UNSTRUCTURED"),
     type    |-> <<"CREATE_NEW_WORKLOAD_RESPONSE__MOGENIUS_OPERATOR_SRC_CORE_RESULTMOGENIUS_OPERATOR_SRC_UTILS_WORKLOADCHANGEREQUEST_K8S_IO_APIMACHINERY_PKG_APIS_META_V1_UNSTRUCTURED_UNSTRUCTURED">>,
     structs |-> "CREATE_NEW_WORKLOAD_RESPONSE__K8S_IO_APIMACHINERY_PKG_APIS_META_V1_UNSTRUCTURED_UNSTRUCTURED" :> <<<<"Object", GMap(GStr, GPtr(GAny))>>>> @@
                 "CREATE_NEW_WORKLOAD_RESPONSE__MOGENIUS_OPERATOR_SRC_CORE_RESULTMOGENIUS_OPERATOR_SRC_UTILS_WORKLOADCHANGEREQUEST_K8S_IO_APIMACHINERY_PKG_APIS_META_V1_UNSTRUCTURED_UNSTRUCTURED" :> <<<<"data", GPtr(GStruct("CREATE_NEW_WORKLOAD_RESPONSE__K8S_IO_APIMACHINERY_PKG_APIS_META_V1_UNSTRUCTURED_UNSTRUCTURED"))>>, <<"message", GStr>>, <<"status", GStr>>>>]

\* CREATE_USER_RESPONSE: the Go schema of its doc comment and the alias.
CREATE_USER_RESPONSE ==
    [root    |-> GStruct("CREATE_USER_RESPONSE__MOGENIUS_OPERATOR_SRC_CORE_RESULTMOGENIUS_OPERATOR_SRC_CORE_REQUEST24_STRING"),
     type    |-> <<"CREATE_USER_RESPONSE__MOGENIUS_OPERATOR_SRC_CORE_RESULTMOGENIUS_OPERATOR_SRC_CORE_REQUEST24_STRING">>,
     structs |-> "CREATE_USER_RESPONSE__MOGENIUS_OPERATOR_SRC_CORE_RESULTMOGENIUS_OPERATOR_SRC_CORE_REQUEST24_STRING" :> <<<<"data", GStr>>, <<"message", GStr>>, <<"status", GStr>>>>]

\* CREATE_WORKSPACE_RESPONSE: the Go schema of its doc comment and the alias.
CREATE_WORKSPACE_RESPONSE ==
    [root    |-> GStruct("CREATE_WORKSPACE_RESPONSE__MOGENIUS_OPERATOR_SRC_CORE_RESULTMOGENIUS_OPERATOR_SRC_CORE_REQUEST18_STRING"),
     type    |-> <<"CREATE_WORKSPACE_RESPONSE__MOGENIUS_OPERATOR_SRC_CORE_RESULTMOGENIUS_OPERATOR_SRC_CORE_REQUEST18_STRING">>,
     structs |-> "CREATE_WORKSPACE_RESPONSE__MOGENIUS_OPERATOR_SRC_CORE_RESULTMOGENIUS_OPERATOR_SRC_CORE_REQUEST18_STRING" :> <<<<"data", GStr>>, <<"message", GStr>>, <<"status", GStr>>>>]

\* DELETE_GRANT_RESPONSE: the Go schema of its doc comment and the alias.
DELETE_GRANT_RESPONSE ==
    [root    |-> GStruct("DELETE_GRANT_RESPONSE__MOGENIUS_OPERATOR_SRC_CORE_RESULTMOGENIUS_OPERATOR_SRC_CORE_REQUEST32_STRING"),
     type    |-> <<"DELETE_GRANT_RESPONSE__MOGENIUS_OPERATOR_SRC_CORE_RESULTMOGENIUS_OPERATOR_SRC_CORE_REQUEST32_STRING">>,
     structs |-> "DELETE_GRANT_RESPONSE__MOGENIUS_OPERATOR_SRC_CORE_RESULTMOGENIUS_OPERATOR_SRC_CORE_REQUEST32_STRING" :> <<<<"data", GStr>>, <<"message", GStr>>, <<"status", GStr>>>>]

\* DELETE_USER_RESPONSE: the Go schema of its doc comment and the alias.
DELETE_USER_RESPONSE ==
    [root    |-> GStruct("DELETE_USER_RESPONSE__MOGENIUS_OPERATOR_SRC_CORE_RESULTMOGENIUS_OPERATOR_SRC_CORE_REQUEST27_STRING"),
     type    |-> <<"DELETE_USER_RESPONSE__MOGENIUS_OPERATOR_SRC_CORE_RESULTMOGENIUS_OPERATOR_SRC_CORE_REQUEST27_STRING">>,
     structs |-> "DELETE_USER_RESPONSE__MOGENIUS_OPERATOR_SRC_CORE_RESULTMOGENIUS_OPERATOR_SRC_CORE_REQUEST27_STRING" :> <<<<"data", GStr>>, <<"message", GStr>>, <<"status", GStr>>>>]

\* DELETE_WORKLOAD_RESPONSE: the Go schema of its doc comment and the alias.
DELETE_WORKLOAD_RESPONSE ==
    [root    |-> GStruct("DELETE_WORKLOAD_RESPONSE__MOGENIUS_OPERATOR_SRC_CORE_RESULTMOGENIUS_OPERATOR_SRC_UTILS_WORKLOADSINGLEREQUEST_MOGENIUS_OPERATOR_SRC_CORE_VOID"),
     type    |-> <<"DELETE_WORKLOAD_RESPONSE__MOGENIUS_OPERATOR_SRC_CORE_RESULTMOGENIUS_OPERATOR_SRC_UTILS_WORKLOADSINGLEREQUEST_MOGENIUS_OPERATOR_SRC_CORE_VOID">>,
     structs |-> "DELETE_WORKLOAD_RESPONSE__ANON_STRUCT_1" :> <<>> @@
                 "DELETE_WORKLOAD_RESPONSE__MOGENIUS_OPERATOR_SRC_CORE_RESULTMOGENIUS_OPERATOR_SRC_UTILS_WORKLOADSINGLEREQUEST_MOGENIUS_OPERATOR_SRC_CORE_VOID" :> <<<<"data", GPtr(GStruct("DELETE_WORKLOAD_RESPONSE__ANON_STRUCT_1"))>>, <<"message", GStr>>, <<"status", GStr>>>>]

\* DELETE_WORKSPACE_RESPONSE: the Go schema of its doc comment and the alias.
DELETE_WORKSPACE_RESPONSE ==
    [root    |-> GStruct("DELETE_WORKSPACE_RESPONSE__MOGENIUS_OPERATOR_SRC_CORE_RESULTMOGENIUS_OPERATOR_SRC_CORE_REQUEST22_STRING"),
     type    |-> <<"DELETE_WORKSPACE_RESPONSE__MOGENIUS_OPERATOR_SRC_CORE_RESULTMOGENIUS_OPERATOR_SRC_CORE_REQUEST22_STRING">>,
     structs |-> "DELETE_WORKSPACE_RESPONSE__MOGENIUS_OPERATOR_SRC_CORE_RESULTMOGENIUS_OPERATOR_SRC_CORE_REQUEST22_STRING" :> <<<<"data", GStr>>, <<"message", GStr>>, <<"status", GStr>>>>]

\* DESCRIBE_RESPONSE: the Go schema of its doc comment and the alias.
DESCRIBE_RESPONSE ==
    [root    |-> GStruct("DESCRIBE_RESPONSE__MOGENIUS_OPERATOR_SRC_CORE_RESULTMOGENIUS_OPERATOR_SRC_CORE_VOID_MOGENIUS_OPERATOR_SRC_CORE_RESPONSE2"),
     type    |-> <<"DESCRIBE_RESPONSE__MOGENIUS_OPERATOR_SRC_CORE_RESULTMOGENIUS_OPERATOR_SRC_CORE_VOID_MOGENIUS_OPERATOR_SRC_CORE_RESPONSE2">>,
     structs |-> "DESCRIBE_RESPONSE__ANON_STRUCT_2" :> <<<<"buildType", GStr>>, <<"version", GStruct("DESCRIBE_RESPONSE__MOGENIUS_OPERATOR_SRC_VERSION_VERSION")>>>> @@
                 "DESCRIBE_RESPONSE__ANON_STRUCT_4" :> <<>> @@
                 "DESCRIBE_RESPONSE__MOGENIUS_OPERATOR_SRC_CORE_PATTERNCONFIG" :> <<<<"deprecated", GBool>>, <<"deprecatedMessage", GStr>>, <<"legacyResponseLayout", GBool>>, <<"needsUser", GBool>>, <<"requestSchema", GPtr(GStruct("DESCRIBE_RESPONSE__MOGENIUS_OPERATOR_SRC_SCHEMA_SCHEMA"))>>, <<"responseSchema", GPtr(GStruct("DESCRIBE_RESPONSE__MOGENIUS_OPERATOR_SRC_SCHEMA_SCHEMA"))>>>> @@
                 "DESCRIBE_RESPONSE__MOGENIUS_OPERATOR_SRC_CORE_RESPONSE" :> <<<<"buildInfo", GStruct("DESCRIBE_RESPONSE__ANON_STRUCT_2")>>, <<"features", GStruct("DESCRIBE_RESPONSE__ANON_STRUCT_4")>>, <<"patterns", GMap(GStr, GStruct("DESCRIBE_RESPONSE__MOGENIUS_OPERATOR_SRC_CORE_PATTERNCONFIG"))>>>> @@
                 "DESCRIBE_RESPONSE__MOGENIUS_OPERATOR_SRC_CORE_RESULTMOGENIUS_OPERATOR_SRC_CORE_VOID_MOGENIUS_OPERATOR_SRC_CORE_RESPONSE2" :> <<<<"data", GStruct("DESCRIBE_RESPONSE__MOGENIUS_OPERATOR_SRC_CORE_RESPONSE")>>, <<"message", GStr>>, <<"status", GStr>>>> @@
                 "DESCRIBE_RESPONSE__MOGENIUS_OPERATOR_SRC_SCHEMA_SCHEMA" :> <<<<"structs", GMap(GStr, GStruct("DESCRIBE_RESPONSE__MOGENIUS_OPERATOR_SRC_SCHEMA_STRUCTLAYOUT"))>>, <<"typeInfo", GPtr(GStruct("DESCRIBE_RESPONSE__MOGENIUS_OPERATOR_SRC_SCHEMA_TYPEINFO"))>>>> @@
                 "DESCRIBE_RESPONSE__MOGENIUS_OPERATOR_SRC_SCHEMA_STRUCTLAYOUT" :> <<<<"name", GStr>>, <<"properties", GMap(GStr, GPtr(GStruct("DESCRIBE_RESPONSE__MOGENIUS_OPERATOR_SRC_SCHEMA_TYPEINFO")))>>>> @@
                 "DESCRIBE_RESPONSE__MOGENIUS_OPERATOR_SRC_SCHEMA_TYPEINFO" :> <<<<"elementType", GPtr(GStruct("DESCRIBE_RESPONSE__MOGENIUS_OPERATOR_SRC_SCHEMA_TYPEINFO"))>>, <<"keyType", GPtr(GStruct("DESCRIBE_RESPONSE__MOGENIUS_OPERATOR_SRC_SCHEMA_TYPEINFO"))>>, <<"pointer", GBool>>, <<"structRef", GStr>>, <<"type", GStr>>, <<"valueType", GPtr(GStruct("DESCRIBE_RESPONSE__MOGENIUS_OPERATOR_SRC_SCHEMA_TYPEINFO"))>>>> @@
                 "DESCRIBE_RESPONSE__MOGENIUS_OPERATOR_SRC_VERSION_VERSION" :> <<<<"arch", GStr>>, <<"branch", GStr>>, <<"buildTimestamp", GStr>>, <<"gitCommitHash", GStr>>, <<"os", GStr>>, <<"version", GStr>>>>]

\* DESCRIBE_WORKLOAD_RESPONSE: the Go schema of its doc comment and the alias.
DESCRIBE_WORKLOAD_RESPONSE ==
    [root    |-> GStruct("DESCRIBE_WORKLOAD_RESPONSE__MOGENIUS_OPERATOR_SRC_CORE_RESULTMOGENIUS_OPERATOR_SRC_UTILS_WORKLOADSINGLEREQUEST_STRING"),
     type    |-> <<"DESCRIBE_WORKLOAD_RESPONSE__MOGENIUS_OPERATOR_SRC_CORE_RESULTMOGENIUS_OPERATOR_SRC_UTILS_WORKLOADSINGLEREQUEST_STRING">>,
     structs |-> "DESCRIBE_WORKLOAD_RESPONSE__MOGENIUS_OPERATOR_SRC_CORE_RESULTMOGENIUS_OPERATOR_SRC_UTILS_WORKLOADSINGLEREQUEST_STRING" :> <<<<"data", GStr>>, <<"message", GStr>>, <<"status", GStr>>>>]

\* FILES_CHMOD_RESPONSE: the Go schema of its doc comment and the alias.
FILES_CHMOD_RESPONSE ==
    [root    |-> GStruct("FILES_CHMOD_RESPONSE__MOGENIUS_OPERATOR_SRC_CORE_RESULTMOGENIUS_OPERATOR_SRC_CORE_REQUEST13_BOOL"),
     type    |-> <<"FILES_CHMOD_RESPONSE__MOGENIUS_OPERATOR_SRC_CORE_RESULTMOGENIUS_OPERATOR_SRC_CORE_REQUEST13_BOOL">>,
     structs |-> "FILES_CHMOD_RESPONSE__MOGENIUS_OPERATOR_SRC_CORE_RESULTMOGENIUS_OPERATOR_SRC_CORE_REQUEST13_BOOL" :> <<<<"data", GBool>>, <<"message", GStr>>, <<"status", GStr>>>>]

\* FILES_CHOWN_RESPONSE: the Go schema of its doc comment and the alias.
FILES_CHOWN_RESPONSE ==
    [root    |-> GStruct("FILES_CHOWN_RESPONSE__MOGENIUS_OPERATOR_SRC_CORE_RESULTMOGENIUS_OPERATOR_SRC_CORE_REQUEST12_BOOL"),
     type    |-> <<"FILES_CHOWN_RESPONSE__MOGENIUS_OPERATOR_SRC_CORE_RESULTMOGENIUS_OPERATOR_SRC_CORE_REQUEST12_BOOL">>,
     structs |-> "FILES_CHOWN_RESPONSE__MOGENIUS_OPERATOR_SRC_CORE_RESULTMOGENIUS_OPERATOR_SRC_CORE_REQUEST12_BOOL" :> <<<<"data", GBool>>, <<"message", GStr>>, <<"status", GStr>>>>]

\* FILES_CREATE_FOLDER_RESPONSE: the Go schema of its doc comment and the alias.
FILES_CREATE_FOLDER_RESPONSE ==
    [root    |-> GStruct("FILES_CREATE_FOLDER_RESPONSE__MOGENIUS_OPERATOR_SRC_CORE_RESULTMOGENIUS_OPERATOR_SRC_CORE_REQUEST10_BOOL"),
     type    |-> <<"FILES_CREATE_FOLDER_RESPONSE__MOGENIUS_OPERATOR_SRC_CORE_RESULTMOGENIUS_OPERATOR_SRC_CORE_REQUEST10_BOOL">>,
     structs |-> "FILES_CREATE_FOLDER_RESPONSE__MOGENIUS_OPERATOR_SRC_CORE_RESULTMOGENIUS_OPERATOR_SRC_CORE_REQUEST10_BOOL" :> <<<<"data", GBool>>, <<"message", GStr>>, <<"status", GStr>>>>]

\* FILES_DELETE_RESPONSE: the Go schema of its doc comment and the alias.
FILES_DELETE_RESPONSE ==
    [root    |-> GStruct("FILES_DELETE_RESPONSE__MOGENIUS_OPERATOR_SRC_CORE_RESULTMOGENIUS_OPERATOR_SRC_CORE_REQUEST14_BOOL"),
     type    |-> <<"FILES_DELETE_RESPONSE__MOGENIUS_OPERATOR_SRC_CORE_RESULTMOGENIUS_OPERATOR_SRC_CORE_REQUEST14_BOOL">>,
     structs |-> "FILES_DELETE_RESPONSE__MOGENIUS_OPERATOR_SRC_CORE_RESULTMOGENIUS_OPERATOR_SRC_CORE_REQUEST14_BOOL" :> <<<<"data", GBool>>, <<"message", GStr>>, <<"status", GStr>>>>]

\* FILES_DOWNLOAD_RESPONSE: the Go schema of its doc comment and the alias.
FILES_DOWNLOAD_RESPONSE ==
    [root    |-> GStruct("FILES_DOWNLOAD_RESPONSE__MOGENIUS_OPERATOR_SRC_CORE_RESULTMOGENIUS_OPERATOR_SRC_CORE_REQUEST15_MOGENIUS_OPERATOR_SRC_SERVICES_FILESDOWNLOADRESPONSE"),
     type    |-> <<"FILES_DOWNLOAD_RESPONSE__MOGENIUS_OPERATOR_SRC_CORE_RESULTMOGENIUS_OPERATOR_SRC_CORE_REQUEST15_MOGENIUS_OPERATOR_SRC_SERVICES_FILESDOWNLOADRESPONSE">>,
     structs |-> "FILES_DOWNLOAD_RESPONSE__MOGENIUS_OPERATOR_SRC_CORE_RESULTMOGENIUS_OPERATOR_SRC_CORE_REQUEST15_MOGENIUS_OPERATOR_SRC_SERVICES_FILESDOWNLOADRESPONSE" :> <<<<"data", GStruct("FILES_DOWNLOAD_RESPONSE__MOGENIUS_OPERATOR_SRC_SERVICES_FILESDOWNLOADRESPONSE")>>, <<"message", GStr>>, <<"status", GStr>>>> @@
                 "FILES_DOWNLOAD_RESPONSE__MOGENIUS_OPERATOR_SRC_SERVICES_FILESDOWNLOADRESPONSE" :> <<<<"error", GStr>>, <<"sizeInBytes", GInt>>>>]

\* FILES_INFO_RESPONSE: the Go schema of its doc comment and the alias.
FILES_INFO_RESPONSE ==
    [root    |-> GStruct("FILES_INFO_RESPONSE__MOGENIUS_OPERATOR_SRC_CORE_RESULTMOGENIUS_OPERATOR_SRC_DTOS_PERSISTENTFILEREQUESTDTO_MOGENIUS_OPERATOR_SRC_DTOS_PERSISTENTFILEDTO"),
     type    |-> <<"FILES_INFO_RESPONSE__MOGENIUS_OPERATOR_SRC_CORE_RESULTMOGENIUS_OPERATOR_SRC_DTOS_PERSISTENTFILEREQUESTDTO_MOGENIUS_OPERATOR_SRC_DTOS_PERSISTENTFILEDTO">>,
     structs |-> "FILES_INFO_RESPONSE__MOGENIUS_OPERATOR_SRC_CORE_RESULTMOGENIUS_OPERATOR_SRC_DTOS_PERSISTENTFILEREQUESTDTO_MOGENIUS_OPERATOR_SRC_DTOS_PERSISTENTFILEDTO" :> <<<<"data", GStruct("FILES_INFO_RESPONSE__MOGENIUS_OPERATOR_SRC_DTOS_PERSISTENTFILEDTO")>>, <<"message", GStr>>, <<"status", GStr>>>> @@
                 "FILES_INFO_RESPONSE__MOGENIUS_OPERATOR_SRC_DTOS_PERSISTENTFILEDTO" :> <<<<"contentType", GStr>>, <<"createdAt", GStr>>, <<"extension", GStr>>, <<"hash", GStr>>, <<"mimeType", GStr>>, <<"mode", GStr>>, <<"modifiedAt", GStr>>, <<"name", GStr>>, <<"relativePath", GStr>>, <<"size", GStr>>, <<"sizeInBytes", GInt>>, <<"type", GStr>>, <<"uid_gid", GStr>>>>]

\* FILES_LIST_RESPONSE: the Go schema of its doc comment and the alias.
FILES_LIST_RESPONSE ==
    [root    |-> GStruct("FILES_LIST_RESPONSE__MOGENIUS_OPERATOR_SRC_CORE_RESULTMOGENIUS_OPERATOR_SRC_CORE_REQUEST9_MOGENIUS_OPERATOR_SRC_DTOS_PERSISTENTFILEDTO"),
     type    |-> <<"FILES_LIST_RESPONSE__MOGENIUS_OPERATOR_SRC_CORE_RESULTMOGENIUS_OPERATOR_SRC_CORE_REQUEST9_MOGENIUS_OPERATOR_SRC_DTOS_PERSISTENTFILEDTO">>,
     structs |-> "FILES_LIST_RESPONSE__MOGENIUS_OPERATOR_SRC_CORE_RESULTMOGENIUS_OPERATOR_SRC_CORE_REQUEST9_MOGENIUS_OPERATOR_SRC_DTOS_PERSISTENTFILEDTO" :> <<<<"data", GArray(GStruct("FILES_LIST_RESPONSE__MOGENIUS_OPERATOR_SRC_DTOS_PERSISTENTFILEDTO"))>>, <<"message", GStr>>, <<"status", GStr>>>> @@
                 "FILES_LIST_RESPONSE__MOGENIUS_OPERATOR_SRC_DTOS_PERSISTENTFILEDTO" :> <<<<"contentType", GStr>>, <<"createdAt", GStr>>, <<"extension", GStr>>, <<"hash", GStr>>, <<"mimeType", GStr>>, <<"mode", GStr>>, <<"modifiedAt", GStr>>, <<"name", GStr>>, <<"relativePath", GStr>>, <<"size", GStr>>, <<"sizeInBytes", GInt>>, <<"type", GStr>>, <<"uid_gid", GStr>>>>]

\* FILES_RENAME_RESPONSE: the Go schema of its doc comment and the alias.
FILES_RENAME_RESPONSE ==
    [root    |-> GStruct("FILES_RENAME_RESPONSE__MOGENIUS_OPERATOR_SRC_CORE_RESULTMOGENIUS_OPERATOR_SRC_CORE_REQUEST11_BOOL"),
     type    |-> <<"FILES_RENAME_RESPONSE__MOGENIUS_OPERATOR_SRC_CORE_RESULTMOGENIUS_OPERATOR_SRC_CORE_REQUEST11_BOOL">>,
     structs |-> "FILES_RENAME_RESPONSE__MOGENIUS_OPERATOR_SRC_CORE_RESULTMOGENIUS_OPERATOR_SRC_CORE_REQUEST11_BOOL" :> <<<<"data", GBool>>, <<"message", GStr>>, <<"status", GStr>>>>]

\* GET_GRANT_RESPONSE: the Go schema of its doc comment and the alias.
GET_GRANT_RESPONSE ==
    [root    |-> GStruct("GET_GRANT_RESPONSE__MOGENIUS_OPERATOR_SRC_CORE_RESULTMOGENIUS_OPERATOR_SRC_CORE_REQUEST30_MOGENIUS_OPERATOR_SRC_CRDS_V1ALPHA1_GRANT"),
     type    |-> <<"GET_GRANT_RESPONSE__MOGENIUS_OPERATOR_SRC_CORE_RESULTMOGENIUS_OPERATOR_SRC_CORE_REQUEST30_MOGENIUS_OPERATOR_SRC_CRDS_V1ALPHA1_GRANT">>,
     structs |-> "GET_GRANT_RESPONSE__K8S_IO_APIMACHINERY_PKG_APIS_META_V1_FIELDSV1" :> <<>> @@
                 "GET_GRANT_RESPONSE__K8S_IO_APIMACHINERY_PKG_APIS_META_V1_MANAGEDFIELDSENTRY" :> <<<<"apiVersion", GStr>>, <<"fieldsType", GStr>>, <<"fieldsV1", GPtr(GStruct("GET_GRANT_RESPONSE__K8S_IO_APIMACHINERY_PKG_APIS_META_V1_FIELDSV1"))>>, <<"manager", GStr>>, <<"operation", GStr>>, <<"subresource", GStr>>, <<"time", GPtr(GStruct("GET_GRANT_RESPONSE__K8S_IO_APIMACHINERY_PKG_APIS_META_V1_TIME"))>>>> @@
                 "GET_GRANT_RESPONSE__K8S_IO_APIMACHINERY_PKG_APIS_META_V1_OBJECTMETA" :> <<<<"annotations", GMap(GStr, GStr)>>, <<"creationTimestamp", GStruct("GET_GRANT_RESPONSE__K8S_IO_APIMACHINERY_PKG_APIS_META_V1_TIME")>>, <<"deletionGracePeriodSeconds", GPtr(GInt)>>, <<"deletionTimestamp", GPtr(GStruct("GET_GRANT_RESPONSE__K8S_IO_APIMACHINERY_PKG_APIS_META_V1_TIME"))>>, <<"finalizers", GArray(GStr)>>, <<"generateName", GStr>>, <<"generation", GInt>>, <<"labels", GMap(GStr, GStr)>>, <<"managedFields", GArray(GStruct("GET_GRANT_RESPONSE__K8S_IO_APIMACHINERY_PKG_APIS_META_V1_MANAGEDFIELDSENTRY"))>>, <<"name", GStr>>, <<"namespace", GStr>>, <<"ownerReferences", GArray(GStruct("GET_GRANT_RESPONSE__K8S_IO_APIMACHINERY_PKG_APIS_META_V1_OWNERREFERENCE"))>>, <<"resourceVersion", GStr>>, <<"selfLink", GStr>>, <<"uid", GStr>>>> @@
                 "GET_GRANT_RESPONSE__K8S_IO_APIMACHINERY_PKG_APIS_META_V1_OWNERREFERENCE" :> <<<<"apiVersion", GStr>>, <<"blockOwnerDeletion", GPtr(GBool)>>, <<"controller", GPtr(GBool)>>, <<"kind", GStr>>, <<"name", GStr>>, <<"uid", GStr>>>> @@
                 "GET_GRANT_RESPONSE__K8S_IO_APIMACHINERY_PKG_APIS_META_V1_TIME" :> <<<<"Time", GStruct("GET_GRANT_RESPONSE__TIME_TIME")>>>> @@
                 "GET_GRANT_RESPONSE__K8S_IO_APIMACHINERY_PKG_APIS_META_V1_TYPEMETA" :> <<<<"apiVersion", GStr>>, <<"kind", GStr>>>> @@
                 "GET_GRANT_RESPONSE__MOGENIUS_OPERATOR_SRC_CORE_RESULTMOGENIUS_OPERATOR_SRC_CORE_REQUEST30_MOGENIUS_OPERATOR_SRC_CRDS_V1ALPHA1_GRANT" :> <<<<"data", GPtr(GStruct("GET_GRANT_RESPONSE__MOGENIUS_OPERATOR_SRC_CRDS_V1ALPHA1_GRANT"))>>, <<"message", GStr>>, <<"status", GStr>>>> @@
                 "GET_GRANT_RESPONSE__MOGENIUS_OPERATOR_SRC_CRDS_V1ALPHA1_GRANT" :> <<<<"TypeMeta", GStruct("GET_GRANT_RESPONSE__K8S_IO_APIMACHINERY_PKG_APIS_META_V1_TYPEMETA")>>, <<"metadata", GStruct("GET_GRANT_RESPONSE__K8S_IO_APIMACHINERY_PKG_APIS_META_V1_OBJECTMETA")>>, <<"spec", GStruct("GET_GRANT_RESPONSE__MOGENIUS_OPERATOR_SRC_CRDS_V1ALPHA1_GRANTSPEC")>>, <<"status", GStruct("GET_GRANT_RESPONSE__MOGENIUS_OPERATOR_SRC_CRDS_V1ALPHA1_GRANTSTATUS")>>>> @@
                 "GET_GRANT_RESPONSE__MOGENIUS_OPERATOR_SRC_CRDS_V1ALPHA1_GRANTSPEC" :> <<<<"grantee", GStr>>, <<"role", GStr>>, <<"targetName", GStr>>, <<"targetType", GStr>>>> @@
                 "GET_GRANT_RESPONSE__MOGENIUS_OPERATOR_SRC_CRDS_V1ALPHA1_GRANTSTATUS" :> <<>> @@
                 "GET_GRANT_RESPONSE__TIME_TIME" :> <<>>]

\* GET_GRANTS_RESPONSE: the Go schema of its doc comment and the alias.
GET_GRANTS_RESPONSE ==
    [root    |-> GStruct("GET_GRANTS_RESPONSE__MOGENIUS_OPERATOR_SRC_CORE_RESULTMOGENIUS_OPERATOR_SRC_CORE_REQUEST28_MOGENIUS_OPERATOR_SRC_CRDS_V1ALPHA1_GRANT"),
     type    |-> <<"GET_GRANTS_RESPONSE__MOGENIUS_OPERATOR_SRC_CORE_RESULTMOGENIUS_OPERATOR_SRC_CORE_REQUEST28_MOGENIUS_OPERATOR_SRC_CRDS_V1ALPHA1_GRANT">>,
     structs |-> "GET_GRANTS_RESPONSE__K8S_IO_APIMACHINERY_PKG_APIS_META_V1_FIELDSV1" :> <<>> @@
                 "GET_GRANTS_RESPONSE__K8S_IO_APIMACHINERY_PKG_APIS_META_V1_MANAGEDFIELDSENTRY" :> <<<<"apiVersion", GStr>>, <<"fieldsType", GStr>>, <<"fieldsV1", GPtr(GStruct("GET_GRANTS_RESPONSE__K8S_IO_APIMACHINERY_PKG_APIS_META_V1_FIELDSV1"))>>, <<"manager", GStr>>, <<"operation", GStr>>, <<"subresource", GStr>>, <<"time", GPtr(GStruct("GET_GRANTS_RESPONSE__K8S_IO_APIMACHINERY_PKG_APIS_META_V1_TIME"))>>>> @@
                 "GET_GRANTS_RESPONSE__K8S_IO_APIMACHINERY_PKG_APIS_META_V1_OBJECTMETA" :> <<<<"annotations", GMap(GStr, GStr)>>, <<"creationTimestamp", GStruct("GET_GRANTS_RESPONSE__K8S_IO_APIMACHINERY_PKG_APIS_META_V1_TIME")>>, <<"deletionGracePeriodSeconds", GPtr(GInt)>>, <<"deletionTimestamp", GPtr(GStruct("GET_GRANTS_RESPONSE__K8S_IO_APIMACHINERY_PKG_APIS_META_V1_TIME"))>>, <<"finalizers", GArray(GStr)>>, <<"generateName", GStr>>, <<"generation", GInt>>, <<"labels", GMap(GStr, GStr)>>, <<"managedFields", GArray(GStruct("GET_GRANTS_RESPONSE__K8S_IO_APIMACHINERY_PKG_APIS_META_V1_MANAGEDFIELDSENTRY"))>>, <<"name", GStr>>, <<"namespace", GStr>>, <<"ownerReferences", GArray(GStruct("GET_GRANTS_RESPONSE__K8S_IO_APIMACHINERY_PKG_APIS_META_V1_OWNERREFERENCE"))>>, <<"resourceVersion", GStr>>, <<"selfLink", GStr>>, <<"uid", GStr>>>> @@
                 "GET_GRANTS_RESPONSE__K8S_IO_APIMACHINERY_PKG_APIS_META_V1_OWNERREFERENCE" :> <<<<"apiVersion", GStr>>, <<"blockOwnerDeletion", GPtr(GBool)>>, <<"controller", GPtr(GBool)>>, <<"kind", GStr>>, <<"name", GStr>>, <<"uid", GStr>>>> @@
                 "GET_GRANTS_RESPONSE__K8S_IO_APIMACHINERY_PKG_APIS_META_V1_TIME" :> <<<<"Time", GStruct("GET_GRANTS_RESPONSE__TIME_TIME")>>>> @@
                 "GET_GRANTS_RESPONSE__K8S_IO_APIMACHINERY_PKG_APIS_META_V1_TYPEMETA" :> <<<<"apiVersion", GStr>>, <<"kind", GStr>>>> @@
                 "GET_GRANTS_RESPONSE__MOGENIUS_OPERATOR_SRC_CORE_RESULTMOGENIUS_OPERATOR_SRC_CORE_REQUEST28_MOGENIUS_OPERATOR_SRC_CRDS_V1ALPHA1_GRANT" :> <<<<"data", GArray(GStruct("GET_GRANTS_RESPONSE__MOGENIUS_OPERATOR_SRC_CRDS_V1ALPHA1_GRANT"))>>, <<"message", GStr>>, <<"status", GStr>>>> @@
                 "GET_GRANTS_RESPONSE__MOGENIUS_OPERATOR_SRC_CRDS_V1ALPHA1_GRANT" :> <<<<"TypeMeta", GStruct("GET_GRANTS_RESPONSE__K8S_IO_APIMACHINERY_PKG_APIS_META_V1_TYPEMETA")>>, <<"metadata", GStruct("GET_GRANTS_RESPONSE__K8S_IO_APIMACHINERY_PKG_APIS_META_V1_OBJECTMETA")>>, <<"spec", GStruct("GET_GRANTS_RESPONSE__MOGENIUS_OPERATOR_SRC_CRDS_V1ALPHA1_GRANTSPEC")>>, <<"status", GStruct("GET_GRANTS_RESPONSE__MOGENIUS_OPERATOR_SRC_CRDS_V1ALPHA1_GRANTSTATUS")>>>> @@
                 "GET_GRANTS_RESPONSE__MOGENIUS_OPERATOR_SRC_CRDS_V1ALPHA1_GRANTSPEC" :> <<<<"grantee", GStr>>, <<"role", GStr>>, <<"targetName", GStr>>, <<"targetType", GStr>>>> @@
                 "GET_GRANTS_RESPONSE__MOGENIUS_OPERATOR_SRC_CRDS_V1ALPHA1_GRANTSTATUS" :> <<>> @@
                 "GET_GRANTS_RESPONSE__TIME_TIME" :> <<>>]

\* GET_LABELED_WORKLOAD_LIST_RESPONSE: the Go schema of its doc comment and the alias.
GET_LABELED_WORKLOAD_LIST_RESPONSE ==
    [root    |-> GStruct("GET_LABELED_WORKLOAD_LIST_RESPONSE__MOGENIUS_OPERATOR_SRC_CORE_RESULTMOGENIUS_OPERATOR_SRC_KUBERNETES_GETUNSTRUCTUREDLABELEDRESOURCELISTREQUEST_K8S_IO_APIMACHINERY_PKG_APIS_META_V1_UNSTRUCTURED_UNSTRUCTUREDLIST"),
     type    |-> <<"GET_LABELED_WORKLOAD_LIST_RESPONSE__MOGENIUS_OPERATOR_SRC_CORE_RESULTMOGENIUS_OPERATOR_SRC_KUBERNETES_GETUNSTRUCTUREDLABELEDRESOURCELISTREQUEST_K8S_IO_APIMACHINERY_PKG_APIS_META_V1_UNSTRUCTURED_UNSTRUCTUREDLIST">>,
     structs |-> "GET_LABELED_WORKLOAD_LIST_RESPONSE__K8S_IO_APIMACHINERY_PKG_APIS_META_V1_UNSTRUCTURED_UNSTRUCTURED" :> <<<<"Object", GMap(GStr, GPtr(GAny))>>>> @@
                 "GET_LABELED_WORKLOAD_LIST_RESPONSE__K8S_IO_APIMACHINERY_PKG_APIS_META_V1_UNSTRUCTURED_UNSTRUCTUREDLIST" :> <<<<"Object", GMap(GStr, GPtr(GAny))>>, <<"items", GArray(GStruct("GET_LABELED_WORKLOAD_LIST_RESPONSE__K8S_IO_APIMACHINERY_PKG_APIS_META_V1_UNSTRUCTURED_UNSTRUCTURED"))>>>> @@
                 "GET_LABELED_WORKLOAD_LIST_RESPONSE__MOGENIUS_OPERATOR_SRC_CORE_RESULTMOGENIUS_OPERATOR_SRC_KUBERNETES_GETUNSTRUCTUREDLABELEDRESOURCELISTREQUEST_K8S_IO_APIMACHINERY_PKG_APIS_META_V1_UNSTRUCTURED_UNSTRUCTUREDLIST" :> <<<<"data", GStruct("GET_LABELED_WORKLOAD_LIST_RESPONSE__K8S_IO_APIMACHINERY_PKG_APIS_META_V1_UNSTRUCTURED_UNSTRUCTUREDLIST")>>, <<"message", GStr>>, <<"status", GStr>>>>]

\* GET_NAMESPACE_WORKLOAD_LIST_RESPONSE: the Go schema of its doc comment and the alias.
GET_NAMESPACE_WORKLOAD_LIST_RESPONSE ==
    [root    |-> GStruct("GET_NAMESPACE_WORKLOAD_LIST_RESPONSE__MOGENIUS_OPERATOR_SRC_CORE_RESULTMOGENIUS_OPERATOR_SRC_KUBERNETES_GETUNSTRUCTUREDNAMESPACERESOURCELISTREQUEST_K8S_IO_APIMACHINERY_PKG_APIS_META_V1_UNSTRUCTURED_UNSTRUCTURED"),
     type    |-> <<"GET_NAMESPACE_WORKLOAD_LIST_RESPONSE__MOGENIUS_OPERATOR_SRC_CORE_RESULTMOGENIUS_OPERATOR_SRC_KUBERNETES_GETUNSTRUCTUREDNAMESPACERESOURCELISTREQUEST_K8S_IO_APIMACHINERY_PKG_APIS_META_V1_UNSTRUCTURED_UNSTRUCTURED">>,
     structs |-> "GET_NAMESPACE_WORKLOAD_LIST_RESPONSE__K8S_IO_APIMACHINERY_PKG_APIS_META_V1_UNSTRUCTURED_UNSTRUCTURED" :> <<<<"Object", GMap(GStr, GPtr(GAny))>>>> @@
                 "GET_NAMESPACE_WORKLOAD_LIST_RESPONSE__MOGENIUS_OPERATOR_SRC_CORE_RESULTMOGENIUS_OPERATOR_SRC_KUBERNETES_GETUNSTRUCTUREDNAMESPACERESOURCELISTREQUEST_K8S_IO_APIMACHINERY_PKG_APIS_META_V1_UNSTRUCTURED_UNSTRUCTURED" :> <<<<"data", GArray(GStruct("GET_NAMESPACE_WORKLOAD_LIST_RESPONSE__K8S_IO_APIMACHINERY_PKG_APIS_META_V1_UNSTRUCTURED_UNSTRUCTURED"))>>, <<"message", GStr>>, <<"status", GStr>>>>]

\* GET_NODES_METRICS_RESPONSE: the Go schema of its doc comment and the alias.
GET_NODES_METRICS_RESPONSE ==
    [root    |-> GStruct("GET_NODES_METRICS_RESPONSE__MOGENIUS_OPERATOR_SRC_CORE_RESULTMOGENIUS_OPERATOR_SRC_CORE_VOID_MOGENIUS_OPERATOR_SRC_CORE_RESPONSE38"),
     type    |-> <<"GET_NODES_METRICS_RESPONSE__MOGENIUS_OPERATOR_SRC_CORE_RESULTMOGENIUS_OPERATOR_SRC_CORE_VOID_MOGENIUS_OPERATOR_SRC_CORE_RESPONSE38">>,
     structs |-> "GET_NODES_METRICS_RESPONSE__MOGENIUS_OPERATOR_SRC_CORE_NODEMETRICS" :> <<<<"cpu", GMap(GStr, GPtr(GAny))>>, <<"memory", GMap(GStr, GPtr(GAny))>>, <<"nodeName", GStr>>, <<"traffic", GArray(GStruct("GET_NODES_METRICS_RESPONSE__MOGENIUS_OPERATOR_SRC_NETWORKMONITOR_PODNETWORKSTATS"))>>>> @@
                 "GET_NODES_METRICS_RESPONSE__MOGENIUS_OPERATOR_SRC_CORE_RESPONSE" :> <<<<"nodes", GArray(GStruct("GET_NODES_METRICS_RESPONSE__MOGENIUS_OPERATOR_SRC_CORE_NODEMETRICS"))>>>> @@
                 "GET_NODES_METRICS_RESPONSE__MOGENIUS_OPERATOR_SRC_CORE_RESULTMOGENIUS_OPERATOR_SRC_CORE_VOID_MOGENIUS_OPERATOR_SRC_CORE_RESPONSE38" :> <<<<"data", GStruct("GET_NODES_METRICS_RESPONSE__MOGENIUS_OPERATOR_SRC_CORE_RESPONSE")>>, <<"message", GStr>>, <<"status", GStr>>>> @@
                 "GET_NODES_METRICS_RESPONSE__MOGENIUS_OPERATOR_SRC_NETWORKMONITOR_PODNETWORKSTATS" :> <<<<"createdAt", GStruct("GET_NODES_METRICS_RESPONSE__TIME_TIME")>>, <<"namespace", GStr>>, <<"pod", GStr>>, <<"receivedBytes", GUint>>, <<"receivedPackets", GUint>>, <<"receivedStartBytes", GUint>>, <<"transmitBytes", GUint>>, <<"transmitPackets", GUint>>, <<"transmitStartBytes", GUint>>>> @@
                 "GET_NODES_METRICS_RESPONSE__TIME_TIME" :> <<>>]

\* GET_USER_RESPONSE: the Go schema of its doc comment and the alias.
GET_USER_RESPONSE ==
    [root    |-> GStruct("GET_USER_RESPONSE__MOGENIUS_OPERATOR_SRC_CORE_RESULTMOGENIUS_OPERATOR_SRC_CORE_REQUEST25_MOGENIUS_OPERATOR_SRC_CRDS_V1ALPHA1_USER"),
     type    |-> <<"GET_USER_RESPONSE__MOGENIUS_OPERATOR_SRC_CORE_RESULTMOGENIUS_OPERATOR_SRC_CORE_REQUEST25_MOGENIUS_OPERATOR_SRC_CRDS_V1ALPHA1_USER">>,
     structs |-> "GET_USER_RESPONSE__K8S_IO_API_RBAC_V1_SUBJECT" :> <<<<"apiGroup", GStr>>, <<"kind", GStr>>, <<"name", GStr>>, <<"namespace", GStr>>>> @@
                 "GET_USER_RESPONSE__K8S_IO_APIMACHINERY_PKG_APIS_META_V1_FIELDSV1" :> <<>> @@
                 "GET_USER_RESPONSE__K8S_IO_APIMACHINERY_PKG_APIS_META_V1_MANAGEDFIELDSENTRY" :> <<<<"apiVersion", GStr>>, <<"fieldsType", GStr>>, <<"fieldsV1", GPtr(GStruct("GET_USER_RESPONSE__K8S_IO_APIMACHINERY_PKG_APIS_META_V1_FIELDSV1"))>>, <<"manager", GStr>>, <<"operation", GStr>>, <<"subresource", GStr>>, <<"time", GPtr(GStruct("GET_USER_RESPONSE__K8S_IO_APIMACHINERY_PKG_APIS_META_V1_TIME"))>>>> @@
                 "GET_USER_RESPONSE__K8S_IO_APIMACHINERY_PKG_APIS_META_V1_OBJECTMETA" :> <<<<"annotations", GMap(GStr, GStr)>>, <<"creationTimestamp", GStruct("GET_USER_RESPONSE__K8S_IO_APIMACHINERY_PKG_APIS_META_V1_TIME")>>, <<"deletionGracePeriodSeconds", GPtr(GInt)>>, <<"deletionTimestamp", GPtr(GStruct("GET_USER_RESPONSE__K8S_IO_APIMACHINERY_PKG_APIS_META_V1_TIME"))>>, <<"finalizers", GArray(GStr)>>, <<"generateName", GStr>>, <<"generation", GInt>>, <<"labels", GMap(GStr, GStr)>>, <<"managedFields", GArray(GStruct("GET_USER_RESPONSE__K8S_IO_APIMACHINERY_PKG_APIS_META_V1_MANAGEDFIELDSENTRY"))>>, <<"name", GStr>>, <<"namespace", GStr>>, <<"ownerReferences", GArray(GStruct("GET_USER_RESPONSE__K8S_IO_APIMACHINERY_PKG_APIS_META_V1_OWNERREFERENCE"))>>, <<"resourceVersion", GStr>>, <<"selfLink", GStr>>, <<"uid", GStr>>>> @@
                 "GET_USER_RESPONSE__K8S_IO_APIMACHINERY_PKG_APIS_META_V1_OWNERREFERENCE" :> <<<<"apiVersion", GStr>>, <<"blockOwnerDeletion", GPtr(GBool)>>, <<"controller", GPtr(GBool)>>, <<"kind", GStr>>, <<"name", GStr>>, <<"uid", GStr>>>> @@
                 "GET_USER_RESPONSE__K8S_IO_APIMACHINERY_PKG_APIS_META_V1_TIME" :> <<<<"Time", GStruct("GET_USER_RESPONSE__TIME_TIME")>>>> @@
                 "GET_USER_RESPONSE__K8S_IO_APIMACHINERY_PKG_APIS_META_V1_TYPEMETA" :> <<<<"apiVersion", GStr>>, <<"kind", GStr>>>> @@
                 "GET_USER_RESPONSE__MOGENIUS_OPERATOR_SRC_CORE_RESULTMOGENIUS_OPERATOR_SRC_CORE_REQUEST25_MOGENIUS_OPERATOR_SRC_CRDS_V1ALPHA1_USER" :> <<<<"data", GPtr(GStruct("GET_USER_RESPONSE__MOGENIUS_OPERATOR_SRC_CRDS_V1ALPHA1_USER"))>>, <<"message", GStr>>, <<"status", GStr>>>> @@
                 "GET_USER_RESPONSE__MOGENIUS_OPERATOR_SRC_CRDS_V1ALPHA1_USER" :> <<<<"TypeMeta", GStruct("GET_USER_RESPONSE__K8S_IO_APIMACHINERY_PKG_APIS_META_V1_TYPEMETA")>>, <<"metadata", GStruct("GET_USER_RESPONSE__K8S_IO_APIMACHINERY_PKG_APIS_META_V1_OBJECTMETA")>>, <<"spec", GStruct("GET_USER_RESPONSE__MOGENIUS_OPERATOR_SRC_CRDS_V1ALPHA1_USERSPEC")>>, <<"status", GStruct("GET_USER_RESPONSE__MOGENIUS_OPERATOR_SRC_CRDS_V1ALPHA1_USERSTATUS")>>>> @@
                 "GET_USER_RESPONSE__MOGENIUS_OPERATOR_SRC_CRDS_V1ALPHA1_USERSPEC" :> <<<<"email", GStr>>, <<"firstName", GStr>>, <<"lastName", GStr>>, <<"subject", GPtr(GStruct("GET_USER_RESPONSE__K8S_IO_API_RBAC_V1_SUBJECT"))>>>> @@
                 "GET_USER_RESPONSE__MOGENIUS_OPERATOR_SRC_CRDS_V1ALPHA1_USERSTATUS" :> <<>> @@
                 "GET_USER_RESPONSE__TIME_TIME" :> <<>>]

\* GET_USERS_RESPONSE: the Go schema of its doc comment and the alias.
GET_USERS_RESPONSE ==
    [root    |-> GStruct("GET_USERS_RESPONSE__MOGENIUS_OPERATOR_SRC_CORE_RESULTMOGENIUS_OPERATOR_SRC_CORE_REQUEST23_MOGENIUS_OPERATOR_SRC_CRDS_V1ALPHA1_USER"),
     type    |-> <<"GET_USERS_RESPONSE__MOGENIUS_OPERATOR_SRC_CORE_RESULTMOGENIUS_OPERATOR_SRC_CORE_REQUEST23_MOGENIUS_OPERATOR_SRC_CRDS_V1ALPHA1_USER">>,
     structs |-> "GET_USERS_RESPONSE__K8S_IO_API_RBAC_V1_SUBJECT" :> <<<<"apiGroup", GStr>>, <<"kind", GStr>>, <<"name", GStr>>, <<"namespace", GStr>>>> @@
                 "GET_USERS_RESPONSE__K8S_IO_APIMACHINERY_PKG_APIS_META_V1_FIELDSV1" :> <<>> @@
                 "GET_USERS_RESPONSE__K8S_IO_APIMACHINERY_PKG_APIS_META_V1_MANAGEDFIELDSENTRY" :> <<<<"apiVersion", GStr>>, <<"fieldsType", GStr>>, <<"fieldsV1", GPtr(GStruct("GET_USERS_RESPONSE__K8S_IO_APIMACHINERY_PKG_APIS_META_V1_FIELDSV1"))>>, <<"manager", GStr>>, <<"operation", GStr>>, <<"subresource", GStr>>, <<"time", GPtr(GStruct("GET_USERS_RESPONSE__K8S_IO_APIMACHINERY_PKG_APIS_META_V1_TIME"))>>>> @@
                 "GET_USERS_RESPONSE__K8S_IO_APIMACHINERY_PKG_APIS_META_V1_OBJECTMETA" :> <<<<"annotations", GMap(GStr, GStr)>>, <<"creationTimestamp", GStruct("GET_USERS_RESPONSE__K8S_IO_APIMACHINERY_PKG_APIS_META_V1_TIME")>>, <<"deletionGracePeriodSeconds", GPtr(GInt)>>, <<"deletionTimestamp", GPtr(GStruct("GET_USERS_RESPONSE__K8S_IO_APIMACHINERY_PKG_APIS_META_V1_TIME"))>>, <<"finalizers", GArray(GStr)>>, <<"generateName", GStr>>, <<"generation", GInt>>, <<"labels", GMap(GStr, GStr)>>, <<"managedFields", GArray(GStruct("GET_USERS_RESPONSE__K8S_IO_APIMACHINERY_PKG_APIS_META_V1_MANAGEDFIELDSENTRY"))>>, <<"name", GStr>>, <<"namespace", GStr>>, <<"ownerReferences", GArray(GStruct("GET_USERS_RESPONSE__K8S_IO_APIMACHINERY_PKG_APIS_META_V1_OWNERREFERENCE"))>>, <<"resourceVersion", GStr>>, <<"selfLink", GStr>>, <<"uid", GStr>>>> @@
                 "GET_USERS_RESPONSE__K8S_IO_APIMACHINERY_PKG_APIS_META_V1_OWNERREFERENCE" :> <<<<"apiVersion", GStr>>, <<"blockOwnerDeletion", GPtr(GBool)>>, <<"controller", GPtr(GBool)>>, <<"kind", GStr>>, <<"name", GStr>>, <<"uid", GStr>>>> @@
                 "GET_USERS_RESPONSE__K8S_IO_APIMACHINERY_PKG_APIS_META_V1_TIME" :> <<<<"Time", GStruct("GET_USERS_RESPONSE__TIME_TIME")>>>> @@
                 "GET_USERS_RESPONSE__K8S_IO_APIMACHINERY_PKG_APIS_META_V1_TYPEMETA" :> <<<<"apiVersion", GStr>>, <<"kind", GStr>>>> @@
                 "GET_USERS_RESPONSE__MOGENIUS_OPERATOR_SRC_CORE_RESULTMOGENIUS_OPERATOR_SRC_CORE_REQUEST23_MOGENIUS_OPERATOR_SRC_CRDS_V1ALPHA1_USER" :> <<<<"data", GArray(GStruct("GET_USERS_RESPONSE__MOGENIUS_OPERATOR_SRC_CRDS_V1ALPHA1_USER"))>>, <<"message", GStr>>, <<"status", GStr>>>> @@
                 "GET_USERS_RESPONSE__MOGENIUS_OPERATOR_SRC_CRDS_V1ALPHA1_USER" :> <<<<"TypeMeta", GStruct("GET_USERS_RESPONSE__K8S_IO_APIMACHINERY_PKG_APIS_META_V1_TYPEMETA")>>, <<"metadata", GStruct("GET_USERS_RESPONSE__K8S_IO_APIMACHINERY_PKG_APIS_META_V1_OBJECTMETA")>>, <<"spec", GStruct("GET_USERS_RESPONSE__MOGENIUS_OPERATOR_SRC_CRDS_V1ALPHA1_USERSPEC")>>, <<"status", GStruct("GET_USERS_RESPONSE__MOGENIUS_OPERATOR_SRC_CRDS_V1ALPHA1_USERSTATUS")>>>> @@
                 "GET_USERS_RESPONSE__MOGENIUS_OPERATOR_SRC_CRDS_V1ALPHA1_USERSPEC" :> <<<<"email", GStr>>, <<"firstName", GStr>>, <<"lastName", GStr>>, <<"subject", GPtr(GStruct("GET_USERS_RESPONSE__K8S_IO_API_RBAC_V1_SUBJECT"))>>>> @@
                 "GET_USERS_RESPONSE__MOGENIUS_OPERATOR_SRC_CRDS_V1ALPHA1_USERSTATUS" :> <<>> @@
                 "GET_USERS_RESPONSE__TIME_TIME" :> <<>>]

\* GET_WORKLOAD_RESPONSE: the Go schema of its doc comment and the alias.
GET_WORKLOAD_RESPONSE ==
    [root    |-> GStruct("GET_WORKLOAD_RESPONSE__MOGENIUS_OPERATOR_SRC_CORE_RESULTMOGENIUS_OPERATOR_SRC_UTILS_WORKLOADSINGLEREQUEST_K8S_IO_APIMACHINERY_PKG_APIS_META_V1_UNSTRUCTURED_UNSTRUCTURED"),
     type    |-> <<"GET_WORKLOAD_RESPONSE__MOGENIUS_OPERATOR_SRC_CORE_RESULTMOGENIUS_OPERATOR_SRC_UTILS_WORKLOADSINGLEREQUEST_K8S_IO_APIMACHINERY_PKG_APIS_META_V1_UNSTRUCTURED_UNSTRUCTURED">>,
     structs |-> "GET_WORKLOAD_RESPONSE__K8S_IO_APIMACHINERY_PKG_APIS_META_V1_UNSTRUCTURED_UNSTRUCTURED" :> <<<<"Object", GMap(GStr, GPtr(GAny))>>>> @@
                 "GET_WORKLOAD_RESPONSE__MOGENIUS_OPERATOR_SRC_CORE_RESULTMOGENIUS_OPERATOR_SRC_UTILS_WORKLOADSINGLEREQUEST_K8S_IO_APIMACHINERY_PKG_APIS_META_V1_UNSTRUCTURED_UNSTRUCTURED" :> <<<<"data", GPtr(GStruct("GET_WORKLOAD_RESPONSE__K8S_IO_APIMACHINERY_PKG_APIS_META_V1_UNSTRUCTURED_UNSTRUCTURED"))>>, <<"message", GStr>>, <<"status", GStr>>>>]

\* GET_WORKLOAD_EXAMPLE_RESPONSE: the Go schema of its doc comment and the alias.
GET_WORKLOAD_EXAMPLE_RESPONSE ==
    [root    |-> GStruct("GET_WORKLOAD_EXAMPLE_RESPONSE__MOGENIUS_OPERATOR_SRC_CORE_RESULTMOGENIUS_OPERATOR_SRC_UTILS_RESOURCEDESCRIPTOR_STRING"),
     type    |-> <<"GET_WORKLOAD_EXAMPLE_RESPONSE__MOGENIUS_OPERATOR_SRC_CORE_RESULTMOGENIUS_OPERATOR_SRC_UTILS_RESOURCEDESCRIPTOR_STRING">>,
     structs |-> "GET_WORKLOAD_EXAMPLE_RESPONSE__MOGENIUS_OPERATOR_SRC_CORE_RESULTMOGENIUS_OPERATOR_SRC_UTILS_RESOURCEDESCRIPTOR_STRING" :> <<<<"data", GStr>>, <<"message", GStr>>, <<"status", GStr>>>>]

\* GET_WORKLOAD_LIST_RESPONSE: the Go schema of its doc comment and the alias.
GET_WORKLOAD_LIST_RESPONSE ==
    [root    |-> GStruct("GET_WORKLOAD_LIST_RESPONSE__MOGENIUS_OPERATOR_SRC_CORE_RESULTMOGENIUS_OPERATOR_SRC_CORE_REQUEST17_K8S_IO_APIMACHINERY_PKG_APIS_META_V1_UNSTRUCTURED_UNSTRUCTUREDLIST"),
     type    |-> <<"GET_WORKLOAD_LIST_RESPONSE__MOGENIUS_OPERATOR_SRC_CORE_RESULTMOGENIUS_OPERATOR_SRC_CORE_REQUEST17_K8S_IO_APIMACHINERY_PKG_APIS_META_V1_UNSTRUCTURED_UNSTRUCTUREDLIST">>,
     structs |-> "GET_WORKLOAD_LIST_RESPONSE__K8S_IO_APIMACHINERY_PKG_APIS_META_V1_UNSTRUCTURED_UNSTRUCTURED" :> <<<<"Object", GMap(GStr, GPtr(GAny))>>>> @@
                 "GET_WORKLOAD_LIST_RESPONSE__K8S_IO_APIMACHINERY_PKG_APIS_META_V1_UNSTRUCTURED_UNSTRUCTUREDLIST" :> <<<<"Object", GMap(GStr, GPtr(GAny))>>, <<"items", GArray(GStruct("GET_WORKLOAD_LIST_RESPONSE__K8S_IO_APIMACHINERY_PKG_APIS_META_V1_UNSTRUCTURED_UNSTRUCTURED"))>>>> @@
                 "GET_WORKLOAD_LIST_RESPONSE__MOGENIUS_OPERATOR_SRC_CORE_RESULTMOGENIUS_OPERATOR_SRC_CORE_REQUEST17_K8S_IO_APIMACHINERY_PKG_APIS_META_V1_UNSTRUCTURED_UNSTRUCTUREDLIST" :> <<<<"data", GStruct("GET_WORKLOAD_LIST_RESPONSE__K8S_IO_APIMACHINERY_PKG_APIS_META_V1_UNSTRUCTURED_UNSTRUCTUREDLIST")>>, <<"message", GStr>>, <<"status", GStr>>>>]

\* GET_WORKLOAD_STATUS_RESPONSE: the Go schema of its doc comment and the alias.
GET_WORKLOAD_STATUS_RESPONSE ==
    [root    |-> GStruct("GET_WORKLOAD_STATUS_RESPONSE__MOGENIUS_OPERATOR_SRC_CORE_RESULTMOGENIUS_OPERATOR_SRC_KUBERNETES_GETWORKLOADSTATUSREQUEST_MOGENIUS_OPERATOR_SRC_KUBERNETES_WORKLOADSTATUSDTO"),
     type    |-> <<"GET_WORKLOAD_STATUS_RESPONSE__MOGENIUS_OPERATOR_SRC_CORE_RESULTMOGENIUS_OPERATOR_SRC_KUBERNETES_GETWORKLOADSTATUSREQUEST_MOGENIUS_OPERATOR_SRC_KUBERNETES_WORKLOADSTATUSDTO">>,
     structs |-> "GET_WORKLOAD_STATUS_RESPONSE__K8S_IO_API_CORE_V1_EVENT" :> <<<<"TypeMeta", GStruct("GET_WORKLOAD_STATUS_RESPONSE__K8S_IO_APIMACHINERY_PKG_APIS_META_V1_TYPEMETA")>>, <<"action", GStr>>, <<"count", GInt>>, <<"eventTime", GStruct("GET_WORKLOAD_STATUS_RESPONSE__K8S_IO_APIMACHINERY_PKG_APIS_META_V1_MICROTIME")>>, <<"firstTimestamp", GStruct("GET_WORKLOAD_STATUS_RESPONSE__K8S_IO_APIMACHINERY_PKG_APIS_META_V1_TIME")>>, <<"involvedObject", GStruct("GET_WORKLOAD_STATUS_RESPONSE__K8S_IO_API_CORE_V1_OBJECTREFERENCE")>>, <<"lastTimestamp", GStruct("GET_WORKLOAD_STATUS_RESPONSE__K8S_IO_APIMACHINERY_PKG_APIS_META_V1_TIME")>>, <<"message", GStr>>, <<"metadata", GStruct("GET_WORKLOAD_STATUS_RESPONSE__K8S_IO_APIMACHINERY_PKG_APIS_META_V1_OBJECTMETA")>>, <<"reason", GStr>>, <<"related", GPtr(GStruct("GET_WORKLOAD_STATUS_RESPONSE__K8S_IO_API_CORE_V1_OBJECTREFERENCE"))>>, <<"reportingComponent", GStr>>, <<"reportingInstance", GStr>>, <<"series", GPtr(GStruct("GET_WORKLOAD_STATUS_RESPONSE__K8S_IO_API_CORE_V1_EVENTSERIES"))>>, <<"source", GStruct("GET_WORKLOAD_STATUS_RESPONSE__K8S_IO_API_CORE_V1_EVENTSOURCE")>>, <<"type", GStr>>>> @@
                 "GET_WORKLOAD_STATUS_RESPONSE__K8S_IO_API_CORE_V1_EVENTSERIES" :> <<<<"count", GInt>>, <<"lastObservedTime", GStruct("GET_WORKLOAD_STATUS_RESPONSE__K8S_IO_APIMACHINERY_PKG_APIS_META_V1_MICROTIME")>>>> @@
                 "GET_WORKLOAD_STATUS_RESPONSE__K8S_IO_API_CORE_V1_EVENTSOURCE" :> <<<<"component", GStr>>, <<"host", GStr>>>> @@
                 "GET_WORKLOAD_STATUS_RESPONSE__K8S_IO_API_CORE_V1_OBJECTREFERENCE" :> <<<<"apiVersion", GStr>>, <<"fieldPath", GStr>>, <<"kind", GStr>>, <<"name", GStr>>, <<"namespace", GStr>>, <<"resourceVersion", GStr>>, <<"uid", GStr>>>> @@
                 "GET_WORKLOAD_STATUS_RESPONSE__K8S_IO_APIMACHINERY_PKG_APIS_META_V1_FIELDSV1" :> <<>> @@
                 "GET_WORKLOAD_STATUS_RESPONSE__K8S_IO_APIMACHINERY_PKG_APIS_META_V1_MANAGEDFIELDSENTRY" :> <<<<"apiVersion", GStr>>, <<"fieldsType", GStr>>, <<"fieldsV1", GPtr(GStruct("GET_WORKLOAD_STATUS_RESPONSE__K8S_IO_APIMACHINERY_PKG_APIS_META_V1_FIELDSV1"))>>, <<"manager", GStr>>, <<"operation", GStr>>, <<"subresource", GStr>>, <<"time", GPtr(GStruct("GET_WORKLOAD_STATUS_RESPONSE__K8S_IO_APIMACHINERY_PKG_APIS_META_V1_TIME"))>>>> @@
                 "GET_WORKLOAD_STATUS_RESPONSE__K8S_IO_APIMACHINERY_PKG_APIS_META_V1_MICROTIME" :> <<<<"Time", GStruct("GET_WORKLOAD_STATUS_RESPONSE__TIME_TIME")>>>> @@
                 "GET_WORKLOAD_STATUS_RESPONSE__K8S_IO_APIMACHINERY_PKG_APIS_META_V1_OBJECTMETA" :> <<<<"annotations", GMap(GStr, GStr)>>, <<"creationTimestamp", GStruct("GET_WORKLOAD_STATUS_RESPONSE__K8S_IO_APIMACHINERY_PKG_APIS_META_V1_TIME")>>, <<"deletionGracePeriodSeconds", GPtr(GInt)>>, <<"deletionTimestamp", GPtr(GStruct("GET_WORKLOAD_STATUS_RESPONSE__K8S_IO_APIMACHINERY_PKG_APIS_META_V1_TIME"))>>, <<"finalizers", GArray(GStr)>>, <<"generateName", GStr>>, <<"generation", GInt>>, <<"labels", GMap(GStr, GStr)>>, <<"managedFields", GArray(GStruct("GET_WORKLOAD_STATUS_RESPONSE__K8S_IO_APIMACHINERY_PKG_APIS_META_V1_MANAGEDFIELDSENTRY"))>>, <<"name", GStr>>, <<"namespace", GStr>>, <<"ownerReferences", GArray(GStruct("GET_WORKLOAD_STATUS_RESPONSE__K8S_IO_APIMACHINERY_PKG_APIS_META_V1_OWNERREFERENCE"))>>, <<"resourceVersion", GStr>>, <<"selfLink", GStr>>, <<"uid", GStr>>>> @@
                 "GET_WORKLOAD_STATUS_RESPONSE__K8S_IO_APIMACHINERY_PKG_APIS_META_V1_OWNERREFERENCE" :> <<<<"apiVersion", GStr>>, <<"blockOwnerDeletion", GPtr(GBool)>>, <<"controller", GPtr(GBool)>>, <<"kind", GStr>>, <<"name", GStr>>, <<"uid", GStr>>>> @@
                 "GET_WORKLOAD_STATUS_RESPONSE__K8S_IO_APIMACHINERY_PKG_APIS_META_V1_TIME" :> <<<<"Time", GStruct("GET_WORKLOAD_STATUS_RESPONSE__TIME_TIME")>>>> @@
                 "GET_WORKLOAD_STATUS_RESPONSE__K8S_IO_APIMACHINERY_PKG_APIS_META_V1_TYPEMETA" :> <<<<"apiVersion", GStr>>, <<"kind", GStr>>>> @@
                 "GET_WORKLOAD_STATUS_RESPONSE__MOGENIUS_OPERATOR_SRC_CORE_RESULTMOGENIUS_OPERATOR_SRC_KUBERNETES_GETWORKLOADSTATUSREQUEST_MOGENIUS_OPERATOR_SRC_KUBERNETES_WORKLOADSTATUSDTO" :> <<<<"data", GArray(GStruct("GET_WORKLOAD_STATUS_RESPONSE__MOGENIUS_OPERATOR_SRC_KUBERNETES_WORKLOADSTATUSDTO"))>>, <<"message", GStr>>, <<"status", GStr>>>> @@
                 "GET_WORKLOAD_STATUS_RESPONSE__MOGENIUS_OPERATOR_SRC_KUBERNETES_WORKLOADSTATUSDTO" :> <<<<"items", GArray(GStruct("GET_WORKLOAD_STATUS_RESPONSE__MOGENIUS_OPERATOR_SRC_KUBERNETES_WORKLOADSTATUSITEMDTO"))>>>> @@
                 "GET_WORKLOAD_STATUS_RESPONSE__MOGENIUS_OPERATOR_SRC_KUBERNETES_WORKLOADSTATUSITEMDTO" :> <<<<"apiVersion", GStr>>, <<"creationTimestamp", GStruct("GET_WORKLOAD_STATUS_RESPONSE__K8S_IO_APIMACHINERY_PKG_APIS_META_V1_TIME")>>, <<"endpoints", GPtr(GAny)>>, <<"events", GArray(GStruct("GET_WORKLOAD_STATUS_RESPONSE__K8S_IO_API_CORE_V1_EVENT"))>>, <<"kind", GStr>>, <<"name", GStr>>, <<"namespace", GStr>>, <<"ownerReferences", GPtr(GAny)>>, <<"replicas", GPtr(GInt)>>, <<"specClusterIP", GStr>>, <<"specType", GStr>>, <<"status", GPtr(GAny)>>, <<"uid", GStr>>>> @@
                 "GET_WORKLOAD_STATUS_RESPONSE__TIME_TIME" :> <<>>]

\* GET_WORKSPACE_RESPONSE: the Go schema of its doc comment and the alias.
GET_WORKSPACE_RESPONSE ==
    [root    |-> GStruct("GET_WORKSPACE_RESPONSE__MOGENIUS_OPERATOR_SRC_CORE_RESULTMOGENIUS_OPERATOR_SRC_CORE_REQUEST19_MOGENIUS_OPERATOR_SRC_CORE_GETWORKSPACERESULT"),
     type    |-> <<"GET_WORKSPACE_RESPONSE__MOGENIUS_OPERATOR_SRC_CORE_RESULTMOGENIUS_OPERATOR_SRC_CORE_REQUEST19_MOGENIUS_OPERATOR_SRC_CORE_GETWORKSPACERESULT">>,
     structs |-> "GET_WORKSPACE_RESPONSE__K8S_IO_APIMACHINERY_PKG_APIS_META_V1_TIME" :> <<<<"Time", GStruct("GET_WORKSPACE_RESPONSE__TIME_TIME")>>>> @@
                 "GET_WORKSPACE_RESPONSE__MOGENIUS_OPERATOR_SRC_CORE_GETWORKSPACERESULT" :> <<<<"creationTimestamp", GStruct("GET_WORKSPACE_RESPONSE__K8S_IO_APIMACHINERY_PKG_APIS_META_V1_TIME")>>, <<"name", GStr>>, <<"resources", GArray(GStruct("GET_WORKSPACE_RESPONSE__MOGENIUS_OPERATOR_SRC_CRDS_V1ALPHA1_WORKSPACERESOURCEIDENTIFIER"))>>>> @@
                 "GET_WORKSPACE_RESPONSE__MOGENIUS_OPERATOR_SRC_CORE_RESULTMOGENIUS_OPERATOR_SRC_CORE_REQUEST19_MOGENIUS_OPERATOR_SRC_CORE_GETWORKSPACERESULT" :> <<<<"data", GPtr(GStruct("GET_WORKSPACE_RESPONSE__MOGENIUS_OPERATOR_SRC_CORE_GETWORKSPACERESULT"))>>, <<"message", GStr>>, <<"status", GStr>>>> @@
                 "GET_WORKSPACE_RESPONSE__MOGENIUS_OPERATOR_SRC_CRDS_V1ALPHA1_WORKSPACERESOURCEIDENTIFIER" :> <<<<"id", GStr>>, <<"namespace", GStr>>, <<"type", GStr>>>> @@
                 "GET_WORKSPACE_RESPONSE__TIME_TIME" :> <<>>]

\* GET_WORKSPACES_RESPONSE: the Go schema of its doc comment and the alias.
GET_WORKSPACES_RESPONSE ==
    [root    |-> GStruct("GET_WORKSPACES_RESPONSE__MOGENIUS_OPERATOR_SRC_CORE_RESULTMOGENIUS_OPERATOR_SRC_CORE_VOID_MOGENIUS_OPERATOR_SRC_CORE_GETWORKSPACERESULT"),
     type    |-> <<"GET_WORKSPACES_RESPONSE__MOGENIUS_OPERATOR_SRC_CORE_RESULTMOGENIUS_OPERATOR_SRC_CORE_VOID_MOGENIUS_OPERATOR_SRC_CORE_GETWORKSPACERESULT">>,
     structs |-> "GET_WORKSPACES_RESPONSE__K8S_IO_APIMACHINERY_PKG_APIS_META_V1_TIME" :> <<<<"Time", GStruct("GET_WORKSPACES_RESPONSE__TIME_TIME")>>>> @@
                 "GET_WORKSPACES_RESPONSE__MOGENIUS_OPERATOR_SRC_CORE_GETWORKSPACERESULT" :> <<<<"creationTimestamp", GStruct("GET_WORKSPACES_RESPONSE__K8S_IO_APIMACHINERY_PKG_APIS_META_V1_TIME")>>, <<"name", GStr>>, <<"resources", GArray(GStruct("GET_WORKSPACES_RESPONSE__MOGENIUS_OPERATOR_SRC_CRDS_V1ALPHA1_WORKSPACERESOURCEIDENTIFIER"))>>>> @@
                 "GET_WORKSPACES_RESPONSE__MOGENIUS_OPERATOR_SRC_CORE_RESULTMOGENIUS_OPERATOR_SRC_CORE_VOID_MOGENIUS_OPERATOR_SRC_CORE_GETWORKSPACERESULT" :> <<<<"data", GArray(GStruct("GET_WORKSPACES_RESPONSE__MOGENIUS_OPERATOR_SRC_CORE_GETWORKSPACERESULT"))>>, <<"message", GStr>>, <<"status", GStr>>>> @@
                 "GET_WORKSPACES_RESPONSE__MOGENIUS_OPERATOR_SRC_CRDS_V1ALPHA1_WORKSPACERESOURCEIDENTIFIER" :> <<<<"id", GStr>>, <<"namespace", GStr>>, <<"type", GStr>>>> @@
                 "GET_WORKSPACES_RESPONSE__TIME_TIME" :> <<>>]

\* GET_WORKSPACE_WORKLOADS_RESPONSE: the Go schema of its doc comment and the alias.
GET_WORKSPACE_WORKLOADS_RESPONSE ==
    [root    |-> GStruct("GET_WORKSPACE_WORKLOADS_RESPONSE__MOGENIUS_OPERATOR_SRC_CORE_RESULTMOGENIUS_OPERATOR_SRC_CORE_REQUEST33_K8S_IO_APIMACHINERY_PKG_APIS_META_V1_UNSTRUCTURED_UNSTRUCTURED"),
     type    |-> <<"GET_WORKSPACE_WORKLOADS_RESPONSE__MOGENIUS_OPERATOR_SRC_CORE_RESULTMOGENIUS_OPERATOR_SRC_CORE_REQUEST33_K8S_IO_APIMACHINERY_PKG_APIS_META_V1_UNSTRUCTURED_UNSTRUCTURED">>,
     structs |-> "GET_WORKSPACE_WORKLOADS_RESPONSE__K8S_IO_APIMACHINERY_PKG_APIS_META_V1_UNSTRUCTURED_UNSTRUCTURED" :> <<<<"Object", GMap(GStr, GPtr(GAny))>>>> @@
                 "GET_WORKSPACE_WORKLOADS_RESPONSE__MOGENIUS_OPERATOR_SRC_CORE_RESULTMOGENIUS_OPERATOR_SRC_CORE_REQUEST33_K8S_IO_APIMACHINERY_PKG_APIS_META_V1_UNSTRUCTURED_UNSTRUCTURED" :> <<<<"data", GArray(GStruct("GET_WORKSPACE_WORKLOADS_RESPONSE__K8S_IO_APIMACHINERY_PKG_APIS_META_V1_UNSTRUCTURED_UNSTRUCTURED"))>>, <<"message", GStr>>, <<"status", GStr>>>>]

\* INSTALL_CERT_MANAGER_RESPONSE: the Go schema of its doc comment and the alias.
INSTALL_CERT_MANAGER_RESPONSE ==
    [root    |-> GStruct("INSTALL_CERT_MANAGER_RESPONSE__MOGENIUS_OPERATOR_SRC_CORE_RESULTMOGENIUS_OPERATOR_SRC_CORE_VOID_STRING"),
     type    |-> <<"INSTALL_CERT_MANAGER_RESPONSE__MOGENIUS_OPERATOR_SRC_CORE_RESULTMOGENIUS_OPERATOR_SRC_CORE_VOID_STRING">>,
     structs |-> "INSTALL_CERT_MANAGER_RESPONSE__MOGENIUS_OPERATOR_SRC_CORE_RESULTMOGENIUS_OPERATOR_SRC_CORE_VOID_STRING" :> <<<<"data", GStr>>, <<"message", GStr>>, <<"status", GStr>>>>]

\* INSTALL_CLUSTER_ISSUER_RESPONSE: the Go schema of its doc comment and the alias.
INSTALL_CLUSTER_ISSUER_RESPONSE ==
    [root    |-> GStruct("INSTALL_CLUSTER_ISSUER_RESPONSE__MOGENIUS_OPERATOR_SRC_CORE_RESULTMOGENIUS_OPERATOR_SRC_CORE_REQUEST6_STRING"),
     type    |-> <<"INSTALL_CLUSTER_ISSUER_RESPONSE__MOGENIUS_OPERATOR_SRC_CORE_RESULTMOGENIUS_OPERATOR_SRC_CORE_REQUEST6_STRING">>,
     structs |-> "INSTALL_CLUSTER_ISSUER_RESPONSE__MOGENIUS_OPERATOR_SRC_CORE_RESULTMOGENIUS_OPERATOR_SRC_CORE_REQUEST6_STRING" :> <<<<"data", GStr>>, <<"message", GStr>>, <<"status", GStr>>>>]

\* INSTALL_INGRESS_CONTROLLER_TRAEFIK_RESPONSE: the Go schema of its doc comment and the alias.
INSTALL_INGRESS_CONTROLLER_TRAEFIK_RESPONSE ==
    [root    |-> GStruct("INSTALL_INGRESS_CONTROLLER_TRAEFIK_RESPONSE__MOGENIUS_OPERATOR_SRC_CORE_RESULTMOGENIUS_OPERATOR_SRC_CORE_VOID_STRING"),
     type    |-> <<"INSTALL_INGRESS_CONTROLLER_TRAEFIK_RESPONSE__MOGENIUS_OPERATOR_SRC_CORE_RESULTMOGENIUS_OPERATOR_SRC_CORE_VOID_STRING">>,
     structs |-> "INSTALL_INGRESS_CONTROLLER_TRAEFIK_RESPONSE__MOGENIUS_OPERATOR_SRC_CORE_RESULTMOGENIUS_OPERATOR_SRC_CORE_VOID_STRING" :> <<<<"data", GStr>>, <<"message", GStr>>, <<"status", GStr>>>>]

\* INSTALL_KEPLER_RESPONSE: the Go schema of its doc comment and the alias.
INSTALL_KEPLER_RESPONSE ==
    [root    |-> GStruct("INSTALL_KEPLER_RESPONSE__MOGENIUS_OPERATOR_SRC_CORE_RESULTMOGENIUS_OPERATOR_SRC_CORE_VOID_STRING"),
     type    |-> <<"INSTALL_KEPLER_RESPONSE__MOGENIUS_OPERATOR_SRC_CORE_RESULTMOGENIUS_OPERATOR_SRC_CORE_VOID_STRING">>,
     structs |-> "INSTALL_KEPLER_RESPONSE__MOGENIUS_OPERATOR_SRC_CORE_RESULTMOGENIUS_OPERATOR_SRC_CORE_VOID_STRING" :> <<<<"data", GStr>>, <<"message", GStr>>, <<"status", GStr>>>>]

\* INSTALL_METALLB_RESPONSE: the Go schema of its doc comment and the alias.
INSTALL_METALLB_RESPONSE ==
    [root    |-> GStruct("INSTALL_METALLB_RESPONSE__MOGENIUS_OPERATOR_SRC_CORE_RESULTMOGENIUS_OPERATOR_SRC_CORE_VOID_STRING"),
     type    |-> <<"INSTALL_METALLB_RESPONSE__MOGENIUS_OPERATOR_SRC_CORE_RESULTMOGENIUS_OPERATOR_SRC_CORE_VOID_STRING">>,
     structs |-> "INSTALL_METALLB_RESPONSE__MOGENIUS_OPERATOR_SRC_CORE_RESULTMOGENIUS_OPERATOR_SRC_CORE_VOID_STRING" :> <<<<"data", GStr>>, <<"message", GStr>>, <<"status", GStr>>>>]

\* INSTALL_METRICS_SERVER_RESPONSE: the Go schema of its doc comment and the alias.
INSTALL_METRICS_SERVER_RESPONSE ==
    [root    |-> GStruct("INSTALL_METRICS_SERVER_RESPONSE__MOGENIUS_OPERATOR_SRC_CORE_RESULTMOGENIUS_OPERATOR_SRC_CORE_VOID_STRING"),
     type    |-> <<"INSTALL_METRICS_SERVER_RESPONSE__MOGENIUS_OPERATOR_SRC_CORE_RESULTMOGENIUS_OPERATOR_SRC_CORE_VOID_STRING">>,
     structs |-> "INSTALL_METRICS_SERVER_RESPONSE__MOGENIUS_OPERATOR_SRC_CORE_RESULTMOGENIUS_OPERATOR_SRC_CORE_VOID_STRING" :> <<<<"data", GStr>>, <<"message", GStr>>, <<"status", GStr>>>>]

\* LIST_ALL_RESOURCE_DESCRIPTORS_RESPONSE: the Go schema of its doc comment and the alias.
LIST_ALL_RESOURCE_DESCRIPTORS_RESPONSE ==
    [root    |-> GStruct("LIST_ALL_RESOURCE_DESCRIPTORS_RESPONSE__MOGENIUS_OPERATOR_SRC_CORE_RESULTMOGENIUS_OPERATOR_SRC_CORE_VOID_MOGENIUS_OPERATOR_SRC_UTILS_RESOURCEDESCRIPTOR"),
     type    |-> <<"LIST_ALL_RESOURCE_DESCRIPTORS_RESPONSE__MOGENIUS_OPERATOR_SRC_CORE_RESULTMOGENIUS_OPERATOR_SRC_CORE_VOID_MOGENIUS_OPERATOR_SRC_UTILS_RESOURCEDESCRIPTOR">>,
     structs |-> "LIST_ALL_RESOURCE_DESCRIPTORS_RESPONSE__MOGENIUS_OPERATOR_SRC_CORE_RESULTMOGENIUS_OPERATOR_SRC_CORE_VOID_MOGENIUS_OPERATOR_SRC_UTILS_RESOURCEDESCRIPTOR" :> <<<<"data", GArray(GStruct("LIST_ALL_RESOURCE_DESCRIPTORS_RESPONSE__MOGENIUS_OPERATOR_SRC_UTILS_RESOURCEDESCRIPTOR"))>>, <<"message", GStr>>, <<"status", GStr>>>> @@
                 "LIST_ALL_RESOURCE_DESCRIPTORS_RESPONSE__MOGENIUS_OPERATOR_SRC_UTILS_RESOURCEDESCRIPTOR" :> <<<<"apiVersion", GStr>>, <<"kind", GStr>>, <<"namespaced", GBool>>, <<"plural", GStr>>>>]

\* LIVE_STREAM_NODES_CPU_RESPONSE: the Go schema of its doc comment and the alias.
LIVE_STREAM_NODES_CPU_RESPONSE ==
    [root    |-> GStruct("LIVE_STREAM_NODES_CPU_RESPONSE__MOGENIUS_OPERATOR_SRC_CORE_RESULTMOGENIUS_OPERATOR_SRC_XTERM_WSCONNECTIONREQUEST_MOGENIUS_OPERATOR_SRC_CORE_VOID"),
     type    |-> <<"LIVE_STREAM_NODES_CPU_RESPONSE__MOGENIUS_OPERATOR_SRC_CORE_RESULTMOGENIUS_OPERATOR_SRC_XTERM_WSCONNECTIONREQUEST_MOGENIUS_OPERATOR_SRC_CORE_VOID">>,
     structs |-> "LIVE_STREAM_NODES_CPU_RESPONSE__ANON_STRUCT_1" :> <<>> @@
                 "LIVE_STREAM_NODES_CPU_RESPONSE__MOGENIUS_OPERATOR_SRC_CORE_RESULTMOGENIUS_OPERATOR_SRC_XTERM_WSCONNECTIONREQUEST_MOGENIUS_OPERATOR_SRC_CORE_VOID" :> <<<<"data", GPtr(GStruct("LIVE_STREAM_NODES_CPU_RESPONSE__ANON_STRUCT_1"))>>, <<"message", GStr>>, <<"status", GStr>>>>]

\* LIVE_STREAM_NODES_MEMORY_RESPONSE: the Go schema of its doc comment and the alias.
LIVE_STREAM_NODES_MEMORY_RESPONSE ==
    [root    |-> GStruct("LIVE_STREAM_NODES_MEMORY_RESPONSE__MOGENIUS_OPERATOR_SRC_CORE_RESULTMOGENIUS_OPERATOR_SRC_XTERM_WSCONNECTIONREQUEST_MOGENIUS_OPERATOR_SRC_CORE_VOID"),
     type    |-> <<"LIVE_STREAM_NODES_MEMORY_RESPONSE__MOGENIUS_OPERATOR_SRC_CORE_RESULTMOGENIUS_OPERATOR_SRC_XTERM_WSCONNECTIONREQUEST_MOGENIUS_OPERATOR_SRC_CORE_VOID">>,
     structs |-> "LIVE_STREAM_NODES_MEMORY_RESPONSE__ANON_STRUCT_1" :> <<>> @@
                 "LIVE_STREAM_NODES_MEMORY_RESPONSE__MOGENIUS_OPERATOR_SRC_CORE_RESULTMOGENIUS_OPERATOR_SRC_XTERM_WSCONNECTIONREQUEST_MOGENIUS_OPERATOR_SRC_CORE_VOID" :> <<<<"data", GPtr(GStruct("LIVE_STREAM_NODES_MEMORY_RESPONSE__ANON_STRUCT_1"))>>, <<"message", GStr>>, <<"status", GStr>>>>]

\* LIVE_STREAM_NODES_TRAFFIC_RESPONSE: the Go schema of its doc comment and the alias.
LIVE_STREAM_NODES_TRAFFIC_RESPONSE ==
    [root    |-> GStruct("LIVE_STREAM_NODES_TRAFFIC_RESPONSE__MOGENIUS_OPERATOR_SRC_CORE_RESULTMOGENIUS_OPERATOR_SRC_XTERM_WSCONNECTIONREQUEST_MOGENIUS_OPERATOR_SRC_CORE_VOID"),
     type    |-> <<"LIVE_STREAM_NODES_TRAFFIC_RESPONSE__MOGENIUS_OPERATOR_SRC_CORE_RESULTMOGENIUS_OPERATOR_SRC_XTERM_WSCONNECTIONREQUEST_MOGENIUS_OPERATOR_SRC_CORE_VOID">>,
     structs |-> "LIVE_STREAM_NODES_TRAFFIC_RESPONSE__ANON_STRUCT_1" :> <<>> @@
                 "LIVE_STREAM_NODES_TRAFFIC_RESPONSE__MOGENIUS_OPERATOR_SRC_CORE_RESULTMOGENIUS_OPERATOR_SRC_XTERM_WSCONNECTIONREQUEST_MOGENIUS_OPERATOR_SRC_CORE_VOID" :> <<<<"data", GPtr(GStruct("LIVE_STREAM_NODES_TRAFFIC_RESPONSE__ANON_STRUCT_1"))>>, <<"message", GStr>>, <<"status", GStr>>>>]

\* LIVE_STREAM_POD_CPU_RESPONSE: the Go schema of its doc comment and the alias.
LIVE_STREAM_POD_CPU_RESPONSE ==
    [root    |-> GStruct("LIVE_STREAM_POD_CPU_RESPONSE__MOGENIUS_OPERATOR_SRC_CORE_RESULTMOGENIUS_OPERATOR_SRC_XTERM_WSCONNECTIONREQUEST_MOGENIUS_OPERATOR_SRC_CORE_VOID"),
     type    |-> <<"LIVE_STREAM_POD_CPU_RESPONSE__MOGENIUS_OPERATOR_SRC_CORE_RESULTMOGENIUS_OPERATOR_SRC_XTERM_WSCONNECTIONREQUEST_MOGENIUS_OPERATOR_SRC_CORE_VOID">>,
     structs |-> "LIVE_STREAM_POD_CPU_RESPONSE__ANON_STRUCT_1" :> <<>> @@
                 "LIVE_STREAM_POD_CPU_RESPONSE__MOGENIUS_OPERATOR_SRC_CORE_RESULTMOGENIUS_OPERATOR_SRC_XTERM_WSCONNECTIONREQUEST_MOGENIUS_OPERATOR_SRC_CORE_VOID" :> <<<<"data", GPtr(GStruct("LIVE_STREAM_POD_CPU_RESPONSE__ANON_STRUCT_1"))>>, <<"message", GStr>>, <<"status", GStr>>>>]

\* LIVE_STREAM_POD_MEMORY_RESPONSE: the Go schema of its doc comment and the alias.
LIVE_STREAM_POD_MEMORY_RESPONSE ==
    [root    |-> GStruct("LIVE_STREAM_POD_MEMORY_RESPONSE__MOGENIUS_OPERATOR_SRC_CORE_RESULTMOGENIUS_OPERATOR_SRC_XTERM_WSCONNECTIONREQUEST_MOGENIUS_OPERATOR_SRC_CORE_VOID"),
     type    |-> <<"LIVE_STREAM_POD_MEMORY_RESPONSE__MOGENIUS_OPERATOR_SRC_CORE_RESULTMOGENIUS_OPERATOR_SRC_XTERM_WSCONNECTIONREQUEST_MOGENIUS_OPERATOR_SRC_CORE_VOID">>,
     structs |-> "LIVE_STREAM_POD_MEMORY_RESPONSE__ANON_STRUCT_1" :> <<>> @@
                 "LIVE_STREAM_POD_MEMORY_RESPONSE__MOGENIUS_OPERATOR_SRC_CORE_RESULTMOGENIUS_OPERATOR_SRC_XTERM_WSCONNECTIONREQUEST_MOGENIUS_OPERATOR_SRC_CORE_VOID" :> <<<<"data", GPtr(GStruct("LIVE_STREAM_POD_MEMORY_RESPONSE__ANON_STRUCT_1"))>>, <<"message", GStr>>, <<"status", GStr>>>>]

\* LIVE_STREAM_POD_TRAFFIC_RESPONSE: the Go schema of its doc comment and the alias.
LIVE_STREAM_POD_TRAFFIC_RESPONSE ==
    [root    |-> GStruct("LIVE_STREAM_POD_TRAFFIC_RESPONSE__MOGENIUS_OPERATOR_SRC_CORE_RESULTMOGENIUS_OPERATOR_SRC_XTERM_WSCONNECTIONREQUEST_MOGENIUS_OPERATOR_SRC_CORE_VOID"),
     type    |-> <<"LIVE_STREAM_POD_TRAFFIC_RESPONSE__MOGENIUS_OPERATOR_SRC_CORE_RESULTMOGENIUS_OPERATOR_SRC_XTERM_WSCONNECTIONREQUEST_MOGENIUS_OPERATOR_SRC_CORE_VOID">>,
     structs |-> "LIVE_STREAM_POD_TRAFFIC_RESPONSE__ANON_STRUCT_1" :> <<>> @@
                 "LIVE_STREAM_POD_TRAFFIC_RESPONSE__MOGENIUS_OPERATOR_SRC_CORE_RESULTMOGENIUS_OPERATOR_SRC_XTERM_WSCONNECTIONREQUEST_MOGENIUS_OPERATOR_SRC_CORE_VOID" :> <<<<"data", GPtr(GStruct("LIVE_STREAM_POD_TRAFFIC_RESPONSE__ANON_STRUCT_1"))>>, <<"message", GStr>>, <<"status", GStr>>>>]

\* LIVE_STREAM_WORKSPACE_CPU_RESPONSE: the Go schema of its doc comment and the alias.
LIVE_STREAM_WORKSPACE_CPU_RESPONSE ==
    [root    |-> GStruct("LIVE_STREAM_WORKSPACE_CPU_RESPONSE__MOGENIUS_OPERATOR_SRC_CORE_RESULTMOGENIUS_OPERATOR_SRC_XTERM_WSCONNECTIONREQUEST_INTERFACE {}"),
     type    |-> <<"LIVE_STREAM_WORKSPACE_CPU_RESPONSE__MOGENIUS_OPERATOR_SRC_CORE_RESULTMOGENIUS_OPERATOR_SRC_XTERM_WSCONNECTIONREQUEST_INTERFACE", "{", "}">>,
     structs |-> "LIVE_STREAM_WORKSPACE_CPU_RESPONSE__MOGENIUS_OPERATOR_SRC_CORE_RESULTMOGENIUS_OPERATOR_SRC_XTERM_WSCONNECTIONREQUEST_INTERFACE {}" :> <<<<"data", GPtr(GAny)>>, <<"message", GStr>>, <<"status", GStr>>>>]

\* LIVE_STREAM_WORKSPACE_MEMORY_RESPONSE: the Go schema of its doc comment and the alias.
LIVE_STREAM_WORKSPACE_MEMORY_RESPONSE ==
    [root    |-> GStruct("LIVE_STREAM_WORKSPACE_MEMORY_RESPONSE__MOGENIUS_OPERATOR_SRC_CORE_RESULTMOGENIUS_OPERATOR_SRC_XTERM_WSCONNECTIONREQUEST_INTERFACE {}"),
     type    |-> <<"LIVE_STREAM_WORKSPACE_MEMORY_RESPONSE__MOGENIUS_OPERATOR_SRC_CORE_RESULTMOGENIUS_OPERATOR_SRC_XTERM_WSCONNECTIONREQUEST_INTERFACE", "{", "}">>,
     structs |-> "LIVE_STREAM_WORKSPACE_MEMORY_RESPONSE__MOGENIUS_OPERATOR_SRC_CORE_RESULTMOGENIUS_OPERATOR_SRC_XTERM_WSCONNECTIONREQUEST_INTERFACE {}" :> <<<<"data", GPtr(GAny)>>, <<"message", GStr>>, <<"status", GStr>>>>]

\* LIVE_STREAM_WORKSPACE_TRAFFIC_RESPONSE: the Go schema of its doc comment and the alias.
LIVE_STREAM_WORKSPACE_TRAFFIC_RESPONSE ==
    [root    |-> GStruct("LIVE_STREAM_WORKSPACE_TRAFFIC_RESPONSE__MOGENIUS_OPERATOR_SRC_CORE_RESULTMOGENIUS_OPERATOR_SRC_XTERM_WSCONNECTIONREQUEST_INTERFACE {}"),
     type    |-> <<"LIVE_STREAM_WORKSPACE_TRAFFIC_RESPONSE__MOGENIUS_OPERATOR_SRC_CORE_RESULTMOGENIUS_OPERATOR_SRC_XTERM_WSCONNECTIONREQUEST_INTERFACE", "{", "}">>,
     structs |-> "LIVE_STREAM_WORKSPACE_TRAFFIC_RESPONSE__MOGENIUS_OPERATOR_SRC_CORE_RESULTMOGENIUS_OPERATOR_SRC_XTERM_WSCONNECTIONREQUEST_INTERFACE {}" :> <<<<"data", GPtr(GAny)>>, <<"message", GStr>>, <<"status", GStr>>>>]

\* PROMETHEUS_CHARTS_ADD_RESPONSE: the Go schema of its doc comment and the alias.
PROMETHEUS_CHARTS_ADD_RESPONSE ==
    [root    |-> GStruct("PROMETHEUS_CHARTS_ADD_RESPONSE__MOGENIUS_OPERATOR_SRC_CORE_RESULTMOGENIUS_OPERATOR_SRC_CORE_PROMETHEUSREQUESTREDIS_STRING"),
     type    |-> <<"PROMETHEUS_CHARTS_ADD_RESPONSE__MOGENIUS_OPERATOR_SRC_CORE_RESULTMOGENIUS_OPERATOR_SRC_CORE_PROMETHEUSREQUESTREDIS_STRING">>,
     structs |-> "PROMETHEUS_CHARTS_ADD_RESPONSE__MOGENIUS_OPERATOR_SRC_CORE_RESULTMOGENIUS_OPERATOR_SRC_CORE_PROMETHEUSREQUESTREDIS_STRING" :> <<<<"data", GPtr(GStr)>>, <<"message", GStr>>, <<"status", GStr>>>>]

\* PROMETHEUS_CHARTS_GET_RESPONSE: the Go schema of its doc comment and the alias.
PROMETHEUS_CHARTS_GET_RESPONSE ==
    [root    |-> GStruct("PROMETHEUS_CHARTS_GET_RESPONSE__MOGENIUS_OPERATOR_SRC_CORE_RESULTMOGENIUS_OPERATOR_SRC_CORE_PROMETHEUSREQUESTREDIS_MOGENIUS_OPERATOR_SRC_CORE_PROMETHEUSSTOREOBJECT"),
     type    |-> <<"PROMETHEUS_CHARTS_GET_RESPONSE__MOGENIUS_OPERATOR_SRC_CORE_RESULTMOGENIUS_OPERATOR_SRC_CORE_PROMETHEUSREQUESTREDIS_MOGENIUS_OPERATOR_SRC_CORE_PROMETHEUSSTOREOBJECT">>,
     structs |-> "PROMETHEUS_CHARTS_GET_RESPONSE__MOGENIUS_OPERATOR_SRC_CORE_PROMETHEUSSTOREOBJECT" :> <<<<"createdAt", GStruct("PROMETHEUS_CHARTS_GET_RESPONSE__TIME_TIME")>>, <<"query", GStr>>, <<"step", GInt>>>> @@
                 "PROMETHEUS_CHARTS_GET_RESPONSE__MOGENIUS_OPERATOR_SRC_CORE_RESULTMOGENIUS_OPERATOR_SRC_CORE_PROMETHEUSREQUESTREDIS_MOGENIUS_OPERATOR_SRC_CORE_PROMETHEUSSTOREOBJECT" :> <<<<"data", GPtr(GStruct("PROMETHEUS_CHARTS_GET_RESPONSE__MOGENIUS_OPERATOR_SRC_CORE_PROMETHEUSSTOREOBJECT"))>>, <<"message", GStr>>, <<"status", GStr>>>> @@
                 "PROMETHEUS_CHARTS_GET_RESPONSE__TIME_TIME" :> <<>>]

\* PROMETHEUS_CHARTS_LIST_RESPONSE: the Go schema of its doc comment and the alias.
PROMETHEUS_CHARTS_LIST_RESPONSE ==
    [root    |-> GStruct("PROMETHEUS_CHARTS_LIST_RESPONSE__MOGENIUS_OPERATOR_SRC_CORE_RESULTMOGENIUS_OPERATOR_SRC_CORE_PROMETHEUSREQUESTREDISLIST_MAPSTRINGMOGENIUS_OPERATOR_SRC_CORE_PROMETHEUSSTOREOBJECT"),
     type    |-> <<"PROMETHEUS_CHARTS_LIST_RESPONSE__MOGENIUS_OPERATOR_SRC_CORE_RESULTMOGENIUS_OPERATOR_SRC_CORE_PROMETHEUSREQUESTREDISLIST_MAPSTRINGMOGENIUS_OPERATOR_SRC_CORE_PROMETHEUSSTOREOBJECT">>,
     structs |-> "PROMETHEUS_CHARTS_LIST_RESPONSE__MOGENIUS_OPERATOR_SRC_CORE_PROMETHEUSSTOREOBJECT" :> <<<<"createdAt", GStruct("PROMETHEUS_CHARTS_LIST_RESPONSE__TIME_TIME")>>, <<"query", GStr>>, <<"step", GInt>>>> @@
                 "PROMETHEUS_CHARTS_LIST_RESPONSE__MOGENIUS_OPERATOR_SRC_CORE_RESULTMOGENIUS_OPERATOR_SRC_CORE_PROMETHEUSREQUESTREDISLIST_MAPSTRINGMOGENIUS_OPERATOR_SRC_CORE_PROMETHEUSSTOREOBJECT" :> <<<<"data", GMap(GStr, GStruct("PROMETHEUS_CHARTS_LIST_RESPONSE__MOGENIUS_OPERATOR_SRC_CORE_PROMETHEUSSTOREOBJECT"))>>, <<"message", GStr>>, <<"status", GStr>>>> @@
                 "PROMETHEUS_CHARTS_LIST_RESPONSE__TIME_TIME" :> <<>>]

\* PROMETHEUS_CHARTS_REMOVE_RESPONSE: the Go schema of its doc comment and the alias.
PROMETHEUS_CHARTS_REMOVE_RESPONSE ==
    [root    |-> GStruct("PROMETHEUS_CHARTS_REMOVE_RESPONSE__MOGENIUS_OPERATOR_SRC_CORE_RESULTMOGENIUS_OPERATOR_SRC_CORE_PROMETHEUSREQUESTREDIS_STRING"),
     type    |-> <<"PROMETHEUS_CHARTS_REMOVE_RESPONSE__MOGENIUS_OPERATOR_SRC_CORE_RESULTMOGENIUS_OPERATOR_SRC_CORE_PROMETHEUSREQUESTREDIS_STRING">>,
     structs |-> "PROMETHEUS_CHARTS_REMOVE_RESPONSE__MOGENIUS_OPERATOR_SRC_CORE_RESULTMOGENIUS_OPERATOR_SRC_CORE_PROMETHEUSREQUESTREDIS_STRING" :> <<<<"data", GPtr(GStr)>>, <<"message", GStr>>, <<"status", GStr>>>>]

\* PROMETHEUS_IS_REACHABLE_RESPONSE: the Go schema of its doc comment and the alias.
PROMETHEUS_IS_REACHABLE_RESPONSE ==
    [root    |-> GStruct("PROMETHEUS_IS_REACHABLE_RESPONSE__MOGENIUS_OPERATOR_SRC_CORE_RESULTMOGENIUS_OPERATOR_SRC_CORE_PROMETHEUSREQUEST_BOOL"),
     type    |-> <<"PROMETHEUS_IS_REACHABLE_RESPONSE__MOGENIUS_OPERATOR_SRC_CORE_RESULTMOGENIUS_OPERATOR_SRC_CORE_PROMETHEUSREQUEST_BOOL">>,
     structs |-> "PROMETHEUS_IS_REACHABLE_RESPONSE__MOGENIUS_OPERATOR_SRC_CORE_RESULTMOGENIUS_OPERATOR_SRC_CORE_PROMETHEUSREQUEST_BOOL" :> <<<<"data", GBool>>, <<"message", GStr>>, <<"status", GStr>>>>]

\* PROMETHEUS_QUERY_RESPONSE: the Go schema of its doc comment and the alias.
PROMETHEUS_QUERY_RESPONSE ==
    [root    |-> GStruct("PROMETHEUS_QUERY_RESPONSE__MOGENIUS_OPERATOR_SRC_CORE_RESULTMOGENIUS_OPERATOR_SRC_CORE_PROMETHEUSREQUEST_MOGENIUS_OPERATOR_SRC_CORE_PROMETHEUSQUERYRESPONSE"),
     type    |-> <<"PROMETHEUS_QUERY_RESPONSE__MOGENIUS_OPERATOR_SRC_CORE_RESULTMOGENIUS_OPERATOR_SRC_CORE_PROMETHEUSREQUEST_MOGENIUS_OPERATOR_SRC_CORE_PROMETHEUSQUERYRESPONSE">>,
     structs |-> "PROMETHEUS_QUERY_RESPONSE__ANON_STRUCT_2" :> <<<<"result", GArray(GPtr(GAny))>>, <<"resultType", GStr>>>> @@
                 "PROMETHEUS_QUERY_RESPONSE__MOGENIUS_OPERATOR_SRC_CORE_PROMETHEUSQUERYRESPONSE" :> <<<<"data", GStruct("PROMETHEUS_QUERY_RESPONSE__ANON_STRUCT_2")>>, <<"error", GStr>>, <<"errorType", GStr>>, <<"status", GStr>>>> @@
                 "PROMETHEUS_QUERY_RESPONSE__MOGENIUS_OPERATOR_SRC_CORE_RESULTMOGENIUS_OPERATOR_SRC_CORE_PROMETHEUSREQUEST_MOGENIUS_OPERATOR_SRC_CORE_PROMETHEUSQUERYRESPONSE" :> <<<<"data", GPtr(GStruct("PROMETHEUS_QUERY_RESPONSE__MOGENIUS_OPERATOR_SRC_CORE_PROMETHEUSQUERYRESPONSE"))>>, <<"message", GStr>>, <<"status", GStr>>>>]

\* PROMETHEUS_VALUES_RESPONSE: the Go schema of its doc comment and the alias.
PROMETHEUS_VALUES_RESPONSE ==
    [root    |-> GStruct("PROMETHEUS_VALUES_RESPONSE__MOGENIUS_OPERATOR_SRC_CORE_RESULTMOGENIUS_OPERATOR_SRC_CORE_PROMETHEUSREQUEST_STRING"),
     type    |-> <<"PROMETHEUS_VALUES_RESPONSE__MOGENIUS_OPERATOR_SRC_CORE_RESULTMOGENIUS_OPERATOR_SRC_CORE_PROMETHEUSREQUEST_STRING">>,
     structs |-> "PROMETHEUS_VALUES_RESPONSE__MOGENIUS_OPERATOR_SRC_CORE_RESULTMOGENIUS_OPERATOR_SRC_CORE_PROMETHEUSREQUEST_STRING" :> <<<<"data", GArray(GStr)>>, <<"message", GStr>>, <<"status", GStr>>>>]

\* SEALED_SECRET_CREATE_FROM_EXISTING_RESPONSE: the Go schema of its doc comment and the alias.
SEALED_SECRET_CREATE_FROM_EXISTING_RESPONSE ==
    [root    |-> GStruct("SEALED_SECRET_CREATE_FROM_EXISTING_RESPONSE__MOGENIUS_OPERATOR_SRC_CORE_RESULTMOGENIUS_OPERATOR_SRC_CORE_REQUEST36_K8S_IO_APIMACHINERY_PKG_APIS_META_V1_UNSTRUCTURED_UNSTRUCTURED"),
     type    |-> <<"SEALED_SECRET_CREATE_FROM_EXISTING_RESPONSE__MOGENIUS_OPERATOR_SRC_CORE_RESULTMOGENIUS_OPERATOR_SRC_CORE_REQUEST36_K8S_IO_APIMACHINERY_PKG_APIS_META_V1_UNSTRUCTURED_UNSTRUCTURED">>,
     structs |-> "SEALED_SECRET_CREATE_FROM_EXISTING_RESPONSE__K8S_IO_APIMACHINERY_PKG_APIS_META_V1_UNSTRUCTURED_UNSTRUCTURED" :> <<<<"Object", GMap(GStr, GPtr(GAny))>>>> @@
                 "SEALED_SECRET_CREATE_FROM_EXISTING_RESPONSE__MOGENIUS_OPERATOR_SRC_CORE_RESULTMOGENIUS_OPERATOR_SRC_CORE_REQUEST36_K8S_IO_APIMACHINERY_PKG_APIS_META_V1_UNSTRUCTURED_UNSTRUCTURED" :> <<<<"data", GPtr(GStruct("SEALED_SECRET_CREATE_FROM_EXISTING_RESPONSE__K8S_IO_APIMACHINERY_PKG_APIS_META_V1_UNSTRUCTURED_UNSTRUCTURED"))>>, <<"message", GStr>>, <<"status", GStr>>>>]

\* SEALED_SECRET_GET_CERTIFICATE_RESPONSE: the Go schema of its doc comment and the alias.
SEALED_SECRET_GET_CERTIFICATE_RESPONSE ==
    [root    |-> GStruct("SEALED_SECRET_GET_CERTIFICATE_RESPONSE__MOGENIUS_OPERATOR_SRC_CORE_RESULTMOGENIUS_OPERATOR_SRC_CORE_VOID_K8S_IO_API_CORE_V1_SECRET"),
     type    |-> <<"SEALED_SECRET_GET_CERTIFICATE_RESPONSE__MOGENIUS_OPERATOR_SRC_CORE_RESULTMOGENIUS_OPERATOR_SRC_CORE_VOID_K8S_IO_API_CORE_V1_SECRET">>,
     structs |-> "SEALED_SECRET_GET_CERTIFICATE_RESPONSE__K8S_IO_API_CORE_V1_SECRET" :> <<<<"TypeMeta", GStruct("SEALED_SECRET_GET_CERTIFICATE_RESPONSE__K8S_IO_APIMACHINERY_PKG_APIS_META_V1_TYPEMETA")>>, <<"data", GMap(GStr, GArray(GUint))>>, <<"immutable", GPtr(GBool)>>, <<"metadata", GStruct("SEALED_SECRET_GET_CERTIFICATE_RESPONSE__K8S_IO_APIMACHINERY_PKG_APIS_META_V1_OBJECTMETA")>>, <<"stringData", GMap(GStr, GStr)>>, <<"type", GStr>>>> @@
                 "SEALED_SECRET_GET_CERTIFICATE_RESPONSE__K8S_IO_APIMACHINERY_PKG_APIS_META_V1_FIELDSV1" :> <<>> @@
                 "SEALED_SECRET_GET_CERTIFICATE_RESPONSE__K8S_IO_APIMACHINERY_PKG_APIS_META_V1_MANAGEDFIELDSENTRY" :> <<<<"apiVersion", GStr>>, <<"fieldsType", GStr>>, <<"fieldsV1", GPtr(GStruct("SEALED_SECRET_GET_CERTIFICATE_RESPONSE__K8S_IO_APIMACHINERY_PKG_APIS_META_V1_FIELDSV1"))>>, <<"manager", GStr>>, <<"operation", GStr>>, <<"subresource", GStr>>, <<"time", GPtr(GStruct("SEALED_SECRET_GET_CERTIFICATE_RESPONSE__K8S_IO_APIMACHINERY_PKG_APIS_META_V1_TIME"))>>>> @@
                 "SEALED_SECRET_GET_CERTIFICATE_RESPONSE__K8S_IO_APIMACHINERY_PKG_APIS_META_V1_OBJECTMETA" :> <<<<"annotations", GMap(GStr, GStr)>>, <<"creationTimestamp", GStruct("SEALED_SECRET_GET_CERTIFICATE_RESPONSE__K8S_IO_APIMACHINERY_PKG_APIS_META_V1_TIME")>>, <<"deletionGracePeriodSeconds", GPtr(GInt)>>, <<"deletionTimestamp", GPtr(GStruct("SEALED_SECRET_GET_CERTIFICATE_RESPONSE__K8S_IO_APIMACHINERY_PKG_APIS_META_V1_TIME"))>>, <<"finalizers", GArray(GStr)>>, <<"generateName", GStr>>, <<"generation", GInt>>, <<"labels", GMap(GStr, GStr)>>, <<"managedFields", GArray(GStruct("SEALED_SECRET_GET_CERTIFICATE_RESPONSE__K8S_IO_APIMACHINERY_PKG_APIS_META_V1_MANAGEDFIELDSENTRY"))>>, <<"name", GStr>>, <<"namespace", GStr>>, <<"ownerReferences", GArray(GStruct("SEALED_SECRET_GET_CERTIFICATE_RESPONSE__K8S_IO_APIMACHINERY_PKG_APIS_META_V1_OWNERREFERENCE"))>>, <<"resourceVersion", GStr>>, <<"selfLink", GStr>>, <<"uid", GStr>>>> @@
                 "SEALED_SECRET_GET_CERTIFICATE_RESPONSE__K8S_IO_APIMACHINERY_PKG_APIS_META_V1_OWNERREFERENCE" :> <<<<"apiVersion", GStr>>, <<"blockOwnerDeletion", GPtr(GBool)>>, <<"controller", GPtr(GBool)>>, <<"kind", GStr>>, <<"name", GStr>>, <<"uid", GStr>>>> @@
                 "SEALED_SECRET_GET_CERTIFICATE_RESPONSE__K8S_IO_APIMACHINERY_PKG_APIS_META_V1_TIME" :> <<<<"Time", GStruct("SEALED_SECRET_GET_CERTIFICATE_RESPONSE__TIME_TIME")>>>> @@
                 "SEALED_SECRET_GET_CERTIFICATE_RESPONSE__K8S_IO_APIMACHINERY_PKG_APIS_META_V1_TYPEMETA" :> <<<<"apiVersion", GStr>>, <<"kind", GStr>>>> @@
                 "SEALED_SECRET_GET_CERTIFICATE_RESPONSE__MOGENIUS_OPERATOR_SRC_CORE_RESULTMOGENIUS_OPERATOR_SRC_CORE_VOID_K8S_IO_API_CORE_V1_SECRET" :> <<<<"data", GPtr(GStruct("SEALED_SECRET_GET_CERTIFICATE_RESPONSE__K8S_IO_API_CORE_V1_SECRET"))>>, <<"message", GStr>>, <<"status", GStr>>>> @@
                 "SEALED_SECRET_GET_CERTIFICATE_RESPONSE__TIME_TIME" :> <<>>]

\* SERVICE_EXEC_SH_CONNECTION_REQUEST_RESPONSE: the Go schema of its doc comment and the alias.
SERVICE_EXEC_SH_CONNECTION_REQUEST_RESPONSE ==
    [root    |-> GStruct("SERVICE_EXEC_SH_CONNECTION_REQUEST_RESPONSE__MOGENIUS_OPERATOR_SRC_CORE_RESULTMOGENIUS_OPERATOR_SRC_XTERM_PODCMDCONNECTIONREQUEST_MOGENIUS_OPERATOR_SRC_CORE_VOID"),
     type    |-> <<"SERVICE_EXEC_SH_CONNECTION_REQUEST_RESPONSE__MOGENIUS_OPERATOR_SRC_CORE_RESULTMOGENIUS_OPERATOR_SRC_XTERM_PODCMDCONNECTIONREQUEST_MOGENIUS_OPERATOR_SRC_CORE_VOID">>,
     structs |-> "SERVICE_EXEC_SH_CONNECTION_REQUEST_RESPONSE__ANON_STRUCT_1" :> <<>> @@
                 "SERVICE_EXEC_SH_CONNECTION_REQUEST_RESPONSE__MOGENIUS_OPERATOR_SRC_CORE_RESULTMOGENIUS_OPERATOR_SRC_XTERM_PODCMDCONNECTIONREQUEST_MOGENIUS_OPERATOR_SRC_CORE_VOID" :> <<<<"data", GPtr(GStruct("SERVICE_EXEC_SH_CONNECTION_REQUEST_RESPONSE__ANON_STRUCT_1"))>>, <<"message", GStr>>, <<"status", GStr>>>>]

\* SERVICE_LOG_STREAM_CONNECTION_REQUEST_RESPONSE: the Go schema of its doc comment and the alias.
SERVICE_LOG_STREAM_CONNECTION_REQUEST_RESPONSE ==
    [root    |-> GStruct("SERVICE_LOG_STREAM_CONNECTION_REQUEST_RESPONSE__MOGENIUS_OPERATOR_SRC_CORE_RESULTMOGENIUS_OPERATOR_SRC_XTERM_PODCMDCONNECTIONREQUEST_MOGENIUS_OPERATOR_SRC_CORE_VOID"),
     type    |-> <<"SERVICE_LOG_STREAM_CONNECTION_REQUEST_RESPONSE__MOGENIUS_OPERATOR_SRC_CORE_RESULTMOGENIUS_OPERATOR_SRC_XTERM_PODCMDCONNECTIONREQUEST_MOGENIUS_OPERATOR_SRC_CORE_VOID">>,
     structs |-> "SERVICE_LOG_STREAM_CONNECTION_REQUEST_RESPONSE__ANON_STRUCT_1" :> <<>> @@
                 "SERVICE_LOG_STREAM_CONNECTION_REQUEST_RESPONSE__MOGENIUS_OPERATOR_SRC_CORE_RESULTMOGENIUS_OPERATOR_SRC_XTERM_PODCMDCONNECTIONREQUEST_MOGENIUS_OPERATOR_SRC_CORE_VOID" :> <<<<"data", GPtr(GStruct("SERVICE_LOG_STREAM_CONNECTION_REQUEST_RESPONSE__ANON_STRUCT_1"))>>, <<"message", GStr>>, <<"status", GStr>>>>]

\* SERVICE_POD_EVENT_STREAM_CONNECTION_REQUEST_RESPONSE: the Go schema of its doc comment and the alias.
SERVICE_POD_EVENT_STREAM_CONNECTION_REQUEST_RESPONSE ==
    [root    |-> GStruct("SERVICE_POD_EVENT_STREAM_CONNECTION_REQUEST_RESPONSE__MOGENIUS_OPERATOR_SRC_CORE_RESULTMOGENIUS_OPERATOR_SRC_XTERM_PODEVENTCONNECTIONREQUEST_MOGENIUS_OPERATOR_SRC_CORE_VOID"),
     type    |-> <<"SERVICE_POD_EVENT_STREAM_CONNECTION_REQUEST_RESPONSE__MOGENIUS_OPERATOR_SRC_CORE_RESULTMOGENIUS_OPERATOR_SRC_XTERM_PODEVENTCONNECTIONREQUEST_MOGENIUS_OPERATOR_SRC_CORE_VOID">>,
     structs |-> "SERVICE_POD_EVENT_STREAM_CONNECTION_REQUEST_RESPONSE__ANON_STRUCT_1" :> <<>> @@
                 "SERVICE_POD_EVENT_STREAM_CONNECTION_REQUEST_RESPONSE__MOGENIUS_OPERATOR_SRC_CORE_RESULTMOGENIUS_OPERATOR_SRC_XTERM_PODEVENTCONNECTIONREQUEST_MOGENIUS_OPERATOR_SRC_CORE_VOID" :> <<<<"data", GPtr(GStruct("SERVICE_POD_EVENT_STREAM_CONNECTION_REQUEST_RESPONSE__ANON_STRUCT_1"))>>, <<"message", GStr>>, <<"status", GStr>>>>]

\* STATS_POD_ALL_FOR_CONTROLLER_RESPONSE: the Go schema of its doc comment and the alias.
STATS_POD_ALL_FOR_CONTROLLER_RESPONSE ==
    [root    |-> GStruct("STATS_POD_ALL_FOR_CONTROLLER_RESPONSE__MOGENIUS_OPERATOR_SRC_CORE_RESULTMOGENIUS_OPERATOR_SRC_CORE_REQUEST7_MOGENIUS_OPERATOR_SRC_STRUCTS_PODSTATS"),
     type    |-> <<"STATS_POD_ALL_FOR_CONTROLLER_RESPONSE__MOGENIUS_OPERATOR_SRC_CORE_RESULTMOGENIUS_OPERATOR_SRC_CORE_REQUEST7_MOGENIUS_OPERATOR_SRC_STRUCTS_PODSTATS">>,
     structs |-> "STATS_POD_ALL_FOR_CONTROLLER_RESPONSE__MOGENIUS_OPERATOR_SRC_CORE_RESULTMOGENIUS_OPERATOR_SRC_CORE_REQUEST7_MOGENIUS_OPERATOR_SRC_STRUCTS_PODSTATS" :> <<<<"data", GPtr(GArray(GStruct("STATS_POD_ALL_FOR_CONTROLLER_RESPONSE__MOGENIUS_OPERATOR_SRC_STRUCTS_PODSTATS")))>>, <<"message", GStr>>, <<"status", GStr>>>> @@
                 "STATS_POD_ALL_FOR_CONTROLLER_RESPONSE__MOGENIUS_OPERATOR_SRC_STRUCTS_PODSTATS" :> <<<<"containerName", GStr>>, <<"cpu", GInt>>, <<"cpuLimit", GInt>>, <<"createdAt", GStruct("STATS_POD_ALL_FOR_CONTROLLER_RESPONSE__TIME_TIME")>>, <<"ephemeralStorage", GInt>>, <<"ephemeralStorageLimit", GInt>>, <<"memory", GInt>>, <<"memoryLimit", GInt>>, <<"namespace", GStr>>, <<"podName", GStr>>, <<"startTime", GStruct("STATS_POD_ALL_FOR_CONTROLLER_RESPONSE__TIME_TIME")>>>> @@
                 "STATS_POD_ALL_FOR_CONTROLLER_RESPONSE__TIME_TIME" :> <<>>]

\* STATS_TRAFFIC_ALL_FOR_CONTROLLER_RESPONSE: the Go schema of its doc comment and the alias.
STATS_TRAFFIC_ALL_FOR_CONTROLLER_RESPONSE ==
    [root    |-> GStruct("STATS_TRAFFIC_ALL_FOR_CONTROLLER_RESPONSE__MOGENIUS_OPERATOR_SRC_CORE_RESULTMOGENIUS_OPERATOR_SRC_CORE_REQUEST7_MOGENIUS_OPERATOR_SRC_NETWORKMONITOR_PODNETWORKSTATS"),
     type    |-> <<"STATS_TRAFFIC_ALL_FOR_CONTROLLER_RESPONSE__MOGENIUS_OPERATOR_SRC_CORE_RESULTMOGENIUS_OPERATOR_SRC_CORE_REQUEST7_MOGENIUS_OPERATOR_SRC_NETWORKMONITOR_PODNETWORKSTATS">>,
     structs |-> "STATS_TRAFFIC_ALL_FOR_CONTROLLER_RESPONSE__MOGENIUS_OPERATOR_SRC_CORE_RESULTMOGENIUS_OPERATOR_SRC_CORE_REQUEST7_MOGENIUS_OPERATOR_SRC_NETWORKMONITOR_PODNETWORKSTATS" :> <<<<"data", GPtr(GArray(GStruct("STATS_TRAFFIC_ALL_FOR_CONTROLLER_RESPONSE__MOGENIUS_OPERATOR_SRC_NETWORKMONITOR_PODNETWORKSTATS")))>>, <<"message", GStr>>, <<"status", GStr>>>> @@
                 "STATS_TRAFFIC_ALL_FOR_CONTROLLER_RESPONSE__MOGENIUS_OPERATOR_SRC_NETWORKMONITOR_PODNETWORKSTATS" :> <<<<"createdAt", GStruct("STATS_TRAFFIC_ALL_FOR_CONTROLLER_RESPONSE__TIME_TIME")>>, <<"namespace", GStr>>, <<"pod", GStr>>, <<"receivedBytes", GUint>>, <<"receivedPackets", GUint>>, <<"receivedStartBytes", GUint>>, <<"transmitBytes", GUint>>, <<"transmitPackets", GUint>>, <<"transmitStartBytes", GUint>>>> @@
                 "STATS_TRAFFIC_ALL_FOR_CONTROLLER_RESPONSE__TIME_TIME" :> <<>>]

\* STATS_WORKSPACE_CPU_UTILIZATION_RESPONSE: the Go schema of its doc comment and the alias.
STATS_WORKSPACE_CPU_UTILIZATION_RESPONSE ==
    [root    |-> GStruct("STATS_WORKSPACE_CPU_UTILIZATION_RESPONSE__MOGENIUS_OPERATOR_SRC_CORE_RESULTMOGENIUS_OPERATOR_SRC_CORE_REQUEST8_MOGENIUS_OPERATOR_SRC_CORE_GENERICCHARTENTRY"),
     type    |-> <<"STATS_WORKSPACE_CPU_UTILIZATION_RESPONSE__MOGENIUS_OPERATOR_SRC_CORE_RESULTMOGENIUS_OPERATOR_SRC_CORE_REQUEST8_MOGENIUS_OPERATOR_SRC_CORE_GENERICCHARTENTRY">>,
     structs |-> "STATS_WORKSPACE_CPU_UTILIZATION_RESPONSE__MOGENIUS_OPERATOR_SRC_CORE_GENERICCHARTENTRY" :> <<<<"pods", GMap(GStr, GFloat)>>, <<"time", GStruct("STATS_WORKSPACE_CPU_UTILIZATION_RESPONSE__TIME_TIME")>>, <<"value", GFloat>>>> @@
                 "STATS_WORKSPACE_CPU_UTILIZATION_RESPONSE__MOGENIUS_OPERATOR_SRC_CORE_RESULTMOGENIUS_OPERATOR_SRC_CORE_REQUEST8_MOGENIUS_OPERATOR_SRC_CORE_GENERICCHARTENTRY" :> <<<<"data", GArray(GStruct("STATS_WORKSPACE_CPU_UTILIZATION_RESPONSE__MOGENIUS_OPERATOR_SRC_CORE_GENERICCHARTENTRY"))>>, <<"message", GStr>>, <<"status", GStr>>>> @@
                 "STATS_WORKSPACE_CPU_UTILIZATION_RESPONSE__TIME_TIME" :> <<>>]

\* STATS_WORKSPACE_MEMORY_UTILIZATION_RESPONSE: the Go schema of its doc comment and the alias.
STATS_WORKSPACE_MEMORY_UTILIZATION_RESPONSE ==
    [root    |-> GStruct("STATS_WORKSPACE_MEMORY_UTILIZATION_RESPONSE__MOGENIUS_OPERATOR_SRC_CORE_RESULTMOGENIUS_OPERATOR_SRC_CORE_REQUEST8_MOGENIUS_OPERATOR_SRC_CORE_GENERICCHARTENTRY"),
     type    |-> <<"STATS_WORKSPACE_MEMORY_UTILIZATION_RESPONSE__MOGENIUS_OPERATOR_SRC_CORE_RESULTMOGENIUS_OPERATOR_SRC_CORE_REQUEST8_MOGENIUS_OPERATOR_SRC_CORE_GENERICCHARTENTRY">>,
     structs |-> "STATS_WORKSPACE_MEMORY_UTILIZATION_RESPONSE__MOGENIUS_OPERATOR_SRC_CORE_GENERICCHARTENTRY" :> <<<<"pods", GMap(GStr, GFloat)>>, <<"time", GStruct("STATS_WORKSPACE_MEMORY_UTILIZATION_RESPONSE__TIME_TIME")>>, <<"value", GFloat>>>> @@
                 "STATS_WORKSPACE_MEMORY_UTILIZATION_RESPONSE__MOGENIUS_OPERATOR_SRC_CORE_RESULTMOGENIUS_OPERATOR_SRC_CORE_REQUEST8_MOGENIUS_OPERATOR_SRC_CORE_GENERICCHARTENTRY" :> <<<<"data", GArray(GStruct("STATS_WORKSPACE_MEMORY_UTILIZATION_RESPONSE__MOGENIUS_OPERATOR_SRC_CORE_GENERICCHARTENTRY"))>>, <<"message", GStr>>, <<"status", GStr>>>> @@
                 "STATS_WORKSPACE_MEMORY_UTILIZATION_RESPONSE__TIME_TIME" :> <<>>]

\* STATS_WORKSPACE_TRAFFIC_UTILIZATION_RESPONSE: the Go schema of its doc comment and the alias.
STATS_WORKSPACE_TRAFFIC_UTILIZATION_RESPONSE ==
    [root    |-> GStruct("STATS_WORKSPACE_TRAFFIC_UTILIZATION_RESPONSE__MOGENIUS_OPERATOR_SRC_CORE_RESULTMOGENIUS_OPERATOR_SRC_CORE_REQUEST8_MOGENIUS_OPERATOR_SRC_CORE_GENERICCHARTENTRY"),
     type    |-> <<"STATS_WORKSPACE_TRAFFIC_UTILIZATION_RESPONSE__MOGENIUS_OPERATOR_SRC_CORE_RESULTMOGENIUS_OPERATOR_SRC_CORE_REQUEST8_MOGENIUS_OPERATOR_SRC_CORE_GENERICCHARTENTRY">>,
     structs |-> "STATS_WORKSPACE_TRAFFIC_UTILIZATION_RESPONSE__MOGENIUS_OPERATOR_SRC_CORE_GENERICCHARTENTRY" :> <<<<"pods", GMap(GStr, GFloat)>>, <<"time", GStruct("STATS_WORKSPACE_TRAFFIC_UTILIZATION_RESPONSE__TIME_TIME")>>, <<"value", GFloat>>>> @@
                 "STATS_WORKSPACE_TRAFFIC_UTILIZATION_RESPONSE__MOGENIUS_OPERATOR_SRC_CORE_RESULTMOGENIUS_OPERATOR_SRC_CORE_REQUEST8_MOGENIUS_OPERATOR_SRC_CORE_GENERICCHARTENTRY" :> <<<<"data", GArray(GStruct("STATS_WORKSPACE_TRAFFIC_UTILIZATION_RESPONSE__MOGENIUS_OPERATOR_SRC_CORE_GENERICCHARTENTRY"))>>, <<"message", GStr>>, <<"status", GStr>>>> @@
                 "STATS_WORKSPACE_TRAFFIC_UTILIZATION_RESPONSE__TIME_TIME" :> <<>>]

\* STORAGE_CREATE_VOLUME_RESPONSE: the Go schema of its doc comment and the alias.
STORAGE_CREATE_VOLUME_RESPONSE ==
    [root    |-> GStruct("STORAGE_CREATE_VOLUME_RESPONSE__MOGENIUS_OPERATOR_SRC_CORE_RESULTMOGENIUS_OPERATOR_SRC_SERVICES_NFSVOLUMEREQUEST_BOOL"),
     type    |-> <<"STORAGE_CREATE_VOLUME_RESPONSE__MOGENIUS_OPERATOR_SRC_CORE_RESULTMOGENIUS_OPERATOR_SRC_SERVICES_NFSVOLUMEREQUEST_BOOL">>,
     structs |-> "STORAGE_CREATE_VOLUME_RESPONSE__MOGENIUS_OPERATOR_SRC_CORE_RESULTMOGENIUS_OPERATOR_SRC_SERVICES_NFSVOLUMEREQUEST_BOOL" :> <<<<"data", GBool>>, <<"message", GStr>>, <<"status", GStr>>>>]

\* STORAGE_DELETE_VOLUME_RESPONSE: the Go schema of its doc comment and the alias.
STORAGE_DELETE_VOLUME_RESPONSE ==
    [root    |-> GStruct("STORAGE_DELETE_VOLUME_RESPONSE__MOGENIUS_OPERATOR_SRC_CORE_RESULTMOGENIUS_OPERATOR_SRC_SERVICES_NFSVOLUMEREQUEST_BOOL"),
     type    |-> <<"STORAGE_DELETE_VOLUME_RESPONSE__MOGENIUS_OPERATOR_SRC_CORE_RESULTMOGENIUS_OPERATOR_SRC_SERVICES_NFSVOLUMEREQUEST_BOOL">>,
     structs |-> "STORAGE_DELETE_VOLUME_RESPONSE__MOGENIUS_OPERATOR_SRC_CORE_RESULTMOGENIUS_OPERATOR_SRC_SERVICES_NFSVOLUMEREQUEST_BOOL" :> <<<<"data", GBool>>, <<"message", GStr>>, <<"status", GStr>>>>]

\* STORAGE_STATS_RESPONSE: the Go schema of its doc comment and the alias.
STORAGE_STATS_RESPONSE ==
    [root    |-> GStruct("STORAGE_STATS_RESPONSE__MOGENIUS_OPERATOR_SRC_CORE_RESULTMOGENIUS_OPERATOR_SRC_SERVICES_NFSVOLUMESTATSREQUEST_MOGENIUS_OPERATOR_SRC_SERVICES_NFSVOLUMESTATSRESPONSE"),
     type    |-> <<"STORAGE_STATS_RESPONSE__MOGENIUS_OPERATOR_SRC_CORE_RESULTMOGENIUS_OPERATOR_SRC_SERVICES_NFSVOLUMESTATSREQUEST_MOGENIUS_OPERATOR_SRC_SERVICES_NFSVOLUMESTATSRESPONSE">>,
     structs |-> "STORAGE_STATS_RESPONSE__MOGENIUS_OPERATOR_SRC_CORE_RESULTMOGENIUS_OPERATOR_SRC_SERVICES_NFSVOLUMESTATSREQUEST_MOGENIUS_OPERATOR_SRC_SERVICES_NFSVOLUMESTATSRESPONSE" :> <<<<"data", GStruct("STORAGE_STATS_RESPONSE__MOGENIUS_OPERATOR_SRC_SERVICES_NFSVOLUMESTATSRESPONSE")>>, <<"message", GStr>>, <<"status", GStr>>>> @@
                 "STORAGE_STATS_RESPONSE__MOGENIUS_OPERATOR_SRC_SERVICES_NFSVOLUMESTATSRESPONSE" :> <<<<"freeBytes", GUint>>, <<"totalBytes", GUint>>, <<"usedBytes", GUint>>, <<"volumeName", GStr>>>>]

\* STORAGE_STATUS_RESPONSE: the Go schema of its doc comment and the alias.
STORAGE_STATUS_RESPONSE ==
    [root    |-> GStruct("STORAGE_STATUS_RESPONSE__MOGENIUS_OPERATOR_SRC_CORE_RESULTMOGENIUS_OPERATOR_SRC_SERVICES_NFSSTATUSREQUEST_MOGENIUS_OPERATOR_SRC_SERVICES_NFSSTATUSRESPONSE"),
     type    |-> <<"STORAGE_STATUS_RESPONSE__MOGENIUS_OPERATOR_SRC_CORE_RESULTMOGENIUS_OPERATOR_SRC_SERVICES_NFSSTATUSREQUEST_MOGENIUS_OPERATOR_SRC_SERVICES_NFSSTATUSRESPONSE">>,
     structs |-> "STORAGE_STATUS_RESPONSE__MOGENIUS_OPERATOR_SRC_CORE_RESULTMOGENIUS_OPERATOR_SRC_SERVICES_NFSSTATUSREQUEST_MOGENIUS_OPERATOR_SRC_SERVICES_NFSSTATUSRESPONSE" :> <<<<"data", GStruct("STORAGE_STATUS_RESPONSE__MOGENIUS_OPERATOR_SRC_SERVICES_NFSSTATUSRESPONSE")>>, <<"message", GStr>>, <<"status", GStr>>>> @@
                 "STORAGE_STATUS_RESPONSE__MOGENIUS_OPERATOR_SRC_SERVICES_NFSSTATUSRESPONSE" :> <<<<"freeBytes", GUint>>, <<"messages", GArray(GStruct("STORAGE_STATUS_RESPONSE__MOGENIUS_OPERATOR_SRC_SERVICES_VOLUMESTATUSMESSAGE"))>>, <<"namespaceName", GStr>>, <<"status", GStr>>, <<"totalBytes", GUint>>, <<"usedByPods", GArray(GStr)>>, <<"usedBytes", GUint>>, <<"volumeName", GStr>>>> @@
                 "STORAGE_STATUS_RESPONSE__MOGENIUS_OPERATOR_SRC_SERVICES_VOLUMESTATUSMESSAGE" :> <<<<"message", GStr>>, <<"type", GStr>>>>]

\* SYSTEM_CHECK_RESPONSE: the Go schema of its doc comment and the alias.
SYSTEM_CHECK_RESPONSE ==
    [root    |-> GStruct("SYSTEM_CHECK_RESPONSE__MOGENIUS_OPERATOR_SRC_CORE_RESULTMOGENIUS_OPERATOR_SRC_CORE_VOID_MOGENIUS_OPERATOR_SRC_SERVICES_SYSTEMCHECKRESPONSE"),
     type    |-> <<"SYSTEM_CHECK_RESPONSE__MOGENIUS_OPERATOR_SRC_CORE_RESULTMOGENIUS_OPERATOR_SRC_CORE_VOID_MOGENIUS_OPERATOR_SRC_SERVICES_SYSTEMCHECKRESPONSE">>,
     structs |-> "SYSTEM_CHECK_RESPONSE__MOGENIUS_OPERATOR_SRC_CORE_RESULTMOGENIUS_OPERATOR_SRC_CORE_VOID_MOGENIUS_OPERATOR_SRC_SERVICES_SYSTEMCHECKRESPONSE" :> <<<<"data", GStruct("SYSTEM_CHECK_RESPONSE__MOGENIUS_OPERATOR_SRC_SERVICES_SYSTEMCHECKRESPONSE")>>, <<"message", GStr>>, <<"status", GStr>>>> @@
                 "SYSTEM_CHECK_RESPONSE__MOGENIUS_OPERATOR_SRC_SERVICES_SYSTEMCHECKENTRY" :> <<<<"checkName", GStr>>, <<"description", GStr>>, <<"errorMessage", GPtr(GStr)>>, <<"helmStatus", GStr>>, <<"installPattern", GStr>>, <<"isRequired", GBool>>, <<"isRunning", GBool>>, <<"processTimeInMs", GInt>>, <<"solutionMessage", GStr>>, <<"successMessage", GStr>>, <<"uninstallPattern", GStr>>, <<"upgradePattern", GStr>>, <<"versionAvailable", GStr>>, <<"versionInstalled", GStr>>, <<"wantsToBeInstalled", GBool>>>> @@
                 "SYSTEM_CHECK_RESPONSE__MOGENIUS_OPERATOR_SRC_SERVICES_SYSTEMCHECKRESPONSE" :> <<<<"entries", GArray(GStruct("SYSTEM_CHECK_RESPONSE__MOGENIUS_OPERATOR_SRC_SERVICES_SYSTEMCHECKENTRY"))>>, <<"terminalString", GStr>>>>]

\* TRIGGER_WORKLOAD_RESPONSE: the Go schema of its doc comment and the alias.
TRIGGER_WORKLOAD_RESPONSE ==
    [root    |-> GStruct("TRIGGER_WORKLOAD_RESPONSE__MOGENIUS_OPERATOR_SRC_CORE_RESULTMOGENIUS_OPERATOR_SRC_UTILS_WORKLOADSINGLEREQUEST_K8S_IO_APIMACHINERY_PKG_APIS_META_V1_UNSTRUCTURED_UNSTRUCTURED"),
     type    |-> <<"TRIGGER_WORKLOAD_RESPONSE__MOGENIUS_OPERATOR_SRC_CORE_RESULTMOGENIUS_OPERATOR_SRC_UTILS_WORKLOADSINGLEREQUEST_K8S_IO_APIMACHINERY_PKG_APIS_META_V1_UNSTRUCTURED_UNSTRUCTURED">>,
     structs |-> "TRIGGER_WORKLOAD_RESPONSE__K8S_IO_APIMACHINERY_PKG_APIS_META_V1_UNSTRUCTURED_UNSTRUCTURED" :> <<<<"Object", GMap(GStr, GPtr(GAny))>>>> @@
                 "TRIGGER_WORKLOAD_RESPONSE__MOGENIUS_OPERATOR_SRC_CORE_RESULTMOGENIUS_OPERATOR_SRC_UTILS_WORKLOADSINGLEREQUEST_K8S_IO_APIMACHINERY_PKG_APIS_META_V1_UNSTRUCTURED_UNSTRUCTURED" :> <<<<"data", GPtr(GStruct("TRIGGER_WORKLOAD_RESPONSE__K8S_IO_APIMACHINERY_PKG_APIS_META_V1_UNSTRUCTURED_UNSTRUCTURED"))>>, <<"message", GStr>>, <<"status", GStr>>>>]

\* UNINSTALL_CERT_MANAGER_RESPONSE: the Go schema of its doc comment and the alias.
UNINSTALL_CERT_MANAGER_RESPONSE ==
    [root    |-> GStruct("UNINSTALL_CERT_MANAGER_RESPONSE__MOGENIUS_OPERATOR_SRC_CORE_RESULTMOGENIUS_OPERATOR_SRC_CORE_VOID_STRING"),
     type    |-> <<"UNINSTALL_CERT_MANAGER_RESPONSE__MOGENIUS_OPERATOR_SRC_CORE_RESULTMOGENIUS_OPERATOR_SRC_CORE_VOID_STRING">>,
     structs |-> "UNINSTALL_CERT_MANAGER_RESPONSE__MOGENIUS_OPERATOR_SRC_CORE_RESULTMOGENIUS_OPERATOR_SRC_CORE_VOID_STRING" :> <<<<"data", GStr>>, <<"message", GStr>>, <<"status", GStr>>>>]

\* UNINSTALL_CLUSTER_ISSUER_RESPONSE: the Go schema of its doc comment and the alias.
UNINSTALL_CLUSTER_ISSUER_RESPONSE ==
    [root    |-> GStruct("UNINSTALL_CLUSTER_ISSUER_RESPONSE__MOGENIUS_OPERATOR_SRC_CORE_RESULTMOGENIUS_OPERATOR_SRC_CORE_VOID_STRING"),
     type    |-> <<"UNINSTALL_CLUSTER_ISSUER_RESPONSE__MOGENIUS_OPERATOR_SRC_CORE_RESULTMOGENIUS_OPERATOR_SRC_CORE_VOID_STRING">>,
     structs |-> "UNINSTALL_CLUSTER_ISSUER_RESPONSE__MOGENIUS_OPERATOR_SRC_CORE_RESULTMOGENIUS_OPERATOR_SRC_CORE_VOID_STRING" :> <<<<"data", GStr>>, <<"message", GStr>>, <<"status", GStr>>>>]

\* UNINSTALL_INGRESS_CONTROLLER_TRAEFIK_RESPONSE: the Go schema of its doc comment and the alias.
UNINSTALL_INGRESS_CONTROLLER_TRAEFIK_RESPONSE ==
    [root    |-> GStruct("UNINSTALL_INGRESS_CONTROLLER_TRAEFIK_RESPONSE__MOGENIUS_OPERATOR_SRC_CORE_RESULTMOGENIUS_OPERATOR_SRC_CORE_VOID_STRING"),
     type    |-> <<"UNINSTALL_INGRESS_CONTROLLER_TRAEFIK_RESPONSE__MOGENIUS_OPERATOR_SRC_CORE_RESULTMOGENIUS_OPERATOR_SRC_CORE_VOID_STRING">>,
     structs |-> "UNINSTALL_INGRESS_CONTROLLER_TRAEFIK_RESPONSE__MOGENIUS_OPERATOR_SRC_CORE_RESULTMOGENIUS_OPERATOR_SRC_CORE_VOID_STRING" :> <<<<"data", GStr>>, <<"message", GStr>>, <<"status", GStr>>>>]

\* UNINSTALL_KEPLER_RESPONSE: the Go schema of its doc comment and the alias.
UNINSTALL_KEPLER_RESPONSE ==
    [root    |-> GStruct("UNINSTALL_KEPLER_RESPONSE__MOGENIUS_OPERATOR_SRC_CORE_RESULTMOGENIUS_OPERATOR_SRC_CORE_VOID_STRING"),
     type    |-> <<"UNINSTALL_KEPLER_RESPONSE__MOGENIUS_OPERATOR_SRC_CORE_RESULTMOGENIUS_OPERATOR_SRC_CORE_VOID_STRING">>,
     structs |-> "UNINSTALL_KEPLER_RESPONSE__MOGENIUS_OPERATOR_SRC_CORE_RESULTMOGENIUS_OPERATOR_SRC_CORE_VOID_STRING" :> <<<<"data", GStr>>, <<"message", GStr>>, <<"status", GStr>>>>]

\* UNINSTALL_METALLB_RESPONSE: the Go schema of its doc comment and the alias.
UNINSTALL_METALLB_RESPONSE ==
    [root    |-> GStruct("UNINSTALL_METALLB_RESPONSE__MOGENIUS_OPERATOR_SRC_CORE_RESULTMOGENIUS_OPERATOR_SRC_CORE_VOID_STRING"),
     type    |-> <<"UNINSTALL_METALLB_RESPONSE__MOGENIUS_OPERATOR_SRC_CORE_RESULTMOGENIUS_OPERATOR_SRC_CORE_VOID_STRING">>,
     structs |-> "UNINSTALL_METALLB_RESPONSE__MOGENIUS_OPERATOR_SRC_CORE_RESULTMOGENIUS_OPERATOR_SRC_CORE_VOID_STRING" :> <<<<"data", GStr>>, <<"message", GStr>>, <<"status", GStr>>>>]

\* UNINSTALL_METRICS_SERVER_RESPONSE: the Go schema of its doc comment and the alias.
UNINSTALL_METRICS_SERVER_RESPONSE ==
    [root    |-> GStruct("UNINSTALL_METRICS_SERVER_RESPONSE__MOGENIUS_OPERATOR_SRC_CORE_RESULTMOGENIUS_OPERATOR_SRC_CORE_VOID_STRING"),
     type    |-> <<"UNINSTALL_METRICS_SERVER_RESPONSE__MOGENIUS_OPERATOR_SRC_CORE_RESULTMOGENIUS_OPERATOR_SRC_CORE_VOID_STRING">>,
     structs |-> "UNINSTALL_METRICS_SERVER_RESPONSE__MOGENIUS_OPERATOR_SRC_CORE_RESULTMOGENIUS_OPERATOR_SRC_CORE_VOID_STRING" :> <<<<"data", GStr>>, <<"message", GStr>>, <<"status", GStr>>>>]

\* UPDATE_GRANT_RESPONSE: the Go schema of its doc comment and the alias.
UPDATE_GRANT_RESPONSE ==
    [root    |-> GStruct("UPDATE_GRANT_RESPONSE__MOGENIUS_OPERATOR_SRC_CORE_RESULTMOGENIUS_OPERATOR_SRC_CORE_REQUEST31_STRING"),
     type    |-> <<"UPDATE_GRANT_RESPONSE__MOGENIUS_OPERATOR_SRC_CORE_RESULTMOGENIUS_OPERATOR_SRC_CORE_REQUEST31_STRING">>,
     structs |-> "UPDATE_GRANT_RESPONSE__MOGENIUS_OPERATOR_SRC_CORE_RESULTMOGENIUS_OPERATOR_SRC_CORE_REQUEST31_STRING" :> <<<<"data", GStr>>, <<"message", GStr>>, <<"status", GStr>>>>]

\* UPDATE_USER_RESPONSE: the Go schema of its doc comment and the alias.
UPDATE_USER_RESPONSE ==
    [root    |-> GStruct("UPDATE_USER_RESPONSE__MOGENIUS_OPERATOR_SRC_CORE_RESULTMOGENIUS_OPERATOR_SRC_CORE_REQUEST26_STRING"),
     type    |-> <<"UPDATE_USER_RESPONSE__MOGENIUS_OPERATOR_SRC_CORE_RESULTMOGENIUS_OPERATOR_SRC_CORE_REQUEST26_STRING">>,
     structs |-> "UPDATE_USER_RESPONSE__MOGENIUS_OPERATOR_SRC_CORE_RESULTMOGENIUS_OPERATOR_SRC_CORE_REQUEST26_STRING" :> <<<<"data", GStr>>, <<"message", GStr>>, <<"status", GStr>>>>]

\* UPDATE_WORKLOAD_RESPONSE: the Go schema of its doc comment and the alias.
UPDATE_WORKLOAD_RESPONSE ==
    [root    |-> GStruct("UPDATE_WORKLOAD_RESPONSE__MOGENIUS_OPERATOR_SRC_CORE_RESULTMOGENIUS_OPERATOR_SRC_UTILS_WORKLOADCHANGEREQUEST_K8S_IO_APIMACHINERY_PKG_APIS_META_V1_UNSTRUCTURED_UNSTRUCTURED"),
     type    |-> <<"UPDATE_WORKLOAD_RESPONSE__MOGENIUS_OPERATOR_SRC_CORE_RESULTMOGENIUS_OPERATOR_SRC_UTILS_WORKLOADCHANGEREQUEST_K8S_IO_APIMACHINERY_PKG_APIS_META_V1_UNSTRUCTURED_UNSTRUCTURED">>,
     structs |-> "UPDATE_WORKLOAD_RESPONSE__K8S_IO_APIMACHINERY_PKG_APIS_META_V1_UNSTRUCTURED_UNSTRUCTURED" :> <<<<"Object", GMap(GStr, GPtr(GAny))>>>> @@
                 "UPDATE_WORKLOAD_RESPONSE__MOGENIUS_OPERATOR_SRC_CORE_RESULTMOGENIUS_OPERATOR_SRC_UTILS_WORKLOADCHANGEREQUEST_K8S_IO_APIMACHINERY_PKG_APIS_META_V1_UNSTRUCTURED_UNSTRUCTURED" :> <<<<"data", GPtr(GStruct("UPDATE_WORKLOAD_RESPONSE__K8S_IO_APIMACHINERY_PKG_APIS_META_V1_UNSTRUCTURED_UNSTRUCTURED"))>>, <<"message", GStr>>, <<"status", GStr>>>>]

\* UPDATE_WORKSPACE_RESPONSE: the Go schema of its doc comment and the alias.
UPDATE_WORKSPACE_RESPONSE ==
    [root    |-> GStruct("UPDATE_WORKSPACE_RESPONSE__MOGENIUS_OPERATOR_SRC_CORE_RESULTMOGENIUS_OPERATOR_SRC_CORE_REQUEST21_STRING"),
     type    |-> <<"UPDATE_WORKSPACE_RESPONSE__MOGENIUS_OPERATOR_SRC_CORE_RESULTMOGENIUS_OPERATOR_SRC_CORE_REQUEST21_STRING">>,
     structs |-> "UPDATE_WORKSPACE_RESPONSE__MOGENIUS_OPERATOR_SRC_CORE_RESULTMOGENIUS_OPERATOR_SRC_CORE_REQUEST21_STRING" :> <<<<"data", GStr>>, <<"message", GStr>>, <<"status", GStr>>>>]

\* UPGRADEK8SMANAGER_RESPONSE: the Go schema of its doc comment and the alias.
UPGRADEK8SMANAGER_RESPONSE ==
    [root    |-> GStruct("UPGRADEK8SMANAGER_RESPONSE__MOGENIUS_OPERATOR_SRC_CORE_RESULTMOGENIUS_OPERATOR_SRC_CORE_REQUEST4_MOGENIUS_OPERATOR_SRC_STRUCTS_JOB"),
     type    |-> <<"UPGRADEK8SMANAGER_RESPONSE__MOGENIUS_OPERATOR_SRC_CORE_RESULTMOGENIUS_OPERATOR_SRC_CORE_REQUEST4_MOGENIUS_OPERATOR_SRC_STRUCTS_JOB">>,
     structs |-> "UPGRADEK8SMANAGER_RESPONSE__MOGENIUS_OPERATOR_SRC_CORE_RESULTMOGENIUS_OPERATOR_SRC_CORE_REQUEST4_MOGENIUS_OPERATOR_SRC_STRUCTS_JOB" :> <<<<"data", GPtr(GStruct("UPGRADEK8SMANAGER_RESPONSE__MOGENIUS_OPERATOR_SRC_STRUCTS_JOB"))>>, <<"message", GStr>>, <<"status", GStr>>>> @@
                 "UPGRADEK8SMANAGER_RESPONSE__MOGENIUS_OPERATOR_SRC_STRUCTS_COMMAND" :> <<<<"command", GStr>>, <<"finished", GStruct("UPGRADEK8SMANAGER_RESPONSE__TIME_TIME")>>, <<"id", GStr>>, <<"message", GStr>>, <<"started", GStruct("UPGRADEK8SMANAGER_RESPONSE__TIME_TIME")>>, <<"state", GStr>>, <<"title", GStr>>>> @@
                 "UPGRADEK8SMANAGER_RESPONSE__MOGENIUS_OPERATOR_SRC_STRUCTS_JOB" :> <<<<"commands", GArray(GPtr(GStruct("UPGRADEK8SMANAGER_RESPONSE__MOGENIUS_OPERATOR_SRC_STRUCTS_COMMAND")))>>, <<"containerName", GStr>>, <<"controllerName", GStr>>, <<"finished", GStruct("UPGRADEK8SMANAGER_RESPONSE__TIME_TIME")>>, <<"id", GStr>>, <<"message", GStr>>, <<"namespaceName", GStr>>, <<"projectId", GStr>>, <<"started", GStruct("UPGRADEK8SMANAGER_RESPONSE__TIME_TIME")>>, <<"state", GStr>>, <<"title", GStr>>>> @@
                 "UPGRADEK8SMANAGER_RESPONSE__TIME_TIME" :> <<>>]

\* UPGRADE_CERT_MANAGER_RESPONSE: the Go schema of its doc comment and the alias.
UPGRADE_CERT_MANAGER_RESPONSE ==
    [root    |-> GStruct("UPGRADE_CERT_MANAGER_RESPONSE__MOGENIUS_OPERATOR_SRC_CORE_RESULTMOGENIUS_OPERATOR_SRC_CORE_VOID_STRING"),
     type    |-> <<"UPGRADE_CERT_MANAGER_RESPONSE__MOGENIUS_OPERATOR_SRC_CORE_RESULTMOGENIUS_OPERATOR_SRC_CORE_VOID_STRING">>,
     structs |-> "UPGRADE_CERT_MANAGER_RESPONSE__MOGENIUS_OPERATOR_SRC_CORE_RESULTMOGENIUS_OPERATOR_SRC_CORE_VOID_STRING" :> <<<<"data", GStr>>, <<"message", GStr>>, <<"status", GStr>>>>]

\* UPGRADE_INGRESS_CONTROLLER_TRAEFIK_RESPONSE: the Go schema of its doc comment and the alias.
UPGRADE_INGRESS_CONTROLLER_TRAEFIK_RESPONSE ==
    [root    |-> GStruct("UPGRADE_INGRESS_CONTROLLER_TRAEFIK_RESPONSE__MOGENIUS_OPERATOR_SRC_CORE_RESULTMOGENIUS_OPERATOR_SRC_CORE_VOID_STRING"),
     type    |-> <<"UPGRADE_INGRESS_CONTROLLER_TRAEFIK_RESPONSE__MOGENIUS_OPERATOR_SRC_CORE_RESULTMOGENIUS_OPERATOR_SRC_CORE_VOID_STRING">>,
     structs |-> "UPGRADE_INGRESS_CONTROLLER_TRAEFIK_RESPONSE__MOGENIUS_OPERATOR_SRC_CORE_RESULTMOGENIUS_OPERATOR_SRC_CORE_VOID_STRING" :> <<<<"data", GStr>>, <<"message", GStr>>, <<"status", GStr>>>>]

\* UPGRADE_KEPLER_RESPONSE: the Go schema of its doc comment and the alias.
UPGRADE_KEPLER_RESPONSE ==
    [root    |-> GStruct("UPGRADE_KEPLER_RESPONSE__MOGENIUS_OPERATOR_SRC_CORE_RESULTMOGENIUS_OPERATOR_SRC_CORE_VOID_STRING"),
     type    |-> <<"UPGRADE_KEPLER_RESPONSE__MOGENIUS_OPERATOR_SRC_CORE_RESULTMOGENIUS_OPERATOR_SRC_CORE_VOID_STRING">>,
     structs |-> "UPGRADE_KEPLER_RESPONSE__MOGENIUS_OPERATOR_SRC_CORE_RESULTMOGENIUS_OPERATOR_SRC_CORE_VOID_STRING" :> <<<<"data", GStr>>, <<"message", GStr>>, <<"status", GStr>>>>]

\* UPGRADE_METALLB_RESPONSE: the Go schema of its doc comment and the alias.
UPGRADE_METALLB_RESPONSE ==
    [root    |-> GStruct("UPGRADE_METALLB_RESPONSE__MOGENIUS_OPERATOR_SRC_CORE_RESULTMOGENIUS_OPERATOR_SRC_CORE_VOID_STRING"),
     type    |-> <<"UPGRADE_METALLB_RESPONSE__MOGENIUS_OPERATOR_SRC_CORE_RESULTMOGENIUS_OPERATOR_SRC_CORE_VOID_STRING">>,
     structs |-> "UPGRADE_METALLB_RESPONSE__MOGENIUS_OPERATOR_SRC_CORE_RESULTMOGENIUS_OPERATOR_SRC_CORE_VOID_STRING" :> <<<<"data", GStr>>, <<"message", GStr>>, <<"status", GStr>>>>]

\* UPGRADE_METRICS_SERVER_RESPONSE: the Go schema of its doc comment and the alias.
UPGRADE_METRICS_SERVER_RESPONSE ==
    [root    |-> GStruct("UPGRADE_METRICS_SERVER_RESPONSE__MOGENIUS_OPERATOR_SRC_CORE_RESULTMOGENIUS_OPERATOR_SRC_CORE_VOID_STRING"),
     type    |-> <<"UPGRADE_METRICS_SERVER_RESPONSE__MOGENIUS_OPERATOR_SRC_CORE_RESULTMOGENIUS_OPERATOR_SRC_CORE_VOID_STRING">>,
     structs |-> "UPGRADE_METRICS_SERVER_RESPONSE__MOGENIUS_OPERATOR_SRC_CORE_RESULTMOGENIUS_OPERATOR_SRC_CORE_VOID_STRING" :> <<<<"data", GStr>>, <<"message", GStr>>, <<"status", GStr>>>>]

\* WORKSPACE_CLEAN_UP_RESPONSE: the Go schema of its doc comment and the alias.
WORKSPACE_CLEAN_UP_RESPONSE ==
    [root    |-> GStruct("WORKSPACE_CLEAN_UP_RESPONSE__MOGENIUS_OPERATOR_SRC_CORE_RESULTMOGENIUS_OPERATOR_SRC_CORE_REQUEST20_MOGENIUS_OPERATOR_SRC_CORE_CLEANUPRESULT"),
     type    |-> <<"WORKSPACE_CLEAN_UP_RESPONSE__MOGENIUS_OPERATOR_SRC_CORE_RESULTMOGENIUS_OPERATOR_SRC_CORE_REQUEST20_MOGENIUS_OPERATOR_SRC_CORE_CLEANUPRESULT">>,
     structs |-> "WORKSPACE_CLEAN_UP_RESPONSE__MOGENIUS_OPERATOR_SRC_CORE_CLEANUPRESULT" :> <<<<"configMaps", GArray(GStruct("WORKSPACE_CLEAN_UP_RESPONSE__MOGENIUS_OPERATOR_SRC_CORE_CLEANUPRESULTENTRY"))>>, <<"ingresses", GArray(GStruct("WORKSPACE_CLEAN_UP_RESPONSE__MOGENIUS_OPERATOR_SRC_CORE_CLEANUPRESULTENTRY"))>>, <<"jobs", GArray(GStruct("WORKSPACE_CLEAN_UP_RESPONSE__MOGENIUS_OPERATOR_SRC_CORE_CLEANUPRESULTENTRY"))>>, <<"pods", GArray(GStruct("WORKSPACE_CLEAN_UP_RESPONSE__MOGENIUS_OPERATOR_SRC_CORE_CLEANUPRESULTENTRY"))>>, <<"replicaSets", GArray(GStruct("WORKSPACE_CLEAN_UP_RESPONSE__MOGENIUS_OPERATOR_SRC_CORE_CLEANUPRESULTENTRY"))>>, <<"secrets", GArray(GStruct("WORKSPACE_CLEAN_UP_RESPONSE__MOGENIUS_OPERATOR_SRC_CORE_CLEANUPRESULTENTRY"))>>, <<"services", GArray(GStruct("WORKSPACE_CLEAN_UP_RESPONSE__MOGENIUS_OPERATOR_SRC_CORE_CLEANUPRESULTENTRY"))>>>> @@
                 "WORKSPACE_CLEAN_UP_RESPONSE__MOGENIUS_OPERATOR_SRC_CORE_CLEANUPRESULTENTRY" :> <<<<"name", GStr>>, <<"namespace", GStr>>, <<"reason", GStr>>>> @@
                 "WORKSPACE_CLEAN_UP_RESPONSE__MOGENIUS_OPERATOR_SRC_CORE_RESULTMOGENIUS_OPERATOR_SRC_CORE_REQUEST20_MOGENIUS_OPERATOR_SRC_CORE_CLEANUPRESULT" :> <<<<"data", GStruct("WORKSPACE_CLEAN_UP_RESPONSE__MOGENIUS_OPERATOR_SRC_CORE_CLEANUPRESULT")>>, <<"message", GStr>>, <<"status", GStr>>>>]

=============================================================================
