------------------------ MODULE ClientRequestAliases ------------------------
(***************************************************************************)
(* The Request aliases of src/generated/client.ts (lines 372-8857), in     *)
(* source order: for each, the Go schema of its doc comment (typeInfo as   *)
(* root, the structs by the name of the type generated for them) and the   *)
(* tokens of the type the alias is declared as.                            *)
(***************************************************************************)
EXTENDS ShapeTypes, TLC

\* AUDIT_LOG_LIST_REQUEST: the Go schema of its doc comment and the alias.
AUDIT_LOG_LIST_REQUEST ==
    [root    |-> GStruct("AUDIT_LOG_LIST_REQUEST__MOGENIUS_OPERATOR_SRC_CORE_REQUEST"),
     type    |-> <<"AUDIT_LOG_LIST_REQUEST__MOGENIUS_OPERATOR_SRC_CORE_REQUEST">>,
     structs |-> "AUDIT_LOG_LIST_REQUEST__MOGENIUS_OPERATOR_SRC_CORE_REQUEST" :> <<<<"limit", GInt>>, <<"offset", GInt>>, <<"workspaceName", GStr>>>>]

\* CLUSTER_ARGO_CD_APPLICATION_REFRESH_REQUEST: the Go schema of its doc comment and the alias.
CLUSTER_ARGO_CD_APPLICATION_REFRESH_REQUEST ==
    [root    |-> GStruct("CLUSTER_ARGO_CD_APPLICATION_REFRESH_REQUEST__MOGENIUS_OPERATOR_SRC_ARGOCD_ARGOCDAPPLICATIONREFRESHREQUEST"),
     type    |-> <<"CLUSTER_ARGO_CD_APPLICATION_REFRESH_REQUEST__MOGENIUS_OPERATOR_SRC_ARGOCD_ARGOCDAPPLICATIONREFRESHREQUEST">>,
     structs |-> "CLUSTER_ARGO_CD_APPLICATION_REFRESH_REQUEST__MOGENIUS_OPERATOR_SRC_ARGOCD_ARGOCDAPPLICATIONREFRESHREQUEST" :> <<<<"applicationName", GStr>>, <<"username", GStr>>>>]

\* CLUSTER_ARGO_CD_CREATE_API_TOKEN_REQUEST: the Go schema of its doc comment and the alias.
CLUSTER_ARGO_CD_CREATE_API_TOKEN_REQUEST ==
    [root    |-> GStruct("CLUSTER_ARGO_CD_CREATE_API_TOKEN_REQUEST__MOGENIUS_OPERATOR_SRC_ARGOCD_ARGOCDCREATEAPITOKENREQUEST"),
     type    |-> <<"CLUSTER_ARGO_CD_CREATE_API_TOKEN_REQUEST__MOGENIUS_OPERATOR_SRC_ARGOCD_ARGOCDCREATEAPITOKENREQUEST">>,
     structs |-> "CLUSTER_ARGO_CD_CREATE_API_TOKEN_REQUEST__MOGENIUS_OPERATOR_SRC_ARGOCD_ARGOCDCREATEAPITOKENREQUEST" :> <<<<"username", GStr>>>>]

\* CLUSTER_CLEAR_VALKEY_CACHE_REQUEST: the Go schema of its doc comment and the alias.
CLUSTER_CLEAR_VALKEY_CACHE_REQUEST ==
    [root    |-> GStruct("CLUSTER_CLEAR_VALKEY_CACHE_REQUEST__MOGENIUS_OPERATOR_SRC_CORE_REQUEST"),
     type    |-> <<"CLUSTER_CLEAR_VALKEY_CACHE_REQUEST__MOGENIUS_OPERATOR_SRC_CORE_REQUEST">>,
     structs |-> "CLUSTER_CLEAR_VALKEY_CACHE_REQUEST__MOGENIUS_OPERATOR_SRC_CORE_REQUEST" :> <<<<"includeNodeStats", GBool>>, <<"includePodStats", GBool>>, <<"includeTraffic", GBool>>>>]

\* CLUSTER_COMPONENT_LOG_STREAM_CONNECTION_REQUEST_REQUEST: the Go schema of its doc comment and the alias.
CLUSTER_COMPONENT_LOG_STREAM_CONNECTION_REQUEST_REQUEST ==
    [root    |-> GStruct("CLUSTER_COMPONENT_LOG_STREAM_CONNECTION_REQUEST_REQUEST__MOGENIUS_OPERATOR_SRC_XTERM_COMPONENTLOGCONNECTIONREQUEST"),
     type    |-> <<"CLUSTER_COMPONENT_LOG_STREAM_CONNECTION_REQUEST_REQUEST__MOGENIUS_OPERATOR_SRC_XTERM_COMPONENTLOGCONNECTIONREQUEST">>,
     structs |-> "CLUSTER_COMPONENT_LOG_STREAM_CONNECTION_REQUEST_REQUEST__MOGENIUS_OPERATOR_SRC_XTERM_COMPONENTLOGCONNECTIONREQUEST" :> <<<<"component", GStr>>, <<"controller", GPtr(GStr)>>, <<"namespace", GPtr(GStr)>>, <<"release", GPtr(GStr)>>, <<"wsConnectionRequest", GStruct("CLUSTER_COMPONENT_LOG_STREAM_CONNECTION_REQUEST_REQUEST__MOGENIUS_OPERATOR_SRC_XTERM_WSCONNECTIONREQUEST")>>>> @@
                 "CLUSTER_COMPONENT_LOG_STREAM_CONNECTION_REQUEST_REQUEST__MOGENIUS_OPERATOR_SRC_XTERM_WSCONNECTIONREQUEST" :> <<<<"channelId", GStr>>, <<"cmdType", GStr>>, <<"nodeName", GStr>>, <<"podName", GStr>>, <<"websocketHost", GStr>>, <<"websocketScheme", GStr>>, <<"workspace", GStr>>>>]

\* CLUSTER_FORCE_DISCONNECT_REQUEST: the Go schema of its doc comment and the alias.
CLUSTER_FORCE_DISCONNECT_REQUEST ==
    [root    |-> GPtr(GStruct("CLUSTER_FORCE_DISCONNECT_REQUEST__ANON_STRUCT_0")),
     type    |-> <<"CLUSTER_FORCE_DISCONNECT_REQUEST__ANON_STRUCT_0", "|", "undefined">>,
     structs |-> "CLUSTER_FORCE_DISCONNECT_REQUEST__ANON_STRUCT_0" :> <<>>]

\* CLUSTER_FORCE_RECONNECT_REQUEST: the Go schema of its doc comment and the alias.
CLUSTER_FORCE_RECONNECT_REQUEST ==
    [root    |-> GPtr(GStruct("CLUSTER_FORCE_RECONNECT_REQUEST__ANON_STRUCT_0")),
     type    |-> <<"CLUSTER_FORCE_RECONNECT_REQUEST__ANON_STRUCT_0", "|", "undefined">>,
     structs |-> "CLUSTER_FORCE_RECONNECT_REQUEST__ANON_STRUCT_0" :> <<>>]

\* CLUSTER_HELM_CHART_INSTALL_REQUEST: the Go schema of its doc comment and the alias.
CLUSTER_HELM_CHART_INSTALL_REQUEST ==
    [root    |-> GStruct("CLUSTER_HELM_CHART_INSTALL_REQUEST__MOGENIUS_OPERATOR_SRC_HELM_HELMCHARTINSTALLUPGRADEREQUEST"),
     type    |-> <<"CLUSTER_HELM_CHART_INSTALL_REQUEST__MOGENIUS_OPERATOR_SRC_HELM_HELMCHARTINSTALLUPGRADEREQUEST">>,
     structs |-> "CLUSTER_HELM_CHART_INSTALL_REQUEST__MOGENIUS_OPERATOR_SRC_HELM_HELMCHARTINSTALLUPGRADEREQUEST" :> <<<<"chart", GStr>>, <<"dryRun", GBool>>, <<"namespace", GStr>>, <<"release", GStr>>, <<"values", GStr>>, <<"version", GStr>>>>]

\* CLUSTER_HELM_CHART_INSTALL_OCI_REQUEST: the Go schema of its doc comment and the alias.
CLUSTER_HELM_CHART_INSTALL_OCI_REQUEST ==
    [root    |-> GStruct("CLUSTER_HELM_CHART_INSTALL_OCI_REQUEST__MOGENIUS_OPERATOR_SRC_HELM_HELMCHARTOCIINSTALLUPGRADEREQUEST"),
     type    |-> <<"CLUSTER_HELM_CHART_INSTALL_OCI_REQUEST__MOGENIUS_OPERATOR_SRC_HELM_HELMCHARTOCIINSTALLUPGRADEREQUEST">>,
     structs |-> "CLUSTER_HELM_CHART_INSTALL_OCI_REQUEST__MOGENIUS_OPERATOR_SRC_HELM_HELMCHARTOCIINSTALLUPGRADEREQUEST" :> <<<<"chart", GStr>>, <<"dryRun", GBool>>, <<"namespace", GStr>>, <<"password", GStr>>, <<"registryUrl", GStr>>, <<"release", GStr>>, <<"username", GStr>>, <<"values", GStr>>, <<"version", GStr>>>>]

\* CLUSTER_HELM_CHART_REMOVE_REQUEST: the Go schema of its doc comment and the alias.
CLUSTER_HELM_CHART_REMOVE_REQUEST ==
    [root    |-> GStruct("CLUSTER_HELM_CHART_REMOVE_REQUEST__MOGENIUS_OPERATOR_SRC_HELM_HELMREPOREMOVEREQUEST"),
     type    |-> <<"CLUSTER_HELM_CHART_REMOVE_REQUEST__MOGENIUS_OPERATOR_SRC_HELM_HELMREPOREMOVEREQUEST">>,
     structs |-> "CLUSTER_HELM_CHART_REMOVE_REQUEST__MOGENIUS_OPERATOR_SRC_HELM_HELMREPOREMOVEREQUEST" :> <<<<"name", GStr>>>>]

\* CLUSTER_HELM_CHART_SEARCH_REQUEST: the Go schema of its doc comment and the alias.
CLUSTER_HELM_CHART_SEARCH_REQUEST ==
    [root    |-> GStruct("CLUSTER_HELM_CHART_SEARCH_REQUEST__MOGENIUS_OPERATOR_SRC_HELM_HELMCHARTSEARCHREQUEST"),
     type    |-> <<"CLUSTER_HELM_CHART_SEARCH_REQUEST__MOGENIUS_OPERATOR_SRC_HELM_HELMCHARTSEARCHREQUEST">>,
     structs |-> "CLUSTER_HELM_CHART_SEARCH_REQUEST__MOGENIUS_OPERATOR_SRC_HELM_HELMCHARTSEARCHREQUEST" :> <<<<"name", GStr>>>>]

\* CLUSTER_HELM_CHART_SHOW_REQUEST: the Go schema of its doc comment and the alias.
CLUSTER_HELM_CHART_SHOW_REQUEST ==
    [root    |-> GStruct("CLUSTER_HELM_CHART_SHOW_REQUEST__MOGENIUS_OPERATOR_SRC_HELM_HELMCHARTSHOWREQUEST"),
     type    |-> <<"CLUSTER_HELM_CHART_SHOW_REQUEST__MOGENIUS_OPERATOR_SRC_HELM_HELMCHARTSHOWREQUEST">>,
     structs |-> "CLUSTER_HELM_CHART_SHOW_REQUEST__MOGENIUS_OPERATOR_SRC_HELM_HELMCHARTSHOWREQUEST" :> <<<<"chart", GStr>>, <<"format", GStr>>, <<"version", GStr>>>>]

\* CLUSTER_HELM_CHART_VERSIONS_REQUEST: the Go schema of its doc comment and the alias.
CLUSTER_HELM_CHART_VERSIONS_REQUEST ==
    [root    |-> GStruct("CLUSTER_HELM_CHART_VERSIONS_REQUEST__MOGENIUS_OPERATOR_SRC_HELM_HELMCHARTVERSIONREQUEST"),
     type    |-> <<"CLUSTER_HELM_CHART_VERSIONS_REQUEST__MOGENIUS_OPERATOR_SRC_HELM_HELMCHARTVERSIONREQUEST">>,
     structs |-> "CLUSTER_HELM_CHART_VERSIONS_REQUEST__MOGENIUS_OPERATOR_SRC_HELM_HELMCHARTVERSIONREQUEST" :> <<<<"chart", GStr>>>>]

\* CLUSTER_HELM_RELEASE_GET_REQUEST: the Go schema of its doc comment and the alias.
CLUSTER_HELM_RELEASE_GET_REQUEST ==
    [root    |-> GStruct("CLUSTER_HELM_RELEASE_GET_REQUEST__MOGENIUS_OPERATOR_SRC_HELM_HELMRELEASEGETREQUEST"),
     type    |-> <<"CLUSTER_HELM_RELEASE_GET_REQUEST__MOGENIUS_OPERATOR_SRC_HELM_HELMRELEASEGETREQUEST">>,
     structs |-> "CLUSTER_HELM_RELEASE_GET_REQUEST__MOGENIUS_OPERATOR_SRC_HELM_HELMRELEASEGETREQUEST" :> <<<<"getFormat", GStr>>, <<"namespace", GStr>>, <<"release", GStr>>>>]

\* CLUSTER_HELM_RELEASE_GET_WORKLOADS_REQUEST: the Go schema of its doc comment and the alias.
CLUSTER_HELM_RELEASE_GET_WORKLOADS_REQUEST ==
    [root    |-> GStruct("CLUSTER_HELM_RELEASE_GET_WORKLOADS_REQUEST__MOGENIUS_OPERATOR_SRC_HELM_HELMRELEASEGETWORKLOADSREQUEST"),
     type    |-> <<"CLUSTER_HELM_RELEASE_GET_WORKLOADS_REQUEST__MOGENIUS_OPERATOR_SRC_HELM_HELMRELEASEGETWORKLOADSREQUEST">>,
     structs |-> "CLUSTER_HELM_RELEASE_GET_WORKLOADS_REQUEST__MOGENIUS_OPERATOR_SRC_HELM_HELMRELEASEGETWORKLOADSREQUEST" :> <<<<"namespace", GStr>>, <<"release", GStr>>, <<"whitelist", GArray(GPtr(GStruct("CLUSTER_HELM_RELEASE_GET_WORKLOADS_REQUEST__MOGENIUS_OPERATOR_SRC_UTILS_RESOURCEDESCRIPTOR")))>>>> @@
                 "CLUSTER_HELM_RELEASE_GET_WORKLOADS_REQUEST__MOGENIUS_OPERATOR_SRC_UTILS_RESOURCEDESCRIPTOR" :> <<<<"apiVersion", GStr>>, <<"kind", GStr>>, <<"namespaced", GBool>>, <<"plural", GStr>>>>]

\* CLUSTER_HELM_RELEASE_HISTORY_REQUEST: the Go schema of its doc comment and the alias.
CLUSTER_HELM_RELEASE_HISTORY_REQUEST ==
    [root    |-> GStruct("CLUSTER_HELM_RELEASE_HISTORY_REQUEST__MOGENIUS_OPERATOR_SRC_HELM_HELMRELEASEHISTORYREQUEST"),
     type    |-> <<"CLUSTER_HELM_RELEASE_HISTORY_REQUEST__MOGENIUS_OPERATOR_SRC_HELM_HELMRELEASEHISTORYREQUEST">>,
     structs |-> "CLUSTER_HELM_RELEASE_HISTORY_REQUEST__MOGENIUS_OPERATOR_SRC_HELM_HELMRELEASEHISTORYREQUEST" :> <<<<"namespace", GStr>>, <<"release", GStr>>>>]

\* CLUSTER_HELM_RELEASE_LINK_REQUEST: the Go schema of its doc comment and the alias.
CLUSTER_HELM_RELEASE_LINK_REQUEST ==
    [root    |-> GStruct("CLUSTER_HELM_RELEASE_LINK_REQUEST__MOGENIUS_OPERATOR_SRC_HELM_HELMRELEASELINKREQUEST"),
     type    |-> <<"CLUSTER_HELM_RELEASE_LINK_REQUEST__MOGENIUS_OPERATOR_SRC_HELM_HELMRELEASELINKREQUEST">>,
     structs |-> "CLUSTER_HELM_RELEASE_LINK_REQUEST__MOGENIUS_OPERATOR_SRC_HELM_HELMRELEASELINKREQUEST" :> <<<<"namespace", GStr>>, <<"releaseName", GStr>>, <<"repoName", GStr>>>>]

\* CLUSTER_HELM_RELEASE_LIST_REQUEST: the Go schema of its doc comment and the alias.
CLUSTER_HELM_RELEASE_LIST_REQUEST ==
    [root    |-> GStruct("CLUSTER_HELM_RELEASE_LIST_REQUEST__MOGENIUS_OPERATOR_SRC_HELM_HELMRELEASELISTREQUEST"),
     type    |-> <<"CLUSTER_HELM_RELEASE_LIST_REQUEST__MOGENIUS_OPERATOR_SRC_HELM_HELMRELEASELISTREQUEST">>,
     structs |-> "CLUSTER_HELM_RELEASE_LIST_REQUEST__MOGENIUS_OPERATOR_SRC_HELM_HELMRELEASELISTREQUEST" :> <<<<"namespace", GStr>>>>]

\* CLUSTER_HELM_RELEASE_ROLLBACK_REQUEST: the Go schema of its doc comment and the alias.
CLUSTER_HELM_RELEASE_ROLLBACK_REQUEST ==
    [root    |-> GStruct("CLUSTER_HELM_RELEASE_ROLLBACK_REQUEST__MOGENIUS_OPERATOR_SRC_HELM_HELMRELEASEROLLBACKREQUEST"),
     type    |-> <<"CLUSTER_HELM_RELEASE_ROLLBACK_REQUEST__MOGENIUS_OPERATOR_SRC_HELM_HELMRELEASEROLLBACKREQUEST">>,
     structs |-> "CLUSTER_HELM_RELEASE_ROLLBACK_REQUEST__MOGENIUS_OPERATOR_SRC_HELM_HELMRELEASEROLLBACKREQUEST" :> <<<<"namespace", GStr>>, <<"release", GStr>>, <<"revision", GInt>>>>]

\* CLUSTER_HELM_RELEASE_STATUS_REQUEST: the Go schema of its doc comment and the alias.
CLUSTER_HELM_RELEASE_STATUS_REQUEST ==
    [root    |-> GStruct("CLUSTER_HELM_RELEASE_STATUS_REQUEST__MOGENIUS_OPERATOR_SRC_HELM_HELMRELEASESTATUSREQUEST"),
     type    |-> <<"CLUSTER_HELM_RELEASE_STATUS_REQUEST__MOGENIUS_OPERATOR_SRC_HELM_HELMRELEASESTATUSREQUEST">>,
     structs |-> "CLUSTER_HELM_RELEASE_STATUS_REQUEST__MOGENIUS_OPERATOR_SRC_HELM_HELMRELEASESTATUSREQUEST" :> <<<<"namespace", GStr>>, <<"release", GStr>>>>]

\* CLUSTER_HELM_RELEASE_UNINSTALL_REQUEST: the Go schema of its doc comment and the alias.
CLUSTER_HELM_RELEASE_UNINSTALL_REQUEST ==
    [root    |-> GStruct("CLUSTER_HELM_RELEASE_UNINSTALL_REQUEST__MOGENIUS_OPERATOR_SRC_HELM_HELMRELEASEUNINSTALLREQUEST"),
     type    |-> <<"CLUSTER_HELM_RELEASE_UNINSTALL_REQUEST__MOGENIUS_OPERATOR_SRC_HELM_HELMRELEASEUNINSTALLREQUEST">>,
     structs |-> "CLUSTER_HELM_RELEASE_UNINSTALL_REQUEST__MOGENIUS_OPERATOR_SRC_HELM_HELMRELEASEUNINSTALLREQUEST" :> <<<<"dryRun", GBool>>, <<"namespace", GStr>>, <<"release", GStr>>>>]

\* CLUSTER_HELM_RELEASE_UPGRADE_REQUEST: the Go schema of its doc comment and the alias.
CLUSTER_HELM_RELEASE_UPGRADE_REQUEST ==
    [root    |-> GStruct("CLUSTER_HELM_RELEASE_UPGRADE_REQUEST__MOGENIUS_OPERATOR_SRC_HELM_HELMCHARTINSTALLUPGRADEREQUEST"),
     type    |-> <<"CLUSTER_HELM_RELEASE_UPGRADE_REQUEST__MOGENIUS_OPERATOR_SRC_HELM_HELMCHARTINSTALLUPGRADEREQUEST">>,
     structs |-> "CLUSTER_HELM_RELEASE_UPGRADE_REQUEST__MOGENIUS_OPERATOR_SRC_HELM_HELMCHARTINSTALLUPGRADEREQUEST" :> <<<<"chart", GStr>>, <<"dryRun", GBool>>, <<"namespace", GStr>>, <<"release", GStr>>, <<"values", GStr>>, <<"version", GStr>>>>]

\* CLUSTER_HELM_REPO_ADD_REQUEST: the Go schema of its doc comment and the alias.
CLUSTER_HELM_REPO_ADD_REQUEST ==
    [root    |-> GStruct("CLUSTER_HELM_REPO_ADD_REQUEST__MOGENIUS_OPERATOR_SRC_HELM_HELMREPOADDREQUEST"),
     type    |-> <<"CLUSTER_HELM_REPO_ADD_REQUEST__MOGENIUS_OPERATOR_SRC_HELM_HELMREPOADDREQUEST">>,
     structs |-> "CLUSTER_HELM_REPO_ADD_REQUEST__MOGENIUS_OPERATOR_SRC_HELM_HELMREPOADDREQUEST" :> <<<<"insecureSkipTLSverify", GBool>>, <<"name", GStr>>, <<"passCredentialsAll", GBool>>, <<"password", GStr>>, <<"url", GStr>>, <<"username", GStr>>>>]

\* CLUSTER_HELM_REPO_LIST_REQUEST: the Go schema of its doc comment and the alias.
CLUSTER_HELM_REPO_LIST_REQUEST ==
    [root    |-> GPtr(GStruct("CLUSTER_HELM_REPO_LIST_REQUEST__ANON_STRUCT_0")),
     type    |-> <<"CLUSTER_HELM_REPO_LIST_REQUEST__ANON_STRUCT_0", "|", "undefined">>,
     structs |-> "CLUSTER_HELM_REPO_LIST_REQUEST__ANON_STRUCT_0" :> <<>>]

\* CLUSTER_HELM_REPO_PATCH_REQUEST: the Go schema of its doc comment and the alias.
CLUSTER_HELM_REPO_PATCH_REQUEST ==
    [root    |-> GStruct("CLUSTER_HELM_REPO_PATCH_REQUEST__MOGENIUS_OPERATOR_SRC_HELM_HELMREPOPATCHREQUEST"),
     type    |-> <<"CLUSTER_HELM_REPO_PATCH_REQUEST__MOGENIUS_OPERATOR_SRC_HELM_HELMREPOPATCHREQUEST">>,
     structs |-> "CLUSTER_HELM_REPO_PATCH_REQUEST__MOGENIUS_OPERATOR_SRC_HELM_HELMREPOPATCHREQUEST" :> <<<<"insecureSkipTLSverify", GBool>>, <<"name", GStr>>, <<"newName", GStr>>, <<"passCredentialsAll", GBool>>, <<"password", GStr>>, <<"url", GStr>>, <<"username", GStr>>>>]

\* CLUSTER_HELM_REPO_UPDATE_REQUEST: the Go schema of its doc comment and the alias.
CLUSTER_HELM_REPO_UPDATE_REQUEST ==
    [root    |-> GPtr(GStruct("CLUSTER_HELM_REPO_UPDATE_REQUEST__ANON_STRUCT_0")),
     type    |-> <<"CLUSTER_HELM_REPO_UPDATE_REQUEST__ANON_STRUCT_0", "|", "undefined">>,
     structs |-> "CLUSTER_HELM_REPO_UPDATE_REQUEST__ANON_STRUCT_0" :> <<>>]

\* CLUSTER_LIST_PERSISTENT_VOLUME_CLAIMS_REQUEST: the Go schema of its doc comment and the alias.
CLUSTER_LIST_PERSISTENT_VOLUME_CLAIMS_REQUEST ==
    [root    |-> GStruct("CLUSTER_LIST_PERSISTENT_VOLUME_CLAIMS_REQUEST__MOGENIUS_OPERATOR_SRC_SERVICES_CLUSTERLISTWORKLOADS"),
     type    |-> <<"CLUSTER_LIST_PERSISTENT_VOLUME_CLAIMS_REQUEST__MOGENIUS_OPERATOR_SRC_SERVICES_CLUSTERLISTWORKLOADS">>,
     structs |-> "CLUSTER_LIST_PERSISTENT_VOLUME_CLAIMS_REQUEST__MOGENIUS_OPERATOR_SRC_SERVICES_CLUSTERLISTWORKLOADS" :> <<<<"labelSelector", GStr>>, <<"namespace", GStr>>, <<"prefix", GStr>>>>]

\* CLUSTER_MACHINE_STATS_REQUEST: the Go schema of its doc comment and the alias.
CLUSTER_MACHINE_STATS_REQUEST ==
    [root    |-> GStruct("CLUSTER_MACHINE_STATS_REQUEST__MOGENIUS_OPERATOR_SRC_CORE_REQUEST"),
     type    |-> <<"CLUSTER_MACHINE_STATS_REQUEST__MOGENIUS_OPERATOR_SRC_CORE_REQUEST">>,
     structs |-> "CLUSTER_MACHINE_STATS_REQUEST__MOGENIUS_OPERATOR_SRC_CORE_REQUEST" :> <<<<"nodes", GArray(GStr)>>>>]

\* CLUSTER_RESOURCE_INFO_REQUEST: the Go schema of its doc comment and the alias.
CLUSTER_RESOURCE_INFO_REQUEST ==
    [root    |-> GPtr(GStruct("CLUSTER_RESOURCE_INFO_REQUEST__ANON_STRUCT_0")),
     type    |-> <<"CLUSTER_RESOURCE_INFO_REQUEST__ANON_STRUCT_0", "|", "undefined">>,
     structs |-> "CLUSTER_RESOURCE_INFO_REQUEST__ANON_STRUCT_0" :> <<>>]

\* CREATE_GRANT_REQUEST: the Go schema of its doc comment and the alias.
CREATE_GRANT_REQUEST ==
    [root    |-> GStruct("CREATE_GRANT_REQUEST__MOGENIUS_OPERATOR_SRC_CORE_REQUEST"),
     type    |-> <<"CREATE_GRANT_REQUEST__MOGENIUS_OPERATOR_SRC_CORE_REQUEST">>,
     structs |-> "CREATE_GRANT_REQUEST__MOGENIUS_OPERATOR_SRC_CORE_REQUEST" :> <<<<"grantee", GStr>>, <<"name", GStr>>, <<"role", GStr>>, <<"targetName", GStr>>, <<"targetType", GStr>>>>]

\* CREATE_NEW_WORKLOAD_REQUEST: the Go schema of its doc comment and the alias.
CREATE_NEW_WORKLOAD_REQUEST ==
    [root    |-> GStruct("CREATE_NEW_WORKLOAD_REQUEST__MOGENIUS_OPERATOR_SRC_UTILS_WORKLOADCHANGEREQUEST"),
     type    |-> <<"CREATE_NEW_WORKLOAD_REQUEST__MOGENIUS_OPERATOR_SRC_UTILS_WORKLOADCHANGEREQUEST">>,
     structs |-> "CREATE_NEW_WORKLOAD_REQUEST__MOGENIUS_OPERATOR_SRC_UTILS_RESOURCEDESCRIPTOR" :> <<<<"apiVersion", GStr>>, <<"kind", GStr>>, <<"namespaced", GBool>>, <<"plural", GStr>>>> @@
                 "CREATE_NEW_WORKLOAD_REQUEST__MOGENIUS_OPERATOR_SRC_UTILS_WORKLOADCHANGEREQUEST" :> <<<<"ResourceDescriptor", GStruct("CREATE_NEW_WORKLOAD_REQUEST__MOGENIUS_OPERATOR_SRC_UTILS_RESOURCEDESCRIPTOR")>>, <<"namespace", GStr>>, <<"yamlData", GStr>>>>]

\* CREATE_USER_REQUEST: the Go schema of its doc comment and the alias.
CREATE_USER_REQUEST ==
    [root    |-> GStruct("CREATE_USER_REQUEST__MOGENIUS_OPERATOR_SRC_CORE_REQUEST"),
     type    |-> <<"CREATE_USER_REQUEST__MOGENIUS_OPERATOR_SRC_CORE_REQUEST">>,
     structs |-> "CREATE_USER_REQUEST__K8S_IO_API_RBAC_V1_SUBJECT" :> <<<<"apiGroup", GStr>>, <<"kind", GStr>>, <<"name", GStr>>, <<"namespace", GStr>>>> @@
                 "CREATE_USER_REQUEST__MOGENIUS_OPERATOR_SRC_CORE_REQUEST" :> <<<<"email", GStr>>, <<"firstName", GStr>>, <<"lastName", GStr>>, <<"name", GStr>>, <<"subject", GPtr(GStruct("CREATE_USER_REQUEST__K8S_IO_API_RBAC_V1_SUBJECT"))>>>>]

\* CREATE_WORKSPACE_REQUEST: the Go schema of its doc comment and the alias.
CREATE_WORKSPACE_REQUEST ==
    [root    |-> GStruct("CREATE_WORKSPACE_REQUEST__MOGENIUS_OPERATOR_SRC_CORE_REQUEST"),
     type    |-> <<"CREATE_WORKSPACE_REQUEST__MOGENIUS_OPERATOR_SRC_CORE_REQUEST">>,
     structs |-> "CREATE_WORKSPACE_REQUEST__MOGENIUS_OPERATOR_SRC_CORE_REQUEST" :> <<<<"displayName", GStr>>, <<"name", GStr>>, <<"resources", GArray(GStruct("CREATE_WORKSPACE_REQUEST__MOGENIUS_OPERATOR_SRC_CRDS_V1ALPHA1_WORKSPACERESOURCEIDENTIFIER"))>>>> @@
                 "CREATE_WORKSPACE_REQUEST__MOGENIUS_OPERATOR_SRC_CRDS_V1ALPHA1_WORKSPACERESOURCEIDENTIFIER" :> <<<<"id", GStr>>, <<"namespace", GStr>>, <<"type", GStr>>>>]

\* DELETE_GRANT_REQUEST: the Go schema of its doc comment and the alias.
DELETE_GRANT_REQUEST ==
    [root    |-> GStruct("DELETE_GRANT_REQUEST__MOGENIUS_OPERATOR_SRC_CORE_REQUEST"),
     type    |-> <<"DELETE_GRANT_REQUEST__MOGENIUS_OPERATOR_SRC_CORE_REQUEST">>,
     structs |-> "DELETE_GRANT_REQUEST__MOGENIUS_OPERATOR_SRC_CORE_REQUEST" :> <<<<"name", GStr>>>>]

\* DELETE_USER_REQUEST: the Go schema of its doc comment and the alias.
DELETE_USER_REQUEST ==
    [root    |-> GStruct("DELETE_USER_REQUEST__MOGENIUS_OPERATOR_SRC_CORE_REQUEST"),
     type    |-> <<"DELETE_USER_REQUEST__MOGENIUS_OPERATOR_SRC_CORE_REQUEST">>,
     structs |-> "DELETE_USER_REQUEST__MOGENIUS_OPERATOR_SRC_CORE_REQUEST" :> <<<<"name", GStr>>>>]

\* DELETE_WORKLOAD_REQUEST: the Go schema of its doc comment and the alias.
DELETE_WORKLOAD_REQUEST ==
    [root    |-> GStruct("DELETE_WORKLOAD_REQUEST__MOGENIUS_OPERATOR_SRC_UTILS_WORKLOADSINGLEREQUEST"),
     type    |-> <<"DELETE_WORKLOAD_REQUEST__MOGENIUS_OPERATOR_SRC_UTILS_WORKLOADSINGLEREQUEST">>,
     structs |-> "DELETE_WORKLOAD_REQUEST__MOGENIUS_OPERATOR_SRC_UTILS_RESOURCEDESCRIPTOR" :> <<<<"apiVersion", GStr>>, <<"kind", GStr>>, <<"namespaced", GBool>>, <<"plural", GStr>>>> @@
                 "DELETE_WORKLOAD_REQUEST__MOGENIUS_OPERATOR_SRC_UTILS_WORKLOADSINGLEREQUEST" :> <<<<"ResourceDescriptor", GStruct("DELETE_WORKLOAD_REQUEST__MOGENIUS_OPERATOR_SRC_UTILS_RESOURCEDESCRIPTOR")>>, <<"namespace", GStr>>, <<"resourceName", GStr>>>>]

\* DELETE_WORKSPACE_REQUEST: the Go schema of its doc comment and the alias.
DELETE_WORKSPACE_REQUEST ==
    [root    |-> GStruct("DELETE_WORKSPACE_REQUEST__MOGENIUS_OPERATOR_SRC_CORE_REQUEST"),
     type    |-> <<"DELETE_WORKSPACE_REQUEST__MOGENIUS_OPERATOR_SRC_CORE_REQUEST">>,
     structs |-> "DELETE_WORKSPACE_REQUEST__MOGENIUS_OPERATOR_SRC_CORE_REQUEST" :> <<<<"name", GStr>>>>]

\* DESCRIBE_REQUEST: the Go schema of its doc comment and the alias.
DESCRIBE_REQUEST ==
    [root    |-> GPtr(GStruct("DESCRIBE_REQUEST__ANON_STRUCT_0")),
     type    |-> <<"DESCRIBE_REQUEST__ANON_STRUCT_0", "|", "undefined">>,
     structs |-> "DESCRIBE_REQUEST__ANON_STRUCT_0" :> <<>>]

\* DESCRIBE_WORKLOAD_REQUEST: the Go schema of its doc comment and the alias.
DESCRIBE_WORKLOAD_REQUEST ==
    [root    |-> GStruct("DESCRIBE_WORKLOAD_REQUEST__MOGENIUS_OPERATOR_SRC_UTILS_WORKLOADSINGLEREQUEST"),
     type    |-> <<"DESCRIBE_WORKLOAD_REQUEST__MOGENIUS_OPERATOR_SRC_UTILS_WORKLOADSINGLEREQUEST">>,
     structs |-> "DESCRIBE_WORKLOAD_REQUEST__MOGENIUS_OPERATOR_SRC_UTILS_RESOURCEDESCRIPTOR" :> <<<<"apiVersion", GStr>>, <<"kind", GStr>>, <<"namespaced", GBool>>, <<"plural", GStr>>>> @@
                 "DESCRIBE_WORKLOAD_REQUEST__MOGENIUS_OPERATOR_SRC_UTILS_WORKLOADSINGLEREQUEST" :> <<<<"ResourceDescriptor", GStruct("DESCRIBE_WORKLOAD_REQUEST__MOGENIUS_OPERATOR_SRC_UTILS_RESOURCEDESCRIPTOR")>>, <<"namespace", GStr>>, <<"resourceName", GStr>>>>]

\* FILES_CHMOD_REQUEST: the Go schema of its doc comment and the alias.
FILES_CHMOD_REQUEST ==
    [root    |-> GStruct("FILES_CHMOD_REQUEST__MOGENIUS_OPERATOR_SRC_CORE_REQUEST"),
     type    |-> <<"FILES_CHMOD_REQUEST__MOGENIUS_OPERATOR_SRC_CORE_REQUEST">>,
     structs |-> "FILES_CHMOD_REQUEST__MOGENIUS_OPERATOR_SRC_CORE_REQUEST" :> <<<<"file", GStruct("FILES_CHMOD_REQUEST__MOGENIUS_OPERATOR_SRC_DTOS_PERSISTENTFILEREQUESTDTO")>>, <<"mode", GStr>>>> @@
                 "FILES_CHMOD_REQUEST__MOGENIUS_OPERATOR_SRC_DTOS_PERSISTENTFILEREQUESTDTO" :> <<<<"path", GStr>>, <<"volumeName", GStr>>, <<"volumeNamespace", GStr>>>>]

\* FILES_CHOWN_REQUEST: the Go schema of its doc comment and the alias.
FILES_CHOWN_REQUEST ==
    [root    |-> GStruct("FILES_CHOWN_REQUEST__MOGENIUS_OPERATOR_SRC_CORE_REQUEST"),
     type    |-> <<"FILES_CHOWN_REQUEST__MOGENIUS_OPERATOR_SRC_CORE_REQUEST">>,
     structs |-> "FILES_CHOWN_REQUEST__MOGENIUS_OPERATOR_SRC_CORE_REQUEST" :> <<<<"file", GStruct("FILES_CHOWN_REQUEST__MOGENIUS_OPERATOR_SRC_DTOS_PERSISTENTFILEREQUESTDTO")>>, <<"gid", GStr>>, <<"uid", GStr>>>> @@
                 "FILES_CHOWN_REQUEST__MOGENIUS_OPERATOR_SRC_DTOS_PERSISTENTFILEREQUESTDTO" :> <<<<"path", GStr>>, <<"volumeName", GStr>>, <<"volumeNamespace", GStr>>>>]

\* FILES_CREATE_FOLDER_REQUEST: the Go schema of its doc comment and the alias.
FILES_CREATE_FOLDER_REQUEST ==
    [root    |-> GStruct("FILES_CREATE_FOLDER_REQUEST__MOGENIUS_OPERATOR_SRC_CORE_REQUEST"),
     type    |-> <<"FILES_CREATE_FOLDER_REQUEST__MOGENIUS_OPERATOR_SRC_CORE_REQUEST">>,
     structs |-> "FILES_CREATE_FOLDER_REQUEST__MOGENIUS_OPERATOR_SRC_CORE_REQUEST" :> <<<<"folder", GStruct("FILES_CREATE_FOLDER_REQUEST__MOGENIUS_OPERATOR_SRC_DTOS_PERSISTENTFILEREQUESTDTO")>>>> @@
                 "FILES_CREATE_FOLDER_REQUEST__MOGENIUS_OPERATOR_SRC_DTOS_PERSISTENTFILEREQUESTDTO" :> <<<<"path", GStr>>, <<"volumeName", GStr>>, <<"volumeNamespace", GStr>>>>]

\* FILES_DELETE_REQUEST: the Go schema of its doc comment and the alias.
FILES_DELETE_REQUEST ==
    [root    |-> GStruct("FILES_DELETE_REQUEST__MOGENIUS_OPERATOR_SRC_CORE_REQUEST"),
     type    |-> <<"FILES_DELETE_REQUEST__MOGENIUS_OPERATOR_SRC_CORE_REQUEST">>,
     structs |-> "FILES_DELETE_REQUEST__MOGENIUS_OPERATOR_SRC_CORE_REQUEST" :> <<<<"file", GStruct("FILES_DELETE_REQUEST__MOGENIUS_OPERATOR_SRC_DTOS_PERSISTENTFILEREQUESTDTO")>>>> @@
                 "FILES_DELETE_REQUEST__MOGENIUS_OPERATOR_SRC_DTOS_PERSISTENTFILEREQUESTDTO" :> <<<<"path", GStr>>, <<"volumeName", GStr>>, <<"volumeNamespace", GStr>>>>]

\* FILES_DOWNLOAD_REQUEST: the Go schema of its doc comment and the alias.
FILES_DOWNLOAD_REQUEST ==
    [root    |-> GStruct("FILES_DOWNLOAD_REQUEST__MOGENIUS_OPERATOR_SRC_CORE_REQUEST"),
     type    |-> <<"FILES_DOWNLOAD_REQUEST__MOGENIUS_OPERATOR_SRC_CORE_REQUEST">>,
     structs |-> "FILES_DOWNLOAD_REQUEST__MOGENIUS_OPERATOR_SRC_CORE_REQUEST" :> <<<<"file", GStruct("FILES_DOWNLOAD_REQUEST__MOGENIUS_OPERATOR_SRC_DTOS_PERSISTENTFILEREQUESTDTO")>>, <<"postTo", GStr>>>> @@
                 "FILES_DOWNLOAD_REQUEST__MOGENIUS_OPERATOR_SRC_DTOS_PERSISTENTFILEREQUESTDTO" :> <<<<"path", GStr>>, <<"volumeName", GStr>>, <<"volumeNamespace", GStr>>>>]

\* FILES_INFO_REQUEST: the Go schema of its doc comment and the alias.
FILES_INFO_REQUEST ==
    [root    |-> GStruct("FILES_INFO_REQUEST__MOGENIUS_OPERATOR_SRC_DTOS_PERSISTENTFILEREQUESTDTO"),
     type    |-> <<"FILES_INFO_REQUEST__MOGENIUS_OPERATOR_SRC_DTOS_PERSISTENTFILEREQUESTDTO">>,
     structs |-> "FILES_INFO_REQUEST__MOGENIUS_OPERATOR_SRC_DTOS_PERSISTENTFILEREQUESTDTO" :> <<<<"path", GStr>>, <<"volumeName", GStr>>, <<"volumeNamespace", GStr>>>>]

\* FILES_LIST_REQUEST: the Go schema of its doc comment and the alias.
FILES_LIST_REQUEST ==
    [root    |-> GStruct("FILES_LIST_REQUEST__MOGENIUS_OPERATOR_SRC_CORE_REQUEST"),
     type    |-> <<"FILES_LIST_REQUEST__MOGENIUS_OPERATOR_SRC_CORE_REQUEST">>,
     structs |-> "FILES_LIST_REQUEST__MOGENIUS_OPERATOR_SRC_CORE_REQUEST" :> <<<<"folder", GStruct("FILES_LIST_REQUEST__MOGENIUS_OPERATOR_SRC_DTOS_PERSISTENTFILEREQUESTDTO")>>>> @@
                 "FILES_LIST_REQUEST__MOGENIUS_OPERATOR_SRC_DTOS_PERSISTENTFILEREQUESTDTO" :> <<<<"path", GStr>>, <<"volumeName", GStr>>, <<"volumeNamespace", GStr>>>>]

\* FILES_RENAME_REQUEST: the Go schema of its doc comment and the alias.
FILES_RENAME_REQUEST ==
    [root    |-> GStruct("FILES_RENAME_REQUEST__MOGENIUS_OPERATOR_SRC_CORE_REQUEST"),
     type    |-> <<"FILES_RENAME_REQUEST__MOGENIUS_OPERATOR_SRC_CORE_REQUEST">>,
     structs |-> "FILES_RENAME_REQUEST__MOGENIUS_OPERATOR_SRC_CORE_REQUEST" :> <<<<"file", GStruct("FILES_RENAME_REQUEST__MOGENIUS_OPERATOR_SRC_DTOS_PERSISTENTFILEREQUESTDTO")>>, <<"newName", GStr>>>> @@
                 "FILES_RENAME_REQUEST__MOGENIUS_OPERATOR_SRC_DTOS_PERSISTENTFILEREQUESTDTO" :> <<<<"path", GStr>>, <<"volumeName", GStr>>, <<"volumeNamespace", GStr>>>>]

\* GET_GRANT_REQUEST: the Go schema of its doc comment and the alias.
GET_GRANT_REQUEST ==
    [root    |-> GStruct("GET_GRANT_REQUEST__MOGENIUS_OPERATOR_SRC_CORE_REQUEST"),
     type    |-> <<"GET_GRANT_REQUEST__MOGENIUS_OPERATOR_SRC_CORE_REQUEST">>,
     structs |-> "GET_GRANT_REQUEST__MOGENIUS_OPERATOR_SRC_CORE_REQUEST" :> <<<<"name", GStr>>>>]

\* GET_GRANTS_REQUEST: the Go schema of its doc comment and the alias.
GET_GRANTS_REQUEST ==
    [root    |-> GStruct("GET_GRANTS_REQUEST__MOGENIUS_OPERATOR_SRC_CORE_REQUEST"),
     type    |-> <<"GET_GRANTS_REQUEST__MOGENIUS_OPERATOR_SRC_CORE_REQUEST">>,
     structs |-> "GET_GRANTS_REQUEST__MOGENIUS_OPERATOR_SRC_CORE_REQUEST" :> <<<<"targetName", GPtr(GStr)>>, <<"targetType", GPtr(GStr)>>>>]

\* GET_LABELED_WORKLOAD_LIST_REQUEST: the Go schema of its doc comment and the alias.
GET_LABELED_WORKLOAD_LIST_REQUEST ==
    [root    |-> GStruct("GET_LABELED_WORKLOAD_LIST_REQUEST__MOGENIUS_OPERATOR_SRC_KUBERNETES_GETUNSTRUCTUREDLABELEDRESOURCELISTREQUEST"),
     type    |-> <<"GET_LABELED_WORKLOAD_LIST_REQUEST__MOGENIUS_OPERATOR_SRC_KUBERNETES_GETUNSTRUCTUREDLABELEDRESOURCELISTREQUEST">>,
     structs |-> "GET_LABELED_WORKLOAD_LIST_REQUEST__MOGENIUS_OPERATOR_SRC_KUBERNETES_GETUNSTRUCTUREDLABELEDRESOURCELISTREQUEST" :> <<<<"blacklist", GArray(GPtr(GStruct("GET_LABELED_WORKLOAD_LIST_REQUEST__MOGENIUS_OPERATOR_SRC_UTILS_RESOURCEDESCRIPTOR")))>>, <<"label", GStr>>, <<"whitelist", GArray(GPtr(GStruct("GET_LABELED_WORKLOAD_LIST_REQUEST__MOGENIUS_OPERATOR_SRC_UTILS_RESOURCEDESCRIPTOR")))>>>> @@
                 "GET_LABELED_WORKLOAD_LIST_REQUEST__MOGENIUS_OPERATOR_SRC_UTILS_RESOURCEDESCRIPTOR" :> <<<<"apiVersion", GStr>>, <<"kind", GStr>>, <<"namespaced", GBool>>, <<"plural", GStr>>>>]

\* GET_NAMESPACE_WORKLOAD_LIST_REQUEST: the Go schema of its doc comment and the alias.
GET_NAMESPACE_WORKLOAD_LIST_REQUEST ==
    [root    |-> GStruct("GET_NAMESPACE_WORKLOAD_LIST_REQUEST__MOGENIUS_OPERATOR_SRC_KUBERNETES_GETUNSTRUCTUREDNAMESPACERESOURCELISTREQUEST"),
     type    |-> <<"GET_NAMESPACE_WORKLOAD_LIST_REQUEST__MOGENIUS_OPERATOR_SRC_KUBERNETES_GETUNSTRUCTUREDNAMESPACERESOURCELISTREQUEST">>,
     structs |-> "GET_NAMESPACE_WORKLOAD_LIST_REQUEST__MOGENIUS_OPERATOR_SRC_KUBERNETES_GETUNSTRUCTUREDNAMESPACERESOURCELISTREQUEST" :> <<<<"blacklist", GArray(GPtr(GStruct("GET_NAMESPACE_WORKLOAD_LIST_REQUEST__MOGENIUS_OPERATOR_SRC_UTILS_RESOURCEDESCRIPTOR")))>>, <<"namespace", GStr>>, <<"whitelist", GArray(GPtr(GStruct("GET_NAMESPACE_WORKLOAD_LIST_REQUEST__MOGENIUS_OPERATOR_SRC_UTILS_RESOURCEDESCRIPTOR")))>>>> @@
                 "GET_NAMESPACE_WORKLOAD_LIST_REQUEST__MOGENIUS_OPERATOR_SRC_UTILS_RESOURCEDESCRIPTOR" :> <<<<"apiVersion", GStr>>, <<"kind", GStr>>, <<"namespaced", GBool>>, <<"plural", GStr>>>>]

\* GET_NODES_METRICS_REQUEST: the Go schema of its doc comment and the alias.
GET_NODES_METRICS_REQUEST ==
    [root    |-> GPtr(GStruct("GET_NODES_METRICS_REQUEST__ANON_STRUCT_0")),
     type    |-> <<"GET_NODES_METRICS_REQUEST__ANON_STRUCT_0", "|", "undefined">>,
     structs |-> "GET_NODES_METRICS_REQUEST__ANON_STRUCT_0" :> <<>>]

\* GET_USER_REQUEST: the Go schema of its doc comment and the alias.
GET_USER_REQUEST ==
    [root    |-> GStruct("GET_USER_REQUEST__MOGENIUS_OPERATOR_SRC_CORE_REQUEST"),
     type    |-> <<"GET_USER_REQUEST__MOGENIUS_OPERATOR_SRC_CORE_REQUEST">>,
     structs |-> "GET_USER_REQUEST__MOGENIUS_OPERATOR_SRC_CORE_REQUEST" :> <<<<"name", GStr>>>>]

\* GET_USERS_REQUEST: the Go schema of its doc comment and the alias.
GET_USERS_REQUEST ==
    [root    |-> GStruct("GET_USERS_REQUEST__MOGENIUS_OPERATOR_SRC_CORE_REQUEST"),
     type    |-> <<"GET_USERS_REQUEST__MOGENIUS_OPERATOR_SRC_CORE_REQUEST">>,
     structs |-> "GET_USERS_REQUEST__MOGENIUS_OPERATOR_SRC_CORE_REQUEST" :> <<<<"email", GPtr(GStr)>>>>]

\* GET_WORKLOAD_REQUEST: the Go schema of its doc comment and the alias.
GET_WORKLOAD_REQUEST ==
    [root    |-> GStruct("GET_WORKLOAD_REQUEST__MOGENIUS_OPERATOR_SRC_UTILS_WORKLOADSINGLEREQUEST"),
     type    |-> <<"GET_WORKLOAD_REQUEST__MOGENIUS_OPERATOR_SRC_UTILS_WORKLOADSINGLEREQUEST">>,
     structs |-> "GET_WORKLOAD_REQUEST__MOGENIUS_OPERATOR_SRC_UTILS_RESOURCEDESCRIPTOR" :> <<<<"apiVersion", GStr>>, <<"kind", GStr>>, <<"namespaced", GBool>>, <<"plural", GStr>>>> @@
                 "GET_WORKLOAD_REQUEST__MOGENIUS_OPERATOR_SRC_UTILS_WORKLOADSINGLEREQUEST" :> <<<<"ResourceDescriptor", GStruct("GET_WORKLOAD_REQUEST__MOGENIUS_OPERATOR_SRC_UTILS_RESOURCEDESCRIPTOR")>>, <<"namespace", GStr>>, <<"resourceName", GStr>>>>]

\* GET_WORKLOAD_EXAMPLE_REQUEST: the Go schema of its doc comment and the alias.
GET_WORKLOAD_EXAMPLE_REQUEST ==
    [root    |-> GStruct("GET_WORKLOAD_EXAMPLE_REQUEST__MOGENIUS_OPERATOR_SRC_UTILS_RESOURCEDESCRIPTOR"),
     type    |-> <<"GET_WORKLOAD_EXAMPLE_REQUEST__MOGENIUS_OPERATOR_SRC_UTILS_RESOURCEDESCRIPTOR">>,
     structs |-> "GET_WORKLOAD_EXAMPLE_REQUEST__MOGENIUS_OPERATOR_SRC_UTILS_RESOURCEDESCRIPTOR" :> <<<<"apiVersion", GStr>>, <<"kind", GStr>>, <<"namespaced", GBool>>, <<"plural", GStr>>>>]

\* GET_WORKLOAD_LIST_REQUEST: the Go schema of its doc comment and the alias.
GET_WORKLOAD_LIST_REQUEST ==
    [root    |-> GStruct("GET_WORKLOAD_LIST_REQUEST__MOGENIUS_OPERATOR_SRC_CORE_REQUEST"),
     type    |-> <<"GET_WORKLOAD_LIST_REQUEST__MOGENIUS_OPERATOR_SRC_CORE_REQUEST">>,
     structs |-> "GET_WORKLOAD_LIST_REQUEST__MOGENIUS_OPERATOR_SRC_CORE_REQUEST" :> <<<<"apiVersion", GStr>>, <<"kind", GStr>>, <<"namespace", GPtr(GStr)>>, <<"plural", GStr>>, <<"withData", GPtr(GBool)>>>>]

\* GET_WORKLOAD_STATUS_REQUEST: the Go schema of its doc comment and the alias.
GET_WORKLOAD_STATUS_REQUEST ==
    [root    |-> GStruct("GET_WORKLOAD_STATUS_REQUEST__MOGENIUS_OPERATOR_SRC_KUBERNETES_GETWORKLOADSTATUSREQUEST"),
     type    |-> <<"GET_WORKLOAD_STATUS_REQUEST__MOGENIUS_OPERATOR_SRC_KUBERNETES_GETWORKLOADSTATUSREQUEST">>,
     structs |-> "GET_WORKLOAD_STATUS_REQUEST__MOGENIUS_OPERATOR_SRC_KUBERNETES_GETWORKLOADSTATUSHELMRELEASENAMEREQUEST" :> <<<<"namespace", GStr>>, <<"release", GStr>>>> @@
                 "GET_WORKLOAD_STATUS_REQUEST__MOGENIUS_OPERATOR_SRC_KUBERNETES_GETWORKLOADSTATUSREQUEST" :> <<<<"helmReleases", GPtr(GArray(GStruct("GET_WORKLOAD_STATUS_REQUEST__MOGENIUS_OPERATOR_SRC_KUBERNETES_GETWORKLOADSTATUSHELMRELEASENAMEREQUEST")))>>, <<"ignoreDependentResources", GPtr(GBool)>>, <<"namespaces", GPtr(GArray(GStr))>>, <<"resourceDescriptor", GPtr(GStruct("GET_WORKLOAD_STATUS_REQUEST__MOGENIUS_OPERATOR_SRC_UTILS_RESOURCEDESCRIPTOR"))>>, <<"resourceNames", GPtr(GArray(GStr))>>>> @@
                 "GET_WORKLOAD_STATUS_REQUEST__MOGENIUS_OPERATOR_SRC_UTILS_RESOURCEDESCRIPTOR" :> <<<<"apiVersion", GStr>>, <<"kind", GStr>>, <<"namespaced", GBool>>, <<"plural", GStr>>>>]

\* GET_WORKSPACE_REQUEST: the Go schema of its doc comment and the alias.
GET_WORKSPACE_REQUEST ==
    [root    |-> GStruct("GET_WORKSPACE_REQUEST__MOGENIUS_OPERATOR_SRC_CORE_REQUEST"),
     type    |-> <<"GET_WORKSPACE_REQUEST__MOGENIUS_OPERATOR_SRC_CORE_REQUEST">>,
     structs |-> "GET_WORKSPACE_REQUEST__MOGENIUS_OPERATOR_SRC_CORE_REQUEST" :> <<<<"name", GStr>>, <<"namespace", GStr>>>>]

\* GET_WORKSPACES_REQUEST: the Go schema of its doc comment and the alias.
GET_WORKSPACES_REQUEST ==
    [root    |-> GPtr(GStruct("GET_WORKSPACES_REQUEST__ANON_STRUCT_0")),
     type    |-> <<"GET_WORKSPACES_REQUEST__ANON_STRUCT_0", "|", "undefined">>,
     structs |-> "GET_WORKSPACES_REQUEST__ANON_STRUCT_0" :> <<>>]

\* GET_WORKSPACE_WORKLOADS_REQUEST: the Go schema of its doc comment and the alias.
GET_WORKSPACE_WORKLOADS_REQUEST ==
    [root    |-> GStruct("GET_WORKSPACE_WORKLOADS_REQUEST__MOGENIUS_OPERATOR_SRC_CORE_REQUEST"),
     type    |-> <<"GET_WORKSPACE_WORKLOADS_REQUEST__MOGENIUS_OPERATOR_SRC_CORE_REQUEST">>,
     structs |-> "GET_WORKSPACE_WORKLOADS_REQUEST__MOGENIUS_OPERATOR_SRC_CORE_REQUEST" :> <<<<"blacklist", GArray(GPtr(GStruct("GET_WORKSPACE_WORKLOADS_REQUEST__MOGENIUS_OPERATOR_SRC_UTILS_RESOURCEDESCRIPTOR")))>>, <<"namespaceWhitelist", GArray(GStr)>>, <<"whitelist", GArray(GPtr(GStruct("GET_WORKSPACE_WORKLOADS_REQUEST__MOGENIUS_OPERATOR_SRC_UTILS_RESOURCEDESCRIPTOR")))>>, <<"workspaceName", GStr>>>> @@
                 "GET_WORKSPACE_WORKLOADS_REQUEST__MOGENIUS_OPERATOR_SRC_UTILS_RESOURCEDESCRIPTOR" :> <<<<"apiVersion", GStr>>, <<"kind", GStr>>, <<"namespaced", GBool>>, <<"plural", GStr>>>>]

\* INSTALL_CERT_MANAGER_REQUEST: the Go schema of its doc comment and the alias.
INSTALL_CERT_MANAGER_REQUEST ==
    [root    |-> GPtr(GStruct("INSTALL_CERT_MANAGER_REQUEST__ANON_STRUCT_0")),
     type    |-> <<"INSTALL_CERT_MANAGER_REQUEST__ANON_STRUCT_0", "|", "undefined">>,
     structs |-> "INSTALL_CERT_MANAGER_REQUEST__ANON_STRUCT_0" :> <<>>]

\* INSTALL_CLUSTER_ISSUER_REQUEST: the Go schema of its doc comment and the alias.
INSTALL_CLUSTER_ISSUER_REQUEST ==
    [root    |-> GStruct("INSTALL_CLUSTER_ISSUER_REQUEST__MOGENIUS_OPERATOR_SRC_CORE_REQUEST"),
     type    |-> <<"INSTALL_CLUSTER_ISSUER_REQUEST__MOGENIUS_OPERATOR_SRC_CORE_REQUEST">>,
     structs |-> "INSTALL_CLUSTER_ISSUER_REQUEST__MOGENIUS_OPERATOR_SRC_CORE_REQUEST" :> <<<<"email", GStr>>>>]

\* INSTALL_INGRESS_CONTROLLER_TRAEFIK_REQUEST: the Go schema of its doc comment and the alias.
INSTALL_INGRESS_CONTROLLER_TRAEFIK_REQUEST ==
    [root    |-> GPtr(GStruct("INSTALL_INGRESS_CONTROLLER_TRAEFIK_REQUEST__ANON_STRUCT_0")),
     type    |-> <<"INSTALL_INGRESS_CONTROLLER_TRAEFIK_REQUEST__ANON_STRUCT_0", "|", "undefined">>,
     structs |-> "INSTALL_INGRESS_CONTROLLER_TRAEFIK_REQUEST__ANON_STRUCT_0" :> <<>>]

\* INSTALL_KEPLER_REQUEST: the Go schema of its doc comment and the alias.
INSTALL_KEPLER_REQUEST ==
    [root    |-> GPtr(GStruct("INSTALL_KEPLER_REQUEST__ANON_STRUCT_0")),
     type    |-> <<"INSTALL_KEPLER_REQUEST__ANON_STRUCT_0", "|", "undefined">>,
     structs |-> "INSTALL_KEPLER_REQUEST__ANON_STRUCT_0" :> <<>>]

\* INSTALL_METALLB_REQUEST: the Go schema of its doc comment and the alias.
INSTALL_METALLB_REQUEST ==
    [root    |-> GPtr(GStruct("INSTALL_METALLB_REQUEST__ANON_STRUCT_0")),
     type    |-> <<"INSTALL_METALLB_REQUEST__ANON_STRUCT_0", "|", "undefined">>,
     structs |-> "INSTALL_METALLB_REQUEST__ANON_STRUCT_0" :> <<>>]

\* INSTALL_METRICS_SERVER_REQUEST: the Go schema of its doc comment and the alias.
INSTALL_METRICS_SERVER_REQUEST ==
    [root    |-> GPtr(GStruct("INSTALL_METRICS_SERVER_REQUEST__ANON_STRUCT_0")),
     type    |-> <<"INSTALL_METRICS_SERVER_REQUEST__ANON_STRUCT_0", "|", "undefined">>,
     structs |-> "INSTALL_METRICS_SERVER_REQUEST__ANON_STRUCT_0" :> <<>>]

\* LIST_ALL_RESOURCE_DESCRIPTORS_REQUEST: the Go schema of its doc comment and the alias.
LIST_ALL_RESOURCE_DESCRIPTORS_REQUEST ==
    [root    |-> GPtr(GStruct("LIST_ALL_RESOURCE_DESCRIPTORS_REQUEST__ANON_STRUCT_0")),
     type    |-> <<"LIST_ALL_RESOURCE_DESCRIPTORS_REQUEST__ANON_STRUCT_0", "|", "undefined">>,
     structs |-> "LIST_ALL_RESOURCE_DESCRIPTORS_REQUEST__ANON_STRUCT_0" :> <<>>]

\* LIVE_STREAM_NODES_CPU_REQUEST: the Go schema of its doc comment and the alias.
LIVE_STREAM_NODES_CPU_REQUEST ==
    [root    |-> GStruct("LIVE_STREAM_NODES_CPU_REQUEST__MOGENIUS_OPERATOR_SRC_XTERM_WSCONNECTIONREQUEST"),
     type    |-> <<"LIVE_STREAM_NODES_CPU_REQUEST__MOGENIUS_OPERATOR_SRC_XTERM_WSCONNECTIONREQUEST">>,
     structs |-> "LIVE_STREAM_NODES_CPU_REQUEST__MOGENIUS_OPERATOR_SRC_XTERM_WSCONNECTIONREQUEST" :> <<<<"channelId", GStr>>, <<"cmdType", GStr>>, <<"nodeName", GStr>>, <<"podName", GStr>>, <<"websocketHost", GStr>>, <<"websocketScheme", GStr>>, <<"workspace", GStr>>>>]

\* LIVE_STREAM_NODES_MEMORY_REQUEST: the Go schema of its doc comment and the alias.
LIVE_STREAM_NODES_MEMORY_REQUEST ==
    [root    |-> GStruct("LIVE_STREAM_NODES_MEMORY_REQUEST__MOGENIUS_OPERATOR_SRC_XTERM_WSCONNECTIONREQUEST"),
     type    |-> <<"LIVE_STREAM_NODES_MEMORY_REQUEST__MOGENIUS_OPERATOR_SRC_XTERM_WSCONNECTIONREQUEST">>,
     structs |-> "LIVE_STREAM_NODES_MEMORY_REQUEST__MOGENIUS_OPERATOR_SRC_XTERM_WSCONNECTIONREQUEST" :> <<<<"channelId", GStr>>, <<"cmdType", GStr>>, <<"nodeName", GStr>>, <<"podName", GStr>>, <<"websocketHost", GStr>>, <<"websocketScheme", GStr>>, <<"workspace", GStr>>>>]

\* LIVE_STREAM_NODES_TRAFFIC_REQUEST: the Go schema of its doc comment and the alias.
LIVE_STREAM_NODES_TRAFFIC_REQUEST ==
    [root    |-> GStruct("LIVE_STREAM_NODES_TRAFFIC_REQUEST__MOGENIUS_OPERATOR_SRC_XTERM_WSCONNECTIONREQUEST"),
     type    |-> <<"LIVE_STREAM_NODES_TRAFFIC_REQUEST__MOGENIUS_OPERATOR_SRC_XTERM_WSCONNECTIONREQUEST">>,
     structs |-> "LIVE_STREAM_NODES_TRAFFIC_REQUEST__MOGENIUS_OPERATOR_SRC_XTERM_WSCONNECTIONREQUEST" :> <<<<"channelId", GStr>>, <<"cmdType", GStr>>, <<"nodeName", GStr>>, <<"podName", GStr>>, <<"websocketHost", GStr>>, <<"websocketScheme", GStr>>, <<"workspace", GStr>>>>]

\* LIVE_STREAM_POD_CPU_REQUEST: the Go schema of its doc comment and the alias.
LIVE_STREAM_POD_CPU_REQUEST ==
    [root    |-> GStruct("LIVE_STREAM_POD_CPU_REQUEST__MOGENIUS_OPERATOR_SRC_XTERM_WSCONNECTIONREQUEST"),
     type    |-> <<"LIVE_STREAM_POD_CPU_REQUEST__MOGENIUS_OPERATOR_SRC_XTERM_WSCONNECTIONREQUEST">>,
     structs |-> "LIVE_STREAM_POD_CPU_REQUEST__MOGENIUS_OPERATOR_SRC_XTERM_WSCONNECTIONREQUEST" :> <<<<"channelId", GStr>>, <<"cmdType", GStr>>, <<"nodeName", GStr>>, <<"podName", GStr>>, <<"websocketHost", GStr>>, <<"websocketScheme", GStr>>, <<"workspace", GStr>>>>]

\* LIVE_STREAM_POD_MEMORY_REQUEST: the Go schema of its doc comment and the alias.
LIVE_STREAM_POD_MEMORY_REQUEST ==
    [root    |-> GStruct("LIVE_STREAM_POD_MEMORY_REQUEST__MOGENIUS_OPERATOR_SRC_XTERM_WSCONNECTIONREQUEST"),
     type    |-> <<"LIVE_STREAM_POD_MEMORY_REQUEST__MOGENIUS_OPERATOR_SRC_XTERM_WSCONNECTIONREQUEST">>,
     structs |-> "LIVE_STREAM_POD_MEMORY_REQUEST__MOGENIUS_OPERATOR_SRC_XTERM_WSCONNECTIONREQUEST" :> <<<<"channelId", GStr>>, <<"cmdType", GStr>>, <<"nodeName", GStr>>, <<"podName", GStr>>, <<"websocketHost", GStr>>, <<"websocketScheme", GStr>>, <<"workspace", GStr>>>>]

\* LIVE_STREAM_POD_TRAFFIC_REQUEST: the Go schema of its doc comment and the alias.
LIVE_STREAM_POD_TRAFFIC_REQUEST ==
    [root    |-> GStruct("LIVE_STREAM_POD_TRAFFIC_REQUEST__MOGENIUS_OPERATOR_SRC_XTERM_WSCONNECTIONREQUEST"),
     type    |-> <<"LIVE_STREAM_POD_TRAFFIC_REQUEST__MOGENIUS_OPERATOR_SRC_XTERM_WSCONNECTIONREQUEST">>,
     structs |-> "LIVE_STREAM_POD_TRAFFIC_REQUEST__MOGENIUS_OPERATOR_SRC_XTERM_WSCONNECTIONREQUEST" :> <<<<"channelId", GStr>>, <<"cmdType", GStr>>, <<"nodeName", GStr>>, <<"podName", GStr>>, <<"websocketHost", GStr>>, <<"websocketScheme", GStr>>, <<"workspace", GStr>>>>]

\* LIVE_STREAM_WORKSPACE_CPU_REQUEST: the Go schema of its doc comment and the alias.
LIVE_STREAM_WORKSPACE_CPU_REQUEST ==
    [root    |-> GStruct("LIVE_STREAM_WORKSPACE_CPU_REQUEST__MOGENIUS_OPERATOR_SRC_XTERM_WSCONNECTIONREQUEST"),
     type    |-> <<"LIVE_STREAM_WORKSPACE_CPU_REQUEST__MOGENIUS_OPERATOR_SRC_XTERM_WSCONNECTIONREQUEST">>,
     structs |-> "LIVE_STREAM_WORKSPACE_CPU_REQUEST__MOGENIUS_OPERATOR_SRC_XTERM_WSCONNECTIONREQUEST" :> <<<<"channelId", GStr>>, <<"cmdType", GStr>>, <<"nodeName", GStr>>, <<"podName", GStr>>, <<"websocketHost", GStr>>, <<"websocketScheme", GStr>>, <<"workspace", GStr>>>>]

\* LIVE_STREAM_WORKSPACE_MEMORY_REQUEST: the Go schema of its doc comment and the alias.
LIVE_STREAM_WORKSPACE_MEMORY_REQUEST ==
    [root    |-> GStruct("LIVE_STREAM_WORKSPACE_MEMORY_REQUEST__MOGENIUS_OPERATOR_SRC_XTERM_WSCONNECTIONREQUEST"),
     type    |-> <<"LIVE_STREAM_WORKSPACE_MEMORY_REQUEST__MOGENIUS_OPERATOR_SRC_XTERM_WSCONNECTIONREQUEST">>,
     structs |-> "LIVE_STREAM_WORKSPACE_MEMORY_REQUEST__MOGENIUS_OPERATOR_SRC_XTERM_WSCONNECTIONREQUEST" :> <<<<"channelId", GStr>>, <<"cmdType", GStr>>, <<"nodeName", GStr>>, <<"podName", GStr>>, <<"websocketHost", GStr>>, <<"websocketScheme", GStr>>, <<"workspace", GStr>>>>]

\* LIVE_STREAM_WORKSPACE_TRAFFIC_REQUEST: the Go schema of its doc comment and the alias.
LIVE_STREAM_WORKSPACE_TRAFFIC_REQUEST ==
    [root    |-> GStruct("LIVE_STREAM_WORKSPACE_TRAFFIC_REQUEST__MOGENIUS_OPERATOR_SRC_XTERM_WSCONNECTIONREQUEST"),
     type    |-> <<"LIVE_STREAM_WORKSPACE_TRAFFIC_REQUEST__MOGENIUS_OPERATOR_SRC_XTERM_WSCONNECTIONREQUEST">>,
     structs |-> "LIVE_STREAM_WORKSPACE_TRAFFIC_REQUEST__MOGENIUS_OPERATOR_SRC_XTERM_WSCONNECTIONREQUEST" :> <<<<"channelId", GStr>>, <<"cmdType", GStr>>, <<"nodeName", GStr>>, <<"podName", GStr>>, <<"websocketHost", GStr>>, <<"websocketScheme", GStr>>, <<"workspace", GStr>>>>]

\* PROMETHEUS_CHARTS_ADD_REQUEST: the Go schema of its doc comment and the alias.
PROMETHEUS_CHARTS_ADD_REQUEST ==
    [root    |-> GStruct("PROMETHEUS_CHARTS_ADD_REQUEST__MOGENIUS_OPERATOR_SRC_CORE_PROMETHEUSREQUESTREDIS"),
     type    |-> <<"PROMETHEUS_CHARTS_ADD_REQUEST__MOGENIUS_OPERATOR_SRC_CORE_PROMETHEUSREQUESTREDIS">>,
     structs |-> "PROMETHEUS_CHARTS_ADD_REQUEST__MOGENIUS_OPERATOR_SRC_CORE_PROMETHEUSREQUESTREDIS" :> <<<<"controller", GStr>>, <<"namespace", GStr>>, <<"query", GStr>>, <<"queryName", GStr>>, <<"step", GInt>>>>]

\* PROMETHEUS_CHARTS_GET_REQUEST: the Go schema of its doc comment and the alias.
PROMETHEUS_CHARTS_GET_REQUEST ==
    [root    |-> GStruct("PROMETHEUS_CHARTS_GET_REQUEST__MOGENIUS_OPERATOR_SRC_CORE_PROMETHEUSREQUESTREDIS"),
     type    |-> <<"PROMETHEUS_CHARTS_GET_REQUEST__MOGENIUS_OPERATOR_SRC_CORE_PROMETHEUSREQUESTREDIS">>,
     structs |-> "PROMETHEUS_CHARTS_GET_REQUEST__MOGENIUS_OPERATOR_SRC_CORE_PROMETHEUSREQUESTREDIS" :> <<<<"controller", GStr>>, <<"namespace", GStr>>, <<"query", GStr>>, <<"queryName", GStr>>, <<"step", GInt>>>>]

\* PROMETHEUS_CHARTS_LIST_REQUEST: the Go schema of its doc comment and the alias.
PROMETHEUS_CHARTS_LIST_REQUEST ==
    [root    |-> GStruct("PROMETHEUS_CHARTS_LIST_REQUEST__MOGENIUS_OPERATOR_SRC_CORE_PROMETHEUSREQUESTREDISLIST"),
     type    |-> <<"PROMETHEUS_CHARTS_LIST_REQUEST__MOGENIUS_OPERATOR_SRC_CORE_PROMETHEUSREQUESTREDISLIST">>,
     structs |-> "PROMETHEUS_CHARTS_LIST_REQUEST__MOGENIUS_OPERATOR_SRC_CORE_PROMETHEUSREQUESTREDISLIST" :> <<<<"controller", GStr>>, <<"namespace", GStr>>>>]

\* PROMETHEUS_CHARTS_REMOVE_REQUEST: the Go schema of its doc comment and the alias.
PROMETHEUS_CHARTS_REMOVE_REQUEST ==
    [root    |-> GStruct("PROMETHEUS_CHARTS_REMOVE_REQUEST__MOGENIUS_OPERATOR_SRC_CORE_PROMETHEUSREQUESTREDIS"),
     type    |-> <<"PROMETHEUS_CHARTS_REMOVE_REQUEST__MOGENIUS_OPERATOR_SRC_CORE_PROMETHEUSREQUESTREDIS">>,
     structs |-> "PROMETHEUS_CHARTS_REMOVE_REQUEST__MOGENIUS_OPERATOR_SRC_CORE_PROMETHEUSREQUESTREDIS" :> <<<<"controller", GStr>>, <<"namespace", GStr>>, <<"query", GStr>>, <<"queryName", GStr>>, <<"step", GInt>>>>]

\* PROMETHEUS_IS_REACHABLE_REQUEST: the Go schema of its doc comment and the alias.
PROMETHEUS_IS_REACHABLE_REQUEST ==
    [root    |-> GStruct("PROMETHEUS_IS_REACHABLE_REQUEST__MOGENIUS_OPERATOR_SRC_CORE_PROMETHEUSREQUEST"),
     type    |-> <<"PROMETHEUS_IS_REACHABLE_REQUEST__MOGENIUS_OPERATOR_SRC_CORE_PROMETHEUSREQUEST">>,
     structs |-> "PROMETHEUS_IS_REACHABLE_REQUEST__MOGENIUS_OPERATOR_SRC_CORE_PROMETHEUSREQUEST" :> <<<<"prometheusPass", GStr>>, <<"prometheusToken", GStr>>, <<"prometheusUrl", GStr>>, <<"prometheusUser", GStr>>, <<"query", GStr>>, <<"step", GInt>>, <<"timeOffsetSeconds", GInt>>>>]

\* PROMETHEUS_QUERY_REQUEST: the Go schema of its doc comment and the alias.
PROMETHEUS_QUERY_REQUEST ==
    [root    |-> GStruct("PROMETHEUS_QUERY_REQUEST__MOGENIUS_OPERATOR_SRC_CORE_PROMETHEUSREQUEST"),
     type    |-> <<"PROMETHEUS_QUERY_REQUEST__MOGENIUS_OPERATOR_SRC_CORE_PROMETHEUSREQUEST">>,
     structs |-> "PROMETHEUS_QUERY_REQUEST__MOGENIUS_OPERATOR_SRC_CORE_PROMETHEUSREQUEST" :> <<<<"prometheusPass", GStr>>, <<"prometheusToken", GStr>>, <<"prometheusUrl", GStr>>, <<"prometheusUser", GStr>>, <<"query", GStr>>, <<"step", GInt>>, <<"timeOffsetSeconds", GInt>>>>]

\* PROMETHEUS_VALUES_REQUEST: the Go schema of its doc comment and the alias.
PROMETHEUS_VALUES_REQUEST ==
    [root    |-> GStruct("PROMETHEUS_VALUES_REQUEST__MOGENIUS_OPERATOR_SRC_CORE_PROMETHEUSREQUEST"),
     type    |-> <<"PROMETHEUS_VALUES_REQUEST__MOGENIUS_OPERATOR_SRC_CORE_PROMETHEUSREQUEST">>,
     structs |-> "PROMETHEUS_VALUES_REQUEST__MOGENIUS_OPERATOR_SRC_CORE_PROMETHEUSREQUEST" :> <<<<"prometheusPass", GStr>>, <<"prometheusToken", GStr>>, <<"prometheusUrl", GStr>>, <<"prometheusUser", GStr>>, <<"query", GStr>>, <<"step", GInt>>, <<"timeOffsetSeconds", GInt>>>>]

\* SEALED_SECRET_CREATE_FROM_EXISTING_REQUEST: the Go schema of its doc comment and the alias.
SEALED_SECRET_CREATE_FROM_EXISTING_REQUEST ==
    [root    |-> GStruct("SEALED_SECRET_CREATE_FROM_EXISTING_REQUEST__MOGENIUS_OPERATOR_SRC_CORE_REQUEST"),
     type    |-> <<"SEALED_SECRET_CREATE_FROM_EXISTING_REQUEST__MOGENIUS_OPERATOR_SRC_CORE_REQUEST">>,
     structs |-> "SEALED_SECRET_CREATE_FROM_EXISTING_REQUEST__MOGENIUS_OPERATOR_SRC_CORE_REQUEST" :> <<<<"name", GStr>>, <<"namespace", GStr>>>>]

\* SEALED_SECRET_GET_CERTIFICATE_REQUEST: the Go schema of its doc comment and the alias.
SEALED_SECRET_GET_CERTIFICATE_REQUEST ==
    [root    |-> GPtr(GStruct("SEALED_SECRET_GET_CERTIFICATE_REQUEST__ANON_STRUCT_0")),
     type    |-> <<"SEALED_SECRET_GET_CERTIFICATE_REQUEST__ANON_STRUCT_0", "|", "undefined">>,
     structs |-> "SEALED_SECRET_GET_CERTIFICATE_REQUEST__ANON_STRUCT_0" :> <<>>]

\* SERVICE_EXEC_SH_CONNECTION_REQUEST_REQUEST: the Go schema of its doc comment and the alias.
SERVICE_EXEC_SH_CONNECTION_REQUEST_REQUEST ==
    [root    |-> GStruct("SERVICE_EXEC_SH_CONNECTION_REQUEST_REQUEST__MOGENIUS_OPERATOR_SRC_XTERM_PODCMDCONNECTIONREQUEST"),
     type    |-> <<"SERVICE_EXEC_SH_CONNECTION_REQUEST_REQUEST__MOGENIUS_OPERATOR_SRC_XTERM_PODCMDCONNECTIONREQUEST">>,
     structs |-> "SERVICE_EXEC_SH_CONNECTION_REQUEST_REQUEST__MOGENIUS_OPERATOR_SRC_XTERM_PODCMDCONNECTIONREQUEST" :> <<<<"container", GStr>>, <<"controller", GStr>>, <<"logTail", GStr>>, <<"namespace", GStr>>, <<"pod", GStr>>, <<"wsConnectionRequest", GStruct("SERVICE_EXEC_SH_CONNECTION_REQUEST_REQUEST__MOGENIUS_OPERATOR_SRC_XTERM_WSCONNECTIONREQUEST")>>>> @@
                 "SERVICE_EXEC_SH_CONNECTION_REQUEST_REQUEST__MOGENIUS_OPERATOR_SRC_XTERM_WSCONNECTIONREQUEST" :> <<<<"channelId", GStr>>, <<"cmdType", GStr>>, <<"nodeName", GStr>>, <<"podName", GStr>>, <<"websocketHost", GStr>>, <<"websocketScheme", GStr>>, <<"workspace", GStr>>>>]

\* SERVICE_LOG_STREAM_CONNECTION_REQUEST_REQUEST: the Go schema of its doc comment and the alias.
SERVICE_LOG_STREAM_CONNECTION_REQUEST_REQUEST ==
    [root    |-> GStruct("SERVICE_LOG_STREAM_CONNECTION_REQUEST_REQUEST__MOGENIUS_OPERATOR_SRC_XTERM_PODCMDCONNECTIONREQUEST"),
     type    |-> <<"SERVICE_LOG_STREAM_CONNECTION_REQUEST_REQUEST__MOGENIUS_OPERATOR_SRC_XTERM_PODCMDCONNECTIONREQUEST">>,
     structs |-> "SERVICE_LOG_STREAM_CONNECTION_REQUEST_REQUEST__MOGENIUS_OPERATOR_SRC_XTERM_PODCMDCONNECTIONREQUEST" :> <<<<"container", GStr>>, <<"controller", GStr>>, <<"logTail", GStr>>, <<"namespace", GStr>>, <<"pod", GStr>>, <<"wsConnectionRequest", GStruct("SERVICE_LOG_STREAM_CONNECTION_REQUEST_REQUEST__MOGENIUS_OPERATOR_SRC_XTERM_WSCONNECTIONREQUEST")>>>> @@
                 "SERVICE_LOG_STREAM_CONNECTION_REQUEST_REQUEST__MOGENIUS_OPERATOR_SRC_XTERM_WSCONNECTIONREQUEST" :> <<<<"channelId", GStr>>, <<"cmdType", GStr>>, <<"nodeName", GStr>>, <<"podName", GStr>>, <<"websocketHost", GStr>>, <<"websocketScheme", GStr>>, <<"workspace", GStr>>>>]

\* SERVICE_POD_EVENT_STREAM_CONNECTION_REQUEST_REQUEST: the Go schema of its doc comment and the alias.
SERVICE_POD_EVENT_STREAM_CONNECTION_REQUEST_REQUEST ==
    [root    |-> GStruct("SERVICE_POD_EVENT_STREAM_CONNECTION_REQUEST_REQUEST__MOGENIUS_OPERATOR_SRC_XTERM_PODEVENTCONNECTIONREQUEST"),
     type    |-> <<"SERVICE_POD_EVENT_STREAM_CONNECTION_REQUEST_REQUEST__MOGENIUS_OPERATOR_SRC_XTERM_PODEVENTCONNECTIONREQUEST">>,
     structs |-> "SERVICE_POD_EVENT_STREAM_CONNECTION_REQUEST_REQUEST__MOGENIUS_OPERATOR_SRC_XTERM_PODEVENTCONNECTIONREQUEST" :> <<<<"controller", GStr>>, <<"namespace", GStr>>, <<"wsConnectionRequest", GStruct("SERVICE_POD_EVENT_STREAM_CONNECTION_REQUEST_REQUEST__MOGENIUS_OPERATOR_SRC_XTERM_WSCONNECTIONREQUEST")>>>> @@
                 "SERVICE_POD_EVENT_STREAM_CONNECTION_REQUEST_REQUEST__MOGENIUS_OPERATOR_SRC_XTERM_WSCONNECTIONREQUEST" :> <<<<"channelId", GStr>>, <<"cmdType", GStr>>, <<"nodeName", GStr>>, <<"podName", GStr>>, <<"websocketHost", GStr>>, <<"websocketScheme", GStr>>, <<"workspace", GStr>>>>]

\* STATS_POD_ALL_FOR_CONTROLLER_REQUEST: the Go schema of its doc comment and the alias.
STATS_POD_ALL_FOR_CONTROLLER_REQUEST ==
    [root    |-> GStruct("STATS_POD_ALL_FOR_CONTROLLER_REQUEST__MOGENIUS_OPERATOR_SRC_CORE_REQUEST"),
     type    |-> <<"STATS_POD_ALL_FOR_CONTROLLER_REQUEST__MOGENIUS_OPERATOR_SRC_CORE_REQUEST">>,
     structs |-> "STATS_POD_ALL_FOR_CONTROLLER_REQUEST__MOGENIUS_OPERATOR_SRC_CORE_REQUEST" :> <<<<"kind", GStr>>, <<"name", GStr>>, <<"namespace", GStr>>, <<"timeOffsetMinutes", GInt>>>>]

\* STATS_TRAFFIC_ALL_FOR_CONTROLLER_REQUEST: the Go schema of its doc comment and the alias.
STATS_TRAFFIC_ALL_FOR_CONTROLLER_REQUEST ==
    [root    |-> GStruct("STATS_TRAFFIC_ALL_FOR_CONTROLLER_REQUEST__MOGENIUS_OPERATOR_SRC_CORE_REQUEST"),
     type    |-> <<"STATS_TRAFFIC_ALL_FOR_CONTROLLER_REQUEST__MOGENIUS_OPERATOR_SRC_CORE_REQUEST">>,
     structs |-> "STATS_TRAFFIC_ALL_FOR_CONTROLLER_REQUEST__MOGENIUS_OPERATOR_SRC_CORE_REQUEST" :> <<<<"kind", GStr>>, <<"name", GStr>>, <<"namespace", GStr>>, <<"timeOffsetMinutes", GInt>>>>]

\* STATS_WORKSPACE_CPU_UTILIZATION_REQUEST: the Go schema of its doc comment and the alias.
STATS_WORKSPACE_CPU_UTILIZATION_REQUEST ==
    [root    |-> GStruct("STATS_WORKSPACE_CPU_UTILIZATION_REQUEST__MOGENIUS_OPERATOR_SRC_CORE_REQUEST"),
     type    |-> <<"STATS_WORKSPACE_CPU_UTILIZATION_REQUEST__MOGENIUS_OPERATOR_SRC_CORE_REQUEST">>,
     structs |-> "STATS_WORKSPACE_CPU_UTILIZATION_REQUEST__MOGENIUS_OPERATOR_SRC_CORE_REQUEST" :> <<<<"timeOffsetMinutes", GInt>>, <<"workspaceName", GStr>>>>]

\* STATS_WORKSPACE_MEMORY_UTILIZATION_REQUEST: the Go schema of its doc comment and the alias.
STATS_WORKSPACE_MEMORY_UTILIZATION_REQUEST ==
    [root    |-> GStruct("STATS_WORKSPACE_MEMORY_UTILIZATION_REQUEST__MOGENIUS_OPERATOR_SRC_CORE_REQUEST"),
     type    |-> <<"STATS_WORKSPACE_MEMORY_UTILIZATION_REQUEST__MOGENIUS_OPERATOR_SRC_CORE_REQUEST">>,
     structs |-> "STATS_WORKSPACE_MEMORY_UTILIZATION_REQUEST__MOGENIUS_OPERATOR_SRC_CORE_REQUEST" :> <<<<"timeOffsetMinutes", GInt>>, <<"workspaceName", GStr>>>>]

\* STATS_WORKSPACE_TRAFFIC_UTILIZATION_REQUEST: the Go schema of its doc comment and the alias.
STATS_WORKSPACE_TRAFFIC_UTILIZATION_REQUEST ==
    [root    |-> GStruct("STATS_WORKSPACE_TRAFFIC_UTILIZATION_REQUEST__MOGENIUS_OPERATOR_SRC_CORE_REQUEST"),
     type    |-> <<"STATS_WORKSPACE_TRAFFIC_UTILIZATION_REQUEST__MOGENIUS_OPERATOR_SRC_CORE_REQUEST">>,
     structs |-> "STATS_WORKSPACE_TRAFFIC_UTILIZATION_REQUEST__MOGENIUS_OPERATOR_SRC_CORE_REQUEST" :> <<<<"timeOffsetMinutes", GInt>>, <<"workspaceName", GStr>>>>]

\* STORAGE_CREATE_VOLUME_REQUEST: the Go schema of its doc comment and the alias.
STORAGE_CREATE_VOLUME_REQUEST ==
    [root    |-> GStruct("STORAGE_CREATE_VOLUME_REQUEST__MOGENIUS_OPERATOR_SRC_SERVICES_NFSVOLUMEREQUEST"),
     type    |-> <<"STORAGE_CREATE_VOLUME_REQUEST__MOGENIUS_OPERATOR_SRC_SERVICES_NFSVOLUMEREQUEST">>,
     structs |-> "STORAGE_CREATE_VOLUME_REQUEST__MOGENIUS_OPERATOR_SRC_SERVICES_NFSVOLUMEREQUEST" :> <<<<"namespaceName", GStr>>, <<"sizeInGb", GInt>>, <<"volumeName", GStr>>>>]

\* STORAGE_DELETE_VOLUME_REQUEST: the Go schema of its doc comment and the alias.
STORAGE_DELETE_VOLUME_REQUEST ==
    [root    |-> GStruct("STORAGE_DELETE_VOLUME_REQUEST__MOGENIUS_OPERATOR_SRC_SERVICES_NFSVOLUMEREQUEST"),
     type    |-> <<"STORAGE_DELETE_VOLUME_REQUEST__MOGENIUS_OPERATOR_SRC_SERVICES_NFSVOLUMEREQUEST">>,
     structs |-> "STORAGE_DELETE_VOLUME_REQUEST__MOGENIUS_OPERATOR_SRC_SERVICES_NFSVOLUMEREQUEST" :> <<<<"namespaceName", GStr>>, <<"sizeInGb", GInt>>, <<"volumeName", GStr>>>>]

\* STORAGE_STATS_REQUEST: the Go schema of its doc comment and the alias.
STORAGE_STATS_REQUEST ==
    [root    |-> GStruct("STORAGE_STATS_REQUEST__MOGENIUS_OPERATOR_SRC_SERVICES_NFSVOLUMESTATSREQUEST"),
     type    |-> <<"STORAGE_STATS_REQUEST__MOGENIUS_OPERATOR_SRC_SERVICES_NFSVOLUMESTATSREQUEST">>,
     structs |-> "STORAGE_STATS_REQUEST__MOGENIUS_OPERATOR_SRC_SERVICES_NFSVOLUMESTATSREQUEST" :> <<<<"namespaceName", GStr>>, <<"volumeName", GStr>>>>]

\* STORAGE_STATUS_REQUEST: the Go schema of its doc comment and the alias.
STORAGE_STATUS_REQUEST ==
    [root    |-> GStruct("STORAGE_STATUS_REQUEST__MOGENIUS_OPERATOR_SRC_SERVICES_NFSSTATUSREQUEST"),
     type    |-> <<"STORAGE_STATUS_REQUEST__MOGENIUS_OPERATOR_SRC_SERVICES_NFSSTATUSREQUEST">>,
     structs |-> "STORAGE_STATUS_REQUEST__MOGENIUS_OPERATOR_SRC_SERVICES_NFSSTATUSREQUEST" :> <<<<"name", GStr>>, <<"namespace", GStr>>, <<"type", GStr>>>>]

\* SYSTEM_CHECK_REQUEST: the Go schema of its doc comment and the alias.
SYSTEM_CHECK_REQUEST ==
    [root    |-> GPtr(GStruct("SYSTEM_CHECK_REQUEST__ANON_STRUCT_0")),
     type    |-> <<"SYSTEM_CHECK_REQUEST__ANON_STRUCT_0", "|", "undefined">>,
     structs |-> "SYSTEM_CHECK_REQUEST__ANON_STRUCT_0" :> <<>>]

\* TRIGGER_WORKLOAD_REQUEST: the Go schema of its doc comment and the alias.
TRIGGER_WORKLOAD_REQUEST ==
    [root    |-> GStruct("TRIGGER_WORKLOAD_REQUEST__MOGENIUS_OPERATOR_SRC_UTILS_WORKLOADSINGLEREQUEST"),
     type    |-> <<"TRIGGER_WORKLOAD_REQUEST__MOGENIUS_OPERATOR_SRC_UTILS_WORKLOADSINGLEREQUEST">>,
     structs |-> "TRIGGER_WORKLOAD_REQUEST__MOGENIUS_OPERATOR_SRC_UTILS_RESOURCEDESCRIPTOR" :> <<<<"apiVersion", GStr>>, <<"kind", GStr>>, <<"namespaced", GBool>>, <<"plural", GStr>>>> @@
                 "TRIGGER_WORKLOAD_REQUEST__MOGENIUS_OPERATOR_SRC_UTILS_WORKLOADSINGLEREQUEST" :> <<<<"ResourceDescriptor", GStruct("TRIGGER_WORKLOAD_REQUEST__MOGENIUS_OPERATOR_SRC_UTILS_RESOURCEDESCRIPTOR")>>, <<"namespace", GStr>>, <<"resourceName", GStr>>>>]

\* UNINSTALL_CERT_MANAGER_REQUEST: the Go schema of its doc comment and the alias.
UNINSTALL_CERT_MANAGER_REQUEST ==
    [root    |-> GPtr(GStruct("UNINSTALL_CERT_MANAGER_REQUEST__ANON_STRUCT_0")),
     type    |-> <<"UNINSTALL_CERT_MANAGER_REQUEST__ANON_STRUCT_0", "|", "undefined">>,
     structs |-> "UNINSTALL_CERT_MANAGER_REQUEST__ANON_STRUCT_0" :> <<>>]

\* UNINSTALL_CLUSTER_ISSUER_REQUEST: the Go schema of its doc comment and the alias.
UNINSTALL_CLUSTER_ISSUER_REQUEST ==
    [root    |-> GPtr(GStruct("UNINSTALL_CLUSTER_ISSUER_REQUEST__ANON_STRUCT_0")),
     type    |-> <<"UNINSTALL_CLUSTER_ISSUER_REQUEST__ANON_STRUCT_0", "|", "undefined">>,
     structs |-> "UNINSTALL_CLUSTER_ISSUER_REQUEST__ANON_STRUCT_0" :> <<>>]

\* UNINSTALL_INGRESS_CONTROLLER_TRAEFIK_REQUEST: the Go schema of its doc comment and the alias.
UNINSTALL_INGRESS_CONTROLLER_TRAEFIK_REQUEST ==
    [root    |-> GPtr(GStruct("UNINSTALL_INGRESS_CONTROLLER_TRAEFIK_REQUEST__ANON_STRUCT_0")),
     type    |-> <<"UNINSTALL_INGRESS_CONTROLLER_TRAEFIK_REQUEST__ANON_STRUCT_0", "|", "undefined">>,
     structs |-> "UNINSTALL_INGRESS_CONTROLLER_TRAEFIK_REQUEST__ANON_STRUCT_0" :> <<>>]

\* UNINSTALL_KEPLER_REQUEST: the Go schema of its doc comment and the alias.
UNINSTALL_KEPLER_REQUEST ==
    [root    |-> GPtr(GStruct("UNINSTALL_KEPLER_REQUEST__ANON_STRUCT_0")),
     type    |-> <<"UNINSTALL_KEPLER_REQUEST__ANON_STRUCT_0", "|", "undefined">>,
     structs |-> "UNINSTALL_KEPLER_REQUEST__ANON_STRUCT_0" :> <<>>]

\* UNINSTALL_METALLB_REQUEST: the Go schema of its doc comment and the alias.
UNINSTALL_METALLB_REQUEST ==
    [root    |-> GPtr(GStruct("UNINSTALL_METALLB_REQUEST__ANON_STRUCT_0")),
     type    |-> <<"UNINSTALL_METALLB_REQUEST__ANON_STRUCT_0", "|", "undefined">>,
     structs |-> "UNINSTALL_METALLB_REQUEST__ANON_STRUCT_0" :> <<>>]

\* UNINSTALL_METRICS_SERVER_REQUEST: the Go schema of its doc comment and the alias.
UNINSTALL_METRICS_SERVER_REQUEST ==
    [root    |-> GPtr(GStruct("UNINSTALL_METRICS_SERVER_REQUEST__ANON_STRUCT_0")),
     type    |-> <<"UNINSTALL_METRICS_SERVER_REQUEST__ANON_STRUCT_0", "|", "undefined">>,
     structs |-> "UNINSTALL_METRICS_SERVER_REQUEST__ANON_STRUCT_0" :> <<>>]

\* UPDATE_GRANT_REQUEST: the Go schema of its doc comment and the alias.
UPDATE_GRANT_REQUEST ==
    [root    |-> GStruct("UPDATE_GRANT_REQUEST__MOGENIUS_OPERATOR_SRC_CORE_REQUEST"),
     type    |-> <<"UPDATE_GRANT_REQUEST__MOGENIUS_OPERATOR_SRC_CORE_REQUEST">>,
     structs |-> "UPDATE_GRANT_REQUEST__MOGENIUS_OPERATOR_SRC_CORE_REQUEST" :> <<<<"grantee", GStr>>, <<"name", GStr>>, <<"role", GStr>>, <<"targetName", GStr>>, <<"targetType", GStr>>>>]

\* UPDATE_USER_REQUEST: the Go schema of its doc comment and the alias.
UPDATE_USER_REQUEST ==
    [root    |-> GStruct("UPDATE_USER_REQUEST__MOGENIUS_OPERATOR_SRC_CORE_REQUEST"),
     type    |-> <<"UPDATE_USER_REQUEST__MOGENIUS_OPERATOR_SRC_CORE_REQUEST">>,
     structs |-> "UPDATE_USER_REQUEST__K8S_IO_API_RBAC_V1_SUBJECT" :> <<<<"apiGroup", GStr>>, <<"kind", GStr>>, <<"name", GStr>>, <<"namespace", GStr>>>> @@
                 "UPDATE_USER_REQUEST__MOGENIUS_OPERATOR_SRC_CORE_REQUEST" :> <<<<"email", GStr>>, <<"firstName", GStr>>, <<"lastName", GStr>>, <<"name", GStr>>, <<"subject", GPtr(GStruct("UPDATE_USER_REQUEST__K8S_IO_API_RBAC_V1_SUBJECT"))>>>>]

\* UPDATE_WORKLOAD_REQUEST: the Go schema of its doc comment and the alias.
UPDATE_WORKLOAD_REQUEST ==
    [root    |-> GStruct("UPDATE_WORKLOAD_REQUEST__MOGENIUS_OPERATOR_SRC_UTILS_WORKLOADCHANGEREQUEST"),
     type    |-> <<"UPDATE_WORKLOAD_REQUEST__MOGENIUS_OPERATOR_SRC_UTILS_WORKLOADCHANGEREQUEST">>,
     structs |-> "UPDATE_WORKLOAD_REQUEST__MOGENIUS_OPERATOR_SRC_UTILS_RESOURCEDESCRIPTOR" :> <<<<"apiVersion", GStr>>, <<"kind", GStr>>, <<"namespaced", GBool>>, <<"plural", GStr>>>> @@
                 "UPDATE_WORKLOAD_REQUEST__MOGENIUS_OPERATOR_SRC_UTILS_WORKLOADCHANGEREQUEST" :> <<<<"ResourceDescriptor", GStruct("UPDATE_WORKLOAD_REQUEST__MOGENIUS_OPERATOR_SRC_UTILS_RESOURCEDESCRIPTOR")>>, <<"namespace", GStr>>, <<"yamlData", GStr>>>>]

\* UPDATE_WORKSPACE_REQUEST: the Go schema of its doc comment and the alias.
UPDATE_WORKSPACE_REQUEST ==
    [root    |-> GStruct("UPDATE_WORKSPACE_REQUEST__MOGENIUS_OPERATOR_SRC_CORE_REQUEST"),
     type    |-> <<"UPDATE_WORKSPACE_REQUEST__MOGENIUS_OPERATOR_SRC_CORE_REQUEST">>,
     structs |-> "UPDATE_WORKSPACE_REQUEST__MOGENIUS_OPERATOR_SRC_CORE_REQUEST" :> <<<<"displayName", GStr>>, <<"name", GStr>>, <<"resources", GArray(GStruct("UPDATE_WORKSPACE_REQUEST__MOGENIUS_OPERATOR_SRC_CRDS_V1ALPHA1_WORKSPACERESOURCEIDENTIFIER"))>>>> @@
                 "UPDATE_WORKSPACE_REQUEST__MOGENIUS_OPERATOR_SRC_CRDS_V1ALPHA1_WORKSPACERESOURCEIDENTIFIER" :> <<<<"id", GStr>>, <<"namespace", GStr>>, <<"type", GStr>>>>]

\* UPGRADEK8SMANAGER_REQUEST: the Go schema of its doc comment and the alias.
UPGRADEK8SMANAGER_REQUEST ==
    [root    |-> GStruct("UPGRADEK8SMANAGER_REQUEST__MOGENIUS_OPERATOR_SRC_CORE_REQUEST"),
     type    |-> <<"UPGRADEK8SMANAGER_REQUEST__MOGENIUS_OPERATOR_SRC_CORE_REQUEST">>,
     structs |-> "UPGRADEK8SMANAGER_REQUEST__MOGENIUS_OPERATOR_SRC_CORE_REQUEST" :> <<<<"command", GStr>>>>]

\* UPGRADE_CERT_MANAGER_REQUEST: the Go schema of its doc comment and the alias.
UPGRADE_CERT_MANAGER_REQUEST ==
    [root    |-> GPtr(GStruct("UPGRADE_CERT_MANAGER_REQUEST__ANON_STRUCT_0")),
     type    |-> <<"UPGRADE_CERT_MANAGER_REQUEST__ANON_STRUCT_0", "|", "undefined">>,
     structs |-> "UPGRADE_CERT_MANAGER_REQUEST__ANON_STRUCT_0" :> <<>>]

\* UPGRADE_INGRESS_CONTROLLER_TRAEFIK_REQUEST: the Go schema of its doc comment and the alias.
UPGRADE_INGRESS_CONTROLLER_TRAEFIK_REQUEST ==
    [root    |-> GPtr(GStruct("UPGRADE_INGRESS_CONTROLLER_TRAEFIK_REQUEST__ANON_STRUCT_0")),
     type    |-> <<"UPGRADE_INGRESS_CONTROLLER_TRAEFIK_REQUEST__ANON_STRUCT_0", "|", "undefined">>,
     structs |-> "UPGRADE_INGRESS_CONTROLLER_TRAEFIK_REQUEST__ANON_STRUCT_0" :> <<>>]

\* UPGRADE_KEPLER_REQUEST: the Go schema of its doc comment and the alias.
UPGRADE_KEPLER_REQUEST ==
    [root    |-> GPtr(GStruct("UPGRADE_KEPLER_REQUEST__ANON_STRUCT_0")),
     type    |-> <<"UPGRADE_KEPLER_REQUEST__ANON_STRUCT_0", "|", "undefined">>,
     structs |-> "UPGRADE_KEPLER_REQUEST__ANON_STRUCT_0" :> <<>>]

\* UPGRADE_METALLB_REQUEST: the Go schema of its doc comment and the alias.
UPGRADE_METALLB_REQUEST ==
    [root    |-> GPtr(GStruct("UPGRADE_METALLB_REQUEST__ANON_STRUCT_0")),
     type    |-> <<"UPGRADE_METALLB_REQUEST__ANON_STRUCT_0", "|", "undefined">>,
     structs |-> "UPGRADE_METALLB_REQUEST__ANON_STRUCT_0" :> <<>>]

\* UPGRADE_METRICS_SERVER_REQUEST: the Go schema of its doc comment and the alias.
UPGRADE_METRICS_SERVER_REQUEST ==
    [root    |-> GPtr(GStruct("UPGRADE_METRICS_SERVER_REQUEST__ANON_STRUCT_0")),
     type    |-> <<"UPGRADE_METRICS_SERVER_REQUEST__ANON_STRUCT_0", "|", "undefined">>,
     structs |-> "UPGRADE_METRICS_SERVER_REQUEST__ANON_STRUCT_0" :> <<>>]

\* WORKSPACE_CLEAN_UP_REQUEST: the Go schema of its doc comment and the alias.
WORKSPACE_CLEAN_UP_REQUEST ==
    [root    |-> GStruct("WORKSPACE_CLEAN_UP_REQUEST__MOGENIUS_OPERATOR_SRC_CORE_REQUEST"),
     type    |-> <<"WORKSPACE_CLEAN_UP_REQUEST__MOGENIUS_OPERATOR_SRC_CORE_REQUEST">>,
     structs |-> "WORKSPACE_CLEAN_UP_REQUEST__MOGENIUS_OPERATOR_SRC_CORE_REQUEST" :> <<<<"configMaps", GBool>>, <<"dryRun", GBool>>, <<"ingresses", GBool>>, <<"jobs", GBool>>, <<"name", GStr>>, <<"pods", GBool>>, <<"replicaSets", GBool>>, <<"secrets", GBool>>, <<"services", GBool>>>>]

=============================================================================
