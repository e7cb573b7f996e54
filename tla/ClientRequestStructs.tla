------------------------ MODULE ClientRequestStructs ------------------------
(***************************************************************************)
(* The struct declarations generated for the Requests of                   *)
(* src/generated/client.ts (lines 8859-9318), in source order: the tokens  *)
(* of the declared name and of the type of every field.                    *)
(***************************************************************************)
EXTENDS ShapeTypes

\* A generator slip: the declaration without its last field.
AuditLogListRequestDroppedField == [name |-> <<"AUDIT_LOG_LIST_REQUEST__MOGENIUS_OPERATOR_SRC_CORE_REQUEST">>, fields |-> <<<<"limit", <<"number">>>>, <<"offset", <<"number">>>>>>]

\* AUDIT_LOG_LIST_REQUEST__MOGENIUS_OPERATOR_SRC_CORE_REQUEST
AUDIT_LOG_LIST_REQUEST__MOGENIUS_OPERATOR_SRC_CORE_REQUEST == [name |-> <<"AUDIT_LOG_LIST_REQUEST__MOGENIUS_OPERATOR_SRC_CORE_REQUEST">>, fields |-> <<<<"limit", <<"number">>>>, <<"offset", <<"number">>>>, <<"workspaceName", <<"string">>>>>>]

\* CLUSTER_ARGO_CD_APPLICATION_REFRESH_REQUEST__MOGENIUS_OPERATOR_SRC_ARGOCD_ARGOCDAPPLICATIONREFRESHREQUEST
CLUSTER_ARGO_CD_APPLICATION_REFRESH_REQUEST__MOGENIUS_OPERATOR_SRC_ARGOCD_ARGOCDAPPLICATIONREFRESHREQUEST == [name |-> <<"CLUSTER_ARGO_CD_APPLICATION_REFRESH_REQUEST__MOGENIUS_OPERATOR_SRC_ARGOCD_ARGOCDAPPLICATIONREFRESHREQUEST">>, fields |-> <<<<"applicationName", <<"string">>>>, <<"username", <<"string">>>>>>]

\* CLUSTER_ARGO_CD_CREATE_API_TOKEN_REQUEST__MOGENIUS_OPERATOR_SRC_ARGOCD_ARGOCDCREATEAPITOKENREQUEST
CLUSTER_ARGO_CD_CREATE_API_TOKEN_REQUEST__MOGENIUS_OPERATOR_SRC_ARGOCD_ARGOCDCREATEAPITOKENREQUEST == [name |-> <<"CLUSTER_ARGO_CD_CREATE_API_TOKEN_REQUEST__MOGENIUS_OPERATOR_SRC_ARGOCD_ARGOCDCREATEAPITOKENREQUEST">>, fields |-> <<<<"username", <<"string">>>>>>]

\* CLUSTER_CLEAR_VALKEY_CACHE_REQUEST__MOGENIUS_OPERATOR_SRC_CORE_REQUEST
CLUSTER_CLEAR_VALKEY_CACHE_REQUEST__MOGENIUS_OPERATOR_SRC_CORE_REQUEST == [name |-> <<"CLUSTER_CLEAR_VALKEY_CACHE_REQUEST__MOGENIUS_OPERATOR_SRC_CORE_REQUEST">>, fields |-> <<<<"includeNodeStats", <<"boolean">>>>, <<"includePodStats", <<"boolean">>>>, <<"includeTraffic", <<"boolean">>>>>>]

\* CLUSTER_COMPONENT_LOG_STREAM_CONNECTION_REQUEST_REQUEST__MOGENIUS_OPERATOR_SRC_XTERM_COMPONENTLOGCONNECTIONREQUEST
CLUSTER_COMPONENT_LOG_STREAM_CONNECTION_REQUEST_REQUEST__MOGENIUS_OPERATOR_SRC_XTERM_COMPONENTLOGCONNECTIONREQUEST == [name |-> <<"CLUSTER_COMPONENT_LOG_STREAM_CONNECTION_REQUEST_REQUEST__MOGENIUS_OPERATOR_SRC_XTERM_COMPONENTLOGCONNECTIONREQUEST">>, fields |-> <<<<"component", <<"string">>>>, <<"controller", <<"string", "|", "undefined">>>>, <<"namespace", <<"string", "|", "undefined">>>>, <<"release", <<"string", "|", "undefined">>>>, <<"wsConnectionRequest", <<"CLUSTER_COMPONENT_LOG_STREAM_CONNECTION_REQUEST_REQUEST__MOGENIUS_OPERATOR_SRC_XTERM_WSCONNECTIONREQUEST">>>>>>]

\* CLUSTER_COMPONENT_LOG_STREAM_CONNECTION_REQUEST_REQUEST__MOGENIUS_OPERATOR_SRC_XTERM_WSCONNECTIONREQUEST
CLUSTER_COMPONENT_LOG_STREAM_CONNECTION_REQUEST_REQUEST__MOGENIUS_OPERATOR_SRC_XTERM_WSCONNECTIONREQUEST == [name |-> <<"CLUSTER_COMPONENT_LOG_STREAM_CONNECTION_REQUEST_REQUEST__MOGENIUS_OPERATOR_SRC_XTERM_WSCONNECTIONREQUEST">>, fields |-> <<<<"channelId", <<"string">>>>, <<"cmdType", <<"string">>>>, <<"nodeName", <<"string">>>>, <<"podName", <<"string">>>>, <<"websocketHost", <<"string">>>>, <<"websocketScheme", <<"string">>>>, <<"workspace", <<"string">>>>>>]

\* CLUSTER_FORCE_DISCONNECT_REQUEST__ANON_STRUCT_0
CLUSTER_FORCE_DISCONNECT_REQUEST__ANON_STRUCT_0 == [name |-> <<"CLUSTER_FORCE_DISCONNECT_REQUEST__ANON_STRUCT_0">>, fields |-> <<>>]

\* CLUSTER_FORCE_RECONNECT_REQUEST__ANON_STRUCT_0
CLUSTER_FORCE_RECONNECT_REQUEST__ANON_STRUCT_0 == [name |-> <<"CLUSTER_FORCE_RECONNECT_REQUEST__ANON_STRUCT_0">>, fields |-> <<>>]

\* CLUSTER_HELM_CHART_INSTALL_REQUEST__MOGENIUS_OPERATOR_SRC_HELM_HELMCHARTINSTALLUPGRADEREQUEST
CLUSTER_HELM_CHART_INSTALL_REQUEST__MOGENIUS_OPERATOR_SRC_HELM_HELMCHARTINSTALLUPGRADEREQUEST == [name |-> <<"CLUSTER_HELM_CHART_INSTALL_REQUEST__MOGENIUS_OPERATOR_SRC_HELM_HELMCHARTINSTALLUPGRADEREQUEST">>, fields |-> <<<<"chart", <<"string">>>>, <<"dryRun", <<"boolean">>>>, <<"namespace", <<"string">>>>, <<"release", <<"string">>>>, <<"values", <<"string">>>>, <<"version", <<"string">>>>>>]

\* CLUSTER_HELM_CHART_INSTALL_OCI_REQUEST__MOGENIUS_OPERATOR_SRC_HELM_HELMCHARTOCIINSTALLUPGRADEREQUEST
CLUSTER_HELM_CHART_INSTALL_OCI_REQUEST__MOGENIUS_OPERATOR_SRC_HELM_HELMCHARTOCIINSTALLUPGRADEREQUEST == [name |-> <<"CLUSTER_HELM_CHART_INSTALL_OCI_REQUEST__MOGENIUS_OPERATOR_SRC_HELM_HELMCHARTOCIINSTALLUPGRADEREQUEST">>, fields |-> <<<<"chart", <<"string">>>>, <<"dryRun", <<"boolean">>>>, <<"namespace", <<"string">>>>, <<"password", <<"string">>>>, <<"registryUrl", <<"string">>>>, <<"release", <<"string">>>>, <<"username", <<"string">>>>, <<"values", <<"string">>>>, <<"version", <<"string">>>>>>]

\* CLUSTER_HELM_CHART_REMOVE_REQUEST__MOGENIUS_OPERATOR_SRC_HELM_HELMREPOREMOVEREQUEST
CLUSTER_HELM_CHART_REMOVE_REQUEST__MOGENIUS_OPERATOR_SRC_HELM_HELMREPOREMOVEREQUEST == [name |-> <<"CLUSTER_HELM_CHART_REMOVE_REQUEST__MOGENIUS_OPERATOR_SRC_HELM_HELMREPOREMOVEREQUEST">>, fields |-> <<<<"name", <<"string">>>>>>]

\* CLUSTER_HELM_CHART_SEARCH_REQUEST__MOGENIUS_OPERATOR_SRC_HELM_HELMCHARTSEARCHREQUEST
CLUSTER_HELM_CHART_SEARCH_REQUEST__MOGENIUS_OPERATOR_SRC_HELM_HELMCHARTSEARCHREQUEST == [name |-> <<"CLUSTER_HELM_CHART_SEARCH_REQUEST__MOGENIUS_OPERATOR_SRC_HELM_HELMCHARTSEARCHREQUEST">>, fields |-> <<<<"name", <<"string">>>>>>]

\* CLUSTER_HELM_CHART_SHOW_REQUEST__MOGENIUS_OPERATOR_SRC_HELM_HELMCHARTSHOWREQUEST
CLUSTER_HELM_CHART_SHOW_REQUEST__MOGENIUS_OPERATOR_SRC_HELM_HELMCHARTSHOWREQUEST == [name |-> <<"CLUSTER_HELM_CHART_SHOW_REQUEST__MOGENIUS_OPERATOR_SRC_HELM_HELMCHARTSHOWREQUEST">>, fields |-> <<<<"chart", <<"string">>>>, <<"format", <<"string">>>>, <<"version", <<"string">>>>>>]

\* CLUSTER_HELM_CHART_VERSIONS_REQUEST__MOGENIUS_OPERATOR_SRC_HELM_HELMCHARTVERSIONREQUEST
CLUSTER_HELM_CHART_VERSIONS_REQUEST__MOGENIUS_OPERATOR_SRC_HELM_HELMCHARTVERSIONREQUEST == [name |-> <<"CLUSTER_HELM_CHART_VERSIONS_REQUEST__MOGENIUS_OPERATOR_SRC_HELM_HELMCHARTVERSIONREQUEST">>, fields |-> <<<<"chart", <<"string">>>>>>]

\* CLUSTER_HELM_RELEASE_GET_REQUEST__MOGENIUS_OPERATOR_SRC_HELM_HELMRELEASEGETREQUEST
CLUSTER_HELM_RELEASE_GET_REQUEST__MOGENIUS_OPERATOR_SRC_HELM_HELMRELEASEGETREQUEST == [name |-> <<"CLUSTER_HELM_RELEASE_GET_REQUEST__MOGENIUS_OPERATOR_SRC_HELM_HELMRELEASEGETREQUEST">>, fields |-> <<<<"getFormat", <<"string">>>>, <<"namespace", <<"string">>>>, <<"release", <<"string">>>>>>]

\* CLUSTER_HELM_RELEASE_GET_WORKLOADS_REQUEST__MOGENIUS_OPERATOR_SRC_HELM_HELMRELEASEGETWORKLOADSREQUEST
CLUSTER_HELM_RELEASE_GET_WORKLOADS_REQUEST__MOGENIUS_OPERATOR_SRC_HELM_HELMRELEASEGETWORKLOADSREQUEST == [name |-> <<"CLUSTER_HELM_RELEASE_GET_WORKLOADS_REQUEST__MOGENIUS_OPERATOR_SRC_HELM_HELMRELEASEGETWORKLOADSREQUEST">>, fields |-> <<<<"namespace", <<"string">>>>, <<"release", <<"string">>>>, <<"whitelist", <<"CLUSTER_HELM_RELEASE_GET_WORKLOADS_REQUEST__MOGENIUS_OPERATOR_SRC_UTILS_RESOURCEDESCRIPTOR", "|", "undefined", "[]">>>>>>]

\* CLUSTER_HELM_RELEASE_GET_WORKLOADS_REQUEST__MOGENIUS_OPERATOR_SRC_UTILS_RESOURCEDESCRIPTOR
CLUSTER_HELM_RELEASE_GET_WORKLOADS_REQUEST__MOGENIUS_OPERATOR_SRC_UTILS_RESOURCEDESCRIPTOR == [name |-> <<"CLUSTER_HELM_RELEASE_GET_WORKLOADS_REQUEST__MOGENIUS_OPERATOR_SRC_UTILS_RESOURCEDESCRIPTOR">>, fields |-> <<<<"apiVersion", <<"string">>>>, <<"kind", <<"string">>>>, <<"namespaced", <<"boolean">>>>, <<"plural", <<"string">>>>>>]

\* CLUSTER_HELM_RELEASE_HISTORY_REQUEST__MOGENIUS_OPERATOR_SRC_HELM_HELMRELEASEHISTORYREQUEST
CLUSTER_HELM_RELEASE_HISTORY_REQUEST__MOGENIUS_OPERATOR_SRC_HELM_HELMRELEASEHISTORYREQUEST == [name |-> <<"CLUSTER_HELM_RELEASE_HISTORY_REQUEST__MOGENIUS_OPERATOR_SRC_HELM_HELMRELEASEHISTORYREQUEST">>, fields |-> <<<<"namespace", <<"string">>>>, <<"release", <<"string">>>>>>]

\* CLUSTER_HELM_RELEASE_LINK_REQUEST__MOGENIUS_OPERATOR_SRC_HELM_HELMRELEASELINKREQUEST
CLUSTER_HELM_RELEASE_LINK_REQUEST__MOGENIUS_OPERATOR_SRC_HELM_HELMRELEASELINKREQUEST == [name |-> <<"CLUSTER_HELM_RELEASE_LINK_REQUEST__MOGENIUS_OPERATOR_SRC_HELM_HELMRELEASELINKREQUEST">>, fields |-> <<<<"namespace", <<"string">>>>, <<"releaseName", <<"string">>>>, <<"repoName", <<"string">>>>>>]

\* CLUSTER_HELM_RELEASE_LIST_REQUEST__MOGENIUS_OPERATOR_SRC_HELM_HELMRELEASELISTREQUEST
CLUSTER_HELM_RELEASE_LIST_REQUEST__MOGENIUS_OPERATOR_SRC_HELM_HELMRELEASELISTREQUEST == [name |-> <<"CLUSTER_HELM_RELEASE_LIST_REQUEST__MOGENIUS_OPERATOR_SRC_HELM_HELMRELEASELISTREQUEST">>, fields |-> <<<<"namespace", <<"string">>>>>>]

\* CLUSTER_HELM_RELEASE_ROLLBACK_REQUEST__MOGENIUS_OPERATOR_SRC_HELM_HELMRELEASEROLLBACKREQUEST
CLUSTER_HELM_RELEASE_ROLLBACK_REQUEST__MOGENIUS_OPERATOR_SRC_HELM_HELMRELEASEROLLBACKREQUEST == [name |-> <<"CLUSTER_HELM_RELEASE_ROLLBACK_REQUEST__MOGENIUS_OPERATOR_SRC_HELM_HELMRELEASEROLLBACKREQUEST">>, fields |-> <<<<"namespace", <<"string">>>>, <<"release", <<"string">>>>, <<"revision", <<"number">>>>>>]

\* CLUSTER_HELM_RELEASE_STATUS_REQUEST__MOGENIUS_OPERATOR_SRC_HELM_HELMRELEASESTATUSREQUEST
CLUSTER_HELM_RELEASE_STATUS_REQUEST__MOGENIUS_OPERATOR_SRC_HELM_HELMRELEASESTATUSREQUEST == [name |-> <<"CLUSTER_HELM_RELEASE_STATUS_REQUEST__MOGENIUS_OPERATOR_SRC_HELM_HELMRELEASESTATUSREQUEST">>, fields |-> <<<<"namespace", <<"string">>>>, <<"release", <<"string">>>>>>]

\* CLUSTER_HELM_RELEASE_UNINSTALL_REQUEST__MOGENIUS_OPERATOR_SRC_HELM_HELMRELEASEUNINSTALLREQUEST
CLUSTER_HELM_RELEASE_UNINSTALL_REQUEST__MOGENIUS_OPERATOR_SRC_HELM_HELMRELEASEUNINSTALLREQUEST == [name |-> <<"CLUSTER_HELM_RELEASE_UNINSTALL_REQUEST__MOGENIUS_OPERATOR_SRC_HELM_HELMRELEASEUNINSTALLREQUEST">>, fields |-> <<<<"dryRun", <<"boolean">>>>, <<"namespace", <<"string">>>>, <<"release", <<"string">>>>>>]

\* CLUSTER_HELM_RELEASE_UPGRADE_REQUEST__MOGENIUS_OPERATOR_SRC_HELM_HELMCHARTINSTALLUPGRADEREQUEST
CLUSTER_HELM_RELEASE_UPGRADE_REQUEST__MOGENIUS_OPERATOR_SRC_HELM_HELMCHARTINSTALLUPGRADEREQUEST == [name |-> <<"CLUSTER_HELM_RELEASE_UPGRADE_REQUEST__MOGENIUS_OPERATOR_SRC_HELM_HELMCHARTINSTALLUPGRADEREQUEST">>, fields |-> <<<<"chart", <<"string">>>>, <<"dryRun", <<"boolean">>>>, <<"namespace", <<"string">>>>, <<"release", <<"string">>>>, <<"values", <<"string">>>>, <<"version", <<"string">>>>>>]

\* CLUSTER_HELM_REPO_ADD_REQUEST__MOGENIUS_OPERATOR_SRC_HELM_HELMREPOADDREQUEST
CLUSTER_HELM_REPO_ADD_REQUEST__MOGENIUS_OPERATOR_SRC_HELM_HELMREPOADDREQUEST == [name |-> <<"CLUSTER_HELM_REPO_ADD_REQUEST__MOGENIUS_OPERATOR_SRC_HELM_HELMREPOADDREQUEST">>, fields |-> <<<<"insecureSkipTLSverify", <<"boolean">>>>, <<"name", <<"string">>>>, <<"passCredentialsAll", <<"boolean">>>>, <<"password", <<"string">>>>, <<"url", <<"string">>>>, <<"username", <<"string">>>>>>]

\* CLUSTER_HELM_REPO_LIST_REQUEST__ANON_STRUCT_0
CLUSTER_HELM_REPO_LIST_REQUEST__ANON_STRUCT_0 == [name |-> <<"CLUSTER_HELM_REPO_LIST_REQUEST__ANON_STRUCT_0">>, fields |-> <<>>]

\* CLUSTER_HELM_REPO_PATCH_REQUEST__MOGENIUS_OPERATOR_SRC_HELM_HELMREPOPATCHREQUEST
CLUSTER_HELM_REPO_PATCH_REQUEST__MOGENIUS_OPERATOR_SRC_HELM_HELMREPOPATCHREQUEST == [name |-> <<"CLUSTER_HELM_REPO_PATCH_REQUEST__MOGENIUS_OPERATOR_SRC_HELM_HELMREPOPATCHREQUEST">>, fields |-> <<<<"insecureSkipTLSverify", <<"boolean">>>>, <<"name", <<"string">>>>, <<"newName", <<"string">>>>, <<"passCredentialsAll", <<"boolean">>>>, <<"password", <<"string">>>>, <<"url", <<"string">>>>, <<"username", <<"string">>>>>>]

\* CLUSTER_HELM_REPO_UPDATE_REQUEST__ANON_STRUCT_0
CLUSTER_HELM_REPO_UPDATE_REQUEST__ANON_STRUCT_0 == [name |-> <<"CLUSTER_HELM_REPO_UPDATE_REQUEST__ANON_STRUCT_0">>, fields |-> <<>>]

\* CLUSTER_LIST_PERSISTENT_VOLUME_CLAIMS_REQUEST__MOGENIUS_OPERATOR_SRC_SERVICES_CLUSTERLISTWORKLOADS
CLUSTER_LIST_PERSISTENT_VOLUME_CLAIMS_REQUEST__MOGENIUS_OPERATOR_SRC_SERVICES_CLUSTERLISTWORKLOADS == [name |-> <<"CLUSTER_LIST_PERSISTENT_VOLUME_CLAIMS_REQUEST__MOGENIUS_OPERATOR_SRC_SERVICES_CLUSTERLISTWORKLOADS">>, fields |-> <<<<"labelSelector", <<"string">>>>, <<"namespace", <<"string">>>>, <<"prefix", <<"string">>>>>>]

\* CLUSTER_MACHINE_STATS_REQUEST__MOGENIUS_OPERATOR_SRC_CORE_REQUEST
CLUSTER_MACHINE_STATS_REQUEST__MOGENIUS_OPERATOR_SRC_CORE_REQUEST == [name |-> <<"CLUSTER_MACHINE_STATS_REQUEST__MOGENIUS_OPERATOR_SRC_CORE_REQUEST">>, fields |-> <<<<"nodes", <<"string", "[]">>>>>>]

\* CLUSTER_RESOURCE_INFO_REQUEST__ANON_STRUCT_0
CLUSTER_RESOURCE_INFO_REQUEST__ANON_STRUCT_0 == [name |-> <<"CLUSTER_RESOURCE_INFO_REQUEST__ANON_STRUCT_0">>, fields |-> <<>>]

\* CREATE_GRANT_REQUEST__MOGENIUS_OPERATOR_SRC_CORE_REQUEST
CREATE_GRANT_REQUEST__MOGENIUS_OPERATOR_SRC_CORE_REQUEST == [name |-> <<"CREATE_GRANT_REQUEST__MOGENIUS_OPERATOR_SRC_CORE_REQUEST">>, fields |-> <<<<"grantee", <<"string">>>>, <<"name", <<"string">>>>, <<"role", <<"string">>>>, <<"targetName", <<"string">>>>, <<"targetType", <<"string">>>>>>]

\* CREATE_NEW_WORKLOAD_REQUEST__MOGENIUS_OPERATOR_SRC_UTILS_RESOURCEDESCRIPTOR
CREATE_NEW_WORKLOAD_REQUEST__MOGENIUS_OPERATOR_SRC_UTILS_RESOURCEDESCRIPTOR == [name |-> <<"CREATE_NEW_WORKLOAD_REQUEST__MOGENIUS_OPERATOR_SRC_UTILS_RESOURCEDESCRIPTOR">>, fields |-> <<<<"apiVersion", <<"string">>>>, <<"kind", <<"string">>>>, <<"namespaced", <<"boolean">>>>, <<"plural", <<"string">>>>>>]

\* CREATE_NEW_WORKLOAD_REQUEST__MOGENIUS_OPERATOR_SRC_UTILS_WORKLOADCHANGEREQUEST
CREATE_NEW_WORKLOAD_REQUEST__MOGENIUS_OPERATOR_SRC_UTILS_WORKLOADCHANGEREQUEST == [name |-> <<"CREATE_NEW_WORKLOAD_REQUEST__MOGENIUS_OPERATOR_SRC_UTILS_WORKLOADCHANGEREQUEST">>, fields |-> <<<<"ResourceDescriptor", <<"CREATE_NEW_WORKLOAD_REQUEST__MOGENIUS_OPERATOR_SRC_UTILS_RESOURCEDESCRIPTOR">>>>, <<"namespace", <<"string">>>>, <<"yamlData", <<"string">>>>>>]

\* CREATE_USER_REQUEST__K8S_IO_API_RBAC_V1_SUBJECT
CREATE_USER_REQUEST__K8S_IO_API_RBAC_V1_SUBJECT == [name |-> <<"CREATE_USER_REQUEST__K8S_IO_API_RBAC_V1_SUBJECT">>, fields |-> <<<<"apiGroup", <<"string">>>>, <<"kind", <<"string">>>>, <<"name", <<"string">>>>, <<"namespace", <<"string">>>>>>]

\* CREATE_USER_REQUEST__MOGENIUS_OPERATOR_SRC_CORE_REQUEST
CREATE_USER_REQUEST__MOGENIUS_OPERATOR_SRC_CORE_REQUEST == [name |-> <<"CREATE_USER_REQUEST__MOGENIUS_OPERATOR_SRC_CORE_REQUEST">>, fields |-> <<<<"email", <<"string">>>>, <<"firstName", <<"string">>>>, <<"lastName", <<"string">>>>, <<"name", <<"string">>>>, <<"subject", <<"CREATE_USER_REQUEST__K8S_IO_API_RBAC_V1_SUBJECT", "|", "undefined">>>>>>]

\* CREATE_WORKSPACE_REQUEST__MOGENIUS_OPERATOR_SRC_CORE_REQUEST
CREATE_WORKSPACE_REQUEST__MOGENIUS_OPERATOR_SRC_CORE_REQUEST == [name |-> <<"CREATE_WORKSPACE_REQUEST__MOGENIUS_OPERATOR_SRC_CORE_REQUEST">>, fields |-> <<<<"displayName", <<"string">>>>, <<"name", <<"string">>>>, <<"resources", <<"CREATE_WORKSPACE_REQUEST__MOGENIUS_OPERATOR_SRC_CRDS_V1ALPHA1_WORKSPACERESOURCEIDENTIFIER", "[]">>>>>>]

\* CREATE_WORKSPACE_REQUEST__MOGENIUS_OPERATOR_SRC_CRDS_V1ALPHA1_WORKSPACERESOURCEIDENTIFIER
CREATE_WORKSPACE_REQUEST__MOGENIUS_OPERATOR_SRC_CRDS_V1ALPHA1_WORKSPACERESOURCEIDENTIFIER == [name |-> <<"CREATE_WORKSPACE_REQUEST__MOGENIUS_OPERATOR_SRC_CRDS_V1ALPHA1_WORKSPACERESOURCEIDENTIFIER">>, fields |-> <<<<"id", <<"string">>>>, <<"namespace", <<"string">>>>, <<"type", <<"string">>>>>>]

\* DELETE_GRANT_REQUEST__MOGENIUS_OPERATOR_SRC_CORE_REQUEST
DELETE_GRANT_REQUEST__MOGENIUS_OPERATOR_SRC_CORE_REQUEST == [name |-> <<"DELETE_GRANT_REQUEST__MOGENIUS_OPERATOR_SRC_CORE_REQUEST">>, fields |-> <<<<"name", <<"string">>>>>>]

\* DELETE_USER_REQUEST__MOGENIUS_OPERATOR_SRC_CORE_REQUEST
DELETE_USER_REQUEST__MOGENIUS_OPERATOR_SRC_CORE_REQUEST == [name |-> <<"DELETE_USER_REQUEST__MOGENIUS_OPERATOR_SRC_CORE_REQUEST">>, fields |-> <<<<"name", <<"string">>>>>>]

\* DELETE_WORKLOAD_REQUEST__MOGENIUS_OPERATOR_SRC_UTILS_RESOURCEDESCRIPTOR
DELETE_WORKLOAD_REQUEST__MOGENIUS_OPERATOR_SRC_UTILS_RESOURCEDESCRIPTOR == [name |-> <<"DELETE_WORKLOAD_REQUEST__MOGENIUS_OPERATOR_SRC_UTILS_RESOURCEDESCRIPTOR">>, fields |-> <<<<"apiVersion", <<"string">>>>, <<"kind", <<"string">>>>, <<"namespaced", <<"boolean">>>>, <<"plural", <<"string">>>>>>]

\* DELETE_WORKLOAD_REQUEST__MOGENIUS_OPERATOR_SRC_UTILS_WORKLOADSINGLEREQUEST
DELETE_WORKLOAD_REQUEST__MOGENIUS_OPERATOR_SRC_UTILS_WORKLOADSINGLEREQUEST == [name |-> <<"DELETE_WORKLOAD_REQUEST__MOGENIUS_OPERATOR_SRC_UTILS_WORKLOADSINGLEREQUEST">>, fields |-> <<<<"ResourceDescriptor", <<"DELETE_WORKLOAD_REQUEST__MOGENIUS_OPERATOR_SRC_UTILS_RESOURCEDESCRIPTOR">>>>, <<"namespace", <<"string">>>>, <<"resourceName", <<"string">>>>>>]

\* DELETE_WORKSPACE_REQUEST__MOGENIUS_OPERATOR_SRC_CORE_REQUEST
DELETE_WORKSPACE_REQUEST__MOGENIUS_OPERATOR_SRC_CORE_REQUEST == [name |-> <<"DELETE_WORKSPACE_REQUEST__MOGENIUS_OPERATOR_SRC_CORE_REQUEST">>, fields |-> <<<<"name", <<"string">>>>>>]

\* DESCRIBE_REQUEST__ANON_STRUCT_0
DESCRIBE_REQUEST__ANON_STRUCT_0 == [name |-> <<"DESCRIBE_REQUEST__ANON_STRUCT_0">>, fields |-> <<>>]

\* DESCRIBE_WORKLOAD_REQUEST__MOGENIUS_OPERATOR_SRC_UTILS_RESOURCEDESCRIPTOR
DESCRIBE_WORKLOAD_REQUEST__MOGENIUS_OPERATOR_SRC_UTILS_RESOURCEDESCRIPTOR == [name |-> <<"DESCRIBE_WORKLOAD_REQUEST__MOGENIUS_OPERATOR_SRC_UTILS_RESOURCEDESCRIPTOR">>, fields |-> <<<<"apiVersion", <<"string">>>>, <<"kind", <<"string">>>>, <<"namespaced", <<"boolean">>>>, <<"plural", <<"string">>>>>>]

\* DESCRIBE_WORKLOAD_REQUEST__MOGENIUS_OPERATOR_SRC_UTILS_WORKLOADSINGLEREQUEST
DESCRIBE_WORKLOAD_REQUEST__MOGENIUS_OPERATOR_SRC_UTILS_WORKLOADSINGLEREQUEST == [name |-> <<"DESCRIBE_WORKLOAD_REQUEST__MOGENIUS_OPERATOR_SRC_UTILS_WORKLOADSINGLEREQUEST">>, fields |-> <<<<"ResourceDescriptor", <<"DESCRIBE_WORKLOAD_REQUEST__MOGENIUS_OPERATOR_SRC_UTILS_RESOURCEDESCRIPTOR">>>>, <<"namespace", <<"string">>>>, <<"resourceName", <<"string">>>>>>]

\* FILES_CHMOD_REQUEST__MOGENIUS_OPERATOR_SRC_CORE_REQUEST
FILES_CHMOD_REQUEST__MOGENIUS_OPERATOR_SRC_CORE_REQUEST == [name |-> <<"FILES_CHMOD_REQUEST__MOGENIUS_OPERATOR_SRC_CORE_REQUEST">>, fields |-> <<<<"file", <<"FILES_CHMOD_REQUEST__MOGENIUS_OPERATOR_SRC_DTOS_PERSISTENTFILEREQUESTDTO">>>>, <<"mode", <<"string">>>>>>]

\* FILES_CHMOD_REQUEST__MOGENIUS_OPERATOR_SRC_DTOS_PERSISTENTFILEREQUESTDTO
FILES_CHMOD_REQUEST__MOGENIUS_OPERATOR_SRC_DTOS_PERSISTENTFILEREQUESTDTO == [name |-> <<"FILES_CHMOD_REQUEST__MOGENIUS_OPERATOR_SRC_DTOS_PERSISTENTFILEREQUESTDTO">>, fields |-> <<<<"path", <<"string">>>>, <<"volumeName", <<"string">>>>, <<"volumeNamespace", <<"string">>>>>>]

\* FILES_CHOWN_REQUEST__MOGENIUS_OPERATOR_SRC_CORE_REQUEST
FILES_CHOWN_REQUEST__MOGENIUS_OPERATOR_SRC_CORE_REQUEST == [name |-> <<"FILES_CHOWN_REQUEST__MOGENIUS_OPERATOR_SRC_CORE_REQUEST">>, fields |-> <<<<"file", <<"FILES_CHOWN_REQUEST__MOGENIUS_OPERATOR_SRC_DTOS_PERSISTENTFILEREQUESTDTO">>>>, <<"gid", <<"string">>>>, <<"uid", <<"string">>>>>>]

\* FILES_CHOWN_REQUEST__MOGENIUS_OPERATOR_SRC_DTOS_PERSISTENTFILEREQUESTDTO
FILES_CHOWN_REQUEST__MOGENIUS_OPERATOR_SRC_DTOS_PERSISTENTFILEREQUESTDTO == [name |-> <<"FILES_CHOWN_REQUEST__MOGENIUS_OPERATOR_SRC_DTOS_PERSISTENTFILEREQUESTDTO">>, fields |-> <<<<"path", <<"string">>>>, <<"volumeName", <<"string">>>>, <<"volumeNamespace", <<"string">>>>>>]

\* FILES_CREATE_FOLDER_REQUEST__MOGENIUS_OPERATOR_SRC_CORE_REQUEST
FILES_CREATE_FOLDER_REQUEST__MOGENIUS_OPERATOR_SRC_CORE_REQUEST == [name |-> <<"FILES_CREATE_FOLDER_REQUEST__MOGENIUS_OPERATOR_SRC_CORE_REQUEST">>, fields |-> <<<<"folder", <<"FILES_CREATE_FOLDER_REQUEST__MOGENIUS_OPERATOR_SRC_DTOS_PERSISTENTFILEREQUESTDTO">>>>>>]

\* FILES_CREATE_FOLDER_REQUEST__MOGENIUS_OPERATOR_SRC_DTOS_PERSISTENTFILEREQUESTDTO
FILES_CREATE_FOLDER_REQUEST__MOGENIUS_OPERATOR_SRC_DTOS_PERSISTENTFILEREQUESTDTO == [name |-> <<"FILES_CREATE_FOLDER_REQUEST__MOGENIUS_OPERATOR_SRC_DTOS_PERSISTENTFILEREQUESTDTO">>, fields |-> <<<<"path", <<"string">>>>, <<"volumeName", <<"string">>>>, <<"volumeNamespace", <<"string">>>>>>]

\* FILES_DELETE_REQUEST__MOGENIUS_OPERATOR_SRC_CORE_REQUEST
FILES_DELETE_REQUEST__MOGENIUS_OPERATOR_SRC_CORE_REQUEST == [name |-> <<"FILES_DELETE_REQUEST__MOGENIUS_OPERATOR_SRC_CORE_REQUEST">>, fields |-> <<<<"file", <<"FILES_DELETE_REQUEST__MOGENIUS_OPERATOR_SRC_DTOS_PERSISTENTFILEREQUESTDTO">>>>>>]

\* FILES_DELETE_REQUEST__MOGENIUS_OPERATOR_SRC_DTOS_PERSISTENTFILEREQUESTDTO
FILES_DELETE_REQUEST__MOGENIUS_OPERATOR_SRC_DTOS_PERSISTENTFILEREQUESTDTO == [name |-> <<"FILES_DELETE_REQUEST__MOGENIUS_OPERATOR_SRC_DTOS_PERSISTENTFILEREQUESTDTO">>, fields |-> <<<<"path", <<"string">>>>, <<"volumeName", <<"string">>>>, <<"volumeNamespace", <<"string">>>>>>]

\* FILES_DOWNLOAD_REQUEST__MOGENIUS_OPERATOR_SRC_CORE_REQUEST
FILES_DOWNLOAD_REQUEST__MOGENIUS_OPERATOR_SRC_CORE_REQUEST == [name |-> <<"FILES_DOWNLOAD_REQUEST__MOGENIUS_OPERATOR_SRC_CORE_REQUEST">>, fields |-> <<<<"file", <<"FILES_DOWNLOAD_REQUEST__MOGENIUS_OPERATOR_SRC_DTOS_PERSISTENTFILEREQUESTDTO">>>>, <<"postTo", <<"string">>>>>>]

\* FILES_DOWNLOAD_REQUEST__MOGENIUS_OPERATOR_SRC_DTOS_PERSISTENTFILEREQUESTDTO
FILES_DOWNLOAD_REQUEST__MOGENIUS_OPERATOR_SRC_DTOS_PERSISTENTFILEREQUESTDTO == [name |-> <<"FILES_DOWNLOAD_REQUEST__MOGENIUS_OPERATOR_SRC_DTOS_PERSISTENTFILEREQUESTDTO">>, fields |-> <<<<"path", <<"string">>>>, <<"volumeName", <<"string">>>>, <<"volumeNamespace", <<"string">>>>>>]

\* FILES_INFO_REQUEST__MOGENIUS_OPERATOR_SRC_DTOS_PERSISTENTFILEREQUESTDTO
FILES_INFO_REQUEST__MOGENIUS_OPERATOR_SRC_DTOS_PERSISTENTFILEREQUESTDTO == [name |-> <<"FILES_INFO_REQUEST__MOGENIUS_OPERATOR_SRC_DTOS_PERSISTENTFILEREQUESTDTO">>, fields |-> <<<<"path", <<"string">>>>, <<"volumeName", <<"string">>>>, <<"volumeNamespace", <<"string">>>>>>]

\* FILES_LIST_REQUEST__MOGENIUS_OPERATOR_SRC_CORE_REQUEST
FILES_LIST_REQUEST__MOGENIUS_OPERATOR_SRC_CORE_REQUEST == [name |-> <<"FILES_LIST_REQUEST__MOGENIUS_OPERATOR_SRC_CORE_REQUEST">>, fields |-> <<<<"folder", <<"FILES_LIST_REQUEST__MOGENIUS_OPERATOR_SRC_DTOS_PERSISTENTFILEREQUESTDTO">>>>>>]

\* FILES_LIST_REQUEST__MOGENIUS_OPERATOR_SRC_DTOS_PERSISTENTFILEREQUESTDTO
FILES_LIST_REQUEST__MOGENIUS_OPERATOR_SRC_DTOS_PERSISTENTFILEREQUESTDTO == [name |-> <<"FILES_LIST_REQUEST__MOGENIUS_OPERATOR_SRC_DTOS_PERSISTENTFILEREQUESTDTO">>, fields |-> <<<<"path", <<"string">>>>, <<"volumeName", <<"string">>>>, <<"volumeNamespace", <<"string">>>>>>]

\* FILES_RENAME_REQUEST__MOGENIUS_OPERATOR_SRC_CORE_REQUEST
FILES_RENAME_REQUEST__MOGENIUS_OPERATOR_SRC_CORE_REQUEST == [name |-> <<"FILES_RENAME_REQUEST__MOGENIUS_OPERATOR_SRC_CORE_REQUEST">>, fields |-> <<<<"file", <<"FILES_RENAME_REQUEST__MOGENIUS_OPERATOR_SRC_DTOS_PERSISTENTFILEREQUESTDTO">>>>, <<"newName", <<"string">>>>>>]

\* FILES_RENAME_REQUEST__MOGENIUS_OPERATOR_SRC_DTOS_PERSISTENTFILEREQUESTDTO
FILES_RENAME_REQUEST__MOGENIUS_OPERATOR_SRC_DTOS_PERSISTENTFILEREQUESTDTO == [name |-> <<"FILES_RENAME_REQUEST__MOGENIUS_OPERATOR_SRC_DTOS_PERSISTENTFILEREQUESTDTO">>, fields |-> <<<<"path", <<"string">>>>, <<"volumeName", <<"string">>>>, <<"volumeNamespace", <<"string">>>>>>]

\* GET_GRANT_REQUEST__MOGENIUS_OPERATOR_SRC_CORE_REQUEST
GET_GRANT_REQUEST__MOGENIUS_OPERATOR_SRC_CORE_REQUEST == [name |-> <<"GET_GRANT_REQUEST__MOGENIUS_OPERATOR_SRC_CORE_REQUEST">>, fields |-> <<<<"name", <<"string">>>>>>]

\* GET_GRANTS_REQUEST__MOGENIUS_OPERATOR_SRC_CORE_REQUEST
GET_GRANTS_REQUEST__MOGENIUS_OPERATOR_SRC_CORE_REQUEST == [name |-> <<"GET_GRANTS_REQUEST__MOGENIUS_OPERATOR_SRC_CORE_REQUEST">>, fields |-> <<<<"targetName", <<"string", "|", "undefined">>>>, <<"targetType", <<"string", "|", "undefined">>>>>>]

\* GET_LABELED_WORKLOAD_LIST_REQUEST__MOGENIUS_OPERATOR_SRC_KUBERNETES_GETUNSTRUCTUREDLABELEDRESOURCELISTREQUEST
GET_LABELED_WORKLOAD_LIST_REQUEST__MOGENIUS_OPERATOR_SRC_KUBERNETES_GETUNSTRUCTUREDLABELEDRESOURCELISTREQUEST == [name |-> <<"GET_LABELED_WORKLOAD_LIST_REQUEST__MOGENIUS_OPERATOR_SRC_KUBERNETES_GETUNSTRUCTUREDLABELEDRESOURCELISTREQUEST">>, fields |-> <<<<"blacklist", <<"GET_LABELED_WORKLOAD_LIST_REQUEST__MOGENIUS_OPERATOR_SRC_UTILS_RESOURCEDESCRIPTOR", "|", "undefined", "[]">>>>, <<"label", <<"string">>>>, <<"whitelist", <<"GET_LABELED_WORKLOAD_LIST_REQUEST__MOGENIUS_OPERATOR_SRC_UTILS_RESOURCEDESCRIPTOR", "|", "undefined", "[]">>>>>>]

\* GET_LABELED_WORKLOAD_LIST_REQUEST__MOGENIUS_OPERATOR_SRC_UTILS_RESOURCEDESCRIPTOR
GET_LABELED_WORKLOAD_LIST_REQUEST__MOGENIUS_OPERATOR_SRC_UTILS_RESOURCEDESCRIPTOR == [name |-> <<"GET_LABELED_WORKLOAD_LIST_REQUEST__MOGENIUS_OPERATOR_SRC_UTILS_RESOURCEDESCRIPTOR">>, fields |-> <<<<"apiVersion", <<"string">>>>, <<"kind", <<"string">>>>, <<"namespaced", <<"boolean">>>>, <<"plural", <<"string">>>>>>]

\* GET_NAMESPACE_WORKLOAD_LIST_REQUEST__MOGENIUS_OPERATOR_SRC_KUBERNETES_GETUNSTRUCTUREDNAMESPACERESOURCELISTREQUEST
GET_NAMESPACE_WORKLOAD_LIST_REQUEST__MOGENIUS_OPERATOR_SRC_KUBERNETES_GETUNSTRUCTUREDNAMESPACERESOURCELISTREQUEST == [name |-> <<"GET_NAMESPACE_WORKLOAD_LIST_REQUEST__MOGENIUS_OPERATOR_SRC_KUBERNETES_GETUNSTRUCTUREDNAMESPACERESOURCELISTREQUEST">>, fields |-> <<<<"blacklist", <<"GET_NAMESPACE_WORKLOAD_LIST_REQUEST__MOGENIUS_OPERATOR_SRC_UTILS_RESOURCEDESCRIPTOR", "|", "undefined", "[]">>>>, <<"namespace", <<"string">>>>, <<"whitelist", <<"GET_NAMESPACE_WORKLOAD_LIST_REQUEST__MOGENIUS_OPERATOR_SRC_UTILS_RESOURCEDESCRIPTOR", "|", "undefined", "[]">>>>>>]

\* GET_NAMESPACE_WORKLOAD_LIST_REQUEST__MOGENIUS_OPERATOR_SRC_UTILS_RESOURCEDESCRIPTOR
GET_NAMESPACE_WORKLOAD_LIST_REQUEST__MOGENIUS_OPERATOR_SRC_UTILS_RESOURCEDESCRIPTOR == [name |-> <<"GET_NAMESPACE_WORKLOAD_LIST_REQUEST__MOGENIUS_OPERATOR_SRC_UTILS_RESOURCEDESCRIPTOR">>, fields |-> <<<<"apiVersion", <<"string">>>>, <<"kind", <<"string">>>>, <<"namespaced", <<"boolean">>>>, <<"plural", <<"string">>>>>>]

\* GET_NODES_METRICS_REQUEST__ANON_STRUCT_0
GET_NODES_METRICS_REQUEST__ANON_STRUCT_0 == [name |-> <<"GET_NODES_METRICS_REQUEST__ANON_STRUCT_0">>, fields |-> <<>>]

\* GET_USER_REQUEST__MOGENIUS_OPERATOR_SRC_CORE_REQUEST
GET_USER_REQUEST__MOGENIUS_OPERATOR_SRC_CORE_REQUEST == [name |-> <<"GET_USER_REQUEST__MOGENIUS_OPERATOR_SRC_CORE_REQUEST">>, fields |-> <<<<"name", <<"string">>>>>>]

\* GET_USERS_REQUEST__MOGENIUS_OPERATOR_SRC_CORE_REQUEST
GET_USERS_REQUEST__MOGENIUS_OPERATOR_SRC_CORE_REQUEST == [name |-> <<"GET_USERS_REQUEST__MOGENIUS_OPERATOR_SRC_CORE_REQUEST">>, fields |-> <<<<"email", <<"string", "|", "undefined">>>>>>]

\* GET_WORKLOAD_REQUEST__MOGENIUS_OPERATOR_SRC_UTILS_RESOURCEDESCRIPTOR
GET_WORKLOAD_REQUEST__MOGENIUS_OPERATOR_SRC_UTILS_RESOURCEDESCRIPTOR == [name |-> <<"GET_WORKLOAD_REQUEST__MOGENIUS_OPERATOR_SRC_UTILS_RESOURCEDESCRIPTOR">>, fields |-> <<<<"apiVersion", <<"string">>>>, <<"kind", <<"string">>>>, <<"namespaced", <<"boolean">>>>, <<"plural", <<"string">>>>>>]

\* GET_WORKLOAD_REQUEST__MOGENIUS_OPERATOR_SRC_UTILS_WORKLOADSINGLEREQUEST
GET_WORKLOAD_REQUEST__MOGENIUS_OPERATOR_SRC_UTILS_WORKLOADSINGLEREQUEST == [name |-> <<"GET_WORKLOAD_REQUEST__MOGENIUS_OPERATOR_SRC_UTILS_WORKLOADSINGLEREQUEST">>, fields |-> <<<<"ResourceDescriptor", <<"GET_WORKLOAD_REQUEST__MOGENIUS_OPERATOR_SRC_UTILS_RESOURCEDESCRIPTOR">>>>, <<"namespace", <<"string">>>>, <<"resourceName", <<"string">>>>>>]

\* GET_WORKLOAD_EXAMPLE_REQUEST__MOGENIUS_OPERATOR_SRC_UTILS_RESOURCEDESCRIPTOR
GET_WORKLOAD_EXAMPLE_REQUEST__MOGENIUS_OPERATOR_SRC_UTILS_RESOURCEDESCRIPTOR == [name |-> <<"GET_WORKLOAD_EXAMPLE_REQUEST__MOGENIUS_OPERATOR_SRC_UTILS_RESOURCEDESCRIPTOR">>, fields |-> <<<<"apiVersion", <<"string">>>>, <<"kind", <<"string">>>>, <<"namespaced", <<"boolean">>>>, <<"plural", <<"string">>>>>>]

\* GET_WORKLOAD_LIST_REQUEST__MOGENIUS_OPERATOR_SRC_CORE_REQUEST
GET_WORKLOAD_LIST_REQUEST__MOGENIUS_OPERATOR_SRC_CORE_REQUEST == [name |-> <<"GET_WORKLOAD_LIST_REQUEST__MOGENIUS_OPERATOR_SRC_CORE_REQUEST">>, fields |-> <<<<"apiVersion", <<"string">>>>, <<"kind", <<"string">>>>, <<"namespace", <<"string", "|", "undefined">>>>, <<"plural", <<"string">>>>, <<"withData", <<"boolean", "|", "undefined">>>>>>]

\* GET_WORKLOAD_STATUS_REQUEST__MOGENIUS_OPERATOR_SRC_KUBERNETES_GETWORKLOADSTATUSHELMRELEASENAMEREQUEST
GET_WORKLOAD_STATUS_REQUEST__MOGENIUS_OPERATOR_SRC_KUBERNETES_GETWORKLOADSTATUSHELMRELEASENAMEREQUEST == [name |-> <<"GET_WORKLOAD_STATUS_REQUEST__MOGENIUS_OPERATOR_SRC_KUBERNETES_GETWORKLOADSTATUSHELMRELEASENAMEREQUEST">>, fields |-> <<<<"namespace", <<"string">>>>, <<"release", <<"string">>>>>>]

\* GET_WORKLOAD_STATUS_REQUEST__MOGENIUS_OPERATOR_SRC_KUBERNETES_GETWORKLOADSTATUSREQUEST
GET_WORKLOAD_STATUS_REQUEST__MOGENIUS_OPERATOR_SRC_KUBERNETES_GETWORKLOADSTATUSREQUEST == [name |-> <<"GET_WORKLOAD_STATUS_REQUEST__MOGENIUS_OPERATOR_SRC_KUBERNETES_GETWORKLOADSTATUSREQUEST">>, fields |-> <<<<"helmReleases", <<"GET_WORKLOAD_STATUS_REQUEST__MOGENIUS_OPERATOR_SRC_KUBERNETES_GETWORKLOADSTATUSHELMRELEASENAMEREQUEST", "[]", "|", "undefined">>>>, <<"ignoreDependentResources", <<"boolean", "|", "undefined">>>>, <<"namespaces", <<"string", "[]", "|", "undefined">>>>, <<"resourceDescriptor", <<"GET_WORKLOAD_STATUS_REQUEST__MOGENIUS_OPERATOR_SRC_UTILS_RESOURCEDESCRIPTOR", "|", "undefined">>>>, <<"resourceNames", <<"string", "[]", "|", "undefined">>>>>>]

\* GET_WORKLOAD_STATUS_REQUEST__MOGENIUS_OPERATOR_SRC_UTILS_RESOURCEDESCRIPTOR
GET_WORKLOAD_STATUS_REQUEST__MOGENIUS_OPERATOR_SRC_UTILS_RESOURCEDESCRIPTOR == [name |-> <<"GET_WORKLOAD_STATUS_REQUEST__MOGENIUS_OPERATOR_SRC_UTILS_RESOURCEDESCRIPTOR">>, fields |-> <<<<"apiVersion", <<"string">>>>, <<"kind", <<"string">>>>, <<"namespaced", <<"boolean">>>>, <<"plural", <<"string">>>>>>]

\* GET_WORKSPACE_REQUEST__MOGENIUS_OPERATOR_SRC_CORE_REQUEST
GET_WORKSPACE_REQUEST__MOGENIUS_OPERATOR_SRC_CORE_REQUEST == [name |-> <<"GET_WORKSPACE_REQUEST__MOGENIUS_OPERATOR_SRC_CORE_REQUEST">>, fields |-> <<<<"name", <<"string">>>>, <<"namespace", <<"string">>>>>>]

\* GET_WORKSPACES_REQUEST__ANON_STRUCT_0
GET_WORKSPACES_REQUEST__ANON_STRUCT_0 == [name |-> <<"GET_WORKSPACES_REQUEST__ANON_STRUCT_0">>, fields |-> <<>>]

\* GET_WORKSPACE_WORKLOADS_REQUEST__MOGENIUS_OPERATOR_SRC_CORE_REQUEST
GET_WORKSPACE_WORKLOADS_REQUEST__MOGENIUS_OPERATOR_SRC_CORE_REQUEST == [name |-> <<"GET_WORKSPACE_WORKLOADS_REQUEST__MOGENIUS_OPERATOR_SRC_CORE_REQUEST">>, fields |-> <<<<"blacklist", <<"GET_WORKSPACE_WORKLOADS_REQUEST__MOGENIUS_OPERATOR_SRC_UTILS_RESOURCEDESCRIPTOR", "|", "undefined", "[]">>>>, <<"namespaceWhitelist", <<"string", "[]">>>>, <<"whitelist", <<"GET_WORKSPACE_WORKLOADS_REQUEST__MOGENIUS_OPERATOR_SRC_UTILS_RESOURCEDESCRIPTOR", "|", "undefined", "[]">>>>, <<"workspaceName", <<"string">>>>>>]

\* GET_WORKSPACE_WORKLOADS_REQUEST__MOGENIUS_OPERATOR_SRC_UTILS_RESOURCEDESCRIPTOR
GET_WORKSPACE_WORKLOADS_REQUEST__MOGENIUS_OPERATOR_SRC_UTILS_RESOURCEDESCRIPTOR == [name |-> <<"GET_WORKSPACE_WORKLOADS_REQUEST__MOGENIUS_OPERATOR_SRC_UTILS_RESOURCEDESCRIPTOR">>, fields |-> <<<<"apiVersion", <<"string">>>>, <<"kind", <<"string">>>>, <<"namespaced", <<"boolean">>>>, <<"plural", <<"string">>>>>>]

\* INSTALL_CERT_MANAGER_REQUEST__ANON_STRUCT_0
INSTALL_CERT_MANAGER_REQUEST__ANON_STRUCT_0 == [name |-> <<"INSTALL_CERT_MANAGER_REQUEST__ANON_STRUCT_0">>, fields |-> <<>>]

\* INSTALL_CLUSTER_ISSUER_REQUEST__MOGENIUS_OPERATOR_SRC_CORE_REQUEST
INSTALL_CLUSTER_ISSUER_REQUEST__MOGENIUS_OPERATOR_SRC_CORE_REQUEST == [name |-> <<"INSTALL_CLUSTER_ISSUER_REQUEST__MOGENIUS_OPERATOR_SRC_CORE_REQUEST">>, fields |-> <<<<"email", <<"string">>>>>>]

\* INSTALL_INGRESS_CONTROLLER_TRAEFIK_REQUEST__ANON_STRUCT_0
INSTALL_INGRESS_CONTROLLER_TRAEFIK_REQUEST__ANON_STRUCT_0 == [name |-> <<"INSTALL_INGRESS_CONTROLLER_TRAEFIK_REQUEST__ANON_STRUCT_0">>, fields |-> <<>>]

\* INSTALL_KEPLER_REQUEST__ANON_STRUCT_0
INSTALL_KEPLER_REQUEST__ANON_STRUCT_0 == [name |-> <<"INSTALL_KEPLER_REQUEST__ANON_STRUCT_0">>, fields |-> <<>>]

\* INSTALL_METALLB_REQUEST__ANON_STRUCT_0
INSTALL_METALLB_REQUEST__ANON_STRUCT_0 == [name |-> <<"INSTALL_METALLB_REQUEST__ANON_STRUCT_0">>, fields |-> <<>>]

\* INSTALL_METRICS_SERVER_REQUEST__ANON_STRUCT_0
INSTALL_METRICS_SERVER_REQUEST__ANON_STRUCT_0 == [name |-> <<"INSTALL_METRICS_SERVER_REQUEST__ANON_STRUCT_0">>, fields |-> <<>>]

\* LIST_ALL_RESOURCE_DESCRIPTORS_REQUEST__ANON_STRUCT_0
LIST_ALL_RESOURCE_DESCRIPTORS_REQUEST__ANON_STRUCT_0 == [name |-> <<"LIST_ALL_RESOURCE_DESCRIPTORS_REQUEST__ANON_STRUCT_0">>, fields |-> <<>>]

\* LIVE_STREAM_NODES_CPU_REQUEST__MOGENIUS_OPERATOR_SRC_XTERM_WSCONNECTIONREQUEST
LIVE_STREAM_NODES_CPU_REQUEST__MOGENIUS_OPERATOR_SRC_XTERM_WSCONNECTIONREQUEST == [name |-> <<"LIVE_STREAM_NODES_CPU_REQUEST__MOGENIUS_OPERATOR_SRC_XTERM_WSCONNECTIONREQUEST">>, fields |-> <<<<"channelId", <<"string">>>>, <<"cmdType", <<"string">>>>, <<"nodeName", <<"string">>>>, <<"podName", <<"string">>>>, <<"websocketHost", <<"string">>>>, <<"websocketScheme", <<"string">>>>, <<"workspace", <<"string">>>>>>]

\* LIVE_STREAM_NODES_MEMORY_REQUEST__MOGENIUS_OPERATOR_SRC_XTERM_WSCONNECTIONREQUEST
LIVE_STREAM_NODES_MEMORY_REQUEST__MOGENIUS_OPERATOR_SRC_XTERM_WSCONNECTIONREQUEST == [name |-> <<"LIVE_STREAM_NODES_MEMORY_REQUEST__MOGENIUS_OPERATOR_SRC_XTERM_WSCONNECTIONREQUEST">>, fields |-> <<<<"channelId", <<"string">>>>, <<"cmdType", <<"string">>>>, <<"nodeName", <<"string">>>>, <<"podName", <<"string">>>>, <<"websocketHost", <<"string">>>>, <<"websocketScheme", <<"string">>>>, <<"workspace", <<"string">>>>>>]

\* LIVE_STREAM_NODES_TRAFFIC_REQUEST__MOGENIUS_OPERATOR_SRC_XTERM_WSCONNECTIONREQUEST
LIVE_STREAM_NODES_TRAFFIC_REQUEST__MOGENIUS_OPERATOR_SRC_XTERM_WSCONNECTIONREQUEST == [name |-> <<"LIVE_STREAM_NODES_TRAFFIC_REQUEST__MOGENIUS_OPERATOR_SRC_XTERM_WSCONNECTIONREQUEST">>, fields |-> <<<<"channelId", <<"string">>>>, <<"cmdType", <<"string">>>>, <<"nodeName", <<"string">>>>, <<"podName", <<"string">>>>, <<"websocketHost", <<"string">>>>, <<"websocketScheme", <<"string">>>>, <<"workspace", <<"string">>>>>>]

\* LIVE_STREAM_POD_CPU_REQUEST__MOGENIUS_OPERATOR_SRC_XTERM_WSCONNECTIONREQUEST
LIVE_STREAM_POD_CPU_REQUEST__MOGENIUS_OPERATOR_SRC_XTERM_WSCONNECTIONREQUEST == [name |-> <<"LIVE_STREAM_POD_CPU_REQUEST__MOGENIUS_OPERATOR_SRC_XTERM_WSCONNECTIONREQUEST">>, fields |-> <<<<"channelId", <<"string">>>>, <<"cmdType", <<"string">>>>, <<"nodeName", <<"string">>>>, <<"podName", <<"string">>>>, <<"websocketHost", <<"string">>>>, <<"websocketScheme", <<"string">>>>, <<"workspace", <<"string">>>>>>]

\* LIVE_STREAM_POD_MEMORY_REQUEST__MOGENIUS_OPERATOR_SRC_XTERM_WSCONNECTIONREQUEST
LIVE_STREAM_POD_MEMORY_REQUEST__MOGENIUS_OPERATOR_SRC_XTERM_WSCONNECTIONREQUEST == [name |-> <<"LIVE_STREAM_POD_MEMORY_REQUEST__MOGENIUS_OPERATOR_SRC_XTERM_WSCONNECTIONREQUEST">>, fields |-> <<<<"channelId", <<"string">>>>, <<"cmdType", <<"string">>>>, <<"nodeName", <<"string">>>>, <<"podName", <<"string">>>>, <<"websocketHost", <<"string">>>>, <<"websocketScheme", <<"string">>>>, <<"workspace", <<"string">>>>>>]

\* LIVE_STREAM_POD_TRAFFIC_REQUEST__MOGENIUS_OPERATOR_SRC_XTERM_WSCONNECTIONREQUEST
LIVE_STREAM_POD_TRAFFIC_REQUEST__MOGENIUS_OPERATOR_SRC_XTERM_WSCONNECTIONREQUEST == [name |-> <<"LIVE_STREAM_POD_TRAFFIC_REQUEST__MOGENIUS_OPERATOR_SRC_XTERM_WSCONNECTIONREQUEST">>, fields |-> <<<<"channelId", <<"string">>>>, <<"cmdType", <<"string">>>>, <<"nodeName", <<"string">>>>, <<"podName", <<"string">>>>, <<"websocketHost", <<"string">>>>, <<"websocketScheme", <<"string">>>>, <<"workspace", <<"string">>>>>>]

\* LIVE_STREAM_WORKSPACE_CPU_REQUEST__MOGENIUS_OPERATOR_SRC_XTERM_WSCONNECTIONREQUEST
LIVE_STREAM_WORKSPACE_CPU_REQUEST__MOGENIUS_OPERATOR_SRC_XTERM_WSCONNECTIONREQUEST == [name |-> <<"LIVE_STREAM_WORKSPACE_CPU_REQUEST__MOGENIUS_OPERATOR_SRC_XTERM_WSCONNECTIONREQUEST">>, fields |-> <<<<"channelId", <<"string">>>>, <<"cmdType", <<"string">>>>, <<"nodeName", <<"string">>>>, <<"podName", <<"string">>>>, <<"websocketHost", <<"string">>>>, <<"websocketScheme", <<"string">>>>, <<"workspace", <<"string">>>>>>]

\* LIVE_STREAM_WORKSPACE_MEMORY_REQUEST__MOGENIUS_OPERATOR_SRC_XTERM_WSCONNECTIONREQUEST
LIVE_STREAM_WORKSPACE_MEMORY_REQUEST__MOGENIUS_OPERATOR_SRC_XTERM_WSCONNECTIONREQUEST == [name |-> <<"LIVE_STREAM_WORKSPACE_MEMORY_REQUEST__MOGENIUS_OPERATOR_SRC_XTERM_WSCONNECTIONREQUEST">>, fields |-> <<<<"channelId", <<"string">>>>, <<"cmdType", <<"string">>>>, <<"nodeName", <<"string">>>>, <<"podName", <<"string">>>>, <<"websocketHost", <<"string">>>>, <<"websocketScheme", <<"string">>>>, <<"workspace", <<"string">>>>>>]

\* LIVE_STREAM_WORKSPACE_TRAFFIC_REQUEST__MOGENIUS_OPERATOR_SRC_XTERM_WSCONNECTIONREQUEST
LIVE_STREAM_WORKSPACE_TRAFFIC_REQUEST__MOGENIUS_OPERATOR_SRC_XTERM_WSCONNECTIONREQUEST == [name |-> <<"LIVE_STREAM_WORKSPACE_TRAFFIC_REQUEST__MOGENIUS_OPERATOR_SRC_XTERM_WSCONNECTIONREQUEST">>, fields |-> <<<<"channelId", <<"string">>>>, <<"cmdType", <<"string">>>>, <<"nodeName", <<"string">>>>, <<"podName", <<"string">>>>, <<"websocketHost", <<"string">>>>, <<"websocketScheme", <<"string">>>>, <<"workspace", <<"string">>>>>>]

\* PROMETHEUS_CHARTS_ADD_REQUEST__MOGENIUS_OPERATOR_SRC_CORE_PROMETHEUSREQUESTREDIS
PROMETHEUS_CHARTS_ADD_REQUEST__MOGENIUS_OPERATOR_SRC_CORE_PROMETHEUSREQUESTREDIS == [name |-> <<"PROMETHEUS_CHARTS_ADD_REQUEST__MOGENIUS_OPERATOR_SRC_CORE_PROMETHEUSREQUESTREDIS">>, fields |-> <<<<"controller", <<"string">>>>, <<"namespace", <<"string">>>>, <<"query", <<"string">>>>, <<"queryName", <<"string">>>>, <<"step", <<"number">>>>>>]

\* PROMETHEUS_CHARTS_GET_REQUEST__MOGENIUS_OPERATOR_SRC_CORE_PROMETHEUSREQUESTREDIS
PROMETHEUS_CHARTS_GET_REQUEST__MOGENIUS_OPERATOR_SRC_CORE_PROMETHEUSREQUESTREDIS == [name |-> <<"PROMETHEUS_CHARTS_GET_REQUEST__MOGENIUS_OPERATOR_SRC_CORE_PROMETHEUSREQUESTREDIS">>, fields |-> <<<<"controller", <<"string">>>>, <<"namespace", <<"string">>>>, <<"query", <<"string">>>>, <<"queryName", <<"string">>>>, <<"step", <<"number">>>>>>]

\* PROMETHEUS_CHARTS_LIST_REQUEST__MOGENIUS_OPERATOR_SRC_CORE_PROMETHEUSREQUESTREDISLIST
PROMETHEUS_CHARTS_LIST_REQUEST__MOGENIUS_OPERATOR_SRC_CORE_PROMETHEUSREQUESTREDISLIST == [name |-> <<"PROMETHEUS_CHARTS_LIST_REQUEST__MOGENIUS_OPERATOR_SRC_CORE_PROMETHEUSREQUESTREDISLIST">>, fields |-> <<<<"controller", <<"string">>>>, <<"namespace", <<"string">>>>>>]

\* PROMETHEUS_CHARTS_REMOVE_REQUEST__MOGENIUS_OPERATOR_SRC_CORE_PROMETHEUSREQUESTREDIS
PROMETHEUS_CHARTS_REMOVE_REQUEST__MOGENIUS_OPERATOR_SRC_CORE_PROMETHEUSREQUESTREDIS == [name |-> <<"PROMETHEUS_CHARTS_REMOVE_REQUEST__MOGENIUS_OPERATOR_SRC_CORE_PROMETHEUSREQUESTREDIS">>, fields |-> <<<<"controller", <<"string">>>>, <<"namespace", <<"string">>>>, <<"query", <<"string">>>>, <<"queryName", <<"string">>>>, <<"step", <<"number">>>>>>]

\* PROMETHEUS_IS_REACHABLE_REQUEST__MOGENIUS_OPERATOR_SRC_CORE_PROMETHEUSREQUEST
PROMETHEUS_IS_REACHABLE_REQUEST__MOGENIUS_OPERATOR_SRC_CORE_PROMETHEUSREQUEST == [name |-> <<"PROMETHEUS_IS_REACHABLE_REQUEST__MOGENIUS_OPERATOR_SRC_CORE_PROMETHEUSREQUEST">>, fields |-> <<<<"prometheusPass", <<"string">>>>, <<"prometheusToken", <<"string">>>>, <<"prometheusUrl", <<"string">>>>, <<"prometheusUser", <<"string">>>>, <<"query", <<"string">>>>, <<"step", <<"number">>>>, <<"timeOffsetSeconds", <<"number">>>>>>]

\* PROMETHEUS_QUERY_REQUEST__MOGENIUS_OPERATOR_SRC_CORE_PROMETHEUSREQUEST
PROMETHEUS_QUERY_REQUEST__MOGENIUS_OPERATOR_SRC_CORE_PROMETHEUSREQUEST == [name |-> <<"PROMETHEUS_QUERY_REQUEST__MOGENIUS_OPERATOR_SRC_CORE_PROMETHEUSREQUEST">>, fields |-> <<<<"prometheusPass", <<"string">>>>, <<"prometheusToken", <<"string">>>>, <<"prometheusUrl", <<"string">>>>, <<"prometheusUser", <<"string">>>>, <<"query", <<"string">>>>, <<"step", <<"number">>>>, <<"timeOffsetSeconds", <<"number">>>>>>]

\* PROMETHEUS_VALUES_REQUEST__MOGENIUS_OPERATOR_SRC_CORE_PROMETHEUSREQUEST
PROMETHEUS_VALUES_REQUEST__MOGENIUS_OPERATOR_SRC_CORE_PROMETHEUSREQUEST == [name |-> <<"PROMETHEUS_VALUES_REQUEST__MOGENIUS_OPERATOR_SRC_CORE_PROMETHEUSREQUEST">>, fields |-> <<<<"prometheusPass", <<"string">>>>, <<"prometheusToken", <<"string">>>>, <<"prometheusUrl", <<"string">>>>, <<"prometheusUser", <<"string">>>>, <<"query", <<"string">>>>, <<"step", <<"number">>>>, <<"timeOffsetSeconds", <<"number">>>>>>]

\* SEALED_SECRET_CREATE_FROM_EXISTING_REQUEST__MOGENIUS_OPERATOR_SRC_CORE_REQUEST
SEALED_SECRET_CREATE_FROM_EXISTING_REQUEST__MOGENIUS_OPERATOR_SRC_CORE_REQUEST == [name |-> <<"SEALED_SECRET_CREATE_FROM_EXISTING_REQUEST__MOGENIUS_OPERATOR_SRC_CORE_REQUEST">>, fields |-> <<<<"name", <<"string">>>>, <<"namespace", <<"string">>>>>>]

\* SEALED_SECRET_GET_CERTIFICATE_REQUEST__ANON_STRUCT_0
SEALED_SECRET_GET_CERTIFICATE_REQUEST__ANON_STRUCT_0 == [name |-> <<"SEALED_SECRET_GET_CERTIFICATE_REQUEST__ANON_STRUCT_0">>, fields |-> <<>>]

\* SERVICE_EXEC_SH_CONNECTION_REQUEST_REQUEST__MOGENIUS_OPERATOR_SRC_XTERM_PODCMDCONNECTIONREQUEST
SERVICE_EXEC_SH_CONNECTION_REQUEST_REQUEST__MOGENIUS_OPERATOR_SRC_XTERM_PODCMDCONNECTIONREQUEST == [name |-> <<"SERVICE_EXEC_SH_CONNECTION_REQUEST_REQUEST__MOGENIUS_OPERATOR_SRC_XTERM_PODCMDCONNECTIONREQUEST">>, fields |-> <<<<"container", <<"string">>>>, <<"controller", <<"string">>>>, <<"logTail", <<"string">>>>, <<"namespace", <<"string">>>>, <<"pod", <<"string">>>>, <<"wsConnectionRequest", <<"SERVICE_EXEC_SH_CONNECTION_REQUEST_REQUEST__MOGENIUS_OPERATOR_SRC_XTERM_WSCONNECTIONREQUEST">>>>>>]

\* SERVICE_EXEC_SH_CONNECTION_REQUEST_REQUEST__MOGENIUS_OPERATOR_SRC_XTERM_WSCONNECTIONREQUEST
SERVICE_EXEC_SH_CONNECTION_REQUEST_REQUEST__MOGENIUS_OPERATOR_SRC_XTERM_WSCONNECTIONREQUEST == [name |-> <<"SERVICE_EXEC_SH_CONNECTION_REQUEST_REQUEST__MOGENIUS_OPERATOR_SRC_XTERM_WSCONNECTIONREQUEST">>, fields |-> <<<<"channelId", <<"string">>>>, <<"cmdType", <<"string">>>>, <<"nodeName", <<"string">>>>, <<"podName", <<"string">>>>, <<"websocketHost", <<"string">>>>, <<"websocketScheme", <<"string">>>>, <<"workspace", <<"string">>>>>>]

\* SERVICE_LOG_STREAM_CONNECTION_REQUEST_REQUEST__MOGENIUS_OPERATOR_SRC_XTERM_PODCMDCONNECTIONREQUEST
SERVICE_LOG_STREAM_CONNECTION_REQUEST_REQUEST__MOGENIUS_OPERATOR_SRC_XTERM_PODCMDCONNECTIONREQUEST == [name |-> <<"SERVICE_LOG_STREAM_CONNECTION_REQUEST_REQUEST__MOGENIUS_OPERATOR_SRC_XTERM_PODCMDCONNECTIONREQUEST">>, fields |-> <<<<"container", <<"string">>>>, <<"controller", <<"string">>>>, <<"logTail", <<"string">>>>, <<"namespace", <<"string">>>>, <<"pod", <<"string">>>>, <<"wsConnectionRequest", <<"SERVICE_LOG_STREAM_CONNECTION_REQUEST_REQUEST__MOGENIUS_OPERATOR_SRC_XTERM_WSCONNECTIONREQUEST">>>>>>]

\* SERVICE_LOG_STREAM_CONNECTION_REQUEST_REQUEST__MOGENIUS_OPERATOR_SRC_XTERM_WSCONNECTIONREQUEST
SERVICE_LOG_STREAM_CONNECTION_REQUEST_REQUEST__MOGENIUS_OPERATOR_SRC_XTERM_WSCONNECTIONREQUEST == [name |-> <<"SERVICE_LOG_STREAM_CONNECTION_REQUEST_REQUEST__MOGENIUS_OPERATOR_SRC_XTERM_WSCONNECTIONREQUEST">>, fields |-> <<<<"channelId", <<"string">>>>, <<"cmdType", <<"string">>>>, <<"nodeName", <<"string">>>>, <<"podName", <<"string">>>>, <<"websocketHost", <<"string">>>>, <<"websocketScheme", <<"string">>>>, <<"workspace", <<"string">>>>>>]

\* SERVICE_POD_EVENT_STREAM_CONNECTION_REQUEST_REQUEST__MOGENIUS_OPERATOR_SRC_XTERM_PODEVENTCONNECTIONREQUEST
SERVICE_POD_EVENT_STREAM_CONNECTION_REQUEST_REQUEST__MOGENIUS_OPERATOR_SRC_XTERM_PODEVENTCONNECTIONREQUEST == [name |-> <<"SERVICE_POD_EVENT_STREAM_CONNECTION_REQUEST_REQUEST__MOGENIUS_OPERATOR_SRC_XTERM_PODEVENTCONNECTIONREQUEST">>, fields |-> <<<<"controller", <<"string">>>>, <<"namespace", <<"string">>>>, <<"wsConnectionRequest", <<"SERVICE_POD_EVENT_STREAM_CONNECTION_REQUEST_REQUEST__MOGENIUS_OPERATOR_SRC_XTERM_WSCONNECTIONREQUEST">>>>>>]

\* SERVICE_POD_EVENT_STREAM_CONNECTION_REQUEST_REQUEST__MOGENIUS_OPERATOR_SRC_XTERM_WSCONNECTIONREQUEST
SERVICE_POD_EVENT_STREAM_CONNECTION_REQUEST_REQUEST__MOGENIUS_OPERATOR_SRC_XTERM_WSCONNECTIONREQUEST == [name |-> <<"SERVICE_POD_EVENT_STREAM_CONNECTION_REQUEST_REQUEST__MOGENIUS_OPERATOR_SRC_XTERM_WSCONNECTIONREQUEST">>, fields |-> <<<<"channelId", <<"string">>>>, <<"cmdType", <<"string">>>>, <<"nodeName", <<"string">>>>, <<"podName", <<"string">>>>, <<"websocketHost", <<"string">>>>, <<"websocketScheme", <<"string">>>>, <<"workspace", <<"string">>>>>>]

\* STATS_POD_ALL_FOR_CONTROLLER_REQUEST__MOGENIUS_OPERATOR_SRC_CORE_REQUEST
STATS_POD_ALL_FOR_CONTROLLER_REQUEST__MOGENIUS_OPERATOR_SRC_CORE_REQUEST == [name |-> <<"STATS_POD_ALL_FOR_CONTROLLER_REQUEST__MOGENIUS_OPERATOR_SRC_CORE_REQUEST">>, fields |-> <<<<"kind", <<"string">>>>, <<"name", <<"string">>>>, <<"namespace", <<"string">>>>, <<"timeOffsetMinutes", <<"number">>>>>>]

\* STATS_TRAFFIC_ALL_FOR_CONTROLLER_REQUEST__MOGENIUS_OPERATOR_SRC_CORE_REQUEST
STATS_TRAFFIC_ALL_FOR_CONTROLLER_REQUEST__MOGENIUS_OPERATOR_SRC_CORE_REQUEST == [name |-> <<"STATS_TRAFFIC_ALL_FOR_CONTROLLER_REQUEST__MOGENIUS_OPERATOR_SRC_CORE_REQUEST">>, fields |-> <<<<"kind", <<"string">>>>, <<"name", <<"string">>>>, <<"namespace", <<"string">>>>, <<"timeOffsetMinutes", <<"number">>>>>>]

\* STATS_WORKSPACE_CPU_UTILIZATION_REQUEST__MOGENIUS_OPERATOR_SRC_CORE_REQUEST
STATS_WORKSPACE_CPU_UTILIZATION_REQUEST__MOGENIUS_OPERATOR_SRC_CORE_REQUEST == [name |-> <<"STATS_WORKSPACE_CPU_UTILIZATION_REQUEST__MOGENIUS_OPERATOR_SRC_CORE_REQUEST">>, fields |-> <<<<"timeOffsetMinutes", <<"number">>>>, <<"workspaceName", <<"string">>>>>>]

\* STATS_WORKSPACE_MEMORY_UTILIZATION_REQUEST__MOGENIUS_OPERATOR_SRC_CORE_REQUEST
STATS_WORKSPACE_MEMORY_UTILIZATION_REQUEST__MOGENIUS_OPERATOR_SRC_CORE_REQUEST == [name |-> <<"STATS_WORKSPACE_MEMORY_UTILIZATION_REQUEST__MOGENIUS_OPERATOR_SRC_CORE_REQUEST">>, fields |-> <<<<"timeOffsetMinutes", <<"number">>>>, <<"workspaceName", <<"string">>>>>>]

\* STATS_WORKSPACE_TRAFFIC_UTILIZATION_REQUEST__MOGENIUS_OPERATOR_SRC_CORE_REQUEST
STATS_WORKSPACE_TRAFFIC_UTILIZATION_REQUEST__MOGENIUS_OPERATOR_SRC_CORE_REQUEST == [name |-> <<"STATS_WORKSPACE_TRAFFIC_UTILIZATION_REQUEST__MOGENIUS_OPERATOR_SRC_CORE_REQUEST">>, fields |-> <<<<"timeOffsetMinutes", <<"number">>>>, <<"workspaceName", <<"string">>>>>>]

\* STORAGE_CREATE_VOLUME_REQUEST__MOGENIUS_OPERATOR_SRC_SERVICES_NFSVOLUMEREQUEST
STORAGE_CREATE_VOLUME_REQUEST__MOGENIUS_OPERATOR_SRC_SERVICES_NFSVOLUMEREQUEST == [name |-> <<"STORAGE_CREATE_VOLUME_REQUEST__MOGENIUS_OPERATOR_SRC_SERVICES_NFSVOLUMEREQUEST">>, fields |-> <<<<"namespaceName", <<"string">>>>, <<"sizeInGb", <<"number">>>>, <<"volumeName", <<"string">>>>>>]

\* STORAGE_DELETE_VOLUME_REQUEST__MOGENIUS_OPERATOR_SRC_SERVICES_NFSVOLUMEREQUEST
STORAGE_DELETE_VOLUME_REQUEST__MOGENIUS_OPERATOR_SRC_SERVICES_NFSVOLUMEREQUEST == [name |-> <<"STORAGE_DELETE_VOLUME_REQUEST__MOGENIUS_OPERATOR_SRC_SERVICES_NFSVOLUMEREQUEST">>, fields |-> <<<<"namespaceName", <<"string">>>>, <<"sizeInGb", <<"number">>>>, <<"volumeName", <<"string">>>>>>]

\* STORAGE_STATS_REQUEST__MOGENIUS_OPERATOR_SRC_SERVICES_NFSVOLUMESTATSREQUEST
STORAGE_STATS_REQUEST__MOGENIUS_OPERATOR_SRC_SERVICES_NFSVOLUMESTATSREQUEST == [name |-> <<"STORAGE_STATS_REQUEST__MOGENIUS_OPERATOR_SRC_SERVICES_NFSVOLUMESTATSREQUEST">>, fields |-> <<<<"namespaceName", <<"string">>>>, <<"volumeName", <<"string">>>>>>]

\* STORAGE_STATUS_REQUEST__MOGENIUS_OPERATOR_SRC_SERVICES_NFSSTATUSREQUEST
STORAGE_STATUS_REQUEST__MOGENIUS_OPERATOR_SRC_SERVICES_NFSSTATUSREQUEST == [name |-> <<"STORAGE_STATUS_REQUEST__MOGENIUS_OPERATOR_SRC_SERVICES_NFSSTATUSREQUEST">>, fields |-> <<<<"name", <<"string">>>>, <<"namespace", <<"string">>>>, <<"type", <<"string">>>>>>]

\* SYSTEM_CHECK_REQUEST__ANON_STRUCT_0
SYSTEM_CHECK_REQUEST__ANON_STRUCT_0 == [name |-> <<"SYSTEM_CHECK_REQUEST__ANON_STRUCT_0">>, fields |-> <<>>]

\* TRIGGER_WORKLOAD_REQUEST__MOGENIUS_OPERATOR_SRC_UTILS_RESOURCEDESCRIPTOR
TRIGGER_WORKLOAD_REQUEST__MOGENIUS_OPERATOR_SRC_UTILS_RESOURCEDESCRIPTOR == [name |-> <<"TRIGGER_WORKLOAD_REQUEST__MOGENIUS_OPERATOR_SRC_UTILS_RESOURCEDESCRIPTOR">>, fields |-> <<<<"apiVersion", <<"string">>>>, <<"kind", <<"string">>>>, <<"namespaced", <<"boolean">>>>, <<"plural", <<"string">>>>>>]

\* TRIGGER_WORKLOAD_REQUEST__MOGENIUS_OPERATOR_SRC_UTILS_WORKLOADSINGLEREQUEST
TRIGGER_WORKLOAD_REQUEST__MOGENIUS_OPERATOR_SRC_UTILS_WORKLOADSINGLEREQUEST == [name |-> <<"TRIGGER_WORKLOAD_REQUEST__MOGENIUS_OPERATOR_SRC_UTILS_WORKLOADSINGLEREQUEST">>, fields |-> <<<<"ResourceDescriptor", <<"TRIGGER_WORKLOAD_REQUEST__MOGENIUS_OPERATOR_SRC_UTILS_RESOURCEDESCRIPTOR">>>>, <<"namespace", <<"string">>>>, <<"resourceName", <<"string">>>>>>]

\* UNINSTALL_CERT_MANAGER_REQUEST__ANON_STRUCT_0
UNINSTALL_CERT_MANAGER_REQUEST__ANON_STRUCT_0 == [name |-> <<"UNINSTALL_CERT_MANAGER_REQUEST__ANON_STRUCT_0">>, fields |-> <<>>]

\* UNINSTALL_CLUSTER_ISSUER_REQUEST__ANON_STRUCT_0
UNINSTALL_CLUSTER_ISSUER_REQUEST__ANON_STRUCT_0 == [name |-> <<"UNINSTALL_CLUSTER_ISSUER_REQUEST__ANON_STRUCT_0">>, fields |-> <<>>]

\* UNINSTALL_INGRESS_CONTROLLER_TRAEFIK_REQUEST__ANON_STRUCT_0
UNINSTALL_INGRESS_CONTROLLER_TRAEFIK_REQUEST__ANON_STRUCT_0 == [name |-> <<"UNINSTALL_INGRESS_CONTROLLER_TRAEFIK_REQUEST__ANON_STRUCT_0">>, fields |-> <<>>]

\* UNINSTALL_KEPLER_REQUEST__ANON_STRUCT_0
UNINSTALL_KEPLER_REQUEST__ANON_STRUCT_0 == [name |-> <<"UNINSTALL_KEPLER_REQUEST__ANON_STRUCT_0">>, fields |-> <<>>]

\* UNINSTALL_METALLB_REQUEST__ANON_STRUCT_0
UNINSTALL_METALLB_REQUEST__ANON_STRUCT_0 == [name |-> <<"UNINSTALL_METALLB_REQUEST__ANON_STRUCT_0">>, fields |-> <<>>]

\* UNINSTALL_METRICS_SERVER_REQUEST__ANON_STRUCT_0
UNINSTALL_METRICS_SERVER_REQUEST__ANON_STRUCT_0 == [name |-> <<"UNINSTALL_METRICS_SERVER_REQUEST__ANON_STRUCT_0">>, fields |-> <<>>]

\* UPDATE_GRANT_REQUEST__MOGENIUS_OPERATOR_SRC_CORE_REQUEST
UPDATE_GRANT_REQUEST__MOGENIUS_OPERATOR_SRC_CORE_REQUEST == [name |-> <<"UPDATE_GRANT_REQUEST__MOGENIUS_OPERATOR_SRC_CORE_REQUEST">>, fields |-> <<<<"grantee", <<"string">>>>, <<"name", <<"string">>>>, <<"role", <<"string">>>>, <<"targetName", <<"string">>>>, <<"targetType", <<"string">>>>>>]

\* UPDATE_USER_REQUEST__K8S_IO_API_RBAC_V1_SUBJECT
UPDATE_USER_REQUEST__K8S_IO_API_RBAC_V1_SUBJECT == [name |-> <<"UPDATE_USER_REQUEST__K8S_IO_API_RBAC_V1_SUBJECT">>, fields |-> <<<<"apiGroup", <<"string">>>>, <<"kind", <<"string">>>>, <<"name", <<"string">>>>, <<"namespace", <<"string">>>>>>]

\* UPDATE_USER_REQUEST__MOGENIUS_OPERATOR_SRC_CORE_REQUEST
UPDATE_USER_REQUEST__MOGENIUS_OPERATOR_SRC_CORE_REQUEST == [name |-> <<"UPDATE_USER_REQUEST__MOGENIUS_OPERATOR_SRC_CORE_REQUEST">>, fields |-> <<<<"email", <<"string">>>>, <<"firstName", <<"string">>>>, <<"lastName", <<"string">>>>, <<"name", <<"string">>>>, <<"subject", <<"UPDATE_USER_REQUEST__K8S_IO_API_RBAC_V1_SUBJECT", "|", "undefined">>>>>>]

\* UPDATE_WORKLOAD_REQUEST__MOGENIUS_OPERATOR_SRC_UTILS_RESOURCEDESCRIPTOR
UPDATE_WORKLOAD_REQUEST__MOGENIUS_OPERATOR_SRC_UTILS_RESOURCEDESCRIPTOR == [name |-> <<"UPDATE_WORKLOAD_REQUEST__MOGENIUS_OPERATOR_SRC_UTILS_RESOURCEDESCRIPTOR">>, fields |-> <<<<"apiVersion", <<"string">>>>, <<"kind", <<"string">>>>, <<"namespaced", <<"boolean">>>>, <<"plural", <<"string">>>>>>]

\* UPDATE_WORKLOAD_REQUEST__MOGENIUS_OPERATOR_SRC_UTILS_WORKLOADCHANGEREQUEST
UPDATE_WORKLOAD_REQUEST__MOGENIUS_OPERATOR_SRC_UTILS_WORKLOADCHANGEREQUEST == [name |-> <<"UPDATE_WORKLOAD_REQUEST__MOGENIUS_OPERATOR_SRC_UTILS_WORKLOADCHANGEREQUEST">>, fields |-> <<<<"ResourceDescriptor", <<"UPDATE_WORKLOAD_REQUEST__MOGENIUS_OPERATOR_SRC_UTILS_RESOURCEDESCRIPTOR">>>>, <<"namespace", <<"string">>>>, <<"yamlData", <<"string">>>>>>]

\* UPDATE_WORKSPACE_REQUEST__MOGENIUS_OPERATOR_SRC_CORE_REQUEST
UPDATE_WORKSPACE_REQUEST__MOGENIUS_OPERATOR_SRC_CORE_REQUEST == [name |-> <<"UPDATE_WORKSPACE_REQUEST__MOGENIUS_OPERATOR_SRC_CORE_REQUEST">>, fields |-> <<<<"displayName", <<"string">>>>, <<"name", <<"string">>>>, <<"resources", <<"UPDATE_WORKSPACE_REQUEST__MOGENIUS_OPERATOR_SRC_CRDS_V1ALPHA1_WORKSPACERESOURCEIDENTIFIER", "[]">>>>>>]

\* UPDATE_WORKSPACE_REQUEST__MOGENIUS_OPERATOR_SRC_CRDS_V1ALPHA1_WORKSPACERESOURCEIDENTIFIER
UPDATE_WORKSPACE_REQUEST__MOGENIUS_OPERATOR_SRC_CRDS_V1ALPHA1_WORKSPACERESOURCEIDENTIFIER == [name |-> <<"UPDATE_WORKSPACE_REQUEST__MOGENIUS_OPERATOR_SRC_CRDS_V1ALPHA1_WORKSPACERESOURCEIDENTIFIER">>, fields |-> <<<<"id", <<"string">>>>, <<"namespace", <<"string">>>>, <<"type", <<"string">>>>>>]

\* UPGRADEK8SMANAGER_REQUEST__MOGENIUS_OPERATOR_SRC_CORE_REQUEST
UPGRADEK8SMANAGER_REQUEST__MOGENIUS_OPERATOR_SRC_CORE_REQUEST == [name |-> <<"UPGRADEK8SMANAGER_REQUEST__MOGENIUS_OPERATOR_SRC_CORE_REQUEST">>, fields |-> <<<<"command", <<"string">>>>>>]

\* UPGRADE_CERT_MANAGER_REQUEST__ANON_STRUCT_0
UPGRADE_CERT_MANAGER_REQUEST__ANON_STRUCT_0 == [name |-> <<"UPGRADE_CERT_MANAGER_REQUEST__ANON_STRUCT_0">>, fields |-> <<>>]

\* UPGRADE_INGRESS_CONTROLLER_TRAEFIK_REQUEST__ANON_STRUCT_0
UPGRADE_INGRESS_CONTROLLER_TRAEFIK_REQUEST__ANON_STRUCT_0 == [name |-> <<"UPGRADE_INGRESS_CONTROLLER_TRAEFIK_REQUEST__ANON_STRUCT_0">>, fields |-> <<>>]

\* UPGRADE_KEPLER_REQUEST__ANON_STRUCT_0
UPGRADE_KEPLER_REQUEST__ANON_STRUCT_0 == [name |-> <<"UPGRADE_KEPLER_REQUEST__ANON_STRUCT_0">>, fields |-> <<>>]

\* UPGRADE_METALLB_REQUEST__ANON_STRUCT_0
UPGRADE_METALLB_REQUEST__ANON_STRUCT_0 == [name |-> <<"UPGRADE_METALLB_REQUEST__ANON_STRUCT_0">>, fields |-> <<>>]

\* UPGRADE_METRICS_SERVER_REQUEST__ANON_STRUCT_0
UPGRADE_METRICS_SERVER_REQUEST__ANON_STRUCT_0 == [name |-> <<"UPGRADE_METRICS_SERVER_REQUEST__ANON_STRUCT_0">>, fields |-> <<>>]

\* WORKSPACE_CLEAN_UP_REQUEST__MOGENIUS_OPERATOR_SRC_CORE_REQUEST
WORKSPACE_CLEAN_UP_REQUEST__MOGENIUS_OPERATOR_SRC_CORE_REQUEST == [name |-> <<"WORKSPACE_CLEAN_UP_REQUEST__MOGENIUS_OPERATOR_SRC_CORE_REQUEST">>, fields |-> <<<<"configMaps", <<"boolean">>>>, <<"dryRun", <<"boolean">>>>, <<"ingresses", <<"boolean">>>>, <<"jobs", <<"boolean">>>>, <<"name", <<"string">>>>, <<"pods", <<"boolean">>>>, <<"replicaSets", <<"boolean">>>>, <<"secrets", <<"boolean">>>>, <<"services", <<"boolean">>>>>>]

=============================================================================
