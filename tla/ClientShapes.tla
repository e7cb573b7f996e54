---------------------------- MODULE ClientShapes ----------------------------
(***************************************************************************)
(* The types of src/generated/client.ts as the decoder of Shapes reads them: *)
(* every alias by name, and the set of every struct declaration.           *)
(***************************************************************************)
EXTENDS ClientRequestAliases, ClientResponseAliases, ClientRequestStructs, ClientResponseStructs1, ClientResponseStructs2

\* Every alias by name.
ClientAliases ==
    "AUDIT_LOG_LIST_REQUEST" :> AUDIT_LOG_LIST_REQUEST
    @@ "AUDIT_LOG_LIST_RESPONSE" :> AUDIT_LOG_LIST_RESPONSE
    @@ "CLUSTER_ARGO_CD_APPLICATION_REFRESH_REQUEST" :> CLUSTER_ARGO_CD_APPLICATION_REFRESH_REQUEST
    @@ "CLUSTER_ARGO_CD_APPLICATION_REFRESH_RESPONSE" :> CLUSTER_ARGO_CD_APPLICATION_REFRESH_RESPONSE
    @@ "CLUSTER_ARGO_CD_CREATE_API_TOKEN_REQUEST" :> CLUSTER_ARGO_CD_CREATE_API_TOKEN_REQUEST
    @@ "CLUSTER_ARGO_CD_CREATE_API_TOKEN_RESPONSE" :> CLUSTER_ARGO_CD_CREATE_API_TOKEN_RESPONSE
    @@ "CLUSTER_CLEAR_VALKEY_CACHE_REQUEST" :> CLUSTER_CLEAR_VALKEY_CACHE_REQUEST
    @@ "CLUSTER_CLEAR_VALKEY_CACHE_RESPONSE" :> CLUSTER_CLEAR_VALKEY_CACHE_RESPONSE
    @@ "CLUSTER_COMPONENT_LOG_STREAM_CONNECTION_REQUEST_REQUEST" :> CLUSTER_COMPONENT_LOG_STREAM_CONNECTION_REQUEST_REQUEST
    @@ "CLUSTER_COMPONENT_LOG_STREAM_CONNECTION_REQUEST_RESPONSE" :> CLUSTER_COMPONENT_LOG_STREAM_CONNECTION_REQUEST_RESPONSE
    @@ "CLUSTER_FORCE_DISCONNECT_REQUEST" :> CLUSTER_FORCE_DISCONNECT_REQUEST
    @@ "CLUSTER_FORCE_DISCONNECT_RESPONSE" :> CLUSTER_FORCE_DISCONNECT_RESPONSE
    @@ "CLUSTER_FORCE_RECONNECT_REQUEST" :> CLUSTER_FORCE_RECONNECT_REQUEST
    @@ "CLUSTER_FORCE_RECONNECT_RESPONSE" :> CLUSTER_FORCE_RECONNECT_RESPONSE
    @@ "CLUSTER_HELM_CHART_INSTALL_REQUEST" :> CLUSTER_HELM_CHART_INSTALL_REQUEST
    @@ "CLUSTER_HELM_CHART_INSTALL_RESPONSE" :> CLUSTER_HELM_CHART_INSTALL_RESPONSE
    @@ "CLUSTER_HELM_CHART_INSTALL_OCI_REQUEST" :> CLUSTER_HELM_CHART_INSTALL_OCI_REQUEST
    @@ "CLUSTER_HELM_CHART_INSTALL_OCI_RESPONSE" :> CLUSTER_HELM_CHART_INSTALL_OCI_RESPONSE
    @@ "CLUSTER_HELM_CHART_REMOVE_REQUEST" :> CLUSTER_HELM_CHART_REMOVE_REQUEST
    @@ "CLUSTER_HELM_CHART_REMOVE_RESPONSE" :> CLUSTER_HELM_CHART_REMOVE_RESPONSE
    @@ "CLUSTER_HELM_CHART_SEARCH_REQUEST" :> CLUSTER_HELM_CHART_SEARCH_REQUEST
    @@ "CLUSTER_HELM_CHART_SEARCH_RESPONSE" :> CLUSTER_HELM_CHART_SEARCH_RESPONSE
    @@ "CLUSTER_HELM_CHART_SHOW_REQUEST" :> CLUSTER_HELM_CHART_SHOW_REQUEST
    @@ "CLUSTER_HELM_CHART_SHOW_RESPONSE" :> CLUSTER_HELM_CHART_SHOW_RESPONSE
    @@ "CLUSTER_HELM_CHART_VERSIONS_REQUEST" :> CLUSTER_HELM_CHART_VERSIONS_REQUEST
    @@ "CLUSTER_HELM_CHART_VERSIONS_RESPONSE" :> CLUSTER_HELM_CHART_VERSIONS_RESPONSE
    @@ "CLUSTER_HELM_RELEASE_GET_REQUEST" :> CLUSTER_HELM_RELEASE_GET_REQUEST
    @@ "CLUSTER_HELM_RELEASE_GET_RESPONSE" :> CLUSTER_HELM_RELEASE_GET_RESPONSE
    @@ "CLUSTER_HELM_RELEASE_GET_WORKLOADS_REQUEST" :> CLUSTER_HELM_RELEASE_GET_WORKLOADS_REQUEST
    @@ "CLUSTER_HELM_RELEASE_GET_WORKLOADS_RESPONSE" :> CLUSTER_HELM_RELEASE_GET_WORKLOADS_RESPONSE
    @@ "CLUSTER_HELM_RELEASE_HISTORY_REQUEST" :> CLUSTER_HELM_RELEASE_HISTORY_REQUEST
    @@ "CLUSTER_HELM_RELEASE_HISTORY_RESPONSE" :> CLUSTER_HELM_RELEASE_HISTORY_RESPONSE
    @@ "CLUSTER_HELM_RELEASE_LINK_REQUEST" :> CLUSTER_HELM_RELEASE_LINK_REQUEST
    @@ "CLUSTER_HELM_RELEASE_LINK_RESPONSE" :> CLUSTER_HELM_RELEASE_LINK_RESPONSE
    @@ "CLUSTER_HELM_RELEASE_LIST_REQUEST" :> CLUSTER_HELM_RELEASE_LIST_REQUEST
    @@ "CLUSTER_HELM_RELEASE_LIST_RESPONSE" :> CLUSTER_HELM_RELEASE_LIST_RESPONSE
    @@ "CLUSTER_HELM_RELEASE_ROLLBACK_REQUEST" :> CLUSTER_HELM_RELEASE_ROLLBACK_REQUEST
    @@ "CLUSTER_HELM_RELEASE_ROLLBACK_RESPONSE" :> CLUSTER_HELM_RELEASE_ROLLBACK_RESPONSE
    @@ "CLUSTER_HELM_RELEASE_STATUS_REQUEST" :> CLUSTER_HELM_RELEASE_STATUS_REQUEST
    @@ "CLUSTER_HELM_RELEASE_STATUS_RESPONSE" :> CLUSTER_HELM_RELEASE_STATUS_RESPONSE
    @@ "CLUSTER_HELM_RELEASE_UNINSTALL_REQUEST" :> CLUSTER_HELM_RELEASE_UNINSTALL_REQUEST
    @@ "CLUSTER_HELM_RELEASE_UNINSTALL_RESPONSE" :> CLUSTER_HELM_RELEASE_UNINSTALL_RESPONSE
    @@ "CLUSTER_HELM_RELEASE_UPGRADE_REQUEST" :> CLUSTER_HELM_RELEASE_UPGRADE_REQUEST
    @@ "CLUSTER_HELM_RELEASE_UPGRADE_RESPONSE" :> CLUSTER_HELM_RELEASE_UPGRADE_RESPONSE
    @@ "CLUSTER_HELM_REPO_ADD_REQUEST" :> CLUSTER_HELM_REPO_ADD_REQUEST
    @@ "CLUSTER_HELM_REPO_ADD_RESPONSE" :> CLUSTER_HELM_REPO_ADD_RESPONSE
    @@ "CLUSTER_HELM_REPO_LIST_REQUEST" :> CLUSTER_HELM_REPO_LIST_REQUEST
    @@ "CLUSTER_HELM_REPO_LIST_RESPONSE" :> CLUSTER_HELM_REPO_LIST_RESPONSE
    @@ "CLUSTER_HELM_REPO_PATCH_REQUEST" :> CLUSTER_HELM_REPO_PATCH_REQUEST
    @@ "CLUSTER_HELM_REPO_PATCH_RESPONSE" :> CLUSTER_HELM_REPO_PATCH_RESPONSE
    @@ "CLUSTER_HELM_REPO_UPDATE_REQUEST" :> CLUSTER_HELM_REPO_UPDATE_REQUEST
    @@ "CLUSTER_HELM_REPO_UPDATE_RESPONSE" :> CLUSTER_HELM_REPO_UPDATE_RESPONSE
    @@ "CLUSTER_LIST_PERSISTENT_VOLUME_CLAIMS_REQUEST" :> CLUSTER_LIST_PERSISTENT_VOLUME_CLAIMS_REQUEST
    @@ "CLUSTER_LIST_PERSISTENT_VOLUME_CLAIMS_RESPONSE" :> CLUSTER_LIST_PERSISTENT_VOLUME_CLAIMS_RESPONSE
    @@ "CLUSTER_MACHINE_STATS_REQUEST" :> CLUSTER_MACHINE_STATS_REQUEST
    @@ "CLUSTER_MACHINE_STATS_RESPONSE" :> CLUSTER_MACHINE_STATS_RESPONSE
    @@ "CLUSTER_RESOURCE_INFO_REQUEST" :> CLUSTER_RESOURCE_INFO_REQUEST
    @@ "CLUSTER_RESOURCE_INFO_RESPONSE" :> CLUSTER_RESOURCE_INFO_RESPONSE
    @@ "CREATE_GRANT_REQUEST" :> CREATE_GRANT_REQUEST
    @@ "CREATE_GRANT_RESPONSE" :> CREATE_GRANT_RESPONSE
    @@ "CREATE_NEW_WORKLOAD_REQUEST" :> CREATE_NEW_WORKLOAD_REQUEST
    @@ "CREATE_NEW_WORKLOAD_RESPONSE" :> CREATE_NEW_WORKLOAD_RESPONSE
    @@ "CREATE_USER_REQUEST" :> CREATE_USER_REQUEST
    @@ "CREATE_USER_RESPONSE" :> CREATE_USER_RESPONSE
    @@ "CREATE_WORKSPACE_REQUEST" :> CREATE_WORKSPACE_REQUEST
    @@ "CREATE_WORKSPACE_RESPONSE" :> CREATE_WORKSPACE_RESPONSE
    @@ "DELETE_GRANT_REQUEST" :> DELETE_GRANT_REQUEST
    @@ "DELETE_GRANT_RESPONSE" :> DELETE_GRANT_RESPONSE
    @@ "DELETE_USER_REQUEST" :> DELETE_USER_REQUEST
    @@ "DELETE_USER_RESPONSE" :> DELETE_USER_RESPONSE
    @@ "DELETE_WORKLOAD_REQUEST" :> DELETE_WORKLOAD_REQUEST
    @@ "DELETE_WORKLOAD_RESPONSE" :> DELETE_WORKLOAD_RESPONSE
    @@ "DELETE_WORKSPACE_REQUEST" :> DELETE_WORKSPACE_REQUEST
    @@ "DELETE_WORKSPACE_RESPONSE" :> DELETE_WORKSPACE_RESPONSE
    @@ "DESCRIBE_REQUEST" :> DESCRIBE_REQUEST
    @@ "DESCRIBE_RESPONSE" :> DESCRIBE_RESPONSE
    @@ "DESCRIBE_WORKLOAD_REQUEST" :> DESCRIBE_WORKLOAD_REQUEST
    @@ "DESCRIBE_WORKLOAD_RESPONSE" :> DESCRIBE_WORKLOAD_RESPONSE
    @@ "FILES_CHMOD_REQUEST" :> FILES_CHMOD_REQUEST
    @@ "FILES_CHMOD_RESPONSE" :> FILES_CHMOD_RESPONSE
    @@ "FILES_CHOWN_REQUEST" :> FILES_CHOWN_REQUEST
    @@ "FILES_CHOWN_RESPONSE" :> FILES_CHOWN_RESPONSE
    @@ "FILES_CREATE_FOLDER_REQUEST" :> FILES_CREATE_FOLDER_REQUEST
    @@ "FILES_CREATE_FOLDER_RESPONSE" :> FILES_CREATE_FOLDER_RESPONSE
    @@ "FILES_DELETE_REQUEST" :> FILES_DELETE_REQUEST
    @@ "FILES_DELETE_RESPONSE" :> FILES_DELETE_RESPONSE
    @@ "FILES_DOWNLOAD_REQUEST" :> FILES_DOWNLOAD_REQUEST
    @@ "FILES_DOWNLOAD_RESPONSE" :> FILES_DOWNLOAD_RESPONSE
    @@ "FILES_INFO_REQUEST" :> FILES_INFO_REQUEST
    @@ "FILES_INFO_RESPONSE" :> FILES_INFO_RESPONSE
    @@ "FILES_LIST_REQUEST" :> FILES_LIST_REQUEST
    @@ "FILES_LIST_RESPONSE" :> FILES_LIST_RESPONSE
    @@ "FILES_RENAME_REQUEST" :> FILES_RENAME_REQUEST
    @@ "FILES_RENAME_RESPONSE" :> FILES_RENAME_RESPONSE
    @@ "GET_GRANT_REQUEST" :> GET_GRANT_REQUEST
    @@ "GET_GRANT_RESPONSE" :> GET_GRANT_RESPONSE
    @@ "GET_GRANTS_REQUEST" :> GET_GRANTS_REQUEST
    @@ "GET_GRANTS_RESPONSE" :> GET_GRANTS_RESPONSE
    @@ "GET_LABELED_WORKLOAD_LIST_REQUEST" :> GET_LABELED_WORKLOAD_LIST_REQUEST
    @@ "GET_LABELED_WORKLOAD_LIST_RESPONSE" :> GET_LABELED_WORKLOAD_LIST_RESPONSE
    @@ "GET_NAMESPACE_WORKLOAD_LIST_REQUEST" :> GET_NAMESPACE_WORKLOAD_LIST_REQUEST
    @@ "GET_NAMESPACE_WORKLOAD_LIST_RESPONSE" :> GET_NAMESPACE_WORKLOAD_LIST_RESPONSE
    @@ "GET_NODES_METRICS_REQUEST" :> GET_NODES_METRICS_REQUEST
    @@ "GET_NODES_METRICS_RESPONSE" :> GET_NODES_METRICS_RESPONSE
    @@ "GET_USER_REQUEST" :> GET_USER_REQUEST
    @@ "GET_USER_RESPONSE" :> GET_USER_RESPONSE
    @@ "GET_USERS_REQUEST" :> GET_USERS_REQUEST
    @@ "GET_USERS_RESPONSE" :> GET_USERS_RESPONSE
    @@ "GET_WORKLOAD_REQUEST" :> GET_WORKLOAD_REQUEST
    @@ "GET_WORKLOAD_RESPONSE" :> GET_WORKLOAD_RESPONSE
    @@ "GET_WORKLOAD_EXAMPLE_REQUEST" :> GET_WORKLOAD_EXAMPLE_REQUEST
    @@ "GET_WORKLOAD_EXAMPLE_RESPONSE" :> GET_WORKLOAD_EXAMPLE_RESPONSE
    @@ "GET_WORKLOAD_LIST_REQUEST" :> GET_WORKLOAD_LIST_REQUEST
    @@ "GET_WORKLOAD_LIST_RESPONSE" :> GET_WORKLOAD_LIST_RESPONSE
    @@ "GET_WORKLOAD_STATUS_REQUEST" :> GET_WORKLOAD_STATUS_REQUEST
    @@ "GET_WORKLOAD_STATUS_RESPONSE" :> GET_WORKLOAD_STATUS_RESPONSE
    @@ "GET_WORKSPACE_REQUEST" :> GET_WORKSPACE_REQUEST
    @@ "GET_WORKSPACE_RESPONSE" :> GET_WORKSPACE_RESPONSE
    @@ "GET_WORKSPACES_REQUEST" :> GET_WORKSPACES_REQUEST
    @@ "GET_WORKSPACES_RESPONSE" :> GET_WORKSPACES_RESPONSE
    @@ "GET_WORKSPACE_WORKLOADS_REQUEST" :> GET_WORKSPACE_WORKLOADS_REQUEST
    @@ "GET_WORKSPACE_WORKLOADS_RESPONSE" :> GET_WORKSPACE_WORKLOADS_RESPONSE
    @@ "INSTALL_CERT_MANAGER_REQUEST" :> INSTALL_CERT_MANAGER_REQUEST
    @@ "INSTALL_CERT_MANAGER_RESPONSE" :> INSTALL_CERT_MANAGER_RESPONSE
    @@ "INSTALL_CLUSTER_ISSUER_REQUEST" :> INSTALL_CLUSTER_ISSUER_REQUEST
    @@ "INSTALL_CLUSTER_ISSUER_RESPONSE" :> INSTALL_CLUSTER_ISSUER_RESPONSE
    @@ "INSTALL_INGRESS_CONTROLLER_TRAEFIK_REQUEST" :> INSTALL_INGRESS_CONTROLLER_TRAEFIK_REQUEST
    @@ "INSTALL_INGRESS_CONTROLLER_TRAEFIK_RESPONSE" :> INSTALL_INGRESS_CONTROLLER_TRAEFIK_RESPONSE
    @@ "INSTALL_KEPLER_REQUEST" :> INSTALL_KEPLER_REQUEST
    @@ "INSTALL_KEPLER_RESPONSE" :> INSTALL_KEPLER_RESPONSE
    @@ "INSTALL_METALLB_REQUEST" :> INSTALL_METALLB_REQUEST
    @@ "INSTALL_METALLB_RESPONSE" :> INSTALL_METALLB_RESPONSE
    @@ "INSTALL_METRICS_SERVER_REQUEST" :> INSTALL_METRICS_SERVER_REQUEST
    @@ "INSTALL_METRICS_SERVER_RESPONSE" :> INSTALL_METRICS_SERVER_RESPONSE
    @@ "LIST_ALL_RESOURCE_DESCRIPTORS_REQUEST" :> LIST_ALL_RESOURCE_DESCRIPTORS_REQUEST
    @@ "LIST_ALL_RESOURCE_DESCRIPTORS_RESPONSE" :> LIST_ALL_RESOURCE_DESCRIPTORS_RESPONSE
    @@ "LIVE_STREAM_NODES_CPU_REQUEST" :> LIVE_STREAM_NODES_CPU_REQUEST
    @@ "LIVE_STREAM_NODES_CPU_RESPONSE" :> LIVE_STREAM_NODES_CPU_RESPONSE
    @@ "LIVE_STREAM_NODES_MEMORY_REQUEST" :> LIVE_STREAM_NODES_MEMORY_REQUEST
    @@ "LIVE_STREAM_NODES_MEMORY_RESPONSE" :> LIVE_STREAM_NODES_MEMORY_RESPONSE
    @@ "LIVE_STREAM_NODES_TRAFFIC_REQUEST" :> LIVE_STREAM_NODES_TRAFFIC_REQUEST
    @@ "LIVE_STREAM_NODES_TRAFFIC_RESPONSE" :> LIVE_STREAM_NODES_TRAFFIC_RESPONSE
    @@ "LIVE_STREAM_POD_CPU_REQUEST" :> LIVE_STREAM_POD_CPU_REQUEST
    @@ "LIVE_STREAM_POD_CPU_RESPONSE" :> LIVE_STREAM_POD_CPU_RESPONSE
    @@ "LIVE_STREAM_POD_MEMORY_REQUEST" :> LIVE_STREAM_POD_MEMORY_REQUEST
    @@ "LIVE_STREAM_POD_MEMORY_RESPONSE" :> LIVE_STREAM_POD_MEMORY_RESPONSE
    @@ "LIVE_STREAM_POD_TRAFFIC_REQUEST" :> LIVE_STREAM_POD_TRAFFIC_REQUEST
    @@ "LIVE_STREAM_POD_TRAFFIC_RESPONSE" :> LIVE_STREAM_POD_TRAFFIC_RESPONSE
    @@ "LIVE_STREAM_WORKSPACE_CPU_REQUEST" :> LIVE_STREAM_WORKSPACE_CPU_REQUEST
    @@ "LIVE_STREAM_WORKSPACE_CPU_RESPONSE" :> LIVE_STREAM_WORKSPACE_CPU_RESPONSE
    @@ "LIVE_STREAM_WORKSPACE_MEMORY_REQUEST" :> LIVE_STREAM_WORKSPACE_MEMORY_REQUEST
    @@ "LIVE_STREAM_WORKSPACE_MEMORY_RESPONSE" :> LIVE_STREAM_WORKSPACE_MEMORY_RESPONSE
    @@ "LIVE_STREAM_WORKSPACE_TRAFFIC_REQUEST" :> LIVE_STREAM_WORKSPACE_TRAFFIC_REQUEST
    @@ "LIVE_STREAM_WORKSPACE_TRAFFIC_RESPONSE" :> LIVE_STREAM_WORKSPACE_TRAFFIC_RESPONSE
    @@ "PROMETHEUS_CHARTS_ADD_REQUEST" :> PROMETHEUS_CHARTS_ADD_REQUEST
    @@ "PROMETHEUS_CHARTS_ADD_RESPONSE" :> PROMETHEUS_CHARTS_ADD_RESPONSE
    @@ "PROMETHEUS_CHARTS_GET_REQUEST" :> PROMETHEUS_CHARTS_GET_REQUEST
    @@ "PROMETHEUS_CHARTS_GET_RESPONSE" :> PROMETHEUS_CHARTS_GET_RESPONSE
    @@ "PROMETHEUS_CHARTS_LIST_REQUEST" :> PROMETHEUS_CHARTS_LIST_REQUEST
    @@ "PROMETHEUS_CHARTS_LIST_RESPONSE" :> PROMETHEUS_CHARTS_LIST_RESPONSE
    @@ "PROMETHEUS_CHARTS_REMOVE_REQUEST" :> PROMETHEUS_CHARTS_REMOVE_REQUEST
    @@ "PROMETHEUS_CHARTS_REMOVE_RESPONSE" :> PROMETHEUS_CHARTS_REMOVE_RESPONSE
    @@ "PROMETHEUS_IS_REACHABLE_REQUEST" :> PROMETHEUS_IS_REACHABLE_REQUEST
    @@ "PROMETHEUS_IS_REACHABLE_RESPONSE" :> PROMETHEUS_IS_REACHABLE_RESPONSE
    @@ "PROMETHEUS_QUERY_REQUEST" :> PROMETHEUS_QUERY_REQUEST
    @@ "PROMETHEUS_QUERY_RESPONSE" :> PROMETHEUS_QUERY_RESPONSE
    @@ "PROMETHEUS_VALUES_REQUEST" :> PROMETHEUS_VALUES_REQUEST
    @@ "PROMETHEUS_VALUES_RESPONSE" :> PROMETHEUS_VALUES_RESPONSE
    @@ "SEALED_SECRET_CREATE_FROM_EXISTING_REQUEST" :> SEALED_SECRET_CREATE_FROM_EXISTING_REQUEST
    @@ "SEALED_SECRET_CREATE_FROM_EXISTING_RESPONSE" :> SEALED_SECRET_CREATE_FROM_EXISTING_RESPONSE
    @@ "SEALED_SECRET_GET_CERTIFICATE_REQUEST" :> SEALED_SECRET_GET_CERTIFICATE_REQUEST
    @@ "SEALED_SECRET_GET_CERTIFICATE_RESPONSE" :> SEALED_SECRET_GET_CERTIFICATE_RESPONSE
    @@ "SERVICE_EXEC_SH_CONNECTION_REQUEST_REQUEST" :> SERVICE_EXEC_SH_CONNECTION_REQUEST_REQUEST
    @@ "SERVICE_EXEC_SH_CONNECTION_REQUEST_RESPONSE" :> SERVICE_EXEC_SH_CONNECTION_REQUEST_RESPONSE
    @@ "SERVICE_LOG_STREAM_CONNECTION_REQUEST_REQUEST" :> SERVICE_LOG_STREAM_CONNECTION_REQUEST_REQUEST
    @@ "SERVICE_LOG_STREAM_CONNECTION_REQUEST_RESPONSE" :> SERVICE_LOG_STREAM_CONNECTION_REQUEST_RESPONSE
    @@ "SERVICE_POD_EVENT_STREAM_CONNECTION_REQUEST_REQUEST" :> SERVICE_POD_EVENT_STREAM_CONNECTION_REQUEST_REQUEST
    @@ "SERVICE_POD_EVENT_STREAM_CONNECTION_REQUEST_RESPONSE" :> SERVICE_POD_EVENT_STREAM_CONNECTION_REQUEST_RESPONSE
    @@ "STATS_POD_ALL_FOR_CONTROLLER_REQUEST" :> STATS_POD_ALL_FOR_CONTROLLER_REQUEST
    @@ "STATS_POD_ALL_FOR_CONTROLLER_RESPONSE" :> STATS_POD_ALL_FOR_CONTROLLER_RESPONSE
    @@ "STATS_TRAFFIC_ALL_FOR_CONTROLLER_REQUEST" :> STATS_TRAFFIC_ALL_FOR_CONTROLLER_REQUEST
    @@ "STATS_TRAFFIC_ALL_FOR_CONTROLLER_RESPONSE" :> STATS_TRAFFIC_ALL_FOR_CONTROLLER_RESPONSE
    @@ "STATS_WORKSPACE_CPU_UTILIZATION_REQUEST" :> STATS_WORKSPACE_CPU_UTILIZATION_REQUEST
    @@ "STATS_WORKSPACE_CPU_UTILIZATION_RESPONSE" :> STATS_WORKSPACE_CPU_UTILIZATION_RESPONSE
    @@ "STATS_WORKSPACE_MEMORY_UTILIZATION_REQUEST" :> STATS_WORKSPACE_MEMORY_UTILIZATION_REQUEST
    @@ "STATS_WORKSPACE_MEMORY_UTILIZATION_RESPONSE" :> STATS_WORKSPACE_MEMORY_UTILIZATION_RESPONSE
    @@ "STATS_WORKSPACE_TRAFFIC_UTILIZATION_REQUEST" :> STATS_WORKSPACE_TRAFFIC_UTILIZATION_REQUEST
    @@ "STATS_WORKSPACE_TRAFFIC_UTILIZATION_RESPONSE" :> STATS_WORKSPACE_TRAFFIC_UTILIZATION_RESPONSE
    @@ "STORAGE_CREATE_VOLUME_REQUEST" :> STORAGE_CREATE_VOLUME_REQUEST
    @@ "STORAGE_CREATE_VOLUME_RESPONSE" :> STORAGE_CREATE_VOLUME_RESPONSE
    @@ "STORAGE_DELETE_VOLUME_REQUEST" :> STORAGE_DELETE_VOLUME_REQUEST
    @@ "STORAGE_DELETE_VOLUME_RESPONSE" :> STORAGE_DELETE_VOLUME_RESPONSE
    @@ "STORAGE_STATS_REQUEST" :> STORAGE_STATS_REQUEST
    @@ "STORAGE_STATS_RESPONSE" :> STORAGE_STATS_RESPONSE
    @@ "STORAGE_STATUS_REQUEST" :> STORAGE_STATUS_REQUEST
    @@ "STORAGE_STATUS_RESPONSE" :> STORAGE_STATUS_RESPONSE
    @@ "SYSTEM_CHECK_REQUEST" :> SYSTEM_CHECK_REQUEST
    @@ "SYSTEM_CHECK_RESPONSE" :> SYSTEM_CHECK_RESPONSE
    @@ "TRIGGER_WORKLOAD_REQUEST" :> TRIGGER_WORKLOAD_REQUEST
    @@ "TRIGGER_WORKLOAD_RESPONSE" :> TRIGGER_WORKLOAD_RESPONSE
    @@ "UNINSTALL_CERT_MANAGER_REQUEST" :> UNINSTALL_CERT_MANAGER_REQUEST
    @@ "UNINSTALL_CERT_MANAGER_RESPONSE" :> UNINSTALL_CERT_MANAGER_RESPONSE
    @@ "UNINSTALL_CLUSTER_ISSUER_REQUEST" :> UNINSTALL_CLUSTER_ISSUER_REQUEST
    @@ "UNINSTALL_CLUSTER_ISSUER_RESPONSE" :> UNINSTALL_CLUSTER_ISSUER_RESPONSE
    @@ "UNINSTALL_INGRESS_CONTROLLER_TRAEFIK_REQUEST" :> UNINSTALL_INGRESS_CONTROLLER_TRAEFIK_REQUEST
    @@ "UNINSTALL_INGRESS_CONTROLLER_TRAEFIK_RESPONSE" :> UNINSTALL_INGRESS_CONTROLLER_TRAEFIK_RESPONSE
    @@ "UNINSTALL_KEPLER_REQUEST" :> UNINSTALL_KEPLER_REQUEST
    @@ "UNINSTALL_KEPLER_RESPONSE" :> UNINSTALL_KEPLER_RESPONSE
    @@ "UNINSTALL_METALLB_REQUEST" :> UNINSTALL_METALLB_REQUEST
    @@ "UNINSTALL_METALLB_RESPONSE" :> UNINSTALL_METALLB_RESPONSE
    @@ "UNINSTALL_METRICS_SERVER_REQUEST" :> UNINSTALL_METRICS_SERVER_REQUEST
    @@ "UNINSTALL_METRICS_SERVER_RESPONSE" :> UNINSTALL_METRICS_SERVER_RESPONSE
    @@ "UPDATE_GRANT_REQUEST" :> UPDATE_GRANT_REQUEST
    @@ "UPDATE_GRANT_RESPONSE" :> UPDATE_GRANT_RESPONSE
    @@ "UPDATE_USER_REQUEST" :> UPDATE_USER_REQUEST
    @@ "UPDATE_USER_RESPONSE" :> UPDATE_USER_RESPONSE
    @@ "UPDATE_WORKLOAD_REQUEST" :> UPDATE_WORKLOAD_REQUEST
    @@ "UPDATE_WORKLOAD_RESPONSE" :> UPDATE_WORKLOAD_RESPONSE
    @@ "UPDATE_WORKSPACE_REQUEST" :> UPDATE_WORKSPACE_REQUEST
    @@ "UPDATE_WORKSPACE_RESPONSE" :> UPDATE_WORKSPACE_RESPONSE
    @@ "UPGRADEK8SMANAGER_REQUEST" :> UPGRADEK8SMANAGER_REQUEST
    @@ "UPGRADEK8SMANAGER_RESPONSE" :> UPGRADEK8SMANAGER_RESPONSE
    @@ "UPGRADE_CERT_MANAGER_REQUEST" :> UPGRADE_CERT_MANAGER_REQUEST
    @@ "UPGRADE_CERT_MANAGER_RESPONSE" :> UPGRADE_CERT_MANAGER_RESPONSE
    @@ "UPGRADE_INGRESS_CONTROLLER_TRAEFIK_REQUEST" :> UPGRADE_INGRESS_CONTROLLER_TRAEFIK_REQUEST
    @@ "UPGRADE_INGRESS_CONTROLLER_TRAEFIK_RESPONSE" :> UPGRADE_INGRESS_CONTROLLER_TRAEFIK_RESPONSE
    @@ "UPGRADE_KEPLER_REQUEST" :> UPGRADE_KEPLER_REQUEST
    @@ "UPGRADE_KEPLER_RESPONSE" :> UPGRADE_KEPLER_RESPONSE
    @@ "UPGRADE_METALLB_REQUEST" :> UPGRADE_METALLB_REQUEST
    @@ "UPGRADE_METALLB_RESPONSE" :> UPGRADE_METALLB_RESPONSE
    @@ "UPGRADE_METRICS_SERVER_REQUEST" :> UPGRADE_METRICS_SERVER_REQUEST
    @@ "UPGRADE_METRICS_SERVER_RESPONSE" :> UPGRADE_METRICS_SERVER_RESPONSE
    @@ "WORKSPACE_CLEAN_UP_REQUEST" :> WORKSPACE_CLEAN_UP_REQUEST
    @@ "WORKSPACE_CLEAN_UP_RESPONSE" :> WORKSPACE_CLEAN_UP_RESPONSE

\* Every struct declaration.
ClientDecls ==
    {AUDIT_LOG_LIST_REQUEST__MOGENIUS_OPERATOR_SRC_CORE_REQUEST,
     AUDIT_LOG_LIST_RESPONSE__MOGENIUS_OPERATOR_SRC_CORE_RESPONSE,
     AUDIT_LOG_LIST_RESPONSE__MOGENIUS_OPERATOR_SRC_CORE_RESULTMOGENIUS_OPERATOR_SRC_CORE_REQUEST34_MOGENIUS_OPERATOR_SRC_CORE_RESPONSE35,
     AUDIT_LOG_LIST_RESPONSE__MOGENIUS_OPERATOR_SRC_STORE_AUDITLOGENTRY,
     AUDIT_LOG_LIST_RESPONSE__MOGENIUS_OPERATOR_SRC_STORE_AUDITLOGRESPONSE,
     AUDIT_LOG_LIST_RESPONSE__MOGENIUS_OPERATOR_SRC_STRUCTS_USER,
     AUDIT_LOG_LIST_RESPONSE__TIME_TIME,
     CLUSTER_ARGO_CD_APPLICATION_REFRESH_REQUEST__MOGENIUS_OPERATOR_SRC_ARGOCD_ARGOCDAPPLICATIONREFRESHREQUEST,
     CLUSTER_ARGO_CD_APPLICATION_REFRESH_RESPONSE__MOGENIUS_OPERATOR_SRC_CORE_RESULTMOGENIUS_OPERATOR_SRC_ARGOCD_ARGOCDAPPLICATIONREFRESHREQUEST_BOOL,
     CLUSTER_ARGO_CD_CREATE_API_TOKEN_REQUEST__MOGENIUS_OPERATOR_SRC_ARGOCD_ARGOCDCREATEAPITOKENREQUEST,
     CLUSTER_ARGO_CD_CREATE_API_TOKEN_RESPONSE__MOGENIUS_OPERATOR_SRC_CORE_RESULTMOGENIUS_OPERATOR_SRC_ARGOCD_ARGOCDCREATEAPITOKENREQUEST_BOOL,
     CLUSTER_CLEAR_VALKEY_CACHE_REQUEST__MOGENIUS_OPERATOR_SRC_CORE_REQUEST,
     CLUSTER_CLEAR_VALKEY_CACHE_RESPONSE__MOGENIUS_OPERATOR_SRC_CORE_RESULTMOGENIUS_OPERATOR_SRC_CORE_REQUEST5_STRING,
     CLUSTER_COMPONENT_LOG_STREAM_CONNECTION_REQUEST_REQUEST__MOGENIUS_OPERATOR_SRC_XTERM_COMPONENTLOGCONNECTIONREQUEST,
     CLUSTER_COMPONENT_LOG_STREAM_CONNECTION_REQUEST_REQUEST__MOGENIUS_OPERATOR_SRC_XTERM_WSCONNECTIONREQUEST,
     CLUSTER_COMPONENT_LOG_STREAM_CONNECTION_REQUEST_RESPONSE__ANON_STRUCT_1,
     CLUSTER_COMPONENT_LOG_STREAM_CONNECTION_REQUEST_RESPONSE__MOGENIUS_OPERATOR_SRC_CORE_RESULTMOGENIUS_OPERATOR_SRC_XTERM_COMPONENTLOGCONNECTIONREQUEST_MOGENIUS_OPERATOR_SRC_CORE_VOID,
     CLUSTER_FORCE_DISCONNECT_REQUEST__ANON_STRUCT_0,
     CLUSTER_FORCE_DISCONNECT_RESPONSE__MOGENIUS_OPERATOR_SRC_CORE_RESULTMOGENIUS_OPERATOR_SRC_CORE_VOID_BOOL,
     CLUSTER_FORCE_RECONNECT_REQUEST__ANON_STRUCT_0,
     CLUSTER_FORCE_RECONNECT_RESPONSE__MOGENIUS_OPERATOR_SRC_CORE_RESULTMOGENIUS_OPERATOR_SRC_CORE_VOID_BOOL,
     CLUSTER_HELM_CHART_INSTALL_REQUEST__MOGENIUS_OPERATOR_SRC_HELM_HELMCHARTINSTALLUPGRADEREQUEST,
     CLUSTER_HELM_CHART_INSTALL_RESPONSE__MOGENIUS_OPERATOR_SRC_CORE_RESULTMOGENIUS_OPERATOR_SRC_HELM_HELMCHARTINSTALLUPGRADEREQUEST_STRING,
     CLUSTER_HELM_CHART_INSTALL_OCI_REQUEST__MOGENIUS_OPERATOR_SRC_HELM_HELMCHARTOCIINSTALLUPGRADEREQUEST,
     CLUSTER_HELM_CHART_INSTALL_OCI_RESPONSE__MOGENIUS_OPERATOR_SRC_CORE_RESULTMOGENIUS_OPERATOR_SRC_HELM_HELMCHARTOCIINSTALLUPGRADEREQUEST_STRING,
     CLUSTER_HELM_CHART_REMOVE_REQUEST__MOGENIUS_OPERATOR_SRC_HELM_HELMREPOREMOVEREQUEST,
     CLUSTER_HELM_CHART_REMOVE_RESPONSE__MOGENIUS_OPERATOR_SRC_CORE_RESULTMOGENIUS_OPERATOR_SRC_HELM_HELMREPOREMOVEREQUEST_STRING,
     CLUSTER_HELM_CHART_SEARCH_REQUEST__MOGENIUS_OPERATOR_SRC_HELM_HELMCHARTSEARCHREQUEST,
     CLUSTER_HELM_CHART_SEARCH_RESPONSE__MOGENIUS_OPERATOR_SRC_CORE_RESULTMOGENIUS_OPERATOR_SRC_HELM_HELMCHARTSEARCHREQUEST_MOGENIUS_OPERATOR_SRC_HELM_HELMCHARTINFO,
     CLUSTER_HELM_CHART_SEARCH_RESPONSE__MOGENIUS_OPERATOR_SRC_HELM_HELMCHARTINFO,
     CLUSTER_HELM_CHART_SHOW_REQUEST__MOGENIUS_OPERATOR_SRC_HELM_HELMCHARTSHOWREQUEST,
     CLUSTER_HELM_CHART_SHOW_RESPONSE__MOGENIUS_OPERATOR_SRC_CORE_RESULTMOGENIUS_OPERATOR_SRC_HELM_HELMCHARTSHOWREQUEST_STRING,
     CLUSTER_HELM_CHART_VERSIONS_REQUEST__MOGENIUS_OPERATOR_SRC_HELM_HELMCHARTVERSIONREQUEST,
     CLUSTER_HELM_CHART_VERSIONS_RESPONSE__MOGENIUS_OPERATOR_SRC_CORE_RESULTMOGENIUS_OPERATOR_SRC_HELM_HELMCHARTVERSIONREQUEST_MOGENIUS_OPERATOR_SRC_HELM_HELMCHARTINFO,
     CLUSTER_HELM_CHART_VERSIONS_RESPONSE__MOGENIUS_OPERATOR_SRC_HELM_HELMCHARTINFO,
     CLUSTER_HELM_RELEASE_GET_REQUEST__MOGENIUS_OPERATOR_SRC_HELM_HELMRELEASEGETREQUEST,
     CLUSTER_HELM_RELEASE_GET_RESPONSE__MOGENIUS_OPERATOR_SRC_CORE_RESULTMOGENIUS_OPERATOR_SRC_HELM_HELMRELEASEGETREQUEST_STRING,
     CLUSTER_HELM_RELEASE_GET_WORKLOADS_REQUEST__MOGENIUS_OPERATOR_SRC_HELM_HELMRELEASEGETWORKLOADSREQUEST,
     CLUSTER_HELM_RELEASE_GET_WORKLOADS_REQUEST__MOGENIUS_OPERATOR_SRC_UTILS_RESOURCEDESCRIPTOR,
     CLUSTER_HELM_RELEASE_GET_WORKLOADS_RESPONSE__K8S_IO_APIMACHINERY_PKG_APIS_META_V1_UNSTRUCTURED_UNSTRUCTURED,
     CLUSTER_HELM_RELEASE_GET_WORKLOADS_RESPONSE__MOGENIUS_OPERATOR_SRC_CORE_RESULTMOGENIUS_OPERATOR_SRC_HELM_HELMRELEASEGETWORKLOADSREQUEST_K8S_IO_APIMACHINERY_PKG_APIS_META_V1_UNSTRUCTURED_UNSTRUCTURED,
     CLUSTER_HELM_RELEASE_HISTORY_REQUEST__MOGENIUS_OPERATOR_SRC_HELM_HELMRELEASEHISTORYREQUEST,
     CLUSTER_HELM_RELEASE_HISTORY_RESPONSE__HELM_SH_HELM_V4_PKG_CHART_COMMON_FILE,
     CLUSTER_HELM_RELEASE_HISTORY_RESPONSE__HELM_SH_HELM_V4_PKG_CHART_V2_CHART,
     CLUSTER_HELM_RELEASE_HISTORY_RESPONSE__HELM_SH_HELM_V4_PKG_CHART_V2_DEPENDENCY,
     CLUSTER_HELM_RELEASE_HISTORY_RESPONSE__HELM_SH_HELM_V4_PKG_CHART_V2_LOCK,
     CLUSTER_HELM_RELEASE_HISTORY_RESPONSE__HELM_SH_HELM_V4_PKG_CHART_V2_MAINTAINER,
     CLUSTER_HELM_RELEASE_HISTORY_RESPONSE__HELM_SH_HELM_V4_PKG_CHART_V2_METADATA,
     CLUSTER_HELM_RELEASE_HISTORY_RESPONSE__HELM_SH_HELM_V4_PKG_RELEASE_V1_HOOK,
     CLUSTER_HELM_RELEASE_HISTORY_RESPONSE__HELM_SH_HELM_V4_PKG_RELEASE_V1_HOOKEXECUTION,
     CLUSTER_HELM_RELEASE_HISTORY_RESPONSE__HELM_SH_HELM_V4_PKG_RELEASE_V1_INFO,
     CLUSTER_HELM_RELEASE_HISTORY_RESPONSE__HELM_SH_HELM_V4_PKG_RELEASE_V1_RELEASE,
     CLUSTER_HELM_RELEASE_HISTORY_RESPONSE__MOGENIUS_OPERATOR_SRC_CORE_RESULTMOGENIUS_OPERATOR_SRC_HELM_HELMRELEASEHISTORYREQUEST_HELM_SH_HELM_V4_PKG_RELEASE_V1_RELEASE,
     CLUSTER_HELM_RELEASE_HISTORY_RESPONSE__TIME_TIME,
     CLUSTER_HELM_RELEASE_LINK_REQUEST__MOGENIUS_OPERATOR_SRC_HELM_HELMRELEASELINKREQUEST,
     CLUSTER_HELM_RELEASE_LINK_RESPONSE__MOGENIUS_OPERATOR_SRC_CORE_RESULTMOGENIUS_OPERATOR_SRC_HELM_HELMRELEASELINKREQUEST_STRING,
     CLUSTER_HELM_RELEASE_LIST_REQUEST__MOGENIUS_OPERATOR_SRC_HELM_HELMRELEASELISTREQUEST,
     CLUSTER_HELM_RELEASE_LIST_RESPONSE__HELM_SH_HELM_V4_PKG_CHART_COMMON_FILE,
     CLUSTER_HELM_RELEASE_LIST_RESPONSE__HELM_SH_HELM_V4_PKG_CHART_V2_CHART,
     CLUSTER_HELM_RELEASE_LIST_RESPONSE__HELM_SH_HELM_V4_PKG_CHART_V2_DEPENDENCY,
     CLUSTER_HELM_RELEASE_LIST_RESPONSE__HELM_SH_HELM_V4_PKG_CHART_V2_LOCK,
     CLUSTER_HELM_RELEASE_LIST_RESPONSE__HELM_SH_HELM_V4_PKG_CHART_V2_MAINTAINER,
     CLUSTER_HELM_RELEASE_LIST_RESPONSE__HELM_SH_HELM_V4_PKG_CHART_V2_METADATA,
     CLUSTER_HELM_RELEASE_LIST_RESPONSE__HELM_SH_HELM_V4_PKG_RELEASE_V1_HOOK,
     CLUSTER_HELM_RELEASE_LIST_RESPONSE__HELM_SH_HELM_V4_PKG_RELEASE_V1_HOOKEXECUTION,
     CLUSTER_HELM_RELEASE_LIST_RESPONSE__HELM_SH_HELM_V4_PKG_RELEASE_V1_INFO,
     CLUSTER_HELM_RELEASE_LIST_RESPONSE__MOGENIUS_OPERATOR_SRC_CORE_RESULTMOGENIUS_OPERATOR_SRC_HELM_HELMRELEASELISTREQUEST_MOGENIUS_OPERATOR_SRC_HELM_HELMRELEASE,
     CLUSTER_HELM_RELEASE_LIST_RESPONSE__MOGENIUS_OPERATOR_SRC_HELM_HELMRELEASE,
     CLUSTER_HELM_RELEASE_LIST_RESPONSE__TIME_TIME,
     CLUSTER_HELM_RELEASE_ROLLBACK_REQUEST__MOGENIUS_OPERATOR_SRC_HELM_HELMRELEASEROLLBACKREQUEST,
     CLUSTER_HELM_RELEASE_ROLLBACK_RESPONSE__MOGENIUS_OPERATOR_SRC_CORE_RESULTMOGENIUS_OPERATOR_SRC_HELM_HELMRELEASEROLLBACKREQUEST_STRING,
     CLUSTER_HELM_RELEASE_STATUS_REQUEST__MOGENIUS_OPERATOR_SRC_HELM_HELMRELEASESTATUSREQUEST,
     CLUSTER_HELM_RELEASE_STATUS_RESPONSE__MOGENIUS_OPERATOR_SRC_CORE_RESULTMOGENIUS_OPERATOR_SRC_HELM_HELMRELEASESTATUSREQUEST_MOGENIUS_OPERATOR_SRC_HELM_HELMRELEASESTATUSINFO,
     CLUSTER_HELM_RELEASE_STATUS_RESPONSE__MOGENIUS_OPERATOR_SRC_HELM_HELMRELEASESTATUSINFO,
     CLUSTER_HELM_RELEASE_STATUS_RESPONSE__TIME_TIME,
     CLUSTER_HELM_RELEASE_UNINSTALL_REQUEST__MOGENIUS_OPERATOR_SRC_HELM_HELMRELEASEUNINSTALLREQUEST,
     CLUSTER_HELM_RELEASE_UNINSTALL_RESPONSE__MOGENIUS_OPERATOR_SRC_CORE_RESULTMOGENIUS_OPERATOR_SRC_HELM_HELMRELEASEUNINSTALLREQUEST_STRING,
     CLUSTER_HELM_RELEASE_UPGRADE_REQUEST__MOGENIUS_OPERATOR_SRC_HELM_HELMCHARTINSTALLUPGRADEREQUEST,
     CLUSTER_HELM_RELEASE_UPGRADE_RESPONSE__MOGENIUS_OPERATOR_SRC_CORE_RESULTMOGENIUS_OPERATOR_SRC_HELM_HELMCHARTINSTALLUPGRADEREQUEST_STRING,
     CLUSTER_HELM_REPO_ADD_REQUEST__MOGENIUS_OPERATOR_SRC_HELM_HELMREPOADDREQUEST,
     CLUSTER_HELM_REPO_ADD_RESPONSE__MOGENIUS_OPERATOR_SRC_CORE_RESULTMOGENIUS_OPERATOR_SRC_HELM_HELMREPOADDREQUEST_STRING,
     CLUSTER_HELM_REPO_LIST_REQUEST__ANON_STRUCT_0,
     CLUSTER_HELM_REPO_LIST_RESPONSE__MOGENIUS_OPERATOR_SRC_CORE_RESULTMOGENIUS_OPERATOR_SRC_CORE_VOID_MOGENIUS_OPERATOR_SRC_HELM_HELMENTRYWITHOUTPASSWORD,
     CLUSTER_HELM_REPO_LIST_RESPONSE__MOGENIUS_OPERATOR_SRC_HELM_HELMENTRYWITHOUTPASSWORD,
     CLUSTER_HELM_REPO_PATCH_REQUEST__MOGENIUS_OPERATOR_SRC_HELM_HELMREPOPATCHREQUEST,
     CLUSTER_HELM_REPO_PATCH_RESPONSE__MOGENIUS_OPERATOR_SRC_CORE_RESULTMOGENIUS_OPERATOR_SRC_HELM_HELMREPOPATCHREQUEST_STRING,
     CLUSTER_HELM_REPO_UPDATE_REQUEST__ANON_STRUCT_0,
     CLUSTER_HELM_REPO_UPDATE_RESPONSE__MOGENIUS_OPERATOR_SRC_CORE_RESULTMOGENIUS_OPERATOR_SRC_CORE_VOID_MOGENIUS_OPERATOR_SRC_HELM_HELMENTRYSTATUS,
     CLUSTER_HELM_REPO_UPDATE_RESPONSE__MOGENIUS_OPERATOR_SRC_HELM_HELMENTRYSTATUS,
     CLUSTER_HELM_REPO_UPDATE_RESPONSE__MOGENIUS_OPERATOR_SRC_HELM_HELMENTRYWITHOUTPASSWORD,
     CLUSTER_LIST_PERSISTENT_VOLUME_CLAIMS_REQUEST__MOGENIUS_OPERATOR_SRC_SERVICES_CLUSTERLISTWORKLOADS,
     CLUSTER_LIST_PERSISTENT_VOLUME_CLAIMS_RESPONSE__K8S_IO_API_CORE_V1_MODIFYVOLUMESTATUS,
     CLUSTER_LIST_PERSISTENT_VOLUME_CLAIMS_RESPONSE__K8S_IO_API_CORE_V1_PERSISTENTVOLUMECLAIM,
     CLUSTER_LIST_PERSISTENT_VOLUME_CLAIMS_RESPONSE__K8S_IO_API_CORE_V1_PERSISTENTVOLUMECLAIMCONDITION,
     CLUSTER_LIST_PERSISTENT_VOLUME_CLAIMS_RESPONSE__K8S_IO_API_CORE_V1_PERSISTENTVOLUMECLAIMSPEC,
     CLUSTER_LIST_PERSISTENT_VOLUME_CLAIMS_RESPONSE__K8S_IO_API_CORE_V1_PERSISTENTVOLUMECLAIMSTATUS,
     CLUSTER_LIST_PERSISTENT_VOLUME_CLAIMS_RESPONSE__K8S_IO_API_CORE_V1_TYPEDLOCALOBJECTREFERENCE,
     CLUSTER_LIST_PERSISTENT_VOLUME_CLAIMS_RESPONSE__K8S_IO_API_CORE_V1_TYPEDOBJECTREFERENCE,
     CLUSTER_LIST_PERSISTENT_VOLUME_CLAIMS_RESPONSE__K8S_IO_API_CORE_V1_VOLUMERESOURCEREQUIREMENTS,
     CLUSTER_LIST_PERSISTENT_VOLUME_CLAIMS_RESPONSE__K8S_IO_APIMACHINERY_PKG_API_RESOURCE_QUANTITY,
     CLUSTER_LIST_PERSISTENT_VOLUME_CLAIMS_RESPONSE__K8S_IO_APIMACHINERY_PKG_APIS_META_V1_FIELDSV1,
     CLUSTER_LIST_PERSISTENT_VOLUME_CLAIMS_RESPONSE__K8S_IO_APIMACHINERY_PKG_APIS_META_V1_LABELSELECTOR,
     CLUSTER_LIST_PERSISTENT_VOLUME_CLAIMS_RESPONSE__K8S_IO_APIMACHINERY_PKG_APIS_META_V1_LABELSELECTORREQUIREMENT,
     CLUSTER_LIST_PERSISTENT_VOLUME_CLAIMS_RESPONSE__K8S_IO_APIMACHINERY_PKG_APIS_META_V1_MANAGEDFIELDSENTRY,
     CLUSTER_LIST_PERSISTENT_VOLUME_CLAIMS_RESPONSE__K8S_IO_APIMACHINERY_PKG_APIS_META_V1_OBJECTMETA,
     CLUSTER_LIST_PERSISTENT_VOLUME_CLAIMS_RESPONSE__K8S_IO_APIMACHINERY_PKG_APIS_META_V1_OWNERREFERENCE,
     CLUSTER_LIST_PERSISTENT_VOLUME_CLAIMS_RESPONSE__K8S_IO_APIMACHINERY_PKG_APIS_META_V1_TIME,
     CLUSTER_LIST_PERSISTENT_VOLUME_CLAIMS_RESPONSE__K8S_IO_APIMACHINERY_PKG_APIS_META_V1_TYPEMETA,
     CLUSTER_LIST_PERSISTENT_VOLUME_CLAIMS_RESPONSE__MOGENIUS_OPERATOR_SRC_CORE_RESULTMOGENIUS_OPERATOR_SRC_SERVICES_CLUSTERLISTWORKLOADS_K8S_IO_API_CORE_V1_PERSISTENTVOLUMECLAIM,
     CLUSTER_LIST_PERSISTENT_VOLUME_CLAIMS_RESPONSE__TIME_TIME,
     CLUSTER_MACHINE_STATS_REQUEST__MOGENIUS_OPERATOR_SRC_CORE_REQUEST,
     CLUSTER_MACHINE_STATS_RESPONSE__MOGENIUS_OPERATOR_SRC_CORE_RESULTMOGENIUS_OPERATOR_SRC_CORE_REQUEST16_MOGENIUS_OPERATOR_SRC_STRUCTS_MACHINESTATS,
     CLUSTER_MACHINE_STATS_RESPONSE__MOGENIUS_OPERATOR_SRC_STRUCTS_MACHINESTATS,
     CLUSTER_RESOURCE_INFO_REQUEST__ANON_STRUCT_0,
     CLUSTER_RESOURCE_INFO_RESPONSE__MOGENIUS_OPERATOR_SRC_CORE_CLUSTERRESOURCEINFO,
     CLUSTER_RESOURCE_INFO_RESPONSE__MOGENIUS_OPERATOR_SRC_CORE_RESULTMOGENIUS_OPERATOR_SRC_CORE_VOID_MOGENIUS_OPERATOR_SRC_CORE_CLUSTERRESOURCEINFO3,
     CLUSTER_RESOURCE_INFO_RESPONSE__MOGENIUS_OPERATOR_SRC_DTOS_NODESTAT,
     CLUSTER_RESOURCE_INFO_RESPONSE__MOGENIUS_OPERATOR_SRC_STRUCTS_CNICAPABILITIES,
     CLUSTER_RESOURCE_INFO_RESPONSE__MOGENIUS_OPERATOR_SRC_STRUCTS_CNIDATA,
     CLUSTER_RESOURCE_INFO_RESPONSE__MOGENIUS_OPERATOR_SRC_STRUCTS_CNIIPAM,
     CLUSTER_RESOURCE_INFO_RESPONSE__MOGENIUS_OPERATOR_SRC_STRUCTS_CNIPOLICY,
     CLUSTER_RESOURCE_INFO_RESPONSE__MOGENIUS_OPERATOR_SRC_STRUCTS_MACHINESTATS,
     CLUSTER_RESOURCE_INFO_RESPONSE__MOGENIUS_OPERATOR_SRC_STRUCTS_PLUGIN,
     CLUSTER_RESOURCE_INFO_RESPONSE__MOGENIUS_OPERATOR_SRC_UTILS_COUNTRYDETAILS,
     CREATE_GRANT_REQUEST__MOGENIUS_OPERATOR_SRC_CORE_REQUEST,
     CREATE_GRANT_RESPONSE__MOGENIUS_OPERATOR_SRC_CORE_RESULTMOGENIUS_OPERATOR_SRC_CORE_REQUEST29_STRING,
     CREATE_NEW_WORKLOAD_REQUEST__MOGENIUS_OPERATOR_SRC_UTILS_RESOURCEDESCRIPTOR,
     CREATE_NEW_WORKLOAD_REQUEST__MOGENIUS_OPERATOR_SRC_UTILS_WORKLOADCHANGEREQUEST,
     CREATE_NEW_WORKLOAD_RESPONSE__K8S_IO_APIMACHINERY_PKG_APIS_META_V1_UNSTRUCTURED_UNSTRUCTURED,
     CREATE_NEW_WORKLOAD_RESPONSE__MOGENIUS_OPERATOR_SRC_CORE_RESULTMOGENIUS_OPERATOR_SRC_UTILS_WORKLOADCHANGEREQUEST_K8S_IO_APIMACHINERY_PKG_APIS_META_V1_UNSTRUCTURED_UNSTRUCTURED,
     CREATE_USER_REQUEST__K8S_IO_API_RBAC_V1_SUBJECT,
     CREATE_USER_REQUEST__MOGENIUS_OPERATOR_SRC_CORE_REQUEST,
     CREATE_USER_RESPONSE__MOGENIUS_OPERATOR_SRC_CORE_RESULTMOGENIUS_OPERATOR_SRC_CORE_REQUEST24_STRING,
     CREATE_WORKSPACE_REQUEST__MOGENIUS_OPERATOR_SRC_CORE_REQUEST,
     CREATE_WORKSPACE_REQUEST__MOGENIUS_OPERATOR_SRC_CRDS_V1ALPHA1_WORKSPACERESOURCEIDENTIFIER,
     CREATE_WORKSPACE_RESPONSE__MOGENIUS_OPERATOR_SRC_CORE_RESULTMOGENIUS_OPERATOR_SRC_CORE_REQUEST18_STRING,
     DELETE_GRANT_REQUEST__MOGENIUS_OPERATOR_SRC_CORE_REQUEST,
     DELETE_GRANT_RESPONSE__MOGENIUS_OPERATOR_SRC_CORE_RESULTMOGENIUS_OPERATOR_SRC_CORE_REQUEST32_STRING,
     DELETE_USER_REQUEST__MOGENIUS_OPERATOR_SRC_CORE_REQUEST,
     DELETE_USER_RESPONSE__MOGENIUS_OPERATOR_SRC_CORE_RESULTMOGENIUS_OPERATOR_SRC_CORE_REQUEST27_STRING,
     DELETE_WORKLOAD_REQUEST__MOGENIUS_OPERATOR_SRC_UTILS_RESOURCEDESCRIPTOR,
     DELETE_WORKLOAD_REQUEST__MOGENIUS_OPERATOR_SRC_UTILS_WORKLOADSINGLEREQUEST,
     DELETE_WORKLOAD_RESPONSE__ANON_STRUCT_1,
     DELETE_WORKLOAD_RESPONSE__MOGENIUS_OPERATOR_SRC_CORE_RESULTMOGENIUS_OPERATOR_SRC_UTILS_WORKLOADSINGLEREQUEST_MOGENIUS_OPERATOR_SRC_CORE_VOID,
     DELETE_WORKSPACE_REQUEST__MOGENIUS_OPERATOR_SRC_CORE_REQUEST,
     DELETE_WORKSPACE_RESPONSE__MOGENIUS_OPERATOR_SRC_CORE_RESULTMOGENIUS_OPERATOR_SRC_CORE_REQUEST22_STRING,
     DESCRIBE_REQUEST__ANON_STRUCT_0,
     DESCRIBE_RESPONSE__ANON_STRUCT_2,
     DESCRIBE_RESPONSE__ANON_STRUCT_4,
     DESCRIBE_RESPONSE__MOGENIUS_OPERATOR_SRC_CORE_PATTERNCONFIG,
     DESCRIBE_RESPONSE__MOGENIUS_OPERATOR_SRC_CORE_RESPONSE,
     DESCRIBE_RESPONSE__MOGENIUS_OPERATOR_SRC_CORE_RESULTMOGENIUS_OPERATOR_SRC_CORE_VOID_MOGENIUS_OPERATOR_SRC_CORE_RESPONSE2,
     DESCRIBE_RESPONSE__MOGENIUS_OPERATOR_SRC_SCHEMA_SCHEMA,
     DESCRIBE_RESPONSE__MOGENIUS_OPERATOR_SRC_SCHEMA_STRUCTLAYOUT,
     DESCRIBE_RESPONSE__MOGENIUS_OPERATOR_SRC_SCHEMA_TYPEINFO,
     DESCRIBE_RESPONSE__MOGENIUS_OPERATOR_SRC_VERSION_VERSION,
     DESCRIBE_WORKLOAD_REQUEST__MOGENIUS_OPERATOR_SRC_UTILS_RESOURCEDESCRIPTOR,
     DESCRIBE_WORKLOAD_REQUEST__MOGENIUS_OPERATOR_SRC_UTILS_WORKLOADSINGLEREQUEST,
     DESCRIBE_WORKLOAD_RESPONSE__MOGENIUS_OPERATOR_SRC_CORE_RESULTMOGENIUS_OPERATOR_SRC_UTILS_WORKLOADSINGLEREQUEST_STRING,
     FILES_CHMOD_REQUEST__MOGENIUS_OPERATOR_SRC_CORE_REQUEST,
     FILES_CHMOD_REQUEST__MOGENIUS_OPERATOR_SRC_DTOS_PERSISTENTFILEREQUESTDTO,
     FILES_CHMOD_RESPONSE__MOGENIUS_OPERATOR_SRC_CORE_RESULTMOGENIUS_OPERATOR_SRC_CORE_REQUEST13_BOOL,
     FILES_CHOWN_REQUEST__MOGENIUS_OPERATOR_SRC_CORE_REQUEST,
     FILES_CHOWN_REQUEST__MOGENIUS_OPERATOR_SRC_DTOS_PERSISTENTFILEREQUESTDTO,
     FILES_CHOWN_RESPONSE__MOGENIUS_OPERATOR_SRC_CORE_RESULTMOGENIUS_OPERATOR_SRC_CORE_REQUEST12_BOOL,
     FILES_CREATE_FOLDER_REQUEST__MOGENIUS_OPERATOR_SRC_CORE_REQUEST,
     FILES_CREATE_FOLDER_REQUEST__MOGENIUS_OPERATOR_SRC_DTOS_PERSISTENTFILEREQUESTDTO,
     FILES_CREATE_FOLDER_RESPONSE__MOGENIUS_OPERATOR_SRC_CORE_RESULTMOGENIUS_OPERATOR_SRC_CORE_REQUEST10_BOOL,
     FILES_DELETE_REQUEST__MOGENIUS_OPERATOR_SRC_CORE_REQUEST,
     FILES_DELETE_REQUEST__MOGENIUS_OPERATOR_SRC_DTOS_PERSISTENTFILEREQUESTDTO,
     FILES_DELETE_RESPONSE__MOGENIUS_OPERATOR_SRC_CORE_RESULTMOGENIUS_OPERATOR_SRC_CORE_REQUEST14_BOOL,
     FILES_DOWNLOAD_REQUEST__MOGENIUS_OPERATOR_SRC_CORE_REQUEST,
     FILES_DOWNLOAD_REQUEST__MOGENIUS_OPERATOR_SRC_DTOS_PERSISTENTFILEREQUESTDTO,
     FILES_DOWNLOAD_RESPONSE__MOGENIUS_OPERATOR_SRC_CORE_RESULTMOGENIUS_OPERATOR_SRC_CORE_REQUEST15_MOGENIUS_OPERATOR_SRC_SERVICES_FILESDOWNLOADRESPONSE,
     FILES_DOWNLOAD_RESPONSE__MOGENIUS_OPERATOR_SRC_SERVICES_FILESDOWNLOADRESPONSE,
     FILES_INFO_REQUEST__MOGENIUS_OPERATOR_SRC_DTOS_PERSISTENTFILEREQUESTDTO,
     FILES_INFO_RESPONSE__MOGENIUS_OPERATOR_SRC_CORE_RESULTMOGENIUS_OPERATOR_SRC_DTOS_PERSISTENTFILEREQUESTDTO_MOGENIUS_OPERATOR_SRC_DTOS_PERSISTENTFILEDTO,
     FILES_INFO_RESPONSE__MOGENIUS_OPERATOR_SRC_DTOS_PERSISTENTFILEDTO,
     FILES_LIST_REQUEST__MOGENIUS_OPERATOR_SRC_CORE_REQUEST,
     FILES_LIST_REQUEST__MOGENIUS_OPERATOR_SRC_DTOS_PERSISTENTFILEREQUESTDTO,
     FILES_LIST_RESPONSE__MOGENIUS_OPERATOR_SRC_CORE_RESULTMOGENIUS_OPERATOR_SRC_CORE_REQUEST9_MOGENIUS_OPERATOR_SRC_DTOS_PERSISTENTFILEDTO,
     FILES_LIST_RESPONSE__MOGENIUS_OPERATOR_SRC_DTOS_PERSISTENTFILEDTO,
     FILES_RENAME_REQUEST__MOGENIUS_OPERATOR_SRC_CORE_REQUEST,
     FILES_RENAME_REQUEST__MOGENIUS_OPERATOR_SRC_DTOS_PERSISTENTFILEREQUESTDTO,
     FILES_RENAME_RESPONSE__MOGENIUS_OPERATOR_SRC_CORE_RESULTMOGENIUS_OPERATOR_SRC_CORE_REQUEST11_BOOL,
     GET_GRANT_REQUEST__MOGENIUS_OPERATOR_SRC_CORE_REQUEST,
     GET_GRANT_RESPONSE__K8S_IO_APIMACHINERY_PKG_APIS_META_V1_FIELDSV1,
     GET_GRANT_RESPONSE__K8S_IO_APIMACHINERY_PKG_APIS_META_V1_MANAGEDFIELDSENTRY,
     GET_GRANT_RESPONSE__K8S_IO_APIMACHINERY_PKG_APIS_META_V1_OBJECTMETA,
     GET_GRANT_RESPONSE__K8S_IO_APIMACHINERY_PKG_APIS_META_V1_OWNERREFERENCE,
     GET_GRANT_RESPONSE__K8S_IO_APIMACHINERY_PKG_APIS_META_V1_TIME,
     GET_GRANT_RESPONSE__K8S_IO_APIMACHINERY_PKG_APIS_META_V1_TYPEMETA,
     GET_GRANT_RESPONSE__MOGENIUS_OPERATOR_SRC_CORE_RESULTMOGENIUS_OPERATOR_SRC_CORE_REQUEST30_MOGENIUS_OPERATOR_SRC_CRDS_V1ALPHA1_GRANT,
     GET_GRANT_RESPONSE__MOGENIUS_OPERATOR_SRC_CRDS_V1ALPHA1_GRANT,
     GET_GRANT_RESPONSE__MOGENIUS_OPERATOR_SRC_CRDS_V1ALPHA1_GRANTSPEC,
     GET_GRANT_RESPONSE__MOGENIUS_OPERATOR_SRC_CRDS_V1ALPHA1_GRANTSTATUS,
     GET_GRANT_RESPONSE__TIME_TIME,
     GET_GRANTS_REQUEST__MOGENIUS_OPERATOR_SRC_CORE_REQUEST,
     GET_GRANTS_RESPONSE__K8S_IO_APIMACHINERY_PKG_APIS_META_V1_FIELDSV1,
     GET_GRANTS_RESPONSE__K8S_IO_APIMACHINERY_PKG_APIS_META_V1_MANAGEDFIELDSENTRY,
     GET_GRANTS_RESPONSE__K8S_IO_APIMACHINERY_PKG_APIS_META_V1_OBJECTMETA,
     GET_GRANTS_RESPONSE__K8S_IO_APIMACHINERY_PKG_APIS_META_V1_OWNERREFERENCE,
     GET_GRANTS_RESPONSE__K8S_IO_APIMACHINERY_PKG_APIS_META_V1_TIME,
     GET_GRANTS_RESPONSE__K8S_IO_APIMACHINERY_PKG_APIS_META_V1_TYPEMETA,
     GET_GRANTS_RESPONSE__MOGENIUS_OPERATOR_SRC_CORE_RESULTMOGENIUS_OPERATOR_SRC_CORE_REQUEST28_MOGENIUS_OPERATOR_SRC_CRDS_V1ALPHA1_GRANT,
     GET_GRANTS_RESPONSE__MOGENIUS_OPERATOR_SRC_CRDS_V1ALPHA1_GRANT,
     GET_GRANTS_RESPONSE__MOGENIUS_OPERATOR_SRC_CRDS_V1ALPHA1_GRANTSPEC,
     GET_GRANTS_RESPONSE__MOGENIUS_OPERATOR_SRC_CRDS_V1ALPHA1_GRANTSTATUS,
     GET_GRANTS_RESPONSE__TIME_TIME,
     GET_LABELED_WORKLOAD_LIST_REQUEST__MOGENIUS_OPERATOR_SRC_KUBERNETES_GETUNSTRUCTUREDLABELEDRESOURCELISTREQUEST,
     GET_LABELED_WORKLOAD_LIST_REQUEST__MOGENIUS_OPERATOR_SRC_UTILS_RESOURCEDESCRIPTOR,
     GET_LABELED_WORKLOAD_LIST_RESPONSE__K8S_IO_APIMACHINERY_PKG_APIS_META_V1_UNSTRUCTURED_UNSTRUCTURED,
     GET_LABELED_WORKLOAD_LIST_RESPONSE__K8S_IO_APIMACHINERY_PKG_APIS_META_V1_UNSTRUCTURED_UNSTRUCTUREDLIST,
     GET_LABELED_WORKLOAD_LIST_RESPONSE__MOGENIUS_OPERATOR_SRC_CORE_RESULTMOGENIUS_OPERATOR_SRC_KUBERNETES_GETUNSTRUCTUREDLABELEDRESOURCELISTREQUEST_K8S_IO_APIMACHINERY_PKG_APIS_META_V1_UNSTRUCTURED_UNSTRUCTUREDLIST,
     GET_NAMESPACE_WORKLOAD_LIST_REQUEST__MOGENIUS_OPERATOR_SRC_KUBERNETES_GETUNSTRUCTUREDNAMESPACERESOURCELISTREQUEST,
     GET_NAMESPACE_WORKLOAD_LIST_REQUEST__MOGENIUS_OPERATOR_SRC_UTILS_RESOURCEDESCRIPTOR,
     GET_NAMESPACE_WORKLOAD_LIST_RESPONSE__K8S_IO_APIMACHINERY_PKG_APIS_META_V1_UNSTRUCTURED_UNSTRUCTURED,
     GET_NAMESPACE_WORKLOAD_LIST_RESPONSE__MOGENIUS_OPERATOR_SRC_CORE_RESULTMOGENIUS_OPERATOR_SRC_KUBERNETES_GETUNSTRUCTUREDNAMESPACERESOURCELISTREQUEST_K8S_IO_APIMACHINERY_PKG_APIS_META_V1_UNSTRUCTURED_UNSTRUCTURED,
     GET_NODES_METRICS_REQUEST__ANON_STRUCT_0,
     GET_NODES_METRICS_RESPONSE__MOGENIUS_OPERATOR_SRC_CORE_NODEMETRICS,
     GET_NODES_METRICS_RESPONSE__MOGENIUS_OPERATOR_SRC_CORE_RESPONSE,
     GET_NODES_METRICS_RESPONSE__MOGENIUS_OPERATOR_SRC_CORE_RESULTMOGENIUS_OPERATOR_SRC_CORE_VOID_MOGENIUS_OPERATOR_SRC_CORE_RESPONSE38,
     GET_NODES_METRICS_RESPONSE__MOGENIUS_OPERATOR_SRC_NETWORKMONITOR_PODNETWORKSTATS,
     GET_NODES_METRICS_RESPONSE__TIME_TIME,
     GET_USER_REQUEST__MOGENIUS_OPERATOR_SRC_CORE_REQUEST,
     GET_USER_RESPONSE__K8S_IO_API_RBAC_V1_SUBJECT,
     GET_USER_RESPONSE__K8S_IO_APIMACHINERY_PKG_APIS_META_V1_FIELDSV1,
     GET_USER_RESPONSE__K8S_IO_APIMACHINERY_PKG_APIS_META_V1_MANAGEDFIELDSENTRY,
     GET_USER_RESPONSE__K8S_IO_APIMACHINERY_PKG_APIS_META_V1_OBJECTMETA,
     GET_USER_RESPONSE__K8S_IO_APIMACHINERY_PKG_APIS_META_V1_OWNERREFERENCE,
     GET_USER_RESPONSE__K8S_IO_APIMACHINERY_PKG_APIS_META_V1_TIME,
     GET_USER_RESPONSE__K8S_IO_APIMACHINERY_PKG_APIS_META_V1_TYPEMETA,
     GET_USER_RESPONSE__MOGENIUS_OPERATOR_SRC_CORE_RESULTMOGENIUS_OPERATOR_SRC_CORE_REQUEST25_MOGENIUS_OPERATOR_SRC_CRDS_V1ALPHA1_USER,
     GET_USER_RESPONSE__MOGENIUS_OPERATOR_SRC_CRDS_V1ALPHA1_USER,
     GET_USER_RESPONSE__MOGENIUS_OPERATOR_SRC_CRDS_V1ALPHA1_USERSPEC,
     GET_USER_RESPONSE__MOGENIUS_OPERATOR_SRC_CRDS_V1ALPHA1_USERSTATUS,
     GET_USER_RESPONSE__TIME_TIME,
     GET_USERS_REQUEST__MOGENIUS_OPERATOR_SRC_CORE_REQUEST,
     GET_USERS_RESPONSE__K8S_IO_API_RBAC_V1_SUBJECT,
     GET_USERS_RESPONSE__K8S_IO_APIMACHINERY_PKG_APIS_META_V1_FIELDSV1,
     GET_USERS_RESPONSE__K8S_IO_APIMACHINERY_PKG_APIS_META_V1_MANAGEDFIELDSENTRY,
     GET_USERS_RESPONSE__K8S_IO_APIMACHINERY_PKG_APIS_META_V1_OBJECTMETA,
     GET_USERS_RESPONSE__K8S_IO_APIMACHINERY_PKG_APIS_META_V1_OWNERREFERENCE,
     GET_USERS_RESPONSE__K8S_IO_APIMACHINERY_PKG_APIS_META_V1_TIME,
     GET_USERS_RESPONSE__K8S_IO_APIMACHINERY_PKG_APIS_META_V1_TYPEMETA,
     GET_USERS_RESPONSE__MOGENIUS_OPERATOR_SRC_CORE_RESULTMOGENIUS_OPERATOR_SRC_CORE_REQUEST23_MOGENIUS_OPERATOR_SRC_CRDS_V1ALPHA1_USER,
     GET_USERS_RESPONSE__MOGENIUS_OPERATOR_SRC_CRDS_V1ALPHA1_USER,
     GET_USERS_RESPONSE__MOGENIUS_OPERATOR_SRC_CRDS_V1ALPHA1_USERSPEC,
     GET_USERS_RESPONSE__MOGENIUS_OPERATOR_SRC_CRDS_V1ALPHA1_USERSTATUS,
     GET_USERS_RESPONSE__TIME_TIME,
     GET_WORKLOAD_REQUEST__MOGENIUS_OPERATOR_SRC_UTILS_RESOURCEDESCRIPTOR,
     GET_WORKLOAD_REQUEST__MOGENIUS_OPERATOR_SRC_UTILS_WORKLOADSINGLEREQUEST,
     GET_WORKLOAD_RESPONSE__K8S_IO_APIMACHINERY_PKG_APIS_META_V1_UNSTRUCTURED_UNSTRUCTURED,
     GET_WORKLOAD_RESPONSE__MOGENIUS_OPERATOR_SRC_CORE_RESULTMOGENIUS_OPERATOR_SRC_UTILS_WORKLOADSINGLEREQUEST_K8S_IO_APIMACHINERY_PKG_APIS_META_V1_UNSTRUCTURED_UNSTRUCTURED,
     GET_WORKLOAD_EXAMPLE_REQUEST__MOGENIUS_OPERATOR_SRC_UTILS_RESOURCEDESCRIPTOR,
     GET_WORKLOAD_EXAMPLE_RESPONSE__MOGENIUS_OPERATOR_SRC_CORE_RESULTMOGENIUS_OPERATOR_SRC_UTILS_RESOURCEDESCRIPTOR_STRING,
     GET_WORKLOAD_LIST_REQUEST__MOGENIUS_OPERATOR_SRC_CORE_REQUEST,
     GET_WORKLOAD_LIST_RESPONSE__K8S_IO_APIMACHINERY_PKG_APIS_META_V1_UNSTRUCTURED_UNSTRUCTURED,
     GET_WORKLOAD_LIST_RESPONSE__K8S_IO_APIMACHINERY_PKG_APIS_META_V1_UNSTRUCTURED_UNSTRUCTUREDLIST,
     GET_WORKLOAD_LIST_RESPONSE__MOGENIUS_OPERATOR_SRC_CORE_RESULTMOGENIUS_OPERATOR_SRC_CORE_REQUEST17_K8S_IO_APIMACHINERY_PKG_APIS_META_V1_UNSTRUCTURED_UNSTRUCTUREDLIST,
     GET_WORKLOAD_STATUS_REQUEST__MOGENIUS_OPERATOR_SRC_KUBERNETES_GETWORKLOADSTATUSHELMRELEASENAMEREQUEST,
     GET_WORKLOAD_STATUS_REQUEST__MOGENIUS_OPERATOR_SRC_KUBERNETES_GETWORKLOADSTATUSREQUEST,
     GET_WORKLOAD_STATUS_REQUEST__MOGENIUS_OPERATOR_SRC_UTILS_RESOURCEDESCRIPTOR,
     GET_WORKLOAD_STATUS_RESPONSE__K8S_IO_API_CORE_V1_EVENT,
     GET_WORKLOAD_STATUS_RESPONSE__K8S_IO_API_CORE_V1_EVENTSERIES,
     GET_WORKLOAD_STATUS_RESPONSE__K8S_IO_API_CORE_V1_EVENTSOURCE,
     GET_WORKLOAD_STATUS_RESPONSE__K8S_IO_API_CORE_V1_OBJECTREFERENCE,
     GET_WORKLOAD_STATUS_RESPONSE__K8S_IO_APIMACHINERY_PKG_APIS_META_V1_FIELDSV1,
     GET_WORKLOAD_STATUS_RESPONSE__K8S_IO_APIMACHINERY_PKG_APIS_META_V1_MANAGEDFIELDSENTRY,
     GET_WORKLOAD_STATUS_RESPONSE__K8S_IO_APIMACHINERY_PKG_APIS_META_V1_MICROTIME,
     GET_WORKLOAD_STATUS_RESPONSE__K8S_IO_APIMACHINERY_PKG_APIS_META_V1_OBJECTMETA,
     GET_WORKLOAD_STATUS_RESPONSE__K8S_IO_APIMACHINERY_PKG_APIS_META_V1_OWNERREFERENCE,
     GET_WORKLOAD_STATUS_RESPONSE__K8S_IO_APIMACHINERY_PKG_APIS_META_V1_TIME,
     GET_WORKLOAD_STATUS_RESPONSE__K8S_IO_APIMACHINERY_PKG_APIS_META_V1_TYPEMETA,
     GET_WORKLOAD_STATUS_RESPONSE__MOGENIUS_OPERATOR_SRC_CORE_RESULTMOGENIUS_OPERATOR_SRC_KUBERNETES_GETWORKLOADSTATUSREQUEST_MOGENIUS_OPERATOR_SRC_KUBERNETES_WORKLOADSTATUSDTO,
     GET_WORKLOAD_STATUS_RESPONSE__MOGENIUS_OPERATOR_SRC_KUBERNETES_WORKLOADSTATUSDTO,
     GET_WORKLOAD_STATUS_RESPONSE__MOGENIUS_OPERATOR_SRC_KUBERNETES_WORKLOADSTATUSITEMDTO,
     GET_WORKLOAD_STATUS_RESPONSE__TIME_TIME,
     GET_WORKSPACE_REQUEST__MOGENIUS_OPERATOR_SRC_CORE_REQUEST,
     GET_WORKSPACE_RESPONSE__K8S_IO_APIMACHINERY_PKG_APIS_META_V1_TIME,
     GET_WORKSPACE_RESPONSE__MOGENIUS_OPERATOR_SRC_CORE_GETWORKSPACERESULT,
     GET_WORKSPACE_RESPONSE__MOGENIUS_OPERATOR_SRC_CORE_RESULTMOGENIUS_OPERATOR_SRC_CORE_REQUEST19_MOGENIUS_OPERATOR_SRC_CORE_GETWORKSPACERESULT,
     GET_WORKSPACE_RESPONSE__MOGENIUS_OPERATOR_SRC_CRDS_V1ALPHA1_WORKSPACERESOURCEIDENTIFIER,
     GET_WORKSPACE_RESPONSE__TIME_TIME,
     GET_WORKSPACES_REQUEST__ANON_STRUCT_0,
     GET_WORKSPACES_RESPONSE__K8S_IO_APIMACHINERY_PKG_APIS_META_V1_TIME,
     GET_WORKSPACES_RESPONSE__MOGENIUS_OPERATOR_SRC_CORE_GETWORKSPACERESULT,
     GET_WORKSPACES_RESPONSE__MOGENIUS_OPERATOR_SRC_CORE_RESULTMOGENIUS_OPERATOR_SRC_CORE_VOID_MOGENIUS_OPERATOR_SRC_CORE_GETWORKSPACERESULT,
     GET_WORKSPACES_RESPONSE__MOGENIUS_OPERATOR_SRC_CRDS_V1ALPHA1_WORKSPACERESOURCEIDENTIFIER,
     GET_WORKSPACES_RESPONSE__TIME_TIME,
     GET_WORKSPACE_WORKLOADS_REQUEST__MOGENIUS_OPERATOR_SRC_CORE_REQUEST,
     GET_WORKSPACE_WORKLOADS_REQUEST__MOGENIUS_OPERATOR_SRC_UTILS_RESOURCEDESCRIPTOR,
     GET_WORKSPACE_WORKLOADS_RESPONSE__K8S_IO_APIMACHINERY_PKG_APIS_META_V1_UNSTRUCTURED_UNSTRUCTURED,
     GET_WORKSPACE_WORKLOADS_RESPONSE__MOGENIUS_OPERATOR_SRC_CORE_RESULTMOGENIUS_OPERATOR_SRC_CORE_REQUEST33_K8S_IO_APIMACHINERY_PKG_APIS_META_V1_UNSTRUCTURED_UNSTRUCTURED,
     INSTALL_CERT_MANAGER_REQUEST__ANON_STRUCT_0,
     INSTALL_CERT_MANAGER_RESPONSE__MOGENIUS_OPERATOR_SRC_CORE_RESULTMOGENIUS_OPERATOR_SRC_CORE_VOID_STRING,
     INSTALL_CLUSTER_ISSUER_REQUEST__MOGENIUS_OPERATOR_SRC_CORE_REQUEST,
     INSTALL_CLUSTER_ISSUER_RESPONSE__MOGENIUS_OPERATOR_SRC_CORE_RESULTMOGENIUS_OPERATOR_SRC_CORE_REQUEST6_STRING,
     INSTALL_INGRESS_CONTROLLER_TRAEFIK_REQUEST__ANON_STRUCT_0,
     INSTALL_INGRESS_CONTROLLER_TRAEFIK_RESPONSE__MOGENIUS_OPERATOR_SRC_CORE_RESULTMOGENIUS_OPERATOR_SRC_CORE_VOID_STRING,
     INSTALL_KEPLER_REQUEST__ANON_STRUCT_0,
     INSTALL_KEPLER_RESPONSE__MOGENIUS_OPERATOR_SRC_CORE_RESULTMOGENIUS_OPERATOR_SRC_CORE_VOID_STRING,
     INSTALL_METALLB_REQUEST__ANON_STRUCT_0,
     INSTALL_METALLB_RESPONSE__MOGENIUS_OPERATOR_SRC_CORE_RESULTMOGENIUS_OPERATOR_SRC_CORE_VOID_STRING,
     INSTALL_METRICS_SERVER_REQUEST__ANON_STRUCT_0,
     INSTALL_METRICS_SERVER_RESPONSE__MOGENIUS_OPERATOR_SRC_CORE_RESULTMOGENIUS_OPERATOR_SRC_CORE_VOID_STRING,
     LIST_ALL_RESOURCE_DESCRIPTORS_REQUEST__ANON_STRUCT_0,
     LIST_ALL_RESOURCE_DESCRIPTORS_RESPONSE__MOGENIUS_OPERATOR_SRC_CORE_RESULTMOGENIUS_OPERATOR_SRC_CORE_VOID_MOGENIUS_OPERATOR_SRC_UTILS_RESOURCEDESCRIPTOR,
     LIST_ALL_RESOURCE_DESCRIPTORS_RESPONSE__MOGENIUS_OPERATOR_SRC_UTILS_RESOURCEDESCRIPTOR,
     LIVE_STREAM_NODES_CPU_REQUEST__MOGENIUS_OPERATOR_SRC_XTERM_WSCONNECTIONREQUEST,
     LIVE_STREAM_NODES_CPU_RESPONSE__ANON_STRUCT_1,
     LIVE_STREAM_NODES_CPU_RESPONSE__MOGENIUS_OPERATOR_SRC_CORE_RESULTMOGENIUS_OPERATOR_SRC_XTERM_WSCONNECTIONREQUEST_MOGENIUS_OPERATOR_SRC_CORE_VOID,
     LIVE_STREAM_NODES_MEMORY_REQUEST__MOGENIUS_OPERATOR_SRC_XTERM_WSCONNECTIONREQUEST,
     LIVE_STREAM_NODES_MEMORY_RESPONSE__ANON_STRUCT_1,
     LIVE_STREAM_NODES_MEMORY_RESPONSE__MOGENIUS_OPERATOR_SRC_CORE_RESULTMOGENIUS_OPERATOR_SRC_XTERM_WSCONNECTIONREQUEST_MOGENIUS_OPERATOR_SRC_CORE_VOID,
     LIVE_STREAM_NODES_TRAFFIC_REQUEST__MOGENIUS_OPERATOR_SRC_XTERM_WSCONNECTIONREQUEST,
     LIVE_STREAM_NODES_TRAFFIC_RESPONSE__ANON_STRUCT_1,
     LIVE_STREAM_NODES_TRAFFIC_RESPONSE__MOGENIUS_OPERATOR_SRC_CORE_RESULTMOGENIUS_OPERATOR_SRC_XTERM_WSCONNECTIONREQUEST_MOGENIUS_OPERATOR_SRC_CORE_VOID,
     LIVE_STREAM_POD_CPU_REQUEST__MOGENIUS_OPERATOR_SRC_XTERM_WSCONNECTIONREQUEST,
     LIVE_STREAM_POD_CPU_RESPONSE__ANON_STRUCT_1,
     LIVE_STREAM_POD_CPU_RESPONSE__MOGENIUS_OPERATOR_SRC_CORE_RESULTMOGENIUS_OPERATOR_SRC_XTERM_WSCONNECTIONREQUEST_MOGENIUS_OPERATOR_SRC_CORE_VOID,
     LIVE_STREAM_POD_MEMORY_REQUEST__MOGENIUS_OPERATOR_SRC_XTERM_WSCONNECTIONREQUEST,
     LIVE_STREAM_POD_MEMORY_RESPONSE__ANON_STRUCT_1,
     LIVE_STREAM_POD_MEMORY_RESPONSE__MOGENIUS_OPERATOR_SRC_CORE_RESULTMOGENIUS_OPERATOR_SRC_XTERM_WSCONNECTIONREQUEST_MOGENIUS_OPERATOR_SRC_CORE_VOID,
     LIVE_STREAM_POD_TRAFFIC_REQUEST__MOGENIUS_OPERATOR_SRC_XTERM_WSCONNECTIONREQUEST,
     LIVE_STREAM_POD_TRAFFIC_RESPONSE__ANON_STRUCT_1,
     LIVE_STREAM_POD_TRAFFIC_RESPONSE__MOGENIUS_OPERATOR_SRC_CORE_RESULTMOGENIUS_OPERATOR_SRC_XTERM_WSCONNECTIONREQUEST_MOGENIUS_OPERATOR_SRC_CORE_VOID,
     LIVE_STREAM_WORKSPACE_CPU_REQUEST__MOGENIUS_OPERATOR_SRC_XTERM_WSCONNECTIONREQUEST,
     LIVE_STREAM_WORKSPACE_CPU_RESPONSE__MOGENIUS_OPERATOR_SRC_CORE_RESULTMOGENIUS_OPERATOR_SRC_XTERM_WSCONNECTIONREQUEST_INTERFACE,
     LIVE_STREAM_WORKSPACE_MEMORY_REQUEST__MOGENIUS_OPERATOR_SRC_XTERM_WSCONNECTIONREQUEST,
     LIVE_STREAM_WORKSPACE_MEMORY_RESPONSE__MOGENIUS_OPERATOR_SRC_CORE_RESULTMOGENIUS_OPERATOR_SRC_XTERM_WSCONNECTIONREQUEST_INTERFACE,
     LIVE_STREAM_WORKSPACE_TRAFFIC_REQUEST__MOGENIUS_OPERATOR_SRC_XTERM_WSCONNECTIONREQUEST,
     LIVE_STREAM_WORKSPACE_TRAFFIC_RESPONSE__MOGENIUS_OPERATOR_SRC_CORE_RESULTMOGENIUS_OPERATOR_SRC_XTERM_WSCONNECTIONREQUEST_INTERFACE,
     PROMETHEUS_CHARTS_ADD_REQUEST__MOGENIUS_OPERATOR_SRC_CORE_PROMETHEUSREQUESTREDIS,
     PROMETHEUS_CHARTS_ADD_RESPONSE__MOGENIUS_OPERATOR_SRC_CORE_RESULTMOGENIUS_OPERATOR_SRC_CORE_PROMETHEUSREQUESTREDIS_STRING,
     PROMETHEUS_CHARTS_GET_REQUEST__MOGENIUS_OPERATOR_SRC_CORE_PROMETHEUSREQUESTREDIS,
     PROMETHEUS_CHARTS_GET_RESPONSE__MOGENIUS_OPERATOR_SRC_CORE_PROMETHEUSSTOREOBJECT,
     PROMETHEUS_CHARTS_GET_RESPONSE__MOGENIUS_OPERATOR_SRC_CORE_RESULTMOGENIUS_OPERATOR_SRC_CORE_PROMETHEUSREQUESTREDIS_MOGENIUS_OPERATOR_SRC_CORE_PROMETHEUSSTOREOBJECT,
     PROMETHEUS_CHARTS_GET_RESPONSE__TIME_TIME,
     PROMETHEUS_CHARTS_LIST_REQUEST__MOGENIUS_OPERATOR_SRC_CORE_PROMETHEUSREQUESTREDISLIST,
     PROMETHEUS_CHARTS_LIST_RESPONSE__MOGENIUS_OPERATOR_SRC_CORE_PROMETHEUSSTOREOBJECT,
     PROMETHEUS_CHARTS_LIST_RESPONSE__MOGENIUS_OPERATOR_SRC_CORE_RESULTMOGENIUS_OPERATOR_SRC_CORE_PROMETHEUSREQUESTREDISLIST_MAPSTRINGMOGENIUS_OPERATOR_SRC_CORE_PROMETHEUSSTOREOBJECT,
     PROMETHEUS_CHARTS_LIST_RESPONSE__TIME_TIME,
     PROMETHEUS_CHARTS_REMOVE_REQUEST__MOGENIUS_OPERATOR_SRC_CORE_PROMETHEUSREQUESTREDIS,
     PROMETHEUS_CHARTS_REMOVE_RESPONSE__MOGENIUS_OPERATOR_SRC_CORE_RESULTMOGENIUS_OPERATOR_SRC_CORE_PROMETHEUSREQUESTREDIS_STRING,
     PROMETHEUS_IS_REACHABLE_REQUEST__MOGENIUS_OPERATOR_SRC_CORE_PROMETHEUSREQUEST,
     PROMETHEUS_IS_REACHABLE_RESPONSE__MOGENIUS_OPERATOR_SRC_CORE_RESULTMOGENIUS_OPERATOR_SRC_CORE_PROMETHEUSREQUEST_BOOL,
     PROMETHEUS_QUERY_REQUEST__MOGENIUS_OPERATOR_SRC_CORE_PROMETHEUSREQUEST,
     PROMETHEUS_QUERY_RESPONSE__ANON_STRUCT_2,
     PROMETHEUS_QUERY_RESPONSE__MOGENIUS_OPERATOR_SRC_CORE_PROMETHEUSQUERYRESPONSE,
     PROMETHEUS_QUERY_RESPONSE__MOGENIUS_OPERATOR_SRC_CORE_RESULTMOGENIUS_OPERATOR_SRC_CORE_PROMETHEUSREQUEST_MOGENIUS_OPERATOR_SRC_CORE_PROMETHEUSQUERYRESPONSE,
     PROMETHEUS_VALUES_REQUEST__MOGENIUS_OPERATOR_SRC_CORE_PROMETHEUSREQUEST,
     PROMETHEUS_VALUES_RESPONSE__MOGENIUS_OPERATOR_SRC_CORE_RESULTMOGENIUS_OPERATOR_SRC_CORE_PROMETHEUSREQUEST_STRING,
     SEALED_SECRET_CREATE_FROM_EXISTING_REQUEST__MOGENIUS_OPERATOR_SRC_CORE_REQUEST,
     SEALED_SECRET_CREATE_FROM_EXISTING_RESPONSE__K8S_IO_APIMACHINERY_PKG_APIS_META_V1_UNSTRUCTURED_UNSTRUCTURED,
     SEALED_SECRET_CREATE_FROM_EXISTING_RESPONSE__MOGENIUS_OPERATOR_SRC_CORE_RESULTMOGENIUS_OPERATOR_SRC_CORE_REQUEST36_K8S_IO_APIMACHINERY_PKG_APIS_META_V1_UNSTRUCTURED_UNSTRUCTURED,
     SEALED_SECRET_GET_CERTIFICATE_REQUEST__ANON_STRUCT_0,
     SEALED_SECRET_GET_CERTIFICATE_RESPONSE__K8S_IO_API_CORE_V1_SECRET,
     SEALED_SECRET_GET_CERTIFICATE_RESPONSE__K8S_IO_APIMACHINERY_PKG_APIS_META_V1_FIELDSV1,
     SEALED_SECRET_GET_CERTIFICATE_RESPONSE__K8S_IO_APIMACHINERY_PKG_APIS_META_V1_MANAGEDFIELDSENTRY,
     SEALED_SECRET_GET_CERTIFICATE_RESPONSE__K8S_IO_APIMACHINERY_PKG_APIS_META_V1_OBJECTMETA,
     SEALED_SECRET_GET_CERTIFICATE_RESPONSE__K8S_IO_APIMACHINERY_PKG_APIS_META_V1_OWNERREFERENCE,
     SEALED_SECRET_GET_CERTIFICATE_RESPONSE__K8S_IO_APIMACHINERY_PKG_APIS_META_V1_TIME,
     SEALED_SECRET_GET_CERTIFICATE_RESPONSE__K8S_IO_APIMACHINERY_PKG_APIS_META_V1_TYPEMETA,
     SEALED_SECRET_GET_CERTIFICATE_RESPONSE__MOGENIUS_OPERATOR_SRC_CORE_RESULTMOGENIUS_OPERATOR_SRC_CORE_VOID_K8S_IO_API_CORE_V1_SECRET,
     SEALED_SECRET_GET_CERTIFICATE_RESPONSE__TIME_TIME,
     SERVICE_EXEC_SH_CONNECTION_REQUEST_REQUEST__MOGENIUS_OPERATOR_SRC_XTERM_PODCMDCONNECTIONREQUEST,
     SERVICE_EXEC_SH_CONNECTION_REQUEST_REQUEST__MOGENIUS_OPERATOR_SRC_XTERM_WSCONNECTIONREQUEST,
     SERVICE_EXEC_SH_CONNECTION_REQUEST_RESPONSE__ANON_STRUCT_1,
     SERVICE_EXEC_SH_CONNECTION_REQUEST_RESPONSE__MOGENIUS_OPERATOR_SRC_CORE_RESULTMOGENIUS_OPERATOR_SRC_XTERM_PODCMDCONNECTIONREQUEST_MOGENIUS_OPERATOR_SRC_CORE_VOID,
     SERVICE_LOG_STREAM_CONNECTION_REQUEST_REQUEST__MOGENIUS_OPERATOR_SRC_XTERM_PODCMDCONNECTIONREQUEST,
     SERVICE_LOG_STREAM_CONNECTION_REQUEST_REQUEST__MOGENIUS_OPERATOR_SRC_XTERM_WSCONNECTIONREQUEST,
     SERVICE_LOG_STREAM_CONNECTION_REQUEST_RESPONSE__ANON_STRUCT_1,
     SERVICE_LOG_STREAM_CONNECTION_REQUEST_RESPONSE__MOGENIUS_OPERATOR_SRC_CORE_RESULTMOGENIUS_OPERATOR_SRC_XTERM_PODCMDCONNECTIONREQUEST_MOGENIUS_OPERATOR_SRC_CORE_VOID,
     SERVICE_POD_EVENT_STREAM_CONNECTION_REQUEST_REQUEST__MOGENIUS_OPERATOR_SRC_XTERM_PODEVENTCONNECTIONREQUEST,
     SERVICE_POD_EVENT_STREAM_CONNECTION_REQUEST_REQUEST__MOGENIUS_OPERATOR_SRC_XTERM_WSCONNECTIONREQUEST,
     SERVICE_POD_EVENT_STREAM_CONNECTION_REQUEST_RESPONSE__ANON_STRUCT_1,
     SERVICE_POD_EVENT_STREAM_CONNECTION_REQUEST_RESPONSE__MOGENIUS_OPERATOR_SRC_CORE_RESULTMOGENIUS_OPERATOR_SRC_XTERM_PODEVENTCONNECTIONREQUEST_MOGENIUS_OPERATOR_SRC_CORE_VOID,
     STATS_POD_ALL_FOR_CONTROLLER_REQUEST__MOGENIUS_OPERATOR_SRC_CORE_REQUEST,
     STATS_POD_ALL_FOR_CONTROLLER_RESPONSE__MOGENIUS_OPERATOR_SRC_CORE_RESULTMOGENIUS_OPERATOR_SRC_CORE_REQUEST7_MOGENIUS_OPERATOR_SRC_STRUCTS_PODSTATS,
     STATS_POD_ALL_FOR_CONTROLLER_RESPONSE__MOGENIUS_OPERATOR_SRC_STRUCTS_PODSTATS,
     STATS_POD_ALL_FOR_CONTROLLER_RESPONSE__TIME_TIME,
     STATS_TRAFFIC_ALL_FOR_CONTROLLER_REQUEST__MOGENIUS_OPERATOR_SRC_CORE_REQUEST,
     STATS_TRAFFIC_ALL_FOR_CONTROLLER_RESPONSE__MOGENIUS_OPERATOR_SRC_CORE_RESULTMOGENIUS_OPERATOR_SRC_CORE_REQUEST7_MOGENIUS_OPERATOR_SRC_NETWORKMONITOR_PODNETWORKSTATS,
     STATS_TRAFFIC_ALL_FOR_CONTROLLER_RESPONSE__MOGENIUS_OPERATOR_SRC_NETWORKMONITOR_PODNETWORKSTATS,
     STATS_TRAFFIC_ALL_FOR_CONTROLLER_RESPONSE__TIME_TIME,
     STATS_WORKSPACE_CPU_UTILIZATION_REQUEST__MOGENIUS_OPERATOR_SRC_CORE_REQUEST,
     STATS_WORKSPACE_CPU_UTILIZATION_RESPONSE__MOGENIUS_OPERATOR_SRC_CORE_GENERICCHARTENTRY,
     STATS_WORKSPACE_CPU_UTILIZATION_RESPONSE__MOGENIUS_OPERATOR_SRC_CORE_RESULTMOGENIUS_OPERATOR_SRC_CORE_REQUEST8_MOGENIUS_OPERATOR_SRC_CORE_GENERICCHARTENTRY,
     STATS_WORKSPACE_CPU_UTILIZATION_RESPONSE__TIME_TIME,
     STATS_WORKSPACE_MEMORY_UTILIZATION_REQUEST__MOGENIUS_OPERATOR_SRC_CORE_REQUEST,
     STATS_WORKSPACE_MEMORY_UTILIZATION_RESPONSE__MOGENIUS_OPERATOR_SRC_CORE_GENERICCHARTENTRY,
     STATS_WORKSPACE_MEMORY_UTILIZATION_RESPONSE__MOGENIUS_OPERATOR_SRC_CORE_RESULTMOGENIUS_OPERATOR_SRC_CORE_REQUEST8_MOGENIUS_OPERATOR_SRC_CORE_GENERICCHARTENTRY,
     STATS_WORKSPACE_MEMORY_UTILIZATION_RESPONSE__TIME_TIME,
     STATS_WORKSPACE_TRAFFIC_UTILIZATION_REQUEST__MOGENIUS_OPERATOR_SRC_CORE_REQUEST,
     STATS_WORKSPACE_TRAFFIC_UTILIZATION_RESPONSE__MOGENIUS_OPERATOR_SRC_CORE_GENERICCHARTENTRY,
     STATS_WORKSPACE_TRAFFIC_UTILIZATION_RESPONSE__MOGENIUS_OPERATOR_SRC_CORE_RESULTMOGENIUS_OPERATOR_SRC_CORE_REQUEST8_MOGENIUS_OPERATOR_SRC_CORE_GENERICCHARTENTRY,
     STATS_WORKSPACE_TRAFFIC_UTILIZATION_RESPONSE__TIME_TIME,
     STORAGE_CREATE_VOLUME_REQUEST__MOGENIUS_OPERATOR_SRC_SERVICES_NFSVOLUMEREQUEST,
     STORAGE_CREATE_VOLUME_RESPONSE__MOGENIUS_OPERATOR_SRC_CORE_RESULTMOGENIUS_OPERATOR_SRC_SERVICES_NFSVOLUMEREQUEST_BOOL,
     STORAGE_DELETE_VOLUME_REQUEST__MOGENIUS_OPERATOR_SRC_SERVICES_NFSVOLUMEREQUEST,
     STORAGE_DELETE_VOLUME_RESPONSE__MOGENIUS_OPERATOR_SRC_CORE_RESULTMOGENIUS_OPERATOR_SRC_SERVICES_NFSVOLUMEREQUEST_BOOL,
     STORAGE_STATS_REQUEST__MOGENIUS_OPERATOR_SRC_SERVICES_NFSVOLUMESTATSREQUEST,
     STORAGE_STATS_RESPONSE__MOGENIUS_OPERATOR_SRC_CORE_RESULTMOGENIUS_OPERATOR_SRC_SERVICES_NFSVOLUMESTATSREQUEST_MOGENIUS_OPERATOR_SRC_SERVICES_NFSVOLUMESTATSRESPONSE,
     STORAGE_STATS_RESPONSE__MOGENIUS_OPERATOR_SRC_SERVICES_NFSVOLUMESTATSRESPONSE,
     STORAGE_STATUS_REQUEST__MOGENIUS_OPERATOR_SRC_SERVICES_NFSSTATUSREQUEST,
     STORAGE_STATUS_RESPONSE__MOGENIUS_OPERATOR_SRC_CORE_RESULTMOGENIUS_OPERATOR_SRC_SERVICES_NFSSTATUSREQUEST_MOGENIUS_OPERATOR_SRC_SERVICES_NFSSTATUSRESPONSE,
     STORAGE_STATUS_RESPONSE__MOGENIUS_OPERATOR_SRC_SERVICES_NFSSTATUSRESPONSE,
     STORAGE_STATUS_RESPONSE__MOGENIUS_OPERATOR_SRC_SERVICES_VOLUMESTATUSMESSAGE,
     SYSTEM_CHECK_REQUEST__ANON_STRUCT_0,
     SYSTEM_CHECK_RESPONSE__MOGENIUS_OPERATOR_SRC_CORE_RESULTMOGENIUS_OPERATOR_SRC_CORE_VOID_MOGENIUS_OPERATOR_SRC_SERVICES_SYSTEMCHECKRESPONSE,
     SYSTEM_CHECK_RESPONSE__MOGENIUS_OPERATOR_SRC_SERVICES_SYSTEMCHECKENTRY,
     SYSTEM_CHECK_RESPONSE__MOGENIUS_OPERATOR_SRC_SERVICES_SYSTEMCHECKRESPONSE,
     TRIGGER_WORKLOAD_REQUEST__MOGENIUS_OPERATOR_SRC_UTILS_RESOURCEDESCRIPTOR,
     TRIGGER_WORKLOAD_REQUEST__MOGENIUS_OPERATOR_SRC_UTILS_WORKLOADSINGLEREQUEST,
     TRIGGER_WORKLOAD_RESPONSE__K8S_IO_APIMACHINERY_PKG_APIS_META_V1_UNSTRUCTURED_UNSTRUCTURED,
     TRIGGER_WORKLOAD_RESPONSE__MOGENIUS_OPERATOR_SRC_CORE_RESULTMOGENIUS_OPERATOR_SRC_UTILS_WORKLOADSINGLEREQUEST_K8S_IO_APIMACHINERY_PKG_APIS_META_V1_UNSTRUCTURED_UNSTRUCTURED,
     UNINSTALL_CERT_MANAGER_REQUEST__ANON_STRUCT_0,
     UNINSTALL_CERT_MANAGER_RESPONSE__MOGENIUS_OPERATOR_SRC_CORE_RESULTMOGENIUS_OPERATOR_SRC_CORE_VOID_STRING,
     UNINSTALL_CLUSTER_ISSUER_REQUEST__ANON_STRUCT_0,
     UNINSTALL_CLUSTER_ISSUER_RESPONSE__MOGENIUS_OPERATOR_SRC_CORE_RESULTMOGENIUS_OPERATOR_SRC_CORE_VOID_STRING,
     UNINSTALL_INGRESS_CONTROLLER_TRAEFIK_REQUEST__ANON_STRUCT_0,
     UNINSTALL_INGRESS_CONTROLLER_TRAEFIK_RESPONSE__MOGENIUS_OPERATOR_SRC_CORE_RESULTMOGENIUS_OPERATOR_SRC_CORE_VOID_STRING,
     UNINSTALL_KEPLER_REQUEST__ANON_STRUCT_0,
     UNINSTALL_KEPLER_RESPONSE__MOGENIUS_OPERATOR_SRC_CORE_RESULTMOGENIUS_OPERATOR_SRC_CORE_VOID_STRING,
     UNINSTALL_METALLB_REQUEST__ANON_STRUCT_0,
     UNINSTALL_METALLB_RESPONSE__MOGENIUS_OPERATOR_SRC_CORE_RESULTMOGENIUS_OPERATOR_SRC_CORE_VOID_STRING,
     UNINSTALL_METRICS_SERVER_REQUEST__ANON_STRUCT_0,
     UNINSTALL_METRICS_SERVER_RESPONSE__MOGENIUS_OPERATOR_SRC_CORE_RESULTMOGENIUS_OPERATOR_SRC_CORE_VOID_STRING,
     UPDATE_GRANT_REQUEST__MOGENIUS_OPERATOR_SRC_CORE_REQUEST,
     UPDATE_GRANT_RESPONSE__MOGENIUS_OPERATOR_SRC_CORE_RESULTMOGENIUS_OPERATOR_SRC_CORE_REQUEST31_STRING,
     UPDATE_USER_REQUEST__K8S_IO_API_RBAC_V1_SUBJECT,
     UPDATE_USER_REQUEST__MOGENIUS_OPERATOR_SRC_CORE_REQUEST,
     UPDATE_USER_RESPONSE__MOGENIUS_OPERATOR_SRC_CORE_RESULTMOGENIUS_OPERATOR_SRC_CORE_REQUEST26_STRING,
     UPDATE_WORKLOAD_REQUEST__MOGENIUS_OPERATOR_SRC_UTILS_RESOURCEDESCRIPTOR,
     UPDATE_WORKLOAD_REQUEST__MOGENIUS_OPERATOR_SRC_UTILS_WORKLOADCHANGEREQUEST,
     UPDATE_WORKLOAD_RESPONSE__K8S_IO_APIMACHINERY_PKG_APIS_META_V1_UNSTRUCTURED_UNSTRUCTURED,
     UPDATE_WORKLOAD_RESPONSE__MOGENIUS_OPERATOR_SRC_CORE_RESULTMOGENIUS_OPERATOR_SRC_UTILS_WORKLOADCHANGEREQUEST_K8S_IO_APIMACHINERY_PKG_APIS_META_V1_UNSTRUCTURED_UNSTRUCTURED,
     UPDATE_WORKSPACE_REQUEST__MOGENIUS_OPERATOR_SRC_CORE_REQUEST,
     UPDATE_WORKSPACE_REQUEST__MOGENIUS_OPERATOR_SRC_CRDS_V1ALPHA1_WORKSPACERESOURCEIDENTIFIER,
     UPDATE_WORKSPACE_RESPONSE__MOGENIUS_OPERATOR_SRC_CORE_RESULTMOGENIUS_OPERATOR_SRC_CORE_REQUEST21_STRING,
     UPGRADEK8SMANAGER_REQUEST__MOGENIUS_OPERATOR_SRC_CORE_REQUEST,
     UPGRADEK8SMANAGER_RESPONSE__MOGENIUS_OPERATOR_SRC_CORE_RESULTMOGENIUS_OPERATOR_SRC_CORE_REQUEST4_MOGENIUS_OPERATOR_SRC_STRUCTS_JOB,
     UPGRADEK8SMANAGER_RESPONSE__MOGENIUS_OPERATOR_SRC_STRUCTS_COMMAND,
     UPGRADEK8SMANAGER_RESPONSE__MOGENIUS_OPERATOR_SRC_STRUCTS_JOB,
     UPGRADEK8SMANAGER_RESPONSE__TIME_TIME,
     UPGRADE_CERT_MANAGER_REQUEST__ANON_STRUCT_0,
     UPGRADE_CERT_MANAGER_RESPONSE__MOGENIUS_OPERATOR_SRC_CORE_RESULTMOGENIUS_OPERATOR_SRC_CORE_VOID_STRING,
     UPGRADE_INGRESS_CONTROLLER_TRAEFIK_REQUEST__ANON_STRUCT_0,
     UPGRADE_INGRESS_CONTROLLER_TRAEFIK_RESPONSE__MOGENIUS_OPERATOR_SRC_CORE_RESULTMOGENIUS_OPERATOR_SRC_CORE_VOID_STRING,
     UPGRADE_KEPLER_REQUEST__ANON_STRUCT_0,
     UPGRADE_KEPLER_RESPONSE__MOGENIUS_OPERATOR_SRC_CORE_RESULTMOGENIUS_OPERATOR_SRC_CORE_VOID_STRING,
     UPGRADE_METALLB_REQUEST__ANON_STRUCT_0,
     UPGRADE_METALLB_RESPONSE__MOGENIUS_OPERATOR_SRC_CORE_RESULTMOGENIUS_OPERATOR_SRC_CORE_VOID_STRING,
     UPGRADE_METRICS_SERVER_REQUEST__ANON_STRUCT_0,
     UPGRADE_METRICS_SERVER_RESPONSE__MOGENIUS_OPERATOR_SRC_CORE_RESULTMOGENIUS_OPERATOR_SRC_CORE_VOID_STRING,
     WORKSPACE_CLEAN_UP_REQUEST__MOGENIUS_OPERATOR_SRC_CORE_REQUEST,
     WORKSPACE_CLEAN_UP_RESPONSE__MOGENIUS_OPERATOR_SRC_CORE_CLEANUPRESULT,
     WORKSPACE_CLEAN_UP_RESPONSE__MOGENIUS_OPERATOR_SRC_CORE_CLEANUPRESULTENTRY,
     WORKSPACE_CLEAN_UP_RESPONSE__MOGENIUS_OPERATOR_SRC_CORE_RESULTMOGENIUS_OPERATOR_SRC_CORE_REQUEST20_MOGENIUS_OPERATOR_SRC_CORE_CLEANUPRESULT}

=============================================================================
