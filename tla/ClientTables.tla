---------------------------- MODULE ClientTables ----------------------------
(***************************************************************************)
(* The four tables of src/generated/client.ts, entry by entry in source   *)
(* order, as the constants of PatternRegistry take them.                   *)
(***************************************************************************)

\* export enum Pattern { NAME = "value", ... }
RealPatternEnum ==
    << <<"AUDIT_LOG_LIST", "audit-log/list">>, <<"CLUSTER_ARGO_CD_APPLICATION_REFRESH", "cluster/argo-cd-application-refresh">>,
       <<"CLUSTER_ARGO_CD_CREATE_API_TOKEN", "cluster/argo-cd-create-api-token">>, <<"CLUSTER_CLEAR_VALKEY_CACHE", "cluster/clear-valkey-cache">>,
       <<"CLUSTER_COMPONENT_LOG_STREAM_CONNECTION_REQUEST", "cluster/component-log-stream-connection-request">>, <<"CLUSTER_FORCE_DISCONNECT", "cluster/force-disconnect">>,
       <<"CLUSTER_FORCE_RECONNECT", "cluster/force-reconnect">>, <<"CLUSTER_HELM_CHART_INSTALL", "cluster/helm-chart-install">>,
       <<"CLUSTER_HELM_CHART_INSTALL_OCI", "cluster/helm-chart-install-oci">>, <<"CLUSTER_HELM_CHART_REMOVE", "cluster/helm-chart-remove">>,
       <<"CLUSTER_HELM_CHART_SEARCH", "cluster/helm-chart-search">>, <<"CLUSTER_HELM_CHART_SHOW", "cluster/helm-chart-show">>,
       <<"CLUSTER_HELM_CHART_VERSIONS", "cluster/helm-chart-versions">>, <<"CLUSTER_HELM_RELEASE_GET", "cluster/helm-release-get">>,
       <<"CLUSTER_HELM_RELEASE_GET_WORKLOADS", "cluster/helm-release-get-workloads">>, <<"CLUSTER_HELM_RELEASE_HISTORY", "cluster/helm-release-history">>,
       <<"CLUSTER_HELM_RELEASE_LINK", "cluster/helm-release-link">>, <<"CLUSTER_HELM_RELEASE_LIST", "cluster/helm-release-list">>,
       <<"CLUSTER_HELM_RELEASE_ROLLBACK", "cluster/helm-release-rollback">>, <<"CLUSTER_HELM_RELEASE_STATUS", "cluster/helm-release-status">>,
       <<"CLUSTER_HELM_RELEASE_UNINSTALL", "cluster/helm-release-uninstall">>, <<"CLUSTER_HELM_RELEASE_UPGRADE", "cluster/helm-release-upgrade">>,
       <<"CLUSTER_HELM_REPO_ADD", "cluster/helm-repo-add">>, <<"CLUSTER_HELM_REPO_LIST", "cluster/helm-repo-list">>,
       <<"CLUSTER_HELM_REPO_PATCH", "cluster/helm-repo-patch">>, <<"CLUSTER_HELM_REPO_UPDATE", "cluster/helm-repo-update">>,
       <<"CLUSTER_LIST_PERSISTENT_VOLUME_CLAIMS", "cluster/list-persistent-volume-claims">>, <<"CLUSTER_MACHINE_STATS", "cluster/machine-stats">>,
       <<"CLUSTER_RESOURCE_INFO", "cluster/resource-info">>, <<"CREATE_GRANT", "create/grant">>,
       <<"CREATE_NEW_WORKLOAD", "create/new-workload">>, <<"CREATE_USER", "create/user">>,
       <<"CREATE_WORKSPACE", "create/workspace">>, <<"DELETE_GRANT", "delete/grant">>,
       <<"DELETE_USER", "delete/user">>, <<"DELETE_WORKLOAD", "delete/workload">>,
       <<"DELETE_WORKSPACE", "delete/workspace">>, <<"DESCRIBE", "describe">>,
       <<"DESCRIBE_WORKLOAD", "describe/workload">>, <<"FILES_CHMOD", "files/chmod">>,
       <<"FILES_CHOWN", "files/chown">>, <<"FILES_CREATE_FOLDER", "files/create-folder">>,
       <<"FILES_DELETE", "files/delete">>, <<"FILES_DOWNLOAD", "files/download">>,
       <<"FILES_INFO", "files/info">>, <<"FILES_LIST", "files/list">>,
       <<"FILES_RENAME", "files/rename">>, <<"GET_GRANT", "get/grant">>,
       <<"GET_GRANTS", "get/grants">>, <<"GET_LABELED_WORKLOAD_LIST", "get/labeled-workload-list">>,
       <<"GET_NAMESPACE_WORKLOAD_LIST", "get/namespace-workload-list">>, <<"GET_NODES_METRICS", "get/nodes-metrics">>,
       <<"GET_USER", "get/user">>, <<"GET_USERS", "get/users">>,
       <<"GET_WORKLOAD", "get/workload">>, <<"GET_WORKLOAD_EXAMPLE", "get/workload-example">>,
       <<"GET_WORKLOAD_LIST", "get/workload-list">>, <<"GET_WORKLOAD_STATUS", "get/workload-status">>,
       <<"GET_WORKSPACE", "get/workspace">>, <<"GET_WORKSPACES", "get/workspaces">>,
       <<"GET_WORKSPACE_WORKLOADS", "get/workspace-workloads">>, <<"INSTALL_CERT_MANAGER", "install-cert-manager">>,
       <<"INSTALL_CLUSTER_ISSUER", "install-cluster-issuer">>, <<"INSTALL_INGRESS_CONTROLLER_TRAEFIK", "install-ingress-controller-traefik">>,
       <<"INSTALL_KEPLER", "install-kepler">>, <<"INSTALL_METALLB", "install-metallb">>,
       <<"INSTALL_METRICS_SERVER", "install-metrics-server">>, <<"LIST_ALL_RESOURCE_DESCRIPTORS", "list/all-resource-descriptors">>,
       <<"LIVE_STREAM_NODES_CPU", "live-stream/nodes-cpu">>, <<"LIVE_STREAM_NODES_MEMORY", "live-stream/nodes-memory">>,
       <<"LIVE_STREAM_NODES_TRAFFIC", "live-stream/nodes-traffic">>, <<"LIVE_STREAM_POD_CPU", "live-stream/pod-cpu">>,
       <<"LIVE_STREAM_POD_MEMORY", "live-stream/pod-memory">>, <<"LIVE_STREAM_POD_TRAFFIC", "live-stream/pod-traffic">>,
       <<"LIVE_STREAM_WORKSPACE_CPU", "live-stream/workspace-cpu">>, <<"LIVE_STREAM_WORKSPACE_MEMORY", "live-stream/workspace-memory">>,
       <<"LIVE_STREAM_WORKSPACE_TRAFFIC", "live-stream/workspace-traffic">>, <<"PROMETHEUS_CHARTS_ADD", "prometheus/charts/add">>,
       <<"PROMETHEUS_CHARTS_GET", "prometheus/charts/get">>, <<"PROMETHEUS_CHARTS_LIST", "prometheus/charts/list">>,
       <<"PROMETHEUS_CHARTS_REMOVE", "prometheus/charts/remove">>, <<"PROMETHEUS_IS_REACHABLE", "prometheus/is-reachable">>,
       <<"PROMETHEUS_QUERY", "prometheus/query">>, <<"PROMETHEUS_VALUES", "prometheus/values">>,
       <<"SEALED_SECRET_CREATE_FROM_EXISTING", "sealed-secret/create-from-existing">>, <<"SEALED_SECRET_GET_CERTIFICATE", "sealed-secret/get-certificate">>,
       <<"SERVICE_EXEC_SH_CONNECTION_REQUEST", "service/exec-sh-connection-request">>, <<"SERVICE_LOG_STREAM_CONNECTION_REQUEST", "service/log-stream-connection-request">>,
       <<"SERVICE_POD_EVENT_STREAM_CONNECTION_REQUEST", "service/pod-event-stream-connection-request">>, <<"STATS_POD_ALL_FOR_CONTROLLER", "stats/pod/all-for-controller">>,
       <<"STATS_TRAFFIC_ALL_FOR_CONTROLLER", "stats/traffic/all-for-controller">>, <<"STATS_WORKSPACE_CPU_UTILIZATION", "stats/workspace-cpu-utilization">>,
       <<"STATS_WORKSPACE_MEMORY_UTILIZATION", "stats/workspace-memory-utilization">>, <<"STATS_WORKSPACE_TRAFFIC_UTILIZATION", "stats/workspace-traffic-utilization">>,
       <<"STORAGE_CREATE_VOLUME", "storage/create-volume">>, <<"STORAGE_DELETE_VOLUME", "storage/delete-volume">>,
       <<"STORAGE_STATS", "storage/stats">>, <<"STORAGE_STATUS", "storage/status">>,
       <<"SYSTEM_CHECK", "system/check">>, <<"TRIGGER_WORKLOAD", "trigger/workload">>,
       <<"UNINSTALL_CERT_MANAGER", "uninstall-cert-manager">>, <<"UNINSTALL_CLUSTER_ISSUER", "uninstall-cluster-issuer">>,
       <<"UNINSTALL_INGRESS_CONTROLLER_TRAEFIK", "uninstall-ingress-controller-traefik">>, <<"UNINSTALL_KEPLER", "uninstall-kepler">>,
       <<"UNINSTALL_METALLB", "uninstall-metallb">>, <<"UNINSTALL_METRICS_SERVER", "uninstall-metrics-server">>,
       <<"UPDATE_GRANT", "update/grant">>, <<"UPDATE_USER", "update/user">>,
       <<"UPDATE_WORKLOAD", "update/workload">>, <<"UPDATE_WORKSPACE", "update/workspace">>,
       <<"UPGRADEK8SMANAGER", "UpgradeK8sManager">>, <<"UPGRADE_CERT_MANAGER", "upgrade-cert-manager">>,
       <<"UPGRADE_INGRESS_CONTROLLER_TRAEFIK", "upgrade-ingress-controller-traefik">>, <<"UPGRADE_KEPLER", "upgrade-kepler">>,
       <<"UPGRADE_METALLB", "upgrade-metallb">>, <<"UPGRADE_METRICS_SERVER", "upgrade-metrics-server">>,
       <<"WORKSPACE_CLEAN_UP", "workspace/clean-up">> >>

\* export const StringToPattern = { "key": Pattern.NAME, ... }
RealStringToPattern ==
    << <<"audit-log/list", "AUDIT_LOG_LIST">>, <<"cluster/argo-cd-application-refresh", "CLUSTER_ARGO_CD_APPLICATION_REFRESH">>,
       <<"cluster/argo-cd-create-api-token", "CLUSTER_ARGO_CD_CREATE_API_TOKEN">>, <<"cluster/clear-valkey-cache", "CLUSTER_CLEAR_VALKEY_CACHE">>,
       <<"cluster/component-log-stream-connection-request", "CLUSTER_COMPONENT_LOG_STREAM_CONNECTION_REQUEST">>, <<"cluster/force-disconnect", "CLUSTER_FORCE_DISCONNECT">>,
       <<"cluster/force-reconnect", "CLUSTER_FORCE_RECONNECT">>, <<"cluster/helm-chart-install", "CLUSTER_HELM_CHART_INSTALL">>,
       <<"cluster/helm-chart-install-oci", "CLUSTER_HELM_CHART_INSTALL_OCI">>, <<"cluster/helm-chart-remove", "CLUSTER_HELM_CHART_REMOVE">>,
       <<"cluster/helm-chart-search", "CLUSTER_HELM_CHART_SEARCH">>, <<"cluster/helm-chart-show", "CLUSTER_HELM_CHART_SHOW">>,
       <<"cluster/helm-chart-versions", "CLUSTER_HELM_CHART_VERSIONS">>, <<"cluster/helm-release-get", "CLUSTER_HELM_RELEASE_GET">>,
       <<"cluster/helm-release-get-workloads", "CLUSTER_HELM_RELEASE_GET_WORKLOADS">>, <<"cluster/helm-release-history", "CLUSTER_HELM_RELEASE_HISTORY">>,
       <<"cluster/helm-release-link", "CLUSTER_HELM_RELEASE_LINK">>, <<"cluster/helm-release-list", "CLUSTER_HELM_RELEASE_LIST">>,
       <<"cluster/helm-release-rollback", "CLUSTER_HELM_RELEASE_ROLLBACK">>, <<"cluster/helm-release-status", "CLUSTER_HELM_RELEASE_STATUS">>,
       <<"cluster/helm-release-uninstall", "CLUSTER_HELM_RELEASE_UNINSTALL">>, <<"cluster/helm-release-upgrade", "CLUSTER_HELM_RELEASE_UPGRADE">>,
       <<"cluster/helm-repo-add", "CLUSTER_HELM_REPO_ADD">>, <<"cluster/helm-repo-list", "CLUSTER_HELM_REPO_LIST">>,
       <<"cluster/helm-repo-patch", "CLUSTER_HELM_REPO_PATCH">>, <<"cluster/helm-repo-update", "CLUSTER_HELM_REPO_UPDATE">>,
       <<"cluster/list-persistent-volume-claims", "CLUSTER_LIST_PERSISTENT_VOLUME_CLAIMS">>, <<"cluster/machine-stats", "CLUSTER_MACHINE_STATS">>,
       <<"cluster/resource-info", "CLUSTER_RESOURCE_INFO">>, <<"create/grant", "CREATE_GRANT">>,
       <<"create/new-workload", "CREATE_NEW_WORKLOAD">>, <<"create/user", "CREATE_USER">>,
       <<"create/workspace", "CREATE_WORKSPACE">>, <<"delete/grant", "DELETE_GRANT">>,
       <<"delete/user", "DELETE_USER">>, <<"delete/workload", "DELETE_WORKLOAD">>,
       <<"delete/workspace", "DELETE_WORKSPACE">>, <<"describe", "DESCRIBE">>,
       <<"describe/workload", "DESCRIBE_WORKLOAD">>, <<"files/chmod", "FILES_CHMOD">>,
       <<"files/chown", "FILES_CHOWN">>, <<"files/create-folder", "FILES_CREATE_FOLDER">>,
       <<"files/delete", "FILES_DELETE">>, <<"files/download", "FILES_DOWNLOAD">>,
       <<"files/info", "FILES_INFO">>, <<"files/list", "FILES_LIST">>,
       <<"files/rename", "FILES_RENAME">>, <<"get/grant", "GET_GRANT">>,
       <<"get/grants", "GET_GRANTS">>, <<"get/labeled-workload-list", "GET_LABELED_WORKLOAD_LIST">>,
       <<"get/namespace-workload-list", "GET_NAMESPACE_WORKLOAD_LIST">>, <<"get/nodes-metrics", "GET_NODES_METRICS">>,
       <<"get/user", "GET_USER">>, <<"get/users", "GET_USERS">>,
       <<"get/workload", "GET_WORKLOAD">>, <<"get/workload-example", "GET_WORKLOAD_EXAMPLE">>,
       <<"get/workload-list", "GET_WORKLOAD_LIST">>, <<"get/workload-status", "GET_WORKLOAD_STATUS">>,
       <<"get/workspace", "GET_WORKSPACE">>, <<"get/workspaces", "GET_WORKSPACES">>,
       <<"get/workspace-workloads", "GET_WORKSPACE_WORKLOADS">>, <<"install-cert-manager", "INSTALL_CERT_MANAGER">>,
       <<"install-cluster-issuer", "INSTALL_CLUSTER_ISSUER">>, <<"install-ingress-controller-traefik", "INSTALL_INGRESS_CONTROLLER_TRAEFIK">>,
       <<"install-kepler", "INSTALL_KEPLER">>, <<"install-metallb", "INSTALL_METALLB">>,
       <<"install-metrics-server", "INSTALL_METRICS_SERVER">>, <<"list/all-resource-descriptors", "LIST_ALL_RESOURCE_DESCRIPTORS">>,
       <<"live-stream/nodes-cpu", "LIVE_STREAM_NODES_CPU">>, <<"live-stream/nodes-memory", "LIVE_STREAM_NODES_MEMORY">>,
       <<"live-stream/nodes-traffic", "LIVE_STREAM_NODES_TRAFFIC">>, <<"live-stream/pod-cpu", "LIVE_STREAM_POD_CPU">>,
       <<"live-stream/pod-memory", "LIVE_STREAM_POD_MEMORY">>, <<"live-stream/pod-traffic", "LIVE_STREAM_POD_TRAFFIC">>,
       <<"live-stream/workspace-cpu", "LIVE_STREAM_WORKSPACE_CPU">>, <<"live-stream/workspace-memory", "LIVE_STREAM_WORKSPACE_MEMORY">>,
       <<"live-stream/workspace-traffic", "LIVE_STREAM_WORKSPACE_TRAFFIC">>, <<"prometheus/charts/add", "PROMETHEUS_CHARTS_ADD">>,
       <<"prometheus/charts/get", "PROMETHEUS_CHARTS_GET">>, <<"prometheus/charts/list", "PROMETHEUS_CHARTS_LIST">>,
       <<"prometheus/charts/remove", "PROMETHEUS_CHARTS_REMOVE">>, <<"prometheus/is-reachable", "PROMETHEUS_IS_REACHABLE">>,
       <<"prometheus/query", "PROMETHEUS_QUERY">>, <<"prometheus/values", "PROMETHEUS_VALUES">>,
       <<"sealed-secret/create-from-existing", "SEALED_SECRET_CREATE_FROM_EXISTING">>, <<"sealed-secret/get-certificate", "SEALED_SECRET_GET_CERTIFICATE">>,
       <<"service/exec-sh-connection-request", "SERVICE_EXEC_SH_CONNECTION_REQUEST">>, <<"service/log-stream-connection-request", "SERVICE_LOG_STREAM_CONNECTION_REQUEST">>,
       <<"service/pod-event-stream-connection-request", "SERVICE_POD_EVENT_STREAM_CONNECTION_REQUEST">>, <<"stats/pod/all-for-controller", "STATS_POD_ALL_FOR_CONTROLLER">>,
       <<"stats/traffic/all-for-controller", "STATS_TRAFFIC_ALL_FOR_CONTROLLER">>, <<"stats/workspace-cpu-utilization", "STATS_WORKSPACE_CPU_UTILIZATION">>,
       <<"stats/workspace-memory-utilization", "STATS_WORKSPACE_MEMORY_UTILIZATION">>, <<"stats/workspace-traffic-utilization", "STATS_WORKSPACE_TRAFFIC_UTILIZATION">>,
       <<"storage/create-volume", "STORAGE_CREATE_VOLUME">>, <<"storage/delete-volume", "STORAGE_DELETE_VOLUME">>,
       <<"storage/stats", "STORAGE_STATS">>, <<"storage/status", "STORAGE_STATUS">>,
       <<"system/check", "SYSTEM_CHECK">>, <<"trigger/workload", "TRIGGER_WORKLOAD">>,
       <<"uninstall-cert-manager", "UNINSTALL_CERT_MANAGER">>, <<"uninstall-cluster-issuer", "UNINSTALL_CLUSTER_ISSUER">>,
       <<"uninstall-ingress-controller-traefik", "UNINSTALL_INGRESS_CONTROLLER_TRAEFIK">>, <<"uninstall-kepler", "UNINSTALL_KEPLER">>,
       <<"uninstall-metallb", "UNINSTALL_METALLB">>, <<"uninstall-metrics-server", "UNINSTALL_METRICS_SERVER">>,
       <<"update/grant", "UPDATE_GRANT">>, <<"update/user", "UPDATE_USER">>,
       <<"update/workload", "UPDATE_WORKLOAD">>, <<"update/workspace", "UPDATE_WORKSPACE">>,
       <<"UpgradeK8sManager", "UPGRADEK8SMANAGER">>, <<"upgrade-cert-manager", "UPGRADE_CERT_MANAGER">>,
       <<"upgrade-ingress-controller-traefik", "UPGRADE_INGRESS_CONTROLLER_TRAEFIK">>, <<"upgrade-kepler", "UPGRADE_KEPLER">>,
       <<"upgrade-metallb", "UPGRADE_METALLB">>, <<"upgrade-metrics-server", "UPGRADE_METRICS_SERVER">>,
       <<"workspace/clean-up", "WORKSPACE_CLEAN_UP">> >>

\* export const PatternToString = { [Pattern.NAME]: "value", ... }
RealPatternToString ==
    << <<"AUDIT_LOG_LIST", "audit-log/list">>, <<"CLUSTER_ARGO_CD_APPLICATION_REFRESH", "cluster/argo-cd-application-refresh">>,
       <<"CLUSTER_ARGO_CD_CREATE_API_TOKEN", "cluster/argo-cd-create-api-token">>, <<"CLUSTER_CLEAR_VALKEY_CACHE", "cluster/clear-valkey-cache">>,
       <<"CLUSTER_COMPONENT_LOG_STREAM_CONNECTION_REQUEST", "cluster/component-log-stream-connection-request">>, <<"CLUSTER_FORCE_DISCONNECT", "cluster/force-disconnect">>,
       <<"CLUSTER_FORCE_RECONNECT", "cluster/force-reconnect">>, <<"CLUSTER_HELM_CHART_INSTALL", "cluster/helm-chart-install">>,
       <<"CLUSTER_HELM_CHART_INSTALL_OCI", "cluster/helm-chart-install-oci">>, <<"CLUSTER_HELM_CHART_REMOVE", "cluster/helm-chart-remove">>,
       <<"CLUSTER_HELM_CHART_SEARCH", "cluster/helm-chart-search">>, <<"CLUSTER_HELM_CHART_SHOW", "cluster/helm-chart-show">>,
       <<"CLUSTER_HELM_CHART_VERSIONS", "cluster/helm-chart-versions">>, <<"CLUSTER_HELM_RELEASE_GET", "cluster/helm-release-get">>,
       <<"CLUSTER_HELM_RELEASE_GET_WORKLOADS", "cluster/helm-release-get-workloads">>, <<"CLUSTER_HELM_RELEASE_HISTORY", "cluster/helm-release-history">>,
       <<"CLUSTER_HELM_RELEASE_LINK", "cluster/helm-release-link">>, <<"CLUSTER_HELM_RELEASE_LIST", "cluster/helm-release-list">>,
       <<"CLUSTER_HELM_RELEASE_ROLLBACK", "cluster/helm-release-rollback">>, <<"CLUSTER_HELM_RELEASE_STATUS", "cluster/helm-release-status">>,
       <<"CLUSTER_HELM_RELEASE_UNINSTALL", "cluster/helm-release-uninstall">>, <<"CLUSTER_HELM_RELEASE_UPGRADE", "cluster/helm-release-upgrade">>,
       <<"CLUSTER_HELM_REPO_ADD", "cluster/helm-repo-add">>, <<"CLUSTER_HELM_REPO_LIST", "cluster/helm-repo-list">>,
       <<"CLUSTER_HELM_REPO_PATCH", "cluster/helm-repo-patch">>, <<"CLUSTER_HELM_REPO_UPDATE", "cluster/helm-repo-update">>,
       <<"CLUSTER_LIST_PERSISTENT_VOLUME_CLAIMS", "cluster/list-persistent-volume-claims">>, <<"CLUSTER_MACHINE_STATS", "cluster/machine-stats">>,
       <<"CLUSTER_RESOURCE_INFO", "cluster/resource-info">>, <<"CREATE_GRANT", "create/grant">>,
       <<"CREATE_NEW_WORKLOAD", "create/new-workload">>, <<"CREATE_USER", "create/user">>,
       <<"CREATE_WORKSPACE", "create/workspace">>, <<"DELETE_GRANT", "delete/grant">>,
       <<"DELETE_USER", "delete/user">>, <<"DELETE_WORKLOAD", "delete/workload">>,
       <<"DELETE_WORKSPACE", "delete/workspace">>, <<"DESCRIBE", "describe">>,
       <<"DESCRIBE_WORKLOAD", "describe/workload">>, <<"FILES_CHMOD", "files/chmod">>,
       <<"FILES_CHOWN", "files/chown">>, <<"FILES_CREATE_FOLDER", "files/create-folder">>,
       <<"FILES_DELETE", "files/delete">>, <<"FILES_DOWNLOAD", "files/download">>,
       <<"FILES_INFO", "files/info">>, <<"FILES_LIST", "files/list">>,
       <<"FILES_RENAME", "files/rename">>, <<"GET_GRANT", "get/grant">>,
       <<"GET_GRANTS", "get/grants">>, <<"GET_LABELED_WORKLOAD_LIST", "get/labeled-workload-list">>,
       <<"GET_NAMESPACE_WORKLOAD_LIST", "get/namespace-workload-list">>, <<"GET_NODES_METRICS", "get/nodes-metrics">>,
       <<"GET_USER", "get/user">>, <<"GET_USERS", "get/users">>,
       <<"GET_WORKLOAD", "get/workload">>, <<"GET_WORKLOAD_EXAMPLE", "get/workload-example">>,
       <<"GET_WORKLOAD_LIST", "get/workload-list">>, <<"GET_WORKLOAD_STATUS", "get/workload-status">>,
       <<"GET_WORKSPACE", "get/workspace">>, <<"GET_WORKSPACES", "get/workspaces">>,
       <<"GET_WORKSPACE_WORKLOADS", "get/workspace-workloads">>, <<"INSTALL_CERT_MANAGER", "install-cert-manager">>,
       <<"INSTALL_CLUSTER_ISSUER", "install-cluster-issuer">>, <<"INSTALL_INGRESS_CONTROLLER_TRAEFIK", "install-ingress-controller-traefik">>,
       <<"INSTALL_KEPLER", "install-kepler">>, <<"INSTALL_METALLB", "install-metallb">>,
       <<"INSTALL_METRICS_SERVER", "install-metrics-server">>, <<"LIST_ALL_RESOURCE_DESCRIPTORS", "list/all-resource-descriptors">>,
       <<"LIVE_STREAM_NODES_CPU", "live-stream/nodes-cpu">>, <<"LIVE_STREAM_NODES_MEMORY", "live-stream/nodes-memory">>,
       <<"LIVE_STREAM_NODES_TRAFFIC", "live-stream/nodes-traffic">>, <<"LIVE_STREAM_POD_CPU", "live-stream/pod-cpu">>,
       <<"LIVE_STREAM_POD_MEMORY", "live-stream/pod-memory">>, <<"LIVE_STREAM_POD_TRAFFIC", "live-stream/pod-traffic">>,
       <<"LIVE_STREAM_WORKSPACE_CPU", "live-stream/workspace-cpu">>, <<"LIVE_STREAM_WORKSPACE_MEMORY", "live-stream/workspace-memory">>,
       <<"LIVE_STREAM_WORKSPACE_TRAFFIC", "live-stream/workspace-traffic">>, <<"PROMETHEUS_CHARTS_ADD", "prometheus/charts/add">>,
       <<"PROMETHEUS_CHARTS_GET", "prometheus/charts/get">>, <<"PROMETHEUS_CHARTS_LIST", "prometheus/charts/list">>,
       <<"PROMETHEUS_CHARTS_REMOVE", "prometheus/charts/remove">>, <<"PROMETHEUS_IS_REACHABLE", "prometheus/is-reachable">>,
       <<"PROMETHEUS_QUERY", "prometheus/query">>, <<"PROMETHEUS_VALUES", "prometheus/values">>,
       <<"SEALED_SECRET_CREATE_FROM_EXISTING", "sealed-secret/create-from-existing">>, <<"SEALED_SECRET_GET_CERTIFICATE", "sealed-secret/get-certificate">>,
       <<"SERVICE_EXEC_SH_CONNECTION_REQUEST", "service/exec-sh-connection-request">>, <<"SERVICE_LOG_STREAM_CONNECTION_REQUEST", "service/log-stream-connection-request">>,
       <<"SERVICE_POD_EVENT_STREAM_CONNECTION_REQUEST", "service/pod-event-stream-connection-request">>, <<"STATS_POD_ALL_FOR_CONTROLLER", "stats/pod/all-for-controller">>,
       <<"STATS_TRAFFIC_ALL_FOR_CONTROLLER", "stats/traffic/all-for-controller">>, <<"STATS_WORKSPACE_CPU_UTILIZATION", "stats/workspace-cpu-utilization">>,
       <<"STATS_WORKSPACE_MEMORY_UTILIZATION", "stats/workspace-memory-utilization">>, <<"STATS_WORKSPACE_TRAFFIC_UTILIZATION", "stats/workspace-traffic-utilization">>,
       <<"STORAGE_CREATE_VOLUME", "storage/create-volume">>, <<"STORAGE_DELETE_VOLUME", "storage/delete-volume">>,
       <<"STORAGE_STATS", "storage/stats">>, <<"STORAGE_STATUS", "storage/status">>,
       <<"SYSTEM_CHECK", "system/check">>, <<"TRIGGER_WORKLOAD", "trigger/workload">>,
       <<"UNINSTALL_CERT_MANAGER", "uninstall-cert-manager">>, <<"UNINSTALL_CLUSTER_ISSUER", "uninstall-cluster-issuer">>,
       <<"UNINSTALL_INGRESS_CONTROLLER_TRAEFIK", "uninstall-ingress-controller-traefik">>, <<"UNINSTALL_KEPLER", "uninstall-kepler">>,
       <<"UNINSTALL_METALLB", "uninstall-metallb">>, <<"UNINSTALL_METRICS_SERVER", "uninstall-metrics-server">>,
       <<"UPDATE_GRANT", "update/grant">>, <<"UPDATE_USER", "update/user">>,
       <<"UPDATE_WORKLOAD", "update/workload">>, <<"UPDATE_WORKSPACE", "update/workspace">>,
       <<"UPGRADEK8SMANAGER", "UpgradeK8sManager">>, <<"UPGRADE_CERT_MANAGER", "upgrade-cert-manager">>,
       <<"UPGRADE_INGRESS_CONTROLLER_TRAEFIK", "upgrade-ingress-controller-traefik">>, <<"UPGRADE_KEPLER", "upgrade-kepler">>,
       <<"UPGRADE_METALLB", "upgrade-metallb">>, <<"UPGRADE_METRICS_SERVER", "upgrade-metrics-server">>,
       <<"WORKSPACE_CLEAN_UP", "workspace/clean-up">> >>

\* export interface IPatternConfig { [Pattern.NAME]: { Request: ...; Response: ... }; ... }
RealPatternConfig ==
    << <<"AUDIT_LOG_LIST", "AUDIT_LOG_LIST_REQUEST", "AUDIT_LOG_LIST_RESPONSE">>,
       <<"CLUSTER_ARGO_CD_APPLICATION_REFRESH", "CLUSTER_ARGO_CD_APPLICATION_REFRESH_REQUEST", "CLUSTER_ARGO_CD_APPLICATION_REFRESH_RESPONSE">>,
       <<"CLUSTER_ARGO_CD_CREATE_API_TOKEN", "CLUSTER_ARGO_CD_CREATE_API_TOKEN_REQUEST", "CLUSTER_ARGO_CD_CREATE_API_TOKEN_RESPONSE">>,
       <<"CLUSTER_CLEAR_VALKEY_CACHE", "CLUSTER_CLEAR_VALKEY_CACHE_REQUEST", "CLUSTER_CLEAR_VALKEY_CACHE_RESPONSE">>,
       <<"CLUSTER_COMPONENT_LOG_STREAM_CONNECTION_REQUEST", "CLUSTER_COMPONENT_LOG_STREAM_CONNECTION_REQUEST_REQUEST", "CLUSTER_COMPONENT_LOG_STREAM_CONNECTION_REQUEST_RESPONSE">>,
       <<"CLUSTER_FORCE_DISCONNECT", "CLUSTER_FORCE_DISCONNECT_REQUEST", "CLUSTER_FORCE_DISCONNECT_RESPONSE">>,
       <<"CLUSTER_FORCE_RECONNECT", "CLUSTER_FORCE_RECONNECT_REQUEST", "CLUSTER_FORCE_RECONNECT_RESPONSE">>,
       <<"CLUSTER_HELM_CHART_INSTALL", "CLUSTER_HELM_CHART_INSTALL_REQUEST", "CLUSTER_HELM_CHART_INSTALL_RESPONSE">>,
       <<"CLUSTER_HELM_CHART_INSTALL_OCI", "CLUSTER_HELM_CHART_INSTALL_OCI_REQUEST", "CLUSTER_HELM_CHART_INSTALL_OCI_RESPONSE">>,
       <<"CLUSTER_HELM_CHART_REMOVE", "CLUSTER_HELM_CHART_REMOVE_REQUEST", "CLUSTER_HELM_CHART_REMOVE_RESPONSE">>,
       <<"CLUSTER_HELM_CHART_SEARCH", "CLUSTER_HELM_CHART_SEARCH_REQUEST", "CLUSTER_HELM_CHART_SEARCH_RESPONSE">>,
       <<"CLUSTER_HELM_CHART_SHOW", "CLUSTER_HELM_CHART_SHOW_REQUEST", "CLUSTER_HELM_CHART_SHOW_RESPONSE">>,
       <<"CLUSTER_HELM_CHART_VERSIONS", "CLUSTER_HELM_CHART_VERSIONS_REQUEST", "CLUSTER_HELM_CHART_VERSIONS_RESPONSE">>,
       <<"CLUSTER_HELM_RELEASE_GET", "CLUSTER_HELM_RELEASE_GET_REQUEST", "CLUSTER_HELM_RELEASE_GET_RESPONSE">>,
       <<"CLUSTER_HELM_RELEASE_GET_WORKLOADS", "CLUSTER_HELM_RELEASE_GET_WORKLOADS_REQUEST", "CLUSTER_HELM_RELEASE_GET_WORKLOADS_RESPONSE">>,
       <<"CLUSTER_HELM_RELEASE_HISTORY", "CLUSTER_HELM_RELEASE_HISTORY_REQUEST", "CLUSTER_HELM_RELEASE_HISTORY_RESPONSE">>,
       <<"CLUSTER_HELM_RELEASE_LINK", "CLUSTER_HELM_RELEASE_LINK_REQUEST", "CLUSTER_HELM_RELEASE_LINK_RESPONSE">>,
       <<"CLUSTER_HELM_RELEASE_LIST", "CLUSTER_HELM_RELEASE_LIST_REQUEST", "CLUSTER_HELM_RELEASE_LIST_RESPONSE">>,
       <<"CLUSTER_HELM_RELEASE_ROLLBACK", "CLUSTER_HELM_RELEASE_ROLLBACK_REQUEST", "CLUSTER_HELM_RELEASE_ROLLBACK_RESPONSE">>,
       <<"CLUSTER_HELM_RELEASE_STATUS", "CLUSTER_HELM_RELEASE_STATUS_REQUEST", "CLUSTER_HELM_RELEASE_STATUS_RESPONSE">>,
       <<"CLUSTER_HELM_RELEASE_UNINSTALL", "CLUSTER_HELM_RELEASE_UNINSTALL_REQUEST", "CLUSTER_HELM_RELEASE_UNINSTALL_RESPONSE">>,
       <<"CLUSTER_HELM_RELEASE_UPGRADE", "CLUSTER_HELM_RELEASE_UPGRADE_REQUEST", "CLUSTER_HELM_RELEASE_UPGRADE_RESPONSE">>,
       <<"CLUSTER_HELM_REPO_ADD", "CLUSTER_HELM_REPO_ADD_REQUEST", "CLUSTER_HELM_REPO_ADD_RESPONSE">>,
       <<"CLUSTER_HELM_REPO_LIST", "CLUSTER_HELM_REPO_LIST_REQUEST", "CLUSTER_HELM_REPO_LIST_RESPONSE">>,
       <<"CLUSTER_HELM_REPO_PATCH", "CLUSTER_HELM_REPO_PATCH_REQUEST", "CLUSTER_HELM_REPO_PATCH_RESPONSE">>,
       <<"CLUSTER_HELM_REPO_UPDATE", "CLUSTER_HELM_REPO_UPDATE_REQUEST", "CLUSTER_HELM_REPO_UPDATE_RESPONSE">>,
       <<"CLUSTER_LIST_PERSISTENT_VOLUME_CLAIMS", "CLUSTER_LIST_PERSISTENT_VOLUME_CLAIMS_REQUEST", "CLUSTER_LIST_PERSISTENT_VOLUME_CLAIMS_RESPONSE">>,
       <<"CLUSTER_MACHINE_STATS", "CLUSTER_MACHINE_STATS_REQUEST", "CLUSTER_MACHINE_STATS_RESPONSE">>,
       <<"CLUSTER_RESOURCE_INFO", "CLUSTER_RESOURCE_INFO_REQUEST", "CLUSTER_RESOURCE_INFO_RESPONSE">>,
       <<"CREATE_GRANT", "CREATE_GRANT_REQUEST", "CREATE_GRANT_RESPONSE">>,
       <<"CREATE_NEW_WORKLOAD", "CREATE_NEW_WORKLOAD_REQUEST", "CREATE_NEW_WORKLOAD_RESPONSE">>,
       <<"CREATE_USER", "CREATE_USER_REQUEST", "CREATE_USER_RESPONSE">>,
       <<"CREATE_WORKSPACE", "CREATE_WORKSPACE_REQUEST", "CREATE_WORKSPACE_RESPONSE">>,
       <<"DELETE_GRANT", "DELETE_GRANT_REQUEST", "DELETE_GRANT_RESPONSE">>,
       <<"DELETE_USER", "DELETE_USER_REQUEST", "DELETE_USER_RESPONSE">>,
       <<"DELETE_WORKLOAD", "DELETE_WORKLOAD_REQUEST", "DELETE_WORKLOAD_RESPONSE">>,
       <<"DELETE_WORKSPACE", "DELETE_WORKSPACE_REQUEST", "DELETE_WORKSPACE_RESPONSE">>,
       <<"DESCRIBE", "DESCRIBE_REQUEST", "DESCRIBE_RESPONSE">>,
       <<"DESCRIBE_WORKLOAD", "DESCRIBE_WORKLOAD_REQUEST", "DESCRIBE_WORKLOAD_RESPONSE">>,
       <<"FILES_CHMOD", "FILES_CHMOD_REQUEST", "FILES_CHMOD_RESPONSE">>,
       <<"FILES_CHOWN", "FILES_CHOWN_REQUEST", "FILES_CHOWN_RESPONSE">>,
       <<"FILES_CREATE_FOLDER", "FILES_CREATE_FOLDER_REQUEST", "FILES_CREATE_FOLDER_RESPONSE">>,
       <<"FILES_DELETE", "FILES_DELETE_REQUEST", "FILES_DELETE_RESPONSE">>,
       <<"FILES_DOWNLOAD", "FILES_DOWNLOAD_REQUEST", "FILES_DOWNLOAD_RESPONSE">>,
       <<"FILES_INFO", "FILES_INFO_REQUEST", "FILES_INFO_RESPONSE">>,
       <<"FILES_LIST", "FILES_LIST_REQUEST", "FILES_LIST_RESPONSE">>,
       <<"FILES_RENAME", "FILES_RENAME_REQUEST", "FILES_RENAME_RESPONSE">>,
       <<"GET_GRANT", "GET_GRANT_REQUEST", "GET_GRANT_RESPONSE">>,
       <<"GET_GRANTS", "GET_GRANTS_REQUEST", "GET_GRANTS_RESPONSE">>,
       <<"GET_LABELED_WORKLOAD_LIST", "GET_LABELED_WORKLOAD_LIST_REQUEST", "GET_LABELED_WORKLOAD_LIST_RESPONSE">>,
       <<"GET_NAMESPACE_WORKLOAD_LIST", "GET_NAMESPACE_WORKLOAD_LIST_REQUEST", "GET_NAMESPACE_WORKLOAD_LIST_RESPONSE">>,
       <<"GET_NODES_METRICS", "GET_NODES_METRICS_REQUEST", "GET_NODES_METRICS_RESPONSE">>,
       <<"GET_USER", "GET_USER_REQUEST", "GET_USER_RESPONSE">>,
       <<"GET_USERS", "GET_USERS_REQUEST", "GET_USERS_RESPONSE">>,
       <<"GET_WORKLOAD", "GET_WORKLOAD_REQUEST", "GET_WORKLOAD_RESPONSE">>,
       <<"GET_WORKLOAD_EXAMPLE", "GET_WORKLOAD_EXAMPLE_REQUEST", "GET_WORKLOAD_EXAMPLE_RESPONSE">>,
       <<"GET_WORKLOAD_LIST", "GET_WORKLOAD_LIST_REQUEST", "GET_WORKLOAD_LIST_RESPONSE">>,
       <<"GET_WORKLOAD_STATUS", "GET_WORKLOAD_STATUS_REQUEST", "GET_WORKLOAD_STATUS_RESPONSE">>,
       <<"GET_WORKSPACE", "GET_WORKSPACE_REQUEST", "GET_WORKSPACE_RESPONSE">>,
       <<"GET_WORKSPACES", "GET_WORKSPACES_REQUEST", "GET_WORKSPACES_RESPONSE">>,
       <<"GET_WORKSPACE_WORKLOADS", "GET_WORKSPACE_WORKLOADS_REQUEST", "GET_WORKSPACE_WORKLOADS_RESPONSE">>,
       <<"INSTALL_CERT_MANAGER", "INSTALL_CERT_MANAGER_REQUEST", "INSTALL_CERT_MANAGER_RESPONSE">>,
       <<"INSTALL_CLUSTER_ISSUER", "INSTALL_CLUSTER_ISSUER_REQUEST", "INSTALL_CLUSTER_ISSUER_RESPONSE">>,
       <<"INSTALL_INGRESS_CONTROLLER_TRAEFIK", "INSTALL_INGRESS_CONTROLLER_TRAEFIK_REQUEST", "INSTALL_INGRESS_CONTROLLER_TRAEFIK_RESPONSE">>,
       <<"INSTALL_KEPLER", "INSTALL_KEPLER_REQUEST", "INSTALL_KEPLER_RESPONSE">>,
       <<"INSTALL_METALLB", "INSTALL_METALLB_REQUEST", "INSTALL_METALLB_RESPONSE">>,
       <<"INSTALL_METRICS_SERVER", "INSTALL_METRICS_SERVER_REQUEST", "INSTALL_METRICS_SERVER_RESPONSE">>,
       <<"LIST_ALL_RESOURCE_DESCRIPTORS", "LIST_ALL_RESOURCE_DESCRIPTORS_REQUEST", "LIST_ALL_RESOURCE_DESCRIPTORS_RESPONSE">>,
       <<"LIVE_STREAM_NODES_CPU", "LIVE_STREAM_NODES_CPU_REQUEST", "LIVE_STREAM_NODES_CPU_RESPONSE">>,
       <<"LIVE_STREAM_NODES_MEMORY", "LIVE_STREAM_NODES_MEMORY_REQUEST", "LIVE_STREAM_NODES_MEMORY_RESPONSE">>,
       <<"LIVE_STREAM_NODES_TRAFFIC", "LIVE_STREAM_NODES_TRAFFIC_REQUEST", "LIVE_STREAM_NODES_TRAFFIC_RESPONSE">>,
       <<"LIVE_STREAM_POD_CPU", "LIVE_STREAM_POD_CPU_REQUEST", "LIVE_STREAM_POD_CPU_RESPONSE">>,
       <<"LIVE_STREAM_POD_MEMORY", "LIVE_STREAM_POD_MEMORY_REQUEST", "LIVE_STREAM_POD_MEMORY_RESPONSE">>,
       <<"LIVE_STREAM_POD_TRAFFIC", "LIVE_STREAM_POD_TRAFFIC_REQUEST", "LIVE_STREAM_POD_TRAFFIC_RESPONSE">>,
       <<"LIVE_STREAM_WORKSPACE_CPU", "LIVE_STREAM_WORKSPACE_CPU_REQUEST", "LIVE_STREAM_WORKSPACE_CPU_RESPONSE">>,
       <<"LIVE_STREAM_WORKSPACE_MEMORY", "LIVE_STREAM_WORKSPACE_MEMORY_REQUEST", "LIVE_STREAM_WORKSPACE_MEMORY_RESPONSE">>,
       <<"LIVE_STREAM_WORKSPACE_TRAFFIC", "LIVE_STREAM_WORKSPACE_TRAFFIC_REQUEST", "LIVE_STREAM_WORKSPACE_TRAFFIC_RESPONSE">>,
       <<"PROMETHEUS_CHARTS_ADD", "PROMETHEUS_CHARTS_ADD_REQUEST", "PROMETHEUS_CHARTS_ADD_RESPONSE">>,
       <<"PROMETHEUS_CHARTS_GET", "PROMETHEUS_CHARTS_GET_REQUEST", "PROMETHEUS_CHARTS_GET_RESPONSE">>,
       <<"PROMETHEUS_CHARTS_LIST", "PROMETHEUS_CHARTS_LIST_REQUEST", "PROMETHEUS_CHARTS_LIST_RESPONSE">>,
       <<"PROMETHEUS_CHARTS_REMOVE", "PROMETHEUS_CHARTS_REMOVE_REQUEST", "PROMETHEUS_CHARTS_REMOVE_RESPONSE">>,
       <<"PROMETHEUS_IS_REACHABLE", "PROMETHEUS_IS_REACHABLE_REQUEST", "PROMETHEUS_IS_REACHABLE_RESPONSE">>,
       <<"PROMETHEUS_QUERY", "PROMETHEUS_QUERY_REQUEST", "PROMETHEUS_QUERY_RESPONSE">>,
       <<"PROMETHEUS_VALUES", "PROMETHEUS_VALUES_REQUEST", "PROMETHEUS_VALUES_RESPONSE">>,
       <<"SEALED_SECRET_CREATE_FROM_EXISTING", "SEALED_SECRET_CREATE_FROM_EXISTING_REQUEST", "SEALED_SECRET_CREATE_FROM_EXISTING_RESPONSE">>,
       <<"SEALED_SECRET_GET_CERTIFICATE", "SEALED_SECRET_GET_CERTIFICATE_REQUEST", "SEALED_SECRET_GET_CERTIFICATE_RESPONSE">>,
       <<"SERVICE_EXEC_SH_CONNECTION_REQUEST", "SERVICE_EXEC_SH_CONNECTION_REQUEST_REQUEST", "SERVICE_EXEC_SH_CONNECTION_REQUEST_RESPONSE">>,
       <<"SERVICE_LOG_STREAM_CONNECTION_REQUEST", "SERVICE_LOG_STREAM_CONNECTION_REQUEST_REQUEST", "SERVICE_LOG_STREAM_CONNECTION_REQUEST_RESPONSE">>,
       <<"SERVICE_POD_EVENT_STREAM_CONNECTION_REQUEST", "SERVICE_POD_EVENT_STREAM_CONNECTION_REQUEST_REQUEST", "SERVICE_POD_EVENT_STREAM_CONNECTION_REQUEST_RESPONSE">>,
       <<"STATS_POD_ALL_FOR_CONTROLLER", "STATS_POD_ALL_FOR_CONTROLLER_REQUEST", "STATS_POD_ALL_FOR_CONTROLLER_RESPONSE">>,
       <<"STATS_TRAFFIC_ALL_FOR_CONTROLLER", "STATS_TRAFFIC_ALL_FOR_CONTROLLER_REQUEST", "STATS_TRAFFIC_ALL_FOR_CONTROLLER_RESPONSE">>,
       <<"STATS_WORKSPACE_CPU_UTILIZATION", "STATS_WORKSPACE_CPU_UTILIZATION_REQUEST", "STATS_WORKSPACE_CPU_UTILIZATION_RESPONSE">>,
       <<"STATS_WORKSPACE_MEMORY_UTILIZATION", "STATS_WORKSPACE_MEMORY_UTILIZATION_REQUEST", "STATS_WORKSPACE_MEMORY_UTILIZATION_RESPONSE">>,
       <<"STATS_WORKSPACE_TRAFFIC_UTILIZATION", "STATS_WORKSPACE_TRAFFIC_UTILIZATION_REQUEST", "STATS_WORKSPACE_TRAFFIC_UTILIZATION_RESPONSE">>,
       <<"STORAGE_CREATE_VOLUME", "STORAGE_CREATE_VOLUME_REQUEST", "STORAGE_CREATE_VOLUME_RESPONSE">>,
       <<"STORAGE_DELETE_VOLUME", "STORAGE_DELETE_VOLUME_REQUEST", "STORAGE_DELETE_VOLUME_RESPONSE">>,
       <<"STORAGE_STATS", "STORAGE_STATS_REQUEST", "STORAGE_STATS_RESPONSE">>,
       <<"STORAGE_STATUS", "STORAGE_STATUS_REQUEST", "STORAGE_STATUS_RESPONSE">>,
       <<"SYSTEM_CHECK", "SYSTEM_CHECK_REQUEST", "SYSTEM_CHECK_RESPONSE">>,
       <<"TRIGGER_WORKLOAD", "TRIGGER_WORKLOAD_REQUEST", "TRIGGER_WORKLOAD_RESPONSE">>,
       <<"UNINSTALL_CERT_MANAGER", "UNINSTALL_CERT_MANAGER_REQUEST", "UNINSTALL_CERT_MANAGER_RESPONSE">>,
       <<"UNINSTALL_CLUSTER_ISSUER", "UNINSTALL_CLUSTER_ISSUER_REQUEST", "UNINSTALL_CLUSTER_ISSUER_RESPONSE">>,
       <<"UNINSTALL_INGRESS_CONTROLLER_TRAEFIK", "UNINSTALL_INGRESS_CONTROLLER_TRAEFIK_REQUEST", "UNINSTALL_INGRESS_CONTROLLER_TRAEFIK_RESPONSE">>,
       <<"UNINSTALL_KEPLER", "UNINSTALL_KEPLER_REQUEST", "UNINSTALL_KEPLER_RESPONSE">>,
       <<"UNINSTALL_METALLB", "UNINSTALL_METALLB_REQUEST", "UNINSTALL_METALLB_RESPONSE">>,
       <<"UNINSTALL_METRICS_SERVER", "UNINSTALL_METRICS_SERVER_REQUEST", "UNINSTALL_METRICS_SERVER_RESPONSE">>,
       <<"UPDATE_GRANT", "UPDATE_GRANT_REQUEST", "UPDATE_GRANT_RESPONSE">>,
       <<"UPDATE_USER", "UPDATE_USER_REQUEST", "UPDATE_USER_RESPONSE">>,
       <<"UPDATE_WORKLOAD", "UPDATE_WORKLOAD_REQUEST", "UPDATE_WORKLOAD_RESPONSE">>,
       <<"UPDATE_WORKSPACE", "UPDATE_WORKSPACE_REQUEST", "UPDATE_WORKSPACE_RESPONSE">>,
       <<"UPGRADEK8SMANAGER", "UPGRADEK8SMANAGER_REQUEST", "UPGRADEK8SMANAGER_RESPONSE">>,
       <<"UPGRADE_CERT_MANAGER", "UPGRADE_CERT_MANAGER_REQUEST", "UPGRADE_CERT_MANAGER_RESPONSE">>,
       <<"UPGRADE_INGRESS_CONTROLLER_TRAEFIK", "UPGRADE_INGRESS_CONTROLLER_TRAEFIK_REQUEST", "UPGRADE_INGRESS_CONTROLLER_TRAEFIK_RESPONSE">>,
       <<"UPGRADE_KEPLER", "UPGRADE_KEPLER_REQUEST", "UPGRADE_KEPLER_RESPONSE">>,
       <<"UPGRADE_METALLB", "UPGRADE_METALLB_REQUEST", "UPGRADE_METALLB_RESPONSE">>,
       <<"UPGRADE_METRICS_SERVER", "UPGRADE_METRICS_SERVER_REQUEST", "UPGRADE_METRICS_SERVER_RESPONSE">>,
       <<"WORKSPACE_CLEAN_UP", "WORKSPACE_CLEAN_UP_REQUEST", "WORKSPACE_CLEAN_UP_RESPONSE">> >>

=============================================================================
