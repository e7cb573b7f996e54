----------------------- MODULE ClientResponseStructs2 -----------------------
(***************************************************************************)
(* The struct declarations generated for the Responses of the second half  *)
(* of the patterns, GET_USER_RESPONSE to WORKSPACE_CLEAN_UP_RESPONSE,      *)
(* of src/generated/client.ts (lines 8859-9318), given as the Request      *)
(* declarations are.                                                       *)
(***************************************************************************)
EXTENDS ShapeTypes

\* GET_USER_RESPONSE__K8S_IO_APIMACHINERY_PKG_APIS_META_V1_MANAGEDFIELDSENTRY
GET_USER_RESPONSE__K8S_IO_APIMACHINERY_PKG_APIS_META_V1_MANAGEDFIELDSENTRY == [name |-> <<"GET_USER_RESPONSE__K8S_IO_APIMACHINERY_PKG_APIS_META_V1_MANAGEDFIELDSENTRY">>, fields |-> <<<<"apiVersion", <<"string">>>>, <<"fieldsType", <<"string">>>>, <<"fieldsV1", <<"GET_USER_RESPONSE__K8S_IO_APIMACHINERY_PKG_APIS_META_V1_FIELDSV1", "|", "undefined">>>>, <<"manager", <<"string">>>>, <<"operation", <<"string">>>>, <<"subresource", <<"string">>>>, <<"time", <<"GET_USER_RESPONSE__K8S_IO_APIMACHINERY_PKG_APIS_META_V1_TIME", "|", "undefined">>>>>>]

\* GET_USER_RESPONSE__K8S_IO_APIMACHINERY_PKG_APIS_META_V1_OBJECTMETA
GET_USER_RESPONSE__K8S_IO_APIMACHINERY_PKG_APIS_META_V1_OBJECTMETA == [name |-> <<"GET_USER_RESPONSE__K8S_IO_APIMACHINERY_PKG_APIS_META_V1_OBJECTMETA">>, fields |-> <<<<"annotations", <<"Record", "<", "string", ",", "string", ">">>>>, <<"creationTimestamp", <<"GET_USER_RESPONSE__K8S_IO_APIMACHINERY_PKG_APIS_META_V1_TIME">>>>, <<"deletionGracePeriodSeconds", <<"number", "|", "undefined">>>>, <<"deletionTimestamp", <<"GET_USER_RESPONSE__K8S_IO_APIMACHINERY_PKG_APIS_META_V1_TIME", "|", "undefined">>>>, <<"finalizers", <<"string", "[]">>>>, <<"generateName", <<"string">>>>, <<"generation", <<"number">>>>, <<"labels", <<"Record", "<", "string", ",", "string", ">">>>>, <<"managedFields", <<"GET_USER_RESPONSE__K8S_IO_APIMACHINERY_PKG_APIS_META_V1_MANAGEDFIELDSENTRY", "[]">>>>, <<"name", <<"string">>>>, <<"namespace", <<"string">>>>, <<"ownerReferences", <<"GET_USER_RESPONSE__K8S_IO_APIMACHINERY_PKG_APIS_META_V1_OWNERREFERENCE", "[]">>>>, <<"resourceVersion", <<"string">>>>, <<"selfLink", <<"string">>>>, <<"uid", <<"string">>>>>>]

\* GET_USER_RESPONSE__K8S_IO_APIMACHINERY_PKG_APIS_META_V1_OWNERREFERENCE
GET_USER_RESPONSE__K8S_IO_APIMACHINERY_PKG_APIS_META_V1_OWNERREFERENCE == [name |-> <<"GET_USER_RESPONSE__K8S_IO_APIMACHINERY_PKG_APIS_META_V1_OWNERREFERENCE">>, fields |-> <<<<"apiVersion", <<"string">>>>, <<"blockOwnerDeletion", <<"boolean", "|", "undefined">>>>, <<"controller", <<"boolean", "|", "undefined">>>>, <<"kind", <<"string">>>>, <<"name", <<"string">>>>, <<"uid", <<"string">>>>>>]

\* GET_USER_RESPONSE__K8S_IO_APIMACHINERY_PKG_APIS_META_V1_TIME
GET_USER_RESPONSE__K8S_IO_APIMACHINERY_PKG_APIS_META_V1_TIME == [name |-> <<"GET_USER_RESPONSE__K8S_IO_APIMACHINERY_PKG_APIS_META_V1_TIME">>, fields |-> <<<<"Time", <<"GET_USER_RESPONSE__TIME_TIME">>>>>>]

\* GET_USER_RESPONSE__K8S_IO_APIMACHINERY_PKG_APIS_META_V1_TYPEMETA
GET_USER_RESPONSE__K8S_IO_APIMACHINERY_PKG_APIS_META_V1_TYPEMETA == [name |-> <<"GET_USER_RESPONSE__K8S_IO_APIMACHINERY_PKG_APIS_META_V1_TYPEMETA">>, fields |-> <<<<"apiVersion", <<"string">>>>, <<"kind", <<"string">>>>>>]

\* GET_USER_RESPONSE__MOGENIUS_OPERATOR_SRC_CORE_RESULTMOGENIUS_OPERATOR_SRC_CORE_REQUEST25_MOGENIUS_OPERATOR_SRC_CRDS_V1ALPHA1_USER
GET_USER_RESPONSE__MOGENIUS_OPERATOR_SRC_CORE_RESULTMOGENIUS_OPERATOR_SRC_CORE_REQUEST25_MOGENIUS_OPERATOR_SRC_CRDS_V1ALPHA1_USER == [name |-> <<"GET_USER_RESPONSE__MOGENIUS_OPERATOR_SRC_CORE_RESULTMOGENIUS_OPERATOR_SRC_CORE_REQUEST25_MOGENIUS_OPERATOR_SRC_CRDS_V1ALPHA1_USER">>, fields |-> <<<<"data", <<"GET_USER_RESPONSE__MOGENIUS_OPERATOR_SRC_CRDS_V1ALPHA1_USER", "|", "undefined">>>>, <<"message", <<"string">>>>, <<"status", <<"string">>>>>>]

\* GET_USER_RESPONSE__MOGENIUS_OPERATOR_SRC_CRDS_V1ALPHA1_USER
GET_USER_RESPONSE__MOGENIUS_OPERATOR_SRC_CRDS_V1ALPHA1_USER == [name |-> <<"GET_USER_RESPONSE__MOGENIUS_OPERATOR_SRC_CRDS_V1ALPHA1_USER">>, fields |-> <<<<"TypeMeta", <<"GET_USER_RESPONSE__K8S_IO_APIMACHINERY_PKG_APIS_META_V1_TYPEMETA">>>>, <<"metadata", <<"GET_USER_RESPONSE__K8S_IO_APIMACHINERY_PKG_APIS_META_V1_OBJECTMETA">>>>, <<"spec", <<"GET_USER_RESPONSE__MOGENIUS_OPERATOR_SRC_CRDS_V1ALPHA1_USERSPEC">>>>, <<"status", <<"GET_USER_RESPONSE__MOGENIUS_OPERATOR_SRC_CRDS_V1ALPHA1_USERSTATUS">>>>>>]

\* GET_USER_RESPONSE__MOGENIUS_OPERATOR_SRC_CRDS_V1ALPHA1_USERSPEC
GET_USER_RESPONSE__MOGENIUS_OPERATOR_SRC_CRDS_V1ALPHA1_USERSPEC == [name |-> <<"GET_USER_RESPONSE__MOGENIUS_OPERATOR_SRC_CRDS_V1ALPHA1_USERSPEC">>, fields |-> <<<<"email", <<"string">>>>, <<"firstName", <<"string">>>>, <<"lastName", <<"string">>>>, <<"subject", <<"GET_USER_RESPONSE__K8S_IO_API_RBAC_V1_SUBJECT", "|", "undefined">>>>>>]

\* GET_USER_RESPONSE__MOGENIUS_OPERATOR_SRC_CRDS_V1ALPHA1_USERSTATUS
GET_USER_RESPONSE__MOGENIUS_OPERATOR_SRC_CRDS_V1ALPHA1_USERSTATUS == [name |-> <<"GET_USER_RESPONSE__MOGENIUS_OPERATOR_SRC_CRDS_V1ALPHA1_USERSTATUS">>, fields |-> <<>>]

\* GET_USER_RESPONSE__TIME_TIME
GET_USER_RESPONSE__TIME_TIME == [name |-> <<"GET_USER_RESPONSE__TIME_TIME">>, fields |-> <<>>]

\* GET_USERS_RESPONSE__K8S_IO_API_RBAC_V1_SUBJECT
GET_USERS_RESPONSE__K8S_IO_API_RBAC_V1_SUBJECT == [name |-> <<"GET_USERS_RESPONSE__K8S_IO_API_RBAC_V1_SUBJECT">>, fields |-> <<<<"apiGroup", <<"string">>>>, <<"kind", <<"string">>>>, <<"name", <<"string">>>>, <<"namespace", <<"string">>>>>>]

\* GET_USERS_RESPONSE__K8S_IO_APIMACHINERY_PKG_APIS_META_V1_FIELDSV1
GET_USERS_RESPONSE__K8S_IO_APIMACHINERY_PKG_APIS_META_V1_FIELDSV1 == [name |-> <<"GET_USERS_RESPONSE__K8S_IO_APIMACHINERY_PKG_APIS_META_V1_FIELDSV1">>, fields |-> <<>>]

\* GET_USERS_RESPONSE__K8S_IO_APIMACHINERY_PKG_APIS_META_V1_MANAGEDFIELDSENTRY
GET_USERS_RESPONSE__K8S_IO_APIMACHINERY_PKG_APIS_META_V1_MANAGEDFIELDSENTRY == [name |-> <<"GET_USERS_RESPONSE__K8S_IO_APIMACHINERY_PKG_APIS_META_V1_MANAGEDFIELDSENTRY">>, fields |-> <<<<"apiVersion", <<"string">>>>, <<"fieldsType", <<"string">>>>, <<"fieldsV1", <<"GET_USERS_RESPONSE__K8S_IO_APIMACHINERY_PKG_APIS_META_V1_FIELDSV1", "|", "undefined">>>>, <<"manager", <<"string">>>>, <<"operation", <<"string">>>>, <<"subresource", <<"string">>>>, <<"time", <<"GET_USERS_RESPONSE__K8S_IO_APIMACHINERY_PKG_APIS_META_V1_TIME", "|", "undefined">>>>>>]

\* GET_USERS_RESPONSE__K8S_IO_APIMACHINERY_PKG_APIS_META_V1_OBJECTMETA
GET_USERS_RESPONSE__K8S_IO_APIMACHINERY_PKG_APIS_META_V1_OBJECTMETA == [name |-> <<"GET_USERS_RESPONSE__K8S_IO_APIMACHINERY_PKG_APIS_META_V1_OBJECTMETA">>, fields |-> <<<<"annotations", <<"Record", "<", "string", ",", "string", ">">>>>, <<"creationTimestamp", <<"GET_USERS_RESPONSE__K8S_IO_APIMACHINERY_PKG_APIS_META_V1_TIME">>>>, <<"deletionGracePeriodSeconds", <<"number", "|", "undefined">>>>, <<"deletionTimestamp", <<"GET_USERS_RESPONSE__K8S_IO_APIMACHINERY_PKG_APIS_META_V1_TIME", "|", "undefined">>>>, <<"finalizers", <<"string", "[]">>>>, <<"generateName", <<"string">>>>, <<"generation", <<"number">>>>, <<"labels", <<"Record", "<", "string", ",", "string", ">">>>>, <<"managedFields", <<"GET_USERS_RESPONSE__K8S_IO_APIMACHINERY_PKG_APIS_META_V1_MANAGEDFIELDSENTRY", "[]">>>>, <<"name", <<"string">>>>, <<"namespace", <<"string">>>>, <<"ownerReferences", <<"GET_USERS_RESPONSE__K8S_IO_APIMACHINERY_PKG_APIS_META_V1_OWNERREFERENCE", "[]">>>>, <<"resourceVersion", <<"string">>>>, <<"selfLink", <<"string">>>>, <<"uid", <<"string">>>>>>]

\* GET_USERS_RESPONSE__K8S_IO_APIMACHINERY_PKG_APIS_META_V1_OWNERREFERENCE
GET_USERS_RESPONSE__K8S_IO_APIMACHINERY_PKG_APIS_META_V1_OWNERREFERENCE == [name |-> <<"GET_USERS_RESPONSE__K8S_IO_APIMACHINERY_PKG_APIS_META_V1_OWNERREFERENCE">>, fields |-> <<<<"apiVersion", <<"string">>>>, <<"blockOwnerDeletion", <<"boolean", "|", "undefined">>>>, <<"controller", <<"boolean", "|", "undefined">>>>, <<"kind", <<"string">>>>, <<"name", <<"string">>>>, <<"uid", <<"string">>>>>>]

\* GET_USERS_RESPONSE__K8S_IO_APIMACHINERY_PKG_APIS_META_V1_TIME
GET_USERS_RESPONSE__K8S_IO_APIMACHINERY_PKG_APIS_META_V1_TIME == [name |-> <<"GET_USERS_RESPONSE__K8S_IO_APIMACHINERY_PKG_APIS_META_V1_TIME">>, fields |-> <<<<"Time", <<"GET_USERS_RESPONSE__TIME_TIME">>>>>>]

\* GET_USERS_RESPONSE__K8S_IO_APIMACHINERY_PKG_APIS_META_V1_TYPEMETA
GET_USERS_RESPONSE__K8S_IO_APIMACHINERY_PKG_APIS_META_V1_TYPEMETA == [name |-> <<"GET_USERS_RESPONSE__K8S_IO_APIMACHINERY_PKG_APIS_META_V1_TYPEMETA">>, fields |-> <<<<"apiVersion", <<"string">>>>, <<"kind", <<"string">>>>>>]

\* GET_USERS_RESPONSE__MOGENIUS_OPERATOR_SRC_CORE_RESULTMOGENIUS_OPERATOR_SRC_CORE_REQUEST23_MOGENIUS_OPERATOR_SRC_CRDS_V1ALPHA1_USER
GET_USERS_RESPONSE__MOGENIUS_OPERATOR_SRC_CORE_RESULTMOGENIUS_OPERATOR_SRC_CORE_REQUEST23_MOGENIUS_OPERATOR_SRC_CRDS_V1ALPHA1_USER == [name |-> <<"GET_USERS_RESPONSE__MOGENIUS_OPERATOR_SRC_CORE_RESULTMOGENIUS_OPERATOR_SRC_CORE_REQUEST23_MOGENIUS_OPERATOR_SRC_CRDS_V1ALPHA1_USER">>, fields |-> <<<<"data", <<"GET_USERS_RESPONSE__MOGENIUS_OPERATOR_SRC_CRDS_V1ALPHA1_USER", "[]">>>>, <<"message", <<"string">>>>, <<"status", <<"string">>>>>>]

\* GET_USERS_RESPONSE__MOGENIUS_OPERATOR_SRC_CRDS_V1ALPHA1_USER
GET_USERS_RESPONSE__MOGENIUS_OPERATOR_SRC_CRDS_V1ALPHA1_USER == [name |-> <<"GET_USERS_RESPONSE__MOGENIUS_OPERATOR_SRC_CRDS_V1ALPHA1_USER">>, fields |-> <<<<"TypeMeta", <<"GET_USERS_RESPONSE__K8S_IO_APIMACHINERY_PKG_APIS_META_V1_TYPEMETA">>>>, <<"metadata", <<"GET_USERS_RESPONSE__K8S_IO_APIMACHINERY_PKG_APIS_META_V1_OBJECTMETA">>>>, <<"spec", <<"GET_USERS_RESPONSE__MOGENIUS_OPERATOR_SRC_CRDS_V1ALPHA1_USERSPEC">>>>, <<"status", <<"GET_USERS_RESPONSE__MOGENIUS_OPERATOR_SRC_CRDS_V1ALPHA1_USERSTATUS">>>>>>]

\* GET_USERS_RESPONSE__MOGENIUS_OPERATOR_SRC_CRDS_V1ALPHA1_USERSPEC
GET_USERS_RESPONSE__MOGENIUS_OPERATOR_SRC_CRDS_V1ALPHA1_USERSPEC == [name |-> <<"GET_USERS_RESPONSE__MOGENIUS_OPERATOR_SRC_CRDS_V1ALPHA1_USERSPEC">>, fields |-> <<<<"email", <<"string">>>>, <<"firstName", <<"string">>>>, <<"lastName", <<"string">>>>, <<"subject", <<"GET_USERS_RESPONSE__K8S_IO_API_RBAC_V1_SUBJECT", "|", "undefined">>>>>>]

\* GET_USERS_RESPONSE__MOGENIUS_OPERATOR_SRC_CRDS_V1ALPHA1_USERSTATUS
GET_USERS_RESPONSE__MOGENIUS_OPERATOR_SRC_CRDS_V1ALPHA1_USERSTATUS == [name |-> <<"GET_USERS_RESPONSE__MOGENIUS_OPERATOR_SRC_CRDS_V1ALPHA1_USERSTATUS">>, fields |-> <<>>]

\* GET_USERS_RESPONSE__TIME_TIME
GET_USERS_RESPONSE__TIME_TIME == [name |-> <<"GET_USERS_RESPONSE__TIME_TIME">>, fields |-> <<>>]

\* GET_WORKLOAD_RESPONSE__K8S_IO_APIMACHINERY_PKG_APIS_META_V1_UNSTRUCTURED_UNSTRUCTURED
GET_WORKLOAD_RESPONSE__K8S_IO_APIMACHINERY_PKG_APIS_META_V1_UNSTRUCTURED_UNSTRUCTURED == [name |-> <<"GET_WORKLOAD_RESPONSE__K8S_IO_APIMACHINERY_PKG_APIS_META_V1_UNSTRUCTURED_UNSTRUCTURED">>, fields |-> <<<<"Object", <<"Record", "<", "string", ",", "any", ">">>>>>>]

\* GET_WORKLOAD_RESPONSE__MOGENIUS_OPERATOR_SRC_CORE_RESULTMOGENIUS_OPERATOR_SRC_UTILS_WORKLOADSINGLEREQUEST_K8S_IO_APIMACHINERY_PKG_APIS_META_V1_UNSTRUCTURED_UNSTRUCTURED
GET_WORKLOAD_RESPONSE__MOGENIUS_OPERATOR_SRC_CORE_RESULTMOGENIUS_OPERATOR_SRC_UTILS_WORKLOADSINGLEREQUEST_K8S_IO_APIMACHINERY_PKG_APIS_META_V1_UNSTRUCTURED_UNSTRUCTURED == [name |-> <<"GET_WORKLOAD_RESPONSE__MOGENIUS_OPERATOR_SRC_CORE_RESULTMOGENIUS_OPERATOR_SRC_UTILS_WORKLOADSINGLEREQUEST_K8S_IO_APIMACHINERY_PKG_APIS_META_V1_UNSTRUCTURED_UNSTRUCTURED">>, fields |-> <<<<"data", <<"GET_WORKLOAD_RESPONSE__K8S_IO_APIMACHINERY_PKG_APIS_META_V1_UNSTRUCTURED_UNSTRUCTURED", "|", "undefined">>>>, <<"message", <<"string">>>>, <<"status", <<"string">>>>>>]

\* GET_WORKLOAD_EXAMPLE_RESPONSE__MOGENIUS_OPERATOR_SRC_CORE_RESULTMOGENIUS_OPERATOR_SRC_UTILS_RESOURCEDESCRIPTOR_STRING
GET_WORKLOAD_EXAMPLE_RESPONSE__MOGENIUS_OPERATOR_SRC_CORE_RESULTMOGENIUS_OPERATOR_SRC_UTILS_RESOURCEDESCRIPTOR_STRING == [name |-> <<"GET_WORKLOAD_EXAMPLE_RESPONSE__MOGENIUS_OPERATOR_SRC_CORE_RESULTMOGENIUS_OPERATOR_SRC_UTILS_RESOURCEDESCRIPTOR_STRING">>, fields |-> <<<<"data", <<"string">>>>, <<"message", <<"string">>>>, <<"status", <<"string">>>>>>]

\* GET_WORKLOAD_LIST_RESPONSE__K8S_IO_APIMACHINERY_PKG_APIS_META_V1_UNSTRUCTURED_UNSTRUCTURED
GET_WORKLOAD_LIST_RESPONSE__K8S_IO_APIMACHINERY_PKG_APIS_META_V1_UNSTRUCTURED_UNSTRUCTURED == [name |-> <<"GET_WORKLOAD_LIST_RESPONSE__K8S_IO_APIMACHINERY_PKG_APIS_META_V1_UNSTRUCTURED_UNSTRUCTURED">>, fields |-> <<<<"Object", <<"Record", "<", "string", ",", "any", ">">>>>>>]

\* GET_WORKLOAD_LIST_RESPONSE__K8S_IO_APIMACHINERY_PKG_APIS_META_V1_UNSTRUCTURED_UNSTRUCTUREDLIST
GET_WORKLOAD_LIST_RESPONSE__K8S_IO_APIMACHINERY_PKG_APIS_META_V1_UNSTRUCTURED_UNSTRUCTUREDLIST == [name |-> <<"GET_WORKLOAD_LIST_RESPONSE__K8S_IO_APIMACHINERY_PKG_APIS_META_V1_UNSTRUCTURED_UNSTRUCTUREDLIST">>, fields |-> <<<<"Object", <<"Record", "<", "string", ",", "any", ">">>>>, <<"items", <<"GET_WORKLOAD_LIST_RESPONSE__K8S_IO_APIMACHINERY_PKG_APIS_META_V1_UNSTRUCTURED_UNSTRUCTURED", "[]">>>>>>]

\* GET_WORKLOAD_LIST_RESPONSE__MOGENIUS_OPERATOR_SRC_CORE_RESULTMOGENIUS_OPERATOR_SRC_CORE_REQUEST17_K8S_IO_APIMACHINERY_PKG_APIS_META_V1_UNSTRUCTURED_UNSTRUCTUREDLIST
GET_WORKLOAD_LIST_RESPONSE__MOGENIUS_OPERATOR_SRC_CORE_RESULTMOGENIUS_OPERATOR_SRC_CORE_REQUEST17_K8S_IO_APIMACHINERY_PKG_APIS_META_V1_UNSTRUCTURED_UNSTRUCTUREDLIST == [name |-> <<"GET_WORKLOAD_LIST_RESPONSE__MOGENIUS_OPERATOR_SRC_CORE_RESULTMOGENIUS_OPERATOR_SRC_CORE_REQUEST17_K8S_IO_APIMACHINERY_PKG_APIS_META_V1_UNSTRUCTURED_UNSTRUCTUREDLIST">>, fields |-> <<<<"data", <<"GET_WORKLOAD_LIST_RESPONSE__K8S_IO_APIMACHINERY_PKG_APIS_META_V1_UNSTRUCTURED_UNSTRUCTUREDLIST">>>>, <<"message", <<"string">>>>, <<"status", <<"string">>>>>>]

\* GET_WORKLOAD_STATUS_RESPONSE__K8S_IO_API_CORE_V1_EVENT
GET_WORKLOAD_STATUS_RESPONSE__K8S_IO_API_CORE_V1_EVENT == [name |-> <<"GET_WORKLOAD_STATUS_RESPONSE__K8S_IO_API_CORE_V1_EVENT">>, fields |-> <<<<"TypeMeta", <<"GET_WORKLOAD_STATUS_RESPONSE__K8S_IO_APIMACHINERY_PKG_APIS_META_V1_TYPEMETA">>>>, <<"action", <<"string">>>>, <<"count", <<"number">>>>, <<"eventTime", <<"GET_WORKLOAD_STATUS_RESPONSE__K8S_IO_APIMACHINERY_PKG_APIS_META_V1_MICROTIME">>>>, <<"firstTimestamp", <<"GET_WORKLOAD_STATUS_RESPONSE__K8S_IO_APIMACHINERY_PKG_APIS_META_V1_TIME">>>>, <<"involvedObject", <<"GET_WORKLOAD_STATUS_RESPONSE__K8S_IO_API_CORE_V1_OBJECTREFERENCE">>>>, <<"lastTimestamp", <<"GET_WORKLOAD_STATUS_RESPONSE__K8S_IO_APIMACHINERY_PKG_APIS_META_V1_TIME">>>>, <<"message", <<"string">>>>, <<"metadata", <<"GET_WORKLOAD_STATUS_RESPONSE__K8S_IO_APIMACHINERY_PKG_APIS_META_V1_OBJECTMETA">>>>, <<"reason", <<"string">>>>, <<"related", <<"GET_WORKLOAD_STATUS_RESPONSE__K8S_IO_API_CORE_V1_OBJECTREFERENCE", "|", "undefined">>>>, <<"reportingComponent", <<"string">>>>, <<"reportingInstance", <<"string">>>>, <<"series", <<"GET_WORKLOAD_STATUS_RESPONSE__K8S_IO_API_CORE_V1_EVENTSERIES", "|", "undefined">>>>, <<"source", <<"GET_WORKLOAD_STATUS_RESPONSE__K8S_IO_API_CORE_V1_EVENTSOURCE">>>>, <<"type", <<"string">>>>>>]

\* GET_WORKLOAD_STATUS_RESPONSE__K8S_IO_API_CORE_V1_EVENTSERIES
GET_WORKLOAD_STATUS_RESPONSE__K8S_IO_API_CORE_V1_EVENTSERIES == [name |-> <<"GET_WORKLOAD_STATUS_RESPONSE__K8S_IO_API_CORE_V1_EVENTSERIES">>, fields |-> <<<<"count", <<"number">>>>, <<"lastObservedTime", <<"GET_WORKLOAD_STATUS_RESPONSE__K8S_IO_APIMACHINERY_PKG_APIS_META_V1_MICROTIME">>>>>>]

\* GET_WORKLOAD_STATUS_RESPONSE__K8S_IO_API_CORE_V1_EVENTSOURCE
GET_WORKLOAD_STATUS_RESPONSE__K8S_IO_API_CORE_V1_EVENTSOURCE == [name |-> <<"GET_WORKLOAD_STATUS_RESPONSE__K8S_IO_API_CORE_V1_EVENTSOURCE">>, fields |-> <<<<"component", <<"string">>>>, <<"host", <<"string">>>>>>]

\* GET_WORKLOAD_STATUS_RESPONSE__K8S_IO_API_CORE_V1_OBJECTREFERENCE
GET_WORKLOAD_STATUS_RESPONSE__K8S_IO_API_CORE_V1_OBJECTREFERENCE == [name |-> <<"GET_WORKLOAD_STATUS_RESPONSE__K8S_IO_API_CORE_V1_OBJECTREFERENCE">>, fields |-> <<<<"apiVersion", <<"string">>>>, <<"fieldPath", <<"string">>>>, <<"kind", <<"string">>>>, <<"name", <<"string">>>>, <<"namespace", <<"string">>>>, <<"resourceVersion", <<"string">>>>, <<"uid", <<"string">>>>>>]

\* GET_WORKLOAD_STATUS_RESPONSE__K8S_IO_APIMACHINERY_PKG_APIS_META_V1_FIELDSV1
GET_WORKLOAD_STATUS_RESPONSE__K8S_IO_APIMACHINERY_PKG_APIS_META_V1_FIELDSV1 == [name |-> <<"GET_WORKLOAD_STATUS_RESPONSE__K8S_IO_APIMACHINERY_PKG_APIS_META_V1_FIELDSV1">>, fields |-> <<>>]

\* GET_WORKLOAD_STATUS_RESPONSE__K8S_IO_APIMACHINERY_PKG_APIS_META_V1_MANAGEDFIELDSENTRY
GET_WORKLOAD_STATUS_RESPONSE__K8S_IO_APIMACHINERY_PKG_APIS_META_V1_MANAGEDFIELDSENTRY == [name |-> <<"GET_WORKLOAD_STATUS_RESPONSE__K8S_IO_APIMACHINERY_PKG_APIS_META_V1_MANAGEDFIELDSENTRY">>, fields |-> <<<<"apiVersion", <<"string">>>>, <<"fieldsType", <<"string">>>>, <<"fieldsV1", <<"GET_WORKLOAD_STATUS_RESPONSE__K8S_IO_APIMACHINERY_PKG_APIS_META_V1_FIELDSV1", "|", "undefined">>>>, <<"manager", <<"string">>>>, <<"operation", <<"string">>>>, <<"subresource", <<"string">>>>, <<"time", <<"GET_WORKLOAD_STATUS_RESPONSE__K8S_IO_APIMACHINERY_PKG_APIS_META_V1_TIME", "|", "undefined">>>>>>]

\* GET_WORKLOAD_STATUS_RESPONSE__K8S_IO_APIMACHINERY_PKG_APIS_META_V1_MICROTIME
GET_WORKLOAD_STATUS_RESPONSE__K8S_IO_APIMACHINERY_PKG_APIS_META_V1_MICROTIME == [name |-> <<"GET_WORKLOAD_STATUS_RESPONSE__K8S_IO_APIMACHINERY_PKG_APIS_META_V1_MICROTIME">>, fields |-> <<<<"Time", <<"GET_WORKLOAD_STATUS_RESPONSE__TIME_TIME">>>>>>]

\* GET_WORKLOAD_STATUS_RESPONSE__K8S_IO_APIMACHINERY_PKG_APIS_META_V1_OBJECTMETA
GET_WORKLOAD_STATUS_RESPONSE__K8S_IO_APIMACHINERY_PKG_APIS_META_V1_OBJECTMETA == [name |-> <<"GET_WORKLOAD_STATUS_RESPONSE__K8S_IO_APIMACHINERY_PKG_APIS_META_V1_OBJECTMETA">>, fields |-> <<<<"annotations", <<"Record", "<", "string", ",", "string", ">">>>>, <<"creationTimestamp", <<"GET_WORKLOAD_STATUS_RESPONSE__K8S_IO_APIMACHINERY_PKG_APIS_META_V1_TIME">>>>, <<"deletionGracePeriodSeconds", <<"number", "|", "undefined">>>>, <<"deletionTimestamp", <<"GET_WORKLOAD_STATUS_RESPONSE__K8S_IO_APIMACHINERY_PKG_APIS_META_V1_TIME", "|", "undefined">>>>, <<"finalizers", <<"string", "[]">>>>, <<"generateName", <<"string">>>>, <<"generation", <<"number">>>>, <<"labels", <<"Record", "<", "string", ",", "string", ">">>>>, <<"managedFields", <<"GET_WORKLOAD_STATUS_RESPONSE__K8S_IO_APIMACHINERY_PKG_APIS_META_V1_MANAGEDFIELDSENTRY", "[]">>>>, <<"name", <<"string">>>>, <<"namespace", <<"string">>>>, <<"ownerReferences", <<"GET_WORKLOAD_STATUS_RESPONSE__K8S_IO_APIMACHINERY_PKG_APIS_META_V1_OWNERREFERENCE", "[]">>>>, <<"resourceVersion", <<"string">>>>, <<"selfLink", <<"string">>>>, <<"uid", <<"string">>>>>>]

\* GET_WORKLOAD_STATUS_RESPONSE__K8S_IO_APIMACHINERY_PKG_APIS_META_V1_OWNERREFERENCE
GET_WORKLOAD_STATUS_RESPONSE__K8S_IO_APIMACHINERY_PKG_APIS_META_V1_OWNERREFERENCE == [name |-> <<"GET_WORKLOAD_STATUS_RESPONSE__K8S_IO_APIMACHINERY_PKG_APIS_META_V1_OWNERREFERENCE">>, fields |-> <<<<"apiVersion", <<"string">>>>, <<"blockOwnerDeletion", <<"boolean", "|", "undefined">>>>, <<"controller", <<"boolean", "|", "undefined">>>>, <<"kind", <<"string">>>>, <<"name", <<"string">>>>, <<"uid", <<"string">>>>>>]

\* GET_WORKLOAD_STATUS_RESPONSE__K8S_IO_APIMACHINERY_PKG_APIS_META_V1_TIME
GET_WORKLOAD_STATUS_RESPONSE__K8S_IO_APIMACHINERY_PKG_APIS_META_V1_TIME == [name |-> <<"GET_WORKLOAD_STATUS_RESPONSE__K8S_IO_APIMACHINERY_PKG_APIS_META_V1_TIME">>, fields |-> <<<<"Time", <<"GET_WORKLOAD_STATUS_RESPONSE__TIME_TIME">>>>>>]

\* GET_WORKLOAD_STATUS_RESPONSE__K8S_IO_APIMACHINERY_PKG_APIS_META_V1_TYPEMETA
GET_WORKLOAD_STATUS_RESPONSE__K8S_IO_APIMACHINERY_PKG_APIS_META_V1_TYPEMETA == [name |-> <<"GET_WORKLOAD_STATUS_RESPONSE__K8S_IO_APIMACHINERY_PKG_APIS_META_V1_TYPEMETA">>, fields |-> <<<<"apiVersion", <<"string">>>>, <<"kind", <<"string">>>>>>]

\* GET_WORKLOAD_STATUS_RESPONSE__MOGENIUS_OPERATOR_SRC_CORE_RESULTMOGENIUS_OPERATOR_SRC_KUBERNETES_GETWORKLOADSTATUSREQUEST_MOGENIUS_OPERATOR_SRC_KUBERNETES_WORKLOADSTATUSDTO
GET_WORKLOAD_STATUS_RESPONSE__MOGENIUS_OPERATOR_SRC_CORE_RESULTMOGENIUS_OPERATOR_SRC_KUBERNETES_GETWORKLOADSTATUSREQUEST_MOGENIUS_OPERATOR_SRC_KUBERNETES_WORKLOADSTATUSDTO == [name |-> <<"GET_WORKLOAD_STATUS_RESPONSE__MOGENIUS_OPERATOR_SRC_CORE_RESULTMOGENIUS_OPERATOR_SRC_KUBERNETES_GETWORKLOADSTATUSREQUEST_MOGENIUS_OPERATOR_SRC_KUBERNETES_WORKLOADSTATUSDTO">>, fields |-> <<<<"data", <<"GET_WORKLOAD_STATUS_RESPONSE__MOGENIUS_OPERATOR_SRC_KUBERNETES_WORKLOADSTATUSDTO", "[]">>>>, <<"message", <<"string">>>>, <<"status", <<"string">>>>>>]

\* GET_WORKLOAD_STATUS_RESPONSE__MOGENIUS_OPERATOR_SRC_KUBERNETES_WORKLOADSTATUSDTO
GET_WORKLOAD_STATUS_RESPONSE__MOGENIUS_OPERATOR_SRC_KUBERNETES_WORKLOADSTATUSDTO == [name |-> <<"GET_WORKLOAD_STATUS_RESPONSE__MOGENIUS_OPERATOR_SRC_KUBERNETES_WORKLOADSTATUSDTO">>, fields |-> <<<<"items", <<"GET_WORKLOAD_STATUS_RESPONSE__MOGENIUS_OPERATOR_SRC_KUBERNETES_WORKLOADSTATUSITEMDTO", "[]">>>>>>]

\* GET_WORKLOAD_STATUS_RESPONSE__MOGENIUS_OPERATOR_SRC_KUBERNETES_WORKLOADSTATUSITEMDTO
GET_WORKLOAD_STATUS_RESPONSE__MOGENIUS_OPERATOR_SRC_KUBERNETES_WORKLOADSTATUSITEMDTO == [name |-> <<"GET_WORKLOAD_STATUS_RESPONSE__MOGENIUS_OPERATOR_SRC_KUBERNETES_WORKLOADSTATUSITEMDTO">>, fields |-> <<<<"apiVersion", <<"string">>>>, <<"creationTimestamp", <<"GET_WORKLOAD_STATUS_RESPONSE__K8S_IO_APIMACHINERY_PKG_APIS_META_V1_TIME">>>>, <<"endpoints", <<"any">>>>, <<"events", <<"GET_WORKLOAD_STATUS_RESPONSE__K8S_IO_API_CORE_V1_EVENT", "[]">>>>, <<"kind", <<"string">>>>, <<"name", <<"string">>>>, <<"namespace", <<"string">>>>, <<"ownerReferences", <<"any">>>>, <<"replicas", <<"number", "|", "undefined">>>>, <<"specClusterIP", <<"string">>>>, <<"specType", <<"string">>>>, <<"status", <<"any">>>>, <<"uid", <<"string">>>>>>]

\* GET_WORKLOAD_STATUS_RESPONSE__TIME_TIME
GET_WORKLOAD_STATUS_RESPONSE__TIME_TIME == [name |-> <<"GET_WORKLOAD_STATUS_RESPONSE__TIME_TIME">>, fields |-> <<>>]

\* GET_WORKSPACE_RESPONSE__K8S_IO_APIMACHINERY_PKG_APIS_META_V1_TIME
GET_WORKSPACE_RESPONSE__K8S_IO_APIMACHINERY_PKG_APIS_META_V1_TIME == [name |-> <<"GET_WORKSPACE_RESPONSE__K8S_IO_APIMACHINERY_PKG_APIS_META_V1_TIME">>, fields |-> <<<<"Time", <<"GET_WORKSPACE_RESPONSE__TIME_TIME">>>>>>]

\* GET_WORKSPACE_RESPONSE__MOGENIUS_OPERATOR_SRC_CORE_GETWORKSPACERESULT
GET_WORKSPACE_RESPONSE__MOGENIUS_OPERATOR_SRC_CORE_GETWORKSPACERESULT == [name |-> <<"GET_WORKSPACE_RESPONSE__MOGENIUS_OPERATOR_SRC_CORE_GETWORKSPACERESULT">>, fields |-> <<<<"creationTimestamp", <<"GET_WORKSPACE_RESPONSE__K8S_IO_APIMACHINERY_PKG_APIS_META_V1_TIME">>>>, <<"name", <<"string">>>>, <<"resources", <<"GET_WORKSPACE_RESPONSE__MOGENIUS_OPERATOR_SRC_CRDS_V1ALPHA1_WORKSPACERESOURCEIDENTIFIER", "[]">>>>>>]

\* GET_WORKSPACE_RESPONSE__MOGENIUS_OPERATOR_SRC_CORE_RESULTMOGENIUS_OPERATOR_SRC_CORE_REQUEST19_MOGENIUS_OPERATOR_SRC_CORE_GETWORKSPACERESULT
GET_WORKSPACE_RESPONSE__MOGENIUS_OPERATOR_SRC_CORE_RESULTMOGENIUS_OPERATOR_SRC_CORE_REQUEST19_MOGENIUS_OPERATOR_SRC_CORE_GETWORKSPACERESULT == [name |-> <<"GET_WORKSPACE_RESPONSE__MOGENIUS_OPERATOR_SRC_CORE_RESULTMOGENIUS_OPERATOR_SRC_CORE_REQUEST19_MOGENIUS_OPERATOR_SRC_CORE_GETWORKSPACERESULT">>, fields |-> <<<<"data", <<"GET_WORKSPACE_RESPONSE__MOGENIUS_OPERATOR_SRC_CORE_GETWORKSPACERESULT", "|", "undefined">>>>, <<"message", <<"string">>>>, <<"status", <<"string">>>>>>]

\* GET_WORKSPACE_RESPONSE__MOGENIUS_OPERATOR_SRC_CRDS_V1ALPHA1_WORKSPACERESOURCEIDENTIFIER
GET_WORKSPACE_RESPONSE__MOGENIUS_OPERATOR_SRC_CRDS_V1ALPHA1_WORKSPACERESOURCEIDENTIFIER == [name |-> <<"GET_WORKSPACE_RESPONSE__MOGENIUS_OPERATOR_SRC_CRDS_V1ALPHA1_WORKSPACERESOURCEIDENTIFIER">>, fields |-> <<<<"id", <<"string">>>>, <<"namespace", <<"string">>>>, <<"type", <<"string">>>>>>]

\* GET_WORKSPACE_RESPONSE__TIME_TIME
GET_WORKSPACE_RESPONSE__TIME_TIME == [name |-> <<"GET_WORKSPACE_RESPONSE__TIME_TIME">>, fields |-> <<>>]

\* GET_WORKSPACES_RESPONSE__K8S_IO_APIMACHINERY_PKG_APIS_META_V1_TIME
GET_WORKSPACES_RESPONSE__K8S_IO_APIMACHINERY_PKG_APIS_META_V1_TIME == [name |-> <<"GET_WORKSPACES_RESPONSE__K8S_IO_APIMACHINERY_PKG_APIS_META_V1_TIME">>, fields |-> <<<<"Time", <<"GET_WORKSPACES_RESPONSE__TIME_TIME">>>>>>]

\* GET_WORKSPACES_RESPONSE__MOGENIUS_OPERATOR_SRC_CORE_GETWORKSPACERESULT
GET_WORKSPACES_RESPONSE__MOGENIUS_OPERATOR_SRC_CORE_GETWORKSPACERESULT == [name |-> <<"GET_WORKSPACES_RESPONSE__MOGENIUS_OPERATOR_SRC_CORE_GETWORKSPACERESULT">>, fields |-> <<<<"creationTimestamp", <<"GET_WORKSPACES_RESPONSE__K8S_IO_APIMACHINERY_PKG_APIS_META_V1_TIME">>>>, <<"name", <<"string">>>>, <<"resources", <<"GET_WORKSPACES_RESPONSE__MOGENIUS_OPERATOR_SRC_CRDS_V1ALPHA1_WORKSPACERESOURCEIDENTIFIER", "[]">>>>>>]

\* GET_WORKSPACES_RESPONSE__MOGENIUS_OPERATOR_SRC_CORE_RESULTMOGENIUS_OPERATOR_SRC_CORE_VOID_MOGENIUS_OPERATOR_SRC_CORE_GETWORKSPACERESULT
GET_WORKSPACES_RESPONSE__MOGENIUS_OPERATOR_SRC_CORE_RESULTMOGENIUS_OPERATOR_SRC_CORE_VOID_MOGENIUS_OPERATOR_SRC_CORE_GETWORKSPACERESULT == [name |-> <<"GET_WORKSPACES_RESPONSE__MOGENIUS_OPERATOR_SRC_CORE_RESULTMOGENIUS_OPERATOR_SRC_CORE_VOID_MOGENIUS_OPERATOR_SRC_CORE_GETWORKSPACERESULT">>, fields |-> <<<<"data", <<"GET_WORKSPACES_RESPONSE__MOGENIUS_OPERATOR_SRC_CORE_GETWORKSPACERESULT", "[]">>>>, <<"message", <<"string">>>>, <<"status", <<"string">>>>>>]

\* GET_WORKSPACES_RESPONSE__MOGENIUS_OPERATOR_SRC_CRDS_V1ALPHA1_WORKSPACERESOURCEIDENTIFIER
GET_WORKSPACES_RESPONSE__MOGENIUS_OPERATOR_SRC_CRDS_V1ALPHA1_WORKSPACERESOURCEIDENTIFIER == [name |-> <<"GET_WORKSPACES_RESPONSE__MOGENIUS_OPERATOR_SRC_CRDS_V1ALPHA1_WORKSPACERESOURCEIDENTIFIER">>, fields |-> <<<<"id", <<"string">>>>, <<"namespace", <<"string">>>>, <<"type", <<"string">>>>>>]

\* GET_WORKSPACES_RESPONSE__TIME_TIME
GET_WORKSPACES_RESPONSE__TIME_TIME == [name |-> <<"GET_WORKSPACES_RESPONSE__TIME_TIME">>, fields |-> <<>>]

\* GET_WORKSPACE_WORKLOADS_RESPONSE__K8S_IO_APIMACHINERY_PKG_APIS_META_V1_UNSTRUCTURED_UNSTRUCTURED
GET_WORKSPACE_WORKLOADS_RESPONSE__K8S_IO_APIMACHINERY_PKG_APIS_META_V1_UNSTRUCTURED_UNSTRUCTURED == [name |-> <<"GET_WORKSPACE_WORKLOADS_RESPONSE__K8S_IO_APIMACHINERY_PKG_APIS_META_V1_UNSTRUCTURED_UNSTRUCTURED">>, fields |-> <<<<"Object", <<"Record", "<", "string", ",", "any", ">">>>>>>]

\* GET_WORKSPACE_WORKLOADS_RESPONSE__MOGENIUS_OPERATOR_SRC_CORE_RESULTMOGENIUS_OPERATOR_SRC_CORE_REQUEST33_K8S_IO_APIMACHINERY_PKG_APIS_META_V1_UNSTRUCTURED_UNSTRUCTURED
GET_WORKSPACE_WORKLOADS_RESPONSE__MOGENIUS_OPERATOR_SRC_CORE_RESULTMOGENIUS_OPERATOR_SRC_CORE_REQUEST33_K8S_IO_APIMACHINERY_PKG_APIS_META_V1_UNSTRUCTURED_UNSTRUCTURED == [name |-> <<"GET_WORKSPACE_WORKLOADS_RESPONSE__MOGENIUS_OPERATOR_SRC_CORE_RESULTMOGENIUS_OPERATOR_SRC_CORE_REQUEST33_K8S_IO_APIMACHINERY_PKG_APIS_META_V1_UNSTRUCTURED_UNSTRUCTURED">>, fields |-> <<<<"data", <<"GET_WORKSPACE_WORKLOADS_RESPONSE__K8S_IO_APIMACHINERY_PKG_APIS_META_V1_UNSTRUCTURED_UNSTRUCTURED", "[]">>>>, <<"message", <<"string">>>>, <<"status", <<"string">>>>>>]

\* INSTALL_CERT_MANAGER_RESPONSE__MOGENIUS_OPERATOR_SRC_CORE_RESULTMOGENIUS_OPERATOR_SRC_CORE_VOID_STRING
INSTALL_CERT_MANAGER_RESPONSE__MOGENIUS_OPERATOR_SRC_CORE_RESULTMOGENIUS_OPERATOR_SRC_CORE_VOID_STRING == [name |-> <<"INSTALL_CERT_MANAGER_RESPONSE__MOGENIUS_OPERATOR_SRC_CORE_RESULTMOGENIUS_OPERATOR_SRC_CORE_VOID_STRING">>, fields |-> <<<<"data", <<"string">>>>, <<"message", <<"string">>>>, <<"status", <<"string">>>>>>]

\* INSTALL_CLUSTER_ISSUER_RESPONSE__MOGENIUS_OPERATOR_SRC_CORE_RESULTMOGENIUS_OPERATOR_SRC_CORE_REQUEST6_STRING
INSTALL_CLUSTER_ISSUER_RESPONSE__MOGENIUS_OPERATOR_SRC_CORE_RESULTMOGENIUS_OPERATOR_SRC_CORE_REQUEST6_STRING == [name |-> <<"INSTALL_CLUSTER_ISSUER_RESPONSE__MOGENIUS_OPERATOR_SRC_CORE_RESULTMOGENIUS_OPERATOR_SRC_CORE_REQUEST6_STRING">>, fields |-> <<<<"data", <<"string">>>>, <<"message", <<"string">>>>, <<"status", <<"string">>>>>>]

\* INSTALL_INGRESS_CONTROLLER_TRAEFIK_RESPONSE__MOGENIUS_OPERATOR_SRC_CORE_RESULTMOGENIUS_OPERATOR_SRC_CORE_VOID_STRING
INSTALL_INGRESS_CONTROLLER_TRAEFIK_RESPONSE__MOGENIUS_OPERATOR_SRC_CORE_RESULTMOGENIUS_OPERATOR_SRC_CORE_VOID_STRING == [name |-> <<"INSTALL_INGRESS_CONTROLLER_TRAEFIK_RESPONSE__MOGENIUS_OPERATOR_SRC_CORE_RESULTMOGENIUS_OPERATOR_SRC_CORE_VOID_STRING">>, fields |-> <<<<"data", <<"string">>>>, <<"message", <<"string">>>>, <<"status", <<"string">>>>>>]

\* INSTALL_KEPLER_RESPONSE__MOGENIUS_OPERATOR_SRC_CORE_RESULTMOGENIUS_OPERATOR_SRC_CORE_VOID_STRING
INSTALL_KEPLER_RESPONSE__MOGENIUS_OPERATOR_SRC_CORE_RESULTMOGENIUS_OPERATOR_SRC_CORE_VOID_STRING == [name |-> <<"INSTALL_KEPLER_RESPONSE__MOGENIUS_OPERATOR_SRC_CORE_RESULTMOGENIUS_OPERATOR_SRC_CORE_VOID_STRING">>, fields |-> <<<<"data", <<"string">>>>, <<"message", <<"string">>>>, <<"status", <<"string">>>>>>]

\* INSTALL_METALLB_RESPONSE__MOGENIUS_OPERATOR_SRC_CORE_RESULTMOGENIUS_OPERATOR_SRC_CORE_VOID_STRING
INSTALL_METALLB_RESPONSE__MOGENIUS_OPERATOR_SRC_CORE_RESULTMOGENIUS_OPERATOR_SRC_CORE_VOID_STRING == [name |-> <<"INSTALL_METALLB_RESPONSE__MOGENIUS_OPERATOR_SRC_CORE_RESULTMOGENIUS_OPERATOR_SRC_CORE_VOID_STRING">>, fields |-> <<<<"data", <<"string">>>>, <<"message", <<"string">>>>, <<"status", <<"string">>>>>>]

\* INSTALL_METRICS_SERVER_RESPONSE__MOGENIUS_OPERATOR_SRC_CORE_RESULTMOGENIUS_OPERATOR_SRC_CORE_VOID_STRING
INSTALL_METRICS_SERVER_RESPONSE__MOGENIUS_OPERATOR_SRC_CORE_RESULTMOGENIUS_OPERATOR_SRC_CORE_VOID_STRING == [name |-> <<"INSTALL_METRICS_SERVER_RESPONSE__MOGENIUS_OPERATOR_SRC_CORE_RESULTMOGENIUS_OPERATOR_SRC_CORE_VOID_STRING">>, fields |-> <<<<"data", <<"string">>>>, <<"message", <<"string">>>>, <<"status", <<"string">>>>>>]

\* LIST_ALL_RESOURCE_DESCRIPTORS_RESPONSE__MOGENIUS_OPERATOR_SRC_CORE_RESULTMOGENIUS_OPERATOR_SRC_CORE_VOID_MOGENIUS_OPERATOR_SRC_UTILS_RESOURCEDESCRIPTOR
LIST_ALL_RESOURCE_DESCRIPTORS_RESPONSE__MOGENIUS_OPERATOR_SRC_CORE_RESULTMOGENIUS_OPERATOR_SRC_CORE_VOID_MOGENIUS_OPERATOR_SRC_UTILS_RESOURCEDESCRIPTOR == [name |-> <<"LIST_ALL_RESOURCE_DESCRIPTORS_RESPONSE__MOGENIUS_OPERATOR_SRC_CORE_RESULTMOGENIUS_OPERATOR_SRC_CORE_VOID_MOGENIUS_OPERATOR_SRC_UTILS_RESOURCEDESCRIPTOR">>, fields |-> <<<<"data", <<"LIST_ALL_RESOURCE_DESCRIPTORS_RESPONSE__MOGENIUS_OPERATOR_SRC_UTILS_RESOURCEDESCRIPTOR", "[]">>>>, <<"message", <<"string">>>>, <<"status", <<"string">>>>>>]

\* LIST_ALL_RESOURCE_DESCRIPTORS_RESPONSE__MOGENIUS_OPERATOR_SRC_UTILS_RESOURCEDESCRIPTOR
LIST_ALL_RESOURCE_DESCRIPTORS_RESPONSE__MOGENIUS_OPERATOR_SRC_UTILS_RESOURCEDESCRIPTOR == [name |-> <<"LIST_ALL_RESOURCE_DESCRIPTORS_RESPONSE__MOGENIUS_OPERATOR_SRC_UTILS_RESOURCEDESCRIPTOR">>, fields |-> <<<<"apiVersion", <<"string">>>>, <<"kind", <<"string">>>>, <<"namespaced", <<"boolean">>>>, <<"plural", <<"string">>>>>>]

\* LIVE_STREAM_NODES_CPU_RESPONSE__ANON_STRUCT_1
LIVE_STREAM_NODES_CPU_RESPONSE__ANON_STRUCT_1 == [name |-> <<"LIVE_STREAM_NODES_CPU_RESPONSE__ANON_STRUCT_1">>, fields |-> <<>>]

\* LIVE_STREAM_NODES_CPU_RESPONSE__MOGENIUS_OPERATOR_SRC_CORE_RESULTMOGENIUS_OPERATOR_SRC_XTERM_WSCONNECTIONREQUEST_MOGENIUS_OPERATOR_SRC_CORE_VOID
LIVE_STREAM_NODES_CPU_RESPONSE__MOGENIUS_OPERATOR_SRC_CORE_RESULTMOGENIUS_OPERATOR_SRC_XTERM_WSCONNECTIONREQUEST_MOGENIUS_OPERATOR_SRC_CORE_VOID == [name |-> <<"LIVE_STREAM_NODES_CPU_RESPONSE__MOGENIUS_OPERATOR_SRC_CORE_RESULTMOGENIUS_OPERATOR_SRC_XTERM_WSCONNECTIONREQUEST_MOGENIUS_OPERATOR_SRC_CORE_VOID">>, fields |-> <<<<"data", <<"LIVE_STREAM_NODES_CPU_RESPONSE__ANON_STRUCT_1", "|", "undefined">>>>, <<"message", <<"string">>>>, <<"status", <<"string">>>>>>]

\* LIVE_STREAM_NODES_MEMORY_RESPONSE__ANON_STRUCT_1
LIVE_STREAM_NODES_MEMORY_RESPONSE__ANON_STRUCT_1 == [name |-> <<"LIVE_STREAM_NODES_MEMORY_RESPONSE__ANON_STRUCT_1">>, fields |-> <<>>]

\* LIVE_STREAM_NODES_MEMORY_RESPONSE__MOGENIUS_OPERATOR_SRC_CORE_RESULTMOGENIUS_OPERATOR_SRC_XTERM_WSCONNECTIONREQUEST_MOGENIUS_OPERATOR_SRC_CORE_VOID
LIVE_STREAM_NODES_MEMORY_RESPONSE__MOGENIUS_OPERATOR_SRC_CORE_RESULTMOGENIUS_OPERATOR_SRC_XTERM_WSCONNECTIONREQUEST_MOGENIUS_OPERATOR_SRC_CORE_VOID == [name |-> <<"LIVE_STREAM_NODES_MEMORY_RESPONSE__MOGENIUS_OPERATOR_SRC_CORE_RESULTMOGENIUS_OPERATOR_SRC_XTERM_WSCONNECTIONREQUEST_MOGENIUS_OPERATOR_SRC_CORE_VOID">>, fields |-> <<<<"data", <<"LIVE_STREAM_NODES_MEMORY_RESPONSE__ANON_STRUCT_1", "|", "undefined">>>>, <<"message", <<"string">>>>, <<"status", <<"string">>>>>>]

\* LIVE_STREAM_NODES_TRAFFIC_RESPONSE__ANON_STRUCT_1
LIVE_STREAM_NODES_TRAFFIC_RESPONSE__ANON_STRUCT_1 == [name |-> <<"LIVE_STREAM_NODES_TRAFFIC_RESPONSE__ANON_STRUCT_1">>, fields |-> <<>>]

\* LIVE_STREAM_NODES_TRAFFIC_RESPONSE__MOGENIUS_OPERATOR_SRC_CORE_RESULTMOGENIUS_OPERATOR_SRC_XTERM_WSCONNECTIONREQUEST_MOGENIUS_OPERATOR_SRC_CORE_VOID
LIVE_STREAM_NODES_TRAFFIC_RESPONSE__MOGENIUS_OPERATOR_SRC_CORE_RESULTMOGENIUS_OPERATOR_SRC_XTERM_WSCONNECTIONREQUEST_MOGENIUS_OPERATOR_SRC_CORE_VOID == [name |-> <<"LIVE_STREAM_NODES_TRAFFIC_RESPONSE__MOGENIUS_OPERATOR_SRC_CORE_RESULTMOGENIUS_OPERATOR_SRC_XTERM_WSCONNECTIONREQUEST_MOGENIUS_OPERATOR_SRC_CORE_VOID">>, fields |-> <<<<"data", <<"LIVE_STREAM_NODES_TRAFFIC_RESPONSE__ANON_STRUCT_1", "|", "undefined">>>>, <<"message", <<"string">>>>, <<"status", <<"string">>>>>>]

\* LIVE_STREAM_POD_CPU_RESPONSE__ANON_STRUCT_1
LIVE_STREAM_POD_CPU_RESPONSE__ANON_STRUCT_1 == [name |-> <<"LIVE_STREAM_POD_CPU_RESPONSE__ANON_STRUCT_1">>, fields |-> <<>>]

\* LIVE_STREAM_POD_CPU_RESPONSE__MOGENIUS_OPERATOR_SRC_CORE_RESULTMOGENIUS_OPERATOR_SRC_XTERM_WSCONNECTIONREQUEST_MOGENIUS_OPERATOR_SRC_CORE_VOID
LIVE_STREAM_POD_CPU_RESPONSE__MOGENIUS_OPERATOR_SRC_CORE_RESULTMOGENIUS_OPERATOR_SRC_XTERM_WSCONNECTIONREQUEST_MOGENIUS_OPERATOR_SRC_CORE_VOID == [name |-> <<"LIVE_STREAM_POD_CPU_RESPONSE__MOGENIUS_OPERATOR_SRC_CORE_RESULTMOGENIUS_OPERATOR_SRC_XTERM_WSCONNECTIONREQUEST_MOGENIUS_OPERATOR_SRC_CORE_VOID">>, fields |-> <<<<"data", <<"LIVE_STREAM_POD_CPU_RESPONSE__ANON_STRUCT_1", "|", "undefined">>>>, <<"message", <<"string">>>>, <<"status", <<"string">>>>>>]

\* LIVE_STREAM_POD_MEMORY_RESPONSE__ANON_STRUCT_1
LIVE_STREAM_POD_MEMORY_RESPONSE__ANON_STRUCT_1 == [name |-> <<"LIVE_STREAM_POD_MEMORY_RESPONSE__ANON_STRUCT_1">>, fields |-> <<>>]

\* LIVE_STREAM_POD_MEMORY_RESPONSE__MOGENIUS_OPERATOR_SRC_CORE_RESULTMOGENIUS_OPERATOR_SRC_XTERM_WSCONNECTIONREQUEST_MOGENIUS_OPERATOR_SRC_CORE_VOID
LIVE_STREAM_POD_MEMORY_RESPONSE__MOGENIUS_OPERATOR_SRC_CORE_RESULTMOGENIUS_OPERATOR_SRC_XTERM_WSCONNECTIONREQUEST_MOGENIUS_OPERATOR_SRC_CORE_VOID == [name |-> <<"LIVE_STREAM_POD_MEMORY_RESPONSE__MOGENIUS_OPERATOR_SRC_CORE_RESULTMOGENIUS_OPERATOR_SRC_XTERM_WSCONNECTIONREQUEST_MOGENIUS_OPERATOR_SRC_CORE_VOID">>, fields |-> <<<<"data", <<"LIVE_STREAM_POD_MEMORY_RESPONSE__ANON_STRUCT_1", "|", "undefined">>>>, <<"message", <<"string">>>>, <<"status", <<"string">>>>>>]

\* LIVE_STREAM_POD_TRAFFIC_RESPONSE__ANON_STRUCT_1
LIVE_STREAM_POD_TRAFFIC_RESPONSE__ANON_STRUCT_1 == [name |-> <<"LIVE_STREAM_POD_TRAFFIC_RESPONSE__ANON_STRUCT_1">>, fields |-> <<>>]

\* LIVE_STREAM_POD_TRAFFIC_RESPONSE__MOGENIUS_OPERATOR_SRC_CORE_RESULTMOGENIUS_OPERATOR_SRC_XTERM_WSCONNECTIONREQUEST_MOGENIUS_OPERATOR_SRC_CORE_VOID
LIVE_STREAM_POD_TRAFFIC_RESPONSE__MOGENIUS_OPERATOR_SRC_CORE_RESULTMOGENIUS_OPERATOR_SRC_XTERM_WSCONNECTIONREQUEST_MOGENIUS_OPERATOR_SRC_CORE_VOID == [name |-> <<"LIVE_STREAM_POD_TRAFFIC_RESPONSE__MOGENIUS_OPERATOR_SRC_CORE_RESULTMOGENIUS_OPERATOR_SRC_XTERM_WSCONNECTIONREQUEST_MOGENIUS_OPERATOR_SRC_CORE_VOID">>, fields |-> <<<<"data", <<"LIVE_STREAM_POD_TRAFFIC_RESPONSE__ANON_STRUCT_1", "|", "undefined">>>>, <<"message", <<"string">>>>, <<"status", <<"string">>>>>>]

\* LIVE_STREAM_WORKSPACE_CPU_RESPONSE__MOGENIUS_OPERATOR_SRC_CORE_RESULTMOGENIUS_OPERATOR_SRC_XTERM_WSCONNECTIONREQUEST_INTERFACE {}
LIVE_STREAM_WORKSPACE_CPU_RESPONSE__MOGENIUS_OPERATOR_SRC_CORE_RESULTMOGENIUS_OPERATOR_SRC_XTERM_WSCONNECTIONREQUEST_INTERFACE == [name |-> <<"LIVE_STREAM_WORKSPACE_CPU_RESPONSE__MOGENIUS_OPERATOR_SRC_CORE_RESULTMOGENIUS_OPERATOR_SRC_XTERM_WSCONNECTIONREQUEST_INTERFACE", "{", "}">>, fields |-> <<<<"data", <<"any">>>>, <<"message", <<"string">>>>, <<"status", <<"string">>>>>>]

\* LIVE_STREAM_WORKSPACE_MEMORY_RESPONSE__MOGENIUS_OPERATOR_SRC_CORE_RESULTMOGENIUS_OPERATOR_SRC_XTERM_WSCONNECTIONREQUEST_INTERFACE {}
LIVE_STREAM_WORKSPACE_MEMORY_RESPONSE__MOGENIUS_OPERATOR_SRC_CORE_RESULTMOGENIUS_OPERATOR_SRC_XTERM_WSCONNECTIONREQUEST_INTERFACE == [name |-> <<"LIVE_STREAM_WORKSPACE_MEMORY_RESPONSE__MOGENIUS_OPERATOR_SRC_CORE_RESULTMOGENIUS_OPERATOR_SRC_XTERM_WSCONNECTIONREQUEST_INTERFACE", "{", "}">>, fields |-> <<<<"data", <<"any">>>>, <<"message", <<"string">>>>, <<"status", <<"string">>>>>>]

\* LIVE_STREAM_WORKSPACE_TRAFFIC_RESPONSE__MOGENIUS_OPERATOR_SRC_CORE_RESULTMOGENIUS_OPERATOR_SRC_XTERM_WSCONNECTIONREQUEST_INTERFACE {}
LIVE_STREAM_WORKSPACE_TRAFFIC_RESPONSE__MOGENIUS_OPERATOR_SRC_CORE_RESULTMOGENIUS_OPERATOR_SRC_XTERM_WSCONNECTIONREQUEST_INTERFACE == [name |-> <<"LIVE_STREAM_WORKSPACE_TRAFFIC_RESPONSE__MOGENIUS_OPERATOR_SRC_CORE_RESULTMOGENIUS_OPERATOR_SRC_XTERM_WSCONNECTIONREQUEST_INTERFACE", "{", "}">>, fields |-> <<<<"data", <<"any">>>>, <<"message", <<"string">>>>, <<"status", <<"string">>>>>>]

\* PROMETHEUS_CHARTS_ADD_RESPONSE__MOGENIUS_OPERATOR_SRC_CORE_RESULTMOGENIUS_OPERATOR_SRC_CORE_PROMETHEUSREQUESTREDIS_STRING
PROMETHEUS_CHARTS_ADD_RESPONSE__MOGENIUS_OPERATOR_SRC_CORE_RESULTMOGENIUS_OPERATOR_SRC_CORE_PROMETHEUSREQUESTREDIS_STRING == [name |-> <<"PROMETHEUS_CHARTS_ADD_RESPONSE__MOGENIUS_OPERATOR_SRC_CORE_RESULTMOGENIUS_OPERATOR_SRC_CORE_PROMETHEUSREQUESTREDIS_STRING">>, fields |-> <<<<"data", <<"string", "|", "undefined">>>>, <<"message", <<"string">>>>, <<"status", <<"string">>>>>>]

\* PROMETHEUS_CHARTS_GET_RESPONSE__MOGENIUS_OPERATOR_SRC_CORE_PROMETHEUSSTOREOBJECT
PROMETHEUS_CHARTS_GET_RESPONSE__MOGENIUS_OPERATOR_SRC_CORE_PROMETHEUSSTOREOBJECT == [name |-> <<"PROMETHEUS_CHARTS_GET_RESPONSE__MOGENIUS_OPERATOR_SRC_CORE_PROMETHEUSSTOREOBJECT">>, fields |-> <<<<"createdAt", <<"PROMETHEUS_CHARTS_GET_RESPONSE__TIME_TIME">>>>, <<"query", <<"string">>>>, <<"step", <<"number">>>>>>]

\* PROMETHEUS_CHARTS_GET_RESPONSE__MOGENIUS_OPERATOR_SRC_CORE_RESULTMOGENIUS_OPERATOR_SRC_CORE_PROMETHEUSREQUESTREDIS_MOGENIUS_OPERATOR_SRC_CORE_PROMETHEUSSTOREOBJECT
PROMETHEUS_CHARTS_GET_RESPONSE__MOGENIUS_OPERATOR_SRC_CORE_RESULTMOGENIUS_OPERATOR_SRC_CORE_PROMETHEUSREQUESTREDIS_MOGENIUS_OPERATOR_SRC_CORE_PROMETHEUSSTOREOBJECT == [name |-> <<"PROMETHEUS_CHARTS_GET_RESPONSE__MOGENIUS_OPERATOR_SRC_CORE_RESULTMOGENIUS_OPERATOR_SRC_CORE_PROMETHEUSREQUESTREDIS_MOGENIUS_OPERATOR_SRC_CORE_PROMETHEUSSTOREOBJECT">>, fields |-> <<<<"data", <<"PROMETHEUS_CHARTS_GET_RESPONSE__MOGENIUS_OPERATOR_SRC_CORE_PROMETHEUSSTOREOBJECT", "|", "undefined">>>>, <<"message", <<"string">>>>, <<"status", <<"string">>>>>>]

\* PROMETHEUS_CHARTS_GET_RESPONSE__TIME_TIME
PROMETHEUS_CHARTS_GET_RESPONSE__TIME_TIME == [name |-> <<"PROMETHEUS_CHARTS_GET_RESPONSE__TIME_TIME">>, fields |-> <<>>]

\* PROMETHEUS_CHARTS_LIST_RESPONSE__MOGENIUS_OPERATOR_SRC_CORE_PROMETHEUSSTOREOBJECT
PROMETHEUS_CHARTS_LIST_RESPONSE__MOGENIUS_OPERATOR_SRC_CORE_PROMETHEUSSTOREOBJECT == [name |-> <<"PROMETHEUS_CHARTS_LIST_RESPONSE__MOGENIUS_OPERATOR_SRC_CORE_PROMETHEUSSTOREOBJECT">>, fields |-> <<<<"createdAt", <<"PROMETHEUS_CHARTS_LIST_RESPONSE__TIME_TIME">>>>, <<"query", <<"string">>>>, <<"step", <<"number">>>>>>]

\* PROMETHEUS_CHARTS_LIST_RESPONSE__MOGENIUS_OPERATOR_SRC_CORE_RESULTMOGENIUS_OPERATOR_SRC_CORE_PROMETHEUSREQUESTREDISLIST_MAPSTRINGMOGENIUS_OPERATOR_SRC_CORE_PROMETHEUSSTOREOBJECT
PROMETHEUS_CHARTS_LIST_RESPONSE__MOGENIUS_OPERATOR_SRC_CORE_RESULTMOGENIUS_OPERATOR_SRC_CORE_PROMETHEUSREQUESTREDISLIST_MAPSTRINGMOGENIUS_OPERATOR_SRC_CORE_PROMETHEUSSTOREOBJECT == [name |-> <<"PROMETHEUS_CHARTS_LIST_RESPONSE__MOGENIUS_OPERATOR_SRC_CORE_RESULTMOGENIUS_OPERATOR_SRC_CORE_PROMETHEUSREQUESTREDISLIST_MAPSTRINGMOGENIUS_OPERATOR_SRC_CORE_PROMETHEUSSTOREOBJECT">>, fields |-> <<<<"data", <<"Record", "<", "string", ",", "PROMETHEUS_CHARTS_LIST_RESPONSE__MOGENIUS_OPERATOR_SRC_CORE_PROMETHEUSSTOREOBJECT", ">">>>>, <<"message", <<"string">>>>, <<"status", <<"string">>>>>>]

\* PROMETHEUS_CHARTS_LIST_RESPONSE__TIME_TIME
PROMETHEUS_CHARTS_LIST_RESPONSE__TIME_TIME == [name |-> <<"PROMETHEUS_CHARTS_LIST_RESPONSE__TIME_TIME">>, fields |-> <<>>]

\* PROMETHEUS_CHARTS_REMOVE_RESPONSE__MOGENIUS_OPERATOR_SRC_CORE_RESULTMOGENIUS_OPERATOR_SRC_CORE_PROMETHEUSREQUESTREDIS_STRING
PROMETHEUS_CHARTS_REMOVE_RESPONSE__MOGENIUS_OPERATOR_SRC_CORE_RESULTMOGENIUS_OPERATOR_SRC_CORE_PROMETHEUSREQUESTREDIS_STRING == [name |-> <<"PROMETHEUS_CHARTS_REMOVE_RESPONSE__MOGENIUS_OPERATOR_SRC_CORE_RESULTMOGENIUS_OPERATOR_SRC_CORE_PROMETHEUSREQUESTREDIS_STRING">>, fields |-> <<<<"data", <<"string", "|", "undefined">>>>, <<"message", <<"string">>>>, <<"status", <<"string">>>>>>]

\* PROMETHEUS_IS_REACHABLE_RESPONSE__MOGENIUS_OPERATOR_SRC_CORE_RESULTMOGENIUS_OPERATOR_SRC_CORE_PROMETHEUSREQUEST_BOOL
PROMETHEUS_IS_REACHABLE_RESPONSE__MOGENIUS_OPERATOR_SRC_CORE_RESULTMOGENIUS_OPERATOR_SRC_CORE_PROMETHEUSREQUEST_BOOL == [name |-> <<"PROMETHEUS_IS_REACHABLE_RESPONSE__MOGENIUS_OPERATOR_SRC_CORE_RESULTMOGENIUS_OPERATOR_SRC_CORE_PROMETHEUSREQUEST_BOOL">>, fields |-> <<<<"data", <<"boolean">>>>, <<"message", <<"string">>>>, <<"status", <<"string">>>>>>]

\* PROMETHEUS_QUERY_RESPONSE__ANON_STRUCT_2
PROMETHEUS_QUERY_RESPONSE__ANON_STRUCT_2 == [name |-> <<"PROMETHEUS_QUERY_RESPONSE__ANON_STRUCT_2">>, fields |-> <<<<"result", <<"any", "[]">>>>, <<"resultType", <<"string">>>>>>]

\* PROMETHEUS_QUERY_RESPONSE__MOGENIUS_OPERATOR_SRC_CORE_PROMETHEUSQUERYRESPONSE
PROMETHEUS_QUERY_RESPONSE__MOGENIUS_OPERATOR_SRC_CORE_PROMETHEUSQUERYRESPONSE == [name |-> <<"PROMETHEUS_QUERY_RESPONSE__MOGENIUS_OPERATOR_SRC_CORE_PROMETHEUSQUERYRESPONSE">>, fields |-> <<<<"data", <<"PROMETHEUS_QUERY_RESPONSE__ANON_STRUCT_2">>>>, <<"error", <<"string">>>>, <<"errorType", <<"string">>>>, <<"status", <<"string">>>>>>]

\* PROMETHEUS_QUERY_RESPONSE__MOGENIUS_OPERATOR_SRC_CORE_RESULTMOGENIUS_OPERATOR_SRC_CORE_PROMETHEUSREQUEST_MOGENIUS_OPERATOR_SRC_CORE_PROMETHEUSQUERYRESPONSE
PROMETHEUS_QUERY_RESPONSE__MOGENIUS_OPERATOR_SRC_CORE_RESULTMOGENIUS_OPERATOR_SRC_CORE_PROMETHEUSREQUEST_MOGENIUS_OPERATOR_SRC_CORE_PROMETHEUSQUERYRESPONSE == [name |-> <<"PROMETHEUS_QUERY_RESPONSE__MOGENIUS_OPERATOR_SRC_CORE_RESULTMOGENIUS_OPERATOR_SRC_CORE_PROMETHEUSREQUEST_MOGENIUS_OPERATOR_SRC_CORE_PROMETHEUSQUERYRESPONSE">>, fields |-> <<<<"data", <<"PROMETHEUS_QUERY_RESPONSE__MOGENIUS_OPERATOR_SRC_CORE_PROMETHEUSQUERYRESPONSE", "|", "undefined">>>>, <<"message", <<"string">>>>, <<"status", <<"string">>>>>>]

\* PROMETHEUS_VALUES_RESPONSE__MOGENIUS_OPERATOR_SRC_CORE_RESULTMOGENIUS_OPERATOR_SRC_CORE_PROMETHEUSREQUEST_STRING
PROMETHEUS_VALUES_RESPONSE__MOGENIUS_OPERATOR_SRC_CORE_RESULTMOGENIUS_OPERATOR_SRC_CORE_PROMETHEUSREQUEST_STRING == [name |-> <<"PROMETHEUS_VALUES_RESPONSE__MOGENIUS_OPERATOR_SRC_CORE_RESULTMOGENIUS_OPERATOR_SRC_CORE_PROMETHEUSREQUEST_STRING">>, fields |-> <<<<"data", <<"string", "[]">>>>, <<"message", <<"string">>>>, <<"status", <<"string">>>>>>]

\* SEALED_SECRET_CREATE_FROM_EXISTING_RESPONSE__K8S_IO_APIMACHINERY_PKG_APIS_META_V1_UNSTRUCTURED_UNSTRUCTURED
SEALED_SECRET_CREATE_FROM_EXISTING_RESPONSE__K8S_IO_APIMACHINERY_PKG_APIS_META_V1_UNSTRUCTURED_UNSTRUCTURED == [name |-> <<"SEALED_SECRET_CREATE_FROM_EXISTING_RESPONSE__K8S_IO_APIMACHINERY_PKG_APIS_META_V1_UNSTRUCTURED_UNSTRUCTURED">>, fields |-> <<<<"Object", <<"Record", "<", "string", ",", "any", ">">>>>>>]

\* SEALED_SECRET_CREATE_FROM_EXISTING_RESPONSE__MOGENIUS_OPERATOR_SRC_CORE_RESULTMOGENIUS_OPERATOR_SRC_CORE_REQUEST36_K8S_IO_APIMACHINERY_PKG_APIS_META_V1_UNSTRUCTURED_UNSTRUCTURED
SEALED_SECRET_CREATE_FROM_EXISTING_RESPONSE__MOGENIUS_OPERATOR_SRC_CORE_RESULTMOGENIUS_OPERATOR_SRC_CORE_REQUEST36_K8S_IO_APIMACHINERY_PKG_APIS_META_V1_UNSTRUCTURED_UNSTRUCTURED == [name |-> <<"SEALED_SECRET_CREATE_FROM_EXISTING_RESPONSE__MOGENIUS_OPERATOR_SRC_CORE_RESULTMOGENIUS_OPERATOR_SRC_CORE_REQUEST36_K8S_IO_APIMACHINERY_PKG_APIS_META_V1_UNSTRUCTURED_UNSTRUCTURED">>, fields |-> <<<<"data", <<"SEALED_SECRET_CREATE_FROM_EXISTING_RESPONSE__K8S_IO_APIMACHINERY_PKG_APIS_META_V1_UNSTRUCTURED_UNSTRUCTURED", "|", "undefined">>>>, <<"message", <<"string">>>>, <<"status", <<"string">>>>>>]

\* SEALED_SECRET_GET_CERTIFICATE_RESPONSE__K8S_IO_API_CORE_V1_SECRET
SEALED_SECRET_GET_CERTIFICATE_RESPONSE__K8S_IO_API_CORE_V1_SECRET == [name |-> <<"SEALED_SECRET_GET_CERTIFICATE_RESPONSE__K8S_IO_API_CORE_V1_SECRET">>, fields |-> <<<<"TypeMeta", <<"SEALED_SECRET_GET_CERTIFICATE_RESPONSE__K8S_IO_APIMACHINERY_PKG_APIS_META_V1_TYPEMETA">>>>, <<"data", <<"Record", "<", "string", ",", "number", "[]", ">">>>>, <<"immutable", <<"boolean", "|", "undefined">>>>, <<"metadata", <<"SEALED_SECRET_GET_CERTIFICATE_RESPONSE__K8S_IO_APIMACHINERY_PKG_APIS_META_V1_OBJECTMETA">>>>, <<"stringData", <<"Record", "<", "string", ",", "string", ">">>>>, <<"type", <<"string">>>>>>]

\* SEALED_SECRET_GET_CERTIFICATE_RESPONSE__K8S_IO_APIMACHINERY_PKG_APIS_META_V1_FIELDSV1
SEALED_SECRET_GET_CERTIFICATE_RESPONSE__K8S_IO_APIMACHINERY_PKG_APIS_META_V1_FIELDSV1 == [name |-> <<"SEALED_SECRET_GET_CERTIFICATE_RESPONSE__K8S_IO_APIMACHINERY_PKG_APIS_META_V1_FIELDSV1">>, fields |-> <<>>]

\* SEALED_SECRET_GET_CERTIFICATE_RESPONSE__K8S_IO_APIMACHINERY_PKG_APIS_META_V1_MANAGEDFIELDSENTRY
SEALED_SECRET_GET_CERTIFICATE_RESPONSE__K8S_IO_APIMACHINERY_PKG_APIS_META_V1_MANAGEDFIELDSENTRY == [name |-> <<"SEALED_SECRET_GET_CERTIFICATE_RESPONSE__K8S_IO_APIMACHINERY_PKG_APIS_META_V1_MANAGEDFIELDSENTRY">>, fields |-> <<<<"apiVersion", <<"string">>>>, <<"fieldsType", <<"string">>>>, <<"fieldsV1", <<"SEALED_SECRET_GET_CERTIFICATE_RESPONSE__K8S_IO_APIMACHINERY_PKG_APIS_META_V1_FIELDSV1", "|", "undefined">>>>, <<"manager", <<"string">>>>, <<"operation", <<"string">>>>, <<"subresource", <<"string">>>>, <<"time", <<"SEALED_SECRET_GET_CERTIFICATE_RESPONSE__K8S_IO_APIMACHINERY_PKG_APIS_META_V1_TIME", "|", "undefined">>>>>>]

\* SEALED_SECRET_GET_CERTIFICATE_RESPONSE__K8S_IO_APIMACHINERY_PKG_APIS_META_V1_OBJECTMETA
SEALED_SECRET_GET_CERTIFICATE_RESPONSE__K8S_IO_APIMACHINERY_PKG_APIS_META_V1_OBJECTMETA == [name |-> <<"SEALED_SECRET_GET_CERTIFICATE_RESPONSE__K8S_IO_APIMACHINERY_PKG_APIS_META_V1_OBJECTMETA">>, fields |-> <<<<"annotations", <<"Record", "<", "string", ",", "string", ">">>>>, <<"creationTimestamp", <<"SEALED_SECRET_GET_CERTIFICATE_RESPONSE__K8S_IO_APIMACHINERY_PKG_APIS_META_V1_TIME">>>>, <<"deletionGracePeriodSeconds", <<"number", "|", "undefined">>>>, <<"deletionTimestamp", <<"SEALED_SECRET_GET_CERTIFICATE_RESPONSE__K8S_IO_APIMACHINERY_PKG_APIS_META_V1_TIME", "|", "undefined">>>>, <<"finalizers", <<"string", "[]">>>>, <<"generateName", <<"string">>>>, <<"generation", <<"number">>>>, <<"labels", <<"Record", "<", "string", ",", "string", ">">>>>, <<"managedFields", <<"SEALED_SECRET_GET_CERTIFICATE_RESPONSE__K8S_IO_APIMACHINERY_PKG_APIS_META_V1_MANAGEDFIELDSENTRY", "[]">>>>, <<"name", <<"string">>>>, <<"namespace", <<"string">>>>, <<"ownerReferences", <<"SEALED_SECRET_GET_CERTIFICATE_RESPONSE__K8S_IO_APIMACHINERY_PKG_APIS_META_V1_OWNERREFERENCE", "[]">>>>, <<"resourceVersion", <<"string">>>>, <<"selfLink", <<"string">>>>, <<"uid", <<"string">>>>>>]

\* SEALED_SECRET_GET_CERTIFICATE_RESPONSE__K8S_IO_APIMACHINERY_PKG_APIS_META_V1_OWNERREFERENCE
SEALED_SECRET_GET_CERTIFICATE_RESPONSE__K8S_IO_APIMACHINERY_PKG_APIS_META_V1_OWNERREFERENCE == [name |-> <<"SEALED_SECRET_GET_CERTIFICATE_RESPONSE__K8S_IO_APIMACHINERY_PKG_APIS_META_V1_OWNERREFERENCE">>, fields |-> <<<<"apiVersion", <<"string">>>>, <<"blockOwnerDeletion", <<"boolean", "|", "undefined">>>>, <<"controller", <<"boolean", "|", "undefined">>>>, <<"kind", <<"string">>>>, <<"name", <<"string">>>>, <<"uid", <<"string">>>>>>]

\* SEALED_SECRET_GET_CERTIFICATE_RESPONSE__K8S_IO_APIMACHINERY_PKG_APIS_META_V1_TIME
SEALED_SECRET_GET_CERTIFICATE_RESPONSE__K8S_IO_APIMACHINERY_PKG_APIS_META_V1_TIME == [name |-> <<"SEALED_SECRET_GET_CERTIFICATE_RESPONSE__K8S_IO_APIMACHINERY_PKG_APIS_META_V1_TIME">>, fields |-> <<<<"Time", <<"SEALED_SECRET_GET_CERTIFICATE_RESPONSE__TIME_TIME">>>>>>]

\* SEALED_SECRET_GET_CERTIFICATE_RESPONSE__K8S_IO_APIMACHINERY_PKG_APIS_META_V1_TYPEMETA
SEALED_SECRET_GET_CERTIFICATE_RESPONSE__K8S_IO_APIMACHINERY_PKG_APIS_META_V1_TYPEMETA == [name |-> <<"SEALED_SECRET_GET_CERTIFICATE_RESPONSE__K8S_IO_APIMACHINERY_PKG_APIS_META_V1_TYPEMETA">>, fields |-> <<<<"apiVersion", <<"string">>>>, <<"kind", <<"string">>>>>>]

\* SEALED_SECRET_GET_CERTIFICATE_RESPONSE__MOGENIUS_OPERATOR_SRC_CORE_RESULTMOGENIUS_OPERATOR_SRC_CORE_VOID_K8S_IO_API_CORE_V1_SECRET
SEALED_SECRET_GET_CERTIFICATE_RESPONSE__MOGENIUS_OPERATOR_SRC_CORE_RESULTMOGENIUS_OPERATOR_SRC_CORE_VOID_K8S_IO_API_CORE_V1_SECRET == [name |-> <<"SEALED_SECRET_GET_CERTIFICATE_RESPONSE__MOGENIUS_OPERATOR_SRC_CORE_RESULTMOGENIUS_OPERATOR_SRC_CORE_VOID_K8S_IO_API_CORE_V1_SECRET">>, fields |-> <<<<"data", <<"SEALED_SECRET_GET_CERTIFICATE_RESPONSE__K8S_IO_API_CORE_V1_SECRET", "|", "undefined">>>>, <<"message", <<"string">>>>, <<"status", <<"string">>>>>>]

\* SEALED_SECRET_GET_CERTIFICATE_RESPONSE__TIME_TIME
SEALED_SECRET_GET_CERTIFICATE_RESPONSE__TIME_TIME == [name |-> <<"SEALED_SECRET_GET_CERTIFICATE_RESPONSE__TIME_TIME">>, fields |-> <<>>]

\* SERVICE_EXEC_SH_CONNECTION_REQUEST_RESPONSE__ANON_STRUCT_1
SERVICE_EXEC_SH_CONNECTION_REQUEST_RESPONSE__ANON_STRUCT_1 == [name |-> <<"SERVICE_EXEC_SH_CONNECTION_REQUEST_RESPONSE__ANON_STRUCT_1">>, fields |-> <<>>]

\* SERVICE_EXEC_SH_CONNECTION_REQUEST_RESPONSE__MOGENIUS_OPERATOR_SRC_CORE_RESULTMOGENIUS_OPERATOR_SRC_XTERM_PODCMDCONNECTIONREQUEST_MOGENIUS_OPERATOR_SRC_CORE_VOID
SERVICE_EXEC_SH_CONNECTION_REQUEST_RESPONSE__MOGENIUS_OPERATOR_SRC_CORE_RESULTMOGENIUS_OPERATOR_SRC_XTERM_PODCMDCONNECTIONREQUEST_MOGENIUS_OPERATOR_SRC_CORE_VOID == [name |-> <<"SERVICE_EXEC_SH_CONNECTION_REQUEST_RESPONSE__MOGENIUS_OPERATOR_SRC_CORE_RESULTMOGENIUS_OPERATOR_SRC_XTERM_PODCMDCONNECTIONREQUEST_MOGENIUS_OPERATOR_SRC_CORE_VOID">>, fields |-> <<<<"data", <<"SERVICE_EXEC_SH_CONNECTION_REQUEST_RESPONSE__ANON_STRUCT_1", "|", "undefined">>>>, <<"message", <<"string">>>>, <<"status", <<"string">>>>>>]

\* SERVICE_LOG_STREAM_CONNECTION_REQUEST_RESPONSE__ANON_STRUCT_1
SERVICE_LOG_STREAM_CONNECTION_REQUEST_RESPONSE__ANON_STRUCT_1 == [name |-> <<"SERVICE_LOG_STREAM_CONNECTION_REQUEST_RESPONSE__ANON_STRUCT_1">>, fields |-> <<>>]

\* SERVICE_LOG_STREAM_CONNECTION_REQUEST_RESPONSE__MOGENIUS_OPERATOR_SRC_CORE_RESULTMOGENIUS_OPERATOR_SRC_XTERM_PODCMDCONNECTIONREQUEST_MOGENIUS_OPERATOR_SRC_CORE_VOID
SERVICE_LOG_STREAM_CONNECTION_REQUEST_RESPONSE__MOGENIUS_OPERATOR_SRC_CORE_RESULTMOGENIUS_OPERATOR_SRC_XTERM_PODCMDCONNECTIONREQUEST_MOGENIUS_OPERATOR_SRC_CORE_VOID == [name |-> <<"SERVICE_LOG_STREAM_CONNECTION_REQUEST_RESPONSE__MOGENIUS_OPERATOR_SRC_CORE_RESULTMOGENIUS_OPERATOR_SRC_XTERM_PODCMDCONNECTIONREQUEST_MOGENIUS_OPERATOR_SRC_CORE_VOID">>, fields |-> <<<<"data", <<"SERVICE_LOG_STREAM_CONNECTION_REQUEST_RESPONSE__ANON_STRUCT_1", "|", "undefined">>>>, <<"message", <<"string">>>>, <<"status", <<"string">>>>>>]

\* SERVICE_POD_EVENT_STREAM_CONNECTION_REQUEST_RESPONSE__ANON_STRUCT_1
SERVICE_POD_EVENT_STREAM_CONNECTION_REQUEST_RESPONSE__ANON_STRUCT_1 == [name |-> <<"SERVICE_POD_EVENT_STREAM_CONNECTION_REQUEST_RESPONSE__ANON_STRUCT_1">>, fields |-> <<>>]

\* SERVICE_POD_EVENT_STREAM_CONNECTION_REQUEST_RESPONSE__MOGENIUS_OPERATOR_SRC_CORE_RESULTMOGENIUS_OPERATOR_SRC_XTERM_PODEVENTCONNECTIONREQUEST_MOGENIUS_OPERATOR_SRC_CORE_VOID
SERVICE_POD_EVENT_STREAM_CONNECTION_REQUEST_RESPONSE__MOGENIUS_OPERATOR_SRC_CORE_RESULTMOGENIUS_OPERATOR_SRC_XTERM_PODEVENTCONNECTIONREQUEST_MOGENIUS_OPERATOR_SRC_CORE_VOID == [name |-> <<"SERVICE_POD_EVENT_STREAM_CONNECTION_REQUEST_RESPONSE__MOGENIUS_OPERATOR_SRC_CORE_RESULTMOGENIUS_OPERATOR_SRC_XTERM_PODEVENTCONNECTIONREQUEST_MOGENIUS_OPERATOR_SRC_CORE_VOID">>, fields |-> <<<<"data", <<"SERVICE_POD_EVENT_STREAM_CONNECTION_REQUEST_RESPONSE__ANON_STRUCT_1", "|", "undefined">>>>, <<"message", <<"string">>>>, <<"status", <<"string">>>>>>]

\* STATS_POD_ALL_FOR_CONTROLLER_RESPONSE__MOGENIUS_OPERATOR_SRC_CORE_RESULTMOGENIUS_OPERATOR_SRC_CORE_REQUEST7_MOGENIUS_OPERATOR_SRC_STRUCTS_PODSTATS
STATS_POD_ALL_FOR_CONTROLLER_RESPONSE__MOGENIUS_OPERATOR_SRC_CORE_RESULTMOGENIUS_OPERATOR_SRC_CORE_REQUEST7_MOGENIUS_OPERATOR_SRC_STRUCTS_PODSTATS == [name |-> <<"STATS_POD_ALL_FOR_CONTROLLER_RESPONSE__MOGENIUS_OPERATOR_SRC_CORE_RESULTMOGENIUS_OPERATOR_SRC_CORE_REQUEST7_MOGENIUS_OPERATOR_SRC_STRUCTS_PODSTATS">>, fields |-> <<<<"data", <<"STATS_POD_ALL_FOR_CONTROLLER_RESPONSE__MOGENIUS_OPERATOR_SRC_STRUCTS_PODSTATS", "[]", "|", "undefined">>>>, <<"message", <<"string">>>>, <<"status", <<"string">>>>>>]

\* STATS_POD_ALL_FOR_CONTROLLER_RESPONSE__MOGENIUS_OPERATOR_SRC_STRUCTS_PODSTATS
STATS_POD_ALL_FOR_CONTROLLER_RESPONSE__MOGENIUS_OPERATOR_SRC_STRUCTS_PODSTATS == [name |-> <<"STATS_POD_ALL_FOR_CONTROLLER_RESPONSE__MOGENIUS_OPERATOR_SRC_STRUCTS_PODSTATS">>, fields |-> <<<<"containerName", <<"string">>>>, <<"cpu", <<"number">>>>, <<"cpuLimit", <<"number">>>>, <<"createdAt", <<"STATS_POD_ALL_FOR_CONTROLLER_RESPONSE__TIME_TIME">>>>, <<"ephemeralStorage", <<"number">>>>, <<"ephemeralStorageLimit", <<"number">>>>, <<"memory", <<"number">>>>, <<"memoryLimit", <<"number">>>>, <<"namespace", <<"string">>>>, <<"podName", <<"string">>>>, <<"startTime", <<"STATS_POD_ALL_FOR_CONTROLLER_RESPONSE__TIME_TIME">>>>>>]

\* STATS_POD_ALL_FOR_CONTROLLER_RESPONSE__TIME_TIME
STATS_POD_ALL_FOR_CONTROLLER_RESPONSE__TIME_TIME == [name |-> <<"STATS_POD_ALL_FOR_CONTROLLER_RESPONSE__TIME_TIME">>, fields |-> <<>>]

\* STATS_TRAFFIC_ALL_FOR_CONTROLLER_RESPONSE__MOGENIUS_OPERATOR_SRC_CORE_RESULTMOGENIUS_OPERATOR_SRC_CORE_REQUEST7_MOGENIUS_OPERATOR_SRC_NETWORKMONITOR_PODNETWORKSTATS
STATS_TRAFFIC_ALL_FOR_CONTROLLER_RESPONSE__MOGENIUS_OPERATOR_SRC_CORE_RESULTMOGENIUS_OPERATOR_SRC_CORE_REQUEST7_MOGENIUS_OPERATOR_SRC_NETWORKMONITOR_PODNETWORKSTATS == [name |-> <<"STATS_TRAFFIC_ALL_FOR_CONTROLLER_RESPONSE__MOGENIUS_OPERATOR_SRC_CORE_RESULTMOGENIUS_OPERATOR_SRC_CORE_REQUEST7_MOGENIUS_OPERATOR_SRC_NETWORKMONITOR_PODNETWORKSTATS">>, fields |-> <<<<"data", <<"STATS_TRAFFIC_ALL_FOR_CONTROLLER_RESPONSE__MOGENIUS_OPERATOR_SRC_NETWORKMONITOR_PODNETWORKSTATS", "[]", "|", "undefined">>>>, <<"message", <<"string">>>>, <<"status", <<"string">>>>>>]

\* STATS_TRAFFIC_ALL_FOR_CONTROLLER_RESPONSE__MOGENIUS_OPERATOR_SRC_NETWORKMONITOR_PODNETWORKSTATS
STATS_TRAFFIC_ALL_FOR_CONTROLLER_RESPONSE__MOGENIUS_OPERATOR_SRC_NETWORKMONITOR_PODNETWORKSTATS == [name |-> <<"STATS_TRAFFIC_ALL_FOR_CONTROLLER_RESPONSE__MOGENIUS_OPERATOR_SRC_NETWORKMONITOR_PODNETWORKSTATS">>, fields |-> <<<<"createdAt", <<"STATS_TRAFFIC_ALL_FOR_CONTROLLER_RESPONSE__TIME_TIME">>>>, <<"namespace", <<"string">>>>, <<"pod", <<"string">>>>, <<"receivedBytes", <<"number">>>>, <<"receivedPackets", <<"number">>>>, <<"receivedStartBytes", <<"number">>>>, <<"transmitBytes", <<"number">>>>, <<"transmitPackets", <<"number">>>>, <<"transmitStartBytes", <<"number">>>>>>]

\* STATS_TRAFFIC_ALL_FOR_CONTROLLER_RESPONSE__TIME_TIME
STATS_TRAFFIC_ALL_FOR_CONTROLLER_RESPONSE__TIME_TIME == [name |-> <<"STATS_TRAFFIC_ALL_FOR_CONTROLLER_RESPONSE__TIME_TIME">>, fields |-> <<>>]

\* STATS_WORKSPACE_CPU_UTILIZATION_RESPONSE__MOGENIUS_OPERATOR_SRC_CORE_GENERICCHARTENTRY
STATS_WORKSPACE_CPU_UTILIZATION_RESPONSE__MOGENIUS_OPERATOR_SRC_CORE_GENERICCHARTENTRY == [name |-> <<"STATS_WORKSPACE_CPU_UTILIZATION_RESPONSE__MOGENIUS_OPERATOR_SRC_CORE_GENERICCHARTENTRY">>, fields |-> <<<<"pods", <<"Record", "<", "string", ",", "number", ">">>>>, <<"time", <<"STATS_WORKSPACE_CPU_UTILIZATION_RESPONSE__TIME_TIME">>>>, <<"value", <<"number">>>>>>]

\* STATS_WORKSPACE_CPU_UTILIZATION_RESPONSE__MOGENIUS_OPERATOR_SRC_CORE_RESULTMOGENIUS_OPERATOR_SRC_CORE_REQUEST8_MOGENIUS_OPERATOR_SRC_CORE_GENERICCHARTENTRY
STATS_WORKSPACE_CPU_UTILIZATION_RESPONSE__MOGENIUS_OPERATOR_SRC_CORE_RESULTMOGENIUS_OPERATOR_SRC_CORE_REQUEST8_MOGENIUS_OPERATOR_SRC_CORE_GENERICCHARTENTRY == [name |-> <<"STATS_WORKSPACE_CPU_UTILIZATION_RESPONSE__MOGENIUS_OPERATOR_SRC_CORE_RESULTMOGENIUS_OPERATOR_SRC_CORE_REQUEST8_MOGENIUS_OPERATOR_SRC_CORE_GENERICCHARTENTRY">>, fields |-> <<<<"data", <<"STATS_WORKSPACE_CPU_UTILIZATION_RESPONSE__MOGENIUS_OPERATOR_SRC_CORE_GENERICCHARTENTRY", "[]">>>>, <<"message", <<"string">>>>, <<"status", <<"string">>>>>>]

\* STATS_WORKSPACE_CPU_UTILIZATION_RESPONSE__TIME_TIME
STATS_WORKSPACE_CPU_UTILIZATION_RESPONSE__TIME_TIME == [name |-> <<"STATS_WORKSPACE_CPU_UTILIZATION_RESPONSE__TIME_TIME">>, fields |-> <<>>]

\* STATS_WORKSPACE_MEMORY_UTILIZATION_RESPONSE__MOGENIUS_OPERATOR_SRC_CORE_GENERICCHARTENTRY
STATS_WORKSPACE_MEMORY_UTILIZATION_RESPONSE__MOGENIUS_OPERATOR_SRC_CORE_GENERICCHARTENTRY == [name |-> <<"STATS_WORKSPACE_MEMORY_UTILIZATION_RESPONSE__MOGENIUS_OPERATOR_SRC_CORE_GENERICCHARTENTRY">>, fields |-> <<<<"pods", <<"Record", "<", "string", ",", "number", ">">>>>, <<"time", <<"STATS_WORKSPACE_MEMORY_UTILIZATION_RESPONSE__TIME_TIME">>>>, <<"value", <<"number">>>>>>]

\* STATS_WORKSPACE_MEMORY_UTILIZATION_RESPONSE__MOGENIUS_OPERATOR_SRC_CORE_RESULTMOGENIUS_OPERATOR_SRC_CORE_REQUEST8_MOGENIUS_OPERATOR_SRC_CORE_GENERICCHARTENTRY
STATS_WORKSPACE_MEMORY_UTILIZATION_RESPONSE__MOGENIUS_OPERATOR_SRC_CORE_RESULTMOGENIUS_OPERATOR_SRC_CORE_REQUEST8_MOGENIUS_OPERATOR_SRC_CORE_GENERICCHARTENTRY == [name |-> <<"STATS_WORKSPACE_MEMORY_UTILIZATION_RESPONSE__MOGENIUS_OPERATOR_SRC_CORE_RESULTMOGENIUS_OPERATOR_SRC_CORE_REQUEST8_MOGENIUS_OPERATOR_SRC_CORE_GENERICCHARTENTRY">>, fields |-> <<<<"data", <<"STATS_WORKSPACE_MEMORY_UTILIZATION_RESPONSE__MOGENIUS_OPERATOR_SRC_CORE_GENERICCHARTENTRY", "[]">>>>, <<"message", <<"string">>>>, <<"status", <<"string">>>>>>]

\* STATS_WORKSPACE_MEMORY_UTILIZATION_RESPONSE__TIME_TIME
STATS_WORKSPACE_MEMORY_UTILIZATION_RESPONSE__TIME_TIME == [name |-> <<"STATS_WORKSPACE_MEMORY_UTILIZATION_RESPONSE__TIME_TIME">>, fields |-> <<>>]

\* STATS_WORKSPACE_TRAFFIC_UTILIZATION_RESPONSE__MOGENIUS_OPERATOR_SRC_CORE_GENERICCHARTENTRY
STATS_WORKSPACE_TRAFFIC_UTILIZATION_RESPONSE__MOGENIUS_OPERATOR_SRC_CORE_GENERICCHARTENTRY == [name |-> <<"STATS_WORKSPACE_TRAFFIC_UTILIZATION_RESPONSE__MOGENIUS_OPERATOR_SRC_CORE_GENERICCHARTENTRY">>, fields |-> <<<<"pods", <<"Record", "<", "string", ",", "number", ">">>>>, <<"time", <<"STATS_WORKSPACE_TRAFFIC_UTILIZATION_RESPONSE__TIME_TIME">>>>, <<"value", <<"number">>>>>>]

\* STATS_WORKSPACE_TRAFFIC_UTILIZATION_RESPONSE__MOGENIUS_OPERATOR_SRC_CORE_RESULTMOGENIUS_OPERATOR_SRC_CORE_REQUEST8_MOGENIUS_OPERATOR_SRC_CORE_GENERICCHARTENTRY
STATS_WORKSPACE_TRAFFIC_UTILIZATION_RESPONSE__MOGENIUS_OPERATOR_SRC_CORE_RESULTMOGENIUS_OPERATOR_SRC_CORE_REQUEST8_MOGENIUS_OPERATOR_SRC_CORE_GENERICCHARTENTRY == [name |-> <<"STATS_WORKSPACE_TRAFFIC_UTILIZATION_RESPONSE__MOGENIUS_OPERATOR_SRC_CORE_RESULTMOGENIUS_OPERATOR_SRC_CORE_REQUEST8_MOGENIUS_OPERATOR_SRC_CORE_GENERICCHARTENTRY">>, fields |-> <<<<"data", <<"STATS_WORKSPACE_TRAFFIC_UTILIZATION_RESPONSE__MOGENIUS_OPERATOR_SRC_CORE_GENERICCHARTENTRY", "[]">>>>, <<"message", <<"string">>>>, <<"status", <<"string">>>>>>]

\* STATS_WORKSPACE_TRAFFIC_UTILIZATION_RESPONSE__TIME_TIME
STATS_WORKSPACE_TRAFFIC_UTILIZATION_RESPONSE__TIME_TIME == [name |-> <<"STATS_WORKSPACE_TRAFFIC_UTILIZATION_RESPONSE__TIME_TIME">>, fields |-> <<>>]

\* STORAGE_CREATE_VOLUME_RESPONSE__MOGENIUS_OPERATOR_SRC_CORE_RESULTMOGENIUS_OPERATOR_SRC_SERVICES_NFSVOLUMEREQUEST_BOOL
STORAGE_CREATE_VOLUME_RESPONSE__MOGENIUS_OPERATOR_SRC_CORE_RESULTMOGENIUS_OPERATOR_SRC_SERVICES_NFSVOLUMEREQUEST_BOOL == [name |-> <<"STORAGE_CREATE_VOLUME_RESPONSE__MOGENIUS_OPERATOR_SRC_CORE_RESULTMOGENIUS_OPERATOR_SRC_SERVICES_NFSVOLUMEREQUEST_BOOL">>, fields |-> <<<<"data", <<"boolean">>>>, <<"message", <<"string">>>>, <<"status", <<"string">>>>>>]

\* STORAGE_DELETE_VOLUME_RESPONSE__MOGENIUS_OPERATOR_SRC_CORE_RESULTMOGENIUS_OPERATOR_SRC_SERVICES_NFSVOLUMEREQUEST_BOOL
STORAGE_DELETE_VOLUME_RESPONSE__MOGENIUS_OPERATOR_SRC_CORE_RESULTMOGENIUS_OPERATOR_SRC_SERVICES_NFSVOLUMEREQUEST_BOOL == [name |-> <<"STORAGE_DELETE_VOLUME_RESPONSE__MOGENIUS_OPERATOR_SRC_CORE_RESULTMOGENIUS_OPERATOR_SRC_SERVICES_NFSVOLUMEREQUEST_BOOL">>, fields |-> <<<<"data", <<"boolean">>>>, <<"message", <<"string">>>>, <<"status", <<"string">>>>>>]

\* STORAGE_STATS_RESPONSE__MOGENIUS_OPERATOR_SRC_CORE_RESULTMOGENIUS_OPERATOR_SRC_SERVICES_NFSVOLUMESTATSREQUEST_MOGENIUS_OPERATOR_SRC_SERVICES_NFSVOLUMESTATSRESPONSE
STORAGE_STATS_RESPONSE__MOGENIUS_OPERATOR_SRC_CORE_RESULTMOGENIUS_OPERATOR_SRC_SERVICES_NFSVOLUMESTATSREQUEST_MOGENIUS_OPERATOR_SRC_SERVICES_NFSVOLUMESTATSRESPONSE == [name |-> <<"STORAGE_STATS_RESPONSE__MOGENIUS_OPERATOR_SRC_CORE_RESULTMOGENIUS_OPERATOR_SRC_SERVICES_NFSVOLUMESTATSREQUEST_MOGENIUS_OPERATOR_SRC_SERVICES_NFSVOLUMESTATSRESPONSE">>, fields |-> <<<<"data", <<"STORAGE_STATS_RESPONSE__MOGENIUS_OPERATOR_SRC_SERVICES_NFSVOLUMESTATSRESPONSE">>>>, <<"message", <<"string">>>>, <<"status", <<"string">>>>>>]

\* STORAGE_STATS_RESPONSE__MOGENIUS_OPERATOR_SRC_SERVICES_NFSVOLUMESTATSRESPONSE
STORAGE_STATS_RESPONSE__MOGENIUS_OPERATOR_SRC_SERVICES_NFSVOLUMESTATSRESPONSE == [name |-> <<"STORAGE_STATS_RESPONSE__MOGENIUS_OPERATOR_SRC_SERVICES_NFSVOLUMESTATSRESPONSE">>, fields |-> <<<<"freeBytes", <<"number">>>>, <<"totalBytes", <<"number">>>>, <<"usedBytes", <<"number">>>>, <<"volumeName", <<"string">>>>>>]

\* STORAGE_STATUS_RESPONSE__MOGENIUS_OPERATOR_SRC_CORE_RESULTMOGENIUS_OPERATOR_SRC_SERVICES_NFSSTATUSREQUEST_MOGENIUS_OPERATOR_SRC_SERVICES_NFSSTATUSRESPONSE
STORAGE_STATUS_RESPONSE__MOGENIUS_OPERATOR_SRC_CORE_RESULTMOGENIUS_OPERATOR_SRC_SERVICES_NFSSTATUSREQUEST_MOGENIUS_OPERATOR_SRC_SERVICES_NFSSTATUSRESPONSE == [name |-> <<"STORAGE_STATUS_RESPONSE__MOGENIUS_OPERATOR_SRC_CORE_RESULTMOGENIUS_OPERATOR_SRC_SERVICES_NFSSTATUSREQUEST_MOGENIUS_OPERATOR_SRC_SERVICES_NFSSTATUSRESPONSE">>, fields |-> <<<<"data", <<"STORAGE_STATUS_RESPONSE__MOGENIUS_OPERATOR_SRC_SERVICES_NFSSTATUSRESPONSE">>>>, <<"message", <<"string">>>>, <<"status", <<"string">>>>>>]

\* STORAGE_STATUS_RESPONSE__MOGENIUS_OPERATOR_SRC_SERVICES_NFSSTATUSRESPONSE
STORAGE_STATUS_RESPONSE__MOGENIUS_OPERATOR_SRC_SERVICES_NFSSTATUSRESPONSE == [name |-> <<"STORAGE_STATUS_RESPONSE__MOGENIUS_OPERATOR_SRC_SERVICES_NFSSTATUSRESPONSE">>, fields |-> <<<<"freeBytes", <<"number">>>>, <<"messages", <<"STORAGE_STATUS_RESPONSE__MOGENIUS_OPERATOR_SRC_SERVICES_VOLUMESTATUSMESSAGE", "[]">>>>, <<"namespaceName", <<"string">>>>, <<"status", <<"string">>>>, <<"totalBytes", <<"number">>>>, <<"usedByPods", <<"string", "[]">>>>, <<"usedBytes", <<"number">>>>, <<"volumeName", <<"string">>>>>>]

\* STORAGE_STATUS_RESPONSE__MOGENIUS_OPERATOR_SRC_SERVICES_VOLUMESTATUSMESSAGE
STORAGE_STATUS_RESPONSE__MOGENIUS_OPERATOR_SRC_SERVICES_VOLUMESTATUSMESSAGE == [name |-> <<"STORAGE_STATUS_RESPONSE__MOGENIUS_OPERATOR_SRC_SERVICES_VOLUMESTATUSMESSAGE">>, fields |-> <<<<"message", <<"string">>>>, <<"type", <<"string">>>>>>]

\* SYSTEM_CHECK_RESPONSE__MOGENIUS_OPERATOR_SRC_CORE_RESULTMOGENIUS_OPERATOR_SRC_CORE_VOID_MOGENIUS_OPERATOR_SRC_SERVICES_SYSTEMCHECKRESPONSE
SYSTEM_CHECK_RESPONSE__MOGENIUS_OPERATOR_SRC_CORE_RESULTMOGENIUS_OPERATOR_SRC_CORE_VOID_MOGENIUS_OPERATOR_SRC_SERVICES_SYSTEMCHECKRESPONSE == [name |-> <<"SYSTEM_CHECK_RESPONSE__MOGENIUS_OPERATOR_SRC_CORE_RESULTMOGENIUS_OPERATOR_SRC_CORE_VOID_MOGENIUS_OPERATOR_SRC_SERVICES_SYSTEMCHECKRESPONSE">>, fields |-> <<<<"data", <<"SYSTEM_CHECK_RESPONSE__MOGENIUS_OPERATOR_SRC_SERVICES_SYSTEMCHECKRESPONSE">>>>, <<"message", <<"string">>>>, <<"status", <<"string">>>>>>]

\* SYSTEM_CHECK_RESPONSE__MOGENIUS_OPERATOR_SRC_SERVICES_SYSTEMCHECKENTRY
SYSTEM_CHECK_RESPONSE__MOGENIUS_OPERATOR_SRC_SERVICES_SYSTEMCHECKENTRY == [name |-> <<"SYSTEM_CHECK_RESPONSE__MOGENIUS_OPERATOR_SRC_SERVICES_SYSTEMCHECKENTRY">>, fields |-> <<<<"checkName", <<"string">>>>, <<"description", <<"string">>>>, <<"errorMessage", <<"string", "|", "undefined">>>>, <<"helmStatus", <<"string">>>>, <<"installPattern", <<"string">>>>, <<"isRequired", <<"boolean">>>>, <<"isRunning", <<"boolean">>>>, <<"processTimeInMs", <<"number">>>>, <<"solutionMessage", <<"string">>>>, <<"successMessage", <<"string">>>>, <<"uninstallPattern", <<"string">>>>, <<"upgradePattern", <<"string">>>>, <<"versionAvailable", <<"string">>>>, <<"versionInstalled", <<"string">>>>, <<"wantsToBeInstalled", <<"boolean">>>>>>]

\* SYSTEM_CHECK_RESPONSE__MOGENIUS_OPERATOR_SRC_SERVICES_SYSTEMCHECKRESPONSE
SYSTEM_CHECK_RESPONSE__MOGENIUS_OPERATOR_SRC_SERVICES_SYSTEMCHECKRESPONSE == [name |-> <<"SYSTEM_CHECK_RESPONSE__MOGENIUS_OPERATOR_SRC_SERVICES_SYSTEMCHECKRESPONSE">>, fields |-> <<<<"entries", <<"SYSTEM_CHECK_RESPONSE__MOGENIUS_OPERATOR_SRC_SERVICES_SYSTEMCHECKENTRY", "[]">>>>, <<"terminalString", <<"string">>>>>>]

\* TRIGGER_WORKLOAD_RESPONSE__K8S_IO_APIMACHINERY_PKG_APIS_META_V1_UNSTRUCTURED_UNSTRUCTURED
TRIGGER_WORKLOAD_RESPONSE__K8S_IO_APIMACHINERY_PKG_APIS_META_V1_UNSTRUCTURED_UNSTRUCTURED == [name |-> <<"TRIGGER_WORKLOAD_RESPONSE__K8S_IO_APIMACHINERY_PKG_APIS_META_V1_UNSTRUCTURED_UNSTRUCTURED">>, fields |-> <<<<"Object", <<"Record", "<", "string", ",", "any", ">">>>>>>]

\* TRIGGER_WORKLOAD_RESPONSE__MOGENIUS_OPERATOR_SRC_CORE_RESULTMOGENIUS_OPERATOR_SRC_UTILS_WORKLOADSINGLEREQUEST_K8S_IO_APIMACHINERY_PKG_APIS_META_V1_UNSTRUCTURED_UNSTRUCTURED
TRIGGER_WORKLOAD_RESPONSE__MOGENIUS_OPERATOR_SRC_CORE_RESULTMOGENIUS_OPERATOR_SRC_UTILS_WORKLOADSINGLEREQUEST_K8S_IO_APIMACHINERY_PKG_APIS_META_V1_UNSTRUCTURED_UNSTRUCTURED == [name |-> <<"TRIGGER_WORKLOAD_RESPONSE__MOGENIUS_OPERATOR_SRC_CORE_RESULTMOGENIUS_OPERATOR_SRC_UTILS_WORKLOADSINGLEREQUEST_K8S_IO_APIMACHINERY_PKG_APIS_META_V1_UNSTRUCTURED_UNSTRUCTURED">>, fields |-> <<<<"data", <<"TRIGGER_WORKLOAD_RESPONSE__K8S_IO_APIMACHINERY_PKG_APIS_META_V1_UNSTRUCTURED_UNSTRUCTURED", "|", "undefined">>>>, <<"message", <<"string">>>>, <<"status", <<"string">>>>>>]

\* UNINSTALL_CERT_MANAGER_RESPONSE__MOGENIUS_OPERATOR_SRC_CORE_RESULTMOGENIUS_OPERATOR_SRC_CORE_VOID_STRING
UNINSTALL_CERT_MANAGER_RESPONSE__MOGENIUS_OPERATOR_SRC_CORE_RESULTMOGENIUS_OPERATOR_SRC_CORE_VOID_STRING == [name |-> <<"UNINSTALL_CERT_MANAGER_RESPONSE__MOGENIUS_OPERATOR_SRC_CORE_RESULTMOGENIUS_OPERATOR_SRC_CORE_VOID_STRING">>, fields |-> <<<<"data", <<"string">>>>, <<"message", <<"string">>>>, <<"status", <<"string">>>>>>]

\* UNINSTALL_CLUSTER_ISSUER_RESPONSE__MOGENIUS_OPERATOR_SRC_CORE_RESULTMOGENIUS_OPERATOR_SRC_CORE_VOID_STRING
UNINSTALL_CLUSTER_ISSUER_RESPONSE__MOGENIUS_OPERATOR_SRC_CORE_RESULTMOGENIUS_OPERATOR_SRC_CORE_VOID_STRING == [name |-> <<"UNINSTALL_CLUSTER_ISSUER_RESPONSE__MOGENIUS_OPERATOR_SRC_CORE_RESULTMOGENIUS_OPERATOR_SRC_CORE_VOID_STRING">>, fields |-> <<<<"data", <<"string">>>>, <<"message", <<"string">>>>, <<"status", <<"string">>>>>>]

\* UNINSTALL_INGRESS_CONTROLLER_TRAEFIK_RESPONSE__MOGENIUS_OPERATOR_SRC_CORE_RESULTMOGENIUS_OPERATOR_SRC_CORE_VOID_STRING
UNINSTALL_INGRESS_CONTROLLER_TRAEFIK_RESPONSE__MOGENIUS_OPERATOR_SRC_CORE_RESULTMOGENIUS_OPERATOR_SRC_CORE_VOID_STRING == [name |-> <<"UNINSTALL_INGRESS_CONTROLLER_TRAEFIK_RESPONSE__MOGENIUS_OPERATOR_SRC_CORE_RESULTMOGENIUS_OPERATOR_SRC_CORE_VOID_STRING">>, fields |-> <<<<"data", <<"string">>>>, <<"message", <<"string">>>>, <<"status", <<"string">>>>>>]

\* UNINSTALL_KEPLER_RESPONSE__MOGENIUS_OPERATOR_SRC_CORE_RESULTMOGENIUS_OPERATOR_SRC_CORE_VOID_STRING
UNINSTALL_KEPLER_RESPONSE__MOGENIUS_OPERATOR_SRC_CORE_RESULTMOGENIUS_OPERATOR_SRC_CORE_VOID_STRING == [name |-> <<"UNINSTALL_KEPLER_RESPONSE__MOGENIUS_OPERATOR_SRC_CORE_RESULTMOGENIUS_OPERATOR_SRC_CORE_VOID_STRING">>, fields |-> <<<<"data", <<"string">>>>, <<"message", <<"string">>>>, <<"status", <<"string">>>>>>]

\* UNINSTALL_METALLB_RESPONSE__MOGENIUS_OPERATOR_SRC_CORE_RESULTMOGENIUS_OPERATOR_SRC_CORE_VOID_STRING
UNINSTALL_METALLB_RESPONSE__MOGENIUS_OPERATOR_SRC_CORE_RESULTMOGENIUS_OPERATOR_SRC_CORE_VOID_STRING == [name |-> <<"UNINSTALL_METALLB_RESPONSE__MOGENIUS_OPERATOR_SRC_CORE_RESULTMOGENIUS_OPERATOR_SRC_CORE_VOID_STRING">>, fields |-> <<<<"data", <<"string">>>>, <<"message", <<"string">>>>, <<"status", <<"string">>>>>>]

\* UNINSTALL_METRICS_SERVER_RESPONSE__MOGENIUS_OPERATOR_SRC_CORE_RESULTMOGENIUS_OPERATOR_SRC_CORE_VOID_STRING
UNINSTALL_METRICS_SERVER_RESPONSE__MOGENIUS_OPERATOR_SRC_CORE_RESULTMOGENIUS_OPERATOR_SRC_CORE_VOID_STRING == [name |-> <<"UNINSTALL_METRICS_SERVER_RESPONSE__MOGENIUS_OPERATOR_SRC_CORE_RESULTMOGENIUS_OPERATOR_SRC_CORE_VOID_STRING">>, fields |-> <<<<"data", <<"string">>>>, <<"message", <<"string">>>>, <<"status", <<"string">>>>>>]

\* UPDATE_GRANT_RESPONSE__MOGENIUS_OPERATOR_SRC_CORE_RESULTMOGENIUS_OPERATOR_SRC_CORE_REQUEST31_STRING
UPDATE_GRANT_RESPONSE__MOGENIUS_OPERATOR_SRC_CORE_RESULTMOGENIUS_OPERATOR_SRC_CORE_REQUEST31_STRING == [name |-> <<"UPDATE_GRANT_RESPONSE__MOGENIUS_OPERATOR_SRC_CORE_RESULTMOGENIUS_OPERATOR_SRC_CORE_REQUEST31_STRING">>, fields |-> <<<<"data", <<"string">>>>, <<"message", <<"string">>>>, <<"status", <<"string">>>>>>]

\* UPDATE_USER_RESPONSE__MOGENIUS_OPERATOR_SRC_CORE_RESULTMOGENIUS_OPERATOR_SRC_CORE_REQUEST26_STRING
UPDATE_USER_RESPONSE__MOGENIUS_OPERATOR_SRC_CORE_RESULTMOGENIUS_OPERATOR_SRC_CORE_REQUEST26_STRING == [name |-> <<"UPDATE_USER_RESPONSE__MOGENIUS_OPERATOR_SRC_CORE_RESULTMOGENIUS_OPERATOR_SRC_CORE_REQUEST26_STRING">>, fields |-> <<<<"data", <<"string">>>>, <<"message", <<"string">>>>, <<"status", <<"string">>>>>>]

\* UPDATE_WORKLOAD_RESPONSE__K8S_IO_APIMACHINERY_PKG_APIS_META_V1_UNSTRUCTURED_UNSTRUCTURED
UPDATE_WORKLOAD_RESPONSE__K8S_IO_APIMACHINERY_PKG_APIS_META_V1_UNSTRUCTURED_UNSTRUCTURED == [name |-> <<"UPDATE_WORKLOAD_RESPONSE__K8S_IO_APIMACHINERY_PKG_APIS_META_V1_UNSTRUCTURED_UNSTRUCTURED">>, fields |-> <<<<"Object", <<"Record", "<", "string", ",", "any", ">">>>>>>]

\* UPDATE_WORKLOAD_RESPONSE__MOGENIUS_OPERATOR_SRC_CORE_RESULTMOGENIUS_OPERATOR_SRC_UTILS_WORKLOADCHANGEREQUEST_K8S_IO_APIMACHINERY_PKG_APIS_META_V1_UNSTRUCTURED_UNSTRUCTURED
UPDATE_WORKLOAD_RESPONSE__MOGENIUS_OPERATOR_SRC_CORE_RESULTMOGENIUS_OPERATOR_SRC_UTILS_WORKLOADCHANGEREQUEST_K8S_IO_APIMACHINERY_PKG_APIS_META_V1_UNSTRUCTURED_UNSTRUCTURED == [name |-> <<"UPDATE_WORKLOAD_RESPONSE__MOGENIUS_OPERATOR_SRC_CORE_RESULTMOGENIUS_OPERATOR_SRC_UTILS_WORKLOADCHANGEREQUEST_K8S_IO_APIMACHINERY_PKG_APIS_META_V1_UNSTRUCTURED_UNSTRUCTURED">>, fields |-> <<<<"data", <<"UPDATE_WORKLOAD_RESPONSE__K8S_IO_APIMACHINERY_PKG_APIS_META_V1_UNSTRUCTURED_UNSTRUCTURED", "|", "undefined">>>>, <<"message", <<"string">>>>, <<"status", <<"string">>>>>>]

\* UPDATE_WORKSPACE_RESPONSE__MOGENIUS_OPERATOR_SRC_CORE_RESULTMOGENIUS_OPERATOR_SRC_CORE_REQUEST21_STRING
UPDATE_WORKSPACE_RESPONSE__MOGENIUS_OPERATOR_SRC_CORE_RESULTMOGENIUS_OPERATOR_SRC_CORE_REQUEST21_STRING == [name |-> <<"UPDATE_WORKSPACE_RESPONSE__MOGENIUS_OPERATOR_SRC_CORE_RESULTMOGENIUS_OPERATOR_SRC_CORE_REQUEST21_STRING">>, fields |-> <<<<"data", <<"string">>>>, <<"message", <<"string">>>>, <<"status", <<"string">>>>>>]

\* UPGRADEK8SMANAGER_RESPONSE__MOGENIUS_OPERATOR_SRC_CORE_RESULTMOGENIUS_OPERATOR_SRC_CORE_REQUEST4_MOGENIUS_OPERATOR_SRC_STRUCTS_JOB
UPGRADEK8SMANAGER_RESPONSE__MOGENIUS_OPERATOR_SRC_CORE_RESULTMOGENIUS_OPERATOR_SRC_CORE_REQUEST4_MOGENIUS_OPERATOR_SRC_STRUCTS_JOB == [name |-> <<"UPGRADEK8SMANAGER_RESPONSE__MOGENIUS_OPERATOR_SRC_CORE_RESULTMOGENIUS_OPERATOR_SRC_CORE_REQUEST4_MOGENIUS_OPERATOR_SRC_STRUCTS_JOB">>, fields |-> <<<<"data", <<"UPGRADEK8SMANAGER_RESPONSE__MOGENIUS_OPERATOR_SRC_STRUCTS_JOB", "|", "undefined">>>>, <<"message", <<"string">>>>, <<"status", <<"string">>>>>>]

\* UPGRADEK8SMANAGER_RESPONSE__MOGENIUS_OPERATOR_SRC_STRUCTS_COMMAND
UPGRADEK8SMANAGER_RESPONSE__MOGENIUS_OPERATOR_SRC_STRUCTS_COMMAND == [name |-> <<"UPGRADEK8SMANAGER_RESPONSE__MOGENIUS_OPERATOR_SRC_STRUCTS_COMMAND">>, fields |-> <<<<"command", <<"string">>>>, <<"finished", <<"UPGRADEK8SMANAGER_RESPONSE__TIME_TIME">>>>, <<"id", <<"string">>>>, <<"message", <<"string">>>>, <<"started", <<"UPGRADEK8SMANAGER_RESPONSE__TIME_TIME">>>>, <<"state", <<"string">>>>, <<"title", <<"string">>>>>>]

\* UPGRADEK8SMANAGER_RESPONSE__MOGENIUS_OPERATOR_SRC_STRUCTS_JOB
UPGRADEK8SMANAGER_RESPONSE__MOGENIUS_OPERATOR_SRC_STRUCTS_JOB == [name |-> <<"UPGRADEK8SMANAGER_RESPONSE__MOGENIUS_OPERATOR_SRC_STRUCTS_JOB">>, fields |-> <<<<"commands", <<"UPGRADEK8SMANAGER_RESPONSE__MOGENIUS_OPERATOR_SRC_STRUCTS_COMMAND", "|", "undefined", "[]">>>>, <<"containerName", <<"string">>>>, <<"controllerName", <<"string">>>>, <<"finished", <<"UPGRADEK8SMANAGER_RESPONSE__TIME_TIME">>>>, <<"id", <<"string">>>>, <<"message", <<"string">>>>, <<"namespaceName", <<"string">>>>, <<"projectId", <<"string">>>>, <<"started", <<"UPGRADEK8SMANAGER_RESPONSE__TIME_TIME">>>>, <<"state", <<"string">>>>, <<"title", <<"string">>>>>>]

\* UPGRADEK8SMANAGER_RESPONSE__TIME_TIME
UPGRADEK8SMANAGER_RESPONSE__TIME_TIME == [name |-> <<"UPGRADEK8SMANAGER_RESPONSE__TIME_TIME">>, fields |-> <<>>]

\* UPGRADE_CERT_MANAGER_RESPONSE__MOGENIUS_OPERATOR_SRC_CORE_RESULTMOGENIUS_OPERATOR_SRC_CORE_VOID_STRING
UPGRADE_CERT_MANAGER_RESPONSE__MOGENIUS_OPERATOR_SRC_CORE_RESULTMOGENIUS_OPERATOR_SRC_CORE_VOID_STRING == [name |-> <<"UPGRADE_CERT_MANAGER_RESPONSE__MOGENIUS_OPERATOR_SRC_CORE_RESULTMOGENIUS_OPERATOR_SRC_CORE_VOID_STRING">>, fields |-> <<<<"data", <<"string">>>>, <<"message", <<"string">>>>, <<"status", <<"string">>>>>>]

\* UPGRADE_INGRESS_CONTROLLER_TRAEFIK_RESPONSE__MOGENIUS_OPERATOR_SRC_CORE_RESULTMOGENIUS_OPERATOR_SRC_CORE_VOID_STRING
UPGRADE_INGRESS_CONTROLLER_TRAEFIK_RESPONSE__MOGENIUS_OPERATOR_SRC_CORE_RESULTMOGENIUS_OPERATOR_SRC_CORE_VOID_STRING == [name |-> <<"UPGRADE_INGRESS_CONTROLLER_TRAEFIK_RESPONSE__MOGENIUS_OPERATOR_SRC_CORE_RESULTMOGENIUS_OPERATOR_SRC_CORE_VOID_STRING">>, fields |-> <<<<"data", <<"string">>>>, <<"message", <<"string">>>>, <<"status", <<"string">>>>>>]

\* UPGRADE_KEPLER_RESPONSE__MOGENIUS_OPERATOR_SRC_CORE_RESULTMOGENIUS_OPERATOR_SRC_CORE_VOID_STRING
UPGRADE_KEPLER_RESPONSE__MOGENIUS_OPERATOR_SRC_CORE_RESULTMOGENIUS_OPERATOR_SRC_CORE_VOID_STRING == [name |-> <<"UPGRADE_KEPLER_RESPONSE__MOGENIUS_OPERATOR_SRC_CORE_RESULTMOGENIUS_OPERATOR_SRC_CORE_VOID_STRING">>, fields |-> <<<<"data", <<"string">>>>, <<"message", <<"string">>>>, <<"status", <<"string">>>>>>]

\* UPGRADE_METALLB_RESPONSE__MOGENIUS_OPERATOR_SRC_CORE_RESULTMOGENIUS_OPERATOR_SRC_CORE_VOID_STRING
UPGRADE_METALLB_RESPONSE__MOGENIUS_OPERATOR_SRC_CORE_RESULTMOGENIUS_OPERATOR_SRC_CORE_VOID_STRING == [name |-> <<"UPGRADE_METALLB_RESPONSE__MOGENIUS_OPERATOR_SRC_CORE_RESULTMOGENIUS_OPERATOR_SRC_CORE_VOID_STRING">>, fields |-> <<<<"data", <<"string">>>>, <<"message", <<"string">>>>, <<"status", <<"string">>>>>>]

\* UPGRADE_METRICS_SERVER_RESPONSE__MOGENIUS_OPERATOR_SRC_CORE_RESULTMOGENIUS_OPERATOR_SRC_CORE_VOID_STRING
UPGRADE_METRICS_SERVER_RESPONSE__MOGENIUS_OPERATOR_SRC_CORE_RESULTMOGENIUS_OPERATOR_SRC_CORE_VOID_STRING == [name |-> <<"UPGRADE_METRICS_SERVER_RESPONSE__MOGENIUS_OPERATOR_SRC_CORE_RESULTMOGENIUS_OPERATOR_SRC_CORE_VOID_STRING">>, fields |-> <<<<"data", <<"string">>>>, <<"message", <<"string">>>>, <<"status", <<"string">>>>>>]

\* WORKSPACE_CLEAN_UP_RESPONSE__MOGENIUS_OPERATOR_SRC_CORE_CLEANUPRESULT
WORKSPACE_CLEAN_UP_RESPONSE__MOGENIUS_OPERATOR_SRC_CORE_CLEANUPRESULT == [name |-> <<"WORKSPACE_CLEAN_UP_RESPONSE__MOGENIUS_OPERATOR_SRC_CORE_CLEANUPRESULT">>, fields |-> <<<<"configMaps", <<"WORKSPACE_CLEAN_UP_RESPONSE__MOGENIUS_OPERATOR_SRC_CORE_CLEANUPRESULTENTRY", "[]">>>>, <<"ingresses", <<"WORKSPACE_CLEAN_UP_RESPONSE__MOGENIUS_OPERATOR_SRC_CORE_CLEANUPRESULTENTRY", "[]">>>>, <<"jobs", <<"WORKSPACE_CLEAN_UP_RESPONSE__MOGENIUS_OPERATOR_SRC_CORE_CLEANUPRESULTENTRY", "[]">>>>, <<"pods", <<"WORKSPACE_CLEAN_UP_RESPONSE__MOGENIUS_OPERATOR_SRC_CORE_CLEANUPRESULTENTRY", "[]">>>>, <<"replicaSets", <<"WORKSPACE_CLEAN_UP_RESPONSE__MOGENIUS_OPERATOR_SRC_CORE_CLEANUPRESULTENTRY", "[]">>>>, <<"secrets", <<"WORKSPACE_CLEAN_UP_RESPONSE__MOGENIUS_OPERATOR_SRC_CORE_CLEANUPRESULTENTRY", "[]">>>>, <<"services", <<"WORKSPACE_CLEAN_UP_RESPONSE__MOGENIUS_OPERATOR_SRC_CORE_CLEANUPRESULTENTRY", "[]">>>>>>]

\* WORKSPACE_CLEAN_UP_RESPONSE__MOGENIUS_OPERATOR_SRC_CORE_CLEANUPRESULTENTRY
WORKSPACE_CLEAN_UP_RESPONSE__MOGENIUS_OPERATOR_SRC_CORE_CLEANUPRESULTENTRY == [name |-> <<"WORKSPACE_CLEAN_UP_RESPONSE__MOGENIUS_OPERATOR_SRC_CORE_CLEANUPRESULTENTRY">>, fields |-> <<<<"name", <<"string">>>>, <<"namespace", <<"string">>>>, <<"reason", <<"string">>>>>>]

\* WORKSPACE_CLEAN_UP_RESPONSE__MOGENIUS_OPERATOR_SRC_CORE_RESULTMOGENIUS_OPERATOR_SRC_CORE_REQUEST20_MOGENIUS_OPERATOR_SRC_CORE_CLEANUPRESULT
WORKSPACE_CLEAN_UP_RESPONSE__MOGENIUS_OPERATOR_SRC_CORE_RESULTMOGENIUS_OPERATOR_SRC_CORE_REQUEST20_MOGENIUS_OPERATOR_SRC_CORE_CLEANUPRESULT == [name |-> <<"WORKSPACE_CLEAN_UP_RESPONSE__MOGENIUS_OPERATOR_SRC_CORE_RESULTMOGENIUS_OPERATOR_SRC_CORE_REQUEST20_MOGENIUS_OPERATOR_SRC_CORE_CLEANUPRESULT">>, fields |-> <<<<"data", <<"WORKSPACE_CLEAN_UP_RESPONSE__MOGENIUS_OPERATOR_SRC_CORE_CLEANUPRESULT">>>>, <<"message", <<"string">>>>, <<"status", <<"string">>>>>>]

=============================================================================
