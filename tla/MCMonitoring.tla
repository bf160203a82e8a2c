---------------------------- MODULE MCMonitoring ----------------------------
(* Instances of Inventory, of SoftwareEnumeration and of ServerApi, side by   *)
(* side: a behaviour is one of the inventory, of an enumeration, or of the    *)
(* listeners that a server opens, as which says.  The inventory has two       *)
(* agents and no page (reports), or one agent and a page that asks twice      *)
(* (page).  Two of the keys have names of one length, and one is longer.      *)
EXTENDS MCInventory, SoftwareEnumeration, MCServerApi

CONSTANTS k1, k2, k3

VARIABLE which
allVars == <<which, vars, enumVars, apiVars>>

MCNameLength == [k \in Keys |-> IF k = k3 THEN 2 ELSE 1]
MCOrders == {<<k3, k2>>, <<k1, k3, k2>>}

-----------------------------------------------------------------------------
MCInit ==
    /\ Init /\ EnumInit /\ ApiInit
    /\ which \in {"reports", "page", "enumeration", "listeners"}
    /\ which = "enumeration" => removable \in {{k1, k3}, {k2, k3}, Keys}
    /\ which # "enumeration" =>
          /\ hive = [r \in Roots |-> <<k3, k2>>] /\ readable = [r \in Roots |-> TRUE]
          /\ locked = {} /\ removable = {}
    /\ which # "listeners" => serverApi = "none"

MCNext ==
    \/ which = "reports" /\ UNCHANGED <<get, page, which, enumVars, apiVars>> /\ Next
    \/ which = "page" /\ Next /\ agent'[a2] = agent[a2] /\ UNCHANGED <<which, enumVars, apiVars>>
    \/ which = "enumeration" /\ EnumNext /\ UNCHANGED <<which, vars, apiVars>>
    \/ which = "listeners" /\ ApiNext /\ UNCHANGED <<which, vars, enumVars>>

MCSpec ==
    /\ MCInit /\ [][MCNext]_allVars
    /\ WF_allVars(which = "enumeration" /\ EnumStep /\ UNCHANGED <<which, vars, apiVars>>)

\* Every variable has its type.
MonitoringTypeOK == TypeOK /\ EnumTypeOK /\ ApiTypeOK

\* The enumeration ends, although a key that does not open leaves the index
\* where it was, unless the key it reads is removed: of SoftwareEnumeration.
EnumerationReturns == which = "enumeration" => EnumerationEnds
=============================================================================
