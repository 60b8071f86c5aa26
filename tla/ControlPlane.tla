---------------------------- MODULE ControlPlane ----------------------------
(***************************************************************************)
(* What operators, feeds and tenants change while requests are served: the *)
(* catalog tables (CatalogSync), what the pods hold of them in memory      *)
(* (ServingCaches) and a tenant's credential (Connections).  The three     *)
(* share no state but the tables: a reconcile is ReconcileRow to the       *)
(* caches, and which row it is does not matter to them.  So a behaviour    *)
(* follows one of the three while the others stand still.                  *)
(***************************************************************************)
EXTENDS CatalogSync, ServingCaches, Connections

VARIABLE scene

controlVars == <<scene, catalogVars, cacheVars, connVars>>

Init ==
    /\ scene \in {"catalog", "caches", "connections"}
    /\ CatalogInit
    /\ CachesInit
    /\ ConnectionsInit
    /\ scene # "catalog" => /\ table = "registry"
                           /\ rows.source = "none"
                           /\ ~hosted
    /\ scene # "caches" => what = "setting"

Next ==
    /\ UNCHANGED scene
    /\ \/ /\ scene = "catalog"
          /\ CatalogNext
          /\ UNCHANGED <<cacheVars, connVars>>
       \/ /\ scene = "caches"
          /\ CachesNext
          /\ UNCHANGED <<catalogVars, connVars>>
       \/ /\ scene = "connections"
          /\ ConnectionsNext
          /\ UNCHANGED <<catalogVars, cacheVars>>

Spec == Init /\ [][Next]_controlVars

\* Every variable of the three parts ranges over what its part says.
TypeOK == CatalogTypeOK /\ CachesTypeOK /\ ConnectionsTypeOK
=============================================================================
