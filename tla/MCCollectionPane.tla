-------------------------- MODULE MCCollectionPane --------------------------
(* A collection and a folder in it, each with its tab, a tab on a request, *)
(* two environments and two runs.                                          *)
EXTENDS CollectionPane, TLC

CONSTANTS collection, folder, request, e1, e2

MCPaneTabs == {collection, folder}
MCOtherTabs == {request}
MCScopeOf == collection :> <<"c", Null>> @@ folder :> <<"c", "f">>
MCEnvironments == {e1, e2}
MCRuns == 1..2
=============================================================================
