----------------------------- MODULE MCScopeRows -----------------------------
(***************************************************************************)
(* Small instances of ScopeRows: two configurations with one scope key.    *)
(***************************************************************************)
EXTENDS ScopeRows

CONSTANTS project, gnocchi, keystone

MCApiConf == [key |-> project, fetcher |-> gnocchi]
MCConfs   == {MCApiConf, [key |-> project, fetcher |-> keystone]}
MCPosted  == {NullRow, MCApiConf, [key |-> project, fetcher |-> Null]}
=============================================================================
