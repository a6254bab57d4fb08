----------------------------- MODULE MC_Clients -----------------------------
(***************************************************************************)
(* etcd: the path is new, or there, or gone again, and its last put may or *)
(* may not be the store's last revision.                                   *)
(* nacos: two spellings of one configuration, which ask for one namespace  *)
(* if the client's is the public one, and a path that names a namespace.   *)
(***************************************************************************)
EXTENDS Clients, TLC

CONSTANTS plain, public, dev, c1, c2

MC_FirstLogs == {<<>>, <<"other">>, <<"put">>, <<"put", "other">>,
                 <<"put", "put">>, <<"put", "delete">>}

MC_ConfigOf == plain :> c1 @@ public :> c1 @@ dev :> c2
MC_QueryOf  == plain :> "" @@ public :> "public" @@ dev :> "dev"
=============================================================================
