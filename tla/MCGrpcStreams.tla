--------------------------- MODULE MCGrpcStreams ---------------------------
(***************************************************************************)
(* A small instance of GrpcStreams for TLC.                                 *)
(***************************************************************************)
EXTENDS GrpcStreams, TLC

CONSTANTS c1, c2    \* two client processes

\* Clients meet only where ListUsers ends the server or the server is
\* interrupted: one client calls anything; the other is being listed users, and
\* has had all that it gets.
MCMethods == (c1 :> {"pet", "listusers", "storeusers", "bulkusers"})
                @@ (c2 :> {"listusers"})
MCMaxUsers == (c1 :> 2) @@ (c2 :> 0)
=============================================================================
