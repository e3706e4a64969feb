---------------------------- MODULE MCRpcSession ----------------------------
(* Model values for RpcSession. *)
EXTENDS RpcSession

CONSTANTS sign, status, rpc, ping, odd

MCKind == [o \in Ops |-> CASE o = sign   -> "sign"
                           [] o = status -> "status"
                           [] o = rpc    -> "rpc"
                           [] o = ping   -> "ping"
                           [] OTHER      -> "unknown"]
=============================================================================
