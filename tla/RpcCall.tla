------------------------------- MODULE RpcCall -------------------------------
(***************************************************************************)
(* What the RPC layers promise to the code that calls an RPC: a call is    *)
(* run at most once; it succeeds only if it was run; it is reported once;  *)
(* a call that failed with the connection may or may not have been run.    *)
(***************************************************************************)
EXTENDS Naturals

CONSTANT Ops

VARIABLES
  call,  \* what the caller knows of each operation
  ran    \* how often the server ran it

vars == <<call, ran>>

Init == /\ call = [o \in Ops |-> "idle"]
        /\ ran = [o \in Ops |-> 0]

Call(o) == /\ call[o] = "idle"
           /\ call' = [call EXCEPT ![o] = "pending"]
           /\ UNCHANGED ran

Run(o) == /\ call[o] # "idle"
          /\ ran[o] = 0
          /\ ran' = [ran EXCEPT ![o] = 1]
          /\ UNCHANGED call

Succeed(o) == /\ call[o] = "pending"
              /\ ran[o] = 1
              /\ call' = [call EXCEPT ![o] = "succeeded"]
              /\ UNCHANGED ran

\* An error reply (set of one operation), or the loss of the connection.
Fail(S, how) == /\ \A o \in S : call[o] = "pending"
                /\ call' = [o \in Ops |-> IF o \in S THEN how ELSE call[o]]
                /\ UNCHANGED ran

Next == \/ \E o \in Ops : Call(o) \/ Run(o) \/ Succeed(o)
        \/ \E S \in SUBSET Ops, how \in {"failed", "lost"} : Fail(S, how)

Spec == Init /\ [][Next]_vars
=============================================================================
