------------------------------ MODULE MCGateway ------------------------------
(* A small instance of Gateway for TLC. *)
EXTENDS Gateway, TLC

CONSTANTS orders, users,  \* services
          u1, bad         \* URLs

At(s, u) == [service |-> s, url |-> u]

\* A target that is monitored, one whose probes cannot even begin, and one of a
\* service without health checks.
ThreeEntries == <<At(orders, u1), At(orders, bad), At(users, bad)>>
Strategies == (orders :> "round-robin") @@ (users :> "least-connections")
OrdersOnly == {orders}
Canonicals == (u1 :> u1) @@ (bad :> Unparsable)
=============================================================================
