---- MODULE MCCustomerIdentity ----
(* Two customers exist and a third may be created; requests are              *)
(* interchangeable.                                                          *)
EXTENDS CustomerIdentity, TLC

CONSTANTS x1, x2, x3

MCCustomers == 1..3
MCRegistered == <<x1, x2, None>>

\* Every merge and purchase, the third external id as a customer or as an alias.
MCCommands ==
    {c \in AllCommands : \/ c.op \in {"merge", "persist"}
                         \/ c.op = "alias" /\ c.external = x3
                         \/ c.op = "customer" /\ c.external = x3 /\ c.customer # 2}

MCSymmetry == Permutations(Requests)

====
