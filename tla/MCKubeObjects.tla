--------------------------- MODULE MCKubeObjects ---------------------------
EXTENDS KubeObjects

CONSTANTS c1, c2, s1, s2

TwoClusters == <<c1, c2>>
Group(essential) == [hook |-> FALSE, essential |-> essential]
Hook(essential) == [hook |-> TRUE, essential |-> essential]

Scene(stores, steps, failOns, vm, acts, calls, nc, nf, nw) ==
    [stores |-> stores, steps |-> steps, captureFailOn |-> failOns[1], restoreFailOn |-> failOns[2],
     vm |-> vm, acts |-> acts, calls |-> calls, changes |-> nc, faults |-> nf, writes |-> nw]

AnyError == <<"any-error", "any-error">>
G == Group(FALSE)

\* A failover, a relocation and the end of protection, each with a call or a
\* request that may fail; two stores, one of which may be out of reach or hold
\* less; a recovery that passes over its errors; and a recipe with hooks, virtual machines and a restart.
EveryScene ==
    {Scene(<<s1>>, <<G, G>>, AnyError, FALSE, {"failover"}, {"requests"}, 1, 1, 1),
     Scene(<<s1>>, <<G>>, AnyError, FALSE, {"failover"}, {}, 2, 0, 2),
     Scene(<<s1>>, <<G>>, AnyError, FALSE, {"relocate", "delete"}, {s1}, 2, 1, 1),
     Scene(<<s1, s2>>, <<G>>, AnyError, FALSE, {"failover"}, {s1, "list"}, 1, 1, 1),
     Scene(<<s1>>, <<G, Hook(TRUE)>>, <<"any-error", "essential-error">>, FALSE, {"failover"}, {"hook"}, 1, 1, 1),
     Scene(<<s1>>, <<Hook(TRUE), G, Hook(FALSE)>>, <<"essential-error", "any-error">>, TRUE,
           {"vms", "restart", "stop"}, {"hook", "save"}, 1, 1, 1)}
=============================================================================
