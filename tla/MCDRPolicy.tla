---------------------------- MODULE MCDRPolicy -----------------------------
EXTENDS DRPolicy

CONSTANTS p1, p2, k1, k2, k3, s1, s2, none

\* StorageClasses and the classes that go with their storage x.
SC(n, x) == [name |-> n, sid |-> x, labelled |-> x # "", prov |-> "d", off |-> FALSE, grid |-> ""]
Snap(x) == [sid |-> x, prov |-> "d"]
Repl(x, r, sched) == [sid |-> x, rid |-> r, sched |-> sched, prov |-> "d"]
Group(x, g, global) == [sid |-> x, rid |-> "r", grid |-> g, sched |-> "5m", prov |-> "d", global |-> global]

On(cl, nads) == [cl |-> cl, nads |-> nads]
Plain(x) == [NoClasses EXCEPT !.s = {SC("n1", x)}, !.vs = {Snap(x)}]
Replicated(x) == [Plain(x) EXCEPT !.vr = {Repl(x, "r", "5m")}]
Grouped(x) == [Replicated(x) EXCEPT !.vgr = {Group(x, "g", FALSE)}]
OffloadedTo(x, g) == [NoClasses EXCEPT !.s = {[SC("n1", x) EXCEPT !.off = TRUE, !.grid = g]},
                                       !.vgr = {Group(x, "g", TRUE), Group(x, "h", FALSE)}]
Only(cl) == {On(cl, {})}

Policy(cs, at) == [clusters |-> cs, sched |-> "5m", at |-> at, mapping |-> FALSE, new |-> FALSE]
Later(pc) == [pc EXCEPT !.new = TRUE]

Scene(a, b, first, later, apps, acts, nc, nf) ==
    [policies |-> (p1 :> a @@ p2 :> b), secret |-> [c \in DRClusters |-> IF c = k3 THEN s2 ELSE s1],
     drc |-> [c \in DRClusters |-> "valid"], formats |-> Formats, first |-> first, later |-> later,
     apps |-> apps, acts |-> acts, lag |-> FALSE, writes |-> {}, changes |-> nc, faults |-> nf]

Left == Policy(<<k1, k2>>, 1)
Right == Policy(<<k2, k3>>, 2)
Sites(x, y, z) == (k1 :> x @@ k2 :> y @@ k3 :> z)
Unused == Later(Right)
Nowhere == Sites({}, {}, {})

\* One policy, every pairing of the storage of its clusters.
AllSorts(x) ==
    {NoClasses, Plain(x), Replicated(x), Grouped(x), OffloadedTo(x, ""), OffloadedTo(x, "h"),
     Plain("z"), Replicated("z"),
     [Plain(x) EXCEPT !.s = {SC("n1", "")}], [Plain(x) EXCEPT !.s = {[SC("n1", "") EXCEPT !.labelled = TRUE]}],
     [Plain(x) EXCEPT !.s = @ \cup {SC("n2", x)}],
     [Plain(x) EXCEPT !.vs = {}], [Plain(x) EXCEPT !.vs = {[Snap(x) EXCEPT !.prov = "e"]}],
     [Plain(x) EXCEPT !.vgs = {Snap(x)}],
     [Plain(x) EXCEPT !.vr = {Repl(x, "r", "1h"), Repl(x, "q", "5m")}],
     [Replicated(x) EXCEPT !.vr = @ \cup {Repl(x, "q", "1h")}]}
Pairing == Scene(Left, Unused, Sites({On(x, {}) : x \in AllSorts("x")}, {On(x, {}) : x \in AllSorts("y")}, Only(NoClasses)),
                 Nowhere, <<>>, {}, 0, 0)

\* The classes change afterwards; a write fails.
Changing == [Scene(Left, Unused, Sites(Only(Replicated("x")), Only(Replicated("y")), Only(NoClasses)),
                   Sites({On(x, {}) : x \in {Plain("x"), Plain("w"), Grouped("x"), Replicated("y")}}, {}, {}),
                   <<>>, {"cluster"}, 1, 1) EXCEPT !.writes = {ConfigFault, 0, 2}, !.drc = [c \in DRClusters |-> "none"]]

\* Network attachments are mapped, differ, and are no longer mapped.
Mapped == Scene([Left EXCEPT !.mapping = TRUE], Unused,
                Sites({On(Plain("x"), {"a"})}, {On(Plain("y"), x) : x \in {{}, {"a"}}}, Only(NoClasses)),
                Sites({On(Plain("x"), {})}, {On(Plain("y"), {"a"})}, {}), <<>>, {"cluster", "unmap", "delete", "hasty"}, 2, 0)

\* Two policies share a cluster, come and go.
ThreeSites == Sites(Only(Plain("x")), Only(Plain("y")), Only(Plain("z")))
ComeAndGo == Scene(Left, Later(Right), ThreeSites, Nowhere, <<>>, {"create", "delete", "rotate"}, 3, 0)
Failing == [Scene(Left, Right, ThreeSites, Nowhere, <<>>, {"delete"}, 1, 1) EXCEPT !.writes = 0..16]
SecretGoes == [Scene(Left, Right, ThreeSites, Nowhere, <<>>, {"secret", "delete"}, 2, 0)
               EXCEPT !.formats = {"ramen"}, !.secret = [c \in DRClusters |-> IF c = k3 THEN none ELSE s1]]

\* The cache does not have a policy yet, or has it still.
Lagging == [Scene(Left, Later(Right), ThreeSites, Nowhere, <<>>, {"create", "delete", "rotate"}, 2, 0) EXCEPT !.lag = TRUE]

\* Two policies pair their clusters by shared storage; the older one goes.
Metro == Scene(Left, Later(Right), Sites(Only(Plain("x")), Only(Plain("x")), Only(Plain("x"))), Nowhere,
               <<>>, {"create", "delete"}, 2, 0)

\* A workload is protected, fails over and back while the classes change.
App(names, cg) == [policy |-> p1, names |-> names, cg |-> cg, useVolSync |-> FALSE]
Workload(cg, nc) ==
    Scene(Left, Unused, Sites(Only(Plain("x")), Only(Plain("y")), Only(NoClasses)),
          Sites({On(x, {}) : x \in {Replicated("x"), Plain("w")}}, {On(y, {}) : y \in {Replicated("y"), Grouped("y")}}, {}),
          <<App({"n1"}, cg)>>, {"cluster", "drpc", "failover", "delete"}, nc, 0)

\* It uses a StorageClass that the other cluster has not, at first.
TwoNames(cl) == [cl EXCEPT !.s = @ \cup {[SC("n2", s.sid) EXCEPT !.off = s.off, !.grid = s.grid] : s \in @}]
MoreClasses ==
    Scene(Left, Unused, Sites(Only(TwoNames(Plain("x"))), Only(Plain("y")), Only(NoClasses)),
          Sites({On(TwoNames(Replicated("x")), {})}, {On(TwoNames(y), {}) : y \in {Plain("y"), Replicated("y")}}, {}),
          <<App({"n1", "n2"}, FALSE)>>, {"cluster", "drpc"}, 4, 0)

\* Its storage is replicated for it, for many workloads at once.
Offload ==
    Scene(Left, Unused, Sites(Only(OffloadedTo("x", "g")), Only(OffloadedTo("y", "g")), Only(NoClasses)),
          Sites({On(x, {}) : x \in {OffloadedTo("w", "g"), OffloadedTo("x", "h")}}, {}, {}),
          <<App({"n1"}, FALSE)>>, {"cluster", "drpc", "failover"}, 4, 0)

EveryScene == {Pairing, Changing, Mapped, ComeAndGo, Failing, Lagging, SecretGoes, Metro, Workload(FALSE, 4), Workload(TRUE, 3),
               MoreClasses, Offload}
=============================================================================
