---------------------------- MODULE MCDataPlane ----------------------------
(* Instances of DataPlane: one core and every short sequence of changes to  *)
(* each kind of table; and two cores that forward, count, drop, broadcast,  *)
(* share the buffers of an LPM lookup, or send to a port that is not there. *)
EXTENDS DataPlane

Do(act)      == [act |-> act, port |-> 0]
To(port)     == [act |-> "forward", port |-> port]
Set(v)       == [kind |-> "default", value |-> v]
Exact(k, v)  == [kind |-> "add", key |-> k, value |-> v]
Lpm(k, d, v) == [kind |-> "add", key |-> k, depth |-> d, value |-> v]
Tern(k, m, v) == [kind |-> "add", key |-> k, mask |-> m, value |-> v]

In(port, q, k) == [port |-> port, queue |-> q, key |-> k]
Param(port, queue, lcore) == [port |-> port, queue |-> queue, lcore |-> lcore]

Base == [cores |-> {0, 1}, params |-> <<Param(0, 0, 0)>>, ports |-> 2, mask |-> {0, 1},
         type |-> "exact", key_size |-> 2, hash_entries |-> 2, index_range |-> 4,
         preset |-> << >>, ops |-> {}, changes |-> 0, launches |-> 1,
         packets |-> << >>, block |-> "none"]

(* one packet, and changes made before and after it arrives *)
Changing ==
    {[Base EXCEPT !.type = "exact", !.key_size = size, !.changes = 3, !.launches = 2,
                  !.ops = {Exact(<<0, 1>>, To(0)), Exact(<<0, 1>>, To(1)), Exact(<<1, 1>>, To(1)),
                           Exact(<<0, 0>>, To(1)), Set(Do("none")), Set(To(1))},
                  !.packets = <<In(0, 0, <<0, 1>>)>>] : size \in {0, 2}}
    \cup
    {[Base EXCEPT !.type = "lpm", !.index_range = range, !.changes = 3, !.launches = 2,
                  !.ops = {Lpm(<<0, 1>>, 1, To(0)), Lpm(<<0, 1>>, 1, To(1)), Lpm(<<0, 1>>, 2, To(1)),
                           Lpm(<<1, 1>>, 2, To(0)), Set(Do("none"))},
                  !.packets = <<In(0, 0, k)>>] : k \in {<<0, 1>>, <<1, 1>>}, range \in {2, 4}}
    \cup
    {[Base EXCEPT !.type = "lpm", !.key_size = 16, !.changes = 2,
                  !.ops = {Lpm(<<0, 0>>, 1, To(0)), Lpm(<<0, 1>>, 2, To(1)), Lpm(<<0, 0>>, 0, To(1))},
                  !.packets = <<In(0, 0, <<0, 1>>)>>],
     [Base EXCEPT !.type = "lpm", !.key_size = 17, !.packets = <<In(0, 0, <<0, 1>>)>>]}
    \cup
    {[Base EXCEPT !.type = "ternary", !.changes = 3, !.launches = 2,
                  !.ops = {Tern(<<0, 0>>, <<0, 0>>, To(0)), Tern(<<0, 1>>, <<0, 1>>, To(1)),
                           Tern(<<1, 0>>, <<1, 0>>, Do("drop")), Tern(<<1, 1>>, <<1, 0>>, To(1)),
                           Set(Do("none"))},
                  !.packets = <<In(0, 0, k)>>] : k \in {<<0, 1>>, <<1, 1>>}}

(* two cores, of which one has two receive queues *)
Two == <<Param(0, 0, 0), Param(1, 0, 1), Param(1, 1, 0)>>
Forwarding ==
    {[Base EXCEPT !.params = Two,
                  !.preset = <<Exact(<<0, 1>>, To(1)), Exact(<<1, 1>>, Do("drop")), Set(Do("none"))>>,
                  !.packets = <<In(0, 0, <<0, 1>>), In(0, 0, <<0, 1>>), In(1, 1, k),
                                In(1, 0, <<0, 1>>)>>] : k \in {<<0, 1>>, <<1, 1>>, <<0, 0>>}}

Counting ==
    {[Base EXCEPT !.params = Two, !.preset = <<Set(To(1))>>, !.block = b,
                  !.packets = <<In(0, 0, <<0, 1>>), In(1, 0, <<0, 1>>), In(1, 0, <<0, 1>>)>>] :
        b \in {"plain", "atomic"}}

Racing ==
    {[Base EXCEPT !.params = Two, !.type = "lpm", !.key_size = size,
                  !.preset = <<Lpm(<<0, 1>>, 2, To(1)), Lpm(<<1, 0>>, 2, Do("drop"))>>,
                  !.packets = <<In(0, 0, <<0, 1>>), In(1, 0, <<1, 0>>)>>] : size \in {4, 16}}

(* broadcast, a port without cable, a disabled port, wrong parameters *)
Odd ==
    {[Base EXCEPT !.preset = <<Set(e)>>, !.ports = n, !.mask = {0, 1} \cap 0 .. n - 1,
                  !.packets = <<In(0, 0, <<0, 1>>), In(0, 0, <<0, 1>>), In(0, 0, <<0, 1>>)>>] :
        e \in {Do("broadcast"), To(2)}, n \in {1, 2}}
    \cup
    {[Base EXCEPT !.preset = <<Set(To(1))>>, !.mask = {0},
                  !.packets = <<In(0, 0, <<0, 1>>), In(0, 0, <<0, 1>>)>>],
     [Base EXCEPT !.mask = {1}, !.packets = <<In(0, 0, <<0, 1>>)>>],
     [Base EXCEPT !.params = <<Param(0, 0, 2)>>, !.packets = <<In(0, 0, <<0, 1>>)>>],
     [Base EXCEPT !.params = <<Param(0, 2, 0)>>, !.packets = <<In(0, 2, <<0, 1>>)>>],
     [Base EXCEPT !.params = Two \o Two, !.packets = <<In(0, 0, <<0, 1>>)>>]}

MCScenarios == Changing \cup Forwarding \cup Counting \cup Racing \cup Odd
=============================================================================
