---------------------------- MODULE MCController ----------------------------
(* Instances of Controller: every program with a small configuration and one *)
(* switch, two and three switches, switches that leave, a small queue, a     *)
(* pause that is too short, and wakeups without a signal.                   *)
EXTENDS Controller

MCMaxSwitches == 3
MCMaxDigests  == 2

Run(name, lines, digests) ==
    [name |-> name, lines |-> lines, garbage |-> 0, maxMacs |-> 2, switches |-> 1,
     leave |-> FALSE, capacity |-> 16, digests |-> digests,
     sleepCovers |-> TRUE, wakes |-> 0]

Mac(mac, port)  == [mac |-> mac, port |-> port]

(* The fields of a digest: with the bits that the code generated for the     *)
(* digests of a P4 program passes, and with the bytes that                   *)
(* extern_Digest_pack passes.  (The port is below 256.)                      *)
Field(value, bytes, length) == [value |-> value, bytes |-> bytes, length |-> length]
InBits(value, bytes) == Field(value, bytes, 8 * bytes)

MacLearn(mac, port) ==
    [name |-> "mac_learn_digest", fields |-> <<InBits(mac, 6), Field(port, 1, 9)>>]
extern_Digest_pack(mac, port) ==
    [name |-> "mac_learn_digest", fields |-> <<Field(mac, 6, 6), Field(port, 1, 4)>>]
LearnIp ==
    [name |-> "test_learn_ip",
     fields |-> <<InBits("ip", 4), InBits(16, 2), InBits(1, 4), InBits(2, 4), InBits(3, 4)>>]
Other   == [name |-> "unknown", fields |-> << >>]
Update(state, flow, kind) ==
    [name |-> "state_update_digest",
     fields |-> <<InBits(state, 4), InBits(flow, 4), InBits(kind, 1)>>]

l3fwd_lines == << [code |-> "M", dmac |-> "m1"],
                  [code |-> "E", ip |-> "i1", prefix |-> 24, nhgrp |-> 1],
                  [code |-> "N", nhgrp |-> 1, port |-> 2, smac |-> "m2", dmac |-> "m3"] >>
smgw_lines ==
    << [code |-> "DMAC", port |-> 1, dmac |-> "m1"], [code |-> "M"],
       [code |-> "T", teid |-> 7],
       [code |-> "U", ip |-> "i1", mode |-> 1, teid |-> 7, ipbst |-> "i2"],
       [code |-> "F", color |-> 0],
       [code |-> "U", ip |-> "i3", mode |-> 2, teid |-> 8, ipbst |-> "i2"],
       [code |-> "T", teid |-> 8],
       [code |-> "E", ip |-> "i4", prefix |-> 24, nhgrp |-> 1],
       [code |-> "N", nhgrp |-> 1, port |-> 2, smac |-> "m2", dmac |-> "m3"] >>
portfwd_lines == << [inport |-> 1, port |-> 0, wmac |-> FALSE, mac |-> "m1"],
                    [inport |-> 0, port |-> 1, wmac |-> TRUE, mac |-> "m2"] >>

Sole1 ==
    {[Run("dummy", << >>, <<MacLearn("a", 1)>>) EXCEPT !.wakes = 1],
     Run("l2fwd", <<Mac("m1", 1)>>, <<MacLearn("a", 1), LearnIp>>),
     Run("l2fwd", << >>, <<Other, MacLearn("a", 1)>>),
     Run("l2fwd", <<Mac("m1", 1), Mac("m2", 2), Mac("m3", 3)>>, << >>),
     Run("psa_l2fwd", <<Mac("m1", 1)>>, <<MacLearn("a", 2), LearnIp>>),
     Run("psa_l2fwd", << >>, <<extern_Digest_pack("a", 2)>>),
     Run("l3fwd", l3fwd_lines, << >>),
     Run("l3fwd", << >>, << >>),
     Run("l3fwd", l3fwd_lines \o <<Wrong>> \o l3fwd_lines, <<Other>>),
     Run("portfwd", portfwd_lines, << >>),
     Run("smgw", smgw_lines, << >>),
     Run("smgw", << >>, << >>),
     Run("table", << >>, <<Update(1, "f", "new"), Update(2, "f", "old")>>),
     Run("register", << >>, << >>)}

Shared ==
    {[Run("l3fwd", << >>, << >>) EXCEPT !.switches = 2],
     [Run("smgw", << >>, << >>) EXCEPT !.switches = 2, !.sleepCovers = FALSE, !.wakes = 1],
     [Run("dummy", << >>, <<MacLearn("a", 1)>>) EXCEPT !.switches = 2, !.wakes = 1],
     [Run("dummy", << >>, << >>) EXCEPT !.switches = 3]}

Leaving ==
    {[Run("dummy", << >>, <<Other>>) EXCEPT !.switches = 2, !.leave = TRUE],
     [Run("smgw", << >>, << >>) EXCEPT !.switches = 2, !.leave = TRUE]}

Small == {[Run("l2fwd", <<Mac("m1", 1)>>, << >>) EXCEPT !.capacity = 3]}

Packed == {Run("psa_l2fwd", <<Mac("m1", 1)>>, <<extern_Digest_pack("a", 2)>>)}

MCScenarios == Sole1 \cup Shared \cup Leaving \cup Small
=============================================================================
