---------------------------- MODULE CtrlPrograms ----------------------------
(***************************************************************************)
(* The controller programs (dpdk_*_controller.c and dpdk_ctrl_common.c).   *)
(* Each has functions that build and send one message, an init that is run *)
(* for every switch that connects, a handler for digests (dhf) and a main. *)
(* A function is modelled by the sequence of messages it sends; a parameter*)
(* of an action or match is its value, bit lengths being left out.         *)
(*                                                                         *)
(* A configuration file is a sequence of lines; a line that sscanf does    *)
(* not accept is Wrong.                                                    *)
(***************************************************************************)
EXTENDS Messages

Wrong == [code |-> "wrong"]
WellFormed(lines) == \A i \in DOMAIN lines : lines[i] # Wrong

(* the lines that are reached by a loop that ends at the first wrong one *)
Reached(lines) ==
    SubSeq(lines, 1, CHOOSE n \in 0 .. Len(lines) :
                        /\ \A i \in 1 .. n : lines[i] # Wrong
                        /\ n < Len(lines) => lines[n + 1] = Wrong)

ForEach(Op(_), lines) == FlattenSeq([i \in DOMAIN lines |-> Op(lines[i])])

notify_controller_initialized == << Initialized >>

(* What a program does: whether main reaches execute_controller, what it    *)
(* has sent by then, and what init sends.                                   *)
Program(starts, boot, init) == [starts |-> starts, boot |-> boot, init |-> init]
-----------------------------------------------------------------------------
(* dpdk_dummy_controller.c                                                  *)
dummy_init == notify_controller_initialized
dummy_dhf(d) == << >>
dummy_main == Program(TRUE, << >>, dummy_init)
-----------------------------------------------------------------------------
(* dpdk_l2fwd_controller.c: lines of a MAC address and its port             *)
l2fwd_fill_smac_table(port, mac) == << Entry("smac_0", <<Exact(mac)>>, "_nop", << >>) >>
l2fwd_fill_dmac_table(port, mac) == << Entry("dmac_0", <<Exact(mac)>>, "forward", <<port>>) >>

(* Mutant: the port has learned the address before the table is filled. *)
SmacFirst(b) ==
    LET mac  == unpack_p4_digest_field(b, 1)
        port == unpack_p4_digest_field(b, 2)
    IN  l2fwd_fill_smac_table(port, mac) \o l2fwd_fill_dmac_table(port, mac)

l2fwd_mac_learn_digest(b) ==
    LET mac  == unpack_p4_digest_field(b, 1)
        port == unpack_p4_digest_field(b, 2)
    IN  l2fwd_fill_dmac_table(port, mac) \o l2fwd_fill_smac_table(port, mac)

l2fwd_test_learn_ip(b) ==
    LET F(i) == unpack_p4_digest_field(b, i)
    IN  << Entry("table1", <<Lpm(<<F(1), F(2)>>)>>, "korte", <<F(3), F(4), F(5)>>) >>

(* Mutant: digests of the first kind are not recognised. *)
DhfOtherName(b) ==
    IF b.name = "test_learn_ip" THEN l2fwd_test_learn_ip(b) ELSE << >>

l2fwd_dhf(b) ==
    IF netconv_p4_header(b).type # "DIGEST" THEN << >>
    ELSE CASE b.name = "mac_learn_digest" -> l2fwd_mac_learn_digest(b)
           [] b.name = "test_learn_ip"    -> l2fwd_test_learn_ip(b)
           [] OTHER                       -> << >>

l2fwd_set_default_action_smac == << DefaultAction("smac_0", "mac_learn", << >>) >>
l2fwd_set_default_action_dmac == << DefaultAction("dmac_0", "bcast", << >>) >>

(* The first MAX_MACS lines are kept.  One more is looked at, and has to be  *)
(* well-formed, before the loop is left.                                    *)
First(n, lines) == SubSeq(lines, 1, IF Len(lines) <= n THEN Len(lines) ELSE n)

l2fwd_read_macs_and_ports_from_file(lines, MAX_MACS) ==
    [ok |-> WellFormed(First(MAX_MACS + 1, lines)), macs |-> First(MAX_MACS, lines)]

(* Mutants: the switch is not told that its tables are filled, or told before. *)
InitWithoutNotice(macs) ==
    LET Fill(m) == l2fwd_fill_dmac_table(m.port, m.mac) \o l2fwd_fill_smac_table(m.port, m.mac)
    IN  l2fwd_set_default_action_smac \o l2fwd_set_default_action_dmac \o ForEach(Fill, macs)

NoticeFirst(macs) == notify_controller_initialized \o InitWithoutNotice(macs)

l2fwd_init(macs) ==
    LET Fill(m) == l2fwd_fill_dmac_table(m.port, m.mac) \o l2fwd_fill_smac_table(m.port, m.mac)
    IN  l2fwd_set_default_action_smac \o l2fwd_set_default_action_dmac
            \o ForEach(Fill, macs) \o notify_controller_initialized

(* MAX_MACS is 60000; the bound only says where the configuration is cut *)
l2fwd_main(lines, MAX_MACS) ==
    LET file == l2fwd_read_macs_and_ports_from_file(lines, MAX_MACS)
    IN  Program(file.ok, << >>, IF file.ok THEN l2fwd_init(file.macs) ELSE << >>)
-----------------------------------------------------------------------------
(* dpdk_psa_l2fwd_controller.c: as l2fwd, with a port of four bytes, of     *)
(* which the last three are 0                                               *)
Wide(port) == <<port, 0, 0, 0>>

psa_fill_smac_table(port, mac) == l2fwd_fill_smac_table(port, mac)
psa_fill_dmac_table(port, mac) ==
    << Entry("dmac_0", <<Exact(mac)>>, "forward", <<Wide(port)>>) >>

psa_mac_learn_digest(b) ==
    LET mac  == unpack_p4_digest_field(b, 1)
        port == unpack_p4_digest_field(b, 2)
    IN  psa_fill_dmac_table(port, mac) \o psa_fill_smac_table(port, mac)

psa_test_learn_ip(b) == l2fwd_test_learn_ip(b)

psa_dhf(b) ==
    IF netconv_p4_header(b).type # "DIGEST" THEN << >>
    ELSE CASE b.name = "mac_learn_digest" -> psa_mac_learn_digest(b)
           [] b.name = "test_learn_ip"    -> psa_test_learn_ip(b)
           [] OTHER                       -> << >>

psa_set_default_action_smac == l2fwd_set_default_action_smac
psa_set_default_action_dmac == l2fwd_set_default_action_dmac
psa_read_macs_and_ports_from_file(lines, MAX_MACS) ==
    l2fwd_read_macs_and_ports_from_file(lines, MAX_MACS)

psa_init(macs) ==
    LET Fill(m) == psa_fill_dmac_table(m.port, m.mac) \o psa_fill_smac_table(m.port, m.mac)
    IN  psa_set_default_action_smac \o psa_set_default_action_dmac
            \o ForEach(Fill, macs) \o notify_controller_initialized

psa_main(lines, MAX_MACS) ==
    LET file == psa_read_macs_and_ports_from_file(lines, MAX_MACS)
    IN  Program(file.ok, << >>, IF file.ok THEN psa_init(file.macs) ELSE << >>)
-----------------------------------------------------------------------------
(* dpdk_l3fwd_controller.c: lines M (MAC address), E (prefix), N (next hop) *)
l3fwd_fill_macfwd_table(mac) == << Entry("macfwd_0", <<Exact(mac)>>, "_nop", << >>) >>
l3fwd_fill_ipv4_lpm_table(ip, prefix, nhgrp) ==
    << Entry("ipv4_lpm_0", <<Lpm(<<ip, prefix>>)>>, "set_nhop", <<nhgrp>>) >>
l3fwd_fill_nexthops_table(nhgroup, port, smac, dmac) ==
    << Entry("nexthops_0", <<Exact(nhgroup)>>, "forward", <<dmac, smac, <<port, 0>>>>) >>

l3fwd_set_default_action_macfwd   == << DefaultAction("macfwd_0", "_drop", << >>) >>
l3fwd_set_default_action_nexthops == << DefaultAction("nexthops_0", "_drop", << >>) >>
l3fwd_set_default_action_ipv4_lpm == << DefaultAction("ipv4_lpm_0", "_drop", << >>) >>

l3fwd_dhf(b) == << >>

l3fwd_init_simple ==
    l3fwd_fill_ipv4_lpm_table("10.0.99.99", 16, 0)
        \o l3fwd_fill_nexthops_table(0, 15, "d2:69:0f:00:00:9c", "d2:69:0f:a8:39:9c")

(* a line with another code is wrong *)
l3fwd_codes == {"M", "E", "N"}

(* a line is sent as soon as it is read *)
l3fwd_read_config_from_file(lines) ==
    LET Line(l) == CASE l.code = "M" -> l3fwd_fill_macfwd_table(l.dmac)
                     [] l.code = "E" -> l3fwd_fill_ipv4_lpm_table(l.ip, l.prefix, l.nhgrp)
                     [] l.code = "N" -> l3fwd_fill_nexthops_table(l.nhgrp, l.port, l.smac, l.dmac)
    IN  ForEach(Line, Reached(lines))

(* whether the file was in order or not, the switch is told that it is done *)
l3fwd_init_complex(lines) ==
    l3fwd_set_default_action_macfwd \o l3fwd_set_default_action_nexthops
        \o l3fwd_set_default_action_ipv4_lpm \o l3fwd_read_config_from_file(lines)
        \o notify_controller_initialized

(* without a file name lines is empty and init_simple is run *)
l3fwd_main(lines) ==
    Program(TRUE, notify_controller_initialized,
            IF lines = << >> THEN l3fwd_init_simple ELSE l3fwd_init_complex(lines))
-----------------------------------------------------------------------------
(* dpdk_portfwd_controller.c: lines of two ports, a flag and a MAC address  *)
portfwd_fill_t_fwd_table(p) ==
    << IF p.wmac
       THEN Entry("t_fwd", <<Exact(p.inport)>>, "forward_rewrite", <<p.port, p.mac>>)
       ELSE Entry("t_fwd", <<Exact(p.inport)>>, "forward", <<p.port>>) >>

portfwd_dhf(b) == << >>

portfwd_set_default_action_t_fwd == << DefaultAction("t_fwd", "_drop", << >>) >>

(* the globals before a line has set them *)
Unset == [inport |-> 0, port |-> 0, wmac |-> FALSE, mac |-> "00:00:00:00:00:00"]

(* port 0 is the uplink, and the last line of each kind counts *)
portfwd_read_config_from_file(lines) ==
    [up   |-> FoldLeft(LAMBDA p, l : IF l.port = 0 THEN l ELSE p, Unset, lines),
     down |-> FoldLeft(LAMBDA p, l : IF l.port # 0 THEN l ELSE p, Unset, lines)]

portfwd_init(link) ==
    portfwd_set_default_action_t_fwd \o portfwd_fill_t_fwd_table(link.up)
        \o portfwd_fill_t_fwd_table(link.down)

portfwd_main(lines) ==
    Program(WellFormed(lines), << >>,
            IF WellFormed(lines) THEN portfwd_init(portfwd_read_config_from_file(lines))
            ELSE << >>)
-----------------------------------------------------------------------------
(* dpdk_smgw_controller.c: a mobile gateway.  Its config lines begin with a *)
(* code, long or short: DMAC, U (user equipment), T (rate limiter), F       *)
(* (filter), E (prefix), N (next hop); M (SMAC) lines are skipped.          *)
smgw_fill_dmac_table(port, mac) == << Entry("dmac", <<Exact(mac)>>, "forward", <<port>>) >>
smgw_fill_ue_selector_table(ip, prefix, mode, teid, ipbst) ==
    << IF mode = 1
       THEN Entry("ue_selector", <<Lpm(<<ip, prefix>>)>>, "gtp_encapsulate", <<teid, ipbst>>)
       ELSE Entry("ue_selector", <<Lpm(<<ip, prefix>>)>>, "gtp_decapsulate", << >>) >>
smgw_fill_teid_rate_limiter_table(teid, mode) ==
    << Entry("teid_rate_limiter", <<Exact(teid)>>,
             CASE mode = 1 -> "apply_meter" [] mode = 2 -> "_nop" [] OTHER -> "_drop", << >>) >>
smgw_fill_m_filter_table(color, mode) ==
    << Entry("m_filter", <<Exact(color)>>, IF mode = 2 THEN "_nop" ELSE "_drop", << >>) >>
smgw_fill_ipv4_lpm_table(ip, prefix, nhgrp) ==
    << Entry("ipv4_lpm", <<Lpm(<<ip, prefix>>)>>, "set_nhgrp", <<nhgrp>>) >>
smgw_fill_ipv4_forward_table(nhgroup, port, smac, dmac) ==
    << Entry("ipv4_forward", <<Exact(nhgroup)>>, "pkt_send", <<dmac, <<port, 0>>>>) >>

smgw_set_default_action_ue_selector_table == << DefaultAction("ue_selector", "drop", << >>) >>
smgw_set_default_action_ipv4_forward == << DefaultAction("ipv4_forward", "drop", << >>) >>
smgw_set_default_action_ipv4_lpm == << DefaultAction("ipv4_lpm", "drop", << >>) >>

smgw_dhf(b) == << >>
smgw_init_simple == smgw_fill_ipv4_lpm_table("10.0.99.99", 16, 0)

(* a line with another code is wrong *)
smgw_codes == {"M", "DMAC", "U", "T", "F", "E", "N"}

(* In T and F lines the mode is compared with a field that holds the code,  *)
(* or with bytes that sscanf wrote as a number: no comparison succeeds, and *)
(* mode is what the last U line left there, or what the variable held at    *)
(* first (garbage).                                                         *)
smgw_mode(lines, i, garbage) ==
    FoldLeft(LAMBDA m, l : IF l.code = "U" THEN l.mode ELSE m, garbage, SubSeq(lines, 1, i))

smgw_read_config_from_file(lines, garbage) ==
    LET good == Reached(lines)
        Line(i, l) ==
            CASE l.code = "M"    -> << >>
              [] l.code = "DMAC" -> smgw_fill_dmac_table(l.port, l.dmac)
              [] l.code = "U"    -> smgw_fill_ue_selector_table(l.ip, 32, l.mode, l.teid, l.ipbst)
              [] l.code = "T"    -> smgw_fill_teid_rate_limiter_table(l.teid,
                                                        smgw_mode(good, i, garbage))
              [] l.code = "F"    -> smgw_fill_m_filter_table(l.color, smgw_mode(good, i, garbage))
              [] l.code = "E"    -> smgw_fill_ipv4_lpm_table(l.ip, l.prefix, l.nhgrp)
              [] l.code = "N"    -> smgw_fill_ipv4_forward_table(l.nhgrp, l.port, l.smac, l.dmac)
    IN  FlattenSeq([i \in DOMAIN good |-> Line(i, good[i])])

(* nothing tells the switch that the controller is done *)
smgw_init_complex(lines, garbage) ==
    smgw_set_default_action_ue_selector_table \o smgw_set_default_action_ipv4_forward
        \o smgw_set_default_action_ipv4_lpm \o smgw_read_config_from_file(lines, garbage)

smgw_main(lines, garbage) ==
    Program(TRUE, << >>, IF lines = << >> THEN smgw_init_simple
                         ELSE smgw_init_complex(lines, garbage))
-----------------------------------------------------------------------------
(* dpdk_state-machine-table_controller.c and ...-register_controller.c      *)
table_fill_state_table(state, function) ==
    << Entry("switch_state_0", <<Exact(state)>>, function, << >>) >>
table_fill_map_flow_to_state_table(flow_id, state) ==
    << Entry("map_flow_to_state_0", <<Exact(flow_id)>>, "existing_flow", <<state>>) >>

(* there is no message to change an entry *)
table_modify_map_flow_to_state_table(flow_id, state) ==
    table_fill_map_flow_to_state_table(flow_id, state)

table_state_update_digest(b) ==
    LET F(i) == unpack_p4_digest_field(b, i)
    IN  IF F(3) = "new" THEN table_fill_map_flow_to_state_table(F(2), F(1))
        ELSE table_modify_map_flow_to_state_table(F(2), F(1))

table_dhf(b) ==
    IF netconv_p4_header(b).type = "DIGEST" /\ b.name = "state_update_digest"
    THEN table_state_update_digest(b) ELSE << >>

table_set_default_action_dmac == << DefaultAction("dmac_0", "forward", <<0>>) >>
table_set_default_action_map_flow_to_state ==
    << DefaultAction("map_flow_to_state_0", "new_flow", << >>) >>

States == <<"new_state", "state1", "state2", "state3", "state4", "state5">>

table_init ==
    table_set_default_action_dmac \o table_set_default_action_map_flow_to_state
        \o FlattenSeq([i \in 1 .. 6 |-> table_fill_state_table(i - 1, States[i])])
        \o notify_controller_initialized
table_main == Program(TRUE, << >>, table_init)

register_fill_state_table(state, function) == table_fill_state_table(state, function)
register_dhf(b) == << >>
register_set_default_action_dmac == table_set_default_action_dmac
register_init ==
    register_set_default_action_dmac
        \o FlattenSeq([i \in 1 .. 6 |-> register_fill_state_table(i - 1, States[i])])
        \o notify_controller_initialized
register_main == Program(TRUE, << >>, register_init)
-----------------------------------------------------------------------------
(* What main does, and the digest handler it registers.  garbage and        *)
(* MAX_MACS are of use to two of the programs only.                         *)
Main(name, lines, garbage, MAX_MACS) ==
    CASE name = "dummy"     -> dummy_main
      [] name = "l2fwd"     -> l2fwd_main(lines, MAX_MACS)
      [] name = "psa_l2fwd" -> psa_main(lines, MAX_MACS)
      [] name = "l3fwd"     -> l3fwd_main(lines)
      [] name = "portfwd"   -> portfwd_main(lines)
      [] name = "smgw"      -> smgw_main(lines, garbage)
      [] name = "table"     -> table_main
      [] name = "register"  -> register_main

Dhf(name, b) ==
    CASE name = "dummy"     -> dummy_dhf(b)
      [] name = "l2fwd"     -> l2fwd_dhf(b)
      [] name = "psa_l2fwd" -> psa_dhf(b)
      [] name = "l3fwd"     -> l3fwd_dhf(b)
      [] name = "portfwd"   -> portfwd_dhf(b)
      [] name = "smgw"      -> smgw_dhf(b)
      [] name = "table"     -> table_dhf(b)
      [] name = "register"  -> register_dhf(b)
=============================================================================
