--------------------------- MODULE MCResourceSync ---------------------------
(* Small worlds for ResourceSync.                                          *)
EXTENDS ResourceSync

Names ==
    [tenant |-> {"t"}, zone |-> {"z1", "z2"}, hypervisor |-> {"h", "h2"},
     security_group |-> {"g1", "g2"}, rule |-> {"u1", "u2"}, network |-> {"n"},
     subnet |-> {"s"}, floating_ip |-> {"f"}, router |-> {"r"}, storage |-> {"st"},
     volume |-> {"v"}, snapshot |-> {"vs", "vs2"}, keypair |-> {"k"}, instance |-> {"vm"},
     spec |-> {"sp"}, interface |-> {"rs"}, instance_network |-> {"vn"},
     instance_volume |-> {"vv"}, instance_sg |-> {"vg"}, script |-> {"us"}]

MCRes == UNION Range(Names)
MCKindOf == [x \in MCRes |-> CHOOSE k \in DOMAIN Names : x \in Names[k]]

MCHome ==
    [x \in MCRes |->
        CASE x = "s" -> "n"
          [] x = "u1" -> "g1"
          [] x = "u2" -> "g2"
          [] x = "rs" -> "r"
          [] x \in {"vn", "vv", "vg", "us"} -> "vm"
          [] OTHER -> "none"]

C(refs, attr) == [here |-> TRUE, refs |-> refs, attr |-> attr]

\* What a resource names at first.
Names1(x) ==
    CASE x \in {"n", "r", "g1", "g2"} -> {"t"}
      [] x = "s" -> {"n"}
      [] x = "f" -> {"t", "n"}
      [] x = "rs" -> {"r", "s"}
      [] x \in {"h", "h2"} -> {"z1"}
      [] x = "vm" -> {"t", "z1", "h", "sp", "k"}
      [] x = "vn" -> {"vm", "n", "s", "f"}
      [] x = "vv" -> {"vm", "v"}
      [] x = "vg" -> {"vm", "g1"}
      [] x = "u1" -> {"g1", "g2"}
      [] x = "u2" -> {"g2", "g1"}
      [] x = "v" -> {"t", "st"}
      [] x \in {"vs", "vs2"} -> {"v"}
      [] x = "us" -> {"vm"}
      [] OTHER -> {}

MCStart == [x \in MCRes |-> C(Names1(x), 0)]

MCForm ==
    [x \in MCRes |->
        CASE x = "h" -> {C({"z1"}, 0), C({"z2"}, 0)}
          [] x = "vm" -> {C(Names1("vm"), 0), C({"t", "z2", "h", "sp", "k"}, 0)}
          [] x = "vn" -> {C({"vm", "n", "s", "f"}, 0), C({"vm", "n", "s"}, 0)}
          [] x \in {"n", "z1"} -> {C(Names1(x), 0), C(Names1(x), 1)}
          [] OTHER -> {C(Names1(x), 0)}]

Networking == {"t", "n", "s", "f", "r", "rs"}
Computing == {"t", "z1", "z2", "h", "sp", "k", "vm", "us"}
Attached == {"t", "z1", "h", "sp", "vm", "n", "s", "f", "vn", "k"}
Grouped == {"t", "g1", "g2", "u1", "u2"}
Stored == {"t", "st", "v", "vs"}
Serving == {"t", "z1", "h", "sp", "k", "vm", "st", "v", "vv", "g1", "vg"}

Snapshots == {"t", "st", "v", "vs", "vs2"}

MCScopes == {Networking, Computing, Attached, Grouped, Stored, Serving}
SnapshotScopes == {Snapshots}
=============================================================================
