---------------------------- MODULE MCUIConfig ----------------------------
(* Definitions for model checking UIConfig: every kind of definition is     *)
(* among the lines, with valid, invalid and boundary values.                *)
EXTENDS UIConfig

L(l2, l3, l4, v) == Def("local", None, l2, None, l3, l4, v, 0)
G(id, l2, l3, l4, v) == Def("group", id, l2, None, l3, l4, v, 0)
R(id, l2, l3, l4, v) == Def("remote", id, l2, None, l3, l4, v, 0)
Member(id, cat, name) == Def("remote", id, "group", None, "", "", name, cat)
Net(id, n, l3, v) == Def("remote", id, "subnet", n, l3, "", v, 0)
Sub(l1, n, l3, v) == Def(l1, n, "subnet", None, l3, "", v, 0)

PriBase == <<L("hostname", "", "", 1), L("address", "", "", 1),
             G(1, "name", "", "", 1), G(1, "category", "", "", 1),
             G(3, "name", "", "", 2), G(3, "category", "", "", 2),
             R(1, "hostname", "", "", 1), R(1, "address", "", "", 1),
             Net(1, 1, "address", 1), Member(1, 1, 1), Member(1, 2, 2)>>
SecBase == <<L("hostname", "", "", 1), L("address", "", "", 1),
             Sub("local", 1, "address", 1),
             R(None, "hostname", "", "", 2), R(None, "address", "", "", 2),
             Sub("remote", 1, "address", 1)>>

PriLines == {L("hostname", "", "", 2), L("address", "", "", 2),
             L("ipver", "", "", 6), L("port", "", "", 2000),
             L("genkey", "", "", 1), L("encryption", "", "", 2),
             L("fifo", "s2uname", "", 3), L("rekey", "packets", "", 2000),
             L("array", "use", "", 1), L("array", "data", "packets", 5000),
             G(1, "name", "", "", 1), G(2, "name", "", "", 1),
             G(255, "name", "", "", 1), G(2, "category", "", "", 1),
             G(1, "category", "", "", 2), G(1, "category", "", "", 5),
             G(1, "rekey", "time", "", 600), G(1, "rekey", "time", "", 601),
             G(1, "array", "use", "", 2), G(1, "array", "control", "time", 900),
             R(1, "hostname", "", "", 2), R(2, "address", "", "", 2),
             R(1, "ipver", "", "", 6), R(1, "heartbeat", "time", "", 15),
             R(1, "array", "size", "", 64), R(1, "port", "", "", 2000),
             Net(1, 1, "ipver", 6), Net(1, 2, "address", 2),
             Member(1, 1, 1), Member(1, 2, 1), Member(1, 3, 1),
             Member(1, 5, 1),
             L("array", "time", "", 900), L("fifo", "", "", 1),
             G(1, "array", "data", "", 5000), R(1, "heartbeat", "", "", 15)}
SecLines == {L("hostname", "", "", 2), L("ipver", "", "", 6),
             L("port", "", "", 2000), Sub("local", 1, "ipver", 6),
             Sub("local", 2, "address", 2), Sub("local", 2, "ipver", 4),
             Sub("local", 3, "address", 0),
             R(None, "port", "", "", 1024), R(None, "port", "", "", 1025),
             Sub("remote", 2, "address", 2), Sub("remote", 1, "ipver", 6),
             G(1, "name", "", "", 1), Sub("local", 1, "", 1)}

MCLines == [r \in {"primary", "secondary"} |->
               IF r = "primary" THEN PriLines ELSE SecLines]
MCBase == [r \in {"primary", "secondary"} |->
              IF r = "primary" THEN PriBase ELSE SecBase]
=============================================================================
