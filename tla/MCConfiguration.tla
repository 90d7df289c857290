-------------------------- MODULE MCConfiguration ---------------------------
(***************************************************************************)
(* Files made of these entries, any selection of them in any order.        *)
(***************************************************************************)
EXTENDS Configuration

Hex(number) == [network |-> "", slave |-> -1, base |-> 16, number |-> number]
Decimal(number) == [Hex(number) EXCEPT !.base = 10]
OnSlave(slave, r) == [r EXCEPT !.slave = slave]
OnNetwork(network, r) == [r EXCEPT !.network = network]

Group(register, count) == [register |-> register, type |-> "holding", count |-> count]

Node(register, count, refresh) ==
    [register |-> register, type |-> "holding", count |-> count, refresh |-> refresh, part |-> "state"]

Availability(register) == [Node(register, 1, 0) EXCEPT !.part = "availability"]

Command(name, register, count) ==
    [name |-> name, register |-> register, type |-> "holding", count |-> count]

Object(topic, placeholders, networks, slaves, refresh, mode, nodes, commands) ==
    [topic |-> topic, placeholders |-> placeholders, networks |-> networks, slaves |-> slaves,
     refresh |-> refresh, mode |-> mode, nodes |-> nodes, commands |-> commands]

MCSlaveSections ==
    { \* two slaves with a name and a group that joins registers
      [network |-> "rtu", addresses |-> <<<<1, 2>>>>, name |-> "meter", groups |-> <<Group(Hex(2), 3)>>],
      \* slave 2 once more, with another name and overlapping groups
      [network |-> "rtu", addresses |-> <<<<2, 2>>>>, name |-> "pump",
       groups |-> <<Group(Decimal(1), 2), Group(Hex(6), 2)>>],
      \* poll_groups of the network
      [network |-> "rtu", addresses |-> <<>>, name |-> "", groups |-> <<Group(OnSlave(1, Hex(4)), 3)>>],
      \* a reversed range of addresses
      [network |-> "rtu", addresses |-> <<<<4, 3>>>>, name |-> "", groups |-> <<>>] }

MCObjectSections ==
    { \* one object for each of two slaves, with availability
      Object("temp", {"slave_name"}, <<"rtu">>, <<<<1, 2>>>>, 0, "",
             <<Node(Hex(1), 2, 0), Node(Hex(7), 1, 2), Availability(Hex(5))>>,
             <<Command("set", Hex(1), 1), Command("reset", Hex(9), 1)>>),
      Object("level", {}, <<>>, <<>>, 3, "EVERY_POLL",
             <<Node(OnNetwork("rtu", OnSlave(1, Decimal(4))), 1, 0),
               Node(OnNetwork("tcp", OnSlave(1, Hex(4))), 2, 1)>>,
             <<Command("set", OnNetwork("rtu", OnSlave(1, Hex(3))), 4),
               Command("set", OnNetwork("tcp", OnSlave(1, Hex(0))), 1)>>),
      \* a register in a network nobody declared
      Object("flow", {"network"}, <<"rtu">>, <<<<1, 1>>>>, 6, "ONCE",
             <<Node(OnNetwork("old", Hex(3)), 1, 0), Node(Hex(0), 2, 0)>>, <<>>),
      \* a topic that is the same for both networks
      Object("sum", {"slave_address"}, <<"rtu", "tcp">>, <<<<2, 2>>>>, 1, "", <<Node(Hex(3), 3, 0)>>, <<>>),
      \* 0 is no decimal register
      Object("zero", {}, <<"tcp">>, <<<<1, 1>>>>, 0, "", <<Node(Decimal(0), 1, 0)>>, <<>>),
      Object("both", {"network", "slave_address"}, <<"rtu", "tcp">>, <<<<1, 1>>, <<3, 3>>>>, 2, "ONCE",
             <<Node(Hex(0), 1, 4), Node(Decimal(6), 3, 0)>>, <<>>) }
=============================================================================
