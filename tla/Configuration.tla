--------------------------- MODULE Configuration ----------------------------
(***************************************************************************)
(* ModMqtt::init (libmodmqttsrv/modmqtt.cpp): from the slaves of the       *)
(* modbus section and the objects of the mqtt section to the registers     *)
(* that each modbus thread polls and the objects that each poll updates.   *)
(* The entries of the file are read in some order; one that is invalid     *)
(* ends the program.  Text is abstract: a topic is its base and what the   *)
(* placeholders were replaced with.                                        *)
(***************************************************************************)
EXTENDS PollSpecification

CONSTANTS
    Networks,         \* names of the modbus networks
    SlaveSections,    \* entries of slaves, and poll_groups, of the networks
    ObjectSections,   \* entries of mqtt.objects
    DefaultRefresh,   \* mqtt.refresh, or 5000 ms
    DefaultMode       \* mqtt.publish_mode, or ON_CHANGE

\* A register as RegisterConfigName finds it: "" and -1 where the network or
\* the slave is left to the defaults.
RegisterName == [network : STRING, slave : Nat \cup {-1}, base : Nat, number : Nat]

\* A range has a register; the code does not check the count of an entry.
GroupEntry == [register : RegisterName, type : RegisterTypes, count : Nat \ {0}]

\* 0 or "" stands for what an entry does not give.
NodeEntry == [register : RegisterName, type : RegisterTypes, count : Nat \ {0}, refresh : Nat,
              part : {"state", "availability"}]

CommandEntry == [name : STRING, register : RegisterName, type : RegisterTypes, count : Nat \ {0}]

AddressRanges == Seq(Int \X Int)

ASSUME ConfigurationAssumption ==
    /\ "" \notin Networks
    /\ \A s \in SlaveSections :
          s \in [network : Networks, addresses : AddressRanges, name : STRING, groups : Seq(GroupEntry)]
    /\ \A o \in ObjectSections :
          o \in [topic : STRING, placeholders : SUBSET STRING, networks : Seq(STRING),
                 slaves : AddressRanges, refresh : Nat, mode : PublishModes \cup {""},
                 nodes : Seq(NodeEntry), commands : Seq(CommandEntry)]
    /\ DefaultRefresh \in Nat \ {0}
    /\ DefaultMode \in PublishModes

VARIABLES
    phase,              \* modbus, mqtt, done, or failed by a ConfigurationException
    unread,             \* entries not read yet
    mPollSpecification, \* of each network, from its poll groups
    mSlaveNames,        \* from network and slave to the slave's name
    mqttSpecs,          \* from the name of a network to what its objects poll
    objects,            \* a sequence
    mCommands,          \* from topic to command
    nextCommandId,
    mObjects,           \* from the ident of a poll to the topics of objects it updates
    mCommandObjects,    \* from the id of a command likewise
    declared            \* history: all that was merged, with its network

vars == <<phase, unread, mPollSpecification, mSlaveNames, mqttSpecs, objects, mCommands,
          nextCommandId, mObjects, mCommandObjects, declared>>

Init ==
    /\ phase = "modbus"
    /\ unread = SlaveSections \cup ObjectSections
    /\ mPollSpecification = [n \in Networks |-> <<>>]
    /\ mSlaveNames = <<>>
    /\ mqttSpecs = <<>>
    /\ objects = <<>>
    /\ mCommands = <<>>
    /\ nextCommandId = 1
    /\ mObjects = <<>>
    /\ mCommandObjects = <<>>
    /\ declared = {}

Fail ==
    /\ phase' = "failed"
    /\ UNCHANGED <<mPollSpecification, mSlaveNames, mqttSpecs, objects, mCommands,
                   nextCommandId, mObjects, mCommandObjects, declared>>

\* f with the pairs of g, which replace those of f
Override(g, f) == [x \in DOMAIN f \cup DOMAIN g |-> IF x \in DOMAIN g THEN g[x] ELSE f[x]]

\* the sequences of a list, one after the other
Concat(seqs) ==
    LET upTo[k \in 0 .. Len(seqs)] ==
            IF k = 0 THEN <<>> ELSE upTo[k - 1] \o seqs[k]
    IN upTo[Len(seqs)]

\* the addresses of the ranges in a list, in its order
Addresses(ranges) ==
    Concat([i \in DOMAIN ranges |-> [j \in 1 .. ranges[i][2] - ranges[i][1] + 1 |-> ranges[i][1] + j - 1]])

InvalidRange(r) == r[1] < 0 \/ r[2] > 256 \/ r[1] > r[2]

----------------------------------------------------------------------------
(***************************************************************************)
(* RegisterConfigName: the register of an entry names its network and its  *)
(* slave, or the entry has them as defaults.                               *)
(***************************************************************************)
InvalidName(r, network, slave) ==
    \/ r.network = "" /\ network = ""
    \/ r.slave = -1 /\ slave = -1
    \/ r.base # 16 /\ r.number = 0

NetworkOf(r, network) == IF r.network # "" THEN r.network ELSE network

SlaveOf(r, slave) == IF r.slave # -1 THEN r.slave ELSE slave

\* hexadecimal numbers are 0-based, others 1-based
RegisterNumber(r) == IF r.base = 16 THEN r.number ELSE r.number - 1

----------------------------------------------------------------------------
(***************************************************************************)
(* initModbusClients                                                       *)
(***************************************************************************)

\* readModbusPollGroups; the network in the name of a register is not looked at
PollGroups(s, address) ==
    [i \in DOMAIN s.groups |->
        LET g == s.groups[i]
        IN PollGroup(SlaveOf(g.register, address), g.type, RegisterNumber(g.register), g.count)]

\* the poll groups of the network itself have no slave, their registers name it
SlaveAddresses(s) == IF s.addresses = <<>> THEN <<-1>> ELSE Addresses(s.addresses)

InvalidSlaves(s) ==
    \/ \E i \in DOMAIN s.addresses : InvalidRange(s.addresses[i])
    \/ \E i \in DOMAIN s.groups, a \in Range(SlaveAddresses(s)) :
          InvalidName(s.groups[i].register, s.network, a)

ReadSlaves(s) ==
    LET addresses == SlaveAddresses(s)
        polls == Concat([i \in DOMAIN addresses |-> PollGroups(s, addresses[i])])
        names == IF s.name = "" THEN <<>>
                 ELSE [k \in {s.network} \X Range(addresses) |-> s.name]
    IN
    /\ phase = "modbus" /\ s \in unread
    /\ unread' = unread \ {s}
    /\ IF InvalidSlaves(s) THEN Fail
       ELSE /\ mPollSpecification' = [mPollSpecification EXCEPT ![s.network] = MergeAll(@, polls)]
            /\ mSlaveNames' = Override(names, mSlaveNames)
            /\ declared' = declared \cup ({s.network} \X Range(polls))
            /\ UNCHANGED <<phase, mqttSpecs, objects, mCommands, nextCommandId, mObjects,
                           mCommandObjects>>

\* the file has no more slaves
ModbusRead ==
    /\ phase = "modbus"
    /\ phase' = "mqtt"
    /\ UNCHANGED <<unread, mPollSpecification, mSlaveNames, mqttSpecs, objects, mCommands,
                   nextCommandId, mObjects, mCommandObjects, declared>>

----------------------------------------------------------------------------
(***************************************************************************)
(* initObjects.  One entry makes an object for each of its networks and    *)
(* slaves.                                                                 *)
(***************************************************************************)
Instances(o) ==
    LET networks == IF o.networks = <<>> THEN <<"">> ELSE o.networks
        slaves == IF o.slaves = <<>> THEN <<-1>> ELSE Addresses(o.slaves)
    IN Concat([i \in DOMAIN networks |->
           [j \in DOMAIN slaves |-> [network |-> networks[i], slave |-> slaves[j]]]])

SlaveName(i) ==
    IF <<i.network, i.slave>> \in DOMAIN mSlaveNames THEN mSlaveNames[<<i.network, i.slave>>] ELSE ""

\* parseObject replaces the placeholders
Topic(o, i) ==
    [base |-> o.topic,
     network |-> IF "network" \in o.placeholders THEN i.network ELSE "",
     slave |-> IF "slave_address" \in o.placeholders THEN i.slave ELSE -1,
     name |-> IF "slave_name" \in o.placeholders THEN SlaveName(i) ELSE ""]

InvalidTopic(o, i) ==
    \/ o.placeholders \cap {"network", "slave_name"} # {} /\ i.network = ""
    \/ o.placeholders \cap {"slave_address", "slave_name"} # {} /\ i.slave = -1
    \/ "slave_name" \in o.placeholders /\ SlaveName(i) = ""

\* parseObjectDataNode and updateSpecification: what a data node polls
NodePoll(o, i, node) ==
    [slave |-> SlaveOf(node.register, i.slave), type |-> node.type,
     register |-> RegisterNumber(node.register), count |-> node.count,
     refresh |-> IF node.refresh # 0 THEN node.refresh
                 ELSE IF o.refresh # 0 THEN o.refresh ELSE DefaultRefresh,
     mode |-> IF o.mode # "" THEN o.mode ELSE DefaultMode]

\* of all data nodes, those of the availability section last
NodePolls(o, i) ==
    [k \in DOMAIN o.nodes |-> [network |-> NetworkOf(o.nodes[k].register, i.network),
                               part |-> o.nodes[k].part,
                               poll |-> NodePoll(o, i, o.nodes[k])]]

UpdateSpecification(specs, n) ==
    LET old == IF n.network \in DOMAIN specs THEN specs[n.network] ELSE <<>>
    IN Override([x \in {n.network} |-> Merge(old, n.poll)], specs)

UpdateSpecifications(specs, nodes) ==
    LET after[k \in 0 .. Len(nodes)] ==
            IF k = 0 THEN specs ELSE UpdateSpecification(after[k - 1], nodes[k])
    IN after[Len(nodes)]

\* parseObjectCommand
CommandOf(o, i, c, id) ==
    [id |-> id, topic |-> [object |-> Topic(o, i), name |-> c.name],
     network |-> NetworkOf(c.register, i.network), slave |-> SlaveOf(c.register, i.slave),
     type |-> c.type, register |-> RegisterNumber(c.register), count |-> c.count]

\* mCommands.insert keeps a command that has the topic already
AddCommand(commands, c) == Override(commands, [t \in {c.topic} |-> c])

AddCommands(commands, new) ==
    LET after[k \in 0 .. Len(new)] ==
            IF k = 0 THEN commands ELSE AddCommand(after[k - 1], new[k])
    IN after[Len(new)]

InvalidObject(o) ==
    LET instances == Instances(o)
        topics == [k \in DOMAIN instances |-> Topic(o, instances[k])]
    IN
    \/ \E k \in DOMAIN o.networks : o.networks[k] \notin Networks
    \/ \E k \in DOMAIN o.slaves : InvalidRange(o.slaves[k])
    \/ ~IsInjective(Addresses(o.slaves))
    \/ \E k \in DOMAIN instances :
          LET i == instances[k]
          IN \/ InvalidTopic(o, i)
             \/ \E j \in DOMAIN o.nodes : InvalidName(o.nodes[j].register, i.network, i.slave)
             \/ \E j \in DOMAIN o.commands : InvalidName(o.commands[j].register, i.network, i.slave)
    \/ ~IsInjective(topics)
    \/ \E k \in DOMAIN objects : objects[k].topic \in Range(topics)

ReadObject(o) ==
    LET instances == Instances(o)
        made == [k \in DOMAIN instances |-> [topic |-> Topic(o, instances[k]),
                                             nodes |-> NodePolls(o, instances[k])]]
        nodes == Concat([k \in DOMAIN made |-> made[k].nodes])
        n == Len(o.commands)
        commands == Concat([k \in DOMAIN instances |-> [j \in 1 .. n |->
                        CommandOf(o, instances[k], o.commands[j], nextCommandId + (k - 1) * n + j - 1)]])
    IN
    /\ phase = "mqtt" /\ o \in unread
    /\ unread' = unread \ {o}
    /\ IF InvalidObject(o) THEN Fail
       ELSE /\ objects' = objects \o made
            /\ mqttSpecs' = UpdateSpecifications(mqttSpecs, nodes)
            /\ mCommands' = AddCommands(mCommands, commands)
            /\ nextCommandId' = nextCommandId + Len(commands)
            /\ declared' = declared \cup {<<nodes[k].network, nodes[k].poll>> : k \in DOMAIN nodes}
            /\ UNCHANGED <<phase, mPollSpecification, mSlaveNames, mObjects, mCommandObjects>>

----------------------------------------------------------------------------
(***************************************************************************)
(* The rest of init                                                        *)
(***************************************************************************)

\* poll groups and objects of a network together; without objects the groups stay
FinalSpecification(n) ==
    IF n \in DOMAIN mqttSpecs THEN MergeAll(mPollSpecification[n], mqttSpecs[n])
                              ELSE mPollSpecification[n]

Ident(network, p) == [network |-> network, slave |-> p.slave, type |-> p.type, register |-> p.register]

HasRegisterIn_StateOnly(o, network, range) ==
    \E k \in DOMAIN o.nodes :
        LET node == o.nodes[k]
        IN /\ node.part = "state"
           /\ node.network = network /\ node.poll.slave = range.slave /\ Overlaps(range, node.poll)

\* a register of the object's state or availability is in the range
HasRegisterIn(o, network, range) ==
    \E k \in DOMAIN o.nodes :
        LET node == o.nodes[k]
        IN node.network = network /\ node.poll.slave = range.slave /\ Overlaps(range, node.poll)

ObjectsIn(network, range) ==
    {objects[k].topic : k \in {j \in DOMAIN objects : HasRegisterIn(objects[j], network, range)}}

MapObjects ==
    LET polls == UNION {{n} \X Range(FinalSpecification(n)) : n \in Networks}
        commands == {mCommands[t] : t \in DOMAIN mCommands}
        used == {x \in polls : ObjectsIn(x[1], x[2]) # {}}
        echoed == {c \in commands : ObjectsIn(c.network, c) # {}}
    IN
    /\ phase = "mqtt"
    /\ phase' = "done"
    /\ mPollSpecification' = [n \in Networks |-> FinalSpecification(n)]
    /\ mObjects' = [id \in {Ident(x[1], x[2]) : x \in used} |->
                       UNION {ObjectsIn(x[1], x[2]) : x \in {y \in used : Ident(y[1], y[2]) = id}}]
    /\ mCommandObjects' = [id \in {c.id : c \in echoed} |->
                              UNION {ObjectsIn(c.network, c) : c \in {d \in echoed : d.id = id}}]
    /\ UNCHANGED <<unread, mSlaveNames, mqttSpecs, objects, mCommands, nextCommandId, declared>>

\* the polls a modbus thread keeps; a network without objects gets no specification
Polled(n) ==
    IF n \in DOMAIN mqttSpecs
    THEN {p \in Range(mPollSpecification[n]) : p.refresh # INVALID_REFRESH}
    ELSE {}

Next ==
    \/ \E s \in SlaveSections : ReadSlaves(s)
    \/ ModbusRead
    \/ \E o \in ObjectSections : ReadObject(o)
    \/ MapObjects

Spec == Init /\ [][Next]_vars

----------------------------------------------------------------------------
(***************************************************************************)
(* Properties                                                              *)
(***************************************************************************)
Rank(mode) == CASE mode = "ONCE" -> 0 [] mode = "ON_CHANGE" -> 1 [] mode = "EVERY_POLL" -> 2

\* what the entries of the file have declared for network n
DeclaredFor(n) == {d[2] : d \in {x \in declared : x[1] = n}}

\* what is declared, among polls, for the registers of entry p
Inside(polls, p) ==
    {q \in polls : q.slave = p.slave /\ q.type = p.type /\ Registers(q) \cap Registers(p) # {}}

Refreshes(polls) == {p.refresh : p \in polls} \ {INVALID_REFRESH}

\* p has the registers of polls, which overlap one after the other, the
\* shortest of their periods and the strongest of their modes.
IsJoinOf(p, polls) ==
    /\ Registers(p) = UNION {Registers(q) : q \in polls}
    /\ \A r \in Registers(p) \ {LastRegister(p)} :
           \E q, t \in polls : r \in Registers(q) /\ r + 1 \in Registers(t) /\ (q = t \/ Overlaps(q, t))
    /\ p.refresh = IF Refreshes(polls) = {} THEN INVALID_REFRESH ELSE Min(Refreshes(polls))
    /\ Rank(p.mode) = Max({Rank(q.mode) : q \in polls})

\* No two entries share a register, every poll lies in an entry, and every
\* entry is the join of the polls in it.
IsUnionOf(spec, polls) ==
    /\ \A i, j \in DOMAIN spec : i # j /\ spec[i].slave = spec[j].slave => ~Overlaps(spec[i], spec[j])
    /\ \A d \in polls : \E i \in DOMAIN spec :
           /\ spec[i].slave = d.slave /\ spec[i].type = d.type
           /\ Registers(d) \subseteq Registers(spec[i])
    /\ \A i \in DOMAIN spec : IsJoinOf(spec[i], Inside(polls, spec[i]))

(***************************************************************************)
(* What init sends to the modbus threads after any number of merges        *)
(* (MsgRegisterPollSpecification::merge) is determined by what was         *)
(* declared and not by the order of the file: no two entries of a slave    *)
(* share a register, every declared range lies in one entry, an entry has  *)
(* no register nobody declared and joins only ranges that overlap, and its *)
(* period and publish mode are the shortest and the strongest declared in  *)
(* it.                                                                     *)
(***************************************************************************)
SpecificationIsUnion ==
    phase = "done" => \A n \in Networks : IsUnionOf(mPollSpecification[n], DeclaredFor(n))

(***************************************************************************)
(* Every register of every object is served: exactly one entry that the    *)
(* modbus thread of its network polls contains it, at least as often and   *)
(* in at least as strong a mode as declared, and MqttClient finds the      *)
(* object under the ident of that entry.  And MqttClient finds objects for *)
(* every entry that is polled, as processRegisterValues asserts.           *)
(***************************************************************************)
RegistersServed ==
    phase = "done" =>
        /\ \A k \in DOMAIN objects : \A j \in DOMAIN objects[k].nodes :
              LET node == objects[k].nodes[j]
                  serving(r) == {p \in Polled(node.network) :
                      /\ p.slave = node.poll.slave /\ p.type = node.poll.type /\ r \in Registers(p)}
              IN node.network \in Networks => \A r \in Registers(node.poll) :
                    /\ Cardinality(serving(r)) = 1
                    /\ \A p \in serving(r) :
                          /\ p.refresh <= node.poll.refresh
                          /\ Rank(p.mode) >= Rank(node.poll.mode)
                          /\ Ident(node.network, p) \in DOMAIN mObjects
                          /\ objects[k].topic \in mObjects[Ident(node.network, p)]
        /\ \A n \in Networks : \A p \in Polled(n) : Ident(n, p) \in DOMAIN mObjects
=============================================================================
