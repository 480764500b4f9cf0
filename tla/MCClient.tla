------------------------------ MODULE MCClient ------------------------------
\* Instances of Client for TLC.
EXTENDS Client

Server(short, order, boot, attempts, sequences) ==
    [shortID |-> short, lifetime |-> 3, binding |-> "U", order |-> order, delay |-> Absent,
     blocking |-> Absent, bootstrap |-> boot, attempts |-> attempts, attemptDelay |-> 1,
     sequenceDelay |-> 1, sequences |-> sequences]

BsAccount == [uri |-> 1, bootstrap |-> TRUE, shortID |-> 0, holdOff |-> 1]

Account1(uri, short) == [uri |-> uri, bootstrap |-> FALSE, shortID |-> short, holdOff |-> 0]

\* Two servers in order; one server that is called; one server and a bootstrap
\* server; a bootstrap server only.
RegScenarios ==
    {[sec |-> (1 :> Account1(1, 1)) @@ (2 :> Account1(1, 2)),
      serverObj |-> (0 :> Server(1, 1, FALSE, 1, 2)) @@ (1 :> Server(2, 2, FALSE, 1, 1)),
      calls |-> 0],
     [sec |-> (1 :> Account1(1, 1)), serverObj |-> (0 :> Server(1, Absent, FALSE, 2, 2)),
      calls |-> 2]}

BootScenarios ==
    {[sec |-> (0 :> BsAccount) @@ (1 :> Account1(1, 1)),
      serverObj |-> (0 :> Server(1, Absent, Absent, 1, 1)), calls |-> 2],
     [sec |-> (0 :> BsAccount), serverObj |-> (0 :> Server(1, Absent, Absent, 1, 1)),
      calls |-> 2]}

MCScenarios == RegScenarios \cup BootScenarios

Item(inst, data, instance) == [inst |-> inst, data |-> data, instance |-> instance]

Put(obj, inst, data) == [op |-> "put", obj |-> obj, inst |-> inst,
                         items |-> <<Item(inst, data, TRUE)>>]

\* Without instance in the URI: two instances; none; an instance and a resource.
PutAll == {[op |-> "put", obj |-> 0, inst |-> All, items |-> s] :
             s \in {<<Item(0, BsAccount, TRUE), Item(2, Account1(2, 1), TRUE)>>,
                   << >>,
                   <<Item(2, Account1(2, 1), TRUE), Item(0, BsAccount, FALSE)>>}}

MCCommands ==
    {[op |-> "finish"], [op |-> "deleteAll"], [op |-> "get"],
     [op |-> "delete", obj |-> 0, inst |-> All], [op |-> "delete", obj |-> 0, inst |-> 0],
     [op |-> "delete", obj |-> 1, inst |-> All],
     Put(0, 1, Account1(2, 1)), Put(0, 0, [BsAccount EXCEPT !.uri = 2]),
     Put(0, 1, [Account1(2, 1) EXCEPT !.shortID = Bad]),
     Put(1, 0, Server(1, Absent, Absent, 2, 1))} \cup PutAll
=============================================================================
