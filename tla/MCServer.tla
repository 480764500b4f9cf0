------------------------------ MODULE MCServer ------------------------------
(* Instances of Server for TLC.                                            *)
EXTENDS Server

CONSTANTS a, b, s1, s2, s3

\* One endpoint; each has a session of its own; a moves between two.
Single == {<<a, s1>>}
Fixed  == {<<a, s1>>, <<b, s2>>}
Moving == {<<a, s1>>, <<a, s2>>, <<b, s3>>}

Link(o, i) == [object |-> o, instance |-> i]

ObjectUri   == {Link(3, NoInstance)}
InstanceUri == {Link(3, 1)}
BothUris    == ObjectUri \cup InstanceUri

\* Without object list, with the observed object, without it.
AnyPayload  == {{}, {Link(3, 0), Link(3, 1)}, {Link(5, 0)}}
KeepPayload == {{}, {Link(3, 0), Link(3, 1)}}
NoPayload   == {{}}
============================================================================
