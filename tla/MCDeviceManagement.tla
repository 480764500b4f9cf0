------------------------- MODULE MCDeviceManagement -------------------------
\* Instances of DeviceManagement for TLC.
EXTENDS DeviceManagement

Req(op, uri) ==
    [op |-> op, uri |-> uri, observe |-> 0, token |-> TRUE, items |-> <<>>, id |-> None,
     plain |-> FALSE, args |-> FALSE, query |-> FALSE, attr |-> Bad, accept |-> "fits"]

Item(r, v) == [id |-> r, multi |-> FALSE, val |-> v]

Attr(pmin, pmax, clear) ==
    [set |-> (IF pmin = None THEN {} ELSE {"pmin"}) \cup (IF pmax = None THEN {} ELSE {"pmax"}),
     clear |-> clear, pmin |-> IF pmin = None THEN 0 ELSE pmin,
     pmax |-> IF pmax = None THEN 0 ELSE pmax, gt |-> 0, lt |-> 0, st |-> 0]

Battery == <<Device, 0, 9>>
TestRes == <<Test, 10, 3>>

MCRequests ==
    {Req("observe", Battery), Req("observe", <<Test, 10>>), Req("observe", TestRes),
     [Req("observe", Battery) EXCEPT !.observe = 1, !.accept = "fails"],
     [Req("observe", Battery) EXCEPT !.observe = 2],
     [Req("observe", TestRes) EXCEPT !.accept = "other"],
     [Req("put", Battery) EXCEPT !.query = TRUE, !.attr = Attr(1, 2, {})],
     [Req("put", Battery) EXCEPT !.query = TRUE, !.attr = Attr(None, None, {"pmax"})],
     [Req("put", TestRes) EXCEPT !.query = TRUE,
        !.attr = [Attr(None, None, {}) EXCEPT !.set = {"gt"}, !.gt = 1]],
     [Req("put", <<Test, 10>>) EXCEPT !.items = <<Item(1, Bad)>>],
     [Req("post", <<Test, 10>>) EXCEPT !.items = <<Item(3, Bad)>>],
     [Req("put", <<AccessControl, 0, 2>>) EXCEPT
        !.items = <<[id |-> 2, multi |-> TRUE, val |-> (0 :> 0) @@ (1 :> Out)]>>],
     [Req("post", <<Test>>) EXCEPT !.items = <<Item(1, 1)>>, !.id = 10],
     [Req("post", <<Test>>) EXCEPT !.items = <<Item(1, Out)>>],
     [Req("post", <<Test>>) EXCEPT !.items = <<Item(1, 1)>>, !.id = Bad],
     [Req("post", <<Firmware, 0, 2>>) EXCEPT !.plain = TRUE, !.args = TRUE],
     [Req("post", <<Device, 0, 12>>) EXCEPT !.plain = TRUE],
     Req("discover", <<Test>>), Req("get", <<Location, 0>>),
     Req("delete", <<Test, 10>>)}

\* Server 1 observes the battery with both periods.
MCPreludes ==
    {<<<<1, [Req("put", Battery) EXCEPT !.query = TRUE, !.attr = Attr(1, 2, {})]>>,
       <<1, Req("observe", Battery)>>>>}

\* The last two are a report without a value and a text that is no number.
MCChanges ==
    {[uri |-> Battery, val |-> 1], [uri |-> TestRes, val |-> 2],
     [uri |-> <<AccessControl, 0, 2, 0>>, val |-> 2],
     [uri |-> <<Test>>, val |-> None], [uri |-> TestRes, val |-> Bad]}
=============================================================================
