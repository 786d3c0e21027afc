--------------------------- MODULE MCInboundHook ---------------------------
(* The inbound webhook for TLC: one delivery of each kind that the code    *)
(* tells apart.                                                            *)
EXTENDS InboundHookProps

Good == [parses |-> TRUE, scheme |-> "https", host |-> "peer", userinfo |-> FALSE,
         port |-> "none", sendable |-> TRUE]

Urls == {Good, [Good EXCEPT !.sendable = FALSE], [Good EXCEPT !.host = "ip"],
         [Good EXCEPT !.host = "own"]}

Plain == [sig |-> "body", stamp |-> NoStamp, bearer |-> FALSE, json |-> "object",
          urls |-> <<Nil, Nil, Nil>>]

Messages ==
    {[Plain EXCEPT !.urls = <<Nil, u, Good>>] : u \in Urls}
    \cup {[Plain EXCEPT !.stamp = 1], [Plain EXCEPT !.stamp = 0, !.sig = "stamped"],
          [Plain EXCEPT !.sig = "none", !.bearer = TRUE, !.json = "raises"]}

Hosts == {"peer", "ip", "own"}
Literals == [h \in {"ip"} |-> "private"]
Answers == {<<"public1">>, <<"public2", "public1">>, <<"public1", "private">>,
            <<"private", "public2">>, << >>}
=============================================================================
