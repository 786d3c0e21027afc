---------------------------- MODULE MCAnswerPath ----------------------------
(* Values for TLC: sizes around the limit, JSON of all kinds, echoes, and  *)
(* fields of every kind at every place of the order.                       *)
EXTENDS AnswerPathProps, TLC

V(kind) == [kind |-> kind, blocks |-> << >>]
List(blocks) == [kind |-> "list", blocks |-> blocks]
Names == {KeyOrder[i] : i \in 1 .. 6}
Fields == [k \in Names |-> V("missing")]

Good == [json |-> "object", run_id |-> "own", request_id |-> "falsy",
         value |-> [Fields EXCEPT !["answer"] = V("text")]]

Intake ==
    {[Good EXCEPT !.json = "other"], [Good EXCEPT !.json = "raises"]}
    \cup {[Good EXCEPT !.run_id = "falsy", !.request_id = e] : e \in Echoes}
    \cup {[Good EXCEPT !.run_id = "odd", !.request_id = "own"],
          [Good EXCEPT !.run_id = "foreign", !.request_id = "own"]}

(* Two fields with a text; a blank, a list or another value before one;    *)
(* lists as content; a value in every field but none to use.               *)
Texts ==
    {[Good EXCEPT !.value = [Fields EXCEPT ![j] = V("text"), ![k] = V("text")]] :
        j, k \in Names}
    \cup {[Good EXCEPT !.value = [Fields EXCEPT !["result"] = V("text"), ![k] = v]] :
        k \in {"answer", "content"}, v \in {V("blank"), V("other"), List(<<"text">>)}}
    \cup {[Good EXCEPT !.value = [Fields EXCEPT !["content"] = List(s), !["text"] = V("text")]] :
        s \in {<<"other">>, <<"text", "other", "text">>}}
    \cup {[Good EXCEPT !.value = Fields], [Good EXCEPT !.value = [k \in Names |-> V("other")]]}

Bodies == Intake \cup Texts
Sizes == {0, MaxBody, MaxBody + 1}
Lengths == {NoLength, BadLength, MaxBody, MaxBody + 1}
RawMaxWaits == {Unset, Garbled, 0, 9}
Asks == {-1, 0, 1, 9}

Symmetry == Permutations(Call)
=============================================================================
