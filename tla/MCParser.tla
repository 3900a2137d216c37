------------------------------ MODULE MCParser ------------------------------
(* Documents for TLC: one page before and after its class was renamed, once    *)
(* with an id that CSS needs escaped and another text, and a page with         *)
(* something else.                                                           *)
EXTENDS AdaptiveParser

El(tag, id, class) == [tag |-> tag, id |-> id, class |-> class, text |-> "t"]
Reworded(e) == [e EXCEPT !.text = "u"]
Pages == {<<El("p", "", ""), El("div", "x", "old")>>,
          <<El("p", "x", "old"), El("div", "x", "new")>>,
          <<Reworded(El("div", "", "old")), Reworded(El("div", "1", "new"))>>,
          <<El("p", "", "other")>>}
Prices == {[tag |-> "div", id |-> "", class |-> "old"]}
=============================================================================
