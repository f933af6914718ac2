---------------------------- MODULE MCReviewPage ----------------------------
(* Instances of ReviewPage for TLC: two findings of one level, in two views. *)
EXTENDS ReviewPage

MCParagraph == {1, 2}
MCLevel == [p \in MCParagraph |-> 3]
MCScore == [p \in MCParagraph |-> 90 - p]
MCPosition == [p \in MCParagraph |-> p]
MCView == {"first", "second"}
MCFilter == [first |-> "all", second |-> "pending"]
MCOrder == [first |-> "recommended", second |-> "score_desc"]
MCEarlier == {[p \in MCParagraph |-> IF p = 1 THEN "accept" ELSE "none"]}

=============================================================================
