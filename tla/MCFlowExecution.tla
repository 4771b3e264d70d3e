--------------------------- MODULE MCFlowExecution ---------------------------
(* Programs small enough for TLC.  "main" has a retry of inline commands, one *)
(* of them an optional runFlow; "loop" a repeat and a retry of a linked flow. *)
EXTENDS FlowExecution

Leaf(outcomes) ==
    [kind |-> "leaf", children |-> <<>>, linked |-> NoFlow, optional |-> FALSE, limit |-> 1,
     conditional |-> FALSE, session |-> "integrity" \in outcomes, evaluation |-> {},
     outcomes |-> outcomes]
Composite(kind, children, flow, limit, conditional, optional) ==
    [kind |-> kind, children |-> children, linked |-> flow, optional |-> optional, limit |-> limit,
     conditional |-> conditional, session |-> conditional, evaluation |-> {},
     outcomes |-> {}]

MCCommands == {"prepare", "again", "tap", "login", "copy", "back", "cleanup",
               "type", "visit", "logout", "each", "swipe", "never", "linked", "open", "shut"}
MCFlows == {"main", "session", "loop", "screen"}
MCCommand ==
    [prepare |-> Leaf({NoError, "configuration", "integrity"}),
     again   |-> Composite("retry", <<"tap", "login">>, NoFlow, 2, FALSE, FALSE),
     tap     |-> [Leaf({NoError, "lost"}) EXCEPT !.optional = TRUE],
     login   |-> Composite("runFlow", <<>>, "session", 1, TRUE, FALSE),
     copy    |-> Leaf({NoError, "integrity"}),
     back    |-> Leaf({NoError, "retryable"}),
     cleanup |-> [Leaf({NoError}) EXCEPT !.evaluation = {"failure"}],
     type    |-> [Leaf({NoError, "lost"}) EXCEPT !.evaluation = {"configuration"}],
     visit   |-> [Composite("runFlow", <<>>, "screen", 1, FALSE, TRUE) EXCEPT !.outcomes = {"retryable"}],
     logout  |-> Leaf({NoError, "cancelled", "integrity"}),
     each    |-> [Composite("repeat", <<"swipe">>, NoFlow, 2, TRUE, FALSE) EXCEPT !.outcomes = {"configuration"}],
     swipe   |-> Leaf({NoError, "retryable"}),
     never   |-> Composite("repeat", <<"swipe">>, NoFlow, 0, FALSE, FALSE),
     linked  |-> [Composite("retry", <<>>, "screen", 2, FALSE, FALSE) EXCEPT !.outcomes = {"configuration"}],
     open    |-> Leaf({NoError, "retryable", "skipped"}),
     shut    |-> Leaf({NoError, "retryable", "integrity"})]
MCFlow ==
    [main    |-> [onStart |-> <<"prepare">>, body |-> <<"again", "copy", "back">>, onComplete |-> <<"cleanup">>,
                  app |-> "shop", refusable |-> FALSE],
     session |-> [onStart |-> <<>>, body |-> <<"type", "visit">>, onComplete |-> <<"logout">>,
                  app |-> "bank", refusable |-> TRUE],
     loop    |-> [onStart |-> <<>>, body |-> <<"each", "never", "linked">>, onComplete |-> <<"cleanup">>,
                  app |-> "shop", refusable |-> TRUE],
     screen  |-> [onStart |-> <<"open">>, body |-> <<"swipe">>, onComplete |-> <<"shut">>,
                  app |-> "bank", refusable |-> TRUE]]
==============================================================================
