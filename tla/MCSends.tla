------------------------------ MODULE MCSends ------------------------------
(* An instance of Runner: two sends, or one and two acts of the user, or a *)
(* run and one send or act.                                                *)
EXTENDS Runner

CONSTANTS c1, e1, e2

(* e1 is of the whole workspace, e2 of collection c1. *)
TheEnvCollection == e1 :> None @@ e2 :> c1

Secret == [value |-> <<"pw">>, secret |-> TRUE, on |-> TRUE]
Off == [value |-> <<"0">>, secret |-> FALSE, on |-> FALSE]

Has(ks) == [k \in Keys |-> IF k \in DOMAIN ks THEN ks[k] ELSE <<>>]

Rows0(ws, inC, inE) ==
    [s \in Scopes |-> CASE s = Workspace -> Has(ws) [] s = c1 -> Has(inC)
                        [] s = e1 -> Has(inE) [] OTHER -> Empty]

(* A key has two rows, the second one disabled. *)
TheRows ==
    {Rows0("k" :> <<Secret>> @@ "l" :> <<Row(<<"0">>), Off>>,
           "k" :> <<Row(<<"0">>)>>, "l" :> <<Off>>)}

(* A secret may stand in the URL, in the rest, or go there as an API key. *)
Draft(url, text, keyed) ==
    [url |-> url, text |-> text, shown |-> <<"l">>, pass |-> <<"k">>, keyed |-> keyed]

TheDrafts == {Draft(<<"l">>, <<"k">>, FALSE), Draft(<<>>, <<"k", "l">>, TRUE)}

Script(set, unset) == [set |-> set, unset |-> unset]

(* l becomes what k is; k is overwritten and l goes. *)
ThePreScripts == {Script("l" :> <<"k">>, {}), Script("k" :> <<"1">>, {"l"})}

ThePostScripts == {Script(<<>>, {}), Script("l" :> <<"2">>, {"k"})}

TheEdits == {[Secret EXCEPT !.value = <<"9">>]}

TheRetentions == {-1, 1}

TheRequests == c1 :> 3
TheNames == c1 :> "api"
=============================================================================
