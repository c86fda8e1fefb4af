---------------------------- MODULE MCVerifyQueue ----------------------------
(* A community c1 and a stranger s1, and what each of them sends. *)
EXTENDS VerifyQueue, TLC

CONSTANTS c1, s1

Sends(c, s) == (c1 :> c) @@ (s1 :> s)
Worlds ==
    {[script |-> Sends(<<"plain", "plain", "plain", "plain">>, <<>>),
      restarts |-> 1, dups |-> 0, movers |-> {}],
     [script |-> Sends(<<"plain", "large", "request">>, <<"request", "plain">>),
      restarts |-> 0, dups |-> 0, movers |-> {}],
     [script |-> Sends(<<"request", "request", "plain">>, <<"plain">>),
      restarts |-> 1, dups |-> 1, movers |-> {}],
     [script |-> Sends(<<"plain", "plain">>, <<"plain", "request", "plain">>),
      restarts |-> 1, dups |-> 0, movers |-> {c1, s1}]}
=============================================================================
