----------------------------- MODULE MCAskGate -----------------------------
(* AskGate for TLC: one key that the spec asks about and one it allows. *)
EXTENDS AskGate, TLC

CONSTANTS k1, k2

MCSpecRule == (k1 :> "ask") @@ (NoKey :> "ask") @@ (k2 :> "allow")

AllAsked == [k \in {k1, k2, NoKey} |-> "ask"]

FewAnswers == {<<"allow", "session">>, <<"deny", "always">>}
AllAnswers == Verdicts \X Tiers

ChainedCalls == {<<NoKey>>, <<k2, k1>>}
Chains == {<<k1, k2>>, <<k2>>}

=============================================================================
