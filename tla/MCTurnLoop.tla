----------------------------- MODULE MCTurnLoop -----------------------------
(* What tests say of the turn loop and the code does not keep to. *)
EXTENDS TurnLoop

\* tests/test_agent_loop.py: a finished call's output is in the next request, and
\* only dangling calls are repaired.  Here for every way a provider writes calls.
EveryOutputReachesTheModel == ShowsHistory => OutputsAreShown(items, prompt)
=============================================================================
