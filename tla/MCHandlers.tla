---------------------------- MODULE MCHandlers ----------------------------
(* Handlers instantiated for TLC: one model name of each family, and the  *)
(* configured models of the family of their provider.                     *)
EXTENDS Handlers, TLC

CONSTANTS c1, c2, mClaude, mGpt, mOther

MCFamily == (mClaude :> "claude") @@ (mGpt :> "gpt") @@ (mOther :> "other")
MCCfgModel == ("anthropic" :> mClaude) @@ ("openai" :> mGpt)
=============================================================================
