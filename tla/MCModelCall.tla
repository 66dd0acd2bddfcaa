----------------------------- MODULE MCModelCall -----------------------------
EXTENDS ModelCall
MCProviders == {"a", "b", "c"}
MCUnknown == "gpt"
MCNoName == "-"
=============================================================================
