---------------------------- MODULE MCChatSession ----------------------------
EXTENDS ChatSession
MCSpecs == {"storefront", "ledger"}
=============================================================================
