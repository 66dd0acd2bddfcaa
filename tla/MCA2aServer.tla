----------------------------- MODULE MCA2aServer -----------------------------
EXTENDS A2aServer
MCSpecs == {"storefront"}
=============================================================================
