----------------------------- MODULE MCAcpServer -----------------------------
EXTENDS AcpServer
MCSpecs == {"storefront"}
=============================================================================
