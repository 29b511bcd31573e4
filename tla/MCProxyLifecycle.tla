-------------------------- MODULE MCProxyLifecycle --------------------------
EXTENDS ProxyLifecycle

SchemeBoth == [p \in Proxies |-> "both"]
\* Row 1 is checked by T2 alone, row 2 by nobody.
SchemesOffT1 == [p \in Proxies |-> IF p = 1 THEN "hysteria2" ELSE "unprobeable"]
=============================================================================
