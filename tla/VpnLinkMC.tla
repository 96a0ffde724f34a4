---- MODULE VpnLinkMC ----
EXTENDS VpnLink
====
