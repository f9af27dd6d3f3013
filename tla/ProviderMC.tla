----------------------------- MODULE ProviderMC -----------------------------
(* Retry-After values on both sides of what the provider honours.          *)
EXTENDS Provider
Headers == {-1, 0, 60, 61}
=============================================================================
