----------------------------- MODULE MCBrowserPool -----------------------------
(* A small instance of BrowserPool for TLC.                                *)
EXTENDS BrowserPool

CONSTANTS s1, s2, b1, b2
================================================================================
