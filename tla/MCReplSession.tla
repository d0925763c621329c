--------------------------- MODULE MCReplSession ---------------------------
(* The library that the kernel includes itself, which the user may          *)
(* override, and a file that only the user makes.                           *)
EXTENDS ReplSession

CONSTANTS lib, user

MCNames == {lib, user}

=============================================================================
