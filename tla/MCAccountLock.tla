---------------------------- MODULE MCAccountLock ----------------------------
(* One or two accounts; s a scan, t a live test, m an account opened in the  *)
(* bot's chat, a a single add, d a deletion.                                 *)
EXTENDS AccountLock

CONSTANTS p, q, s, t, m, a, d
=============================================================================
