----------------------------- MODULE MCAddControl ----------------------------
(* Up to four jobs: p, s (s2) and c are a parallel add, single adds and a scrape *)
(* started in the mini-app, b, t and d a parallel, a single and a direct add  *)
(* started in the bot's chat.                                                *)
EXTENDS AddControl

CONSTANTS p, s, s2, c, b, t, d
=============================================================================
