---------------------------- MODULE MCSpaSession ----------------------------
(* Two accounts on one page, and three clicks.                             *)
EXTENDS SpaSession

CONSTANTS ann, ben, c1, c2, c3

MCAccounts == {ann, ben}
MCClicks == {c1, c2, c3}

=============================================================================
