------------------------------- MODULE MCFwup -------------------------------
(* Small instances of Fwup: two clients that pass good and bad images in    *)
(* pieces and race for a session                                            *)
EXTENDS Fwup

CONSTANTS c1, c2, good, badheader, badbody

MCClients == {c1, c2}
MCImages == {good, badheader, badbody}
MCBadHeader == {badheader}
MCBadBody == {badbody}
MCOneImage == {good}
MCEmpty == {}
=============================================================================
