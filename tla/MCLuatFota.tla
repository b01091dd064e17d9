------------------------------ MODULE MCLuatFota ------------------------------
(* Small instances of LuatFota *)
EXTENDS LuatFota

CONSTANTS full, other, badhead, badbody, scripts, noapp

MCPackages == {full, other, badhead, badbody, scripts, noapp}
MCBadHead == {badhead}
MCBadBody == {badbody}
MCScriptOnly == {scripts}
MCNoApp == {noapp}
=============================================================================
