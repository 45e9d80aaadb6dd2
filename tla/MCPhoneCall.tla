---------------------------- MODULE MCPhoneCall ----------------------------
(***************************************************************************)
(* PhoneCall for TLC: two letters, a socket buffer of one frame and a half.*)
(***************************************************************************)
EXTENDS PhoneCall

CONSTANTS m1, m2, v
MCByte == {1, 2, 32, m1, m2, v}
=============================================================================
