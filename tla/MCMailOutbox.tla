---------------------------- MODULE MCMailOutbox ----------------------------
(* MailOutbox for TLC: one or two sends, two surfaces to press Send on, one  *)
(* sweep.                                                                    *)
EXTENDS MailOutbox

CONSTANTS k1, k2, w1

MCOne      == {1}
MCTwo      == {1, 2}
MCOneClick == {k1}
MCClicks   == {k1, k2}
MCSweeps   == {w1}
=============================================================================
