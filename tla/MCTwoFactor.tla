---------------------------- MODULE MCTwoFactor ----------------------------
\* TwoFactor with two logins of one user, who has backup codes when the record
\* is locked, and TOTP codes alone when logins race on it.  Some steps share a
\* code: neighbours 1 and 2, which one verification may both try (the code is
\* accepted as 1, and again as 2), and 0 and 3, which it may not.
EXTENDS TwoFactor

CONSTANTS l1, l2, x0, x1, x2, b1, b2, b3

MCLogins == {l1, l2}
MCCodes == {x0, x1, x2}
MCBackupCodes == {b1, b2, b3}
MCSettings == {[locked |-> TRUE, codes |-> MCBackupCodes], [locked |-> FALSE, codes |-> {}]}
MCCodeOf(s) == CASE s \in {1, 2} -> x1 [] s \in {0, 3} -> x0 [] OTHER -> x2
=============================================================================
