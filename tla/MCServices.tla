------------------------------ MODULE MCServices ------------------------------
(* Services with a host, a member and one who joins late.                    *)
EXTENDS Services

CONSTANTS host1, member, late

TwoSeated == {host1, member}
OneJoiner == {late}
===============================================================================
