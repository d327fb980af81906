------------------------------ MODULE MCAccounts ------------------------------
(* The instance TLC checks: one account, two calls on it at a time, two of the *)
(* modules that are told of a deletion.                                        *)
EXTENDS Accounts

CONSTANTS u1, c1, c2

MCUsers == {u1}
MCCalls == {c1, c2}
MCModules == <<"meetup", "billing">>

(* An account two verifications short of the highest level.                    *)
MCPasts == {{"linkedin", "legalName", "work"}}

=============================================================================
