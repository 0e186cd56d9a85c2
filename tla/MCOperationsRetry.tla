-------------------------- MODULE MCOperationsRetry --------------------------
(***************************************************************************)
(* An instance of OperationsRetry for TLC: two administrators who may      *)
(* demote each other, one of whom gives a financial command or a retry.    *)
(***************************************************************************)
EXTENDS OperationsRetry

CONSTANTS alice, bob, financial, retry

MCUsers == {alice, bob}
MCCommands == {financial, retry}
MCRetries == {retry}
MCActor == [c \in MCCommands |-> alice]
=============================================================================
