---------------------------- MODULE MCRpcClient -----------------------------
(***************************************************************************)
(* Small instances of RpcClient.                                           *)
(***************************************************************************)
EXTENDS RpcClient, TLC

CONSTANTS c1, c2, i1, i2

TwoCalls == {c1, c2}
TwoIds == {i1, i2}
OneEach == (c1 :> i1) @@ (c2 :> i2)
BothKinds == {"http", "mailbox"}

Asks(u, t) == [timeout |-> u, tool |-> t, headers |-> FALSE]
Plain == {Asks(Unset, Unset)}
Timeouts == {Asks(Unset, 2), Asks(1, 0)}
=============================================================================
