-------------------------- MODULE MCMailboxServer --------------------------
(***************************************************************************)
(* A small instance of MailboxServer.                                      *)
(***************************************************************************)
EXTENDS MailboxServer

CONSTANTS f1, f2, f3, k1, k2, k3, m1, m2

A(mode, internal, policy, timeless) ==
    [mode |-> mode, internal |-> internal, policy |-> policy, timeless |-> timeless]

\* Both modes, over a mailbox that is given and over one of its own; one of
\* the four with an identity policy, two with a call without a deadline.
SomeConfigurations ==
    {A("push", TRUE, FALSE, {m1}), A("push", FALSE, FALSE, {}),
     A("pull", TRUE, TRUE, {}), A("pull", FALSE, FALSE, {m1})}

ThreeActivations == {f1, f2, f3}
ThreeSubscriptions == {k1, k2, k3}
TwoMessages == {m1, m2}
OneBroken == {m2}
=============================================================================
