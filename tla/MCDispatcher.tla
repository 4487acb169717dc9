---------------------------- MODULE MCDispatcher ----------------------------
(***************************************************************************)
(* Small instances of Dispatcher and of its refinement of TaskContract.    *)
(***************************************************************************)
EXTENDS DispatcherContract, TLC

CONSTANTS c1, c2, i1, i2

Plain == [NoTool EXCEPT !.deadline = TRUE]
PlainStream == [Plain EXCEPT !.stream = TRUE]
Background == [Plain EXCEPT !.keepAlive = TRUE, !.mode = "once", !.window = 1]
Timed == [NoTool EXCEPT !.mode = "timed", !.window = 1]
Unbounded == [Background EXCEPT !.window = 0]
Bounded == [Background EXCEPT !.mode = "permanent", !.max = 1]
Detached == [Plain EXCEPT !.keepAlive = TRUE]

TwoCalls == {c1, c2}
OneId == {i1}
AllTools == {Plain, PlainStream, Unbounded, Timed, Bounded, Background}
DuplicatedTools == {Plain, PlainStream, Unbounded}
LiveTools == {Plain, Detached}

CallSymmetry == Permutations(Calls)
=============================================================================
