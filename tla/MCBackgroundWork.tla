-------------------------- MODULE MCBackgroundWork --------------------------
(* Two relay passes, and two activity passes beside an application that    *)
(* dispatches and publishes; every pass has a name of its own.             *)
EXTENDS BackgroundWork

W(i, c) == [id |-> i, content |-> c]

(* Records that fill segments, one too large for any, and an ID used twice.*)
MixedWrites == {W(1, 1), W(2, 1), W(2, 5), W(3, 2)}

OwnName == [p \in RelayPass |-> p]

OwnNames == [d \in Dispatcher |-> d]
=============================================================================
