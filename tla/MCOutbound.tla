----------------------------- MODULE MCOutbound -----------------------------
(* Instances of Outbound for TLC.                                          *)
EXTENDS Outbound

(* Short last pages, an empty one after full ones, one that never ends.    *)
SomeUpstreams == {<<0, 0, 0>>, <<1, 2, 2>>, <<3, 2, 3>>, <<3, 0, 3>>, <<3, 3, 3>>}

=============================================================================
