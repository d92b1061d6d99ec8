---------------------------- MODULE MCStatusIcon ----------------------------
(* A second default style may be installed while a node shows the first.    *)
EXTENDS StatusIcon

MCStatus == {"Updated", "Processing"}
Style(pixmap) == [icon |-> [s \in MCStatus |-> pixmap], resolution |-> 1]
MCDefaults == {Style("plain"), Style("bright")}
=============================================================================
