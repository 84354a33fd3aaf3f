----------------------------- MODULE MCVision ------------------------------
EXTENDS Vision

\* Two cameras with pictures of one size and one with larger ones.
Sources == {"local", "usb", "ip"}
Sizes == [c \in Sources |-> IF c = "ip" THEN 2 ELSE 1]
=============================================================================
