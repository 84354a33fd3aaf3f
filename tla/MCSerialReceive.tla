-------------------------- MODULE MCSerialReceive --------------------------
EXTENDS SerialReceive

\* The start byte and each end byte also occur in the data, and one number is
\* negative.
Reports ==
  {[x |-> 300, y |-> 85, height |-> 165, pid |-> -2],
   [x |-> 85 * 256 + 165, y |-> 5 * 256 + 170, height |-> 85, pid |-> 300]}
=============================================================================
