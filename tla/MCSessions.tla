----------------------------- MODULE MCSessions -----------------------------
(* Small instances of Sessions: which device each connection comes from.   *)
EXTENDS Sessions, TLC

\* All connections come from one device: replacement after replacement.
OneDevice == [c \in Conn |-> CHOOSE i \in Id : TRUE]

ConnSymmetry == Permutations(Conn)

=============================================================================
