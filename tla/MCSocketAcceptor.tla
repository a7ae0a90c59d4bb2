-------------------------- MODULE MCSocketAcceptor --------------------------
(***************************************************************************)
(* Instances of SocketAcceptor for TLC.                                    *)
(***************************************************************************)
EXTENDS SocketAcceptor, TLC

\* Clients are interchangeable, and so are descriptors.
SafetySymmetry == Permutations(Clients) \cup Permutations(FDs)
=============================================================================
