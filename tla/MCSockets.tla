------------------------------ MODULE MCSockets ------------------------------
(* One user, whose connections belong to session a; session b has tokens as well. *)
EXTENDS Sockets, TLC

CONSTANTS a, b, u

SessionA == [s \in Sockets |-> a]
OneUser == [x \in Sessions |-> u]

Symmetry == Permutations(Changes)
=============================================================================
