------------------------ MODULE MCPresenceChallenges ------------------------
(* Model checking of Presence and of Challenges in one run: they share no state and no   *)
(* step, so each takes its steps while the other is where it starts, and every state     *)
(* either of them reaches alone is reached.  Connections and replicas are                *)
(* interchangeable, and so are requests and devices: the configuration gives them the    *)
(* same model values, so that one permutation serves both.                               *)
EXTENDS Presence, Challenges, TLC

\* One initial state of Challenges is enough for Presence to take its steps in.
ChallengesIdle ==
  /\ biometrics = [d \in Devices |-> None]
  /\ passkeys = [c \in Credentials |-> None]
  /\ req = [r \in Requests |-> Idle]
  /\ retired = {}

BothInit == PresenceInit /\ Init

BothNext ==
  \/ ChallengesIdle /\ PresenceNext /\ UNCHANGED vars
  \/ PresenceInit /\ Next /\ UNCHANGED presenceVars

BothSpec == BothInit /\ [][BothNext]_<<presenceVars, vars>>

Symmetry == Permutations(Sockets) \cup Permutations(Replicas)
=============================================================================
