------------------------------- MODULE MCLobby -------------------------------
(* A creator and four other users, one more than the deployment lets play,  *)
(* and two requests in flight.                                              *)
EXTENDS Lobby

\* A lobby for two, one for as many as the deployment lets play, and one whose
\* creator chose a member to play first.
MCSettings ==
  {[max_players |-> 2, first_player |-> "Random"], [max_players |-> 4, first_player |-> "Creator"]}
  \cup [max_players : {4}, first_player : Users]

\* Requests in flight are interchangeable, and so are the users other than the
\* creator: seats, not names, order them.
Symmetry == Permutations(Slots) \cup Permutations(Users \ {Creator})
=============================================================================
