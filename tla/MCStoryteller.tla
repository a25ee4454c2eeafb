---------------------------- MODULE MCStoryteller ----------------------------
(* One storyboard of two scenes, or two storyboards that share a scene.     *)
EXTENDS Storyteller

MCBoards == {<<1, 2>>, <<2, 3>>}
MCBoard == {<<1, 2>>}
=============================================================================
