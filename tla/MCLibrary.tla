----------------------------- MODULE MCLibrary -----------------------------
(* A guest, the account it signs in to, and a stranger.                     *)
EXTENDS Library, TLC

CONSTANTS guest, account, stranger, v1, v2, s1, m1, d1, d2

Load(todo, users) ==
  [todo |-> todo, users |-> users, events |-> {}, merges |-> 0, visits |-> 2,
   deaths |-> 0, starts |-> 0, edits |-> 0, deletes |-> 0]

(* Voices and a cover beside a sign-in; a voice beside an instance that     *)
(* starts, deleted and renamed; a song and the video of it, deleted while   *)
(* events and the poller deliver them; the same beside a sign-in.           *)
Loads ==
  {[Load({v1, s1}, {guest, account}) EXCEPT !.merges = 1],
   [Load({v1, v2, s1}, {guest, stranger}) EXCEPT !.deletes = 1],
   [Load({v1}, {guest}) EXCEPT !.merges = 1, !.deaths = 1, !.starts = 2, !.edits = 1, !.deletes = 1],
   [Load({s1, m1}, {guest}) EXCEPT !.deletes = 2, !.edits = 1, !.events = {s1}],
   [Load({s1, m1}, {guest, account}) EXCEPT !.merges = 1, !.deaths = 1, !.events = {m1}]}
=============================================================================
