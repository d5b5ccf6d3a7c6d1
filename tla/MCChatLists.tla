---------------------------- MODULE MCChatLists ----------------------------
(***************************************************************************)
(* ChatLists for TLC.  One user asks, and what cannot reach that user's    *)
(* lists is left out: other members of groups, messages of others among    *)
(* themselves, whom they name to a group and what they have, and whether   *)
(* what the user has sent to others is seen.                               *)
(***************************************************************************)
EXTENDS ChatLists

\* The last row and the first; a cfg has no negative numbers.
SomeLimits == {-1, 1}

Reader == CHOOSE u \in Users : TRUE

Reaches(m) ==
  IF Reader \in {m.from, m.to} THEN m.seen => m.from # Reader \/ m.to = Reader
  ELSE m.group # NoGroup /\ m.to = NoUser /\ m.has = {}

\* Nothing depends on the query before: every query is gone through from every
\* state of the tables as a handler's first, and one kind of query as a later one.
Ended(h) == task[h].at \in {"idle", "answered"} /\ <<task[h], since[h], stays[h]>> # <<Idle, "none", {}>>

MCNext ==
  /\ Next
  /\ \A h \in Handlers :
       /\ task'[h].user \in {Reader, NoUser}
       /\ Ended(h) => /\ UNCHANGED tables
                      /\ task'[h].op = "groups" /\ task'[h].page = 1 /\ task'[h].limit = 1
  /\ members' \subseteq {Reader} \X Groups
  /\ \A i \in DOMAIN table' : table'[i] = Gone \/ Reaches(table'[i])

MCSpec == Init /\ [][MCNext]_vars /\ \A h \in Handlers : WF_vars(Call(h))
=============================================================================
